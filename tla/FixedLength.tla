---------------------------- MODULE FixedLength ----------------------------
(***************************************************************************)
(* fixed_length_class.h: what DECLARE_FIXED_LENGTH_CLASS generates, a      *)
(* record in a buffer of characters, with fields at fixed positions.  Both *)
(* buffers are marked, and are the same; each field has the position and   *)
(* the length that the macro is given (PosLenOfField), from position 1 on, *)
(* one field after the other.                                              *)
(***************************************************************************)
EXTENDS StrUtil

CONSTANT PosLenOfField

ASSUME FixedLengthAssumption ==
    /\ PosLenOfField # <<>> /\ PosLenOfField[1].pos = 1
    /\ PosLenOfField \in Seq([pos : Nat \ {0}, len : Nat \ {0}])
    /\ \A j, k \in DOMAIN PosLenOfField :
           j < k => PosLenOfField[j].pos + PosLenOfField[j].len <= PosLenOfField[k].pos

FieldCount == Len(PosLenOfField)
LastEnum == FieldCount - 1
FieldsOf == 0 .. LastEnum

PositionOf(f) == IF f \in FieldsOf THEN PosLenOfField[f + 1].pos - 1 ELSE 0
LengthOf(f) == IF f \in FieldsOf THEN PosLenOfField[f + 1].len ELSE 0
FixedLength == PosLenOfField[FieldCount].pos + LengthOf(LastEnum) - PosLenOfField[1].pos

\* Of the enumerators, the functions below but the last take all but the last.
Accepted(f) == f >= 0 /\ f < LastEnum

\* memcpy() and memset().
Copied(buf, pos, text) ==
    [k \in DOMAIN buf |-> IF k \in pos + 1 .. pos + Len(text) THEN text[k - pos] ELSE buf[k]]
Repeat(c, n) == [k \in 1 .. n |-> c]

GetField(buf, f) ==
    IF Accepted(f) THEN SubSeq(buf, PositionOf(f) + 1, PositionOf(f) + LengthOf(f)) ELSE <<>>

\* set_field(int, const char* ): to the start of the buffer, for every field.
SetFieldRaw(buf, f, raw) ==
    IF Accepted(f) THEN Copied(buf, 0, SubSeq(raw, 1, LengthOf(f))) ELSE buf

GetFieldAsU64(buf, f) == ToUint(TrimSpace(GetField(buf, f)))

\* Fault: a number is put at the left of its field.
SetFieldNumberLeft(buf, f, digits, fill) ==
    IF ~Accepted(f) THEN buf
    ELSE Copied(buf, PositionOf(f), digits \o Repeat(fill, LengthOf(f) - Len(digits)))

\* A number that is too long begins before its field.
SetFieldNumber(buf, f, digits, fill) ==
    IF ~Accepted(f) THEN buf
    ELSE LET room == LengthOf(f) - Len(digits)
         IN Copied(Copied(buf, PositionOf(f), Repeat(fill, room)), PositionOf(f) + room, digits)

SetFieldText(buf, f, text, fill) ==
    LET room == LengthOf(f) - Len(text)
        kept == SubSeq(text, 1, IF room < 0 THEN LengthOf(f) ELSE Len(text))
    IN Copied(Copied(buf, PositionOf(f) + Len(text), Repeat(fill, room)), PositionOf(f), kept)

-----------------------------------------------------------------------------
(***************************************************************************)
(* A field holds what it was last set to (told), whatever is set in the    *)
(* others, in the buffer and as GetField() gives it, and a digit reads as  *)
(* that number.  Said of nothing: reading the last field, which GetField() *)
(* does not accept; a raw value for another field than the first, to which *)
(* it goes; and a number too long for its field, which begins before it.   *)
(***************************************************************************)
FieldsKept(buf, told) ==
    /\ Len(buf) = FixedLength
    /\ \A f \in FieldsOf :
           /\ SubSeq(buf, PositionOf(f) + 1, PositionOf(f) + LengthOf(f)) = told[f]
           /\ f # LastEnum => GetField(buf, f) = told[f]
    /\ \A f \in FieldsOf \ {0, LastEnum}, fill \in {Space, "0"} :
           GetFieldAsU64(SetFieldNumber(buf, f, <<"1">>, fill), f) = 1
=============================================================================
