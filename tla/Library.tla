------------------------------ MODULE Library ------------------------------
(***************************************************************************)
(* The parts of the library that stand alone, each used by a client of its *)
(* own: one object (obj) and legal calls on it, or, for FileUtil, threads  *)
(* that move files.  In a behaviour one part moves, chosen at the start.   *)
(***************************************************************************)
EXTENDS Moment, CTime, BitVector, FixedLength, IniFile, DirUtil, FileUtil, TLC

CONSTANTS
    Moments1,       \* moments that are added and taken away
    MaxSec,         \* bound: seconds of the moment
    Times, Steps,   \* times, and seconds that pass
    Sizes,          \* sizes of bit vectors
    Numbers,        \* digits, texts and fillings put in fields
    Characters, MaxText,    \* texts: characters, bound on the length
    IniLines, MaxLines,     \* lines of files, bound on their number
    Entries, MaxEntries     \* entries of a directory, bound on their number

\* The times looked at: from two days before the summer to two days after it.
FirstTime == DstBegin - 2 * DAY
LastTime == DstEnd + 2 * DAY

\* They are times of one year, of the local one and of that of UTC.
ASSUME LibraryAssumption ==
    /\ \A m \in Moments1 : m \in Moments /\ m.sec >= 0
    /\ Times \subseteq FirstTime .. LastTime
    /\ FirstTime >= 0 /\ FirstTime + StdOffset >= 0
    /\ LastTime < 365 * DAY /\ LastTime + StdOffset + HOUR < 365 * DAY
    /\ \A n \in Sizes : \E w \in SUBSET WordBits : n = NumberOf(w)
    /\ Numbers \subseteq Seq(Characters \cup DigitChars)
    /\ IniLines \subseteq Lines
    /\ Entries \subseteq [ino : Nat, kind : DOMAIN ModeBits]

VARIABLES part, obj

vars == <<part, obj, fileVars>>

Is(name) == part = name /\ UNCHANGED <<part, fileVars>>
Becomes(new) == obj' = new

AllZero == [f \in FieldsOf |-> Repeat("0", LengthOf(f))]

LibraryInit ==
    /\ \/ part = "moment" /\ obj = Null
       \/ part = "time" /\ obj \in Times
       \/ part = "bits" /\ obj \in {[v |-> NewBits(n), told |-> [i \in 0 .. n - 1 |-> FALSE]] :
                                    n \in Sizes}
       \/ part = "record" /\ obj = [buf |-> Repeat("0", FixedLength), told |-> AllZero]
       \/ part = "text" /\ obj = <<>>
       \/ part = "ini" /\ obj \in {[ini |-> NewIni(a, b), lines |-> <<>>] : a, b \in BOOLEAN}
       \/ part = "dir" /\ obj = <<>>
       \/ part = "move" /\ obj = <<>>
    /\ FileInit
    /\ part # "move" => \A p \in Movers : ino[Target[p]] = ABSENT

-----------------------------------------------------------------------------
Calculate ==
    /\ Is("moment")
    /\ \E m \in Moments1 :
           \/ obj.sec + m.sec < MaxSec /\ Becomes(Plus(obj, m))
           \/ Becomes(Minus(obj, m))
           \/ Becomes(MinusAssign(obj, m))
           \/ m.sec # 0 /\ Becomes(DivideBy(obj, m.sec))

Pass ==
    /\ Is("time")
    /\ \/ \E s \in Steps : Becomes(PassSecond(obj, s))
       \/ Becomes(ZeroClock(obj))
       \/ Becomes(UTCZeroClock(obj))
       \/ Becomes(SetUint64(obj, ToUint64(obj)))
    /\ obj' \in FirstTime .. LastTime

Tell(v, told) == Becomes([v |-> v, told |-> told])

PutBits ==
    /\ Is("bits")
    /\ LET all == DOMAIN obj.told IN
       \/ \E i \in all : \/ Tell(SetBit(obj.v, i), [obj.told EXCEPT ![i] = TRUE])
                         \/ Tell(ResetBit(obj.v, i), [obj.told EXCEPT ![i] = FALSE])
       \/ Tell(SetAllTrue(obj.v), [i \in all |-> TRUE])
       \/ Tell(SetAllFalse(obj.v), [i \in all |-> FALSE])
       \/ LET copy == DeSerialize(Serialize(obj.v), FALSE).v
          IN Tell(copy, [i \in all |-> At(copy, i)])

PutField(buf1, f, text) == Becomes([buf |-> buf1, told |-> [obj.told EXCEPT ![f] = text]])

PutFields ==
    /\ Is("record")
    /\ \E f \in FieldsOf, n \in Numbers, fill \in {"0", Space} :
           LET room == LengthOf(f) - Len(n) IN
           \/ /\ Accepted(f) /\ room >= 0
              /\ PutField(SetFieldNumber(obj.buf, f, n, fill), f, Repeat(fill, room) \o n)
           \/ PutField(SetFieldText(obj.buf, f, n, fill), f,
                       SubSeq(n \o Repeat(fill, room), 1, LengthOf(f)))
           \/ f = 0 /\ Accepted(f) /\ room = 0 /\ PutField(SetFieldRaw(obj.buf, f, n), f, n)

Type ==
    /\ Is("text") /\ Len(obj) < MaxText
    /\ \E c \in Characters : Becomes(Append(obj, c))

ReadFile ==
    /\ Is("ini") /\ Len(obj.lines) < MaxLines
    /\ \/ \E line \in IniLines : Becomes([ini |-> TakeLine(obj.ini, line),
                                         lines |-> Append(obj.lines, line)])
       \/ Becomes([ini |-> Open(obj.ini), lines |-> Append(obj.lines, OPEN)])

Enter ==
    /\ Is("dir") /\ Len(obj) < MaxEntries
    /\ \E e \in Entries : Becomes(Append(obj, [ino |-> e.ino, kind |-> e.kind, name |-> Len(obj)]))

MoveFiles == part = "move" /\ FileNext /\ UNCHANGED <<part, obj>>

LibraryNext ==
    Calculate \/ Pass \/ PutBits \/ PutFields \/ Type \/ ReadFile \/ Enter \/ MoveFiles

LibrarySpec == LibraryInit /\ [][LibraryNext]_vars

-----------------------------------------------------------------------------
\* The arithmetic of moments agrees with that of their microseconds, but for the
\* operators and values that OperatorsExact leaves out (Moment).
MomentsExact == part = "moment" => \A m \in Moments1 : OperatorsExact(obj, m)

\* Fields, and bits of vectors of one word, hold what was last put there (FixedLength,
\* BitVector).
StoredKept ==
    /\ part = "bits" => BitsKept(obj.v, obj.told)
    /\ part = "record" => FieldsKept(obj.buf, obj.told)

\* Dates are packed, parsed and cut, texts split, trimmed, replaced and converted
\* as they should, but for the cases that TimeExact and StrUtil leave out.
ConversionsExact ==
    /\ part = "time" => \A now \in Times : TimeExact(obj, now)
    /\ part = "text" => /\ SplitExact(obj) /\ NumbersExact(obj)
                        /\ AddressExact(obj, [ip |-> <<"x">>, port |-> 1])

\* What read() gives is what the lines say, and files are listed for what they
\* are (IniFile, DirUtil).
ReadingsExact ==
    /\ part = "ini" => ReadsExact(obj.ini, obj.lines)
    /\ part = "dir" => ListsExact(obj)

\* Files are not lost by Move() (FileUtil).
FilesKept == part = "move" => MoveLosesNothing
=============================================================================
