------------------------------ MODULE StrUtil ------------------------------
(***************************************************************************)
(* str_util.h, str_util.cpp: conversions, splitting, trimming, replacing;  *)
(* and Ipv4Address::set(), which is made of them.  A text is a sequence of *)
(* characters.                                                             *)
(***************************************************************************)
EXTENDS Integers, Sequences, FiniteSetsExt

CONSTANTS INT_BITS, UINT_BITS, PORT_BITS    \* widths: 32, 32 and 16

ASSUME StrUtilAssumption ==
    INT_BITS \in Nat \ {0} /\ UINT_BITS \in Nat /\ INT_BITS <= UINT_BITS /\ PORT_BITS \in Nat

NOT_FOUND == 0

\* string::find: the first place of t in s, at beg or later.
Find(s, t, beg) ==
    LET places == {i \in beg .. Len(s) - Len(t) + 1 : SubSeq(s, i, i + Len(t) - 1) = t}
    IN IF places = {} THEN NOT_FOUND ELSE Min(places)

From(s, i) == SubSeq(s, i, Len(s))

Space == " "

\* LeftTrim(), RightTrim() and TrimSpace().
Kept(s) == {i \in DOMAIN s : s[i] # Space}
LeftTrim(s) == IF Kept(s) = {} THEN <<>> ELSE From(s, Min(Kept(s)))
RightTrim(s) == IF Kept(s) = {} THEN <<>> ELSE SubSeq(s, 1, Max(Kept(s)))
TrimSpace(s) == RightTrim(LeftTrim(s))

\* Split() adds the delimiters to the end; a turn of its loop cuts at the next.
Cut(whole, delimiters, trimSpace, ignoreEmpty, last) ==
    LET loc == Find(whole, delimiters, last.beg)
        sub == SubSeq(whole, last.beg, loc - 1)
        piece == IF trimSpace THEN TrimSpace(sub) ELSE sub
    IN IF loc = NOT_FOUND THEN last
       ELSE [beg |-> loc + Len(delimiters),
             pieces |-> IF ignoreEmpty /\ piece = <<>> THEN last.pieces
                        ELSE Append(last.pieces, piece)]

Split(input, delimiters, trimSpace, ignoreEmpty) ==
    LET whole == input \o delimiters
        turn[n \in 0 .. Len(whole)] ==
            IF n = 0 THEN [beg |-> 1, pieces |-> <<>>]
            ELSE Cut(whole, delimiters, trimSpace, ignoreEmpty, turn[n - 1])
    IN turn[Len(whole)].pieces

\* A turn of the loop of ReplaceAll(): t at pos becomes w, and the search goes on
\* after it; fault: it goes on inside.
Replaced(last, w, t) ==
    SubSeq(last.text, 1, last.pos - 1) \o w \o From(last.text, last.pos + Len(t))

ReplaceAgain(t, w, last) ==
    IF last.pos = NOT_FOUND THEN last
    ELSE [text |-> Replaced(last, w, t), pos |-> Find(Replaced(last, w, t), t, last.pos)]

Replace(t, w, last) ==
    IF last.pos = NOT_FOUND THEN last
    ELSE [text |-> Replaced(last, w, t), pos |-> Find(Replaced(last, w, t), t, last.pos + Len(w))]

ReplaceAll(s, t, w) ==
    LET turn[n \in 0 .. Len(s)] ==
            IF n = 0 THEN [text |-> s, pos |-> Find(s, t, 1)] ELSE Replace(t, w, turn[n - 1])
    IN IF t = <<>> THEN s ELSE turn[Len(s)].text

\* Some of the digits are enough.
DigitChars == {"0", "1", "2", "5"}
Digit(c) == CASE c = "0" -> 0 [] c = "1" -> 1 [] c = "2" -> 2 [] c = "5" -> 5
Signs == {"+", "-"}

Value(digits) ==
    LET value[k \in 0 .. Len(digits)] ==
            IF k = 0 THEN 0 ELSE 10 * value[k - 1] + Digit(digits[k])
    IN value[Len(digits)]

\* What operator>> reads of a text: a sign and the digits after it.
Leading(s) ==
    LET signed == s # <<>> /\ s[1] \in Signs
        first == IF signed THEN 2 ELSE 1
        stop == Min({i \in first .. Len(s) : s[i] \notin DigitChars} \cup {Len(s) + 1})
        digits == SubSeq(s, first, stop - 1)
    IN [ok |-> digits # <<>>,
        n |-> IF signed /\ s[1] = "-" THEN 0 - Value(digits) ELSE Value(digits)]

\* seems_good(): only these characters, and a number in front.
SeemsGood(s) == (\A i \in DOMAIN s : s[i] \in DigitChars \cup Signs) /\ Leading(s).ok

Ints == -(2 ^ (INT_BITS - 1)) .. 2 ^ (INT_BITS - 1) - 1
IsInt(s) == SeemsGood(s) /\ Leading(s).n \in Ints
ToInt(s) == IF IsInt(s) THEN Leading(s).n ELSE 0

IsUint(s) == SeemsGood(s) /\ Leading(s).n \in -(2 ^ UINT_BITS - 1) .. 2 ^ UINT_BITS - 1
ToUint(s) == IF IsUint(s) THEN Leading(s).n % 2 ^ UINT_BITS ELSE 0

\* Ipv4Address::set(): true whatever the text; inet_network() is left out.
ParseIpv4(address, s) ==
    LET v == Split(s, <<":">>, TRUE, TRUE)
    IN CASE Len(v) = 1 -> [ip |-> ReplaceAll(v[1], <<"*">>, <<"2", "5", "5">>), port |-> 0]
         [] Len(v) = 2 -> [ip |-> ReplaceAll(v[1], <<"*">>, <<"2", "5", "5">>),
                           port |-> ToInt(v[2]) % 2 ^ PORT_BITS]
         [] OTHER -> address

-----------------------------------------------------------------------------
\* Pieces put together, each with t after it; s with w for each character c.
Joined(pieces, t) ==
    LET joined[k \in 0 .. Len(pieces)] ==
            IF k = 0 THEN <<>> ELSE joined[k - 1] \o pieces[k] \o t
    IN joined[Len(pieces)]

With(s, c, w) == Joined([k \in 1 .. Len(s) |-> IF s[k] = c THEN w ELSE <<s[k]>>], <<>>)

(***************************************************************************)
(* Split: put together again with the delimiters, the pieces are the text; *)
(* with two characters as delimiters, an end that looks like the first is  *)
(* lost.  Trimming takes the spaces at the ends and nothing else.  A one-  *)
(* character text is replaced wherever it stands.                          *)
(***************************************************************************)
CutExact(s, t) ==
    LET cut == Split(s, t, FALSE, FALSE)
    IN /\ \A k \in DOMAIN cut : Find(cut[k], t, 1) = NOT_FOUND
       /\ \E lost \in {<<>>, SubSeq(t, 2, Len(t))} : Joined(cut, t) \o lost = s \o t

TrimExact(s) ==
    LET core == TrimSpace(s)
    IN /\ core # <<>> => core[1] # Space /\ core[Len(core)] # Space
       /\ \E a, b \in 0 .. Len(s) :
              s = [k \in 1 .. a |-> Space] \o core \o [k \in 1 .. b |-> Space]

SplitExact(s) ==
    /\ \A t \in {<<":">>, <<":", ":">>} : CutExact(s, t)
    /\ TrimExact(s)
    /\ \A w \in {<<>>, <<"x", ":">>} : ReplaceAll(s, <<":">>, w) = With(s, ":", w)

(***************************************************************************)
(* Digits, with a sign before them or not, are the number they say, if it  *)
(* fits; and a text is taken for another number than 0 only if it begins   *)
(* with that one, and a sign is what follows.  Both conversions agree on   *)
(* numbers above 0.  Of a text like "1-1" no more is said.                 *)
(***************************************************************************)
Says(s, n) ==
    \E a \in {0, 1}, b \in DOMAIN s :
        /\ a < b /\ (a = 1 => s[1] \in Signs)
        /\ \A i \in a + 1 .. b : s[i] \in DigitChars
        /\ \A i \in b + 1 .. Len(s) : s[i] \in DigitChars \cup Signs
        /\ b < Len(s) => s[b + 1] \in Signs
        /\ n = IF a = 1 /\ s[1] = "-" THEN 0 - Value(SubSeq(s, 2, b)) ELSE Value(SubSeq(s, a + 1, b))

NumbersExact(s) ==
    /\ ToInt(s) # 0 => Says(s, ToInt(s))
    /\ (\A i \in 2 .. Len(s) : s[i] \notin Signs) =>
           \A n \in Ints : Says(s, n) => ToInt(s) = n
    /\ ToInt(s) > 0 => ToUint(s) = ToInt(s)

(***************************************************************************)
(* host:port gives both, if the port is a number that fits, and a host     *)
(* alone that host and no port.  A text of spaces and colons changes       *)
(* nothing, and one with one of the two missing nothing or no port.        *)
(***************************************************************************)
AddressExact(s, old) ==
    LET new == ParseIpv4(old, s)
        parts == {i \in DOMAIN s : s[i] = ":"}
    IN /\ (\A i \in DOMAIN s : s[i] \in {":", Space}) => new = old
       /\ parts = {} /\ TrimSpace(s) # <<>> => new.port = 0 /\ new.ip # <<>>
       /\ \A i \in parts : parts = {i} =>
              LET host == TrimSpace(SubSeq(s, 1, i - 1))
                  port == TrimSpace(From(s, i + 1))
              IN IF host # <<>> /\ port # <<>>
                 THEN /\ new.ip = With(host, "*", <<"2", "5", "5">>)
                      /\ ToInt(port) \in 0 .. 2 ^ PORT_BITS - 1 => new.port = ToInt(port)
                 ELSE new = old \/ new.port = 0
=============================================================================
