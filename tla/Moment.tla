------------------------------- MODULE Moment -------------------------------
(***************************************************************************)
(* moment.h, moment.cpp: a point of time or an interval, as a pair of      *)
(* seconds and microseconds; and the deadline of CondVar's WaitIn.  _sec   *)
(* is a signed time_t, wide enough for every value here.                   *)
(***************************************************************************)
EXTENDS Integers

CONSTANTS
    THOUSAND,       \* 1000; a smaller base does for TLC
    MAX_UL          \* (uint32_t) -1

ASSUME MomentAssumption == THOUSAND \in Nat \ {0} /\ MAX_UL \in Nat

USEC_PER_SEC == THOUSAND * THOUSAND

Moments == [sec : Int, usec : 0 .. USEC_PER_SEC - 1]
Null == [sec |-> 0, usec |-> 0]

Maximum == [sec |-> -1, usec |-> USEC_PER_SEC - 1]

Less(a, b) == a.sec < b.sec \/ (a.sec = b.sec /\ a.usec < b.usec)

\* Fault: nothing is borrowed from the seconds.
MinusNoBorrow(a, b) ==
    IF Less(a, b) THEN Null
    ELSE [sec |-> a.sec - b.sec, usec |-> (a.usec - b.usec) % USEC_PER_SEC]

\* operator-: nothing is left when more is taken away than there is.
Minus(a, b) ==
    LET sec == a.sec - b.sec
        usec == a.usec - b.usec
    IN IF a.sec < b.sec THEN Null
       ELSE IF usec >= 0 THEN [sec |-> sec, usec |-> usec]
       ELSE IF sec # 0 THEN [sec |-> sec - 1, usec |-> usec + USEC_PER_SEC]
       ELSE Null

\* operator-=, written otherwise.
MinusAssign(a, b) ==
    IF a.sec < b.sec THEN Null
    ELSE IF a.usec >= b.usec THEN [sec |-> a.sec - b.sec, usec |-> a.usec - b.usec]
    ELSE IF a.sec # b.sec
    THEN [sec |-> a.sec - b.sec - 1, usec |-> a.usec + (USEC_PER_SEC - b.usec)]
    ELSE Null

Carried(sec, usec) ==
    IF usec >= USEC_PER_SEC THEN [sec |-> sec + 1, usec |-> usec % USEC_PER_SEC]
    ELSE [sec |-> sec, usec |-> usec]

Plus(a, b) == Carried(a.sec + b.sec, a.usec + b.usec)

\* operator+=: (time_t)(-1) is meant to be the largest second.
PlusAssign(a, b) ==
    IF a.sec + b.sec > -1 THEN Maximum ELSE Carried(a.sec + b.sec, a.usec + b.usec)

WaitInDeadline(now, interval) == PlusAssign(now, interval)

\* divide_by, for an interval; dividing by 0 changes nothing.
DivideBy(a, piece) ==
    IF a = Null \/ piece = 0 THEN a
    ELSE LET usec == (a.usec \div piece) + ((a.sec % piece) * USEC_PER_SEC) \div piece
         IN [sec |-> (a.sec \div piece) + (usec \div USEC_PER_SEC), usec |-> usec % USEC_PER_SEC]

\* convertToMilliSeccond: whether it succeeds, and the 32 bits it gives.
ToMilli(a) ==
    [ok |-> a.sec % (MAX_UL + 1) <= MAX_UL \div THOUSAND,
     msec |-> (a.sec * THOUSAND + a.usec \div THOUSAND) % (MAX_UL + 1)]

-----------------------------------------------------------------------------
\* What a moment stands for, in microseconds.
Micro(a) == a.sec * USEC_PER_SEC + a.usec

(***************************************************************************)
(* The operators compute what they should for a and b of 1970 or later:    *)
(* minus, both times, the difference or nothing (moment.h:29), plus the    *)
(* sum, less the order, divide_by the quotient up to the two roundings,    *)
(* and milliseconds that fit are given, those of too many seconds refused. *)
(* Said of nothing: += and WaitIn, which take every sum for an overflow,   *)
(* and max(), which is less than all of these (Promises); the milliseconds *)
(* of the last second that is accepted, which may wrap; and those of more  *)
(* than MAX_UL seconds, which are cut before they are compared.            *)
(***************************************************************************)
OperatorsExact(a, b) ==
    /\ Less(a, b) <=> Micro(a) < Micro(b)
    /\ Minus(a, b) \in Moments
    /\ Micro(Minus(a, b)) = IF Less(a, b) THEN 0 ELSE Micro(a) - Micro(b)
    /\ MinusAssign(a, b) = Minus(a, b)
    /\ Plus(a, b) \in Moments /\ Micro(Plus(a, b)) = Micro(a) + Micro(b)
    /\ b.sec > 0 => LET q == DivideBy(a, b.sec)
                    IN /\ q \in Moments
                       /\ Micro(a) \div b.sec - Micro(q) \in {0, 1}
    /\ Micro(a) \div THOUSAND <= MAX_UL =>
           ToMilli(a) = [ok |-> TRUE, msec |-> Micro(a) \div THOUSAND]
    /\ MAX_UL \div THOUSAND < a.sec /\ a.sec <= MAX_UL => ~ToMilli(a).ok
=============================================================================
