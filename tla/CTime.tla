------------------------------- MODULE CTime -------------------------------
(***************************************************************************)
(* ctime.h, ctime.cpp: CTime, a time_t with the fields of local time and   *)
(* of UTC, and Moment's parsing of a date (moment.cpp:32-59).  Local time  *)
(* is a standard offset, with one hour more between DstBegin and DstEnd.   *)
(* Times are seconds of one year from its first on, a year that is not a   *)
(* leap year; the year itself and its digits are left out.                 *)
(***************************************************************************)
EXTENDS Integers, Sequences

CONSTANTS StdOffset, DstBegin, DstEnd

ASSUME CTimeAssumption == StdOffset \in Int /\ DstBegin \in Nat /\ DstEnd \in Nat

HOUR == 3600
DAY == 24 * HOUR

\* External: the C library's local time.  mktime() believes tm_isdst.
IsDst(t) == DstBegin <= t /\ t < DstEnd
Offset(t) == StdOffset + IF IsDst(t) THEN HOUR ELSE 0
Mktime(wall, isdst) == wall - StdOffset - IF isdst THEN HOUR ELSE 0

\* External: the fields of struct tm for a number of seconds, and back.
DaysBefore == <<0, 31, 59, 90, 120, 151, 181, 212, 243, 273, 304, 334, 365>>
Fields(wall) ==
    LET day == wall \div DAY
        month == CHOOSE m \in 1 .. 12 : DaysBefore[m] <= day /\ day < DaysBefore[m + 1]
    IN [month |-> month, day |-> day - DaysBefore[month] + 1, hour |-> (wall % DAY) \div HOUR,
        minute |-> (wall % HOUR) \div 60, second |-> wall % 60]
Wall(f) == (DaysBefore[f.month] + f.day - 1) * DAY + f.hour * HOUR + f.minute * 60 + f.second

-----------------------------------------------------------------------------
\* GetMonth() to GetSecond().
LocalFields(t) == Fields(t + Offset(t))

\* set(year, month, day, hour, minute, second): tm_isdst is 0 from the memset.
\* A day that the month does not have goes on into the next month.
CanSet(f) == f.day \in 1 .. 31 /\ f.month \in 1 .. 12
Set(t, f) == IF CanSet(f) THEN Mktime(Wall(f), FALSE) ELSE t

\* Fault: the month gets one digit too few.
ToUint64Short(t) ==
    LET f == LocalFields(t)
    IN f.month * 10000000 + f.day * 1000000 + f.hour * 10000 + f.minute * 100 + f.second

ToUint64(t) ==
    LET f == LocalFields(t)
    IN f.month * 100000000 + f.day * 1000000 + f.hour * 10000 + f.minute * 100 + f.second

SetUint64(t, ull) ==
    Set(t, [month |-> (ull \div 100000000) % 100, day |-> (ull \div 1000000) % 100,
            hour |-> (ull \div 10000) % 100, minute |-> (ull \div 100) % 100,
            second |-> ull % 100])

PassSecond(t, seconds) == t + seconds

\* ZeroClock() keeps the tm_isdst of t.
ZeroClock(t) == Mktime(((t + Offset(t)) \div DAY) * DAY, IsDst(t))

UTCZeroClock(t) == t - (t % DAY)

GetGMTOff(t) == Offset(t)

\* Moment::setUTC(), of a text that is long enough or not: whether it succeeds, and
\* the moment, which a refusal leaves alone.  The offset is that of the present
\* moment, not of the moment read.
MomentSetUTC(sec, f, long, now) ==
    IF long /\ CanSet(f) THEN [ok |-> TRUE, sec |-> Set(0, f) + GetGMTOff(now)]
    ELSE [ok |-> FALSE, sec |-> sec]

\* GetUTCMonth() to GetUTCSecond(), which gives the minutes.
UTCFields(t) == [Fields(t) EXCEPT !.second = Fields(t).minute]

(***************************************************************************)
(* A time without summer time survives ToUint64() and set(); ZeroClock()   *)
(* is the local midnight if it has the summer time of the time it is given *)
(* or neither has; UTCZeroClock() is the UTC midnight; the UTC fields but  *)
(* the second are those of the time; setUTC() of the UTC fields, called in *)
(* the winter, is the time; a text that is too short or of a date that no  *)
(* month has is refused and changes nothing; days are a day apart.  Said   *)
(* of nothing: the times where the code is an hour off, and GetUTCSecond() *)
(* (Promises); and a date that its own month does not have.                *)
(***************************************************************************)
TimeExact(t, now) ==
    LET zero == ZeroClock(t)
        f == Fields(t)
        day(n) == [f EXCEPT !.day = n]
        refused == [ok |-> FALSE, sec |-> t]
    IN /\ ~IsDst(t) => SetUint64(0, ToUint64(t)) = t
       /\ IsDst(zero) = IsDst(t) =>
              /\ (zero + Offset(zero)) % DAY = 0
              /\ zero <= t /\ t < zero + DAY
       /\ UTCZeroClock(t) % DAY = 0 /\ UTCZeroClock(t) <= t /\ t < UTCZeroClock(t) + DAY
       /\ Wall([UTCFields(t) EXCEPT !.second = f.second]) = t
       /\ ~IsDst(now) => MomentSetUTC(0, f, TRUE, now) = [ok |-> TRUE, sec |-> t]
       /\ MomentSetUTC(t, f, FALSE, now) = refused /\ MomentSetUTC(t, day(32), TRUE, now) = refused
       /\ Set(t, day(28)) = Set(t, day(1)) + 27 * DAY
=============================================================================
