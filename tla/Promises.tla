------------------------------ MODULE Promises ------------------------------
(***************************************************************************)
(* Promises that the comments of the source make and the code does not     *)
(* keep.  They are tried one after the other, each by the legal calls of   *)
(* Parts: when the present one is broken, the next one's turn comes.       *)
(***************************************************************************)
EXTENDS Parts

VARIABLE promise    \* the index of the present one

promisesVars == <<partsVars, promise>>

\* moment.h:59: max() gets the "MAXUMN time the class Moment can descripted".
MaximumIsLargest == ~Less(Maximum, obj)

\* moment.cpp:176: += gives max() when "sec 和 越界", the sum of the seconds overflows.
\* None does here.
SumIsExact == \A m \in Moments1 : PlusAssign(obj, m) = Plus(obj, m)

\* ctime.cpp:243: ZeroClock() sets the time to 00:00:00 of the present date,
\* "设置时间到当前日期的00:00:00".
ZeroClockIsMidnight ==
    LET f == LocalFields(obj)
    IN LocalFields(ZeroClock(obj)) = [f EXCEPT !.hour = 0, !.minute = 0, !.second = 0]

\* ctime.h:63: set() fills in the time that a number like those of ToUint64() stands
\* for, "从形如“20150327163700”的无符号64位整数表示的时间填充成员".
PackedIsUnpacked == SetUint64(0, ToUint64(obj)) = obj

\* ctime.h:50: GetUTCYear() to GetUTCSecond() are "UTC时间相关接口", of the UTC time.
UTCFieldsAreOfUTC == UTCFields(obj) = Fields(obj)

\* bit_vector.h:53: "The range of index is [0, size()-1].", and in it each bit is
\* what was last put there.
EveryIndexIsABit == \A i \in DOMAIN obj.told : At(obj.v, i) = obj.told[i]

\* bit_vector.h:43 and 45: Serialize() "Writes to the given file." and DeSerialize()
\* "Reads from the given file. Returns false in case of error."
WrittenIsReadBack ==
    LET copy == DeSerialize(Serialize(obj.v), FALSE)
    IN copy.ok => copy.v = obj.v

\* my_log.h:17: "注意：此日志类线程安全", the log is safe to use by threads; a record is
\* written with the level of the MY_LOG that writes it.
LevelIsOnesOwn ==
    \A t \in Threads : at[t].point \in {"write", "print"} => log.level = at[t].level

Broken(name) ==
    CASE name = "maximum" -> ~MaximumIsLargest
      [] name = "sum" -> ~SumIsExact
      [] name = "midnight" -> ~ZeroClockIsMidnight
      [] name = "packed" -> ~PackedIsUnpacked
      [] name = "UTC" -> ~UTCFieldsAreOfUTC
      [] name = "index" -> ~EveryIndexIsABit
      [] name = "file" -> ~WrittenIsReadBack
      [] name = "level" -> ~LevelIsOnesOwn

Promised == <<"maximum", "sum", "midnight", "packed", "UTC", "index", "file", "level">>

\* The part a promise is about, and what its client has at first.
Try(name) ==
    \/ name \in {"maximum", "sum"} /\ part' = "moment" /\ obj' = Null
    \/ name \in {"midnight", "packed", "UTC"} /\ part' = "time" /\ obj' \in Times
    \/ name \in {"index", "file"} /\ part' = "bits"
       /\ obj' \in {[v |-> NewBits(n), told |-> [i \in 0 .. n - 1 |-> FALSE]] : n \in Sizes}
    \/ name = "level" /\ part' = "log" /\ obj' = <<>>

PromisesInit == PartsInit /\ part = "moment" /\ promise = 1

\* After the last one nothing is tried.
Turn ==
    /\ promise \in DOMAIN Promised /\ Broken(Promised[promise])
    /\ promise' = promise + 1
    /\ IF promise' \in DOMAIN Promised THEN Try(Promised[promise'])
       ELSE UNCHANGED <<part, obj>>
    /\ UNCHANGED <<fileVars, logVars>>

PromisesNext == Turn \/ (promise \in DOMAIN Promised /\ PartsNext /\ UNCHANGED promise)

PromisesSpec == PromisesInit /\ [][PromisesNext]_promisesVars

-----------------------------------------------------------------------------
\* Not all of these promises are broken, each by a behaviour of the part it is about
\* (moment.cpp:23, 176, ctime.cpp:257, 79, 321, bit_vector.h:81, bit_vector.cpp:55,
\* my_log.h:26).
SomePromiseIsKept == promise \in DOMAIN Promised
=============================================================================
