----------------------------- MODULE DataProofs -----------------------------
(***************************************************************************)
(* Proofs about the parts of the library that compute: what CTime,         *)
(* IniFile, DirUtil and BitVector give is right for every time, every      *)
(* file, every directory and every vector of bits.                         *)
(***************************************************************************)
EXTENDS CTime, BitVector, IniFile, DirUtil, FiniteSetTheorems, SequenceTheorems,
        WellFoundedInduction, TLAPS

-----------------------------------------------------------------------------
(***************************************************************************)
(* Induction, recursion and division.                                      *)
(***************************************************************************)
\* A set of naturals that has 0, and with each number the next one, has them all.
LEMMA NaturalsByInduction ==
    ASSUME NEW T \in SUBSET Nat, 0 \in T, \A n \in T : n + 1 \in T
    PROVE  T = Nat
  <1>. DEFINE R == OpToRel(<, Nat)
              U == Nat \ T
  <1>1. IsWellFoundedOn(R, Nat)
    BY NatLessThanWellFounded
  <1>2. \A x, y \in Nat : y < x => <<y, x>> \in R
    BY DEF OpToRel
  <1>. HIDE DEF R
  <1>3. ASSUME U # {} PROVE FALSE
    <2>1. PICK x \in U : \A y \in U : <<y, x>> \notin R
      BY <1>1, <1>3, WFMin
    <2>2. x \in Nat /\ x # 0 /\ x - 1 \in Nat /\ x - 1 < x
      BY <2>1
    <2>3. x - 1 \in T
      BY <1>2, <2>1, <2>2
    <2>. QED
      BY <2>1, <2>2, <2>3
  <1>. QED
    BY <1>3

LEMMA MinExists ==
    ASSUME NEW U \in SUBSET Nat, U # {}
    PROVE  Min(U) \in U /\ \A y \in U : Min(U) <= y
  <1>. DEFINE T == {n \in Nat : \A y \in U : n <= y}
  <1>1. \E x \in U : \A y \in U : x <= y
    <2>. SUFFICES ASSUME \A x \in U : \E y \in U : y < x PROVE FALSE
      OBVIOUS
    <2>1. 0 \in T
      OBVIOUS
    <2>2. ASSUME NEW n \in T PROVE n + 1 \in T
      <3>1. n \notin U
        OBVIOUS
      <3>. QED
        BY <3>1
    <2>3. T \in SUBSET Nat
      OBVIOUS
    <2>. HIDE DEF T
    <2>4. T = Nat
      BY <2>1, <2>2, <2>3, NaturalsByInduction
    <2>5. PICK x : x \in U
      OBVIOUS
    <2>6. x + 1 \in T
      BY <2>4, <2>5
    <2>. QED
      BY <2>5, <2>6 DEF T
  <1>. QED
    BY <1>1 DEF Min

LEMMA MaxExists ==
    ASSUME NEW U \in SUBSET Nat, U # {}, NEW b \in Nat, \A y \in U : y <= b
    PROVE  Max(U) \in U /\ \A y \in U : y <= Max(U)
  <1>. DEFINE V == {b - y : y \in U}
  <1>1. V \in SUBSET Nat /\ V # {}
    <2>1. \A y \in U : y \in Nat /\ b - y \in Nat
      OBVIOUS
    <2>. QED
      BY <2>1
  <1>2. Min(V) \in V /\ \A v \in V : Min(V) <= v
    BY <1>1, MinExists
  <1>3. PICK x \in U : Min(V) = b - x
    BY <1>2
  <1>4. \A y \in U : y <= x
    <2>. TAKE y \in U
    <2>1. b - x <= b - y
      BY <1>2, <1>3
    <2>. QED
      BY <2>1
  <1>. QED
    BY <1>4 DEF Max

\* Induction up to n.
LEMMA InductionUpTo ==
    ASSUME NEW n \in Nat, NEW T, 0 \in T, \A k \in 1 .. n : k - 1 \in T => k \in T
    PROVE  \A k \in 0 .. n : k \in T
  <1>. DEFINE U == {k \in Nat : k <= n => k \in T}
  <1>1. ASSUME NEW k \in U PROVE k + 1 \in U
    <2>1. k \in Nat
      OBVIOUS
    <2>2. ASSUME k + 1 <= n PROVE k + 1 \in T
      <3>1. k \in T /\ k + 1 \in 1 .. n /\ (k + 1) - 1 = k
        BY <2>1, <2>2
      <3>. QED
        BY <3>1
    <2>. QED
      BY <2>1, <2>2
  <1>2. 0 \in U /\ U \in SUBSET Nat
    OBVIOUS
  <1>. HIDE DEF U
  <1>3. U = Nat
    BY <1>1, <1>2, NaturalsByInduction
  <1>. QED
    BY <1>3 DEF U

\* f begins with x0, and its values follow each from the one before.
Follows(f, n, X, x0, step) ==
    f \in [0 .. n -> X] /\ f[0] = x0 /\ \A k \in 1 .. n : f[k] = step[k][f[k - 1]]

\* Recursion up to n: there is such a function.
LEMMA RecursionUpTo ==
    ASSUME NEW n \in Nat, NEW X, NEW x0 \in X, NEW step \in [1 .. n -> [X -> X]]
    PROVE  \E f : Follows(f, n, X, x0, step)
  <1>. DEFINE T == {m \in 0 .. n : \E f : Follows(f, m, X, x0, step)}
  <1>1. 0 \in T
    <2>. DEFINE g == [k \in 0 .. 0 |-> x0]
    <2>1. Follows(g, 0, X, x0, step) /\ 0 \in 0 .. n
      BY DEF Follows
    <2>. HIDE DEF g
    <2>. QED
      BY <2>1
  <1>2. ASSUME NEW m \in 1 .. n, m - 1 \in T PROVE m \in T
    <2>1. PICK f : Follows(f, m - 1, X, x0, step)
      BY <1>2
    <2>. DEFINE g == [k \in 0 .. m |-> IF k = m THEN step[m][f[m - 1]] ELSE f[k]]
    <2>2. m \in Nat /\ m # 0 /\ m - 1 \in 0 .. m - 1 /\ f[m - 1] \in X /\ step[m][f[m - 1]] \in X
      BY <2>1 DEF Follows
    <2>3. g \in [0 .. m -> X]
      <3>1. \A k \in 0 .. m : k # m => k \in 0 .. m - 1
        BY <2>2
      <3>. QED
        BY <2>1, <2>2, <3>1 DEF Follows
    <2>4. g[0] = x0
      BY <2>1, <2>2 DEF Follows
    <2>5. ASSUME NEW k \in 1 .. m PROVE g[k] = step[k][g[k - 1]]
      <3>1. k - 1 \in 0 .. m /\ k - 1 # m /\ k \in 0 .. m /\ (k # m => k \in 1 .. m - 1)
        BY <2>2
      <3>2. g[k - 1] = f[k - 1]
        BY <3>1
      <3>. QED
        BY <2>1, <3>1, <3>2 DEF Follows
    <2>. HIDE DEF g
    <2>6. Follows(g, m, X, x0, step)
      BY <2>3, <2>4, <2>5 DEF Follows
    <2>. QED
      BY <2>6
  <1>. HIDE DEF T
  <1>3. n \in T
    <2>1. \A m \in 1 .. n : m - 1 \in T => m \in T
      BY <1>2
    <2>2. \A m \in 0 .. n : m \in T
      BY <1>1, <2>1, InductionUpTo
    <2>. QED
      BY <2>2
  <1>. QED
    BY <1>3 DEF T

\* A function whose values follow, as far as they have the type, has it.
LEMMA RecursionIsTyped ==
    ASSUME NEW n \in Nat, NEW X, NEW x0 \in X, NEW step \in [1 .. n -> [X -> X]],
           NEW h, h = [k \in 0 .. n |-> h[k]], h[0] = x0,
           \A k \in 1 .. n : h[k - 1] \in X => h[k] = step[k][h[k - 1]]
    PROVE  Follows(h, n, X, x0, step)
  <1>. DEFINE T == {k \in 0 .. n : h[k] \in X}
  <1>1. 0 \in T
    <2>1. h[0] \in X /\ 0 \in 0 .. n
      OBVIOUS
    <2>. QED
      BY <2>1
  <1>2. \A k \in 1 .. n : k - 1 \in T => k \in T
    <2>. SUFFICES ASSUME NEW k \in 1 .. n, k - 1 \in T PROVE k \in T
      OBVIOUS
    <2>1. h[k - 1] \in X /\ k \in 0 .. n
      OBVIOUS
    <2>2. h[k] = step[k][h[k - 1]]
      BY <2>1
    <2>. QED
      BY <2>1, <2>2
  <1>. HIDE DEF T
  <1>3. \A k \in 0 .. n : k \in T
    BY <1>1, <1>2, InductionUpTo
  <1>4. \A k \in 0 .. n : h[k] \in X
    BY <1>3 DEF T
  <1>5. h \in [0 .. n -> X]
    BY <1>4
  <1>6. \A k \in 1 .. n : h[k] = step[k][h[k - 1]]
    <2>1. \A k \in 1 .. n : k - 1 \in 0 .. n
      OBVIOUS
    <2>. QED
      BY <1>4, <2>1
  <1>. QED
    BY <1>5, <1>6 DEF Follows

\* For the provers: what the quotient and the remainder of x are.
Divides(n, x) == /\ x = n * (x \div n) + (x % n)
                 /\ x \div n \in Nat
                 /\ x % n \in 0 .. n - 1

LEMMA Division == ASSUME NEW n \in Nat \ {0}, NEW x \in Nat PROVE Divides(n, x)
  <1>1. x = n * (x \div n) + (x % n)
    OBVIOUS
  <1>. QED
    BY <1>1 DEF Divides

LEMMA Quotient ==
    ASSUME NEW n \in Nat \ {0}, NEW q \in Int, NEW r \in 0 .. n - 1
    PROVE  (n * q + r) \div n = q /\ (n * q + r) % n = r
  OBVIOUS

-----------------------------------------------------------------------------
(***************************************************************************)
(* CTime.                                                                  *)
(***************************************************************************)
YEAR == 365 * DAY

LEMMA DayAndClock ==
    ASSUME NEW wall \in Nat, wall < YEAR
    PROVE  /\ wall \div DAY \in 0 .. 364 /\ (wall % DAY) \div HOUR \in 0 .. 23
           /\ (wall % HOUR) \div 60 \in 0 .. 59 /\ wall % 60 \in 0 .. 59
           /\ wall = (wall \div DAY) * DAY + ((wall % DAY) \div HOUR) * HOUR
                     + ((wall % HOUR) \div 60) * 60 + (wall % 60)
  <1>1. wall \div DAY \in 0 .. 364
    BY SMT DEF DAY, HOUR, YEAR
  <1>2. (wall % DAY) \div HOUR \in 0 .. 23
    BY SMT DEF DAY, HOUR
  <1>3. (wall % HOUR) \div 60 \in 0 .. 59 /\ wall % 60 \in 0 .. 59
    BY SMT DEF HOUR
  <1>4. wall = (wall \div DAY) * DAY + (wall % DAY)
    BY SMT DEF DAY, HOUR
  <1>5. wall % DAY = ((wall % DAY) \div HOUR) * HOUR + (wall % HOUR)
    BY SMT DEF DAY, HOUR
  <1>6. wall % HOUR = ((wall % HOUR) \div 60) * 60 + (wall % 60)
    BY SMT DEF HOUR
  <1>. DEFINE a == (wall \div DAY) * DAY
              b == ((wall % DAY) \div HOUR) * HOUR
              c == ((wall % HOUR) \div 60) * 60
              d == wall % DAY
              e == wall % HOUR
              g == wall % 60
  <1>7. a \in Int /\ b \in Int /\ c \in Int /\ d \in Int /\ e \in Int /\ g \in Int
    BY SMT DEF DAY, HOUR
  <1>8. wall = a + b + c + g
    <2>1. wall = a + d /\ d = b + e /\ e = c + g
      BY <1>4, <1>5, <1>6
    <2>. HIDE DEF a, b, c, d, e, g
    <2>. QED
      BY <1>7, <2>1
  <1>. QED
    BY <1>1, <1>2, <1>3, <1>8

\* The fields that a number of seconds of the year has.
LEMMA FieldsOfYear ==
    ASSUME NEW wall \in Nat, wall < YEAR
    PROVE  /\ Fields(wall).month \in 1 .. 12 /\ Fields(wall).day \in 1 .. 31
           /\ Fields(wall).hour \in 0 .. 23 /\ Fields(wall).minute \in 0 .. 59
           /\ Fields(wall).second \in 0 .. 59
           /\ Wall(Fields(wall)) = wall
  <1>. DEFINE day == wall \div DAY
              In(m) == DaysBefore[m] <= day /\ day < DaysBefore[m + 1]
              month == CHOOSE m \in 1 .. 12 : In(m)
              f == Fields(wall)
  <1>1. day \in 0 .. 364
    BY DayAndClock
  <1>2. \E m \in 1 .. 12 : In(m)
    <2>. HIDE DEF day
    <2>. QED
      BY <1>1 DEF DaysBefore
  <1>3. /\ f.month = month /\ f.day = day - DaysBefore[month] + 1
        /\ f.hour = (wall % DAY) \div HOUR /\ f.minute = (wall % HOUR) \div 60
        /\ f.second = wall % 60
    BY DEF Fields
  <1>4. month \in 1 .. 12 /\ In(month)
    <2>. HIDE DEF In
    <2>. QED
      BY <1>2
  <1>. HIDE DEF month
  <1>5. DaysBefore[month] \in Nat /\ day - DaysBefore[month] + 1 \in 1 .. 31
    <2>. HIDE DEF day
    <2>. QED
      BY <1>1, <1>4 DEF DaysBefore
  <1>6. /\ (wall % DAY) \div HOUR \in 0 .. 23 /\ (wall % HOUR) \div 60 \in 0 .. 59
        /\ wall % 60 \in 0 .. 59
        /\ wall = day * DAY + ((wall % DAY) \div HOUR) * HOUR + ((wall % HOUR) \div 60) * 60
                  + (wall % 60)
    BY DayAndClock
  <1>7. Wall(f) = day * DAY + f.hour * HOUR + f.minute * 60 + f.second
    <2>1. DaysBefore[f.month] + f.day - 1 = day
      <3>. HIDE DEF day
      <3>. QED
        BY <1>1, <1>3, <1>5
    <2>. QED
      BY <2>1 DEF Wall
  <1>8. f.month \in 1 .. 12 /\ f.day \in 1 .. 31
    BY <1>3, <1>4, <1>5
  <1>9. /\ f.hour \in 0 .. 23 /\ f.minute \in 0 .. 59 /\ f.second \in 0 .. 59
        /\ Wall(f) = wall
    <2>. HIDE DEF f, day
    <2>. QED
      BY <1>3, <1>6, <1>7
  <1>. QED
    BY <1>8, <1>9

\* The digits of ToUint64() are the fields.
Packed(month, day, hour, minute, second) ==
    month * 100000000 + day * 1000000 + hour * 10000 + minute * 100 + second

Unpacks(n, month, day, hour, minute, second) ==
    /\ (n \div 100000000) % 100 = month /\ (n \div 1000000) % 100 = day
    /\ (n \div 10000) % 100 = hour /\ (n \div 100) % 100 = minute /\ n % 100 = second

LEMMA DigitsOfFields ==
    ASSUME NEW month \in 1 .. 12, NEW day \in 1 .. 31, NEW hour \in 0 .. 23,
           NEW minute \in 0 .. 59, NEW second \in 0 .. 59, NEW n,
           n = Packed(month, day, hour, minute, second)
    PROVE  Unpacks(n, month, day, hour, minute, second)
  <1>1. n \div 100 = month * 1000000 + day * 10000 + hour * 100 + minute /\ n % 100 = second
    BY SMT DEF Packed
  <1>2. n \div 10000 = month * 10000 + day * 100 + hour
    BY SMT DEF Packed
  <1>3. n \div 1000000 = month * 100 + day
    BY SMT DEF Packed
  <1>4. n \div 100000000 = month
    BY SMT DEF Packed
  <1>5. (month * 1000000 + day * 10000 + hour * 100 + minute) % 100 = minute
    BY SMT DEF Packed
  <1>6. (month * 10000 + day * 100 + hour) % 100 = hour
    BY SMT DEF Packed
  <1>7. (month * 100 + day) % 100 = day /\ month % 100 = month
    BY SMT DEF Packed
  <1>. QED
    BY <1>1, <1>2, <1>3, <1>4, <1>5, <1>6, <1>7, SMT DEF Unpacks

\* t and what is computed of it are in the year, whatever the zone.
InYear(t) ==
    /\ t \in Nat /\ t < YEAR
    /\ t + Offset(t) \in Nat /\ t + Offset(t) < YEAR

LEMMA PackedTime ==
    ASSUME NEW t \in Int, t + Offset(t) \in Nat, t + Offset(t) < YEAR, NEW u \in Int
    PROVE  SetUint64(u, ToUint64(t)) = t + IF IsDst(t) THEN HOUR ELSE 0
  <1>. DEFINE f == LocalFields(t)
              n == ToUint64(t)
              g == [month |-> (n \div 100000000) % 100, day |-> (n \div 1000000) % 100,
                    hour |-> (n \div 10000) % 100, minute |-> (n \div 100) % 100,
                    second |-> n % 100]
  <1>1. /\ f.month \in 1 .. 12 /\ f.day \in 1 .. 31 /\ f.hour \in 0 .. 23
        /\ f.minute \in 0 .. 59 /\ f.second \in 0 .. 59
        /\ Wall(f) = t + Offset(t)
    BY FieldsOfYear DEF LocalFields
  <1>2. n = Packed(f.month, f.day, f.hour, f.minute, f.second)
    BY SMT DEF ToUint64, Packed
  <1>. HIDE DEF f, n, g
  <1>3. /\ g.month = f.month /\ g.day = f.day /\ g.hour = f.hour /\ g.minute = f.minute
        /\ g.second = f.second
    <2>1. Unpacks(n, f.month, f.day, f.hour, f.minute, f.second)
      BY <1>1, <1>2, DigitsOfFields
    <2>. QED
      BY <2>1, SMT DEF Unpacks, g
  <1>4. Wall(g) = Wall(f) /\ CanSet(g)
    BY <1>1, <1>3 DEF Wall, CanSet
  <1>5. SetUint64(u, n) = Mktime(Wall(g), FALSE)
    BY <1>4 DEF SetUint64, Set, g
  <1>6. Mktime(Wall(f), FALSE) = t + IF IsDst(t) THEN HOUR ELSE 0
    BY <1>1, CTimeAssumption DEF Mktime, Offset, HOUR
  <1>. QED
    BY <1>4, <1>5, <1>6 DEF n

LEMMA MidnightOfLocal ==
    ASSUME NEW t \in Int, NEW zero, zero = ZeroClock(t)
    PROVE  /\ zero \in Int
           /\ IsDst(zero) = IsDst(t) =>
                  /\ (zero + Offset(zero)) % DAY = 0
                  /\ zero <= t /\ t < zero + DAY
  <1>. DEFINE day == (t + Offset(t)) \div DAY
              o == IF IsDst(t) THEN HOUR ELSE 0
  <1>1. Offset(t) = StdOffset + o /\ o \in {0, HOUR} /\ StdOffset \in Int
    BY CTimeAssumption DEF Offset
  <1>2. day \in Int /\ day * DAY <= t + Offset(t) /\ t + Offset(t) < day * DAY + DAY
    BY <1>1 DEF DAY, HOUR
  <1>3. zero = day * DAY - StdOffset - o
    BY DEF ZeroClock, Mktime
  <1>. HIDE DEF day
  <1>4. zero \in Int
    BY <1>1, <1>2, <1>3 DEF DAY, HOUR
  <1>5. CASE IsDst(zero) = IsDst(t)
    <2>1. zero + Offset(zero) = day * DAY
      BY <1>1, <1>2, <1>3, <1>5 DEF Offset, DAY, HOUR
    <2>2. (day * DAY) % DAY = 0
      BY <1>2 DEF DAY, HOUR
    <2>3. zero <= t /\ t < zero + DAY
      BY <1>1, <1>2, <1>3 DEF DAY, HOUR
    <2>. QED
      BY <1>4, <2>1, <2>2, <2>3
  <1>. QED
    BY <1>4, <1>5

LEMMA TimesAreExact ==
    ASSUME NEW t, InYear(t), NEW now \in Int
    PROVE  TimeExact(t, now)
  <1>. DEFINE zero == ZeroClock(t)
              f == Fields(t)
  <1>1. t \in Nat /\ t < YEAR /\ t + Offset(t) \in Nat /\ t + Offset(t) < YEAR
    BY DEF InYear
  <1>2. /\ f.month \in 1 .. 12 /\ f.day \in 1 .. 31 /\ f.hour \in 0 .. 23
        /\ f.minute \in 0 .. 59 /\ f.second \in 0 .. 59
        /\ Wall(f) = t
        /\ f = [month |-> f.month, day |-> f.day, hour |-> f.hour, minute |-> f.minute,
                second |-> f.second]
    <2>1. f = [month |-> f.month, day |-> f.day, hour |-> f.hour, minute |-> f.minute,
               second |-> f.second]
      BY DEF Fields
    <2>. QED
      BY <1>1, <2>1, FieldsOfYear
  <1>3. ~IsDst(t) => SetUint64(0, ToUint64(t)) = t
    BY <1>1, PackedTime
  <1>4. /\ IsDst(zero) = IsDst(t) =>
               /\ (zero + Offset(zero)) % DAY = 0
               /\ zero <= t /\ t < zero + DAY
    BY <1>1, MidnightOfLocal
  <1>5. UTCZeroClock(t) % DAY = 0 /\ UTCZeroClock(t) <= t /\ t < UTCZeroClock(t) + DAY
    BY <1>1 DEF UTCZeroClock, DAY, HOUR
  <1>6. DaysBefore[f.month] \in Int
    BY <1>2 DEF DaysBefore
  <1>7. UTCFields(t) = [f EXCEPT !.second = f.minute]
    BY DEF UTCFields
  <1>. HIDE DEF f, zero
  <1>8. f.day \in Int /\ f.hour \in Int /\ f.minute \in Int /\ f.second \in Int
    BY <1>2
  <1>9. Wall([UTCFields(t) EXCEPT !.second = f.second]) = t
    <2>1. [UTCFields(t) EXCEPT !.second = f.second] = f
      BY <1>2, <1>7
    <2>. QED
      BY <1>2, <2>1
  <1>10. ~IsDst(now) => MomentSetUTC(0, f, TRUE, now) = [ok |-> TRUE, sec |-> t]
    <2>1. CanSet(f)
      BY <1>2 DEF CanSet
    <2>2. ~IsDst(now) => Set(0, f) + GetGMTOff(now) = t
      BY <1>1, <1>2, <2>1, CTimeAssumption DEF Set, Mktime, GetGMTOff, Offset
    <2>. QED
      BY <2>1, <2>2 DEF MomentSetUTC
  <1>11. /\ MomentSetUTC(t, f, FALSE, now) = [ok |-> FALSE, sec |-> t]
         /\ MomentSetUTC(t, [f EXCEPT !.day = 32], TRUE, now) = [ok |-> FALSE, sec |-> t]
    BY <1>2 DEF MomentSetUTC, CanSet
  <1>12. Set(t, [f EXCEPT !.day = 28]) = Set(t, [f EXCEPT !.day = 1]) + 27 * DAY
    <2>. DEFINE x == f.hour * 3600 + f.minute * 60 + f.second
                b == DaysBefore[f.month]
                A(d) == (b + d - 1) * DAY + f.hour * HOUR + f.minute * 60 + f.second
    <2>1. CanSet([f EXCEPT !.day = 28]) /\ CanSet([f EXCEPT !.day = 1])
      BY <1>2 DEF CanSet
    <2>2. Wall([f EXCEPT !.day = 28]) = A(28) /\ Wall([f EXCEPT !.day = 1]) = A(1)
      BY <1>2 DEF Wall
    <2>3. b \in Int /\ x \in Int
      BY <1>6, <1>8
    <2>4. A(28) = (b + 27) * 86400 + x /\ A(1) = b * 86400 + x
      <3>. HIDE DEF b
      <3>. QED
        BY <1>8, <2>3, SMT DEF DAY, HOUR
    <2>. HIDE DEF A, b, x
    <2>5. A(28) = A(1) + 27 * 86400 /\ A(1) \in Int
      BY <2>3, <2>4
    <2>. QED
      BY <2>1, <2>2, <2>5, CTimeAssumption DEF Set, Mktime, DAY, HOUR
  <1>. QED
    BY <1>3, <1>4, <1>5, <1>9, <1>10, <1>11, <1>12 DEF TimeExact, f, zero

-----------------------------------------------------------------------------
(***************************************************************************)
(* IniFile.  What the lines say, in terms of places: where sections begin, *)
(* how far the block goes that begins at i, and where it has the key k.    *)
(***************************************************************************)
IniEntries == Lines \cup {OPEN}

Breaks(e) == e = OPEN \/ IsSection(e)
Starts(lines, s) == {i \in DOMAIN lines : IsSection(lines[i]) /\ lines[i].sect = s}
OneOf(U, last) == IF last THEN Max(U) ELSE Min(U)
Runs(lines, i, j) == \A m \in i + 1 .. j : ~Breaks(lines[m])
Hits(lines, i, k) ==
    {j \in i + 1 .. Len(lines) :
        Runs(lines, i, j) /\ lines[j].key = k /\ lines[j].value # NONE}

\* The first block in the map has what the block from i says.
BlockInv(block, lines, i, dupKey) ==
    \A k \in Keys : /\ block[k] = <<>> <=> Hits(lines, i, k) = {}
                    /\ Hits(lines, i, k) # {} =>
                           block[k][1] = lines[OneOf(Hits(lines, i, k), dupKey)].value

SectionInv(ini, lines, s) ==
    LET starts == Starts(lines, s)
        start == OneOf(starts, ini.dupSection)
    IN /\ starts = {} <=> ini.map[s] = <<>>
       /\ Len(ini.map[s]) = IF ini.dupSection THEN Cardinality(starts)
                            ELSE IF starts = {} THEN 0 ELSE 1
       /\ starts # {} => BlockInv(ini.map[s][1], lines, start, ini.dupKey)
       /\ (~ini.skip /\ ini.cur = s) <=> (starts # {} /\ Runs(lines, start, Len(lines)))

Inis ==
    [dupSection : BOOLEAN, dupKey : BOOLEAN, skip : BOOLEAN, cur : Sections \cup {NONE},
     map : [Sections -> Seq([Keys -> Seq(Values)])]]

IniInv(ini, lines) ==
    /\ ini \in Inis
    /\ lines \in Seq(IniEntries)
    /\ ~ini.skip => ini.cur # NONE
    /\ \A s \in Sections : SectionInv(ini, lines, s)

\* An entry is a line or the beginning of a file, and never both.
LEMMA EntryKinds ==
    /\ OPEN \in IniEntries
    /\ \A e \in Lines : e # OPEN /\ e \in IniEntries /\ (Breaks(e) <=> e.sect # NONE)
                        /\ (IsSection(e) <=> e.sect # NONE)
    /\ Breaks(OPEN) /\ ~IsSection(OPEN)
  <1>1. ASSUME NEW e \in Lines PROVE e # OPEN
    <2>1. DOMAIN e = {"sect", "key", "value"}
      BY DEF Lines
    <2>2. DOMAIN OPEN = {"open"}
      BY DEF OPEN
    <2>. QED
      BY <2>1, <2>2
  <1>. QED
    BY <1>1 DEF IniEntries, Breaks, IsSection

\* The first and the last place.
LEMMA OneOfPlaces ==
    ASSUME NEW n \in Nat, NEW U \in SUBSET (1 .. n), U # {}, NEW last \in BOOLEAN
    PROVE  /\ OneOf(U, last) \in U
           /\ \A y \in U : IF last THEN y <= OneOf(U, last) ELSE OneOf(U, last) <= y
  <1>1. U \in SUBSET Nat /\ \A y \in U : y <= n
    OBVIOUS
  <1>. QED
    BY <1>1, MinExists, MaxExists DEF OneOf

LEMMA OneOfUnique ==
    ASSUME NEW n \in Nat, NEW U \in SUBSET (1 .. n), NEW last \in BOOLEAN, NEW x \in U,
           \A y \in U : IF last THEN y <= x ELSE x <= y
    PROVE  OneOf(U, last) = x
  <1>. DEFINE z == OneOf(U, last)
  <1>1. z \in U /\ \A y \in U : IF last THEN y <= z ELSE z <= y
    BY OneOfPlaces
  <1>2. \A y \in U : y \in Nat
    OBVIOUS
  <1>. HIDE DEF z
  <1>3. z \in Nat /\ x \in Nat
    BY <1>1, <1>2
  <1>4. z <= x /\ x <= z
    BY <1>1
  <1>5. z = x
    BY <1>3, <1>4
  <1>. QED
    BY <1>5 DEF z

\* Another place n + 1.
LEMMA OneOfGrows ==
    ASSUME NEW n \in Nat, NEW U \in SUBSET (1 .. n), NEW last \in BOOLEAN
    PROVE  OneOf(U \cup {n + 1}, last) = IF last \/ U = {} THEN n + 1 ELSE OneOf(U, last)
  <1>1. U \cup {n + 1} \in SUBSET (1 .. n + 1) /\ n + 1 \in Nat
    OBVIOUS
  <1>2. CASE last \/ U = {}
    <2>1. \A y \in U \cup {n + 1} : IF last THEN y <= n + 1 ELSE n + 1 <= y
      BY <1>2
    <2>. QED
      BY <1>1, <1>2, <2>1, OneOfUnique
  <1>3. CASE ~last /\ U # {}
    <2>. DEFINE x == OneOf(U, last)
    <2>1. x \in U /\ \A y \in U : x <= y
      BY <1>3, OneOfPlaces
    <2>. HIDE DEF x
    <2>2. x \in U \cup {n + 1} /\ \A y \in U \cup {n + 1} : IF last THEN y <= x ELSE x <= y
      BY <1>3, <2>1
    <2>3. OneOf(U \cup {n + 1}, last) = x
      BY <1>1, <2>2, OneOfUnique
    <2>. QED
      BY <1>3, <2>3 DEF x
  <1>. QED
    BY <1>2, <1>3

\* What one more entry does to the places.
LEMMA OneMoreEntry ==
    ASSUME NEW lines \in Seq(IniEntries), NEW e \in IniEntries
    PROVE  LET n == Len(lines)
               new == Append(lines, e)
           IN /\ new \in Seq(IniEntries) /\ Len(new) = n + 1 /\ n \in Nat
              /\ new[n + 1] = e /\ \A i \in 1 .. n : new[i] = lines[i]
              /\ \A s : Starts(lines, s) \in SUBSET (1 .. n)
              /\ \A s : Starts(new, s) = IF IsSection(e) /\ e.sect = s
                                         THEN Starts(lines, s) \cup {n + 1}
                                         ELSE Starts(lines, s)
              /\ \A i \in 1 .. n :
                     /\ \A j \in Nat : j <= n => (Runs(new, i, j) <=> Runs(lines, i, j))
                     /\ Runs(new, i, n + 1) <=> Runs(lines, i, n) /\ ~Breaks(e)
              /\ \A k, i : Hits(lines, i, k) \in SUBSET (i + 1 .. n)
              /\ \A i \in 1 .. n, k \in Keys :
                     Hits(new, i, k) =
                         IF Runs(lines, i, n) /\ ~Breaks(e) /\ e.key = k /\ e.value # NONE
                         THEN Hits(lines, i, k) \cup {n + 1}
                         ELSE Hits(lines, i, k)
              /\ \A k \in Keys : Hits(new, n + 1, k) = {}
  <1>. DEFINE n == Len(lines)
              new == Append(lines, e)
  <1>1. /\ new \in Seq(IniEntries) /\ Len(new) = n + 1 /\ n \in Nat
        /\ new[n + 1] = e /\ \A i \in 1 .. n : new[i] = lines[i]
        /\ DOMAIN lines = 1 .. n /\ DOMAIN new = 1 .. n + 1
    OBVIOUS
  <1>. HIDE DEF n, new
  <1>2. ASSUME NEW s
        PROVE  /\ Starts(lines, s) \in SUBSET (1 .. n)
               /\ Starts(new, s) = IF IsSection(e) /\ e.sect = s
                                   THEN Starts(lines, s) \cup {n + 1} ELSE Starts(lines, s)
    <2>1. Starts(lines, s) \in SUBSET (1 .. n)
      BY <1>1 DEF Starts
    <2>2. \A i : i \in 1 .. n + 1 <=> i \in 1 .. n \/ i = n + 1
      BY <1>1
    <2>3. \A i : i \in Starts(new, s) <=>
              \/ i \in Starts(lines, s)
              \/ i = n + 1 /\ IsSection(e) /\ e.sect = s
      BY <1>1, <2>2 DEF Starts
    <2>. QED
      BY <2>1, <2>3
  <1>3. ASSUME NEW i \in 1 .. n
        PROVE  /\ \A j \in Nat : j <= n => (Runs(new, i, j) <=> Runs(lines, i, j))
               /\ Runs(new, i, n + 1) <=> Runs(lines, i, n) /\ ~Breaks(e)
    <2>1. \A j \in Nat : j <= n => \A m \in i + 1 .. j : new[m] = lines[m]
      BY <1>1
    <2>2. \A m : m \in i + 1 .. n + 1 <=> m \in i + 1 .. n \/ m = n + 1
      BY <1>1
    <2>3. \A j \in Nat : j <= n => (Runs(new, i, j) <=> Runs(lines, i, j))
      BY <2>1 DEF Runs
    <2>4. Runs(new, i, n + 1) <=> Runs(lines, i, n) /\ ~Breaks(e)
      <3>1. new[n + 1] = e /\ \A m \in i + 1 .. n : new[m] = lines[m]
        BY <1>1, <2>1
      <3>. QED
        BY <2>2, <3>1 DEF Runs
    <2>. QED
      BY <2>3, <2>4
  <1>4. \A k, i : Hits(lines, i, k) \in SUBSET (i + 1 .. n)
    BY DEF Hits, n
  <1>5. ASSUME NEW i \in 1 .. n, NEW k \in Keys
        PROVE  Hits(new, i, k) =
                   IF Runs(lines, i, n) /\ ~Breaks(e) /\ e.key = k /\ e.value # NONE
                   THEN Hits(lines, i, k) \cup {n + 1} ELSE Hits(lines, i, k)
    <2>1. \A j : j \in i + 1 .. n + 1 <=> j \in i + 1 .. n \/ j = n + 1
      BY <1>1
    <2>2. \A j \in i + 1 .. n : j \in Nat /\ j <= n /\ new[j] = lines[j]
      BY <1>1
    <2>3. \A j : j \in Hits(new, i, k) <=>
              \/ j \in i + 1 .. n /\ Runs(new, i, j) /\ new[j].key = k /\ new[j].value # NONE
              \/ j = n + 1 /\ Runs(new, i, n + 1) /\ e.key = k /\ e.value # NONE
      BY <1>1, <2>1 DEF Hits
    <2>4. \A j : j \in Hits(lines, i, k) <=>
              j \in i + 1 .. n /\ Runs(new, i, j) /\ new[j].key = k /\ new[j].value # NONE
      BY <1>3, <2>2 DEF Hits, n
    <2>. QED
      BY <1>3, <2>3, <2>4
  <1>6. ASSUME NEW k \in Keys PROVE Hits(new, n + 1, k) = {}
    BY <1>1 DEF Hits
  <1>. QED
    BY <1>1, <1>2, <1>3, <1>4, <1>5, <1>6 DEF n, new

\* A place where a block begins, and where its key was last or first given.
LEMMA StartIsPlace ==
    ASSUME NEW lines \in Seq(IniEntries), NEW s, NEW last \in BOOLEAN, Starts(lines, s) # {}
    PROVE  OneOf(Starts(lines, s), last) \in 1 .. Len(lines)
  <1>1. Len(lines) \in Nat /\ Starts(lines, s) \in SUBSET (1 .. Len(lines))
    BY DEF Starts
  <1>. QED
    BY <1>1, OneOfPlaces

\* Nothing that was said of a block is changed by an entry after its end, by one
\* that breaks it off, or by a pair whose key it has, if keys may not be repeated.
LEMMA BlockKept ==
    ASSUME NEW lines \in Seq(IniEntries), NEW e \in IniEntries, NEW i \in 1 .. Len(lines),
           NEW block, NEW dupKey \in BOOLEAN, BlockInv(block, lines, i, dupKey),
           \/ ~Runs(lines, i, Len(lines)) \/ Breaks(e)
           \/ e.key \notin Keys \/ e.value = NONE
           \/ ~dupKey /\ block[e.key] # <<>>
    PROVE  BlockInv(block, Append(lines, e), i, dupKey)
  <1>. DEFINE n == Len(lines)
              new == Append(lines, e)
  <1>1. ASSUME NEW k \in Keys
        PROVE  /\ Hits(new, i, k) = {} <=> Hits(lines, i, k) = {}
               /\ Hits(lines, i, k) # {} =>
                      OneOf(Hits(new, i, k), dupKey) = OneOf(Hits(lines, i, k), dupKey)
    <2>. DEFINE hits == Hits(lines, i, k)
    <2>1. CASE Hits(new, i, k) = hits
      BY <2>1
    <2>2. CASE Hits(new, i, k) # hits
      <3>1. Hits(new, i, k) = hits \cup {n + 1} /\ n \in Nat /\ hits \in SUBSET (i + 1 .. n)
            /\ Runs(lines, i, n) /\ ~Breaks(e) /\ e.key = k /\ e.value # NONE
        BY <2>2, OneMoreEntry
      <3>2. ~dupKey /\ hits # {}
        BY <3>1 DEF BlockInv
      <3>. HIDE DEF n, new, hits
      <3>3. hits \in SUBSET (1 .. n)
        BY <3>1
      <3>4. OneOf(hits \cup {n + 1}, dupKey) = OneOf(hits, dupKey)
        <4>1. OneOf(hits \cup {n + 1}, dupKey)
                  = IF dupKey \/ hits = {} THEN n + 1 ELSE OneOf(hits, dupKey)
          BY <3>1, <3>3, OneOfGrows, Zenon
        <4>. QED
          BY <3>2, <4>1, Zenon
      <3>. QED
        BY <3>1, <3>2, <3>4 DEF hits
    <2>. QED
      BY <2>1, <2>2
  <1>2. ASSUME NEW k \in Keys, Hits(lines, i, k) # {}
        PROVE  new[OneOf(Hits(lines, i, k), dupKey)] = lines[OneOf(Hits(lines, i, k), dupKey)]
    <2>1. n \in Nat /\ Hits(lines, i, k) \in SUBSET (1 .. n) /\ \A m \in 1 .. n : new[m] = lines[m]
      <3>1. n \in Nat /\ Hits(lines, i, k) \in SUBSET (i + 1 .. n) /\ \A m \in 1 .. n : new[m] = lines[m]
        BY OneMoreEntry
      <3>. QED
        BY <3>1
    <2>. HIDE DEF new, n
    <2>. QED
      BY <1>2, <2>1, OneOfPlaces
  <1>. HIDE DEF new
  <1>3. BlockInv(block, new, i, dupKey)
    BY <1>1, <1>2 DEF BlockInv
  <1>. QED
    BY <1>3 DEF new

\* A section that an entry does not begin, and whose block it does not continue.
LEMMA SectionKept ==
    ASSUME NEW ini, NEW lines \in Seq(IniEntries), NEW e \in IniEntries, NEW s \in Sections,
           ini.dupSection \in BOOLEAN, ini.dupKey \in BOOLEAN, SectionInv(ini, lines, s),
           ~(IsSection(e) /\ e.sect = s),
           NEW ini1, ini1.dupSection = ini.dupSection, ini1.dupKey = ini.dupKey,
           ini1.map[s] = ini.map[s],
           \/ ini.skip \/ ini.cur # s \/ Breaks(e) \/ e.key \notin Keys \/ e.value = NONE
           \/ ~ini.dupKey /\ ini.map[s][1][e.key] # <<>>,
           (~ini1.skip /\ ini1.cur = s) <=> (~ini.skip /\ ini.cur = s /\ ~Breaks(e))
    PROVE  SectionInv(ini1, Append(lines, e), s)
  <1>. DEFINE n == Len(lines)
              new == Append(lines, e)
              starts == Starts(lines, s)
              start == OneOf(starts, ini.dupSection)
  <1>1. Starts(new, s) = starts /\ Len(new) = n + 1
    BY OneMoreEntry
  <1>2. ASSUME starts # {}
        PROVE  /\ start \in 1 .. n
               /\ Runs(new, start, n + 1) <=> Runs(lines, start, n) /\ ~Breaks(e)
    <2>1. start \in 1 .. n
      BY <1>2, StartIsPlace
    <2>. QED
      BY <2>1, OneMoreEntry
  <1>3. starts # {} => BlockInv(ini.map[s][1], new, start, ini.dupKey)
    <2>. SUFFICES ASSUME starts # {} PROVE BlockInv(ini.map[s][1], new, start, ini.dupKey)
      OBVIOUS
    <2>1. /\ BlockInv(ini.map[s][1], lines, start, ini.dupKey)
          /\ (~ini.skip /\ ini.cur = s) <=> Runs(lines, start, n)
      BY DEF SectionInv
    <2>. HIDE DEF start, starts
    <2>. QED
      BY <1>2, <2>1, BlockKept
  <1>4. /\ starts = {} <=> ini1.map[s] = <<>>
        /\ Len(ini1.map[s]) = IF ini1.dupSection THEN Cardinality(starts)
                              ELSE IF starts = {} THEN 0 ELSE 1
        /\ (~ini.skip /\ ini.cur = s) <=> (starts # {} /\ Runs(lines, start, n))
    BY DEF SectionInv
  <1>. HIDE DEF starts, start, new, n
  <1>5. (~ini1.skip /\ ini1.cur = s) <=> (starts # {} /\ Runs(new, start, Len(new)))
    BY <1>1, <1>2, <1>4
  <1>. QED
    BY <1>1, <1>3, <1>4, <1>5 DEF SectionInv, start, new

LEMMA NewIniInv == ASSUME NEW a \in BOOLEAN, NEW b \in BOOLEAN PROVE IniInv(NewIni(a, b), <<>>)
  <1>. DEFINE ini == NewIni(a, b)
  <1>1. /\ ini.dupSection = a /\ ini.dupKey = b /\ ini.skip = TRUE /\ ini.cur = NONE
        /\ \A s \in Sections : ini.map[s] = <<>>
    BY DEF NewIni
  <1>2. ini \in Inis
    BY DEF NewIni, Inis
  <1>3. <<>> \in Seq(IniEntries) /\ Len(<<>>) = 0
    OBVIOUS
  <1>. HIDE DEF ini
  <1>4. ASSUME NEW s \in Sections PROVE SectionInv(ini, <<>>, s)
    <2>1. Starts(<<>>, s) = {} /\ Cardinality({}) = 0 /\ Len(<<>>) = 0
      BY FS_EmptySet DEF Starts
    <2>. QED
      BY <1>1, <2>1 DEF SectionInv
  <1>. QED
    BY <1>1, <1>2, <1>3, <1>4 DEF IniInv, ini

\* Another file begins.
LEMMA OpenKeepsIni ==
    ASSUME NEW ini, NEW lines, IniInv(ini, lines)
    PROVE  IniInv(Open(ini), Append(lines, OPEN))
  <1>1. ini \in Inis /\ lines \in Seq(IniEntries) /\ OPEN \in IniEntries
    BY EntryKinds DEF IniInv
  <1>2. /\ Open(ini).dupSection = ini.dupSection /\ Open(ini).dupKey = ini.dupKey
        /\ Open(ini).skip = TRUE /\ Open(ini).map = ini.map /\ Open(ini) \in Inis
        /\ ini.dupSection \in BOOLEAN /\ ini.dupKey \in BOOLEAN
    BY <1>1 DEF Open, Inis
  <1>3. ASSUME NEW s \in Sections PROVE SectionInv(Open(ini), Append(lines, OPEN), s)
    <2>1. SectionInv(ini, lines, s)
      BY DEF IniInv
    <2>. QED
      BY <1>1, <1>2, <2>1, EntryKinds, SectionKept
  <1>4. Append(lines, OPEN) \in Seq(IniEntries)
    BY <1>1
  <1>. QED
    BY <1>2, <1>3, <1>4 DEF IniInv

\* A block begins.
LEMMA NewBlock ==
    ASSUME NEW ini \in Inis, NEW lines \in Seq(IniEntries), NEW e \in Lines, e.sect # NONE,
           e.sect \in Sections, SectionInv(ini, lines, e.sect),
           ini.dupSection \/ ini.map[e.sect] = <<>>
    PROVE  SectionInv(WithSection(ini, e.sect), Append(lines, e), e.sect)
  <1>. DEFINE s == e.sect
              n == Len(lines)
              new == Append(lines, e)
              empty == [k \in Keys |-> <<>>]
              ini1 == WithSection(ini, s)
              starts == Starts(lines, s)
  <1>1. /\ ini1.dupSection = ini.dupSection /\ ini1.dupKey = ini.dupKey
        /\ ini1.skip = FALSE /\ ini1.cur = s /\ ini1.map[s] = <<empty>> \o ini.map[s]
        /\ ini.map[s] \in Seq([Keys -> Seq(Values)]) /\ ini.dupSection \in BOOLEAN
    BY DEF WithSection, Inis
  <1>2. /\ Len(ini1.map[s]) = Len(ini.map[s]) + 1 /\ ini1.map[s] # <<>>
        /\ ini1.map[s][1] = empty /\ Len(ini.map[s]) \in Nat
        /\ ini.map[s] = <<>> => Len(ini.map[s]) = 0
    <2>. DEFINE old == ini.map[s]
    <2>1. old \in Seq([Keys -> Seq(Values)]) /\ empty \in [Keys -> Seq(Values)]
      BY <1>1
    <2>. HIDE DEF old, empty
    <2>2. Len(<<empty>> \o old) = Len(old) + 1 /\ (<<empty>> \o old)[1] = empty
      BY <2>1
    <2>. QED
      BY <1>1, <2>1, <2>2 DEF old
  <1>3. /\ Starts(new, s) = starts \cup {n + 1} /\ starts \in SUBSET (1 .. n) /\ n \in Nat
        /\ Len(new) = n + 1 /\ \A k \in Keys : Hits(new, n + 1, k) = {}
    BY EntryKinds, OneMoreEntry
  <1>4. /\ starts = {} <=> ini.map[s] = <<>>
        /\ Len(ini.map[s]) = IF ini.dupSection THEN Cardinality(starts)
                             ELSE IF starts = {} THEN 0 ELSE 1
    BY DEF SectionInv
  <1>5. Cardinality(starts \cup {n + 1}) = Cardinality(starts) + 1 /\ Cardinality({}) = 0
    <2>1. IsFiniteSet(starts) /\ n + 1 \notin starts
      <3>1. IsFiniteSet(1 .. n) /\ n + 1 \notin 1 .. n
        BY <1>3, FS_Interval
      <3>. QED
        BY <1>3, <3>1, FS_Subset
    <2>. QED
      BY <2>1, FS_AddElement, FS_EmptySet
  <1>6. OneOf(Starts(new, s), ini.dupSection) = n + 1
    <2>1. ini.dupSection \/ starts = {}
      BY <1>4
    <2>. QED
      BY <1>1, <1>3, <2>1, OneOfGrows
  <1>7. BlockInv(empty, new, n + 1, ini.dupKey) /\ Runs(new, n + 1, n + 1)
    BY <1>3 DEF BlockInv, Runs
  <1>8. ini.dupSection \/ ini.map[s] = <<>>
    OBVIOUS
  <1>. HIDE DEF s, n, new, empty, ini1, starts
  <1>9. Len(ini1.map[s]) = IF ini.dupSection THEN Cardinality(starts \cup {n + 1}) ELSE 1
    <2>1. CASE ini.dupSection
      BY <1>2, <1>4, <1>5, <2>1
    <2>2. CASE ~ini.dupSection
      BY <1>8, <1>2, <2>2
    <2>. QED
      BY <2>1, <2>2
  <1>10. SectionInv(ini1, new, s)
    BY <1>1, <1>2, <1>3, <1>6, <1>7, <1>9 DEF SectionInv
  <1>. QED
    BY <1>10 DEF s, ini1, new

\* A line with brackets.
LEMMA SectionLineKeepsIni ==
    ASSUME NEW ini, NEW lines, IniInv(ini, lines), NEW e \in Lines, e.sect # NONE
    PROVE  IniInv(SectionLine(ini, e.sect), Append(lines, e))
  <1>. DEFINE s == e.sect
              n == Len(lines)
              new == Append(lines, e)
              ini1 == SectionLine(ini, s)
  <1>1. /\ ini \in Inis /\ lines \in Seq(IniEntries) /\ \A t \in Sections : SectionInv(ini, lines, t)
        /\ ini.dupSection \in BOOLEAN /\ ini.dupKey \in BOOLEAN
    BY DEF IniInv, Inis
  <1>2. s \in Sections /\ s # NONE /\ e \in IniEntries /\ IsSection(e) /\ Breaks(e)
    BY EntryKinds DEF Lines
  <1>3. new \in Seq(IniEntries)
    BY <1>1, <1>2
  <1>. SUFFICES IniInv(ini1, new)
    OBVIOUS
  <1>. HIDE DEF s
  <1>4. CASE ~ini.dupSection /\ ini.map[s] # <<>>
    <2>1. ini1 = [ini EXCEPT !.skip = TRUE]
      BY <1>4 DEF SectionLine
    <2>2. /\ ini1.dupSection = ini.dupSection /\ ini1.dupKey = ini.dupKey
          /\ ini1.skip = TRUE /\ ini1.map = ini.map /\ ini1 \in Inis
      BY <1>1, <2>1 DEF Inis
    <2>. HIDE DEF ini1, new
    <2>3. ASSUME NEW t \in Sections, t # s PROVE SectionInv(ini1, new, t)
      <3>1. SectionInv(ini, lines, t) /\ ~(IsSection(e) /\ e.sect = t)
        BY <1>1, <2>3 DEF s
      <3>. QED
        BY <1>1, <1>2, <2>2, <3>1, SectionKept DEF new
    <2>4. SectionInv(ini1, new, s)
      <3>. DEFINE starts == Starts(lines, s)
                  start == OneOf(starts, FALSE)
      <3>1. /\ starts # {} /\ Len(ini.map[s]) = 1 /\ ini.dupSection = FALSE
            /\ BlockInv(ini.map[s][1], lines, start, ini.dupKey)
        BY <1>1, <1>2, <1>4 DEF SectionInv
      <3>2. start \in 1 .. n
        BY <1>1, <3>1, StartIsPlace
      <3>3. /\ Starts(new, s) = starts \cup {n + 1} /\ n \in Nat /\ Len(new) = n + 1
            /\ starts \in SUBSET (1 .. n)
            /\ \A i \in 1 .. n : Runs(new, i, n + 1) <=> Runs(lines, i, n) /\ ~Breaks(e)
        BY <1>1, <1>2, OneMoreEntry DEF s, new
      <3>4. OneOf(Starts(new, s), FALSE) = start
        <4>1. OneOf(starts \cup {n + 1}, FALSE) = start
          <5>. HIDE DEF n, starts
          <5>1. OneOf(starts \cup {n + 1}, FALSE) = IF FALSE \/ starts = {} THEN n + 1 ELSE OneOf(starts, FALSE)
            BY <3>3, OneOfGrows
          <5>. QED
            BY <3>1, <5>1
        <4>. QED
          BY <3>3, <4>1
      <3>. HIDE DEF start, starts, n
      <3>5. BlockInv(ini.map[s][1], new, start, ini.dupKey)
        BY <1>1, <1>2, <3>1, <3>2, BlockKept DEF new, n
      <3>6. ~Runs(new, start, Len(new)) /\ Starts(new, s) # {}
        BY <1>2, <3>2, <3>3
      <3>. QED
        BY <1>4, <2>2, <3>1, <3>4, <3>5, <3>6 DEF SectionInv
    <2>. QED
      BY <1>3, <2>2, <2>3, <2>4 DEF IniInv
  <1>5. CASE ini.dupSection \/ ini.map[s] = <<>>
    <2>1. ini1 = WithSection(ini, s)
      BY <1>5 DEF SectionLine
    <2>2. SectionInv(ini1, new, s)
      BY <1>1, <1>2, <1>5, <2>1, NewBlock DEF s
    <2>3. /\ ini1.dupSection = ini.dupSection /\ ini1.dupKey = ini.dupKey
          /\ ini1.skip = FALSE /\ ini1.cur = s /\ ini1 \in Inis
          /\ \A t \in Sections : t # s => ini1.map[t] = ini.map[t]
      <3>1. [k \in Keys |-> <<>>] \in [Keys -> Seq(Values)]
        OBVIOUS
      <3>2. ini.map[s] \in Seq([Keys -> Seq(Values)])
        BY <1>1, <1>2 DEF Inis
      <3>3. <<[k \in Keys |-> <<>>]>> \o ini.map[s] \in Seq([Keys -> Seq(Values)])
        BY <3>1, <3>2
      <3>4. [ini.map EXCEPT ![s] = <<[k \in Keys |-> <<>>]>> \o @]
                \in [Sections -> Seq([Keys -> Seq(Values)])]
        BY <1>1, <3>3 DEF Inis
      <3>. QED
        BY <1>1, <1>2, <2>1, <3>4 DEF WithSection, Inis
    <2>. HIDE DEF ini1, new
    <2>4. ASSUME NEW t \in Sections, t # s PROVE SectionInv(ini1, new, t)
      <3>1. SectionInv(ini, lines, t) /\ ~(IsSection(e) /\ e.sect = t)
        BY <1>1, <2>4 DEF s
      <3>. QED
        BY <1>1, <1>2, <2>3, <2>4, <3>1, SectionKept DEF new
    <2>. QED
      BY <1>2, <1>3, <2>2, <2>3, <2>4 DEF IniInv
  <1>. QED
    BY <1>4, <1>5

\* A pair that is taken: the map's newest block of the section is the one that runs.
LEMMA PairTaken ==
    ASSUME NEW ini \in Inis, NEW lines \in Seq(IniEntries), NEW e \in Lines, e.sect = NONE,
           ini.cur \in Sections, SectionInv(ini, lines, ini.cur), ~ini.skip,
           e.key \in Keys, e.value \in Values,
           ini.dupKey \/ ini.map[ini.cur][1][e.key] = <<>>
    PROVE  LET ini1 == WithPair(ini, e.key, e.value)
           IN ini1 \in Inis /\ SectionInv(ini1, Append(lines, e), ini.cur)
  <1>. DEFINE ini1 == WithPair(ini, e.key, e.value)
              s == ini.cur
              k == e.key
              n == Len(lines)
              new == Append(lines, e)
              starts == Starts(lines, s)
              start == OneOf(starts, ini.dupSection)
              block == ini.map[s][1]
              block1 == [block EXCEPT ![k] = <<e.value>> \o @]
              blocks1 == [ini.map[s] EXCEPT ![1] = block1]
  <1>1. /\ starts # {} /\ Runs(lines, start, n) /\ ini.map[s] # <<>>
        /\ BlockInv(block, lines, start, ini.dupKey)
        /\ Len(ini.map[s]) = IF ini.dupSection THEN Cardinality(starts)
                             ELSE IF starts = {} THEN 0 ELSE 1
    BY DEF SectionInv
  <1>2. /\ e \in IniEntries /\ ~IsSection(e) /\ ~Breaks(e) /\ e.value # NONE
        /\ ini.dupSection \in BOOLEAN /\ ini.dupKey \in BOOLEAN
    BY EntryKinds, IniFileAssumption DEF Inis
  <1>3. start \in 1 .. n
    BY <1>1, <1>2, StartIsPlace
  <1>4. /\ Starts(new, s) = starts /\ Len(new) = n + 1 /\ Runs(new, start, n + 1)
        /\ n \in Nat /\ new[n + 1] = e /\ \A i \in 1 .. n : new[i] = lines[i]
        /\ Hits(new, start, k) = Hits(lines, start, k) \cup {n + 1}
        /\ \A h \in Keys : h # k => Hits(new, start, h) = Hits(lines, start, h)
        /\ \A h : Hits(lines, start, h) \in SUBSET (start + 1 .. n)
    <2>1. start \in 1 .. n /\ Runs(lines, start, n)
      BY <1>1, <1>3
    <2>2. e.key = k
      BY SMTT(30)
    <2>. HIDE DEF start, k, s, ini1, block, block1, blocks1
    <2>. QED
      BY <1>2, <2>1, <2>2, OneMoreEntry DEF starts
  <1>5. /\ ini.map[s] \in Seq([Keys -> Seq(Values)]) /\ block \in [Keys -> Seq(Values)]
        /\ block1 \in [Keys -> Seq(Values)] /\ blocks1 \in Seq([Keys -> Seq(Values)])
        /\ Len(blocks1) = Len(ini.map[s]) /\ blocks1[1] = block1 /\ blocks1 # <<>>
    <2>. DEFINE old == ini.map[s]
    <2>1. old \in Seq([Keys -> Seq(Values)])
      BY DEF Inis
    <2>2. old # <<>>
      BY <1>1
    <2>. HIDE DEF old
    <2>3. old[1] \in [Keys -> Seq(Values)] /\ 1 \in 1 .. Len(old)
      BY <2>1, <2>2
    <2>4. ASSUME NEW q \in [Keys -> Seq(Values)] PROVE [q EXCEPT ![k] = <<e.value>> \o @] \in [Keys -> Seq(Values)]
      <3>1. <<e.value>> \o q[k] \in Seq(Values)
        <4>1. q[k] \in Seq(Values) /\ <<e.value>> \in Seq(Values)
          OBVIOUS
        <4>. QED
          BY <4>1
      <3>. QED
        BY <3>1
    <2>5. ASSUME NEW q \in [Keys -> Seq(Values)]
          PROVE  /\ [old EXCEPT ![1] = q] \in Seq([Keys -> Seq(Values)])
                 /\ Len([old EXCEPT ![1] = q]) = Len(old)
                 /\ [old EXCEPT ![1] = q][1] = q
                 /\ [old EXCEPT ![1] = q] # <<>>
      BY <2>1, <2>2, <2>3
    <2>. QED
      BY <2>1, <2>3, <2>4, <2>5 DEF old
  <1>6. /\ ini1.dupSection = ini.dupSection /\ ini1.dupKey = ini.dupKey
        /\ ini1.skip = ini.skip /\ ini1.cur = s /\ ini1.map[s] = blocks1 /\ ini1 \in Inis
    <2>. HIDE DEF blocks1, block1
    <2>1. ini1 = [ini EXCEPT !.map = [ini.map EXCEPT ![s] = blocks1]]
      BY DEF blocks1, block1, block, s, k, WithPair
    <2>2. [ini.map EXCEPT ![s] = blocks1] \in [Sections -> Seq([Keys -> Seq(Values)])]
      BY <1>5 DEF Inis
    <2>. QED
      BY <2>1, <2>2 DEF Inis
  <1>7. /\ block[k] # <<>> => ini.dupKey
        /\ ~ini.skip /\ k \in Keys
    OBVIOUS
  <1>8. BlockInv(block1, new, start, ini.dupKey)
    <2>1. block1[k] # <<>> /\ block1[k][1] = e.value
      <3>1. block1[k] = <<e.value>> \o block[k] /\ block[k] \in Seq(Values)
        BY <1>5
      <3>. HIDE DEF block, block1
      <3>2. (<<e.value>> \o block[k])[1] = e.value /\ <<e.value>> \o block[k] # <<>>
        <4>1. \A q \in Seq(Values), v \in Values : (<<v>> \o q)[1] = v /\ <<v>> \o q # <<>>
          OBVIOUS
        <4>. QED
          BY <3>1, <4>1
      <3>. QED
        BY <3>1, <3>2, SMTT(30)
    <2>2. OneOf(Hits(new, start, k), ini.dupKey) = n + 1
      <3>1. Hits(lines, start, k) \in SUBSET (1 .. n)
        <4>1. Hits(lines, start, k) \in SUBSET (start + 1 .. n)
          BY <1>4
        <4>. HIDE DEF start, n
        <4>. QED
          BY <1>3, <1>4, <4>1
      <3>2. ini.dupKey \/ Hits(lines, start, k) = {}
        BY <1>7, <1>1 DEF BlockInv
      <3>. HIDE DEF start, k, n, new
      <3>. QED
        BY <1>2, <1>4, <3>1, <3>2, OneOfGrows
    <2>3. ASSUME NEW h \in Keys, h # k, Hits(lines, start, h) # {}
          PROVE  OneOf(Hits(lines, start, h), ini.dupKey) \in 1 .. n
      <3>1. Hits(lines, start, h) \in SUBSET (1 .. n)
        <4>1. Hits(lines, start, h) \in SUBSET (start + 1 .. n)
          BY <1>4
        <4>. HIDE DEF start, n
        <4>. QED
          BY <1>3, <1>4, <4>1
      <3>. HIDE DEF start, n
      <3>. QED
        BY <1>2, <1>4, <2>3, <3>1, OneOfPlaces
    <2>4. \A h \in Keys : h # k => block1[h] = block[h]
      BY <1>5
    <2>. HIDE DEF start, k, n, new, block, block1
    <2>5. ASSUME NEW h \in Keys
          PROVE  /\ block1[h] = <<>> <=> Hits(new, start, h) = {}
                 /\ Hits(new, start, h) # {} =>
                        block1[h][1] = new[OneOf(Hits(new, start, h), ini.dupKey)].value
      <3>1. CASE h = k
        BY <1>4, <2>1, <2>2, <3>1
      <3>2. CASE h # k
        <4>1. /\ block[h] = <<>> <=> Hits(lines, start, h) = {}
              /\ Hits(lines, start, h) # {} =>
                     block[h][1] = lines[OneOf(Hits(lines, start, h), ini.dupKey)].value
          BY <1>1 DEF BlockInv
        <4>. QED
          BY <1>4, <2>3, <2>4, <3>2, <4>1
      <3>. QED
        BY <3>1, <3>2
    <2>. QED
      BY <2>5 DEF BlockInv
  <1>. HIDE DEF start, starts, k, n, new, block, block1, blocks1
  <1>. HIDE DEF ini1
  <1>9. SectionInv(ini1, new, s)
    BY <1>7, <1>1, <1>4, <1>5, <1>6, <1>8 DEF SectionInv, start
  <1>. QED
    BY <1>6, <1>9 DEF new, ini1, s

\* Every line.
LEMMA TakeLineKeepsIni ==
    ASSUME NEW ini, NEW lines, IniInv(ini, lines), NEW e \in Lines
    PROVE  IniInv(TakeLine(ini, e), Append(lines, e))
  <1>. DEFINE new == Append(lines, e)
  <1>1. CASE e.sect # NONE
    BY <1>1, SectionLineKeepsIni DEF TakeLine
  <1>2. CASE e.sect = NONE
    <2>. DEFINE ini1 == PairLine(ini, e.key, e.value)
                taken == /\ ~ini.skip /\ ini.cur # NONE
                         /\ e.key # NONE /\ e.value # NONE
                         /\ ini.dupKey \/ ini.map[ini.cur][1][e.key] = <<>>
    <2>1. TakeLine(ini, e) = ini1
      BY <1>2 DEF TakeLine
    <2>2. /\ ini \in Inis /\ lines \in Seq(IniEntries) /\ \A t \in Sections : SectionInv(ini, lines, t)
          /\ ini.dupSection \in BOOLEAN /\ ini.dupKey \in BOOLEAN /\ (~ini.skip => ini.cur # NONE)
          /\ ini.cur \in Sections \cup {NONE}
      BY DEF IniInv, Inis
    <2>3. e \in IniEntries /\ ~IsSection(e) /\ ~Breaks(e) /\ new \in Seq(IniEntries)
      <3>1. e \in IniEntries /\ ~IsSection(e) /\ ~Breaks(e)
        BY <1>2, EntryKinds
      <3>. QED
        BY <2>2, <3>1
    <2>. SUFFICES IniInv(ini1, new)
      BY <2>1
    <2>4. CASE taken
      <3>1. ini1 = WithPair(ini, e.key, e.value)
        BY <2>4 DEF PairLine
      <3>2. ini.cur \in Sections /\ e.key \in Keys /\ e.value \in Values /\ ~ini.skip
            /\ (ini.dupKey \/ ini.map[ini.cur][1][e.key] = <<>>)
        BY <2>2, <2>4 DEF Lines
      <3>3. ini1 \in Inis /\ SectionInv(ini1, new, ini.cur)
        BY <1>2, <2>2, <3>1, <3>2, PairTaken
      <3>4. /\ ini1.dupSection = ini.dupSection /\ ini1.dupKey = ini.dupKey
            /\ ini1.skip = ini.skip /\ ini1.cur = ini.cur
            /\ \A t \in Sections : t # ini.cur => ini1.map[t] = ini.map[t]
        BY <2>2, <3>1, <3>2 DEF Inis, WithPair
      <3>. HIDE DEF ini1, new
      <3>5. ASSUME NEW t \in Sections, t # ini.cur PROVE SectionInv(ini1, new, t)
        <4>1. /\ ini1.map[t] = ini.map[t] /\ SectionInv(ini, lines, t) /\ ~(IsSection(e) /\ e.sect = t)
              /\ (~ini1.skip /\ ini1.cur = t) <=> (~ini.skip /\ ini.cur = t /\ ~Breaks(e))
          BY <2>2, <2>3, <3>4, <3>5
        <4>. QED
          BY <2>2, <2>3, <3>4, <3>5, <4>1, SectionKept DEF new
      <3>. QED
        BY <2>2, <2>3, <3>3, <3>4, <3>5 DEF IniInv
    <2>5. CASE ~taken
      <3>1. ini1 = ini
        BY <2>5 DEF PairLine
      <3>. HIDE DEF ini1, new
      <3>2. ASSUME NEW t \in Sections PROVE SectionInv(ini, new, t)
        <4>1. /\ SectionInv(ini, lines, t) /\ ~(IsSection(e) /\ e.sect = t)
              /\ (~ini.skip /\ ini.cur = t) <=> (~ini.skip /\ ini.cur = t /\ ~Breaks(e))
          BY <2>2, <2>3
        <4>2. \/ ini.skip \/ ini.cur # t \/ e.key \notin Keys \/ e.value = NONE
              \/ ~ini.dupKey /\ ini.map[t][1][e.key] # <<>>
          BY <2>2, <2>5, IniFileAssumption
        <4>. QED
          BY <2>2, <2>3, <4>1, <4>2, SectionKept DEF new
      <3>. QED
        BY <2>2, <2>3, <3>1, <3>2 DEF IniInv
    <2>. QED
      BY <2>4, <2>5
  <1>. QED
    BY <1>1, <1>2

\* What the places are for: read() gives what the lines say.
LEMMA ExpectedByPlaces ==
    ASSUME NEW ini \in Inis, NEW lines \in Seq(IniEntries), NEW s \in Sections, NEW k \in Keys
    PROVE  LET starts == Starts(lines, s)
               hits == Hits(lines, OneOf(starts, ini.dupSection), k)
           IN Expected(ini, lines, s, k) =
                  IF starts = {} THEN NONE
                  ELSE IF hits = {} THEN NONE ELSE lines[OneOf(hits, ini.dupKey)].value
  <1>. DEFINE starts == Starts(lines, s)
              start == OneOf(starts, ini.dupSection)
              n == Len(lines)
              ends == {i \in start + 1 .. n : lines[i] = OPEN \/ IsSection(lines[i])} \cup {n + 1}
              end == Min(ends)
              hits == {i \in start + 1 .. end - 1 : lines[i].key = k /\ lines[i].value # NONE}
  <1>1. ASSUME starts # {} PROVE hits = Hits(lines, start, k)
    <2>1. n \in Nat /\ start \in 1 .. n
      BY <1>1, StartIsPlace DEF Inis
    <2>2. \A i : i \in ends <=> (i \in start + 1 .. n /\ Breaks(lines[i])) \/ i = n + 1
      BY DEF Breaks
    <2>. HIDE DEF start, n, ends
    <2>3. ends \in SUBSET Nat /\ n + 1 \in ends /\ \A y \in ends : start + 1 <= y
      BY <2>1, <2>2
    <2>4. end \in ends /\ \A y \in ends : end <= y
      BY <2>3, MinExists
    <2>. HIDE DEF end
    <2>5. end \in Nat /\ end <= n + 1 /\ start + 1 <= end
      BY <2>3, <2>4
    <2>6. ASSUME NEW j \in start + 1 .. n PROVE Runs(lines, start, j) <=> j < end
      <3>1. ASSUME j < end, NEW m \in start + 1 .. j PROVE ~Breaks(lines[m])
        <4>1. m \in Nat /\ m \in start + 1 .. n /\ m < end
          BY <2>1, <2>5, <3>1
        <4>2. m \notin ends
          BY <2>4, <2>5, <4>1
        <4>. QED
          BY <2>2, <4>1, <4>2
      <3>2. ASSUME ~(j < end) PROVE ~Runs(lines, start, j)
        <4>1. end \in start + 1 .. j /\ end \in start + 1 .. n /\ end # n + 1
          BY <2>1, <2>5, <3>2
        <4>. QED
          BY <2>2, <2>4, <4>1 DEF Runs
      <3>. QED
        BY <3>1, <3>2 DEF Runs
    <2>7. \A j : j \in start + 1 .. end - 1 <=> j \in start + 1 .. n /\ j < end
      BY <2>1, <2>5
    <2>. QED
      BY <2>6, <2>7 DEF Hits, n
  <1>2. Expected(ini, lines, s, k) =
            IF starts = {} THEN NONE
            ELSE IF hits = {} THEN NONE ELSE lines[OneOf(hits, ini.dupKey)].value
    BY DEF Expected, Starts, OneOf
  <1>. HIDE DEF hits, starts, start
  <1>3. CASE starts = {}
    BY <1>2, <1>3 DEF starts
  <1>4. CASE starts # {}
    BY <1>1, <1>2, <1>4 DEF starts, start
  <1>. QED
    BY <1>3, <1>4

LEMMA IniReadsExact ==
    ASSUME NEW ini, NEW lines, IniInv(ini, lines)
    PROVE  ReadsExact(ini, lines)
  <1>1. ini \in Inis /\ lines \in Seq(IniEntries) /\ Len(lines) \in Nat
    BY DEF IniInv
  <1>2. ASSUME NEW s \in Sections
        PROVE  LET blocks == Cardinality(Starts(lines, s))
               IN /\ Count(ini, s) = IF ini.dupSection THEN blocks ELSE IF blocks = 0 THEN 0 ELSE 1
                  /\ blocks > 0 => Opened(ini)
                  /\ \A k \in Keys : Read(ini, s, k) = Expected(ini, lines, s, k)
    <2>. DEFINE starts == Starts(lines, s)
    <2>1. SectionInv(ini, lines, s)
      BY DEF IniInv
    <2>2. (Cardinality(starts) = 0 <=> starts = {}) /\ Cardinality(starts) \in Nat
      <3>1. IsFiniteSet(1 .. Len(lines))
        BY <1>1, FS_Interval
      <3>2. IsFiniteSet(1 .. Len(lines)) /\ starts \in SUBSET (1 .. Len(lines))
        BY <1>1, <3>1 DEF Starts
      <3>. HIDE DEF starts
      <3>3. IsFiniteSet(starts)
        BY <3>2, FS_Subset
      <3>. QED
        BY <3>3, FS_EmptySet, FS_CardinalityType
    <2>3. ASSUME NEW k \in Keys PROVE Read(ini, s, k) = Expected(ini, lines, s, k)
      <3>1. /\ starts = {} <=> ini.map[s] = <<>>
            /\ starts # {} => BlockInv(ini.map[s][1], lines, OneOf(starts, ini.dupSection), ini.dupKey)
        BY <2>1 DEF SectionInv
      <3>. HIDE DEF starts
      <3>2. Expected(ini, lines, s, k) =
                IF starts = {} THEN NONE
                ELSE IF Hits(lines, OneOf(starts, ini.dupSection), k) = {} THEN NONE
                ELSE lines[OneOf(Hits(lines, OneOf(starts, ini.dupSection), k), ini.dupKey)].value
        BY <1>1, ExpectedByPlaces DEF starts
      <3>3. CASE starts = {}
        BY <3>1, <3>2, <3>3 DEF Read
      <3>4. CASE starts # {}
        BY <3>1, <3>2, <3>4 DEF Read, BlockInv
      <3>. QED
        BY <3>3, <3>4
    <2>. HIDE DEF starts
    <2>4. /\ Count(ini, s) = IF ini.dupSection THEN Cardinality(starts)
                             ELSE IF Cardinality(starts) = 0 THEN 0 ELSE 1
          /\ Cardinality(starts) > 0 => Opened(ini)
      BY <2>1, <2>2 DEF SectionInv, Count, Opened, starts
    <2>. QED
      BY <2>3, <2>4 DEF starts
  <1>. QED
    BY <1>2 DEF ReadsExact, Starts

-----------------------------------------------------------------------------
(***************************************************************************)
(* DirUtil.                                                                *)
(***************************************************************************)
EntryRecords == [ino : Nat, kind : DOMAIN ModeBits, name : Nat]

\* What is listed is what is there with the mode, in its order.
Listed(f, entries, mode) ==
    /\ f \in [0 .. Len(entries) -> Seq(EntryRecords)]
    /\ f[0] = <<>>
    /\ \A k \in 1 .. Len(entries) :
           f[k] = IF HasMode(entries[k], mode) THEN Append(f[k - 1], entries[k]) ELSE f[k - 1]

LEMMA LsIsRecursive ==
    ASSUME NEW entries \in Seq(EntryRecords), NEW mode
    PROVE  \E f : Listed(f, entries, mode) /\ Ls(entries, mode) = f[Len(entries)]
  <1>. DEFINE n == Len(entries)
              X == Seq(EntryRecords)
              Next1(k, x) == IF HasMode(entries[k], mode) THEN Append(x, entries[k]) ELSE x
              step == [k \in 1 .. n |-> [x \in X |-> Next1(k, x)]]
              Rec(g) == [k \in 0 .. n |->
                             IF k = 0 THEN <<>>
                             ELSE IF HasMode(entries[k], mode) THEN Append(g[k - 1], entries[k])
                             ELSE g[k - 1]]
  <1>1. n \in Nat /\ <<>> \in X /\ \A k \in 1 .. n : entries[k] \in EntryRecords
    OBVIOUS
  <1>2. step \in [1 .. n -> [X -> X]]
    <2>1. ASSUME NEW k \in 1 .. n, NEW x \in X PROVE Next1(k, x) \in X
      BY <1>1
    <2>. QED
      BY <2>1
  <1>3. PICK f : Follows(f, n, X, <<>>, step)
    BY <1>1, <1>2, RecursionUpTo
  <1>4. ASSUME NEW g \in [0 .. n -> X], NEW k \in 1 .. n PROVE step[k][g[k - 1]] = Next1(k, g[k - 1])
    <2>1. k - 1 \in 0 .. n
      BY <1>1
    <2>. QED
      BY <2>1
  <1>5. f = Rec(f)
    <2>1. \A k \in 0 .. n : k # 0 => k \in 1 .. n
      BY <1>1
    <2>. HIDE DEF step, n, X
    <2>. QED
      BY <1>3, <1>4, <2>1 DEF Follows
  <1>. DEFINE h == CHOOSE g : g = Rec(g)
  <1>6. h = Rec(h)
    <2>. HIDE DEF Rec
    <2>. QED
      BY <1>5
  <1>7. Ls(entries, mode) = h[n]
    BY DEF Ls
  <1>. HIDE DEF h
  <1>8. h = [k \in 0 .. n |-> h[k]] /\ h[0] = <<>> /\ \A k \in 1 .. n : h[k] = Next1(k, h[k - 1])
    <2>1. 0 \in 0 .. n /\ \A k \in 1 .. n : k \in 0 .. n /\ k # 0
      BY <1>1
    <2>. HIDE DEF n
    <2>. QED
      BY <1>6, <2>1
  <1>9. h \in [0 .. n -> X]
    <2>1. \A k \in 1 .. n, x \in X : step[k][x] = Next1(k, x)
      OBVIOUS
    <2>. HIDE DEF n, X, step, Next1
    <2>2. Follows(h, n, X, <<>>, step)
      BY <1>1, <1>2, <1>8, <2>1, RecursionIsTyped
    <2>. QED
      BY <2>2 DEF Follows
  <1>10. Listed(h, entries, mode)
    BY <1>8, <1>9 DEF Listed
  <1>. QED
    BY <1>7, <1>10

\* What is listed: as many as there are with the mode, and those.
LEMMA LsLists ==
    ASSUME NEW entries \in Seq(EntryRecords), NEW mode
    PROVE  LET listed == Ls(entries, mode)
               places == {i \in DOMAIN entries : HasMode(entries[i], mode)}
           IN /\ listed \in Seq(EntryRecords)
              /\ Len(listed) = Cardinality(places)
              /\ \A j \in DOMAIN listed : \E i \in places : listed[j] = entries[i]
              /\ \A i \in places : \E j \in DOMAIN listed : listed[j] = entries[i]
              /\ places = DOMAIN entries => listed = entries
  <1>. DEFINE n == Len(entries)
              Places(k) == {i \in 1 .. k : HasMode(entries[i], mode)}
              Lists(l, k) == /\ l \in Seq(EntryRecords)
                             /\ IsFiniteSet(Places(k)) /\ Len(l) = Cardinality(Places(k))
                             /\ \A j \in 1 .. Len(l) : \E i \in Places(k) : l[j] = entries[i]
                             /\ \A i \in Places(k) : \E j \in 1 .. Len(l) : l[j] = entries[i]
                             /\ Places(k) = 1 .. k =>
                                    Len(l) = k /\ \A j \in 1 .. k : l[j] = entries[j]
  <1>1. n \in Nat /\ DOMAIN entries = 1 .. n /\ \A k \in 1 .. n : entries[k] \in EntryRecords
    OBVIOUS
  <1>2. PICK f : Listed(f, entries, mode) /\ Ls(entries, mode) = f[n]
    BY LsIsRecursive
  <1>. DEFINE T == {k \in 0 .. n : Lists(f[k], k)}
  <1>. HIDE DEF Lists
  <1>3. 0 \in T
    <2>1. Places(0) = {} /\ Cardinality({}) = 0 /\ IsFiniteSet({}) /\ 0 \in 0 .. n
      BY <1>1, FS_EmptySet
    <2>2. f[0] = <<>> /\ Len(<<>>) = 0 /\ <<>> \in Seq(EntryRecords) /\ 1 .. 0 = {}
      BY <1>2 DEF Listed
    <2>. HIDE DEF Places
    <2>. QED
      BY <2>1, <2>2 DEF Lists
  <1>4. ASSUME NEW k \in 1 .. n, k - 1 \in T PROVE k \in T
    <2>. DEFINE l == f[k - 1]
                l1 == f[k]
                P == Places(k - 1)
    <2>1. Lists(l, k - 1)
      BY <1>4
    <2>2. k \in 0 .. n /\ k \in Nat /\ k \notin P /\ entries[k] \in EntryRecords
      BY <1>1
    <2>3. l1 = IF HasMode(entries[k], mode) THEN Append(l, entries[k]) ELSE l
      BY <1>2 DEF Listed
    <2>4. Places(k) = IF HasMode(entries[k], mode) THEN P \cup {k} ELSE P
      <3>1. \A i : i \in 1 .. k <=> i \in 1 .. k - 1 \/ i = k
        BY <2>2
      <3>. QED
        BY <3>1
    <2>. HIDE DEF n, T, l, l1
    <2>5. CASE HasMode(entries[k], mode)
      <3>1. l1 = Append(l, entries[k]) /\ Places(k) = P \cup {k} /\ l \in Seq(EntryRecords)
        BY <2>1, <2>3, <2>4, <2>5 DEF Lists
      <3>2. l1 \in Seq(EntryRecords) /\ Len(l1) = Len(l) + 1 /\ l1[Len(l) + 1] = entries[k]
            /\ Len(l) \in Nat /\ (\A j \in 1 .. Len(l) : l1[j] = l[j])
            /\ \A j : j \in 1 .. Len(l1) <=> j \in 1 .. Len(l) \/ j = Len(l) + 1
        <4>. HIDE DEF Places
        <4>. QED
          BY <2>2, <3>1
      <3>3. IsFiniteSet(P \cup {k}) /\ Cardinality(P \cup {k}) = Cardinality(P) + 1
        <4>1. IsFiniteSet(P) /\ k \notin P
          BY <2>1, <2>2 DEF Lists
        <4>. HIDE DEF Places
        <4>. QED
          BY <4>1, FS_AddElement
      <3>4. P \cup {k} = 1 .. k => P = 1 .. k - 1
        <4>1. \A i : i \in 1 .. k - 1 <=> i \in 1 .. k /\ i # k
          BY <2>2
        <4>2. \A i : i \in P => i # k
          BY <2>2
        <4>. HIDE DEF Places
        <4>. QED
          BY <4>1, <4>2
      <3>5. \A i : i \in P \cup {k} <=> i \in P \/ i = k
        OBVIOUS
      <3>6. Len(l) = Cardinality(P) /\ (\A j \in 1 .. Len(l) : \E i \in P : l[j] = entries[i])
            /\ (\A i \in P : \E j \in 1 .. Len(l) : l[j] = entries[i])
            /\ (P = 1 .. k - 1 => Len(l) = k - 1 /\ \A j \in 1 .. k - 1 : l[j] = entries[j])
        BY <2>1 DEF Lists
      <3>. HIDE DEF Places
      <3>7. \A j \in 1 .. Len(l1) : \E i \in Places(k) : l1[j] = entries[i]
        <4>1. k \in Places(k) /\ \A i \in P : i \in Places(k)
          BY <3>1, <3>5
        <4>2. ASSUME NEW j \in 1 .. Len(l) PROVE \E i \in Places(k) : l1[j] = entries[i]
          <5>1. PICK i \in P : l[j] = entries[i]
            BY <3>6
          <5>2. l1[j] = l[j]
            BY <3>2
          <5>. QED
            BY <4>1, <5>1, <5>2
        <4>3. \E i \in Places(k) : l1[Len(l) + 1] = entries[i]
          BY <3>2, <4>1
        <4>. QED
          BY <3>2, <4>2, <4>3
      <3>8. \A i \in Places(k) : \E j \in 1 .. Len(l1) : l1[j] = entries[i]
        <4>1. ASSUME NEW i \in P PROVE \E j \in 1 .. Len(l1) : l1[j] = entries[i]
          <5>1. PICK j \in 1 .. Len(l) : l[j] = entries[i]
            BY <3>6
          <5>2. j \in 1 .. Len(l1) /\ l1[j] = l[j]
            BY <3>2
          <5>. QED
            BY <5>1, <5>2
        <4>2. \E j \in 1 .. Len(l1) : l1[j] = entries[k]
          BY <3>2
        <4>. QED
          BY <3>1, <3>5, <4>1, <4>2
      <3>9. Places(k) = 1 .. k => Len(l1) = k /\ \A j \in 1 .. k : l1[j] = entries[j]
        BY <2>2, <3>1, <3>2, <3>4, <3>6
      <3>10. Lists(l1, k)
        BY <3>1, <3>2, <3>3, <3>6, <3>7, <3>8, <3>9 DEF Lists
      <3>. QED
        BY <2>2, <3>10 DEF T, l1
    <2>6. CASE ~HasMode(entries[k], mode)
      <3>1. l1 = l /\ Places(k) = P /\ k \in 1 .. k
        BY <2>2, <2>3, <2>4, <2>6
      <3>. HIDE DEF Places
      <3>2. Places(k) # 1 .. k
        BY <2>2, <3>1
      <3>3. Lists(l1, k)
        BY <2>1, <3>1, <3>2 DEF Lists
      <3>. QED
        BY <2>2, <3>3 DEF T, l1
    <2>. QED
      BY <2>5, <2>6
  <1>5. Lists(f[n], n)
    <2>. HIDE DEF n, Lists
    <2>1. \A k \in 1 .. n : k - 1 \in T => k \in T
      BY <1>4
    <2>. HIDE DEF T
    <2>2. \A k \in 0 .. n : k \in T
      BY <1>1, <1>3, <2>1, InductionUpTo
    <2>3. n \in T
      BY <1>1, <2>2
    <2>. QED
      BY <2>3 DEF T
  <1>. DEFINE listed == f[n]
  <1>6. Places(n) = {i \in DOMAIN entries : HasMode(entries[i], mode)}
    BY <1>1
  <1>7. Places(n) = DOMAIN entries => listed = entries
    <2>1. Places(n) = 1 .. n => listed \in Seq(EntryRecords) /\ Len(listed) = n /\ \A j \in 1 .. n : listed[j] = entries[j]
      BY <1>5 DEF Lists
    <2>. HIDE DEF Places, n, listed
    <2>. QED
      BY <1>1, <2>1 DEF n
  <1>8. listed \in Seq(EntryRecords) /\ DOMAIN listed = 1 .. Len(listed)
    BY <1>5 DEF Lists
  <1>9. /\ Len(listed) = Cardinality(Places(n))
        /\ \A j \in 1 .. Len(listed) : \E i \in Places(n) : listed[j] = entries[i]
        /\ \A i \in Places(n) : \E j \in 1 .. Len(listed) : listed[j] = entries[i]
    BY <1>5 DEF Lists
  <1>10. Ls(entries, mode) = listed
    BY <1>2
  <1>. HIDE DEF listed, n, Places
  <1>. QED
    BY <1>6, <1>7, <1>8, <1>9, <1>10

\* Every listing is what ListsExact says of it.
LEMMA ListsAreExact ==
    ASSUME NEW entries \in Seq(EntryRecords)
    PROVE  ListsExact(entries)
  <1>. DEFINE n == Len(entries)
              files == LsFile(entries)
              dirs == LsDir(entries)
              all == DOMAIN ModeBits
              ordered == LsFileOrdered(entries)
  <1>1. n \in Nat /\ DOMAIN entries = 1 .. n /\ \A i \in 1 .. n : entries[i] \in EntryRecords
    OBVIOUS
  <1>2. all = {"REG", "DIR", "BLK", "CHR", "SOCK", "FIFO", "GONE"}
    BY DEF ModeBits
  <1>3. ASSUME NEW e \in EntryRecords
        PROVE  /\ HasMode(e, S_IFREG) <=> e.kind \in {"REG", "SOCK"}
               /\ HasMode(e, S_IFDIR) <=> e.kind \in {"DIR", "BLK", "SOCK"}
               /\ HasMode(e, NO_MODE) /\ e.kind \in all
    <2>1. e.kind \in all
      BY DEF EntryRecords
    <2>. QED
      BY <1>2, <2>1 DEF HasMode, S_IFREG, S_IFDIR, NO_MODE, ModeBits
  <1>4. /\ {i \in DOMAIN entries : HasMode(entries[i], S_IFREG)} = OfKinds(entries, {"REG", "SOCK"})
        /\ {i \in DOMAIN entries : HasMode(entries[i], S_IFDIR)} = OfKinds(entries, {"DIR", "BLK", "SOCK"})
        /\ {i \in DOMAIN entries : HasMode(entries[i], NO_MODE)} = DOMAIN entries
    BY <1>1, <1>3 DEF OfKinds
  <1>. DEFINE Lists(l, places) ==
                  /\ l \in Seq(EntryRecords) /\ Len(l) = Cardinality(places)
                  /\ \A j \in DOMAIN l : \E i \in places : l[j] = entries[i]
                  /\ \A i \in places : \E j \in DOMAIN l : l[j] = entries[i]
                  /\ places = DOMAIN entries => l = entries
  <1>5. ASSUME NEW mode
        PROVE  Lists(Ls(entries, mode), {i \in DOMAIN entries : HasMode(entries[i], mode)})
    BY LsLists
  <1>6. /\ Lists(files, OfKinds(entries, {"REG", "SOCK"}))
        /\ Lists(dirs, OfKinds(entries, {"DIR", "BLK", "SOCK"}))
        /\ Ls(entries, NO_MODE) = entries
    <2>. HIDE DEF Lists
    <2>1. Lists(files, OfKinds(entries, {"REG", "SOCK"}))
      BY <1>4, <1>5 DEF LsFile
    <2>2. Lists(dirs, OfKinds(entries, {"DIR", "BLK", "SOCK"}))
      BY <1>4, <1>5 DEF LsDir
    <2>3. Lists(Ls(entries, NO_MODE), DOMAIN entries)
      BY <1>4, <1>5
    <2>. QED
      BY <2>1, <2>2, <2>3 DEF Lists
  <1>. HIDE DEF files, dirs, n
  <1>7. ASSUME NEW l \in Seq(EntryRecords), NEW kinds, Lists(l, OfKinds(entries, kinds))
        PROVE  Names(l, all) = Names(entries, kinds) /\ OfKinds(l, all) = DOMAIN l
    <2>1. \A j \in DOMAIN l : l[j].kind \in all
      BY <1>3
    <2>2. OfKinds(l, all) = DOMAIN l
      BY <2>1 DEF OfKinds
    <2>. HIDE DEF all
    <2>. QED
      BY <1>7, <2>2 DEF Names
  <1>8. /\ Names(files, all) = Names(entries, {"REG", "SOCK"}) /\ OfKinds(files, all) = DOMAIN files
        /\ Names(dirs, all) = Names(entries, {"DIR", "BLK", "SOCK"})
    <2>1. files \in Seq(EntryRecords) /\ dirs \in Seq(EntryRecords)
      BY <1>6
    <2>. HIDE DEF Lists, all
    <2>. QED
      BY <1>6, <1>7, <2>1
  <1>9. ASSUME NEW x \in {files[k].ino : k \in DOMAIN files}
        PROVE  \E j \in DOMAIN files : files[j].ino = x /\ ordered[x] = files[j].name
    <2>. DEFINE places == {k \in DOMAIN files : files[k].ino = x}
    <2>1. places # {} /\ places \in SUBSET Nat
      BY <1>6
    <2>2. Min(places) \in places
      BY <2>1, MinExists
    <2>3. ordered[x] = files[Min(places)].name
      BY DEF LsFileOrdered, LsOrdered, files, LsFile
    <2>. QED
      BY <2>2, <2>3
  <1>10. DOMAIN ordered = {files[k].ino : k \in DOMAIN files}
    BY DEF LsFileOrdered, LsOrdered, files, LsFile
  <1>. HIDE DEF ordered
  <1>11. ASSUME NEW j \in DOMAIN files PROVE \E i \in DOMAIN entries : files[j] = entries[i]
    BY <1>6 DEF OfKinds
  <1>12. \A x \in DOMAIN ordered : \E i \in DOMAIN entries : entries[i].ino = x /\ entries[i].name = ordered[x]
    BY <1>9, <1>10, <1>11
  <1>13. \/ {ordered[x] : x \in DOMAIN ordered} = Names(files, all)
         \/ \E i, j \in DOMAIN entries : i # j /\ entries[i].ino = entries[j].ino
    <2>. SUFFICES ASSUME \A i, j \in DOMAIN entries : entries[i].ino = entries[j].ino => i = j
                  PROVE  {ordered[x] : x \in DOMAIN ordered} = Names(files, all)
      OBVIOUS
    <2>1. \A j, k \in DOMAIN files : files[j].ino = files[k].ino => files[j] = files[k]
      BY <1>11
    <2>2. \A j \in DOMAIN files : ordered[files[j].ino] = files[j].name /\ files[j].ino \in DOMAIN ordered
      BY <1>9, <1>10, <2>1
    <2>3. Names(files, all) = {files[j].name : j \in DOMAIN files}
      BY <1>8 DEF Names
    <2>. QED
      BY <1>10, <2>2, <2>3
  <1>14. Len(dirs) + Len(files) = Cardinality(OfKinds(entries, {"REG", "DIR", "BLK"}))
                                     + 2 * Cardinality(OfKinds(entries, {"SOCK"}))
    <2>. DEFINE D == OfKinds(entries, {"DIR", "BLK", "SOCK"})
                R == OfKinds(entries, {"REG", "SOCK"})
                Only == OfKinds(entries, {"REG", "DIR", "BLK"})
                Socks == OfKinds(entries, {"SOCK"})
    <2>1. D \cup R = Only \cup Socks /\ D \cap R = Socks /\ Only \cap Socks = {}
      BY DEF OfKinds
    <2>2. IsFiniteSet(D) /\ IsFiniteSet(R) /\ IsFiniteSet(Only) /\ IsFiniteSet(Socks)
      <3>1. IsFiniteSet(1 .. n)
        BY <1>1, FS_Interval
      <3>2. \A kinds : OfKinds(entries, kinds) \in SUBSET (1 .. n)
        BY <1>1 DEF OfKinds
      <3>. QED
        BY <3>1, <3>2, FS_Subset
    <2>. HIDE DEF D, R, Only, Socks
    <2>3. Cardinality(D \cup R) = Cardinality(D) + Cardinality(R) - Cardinality(Socks)
      BY <2>1, <2>2, FS_Union
    <2>4. Cardinality(Only \cup Socks) = Cardinality(Only) + Cardinality(Socks) - Cardinality({})
      BY <2>1, <2>2, FS_Union
    <2>5. /\ Cardinality({}) = 0 /\ Cardinality(D) \in Nat /\ Cardinality(R) \in Nat
          /\ Cardinality(Only) \in Nat /\ Cardinality(Socks) \in Nat
      BY <2>2, FS_EmptySet, FS_CardinalityType
    <2>6. Len(dirs) = Cardinality(D) /\ Len(files) = Cardinality(R)
      BY <1>6 DEF D, R
    <2>7. Cardinality(D) + Cardinality(R) = Cardinality(Only) + 2 * Cardinality(Socks)
      <3>. DEFINE d == Cardinality(D)
                  r == Cardinality(R)
                  o == Cardinality(Only)
                  k == Cardinality(Socks)
      <3>1. d + r - k = o + k - 0
        BY <2>1, <2>3, <2>4, <2>5
      <3>2. d \in Nat /\ r \in Nat /\ o \in Nat /\ k \in Nat
        BY <2>5
      <3>. HIDE DEF d, r, o, k
      <3>3. d + r = o + 2 * k
        BY <3>1, <3>2
      <3>. QED
        BY <3>3 DEF d, r, o, k
    <2>. QED
      BY <2>5, <2>6, <2>7 DEF Only, Socks
  <1>. QED
    BY <1>6, <1>8, <1>12, <1>13, <1>14 DEF ListsExact, DirCount, FileCount, files, dirs, ordered
-----------------------------------------------------------------------------
(***************************************************************************)
(* BitVector.                                                              *)
(***************************************************************************)
BitAt(w, b) == IF b \in w THEN 1 ELSE 0

\* A word is some bytes.
LEMMA WordIsPositive == WORD \in Nat \ {0} /\ BYTE \in Nat \ {0} /\ \E n \in 1 .. 8 : WORD = BYTE * n
  BY BitVectorAssumption

\* The functions by which BitVector defines numbers and words.
LEMMA NumberIsRecursive ==
    ASSUME NEW w
    PROVE  \E f \in [0 .. WORD -> Nat] :
               /\ f[0] = 0
               /\ \A k \in 1 .. WORD : f[k] = 2 * f[k - 1] + BitAt(w, WORD - k)
               /\ NumberOf(w) = f[WORD]
  <1>. DEFINE Next1(k, x) == 2 * x + BitAt(w, WORD - k)
              step == [k \in 1 .. WORD |-> [x \in Nat |-> Next1(k, x)]]
              Rec(g) == [k \in 0 .. WORD |->
                             IF k = 0 THEN 0
                             ELSE 2 * g[k - 1] + IF WORD - k \in w THEN 1 ELSE 0]
  <1>1. WORD \in Nat /\ step \in [1 .. WORD -> [Nat -> Nat]]
    <2>1. \A k \in 1 .. WORD, x \in Nat : Next1(k, x) \in Nat
      BY DEF BitAt
    <2>. QED
      BY <2>1, WordIsPositive
  <1>2. PICK f : Follows(f, WORD, Nat, 0, step)
    <2>. HIDE DEF step
    <2>. QED
      BY <1>1, RecursionUpTo
  <1>3. \A k \in 1 .. WORD, x \in Nat : step[k][x] = Next1(k, x)
    OBVIOUS
  <1>4. f = Rec(f)
    <2>1. \A k \in 0 .. WORD : (k = 0 \/ k \in 1 .. WORD) /\ (k # 0 => k - 1 \in 0 .. WORD)
      BY <1>1
    <2>. HIDE DEF step
    <2>. QED
      BY <1>2, <1>3, <2>1, ZenonT(30) DEF Follows, BitAt
  <1>. DEFINE h == CHOOSE g : g = Rec(g)
  <1>5. h = Rec(h)
    <2>. HIDE DEF Rec
    <2>. QED
      BY <1>4
  <1>6. NumberOf(w) = h[WORD]
    BY DEF NumberOf
  <1>. HIDE DEF h
  <1>7. h = [k \in 0 .. WORD |-> h[k]] /\ h[0] = 0 /\ \A k \in 1 .. WORD : h[k] = Next1(k, h[k - 1])
    <2>1. 0 \in 0 .. WORD /\ \A k \in 1 .. WORD : k \in 0 .. WORD /\ k # 0
      BY <1>1
    <2>. QED
      BY <1>5, <2>1 DEF BitAt
  <1>. HIDE DEF step, Rec
  <1>8. Follows(h, WORD, Nat, 0, step)
    BY <1>1, <1>3, <1>7, RecursionIsTyped
  <1>. QED
    BY <1>6, <1>7, <1>8 DEF Follows

\* And the halves of a number.
LEMMA HalvesAreRecursive ==
    ASSUME NEW n \in Nat
    PROVE  \E f \in [0 .. WORD -> Nat] :
               /\ f[0] = n
               /\ \A b \in 1 .. WORD : f[b] = f[b - 1] \div 2
               /\ WordOf(n) = {b \in WordBits : f[b] % 2 = 1}
  <1>. DEFINE Half(x) == x \div 2
              step == [k \in 1 .. WORD |-> [x \in Nat |-> Half(x)]]
              Rec(g) == [b \in 0 .. WORD |-> IF b = 0 THEN n ELSE Half(g[b - 1])]
  <1>1. WORD \in Nat /\ step \in [1 .. WORD -> [Nat -> Nat]]
    BY WordIsPositive
  <1>2. PICK f : Follows(f, WORD, Nat, n, step)
    <2>. HIDE DEF step
    <2>. QED
      BY <1>1, RecursionUpTo
  <1>3. \A k \in 1 .. WORD, x \in Nat : step[k][x] = Half(x)
    OBVIOUS
  <1>4. f = Rec(f)
    <2>1. \A k \in 0 .. WORD : (k = 0 \/ k \in 1 .. WORD) /\ (k # 0 => k - 1 \in 0 .. WORD)
      BY <1>1
    <2>. HIDE DEF step, Half
    <2>2. f \in [0 .. WORD -> Nat] /\ f[0] = n /\ \A k \in 1 .. WORD : f[k] = step[k][f[k - 1]]
      BY <1>2 DEF Follows
    <2>3. \A k \in 1 .. WORD : k - 1 \in 0 .. WORD /\ f[k - 1] \in Nat /\ k # 0
      <3>1. \A k \in 1 .. WORD : k - 1 \in 0 .. WORD /\ k # 0
        BY <1>1
      <3>. QED
        BY <2>2, <3>1
    <2>4. \A k \in 0 .. WORD : f[k] = IF k = 0 THEN n ELSE Half(f[k - 1])
      BY <1>3, <2>1, <2>2, <2>3
    <2>. QED
      BY <2>2, <2>4
  <1>. DEFINE h == CHOOSE g : g = Rec(g)
  <1>5. h = Rec(h)
    <2>. HIDE DEF Rec
    <2>. QED
      BY <1>4
  <1>6. WordOf(n) = {b \in WordBits : h[b] % 2 = 1}
    BY DEF WordOf
  <1>. HIDE DEF h
  <1>7. h = [k \in 0 .. WORD |-> h[k]] /\ h[0] = n /\ \A k \in 1 .. WORD : h[k] = Half(h[k - 1])
    <2>1. 0 \in 0 .. WORD /\ \A k \in 1 .. WORD : k \in 0 .. WORD /\ k # 0
      BY <1>1
    <2>. HIDE DEF Half
    <2>. QED
      BY <1>5, <2>1
  <1>. HIDE DEF step, Rec
  <1>8. Follows(h, WORD, Nat, n, step)
    <2>. HIDE DEF Half
    <2>. QED
      BY <1>1, <1>3, <1>7, RecursionIsTyped, ZenonT(30)
  <1>. QED
    BY <1>6, <1>7, <1>8 DEF Follows

\* Every word holds a number, and the number's word is that word.
LEMMA WordOfNumber ==
    ASSUME NEW w \in SUBSET WordBits
    PROVE  NumberOf(w) \in Nat /\ WordOf(NumberOf(w)) = w
  <1>1. PICK number \in [0 .. WORD -> Nat] :
               /\ number[0] = 0
               /\ \A k \in 1 .. WORD : number[k] = 2 * number[k - 1] + BitAt(w, WORD - k)
               /\ NumberOf(w) = number[WORD]
    BY NumberIsRecursive
  <1>2. WORD \in Nat /\ WORD \in 0 .. WORD /\ number[WORD] \in Nat
    BY WordIsPositive
  <1>3. PICK half \in [0 .. WORD -> Nat] :
               /\ half[0] = number[WORD]
               /\ \A b \in 1 .. WORD : half[b] = half[b - 1] \div 2
               /\ WordOf(number[WORD]) = {b \in WordBits : half[b] % 2 = 1}
    BY <1>2, HalvesAreRecursive
  <1>4. ASSUME NEW k \in 1 .. WORD
        PROVE  number[k] \div 2 = number[k - 1] /\ (number[k] % 2 = 1 <=> WORD - k \in w)
    <2>1. number[k - 1] \in Nat /\ number[k] = 2 * number[k - 1] + BitAt(w, WORD - k)
      BY <1>1, <1>2
    <2>. DEFINE a == number[k - 1]
                c == BitAt(w, WORD - k)
    <2>2. a \in Nat /\ c \in 0 .. 1 /\ (c = 1 <=> WORD - k \in w) /\ number[k] = 2 * a + c
      BY <2>1 DEF BitAt
    <2>. HIDE DEF a, c
    <2>3. (2 * a + c) \div 2 = a /\ (2 * a + c) % 2 = c
      BY <2>2
    <2>. QED
      BY <2>2, <2>3 DEF a
  <1>. DEFINE T == {b \in 0 .. WORD : half[b] = number[WORD - b]}
  <1>5. \A b \in 0 .. WORD : b \in T
    <2>1. 0 \in T
      BY <1>2, <1>3
    <2>2. ASSUME NEW b \in 1 .. WORD, b - 1 \in T PROVE b \in T
      <3>1. WORD - (b - 1) \in 1 .. WORD /\ (WORD - (b - 1)) - 1 = WORD - b /\ b \in 0 .. WORD
        BY <1>2
      <3>2. half[b] = number[WORD - (b - 1)] \div 2
        BY <1>3, <2>2
      <3>3. number[WORD - (b - 1)] \div 2 = number[WORD - b]
        BY <1>4, <3>1
      <3>. QED
        BY <3>1, <3>2, <3>3
    <2>3. \A b \in 1 .. WORD : b - 1 \in T => b \in T
      BY <2>2
    <2>. HIDE DEF T
    <2>. QED
      BY <1>2, <2>1, <2>3, InductionUpTo
  <1>6. ASSUME NEW b \in WordBits PROVE half[b] % 2 = 1 <=> b \in w
    <2>1. b \in 0 .. WORD /\ WORD - b \in 1 .. WORD /\ WORD - (WORD - b) = b
      BY <1>2 DEF WordBits
    <2>2. half[b] = number[WORD - b]
      BY <1>5, <2>1
    <2>3. number[WORD - b] % 2 = 1 <=> WORD - (WORD - b) \in w
      BY <1>4, <2>1
    <2>. QED
      BY <2>1, <2>2, <2>3
  <1>. QED
    BY <1>1, <1>2, <1>3, <1>6

\* The number of words for a number of bits.
LEMMA WordsNeeded ==
    ASSUME NEW size \in Nat
    PROVE  /\ WordLength(size) \in Nat
           /\ size = 0 <=> WordLength(size) = 0
           /\ size \in 1 .. WORD => WordLength(size) = 1
           /\ size > WORD => WordLength(size) >= 2
  <1>. DEFINE x == size + WORD - 1
              q == x \div WORD
              r == x % WORD
  <1>1. WORD \in Nat \ {0} /\ x \in Nat
    BY WordIsPositive
  <1>2. x = WORD * q + r /\ q \in Nat /\ r \in 0 .. WORD - 1
    <2>. HIDE DEF x
    <2>. QED
      BY <1>1, Division DEF Divides
  <1>3. WordLength(size) = q
    BY DEF WordLength
  <1>. HIDE DEF q, r
  <1>4. CASE size = 0
    <2>1. WORD * q < WORD
      BY <1>1, <1>2, <1>4
    <2>2. q = 0
      <3>1. q >= 1 => WORD * q >= WORD
        BY <1>1, <1>2
      <3>. QED
        BY <1>1, <1>2, <2>1, <3>1
    <2>. QED
      BY <1>1, <1>3, <1>4, <2>2
  <1>5. CASE size \in 1 .. WORD
    <2>1. WORD * q > 0 /\ WORD * q < 2 * WORD
      BY <1>1, <1>2, <1>5
    <2>2. (q = 0 => WORD * q = 0) /\ (q >= 2 => WORD * q >= 2 * WORD)
      BY <1>1, <1>2
    <2>3. q = 1
      BY <1>1, <1>2, <2>1, <2>2
    <2>. QED
      BY <1>1, <1>3, <1>5, <2>3
  <1>6. CASE size > WORD
    <2>1. WORD * q > WORD
      BY <1>1, <1>2, <1>6
    <2>2. (q = 0 => WORD * q = 0) /\ (q = 1 => WORD * q = WORD)
      BY <1>1, <1>2
    <2>3. q >= 2
      BY <1>1, <1>2, <2>1, <2>2
    <2>. QED
      BY <1>1, <1>2, <1>3, <1>6, <2>3
  <1>. QED
    BY <1>1, <1>4, <1>5, <1>6

\* The bytes of a word in the other order, and that twice.
LEMMA ReversedTwice ==
    ASSUME NEW w \in SUBSET WordBits
    PROVE  Reversed(w) \in SUBSET WordBits /\ Reversed(Reversed(w)) = w
  <1>. DEFINE Other(b) == WORD - BYTE - (b - (b % BYTE)) + (b % BYTE)
  <1>1. PICK n \in 1 .. 8 : WORD = BYTE * n
    BY WordIsPositive
  <1>2. BYTE \in Nat \ {0} /\ WORD \in Nat
    BY WordIsPositive
  <1>3. ASSUME NEW b \in WordBits PROVE Other(b) \in WordBits /\ Other(Other(b)) = b
    <2>. DEFINE q == b \div BYTE
                r == b % BYTE
                p == n - 1 - q
    <2>1. b \in Nat /\ b < WORD
      BY <1>2 DEF WordBits
    <2>2. b = BYTE * q + r /\ q \in Nat /\ r \in 0 .. BYTE - 1
      BY <1>2, <2>1, Division DEF Divides
    <2>. HIDE DEF q, r
    <2>3. q < n
      <3>1. BYTE * q < BYTE * n
        BY <1>1, <1>2, <2>1, <2>2
      <3>2. q >= n => BYTE * q >= BYTE * n
        BY <1>1, <1>2, <2>2
      <3>. QED
        BY <1>1, <1>2, <2>2, <3>1, <3>2
    <2>4. p \in Nat /\ p <= n - 1
      BY <1>1, <2>2, <2>3
    <2>5. Other(b) = BYTE * p + r
      <3>1. Other(b) = WORD - BYTE - (b - r) + r
        BY DEF r
      <3>2. BYTE * p = BYTE * n - BYTE - BYTE * q
        BY <1>1, <1>2, <2>2
      <3>3. BYTE * n \in Int /\ BYTE * q \in Int /\ BYTE * p \in Int
        BY <1>1, <1>2, <2>2, <2>4
      <3>. HIDE DEF p, Other
      <3>. QED
        BY <1>1, <1>2, <2>2, <3>1, <3>2, <3>3
    <2>6. Other(b) % BYTE = r
      <3>. HIDE DEF p, Other
      <3>1. p \in Int
        BY <2>4
      <3>2. (BYTE * p + r) % BYTE = r
        BY <1>2, <2>2, <3>1, Quotient
      <3>. QED
        BY <2>5, <3>2
    <2>7. Other(b) \in WordBits
      <3>1. BYTE * p <= BYTE * (n - 1) /\ BYTE * p >= 0 /\ BYTE * p \in Int
        <4>. HIDE DEF p
        <4>. QED
          BY <1>1, <1>2, <2>4
      <3>2. BYTE * (n - 1) = WORD - BYTE
        BY <1>1, <1>2
      <3>. HIDE DEF p, Other
      <3>. QED
        BY <1>2, <2>2, <2>5, <3>1, <3>2 DEF WordBits
    <2>8. Other(Other(b)) = b
      <3>. DEFINE c == Other(b)
      <3>1. Other(c) = WORD - BYTE - (c - (c % BYTE)) + (c % BYTE)
        OBVIOUS
      <3>2. c % BYTE = r /\ c = BYTE * p + r
        BY <2>5, <2>6
      <3>3. BYTE * p = BYTE * n - BYTE - BYTE * q
        BY <1>1, <1>2, <2>2
      <3>4. BYTE * n \in Int /\ BYTE * q \in Int /\ BYTE * p \in Int
        BY <1>1, <1>2, <2>2, <2>4
      <3>. HIDE DEF p, c, Other
      <3>5. Other(c) = b
        BY <1>1, <1>2, <2>2, <3>1, <3>2, <3>3, <3>4
      <3>. QED
        BY <3>5 DEF c
    <2>. QED
      BY <2>7, <2>8
  <1>4. \A v : Reversed(v) = {Other(b) : b \in v}
    BY DEF Reversed
  <1>. HIDE DEF Other
  <1>. QED
    BY <1>3, <1>4

(***************************************************************************)
(* A vector whose size is a number that a word holds, and what it was told *)
(* last.                                                                   *)
(***************************************************************************)
Vectors == [size : Nat, words : Seq(SUBSET WordBits)]

BitsInv(v, told) ==
    /\ v \in Vectors /\ Len(v.words) = WordLength(v.size)
    /\ \E w \in SUBSET WordBits : v.size = NumberOf(w)
    /\ told \in [0 .. v.size - 1 -> BOOLEAN]
    /\ v.size <= WORD => \A i \in 0 .. v.size - 1 : told[i] <=> i \in v.words[1]

\* An index in range has a bit in the first word, which is there.
LEMMA SmallIndex ==
    ASSUME NEW size \in Nat, NEW i \in 0 .. size - 1
    PROVE  /\ i % WORD \in WordBits /\ i \in Nat /\ size # 0
           /\ size <= WORD => i % WORD = i
           /\ WordLength(size) \in Nat /\ 1 \in 1 .. WordLength(size)
  <1>1. WORD \in Nat \ {0} /\ i \in Nat /\ size # 0
    BY WordIsPositive
  <1>2. i % WORD \in 0 .. WORD - 1
    BY <1>1, Division DEF Divides
  <1>3. size <= WORD => i % WORD = i
    <2>1. i < WORD => (WORD * 0 + i) % WORD = i
      BY <1>1, Quotient
    <2>. QED
      BY <1>1, <2>1
  <1>4. WordLength(size) \in Nat /\ WordLength(size) # 0
    BY <1>1, WordsNeeded
  <1>. QED
    BY <1>1, <1>2, <1>3, <1>4 DEF WordBits

\* What a filled vector is.
LEMMA FilledWords ==
    ASSUME NEW size \in Nat, NEW w \in SUBSET WordBits
    PROVE  /\ Filled(size, w) \in Vectors /\ Filled(size, w).size = size
           /\ Len(Filled(size, w).words) = WordLength(size)
           /\ DOMAIN Filled(size, w).words = 1 .. WordLength(size)
           /\ \A k \in 1 .. WordLength(size) : Filled(size, w).words[k] = w
  <1>. DEFINE n == WordLength(size)
              words == [k \in 1 .. n |-> w]
  <1>1. n \in Nat
    BY WordsNeeded
  <1>. HIDE DEF n
  <1>2. words \in Seq(SUBSET WordBits) /\ Len(words) = n
    BY <1>1
  <1>3. Filled(size, w) = [size |-> size, words |-> words]
    BY DEF Filled, n
  <1>. QED
    BY <1>1, <1>2, <1>3 DEF Vectors, n

\* A vector of words that are all the same.
LEMMA FilledKept ==
    ASSUME NEW size \in Nat, NEW w \in SUBSET WordBits, NEW b \in BOOLEAN,
           IF b THEN w = WordBits ELSE w = {},
           \E u \in SUBSET WordBits : size = NumberOf(u)
    PROVE  BitsInv(Filled(size, w), [i \in 0 .. size - 1 |-> b])
  <1>. DEFINE v == Filled(size, w)
              told == [i \in 0 .. size - 1 |-> b]
  <1>1. /\ v \in Vectors /\ v.size = size /\ Len(v.words) = WordLength(size)
        /\ \A k \in 1 .. WordLength(size) : v.words[k] = w
    BY FilledWords
  <1>2. ASSUME size <= WORD, NEW i \in 0 .. size - 1 PROVE told[i] <=> i \in v.words[1]
    <2>1. v.words[1] = w /\ i \in WordBits
      BY <1>1, <1>2, SmallIndex
    <2>. QED
      BY <2>1
  <1>3. told \in [0 .. size - 1 -> BOOLEAN]
    OBVIOUS
  <1>. HIDE DEF v, told
  <1>4. BitsInv(v, told)
    BY <1>1, <1>2, <1>3 DEF BitsInv
  <1>. QED
    BY <1>4 DEF v, told

\* A bit is put: only the first word changes, and in it only that bit.
LEMMA PutBitKept ==
    ASSUME NEW v, NEW told, BitsInv(v, told), NEW i \in 0 .. v.size - 1
    PROVE  /\ BitsInv(SetBit(v, i), [told EXCEPT ![i] = TRUE])
           /\ BitsInv(ResetBit(v, i), [told EXCEPT ![i] = FALSE])
  <1>. DEFINE first(b) == IF b THEN v.words[1] \cup {i % WORD} ELSE v.words[1] \ {i % WORD}
              Put(b) == [v EXCEPT !.words = [v.words EXCEPT ![1] = first(b)]]
              Told(b) == [told EXCEPT ![i] = b]
  <1>1. /\ v \in Vectors /\ v.size \in Nat /\ v.words \in Seq(SUBSET WordBits)
        /\ Len(v.words) = WordLength(v.size) /\ told \in [0 .. v.size - 1 -> BOOLEAN]
        /\ \E w \in SUBSET WordBits : v.size = NumberOf(w)
        /\ v.size <= WORD => \A j \in 0 .. v.size - 1 : told[j] <=> j \in v.words[1]
    BY DEF BitsInv, Vectors
  <1>2. /\ i % WORD \in WordBits /\ 1 \in 1 .. Len(v.words)
        /\ v.size <= WORD => i % WORD = i
    BY <1>1, SmallIndex
  <1>3. SetBit(v, i) = Put(TRUE) /\ ResetBit(v, i) = Put(FALSE)
    <2>1. WordIndex(v, i) + 1 = 1
      BY <1>1 DEF WordIndex
    <2>. QED
      BY <1>1, <2>1 DEF SetBit, ResetBit, BitMask, Vectors
  <1>4. ASSUME NEW b \in BOOLEAN PROVE BitsInv(Put(b), Told(b))
    <2>1. first(b) \in SUBSET WordBits
      BY <1>1, <1>2
    <2>2. /\ Put(b).size = v.size /\ Put(b).words[1] = first(b) /\ Put(b) \in Vectors
          /\ Len(Put(b).words) = Len(v.words)
      <3>. DEFINE words == [v.words EXCEPT ![1] = first(b)]
      <3>. HIDE DEF first
      <3>1. words \in Seq(SUBSET WordBits) /\ Len(words) = Len(v.words) /\ words[1] = first(b)
        BY <1>1, <1>2, <2>1
      <3>2. Put(b) = [v EXCEPT !.words = words]
        OBVIOUS
      <3>. HIDE DEF words, Put
      <3>. QED
        BY <1>1, <3>1, <3>2 DEF Vectors
    <2>3. Told(b) \in [0 .. v.size - 1 -> BOOLEAN]
          /\ \A j \in 0 .. v.size - 1 : Told(b)[j] = IF j = i THEN b ELSE told[j]
      BY <1>1
    <2>4. ASSUME v.size <= WORD, NEW j \in 0 .. v.size - 1
          PROVE  Told(b)[j] <=> j \in first(b)
      <3>1. (told[j] <=> j \in v.words[1]) /\ i % WORD = i
        BY <1>1, <1>2, <2>4
      <3>. HIDE DEF Told
      <3>. QED
        BY <2>3, <3>1
    <2>. HIDE DEF Put, Told, first
    <2>. QED
      BY <1>1, <2>2, <2>3, <2>4 DEF BitsInv
  <1>. HIDE DEF Put
  <1>. QED
    BY <1>3, <1>4

\* What Serialize() wrote is read with the right size and as many words.
LEMMA OwnCopy ==
    ASSUME NEW v \in Vectors, Len(v.words) = WordLength(v.size),
           \E w \in SUBSET WordBits : v.size = NumberOf(w)
    PROVE  LET copy == DeSerialize(Serialize(v), FALSE)
           IN /\ copy.ok /\ copy.v \in Vectors /\ copy.v.size = v.size
              /\ Len(copy.v.words) = WordLength(v.size)
              /\ v.size > WORD => ~DeSerialize(SubSeq(Serialize(v), 1, 2), FALSE).ok
  <1>. DEFINE file == Serialize(v)
              n == WordLength(v.size)
              words == [k \in 1 .. n |-> file[k + 1]]
              copy == DeSerialize(file, FALSE)
              short == SubSeq(file, 1, 2)
  <1>1. PICK w \in SUBSET WordBits : v.size = NumberOf(w)
    OBVIOUS
  <1>2. WordOf(v.size) = w /\ NumberOf(w) = v.size /\ v.size \in Nat
    BY <1>1, WordOfNumber
  <1>3. n \in Nat /\ Len(v.words) = n /\ v.words \in Seq(SUBSET WordBits)
    BY <1>2, WordsNeeded DEF Vectors
  <1>4. file = <<w, {}>> \o v.words
    BY <1>2 DEF Serialize
  <1>. HIDE DEF file, n
  <1>5. /\ file \in Seq(SUBSET WordBits) /\ Len(file) = n + 2 /\ file # <<>>
        /\ file[1] = w /\ file[2] = {} /\ \A k \in 1 .. n : file[k + 2] = v.words[k]
        /\ short # <<>> /\ short[1] = w /\ Len(short) = 2
    BY <1>3, <1>4
  <1>6. words \in Seq(SUBSET WordBits) /\ Len(words) = n
    <2>1. \A k \in 1 .. n : file[k + 1] \in SUBSET WordBits
      BY <1>3, <1>5
    <2>. QED
      BY <1>3, <2>1
  <1>7. NumberOf(file[1]) = v.size /\ NumberOf(short[1]) = v.size
    BY <1>2, <1>5
  <1>8. copy.ok /\ copy.v = [size |-> v.size, words |-> words]
    <2>1. 1 + n <= Len(file)
      BY <1>3, <1>5
    <2>. QED
      BY <1>5, <1>7, <2>1 DEF DeSerialize, n
  <1>10. v.size > WORD => ~DeSerialize(short, FALSE).ok
    <2>. SUFFICES ASSUME v.size > WORD PROVE ~DeSerialize(short, FALSE).ok
      OBVIOUS
    <2>1. n >= 2
      BY <1>2, WordsNeeded DEF n
    <2>2. ~(1 + n <= Len(short))
      BY <1>3, <1>5, <2>1
    <2>. HIDE DEF short
    <2>. QED
      BY <1>5, <1>7, <2>2 DEF DeSerialize, n
  <1>. HIDE DEF words, copy
  <1>11. copy.ok /\ copy.v \in Vectors /\ copy.v.size = v.size /\ copy.v.words = words
    BY <1>2, <1>6, <1>8 DEF Vectors
  <1>. QED
    BY <1>6, <1>10, <1>11 DEF copy, file, n, short

\* A vector of the right size and number of words holds the bits it has.
LEMMA HoldsItsBits ==
    ASSUME NEW v, NEW told, BitsInv(v, told),
           NEW new \in Vectors, new.size = v.size, Len(new.words) = WordLength(v.size)
    PROVE  BitsInv(new, [i \in 0 .. v.size - 1 |-> At(new, i)])
  <1>. DEFINE told1 == [i \in 0 .. v.size - 1 |-> At(new, i)]
  <1>1. v \in Vectors /\ v.size \in Nat /\ \E w \in SUBSET WordBits : v.size = NumberOf(w)
    BY DEF BitsInv, Vectors
  <1>2. told1 \in [0 .. v.size - 1 -> BOOLEAN]
    <2>1. \A i \in 0 .. v.size - 1 : At(new, i) \in BOOLEAN
      BY DEF At
    <2>. QED
      BY <2>1
  <1>3. ASSUME v.size <= WORD, NEW i \in 0 .. v.size - 1
        PROVE  told1[i] <=> i \in new.words[1]
    <2>1. i % WORD = i
      BY <1>1, <1>3, SmallIndex
    <2>2. WordIndex(new, i) + 1 = 1
      BY <1>1 DEF WordIndex
    <2>3. At(new, i) <=> i \in new.words[1]
      BY <2>1, <2>2 DEF At, BitMask
    <2>. QED
      BY <2>3
  <1>. HIDE DEF told1
  <1>4. BitsInv(new, told1)
    BY <1>1, <1>2, <1>3 DEF BitsInv
  <1>. QED
    BY <1>4 DEF told1

\* So does what was written and read back.
LEMMA CopyKept ==
    ASSUME NEW v, NEW told, BitsInv(v, told), NEW new, new = DeSerialize(Serialize(v), FALSE).v
    PROVE  BitsInv(new, [i \in 0 .. v.size - 1 |-> At(new, i)])
  <1>1. v \in Vectors /\ \E w \in SUBSET WordBits : v.size = NumberOf(w)
    BY DEF BitsInv
  <1>2. new \in Vectors /\ new.size = v.size /\ Len(new.words) = WordLength(v.size)
    BY <1>1, OwnCopy DEF BitsInv
  <1>. QED
    BY <1>2, HoldsItsBits

\* What the invariant says is what BitsKept asks.
LEMMA BitsAreKept ==
    ASSUME NEW v, NEW told, BitsInv(v, told)
    PROVE  BitsKept(v, told)
  <1>1. /\ v \in Vectors /\ v.size \in Nat /\ Len(v.words) = WordLength(v.size)
        /\ DOMAIN told = 0 .. v.size - 1 /\ \E w \in SUBSET WordBits : v.size = NumberOf(w)
    BY DEF BitsInv, Vectors
  <1>2. ASSUME NEW i \in 0 .. v.size - 1 PROVE At(v, i) <=> i % WORD \in v.words[1]
    <2>1. WordIndex(v, i) + 1 = 1
      BY <1>1 DEF WordIndex
    <2>. QED
      BY <2>1 DEF At, BitMask
  <1>3. ASSUME v.size <= WORD, NEW i \in DOMAIN told PROVE At(v, i) = told[i]
    <2>1. i % WORD = i /\ i \in 0 .. v.size - 1 /\ (told[i] <=> i \in v.words[1]) /\ told[i] \in BOOLEAN
      BY <1>1, <1>3, SmallIndex DEF BitsInv
    <2>2. At(v, i) \in BOOLEAN
      BY DEF At
    <2>. QED
      BY <1>2, <2>1, <2>2
  <1>5. LET copy == DeSerialize(Serialize(v), FALSE)
        IN /\ copy.ok /\ copy.v.size = v.size
           /\ v.size > WORD => ~DeSerialize(SubSeq(Serialize(v), 1, 2), FALSE).ok
    BY <1>1, OwnCopy
  <1>6. ASSUME NEW w \in SUBSET WordBits
        PROVE  Reversed(Reversed(w)) = w /\ WordOf(NumberOf(w)) = w
    BY ReversedTwice, WordOfNumber
  <1>. QED
    BY <1>3, <1>5, <1>6 DEF BitsKept
=============================================================================
