----------------------------- MODULE TextProofs -----------------------------
(***************************************************************************)
(* Proofs about texts: StrUtil splits, trims, replaces and converts texts  *)
(* of any length as it should, and FixedLength keeps the fields of records *)
(* of any layout.                                                          *)
(***************************************************************************)
EXTENDS FixedLength, DataProofs

-----------------------------------------------------------------------------
(***************************************************************************)
(* StrUtil: find() and the parts of a text.                                *)
(***************************************************************************)
\* A part of a text.
LEMMA PartOf ==
    ASSUME NEW C, NEW s \in Seq(C), NEW m \in Nat \ {0}, NEW n \in Int, n <= Len(s)
    PROVE  /\ SubSeq(s, m, n) \in Seq(C)
           /\ m <= n => Len(SubSeq(s, m, n)) = n - m + 1
           /\ m > n => SubSeq(s, m, n) = <<>>
           /\ \A i \in 1 .. n - m + 1 : SubSeq(s, m, n)[i] = s[m + i - 1]
  <1>1. \A i \in m .. n : s[i] \in C
    BY ElementOfSeq
  <1>. QED
    BY <1>1, SubSeqProperties, SubSeqEmpty

\* A part of one character.
LEMMA OneCharacter ==
    ASSUME NEW C, NEW s \in Seq(C), NEW i \in 1 .. Len(s)
    PROVE  SubSeq(s, i, i) = <<s[i]>>
  <1>. DEFINE p == SubSeq(s, i, i)
  <1>1. p \in Seq(C) /\ Len(p) = 1 /\ p[1] = s[i]
    BY PartOf
  <1>2. <<s[i]>> \in Seq(C) /\ Len(<<s[i]>>) = 1 /\ <<s[i]>>[1] = s[i]
    BY ElementOfSeq
  <1>. HIDE DEF p
  <1>3. p = <<s[i]>>
    BY <1>1, <1>2, SeqEqual
  <1>. QED
    BY <1>3 DEF p

\* What find() gives.
Stands(s, t, i) == SubSeq(s, i, i + Len(t) - 1) = t

Found(s, t, beg, p) ==
    /\ p \in Nat
    /\ p = 0 \/ (p \in beg .. Len(s) - Len(t) + 1 /\ Stands(s, t, p))
    /\ p = 0 => \A i \in beg .. Len(s) - Len(t) + 1 : ~Stands(s, t, i)
    /\ p # 0 => \A i \in beg .. p - 1 : ~Stands(s, t, i)

\* Find() gives the first place, or none.
LEMMA FindFinds ==
    ASSUME NEW C, NEW s \in Seq(C), NEW t \in Seq(C), NEW beg \in Nat \ {0}, NEW p,
           p = Find(s, t, beg)
    PROVE  Found(s, t, beg, p)
  <1>. DEFINE places == {i \in beg .. Len(s) - Len(t) + 1 : Stands(s, t, i)}
  <1>1. p = IF places = {} THEN 0 ELSE Min(places)
    BY DEF Find, NOT_FOUND, Stands
  <1>2. places \in SUBSET Nat
    OBVIOUS
  <1>3. Len(s) \in Nat /\ Len(t) \in Nat
    OBVIOUS
  <1>4. CASE places = {}
    BY <1>1, <1>3, <1>4 DEF Found
  <1>5. CASE places # {}
    <2>. DEFINE q == Min(places)
    <2>1. q \in places /\ \A y \in places : q <= y
      <3>. HIDE DEF places
      <3>. QED
        BY <1>2, <1>5, MinExists
    <2>2. p = q
      BY <1>1, <1>5
    <2>. HIDE DEF q
    <2>3. p \in beg .. Len(s) - Len(t) + 1 /\ Stands(s, t, p) /\ p # 0 /\ p \in Nat
      BY <2>1, <2>2, <1>3
    <2>4. ASSUME NEW i \in beg .. p - 1, Stands(s, t, i) PROVE FALSE
      <3>1. i \in places
        BY <2>3, <2>4, <1>3
      <3>2. p <= i
        BY <2>1, <2>2, <3>1
      <3>. QED
        BY <2>3, <3>2
    <2>. HIDE DEF places
    <2>. QED
      BY <2>3, <2>4 DEF Found
  <1>. QED
    BY <1>4, <1>5

FoundCharacter(s, c, beg, p) ==
    /\ p \in Nat
    /\ p = 0 \/ (p \in beg .. Len(s) /\ s[p] = c)
    /\ p = 0 => \A i \in beg .. Len(s) : s[i] # c
    /\ p # 0 => \A i \in beg .. p - 1 : s[i] # c

\* So for a text of one character.
LEMMA FindFindsCharacter ==
    ASSUME NEW C, NEW s \in Seq(C), NEW c \in C, NEW beg \in Nat \ {0}, NEW p,
           p = Find(s, <<c>>, beg)
    PROVE  FoundCharacter(s, c, beg, p)
  <1>1. <<c>> \in Seq(C) /\ Len(<<c>>) = 1
    OBVIOUS
  <1>2. \A i \in 1 .. Len(s) : Stands(s, <<c>>, i) <=> s[i] = c
    <2>. TAKE i \in 1 .. Len(s)
    <2>1. SubSeq(s, i, i + Len(<<c>>) - 1) = <<s[i]>>
      <3>1. i + Len(<<c>>) - 1 = i
        BY <1>1
      <3>. QED
        BY <3>1, OneCharacter
    <2>. QED
      BY <2>1 DEF Stands
  <1>3. /\ p = 0 \/ (p \in beg .. Len(s) - Len(<<c>>) + 1 /\ Stands(s, <<c>>, p))
        /\ p = 0 => \A i \in beg .. Len(s) - Len(<<c>>) + 1 : ~Stands(s, <<c>>, i)
        /\ p # 0 => \A i \in beg .. p - 1 : ~Stands(s, <<c>>, i)
        /\ p \in Nat
    BY <1>1, FindFinds DEF Found
  <1>4. Len(s) - Len(<<c>>) + 1 = Len(s) /\ Len(s) \in Nat
    BY <1>1
  <1>. QED
    BY <1>2, <1>3, <1>4 DEF FoundCharacter

\* Trimming.
LEMMA LeftTrimKeeps ==
    ASSUME NEW C, NEW s \in Seq(C), NEW r, r = LeftTrim(s)
    PROVE  \E a \in 0 .. Len(s) :
               /\ \A i \in 1 .. a : s[i] = Space
               /\ r = SubSeq(s, a + 1, Len(s)) /\ r \in Seq(C)
               /\ a < Len(s) => s[a + 1] # Space
  <1>1. Len(s) \in Nat
    OBVIOUS
  <1>2. Kept(s) = {i \in 1 .. Len(s) : s[i] # Space}
    BY DEF Kept
  <1>3. Kept(s) \in SUBSET Nat /\ \A i \in 1 .. Len(s) : i \in Kept(s) <=> s[i] # Space
    BY <1>2
  <1>4. CASE Kept(s) = {}
    <2>1. SubSeq(s, Len(s) + 1, Len(s)) = <<>> /\ r = <<>>
      BY <1>1, <1>4, PartOf DEF LeftTrim
    <2>. WITNESS Len(s) \in 0 .. Len(s)
    <2>. QED
      BY <1>1, <1>3, <1>4, <2>1
  <1>5. CASE Kept(s) # {}
    <2>. DEFINE k == Min(Kept(s))
    <2>1. k \in Kept(s) /\ \A i \in Kept(s) : k <= i
      BY <1>3, <1>5, MinExists
    <2>2. r = SubSeq(s, k, Len(s))
      BY <1>5 DEF LeftTrim, From
    <2>. HIDE DEF k
    <2>3. k \in 1 .. Len(s) /\ s[k] # Space
      BY <1>2, <2>1
    <2>4. k - 1 \in 0 .. Len(s) /\ (k - 1) + 1 = k
      BY <1>1, <2>3
    <2>5. \A i \in 1 .. k - 1 : s[i] = Space
      <3>1. \A i \in 1 .. k - 1 : i \in 1 .. Len(s) /\ ~(k <= i)
        BY <1>1, <2>3
      <3>. QED
        BY <1>3, <2>1, <3>1
    <2>6. r \in Seq(C)
      BY <1>1, <2>2, <2>3, PartOf
    <2>. QED
      BY <2>2, <2>3, <2>4, <2>5, <2>6
  <1>. QED
    BY <1>4, <1>5

\* What RightTrim() takes and what it leaves.
LEMMA RightTrimKeeps ==
    ASSUME NEW C, NEW s \in Seq(C), NEW r, r = RightTrim(s)
    PROVE  \E b \in 0 .. Len(s) :
               /\ \A i \in b + 1 .. Len(s) : s[i] = Space
               /\ r = SubSeq(s, 1, b) /\ r \in Seq(C)
               /\ b > 0 => s[b] # Space
  <1>1. Len(s) \in Nat
    OBVIOUS
  <1>2. Kept(s) = {i \in 1 .. Len(s) : s[i] # Space}
    BY DEF Kept
  <1>3. Kept(s) \in SUBSET Nat /\ \A i \in 1 .. Len(s) : i \in Kept(s) <=> s[i] # Space
    BY <1>2
  <1>4. CASE Kept(s) = {}
    <2>1. SubSeq(s, 1, 0) = <<>> /\ r = <<>>
      BY <1>1, <1>4, PartOf DEF RightTrim
    <2>. WITNESS 0 \in 0 .. Len(s)
    <2>. QED
      BY <1>1, <1>3, <1>4, <2>1
  <1>5. CASE Kept(s) # {}
    <2>. DEFINE k == Max(Kept(s))
    <2>1. k \in Kept(s) /\ \A i \in Kept(s) : i <= k
      <3>1. \A i \in Kept(s) : i <= Len(s)
        BY <1>2
      <3>. QED
        BY <1>1, <1>3, <1>5, <3>1, MaxExists
    <2>2. r = SubSeq(s, 1, k)
      BY <1>5 DEF RightTrim
    <2>. HIDE DEF k
    <2>3. k \in 1 .. Len(s) /\ s[k] # Space
      BY <1>2, <2>1
    <2>4. k \in 0 .. Len(s)
      BY <1>1, <2>3
    <2>5. \A i \in k + 1 .. Len(s) : s[i] = Space
      <3>1. \A i \in k + 1 .. Len(s) : i \in 1 .. Len(s) /\ ~(i <= k)
        BY <1>1, <2>3
      <3>. QED
        BY <1>3, <2>1, <3>1
    <2>6. r \in Seq(C)
      BY <1>1, <2>2, <2>3, PartOf
    <2>. QED
      BY <2>2, <2>3, <2>4, <2>5, <2>6
  <1>. QED
    BY <1>4, <1>5

\* What is trimmed is the text from a + 1 to b, between spaces.
Between(s, r, a, b) ==
    /\ a \in 0 .. Len(s) /\ b \in a .. Len(s)
    /\ r = SubSeq(s, a + 1, b)
    /\ \A i \in 1 .. a : s[i] = Space
    /\ \A i \in b + 1 .. Len(s) : s[i] = Space
    /\ a < b => s[a + 1] # Space /\ s[b] # Space

\* Both ends.
LEMMA TrimKeeps ==
    ASSUME NEW C, NEW s \in Seq(C), NEW r, r = TrimSpace(s)
    PROVE  r \in Seq(C) /\ \E a, b \in Nat : Between(s, r, a, b)
  <1>. DEFINE l == LeftTrim(s)
  <1>1. PICK a \in 0 .. Len(s) :
            /\ \A i \in 1 .. a : s[i] = Space
            /\ l = SubSeq(s, a + 1, Len(s)) /\ l \in Seq(C)
            /\ a < Len(s) => s[a + 1] # Space
    BY LeftTrimKeeps
  <1>2. r = RightTrim(l) /\ l \in Seq(C)
    BY <1>1 DEF TrimSpace
  <1>. HIDE DEF l
  <1>3. PICK b \in 0 .. Len(l) :
            /\ \A i \in b + 1 .. Len(l) : l[i] = Space
            /\ r = SubSeq(l, 1, b) /\ r \in Seq(C)
            /\ b > 0 => l[b] # Space
    BY <1>2, RightTrimKeeps
  <1>4. Len(s) \in Nat /\ a \in Nat /\ a + 1 \in Nat \ {0} /\ Len(l) \in Nat /\ b \in Nat
    BY <1>1, <1>3
  <1>5. Len(l) = Len(s) - a /\ \A i \in 1 .. Len(s) - a : l[i] = s[a + i]
    <2>1. /\ a + 1 <= Len(s) => Len(l) = Len(s) - (a + 1) + 1
          /\ a + 1 > Len(s) => l = <<>>
          /\ \A i \in 1 .. Len(s) - (a + 1) + 1 : l[i] = s[(a + 1) + i - 1]
      BY <1>1, <1>4, PartOf
    <2>2. Len(s) - (a + 1) + 1 = Len(s) - a /\ \A i \in 1 .. Len(s) - a : (a + 1) + i - 1 = a + i
      BY <1>4
    <2>3. Len(l) = Len(s) - a
      <3>1. a + 1 > Len(s) => Len(s) - a = 0
        BY <1>4
      <3>2. l = <<>> => Len(l) = 0
        OBVIOUS
      <3>3. CASE a + 1 <= Len(s)
        BY <2>1, <2>2, <3>3
      <3>4. CASE a + 1 > Len(s)
        BY <2>1, <3>1, <3>2, <3>4
      <3>. QED
        BY <1>4, <3>3, <3>4
    <2>. QED
      BY <2>1, <2>2, <2>3
  <1>6. a + b \in a .. Len(s) /\ a \in 0 .. Len(s) /\ a + b \in Nat
    BY <1>1, <1>3, <1>4, <1>5
  <1>7. r = SubSeq(s, a + 1, a + b)
    <2>. DEFINE q == SubSeq(s, a + 1, a + b)
    <2>1. /\ q \in Seq(C) /\ (a + 1 <= a + b => Len(q) = a + b - (a + 1) + 1)
          /\ (a + 1 > a + b => q = <<>>)
          /\ \A i \in 1 .. a + b - (a + 1) + 1 : q[i] = s[a + 1 + i - 1]
      BY <1>4, <1>6, PartOf
    <2>. HIDE DEF q
    <2>2. Len(q) = b /\ \A i \in 1 .. b : q[i] = s[a + i]
      BY <1>4, <2>1
    <2>3. Len(r) = b /\ \A i \in 1 .. b : r[i] = l[i]
      BY <1>1, <1>3, <1>4, PartOf
    <2>4. \A i \in 1 .. b : r[i] = q[i]
      BY <1>3, <1>4, <1>5, <2>2, <2>3
    <2>5. r = q
      BY <1>3, <2>1, <2>2, <2>3, <2>4, SeqEqual
    <2>. QED
      BY <2>5 DEF q
  <1>8. \A i \in a + b + 1 .. Len(s) : s[i] = Space
    <2>. TAKE i \in a + b + 1 .. Len(s)
    <2>1. i - a \in b + 1 .. Len(l) /\ i - a \in 1 .. Len(s) - a /\ a + (i - a) = i
      BY <1>4, <1>5
    <2>. QED
      BY <1>3, <1>5, <2>1
  <1>9. a < a + b => s[a + 1] # Space /\ s[a + b] # Space
    <2>1. a < a + b => b > 0 /\ a < Len(s) /\ b \in 1 .. Len(s) - a
      BY <1>4, <1>6
    <2>. QED
      BY <1>1, <1>3, <1>5, <2>1
  <1>10. Between(s, r, a, a + b)
    BY <1>1, <1>6, <1>7, <1>8, <1>9 DEF Between
  <1>. QED
    BY <1>3, <1>4, <1>6, <1>10

-----------------------------------------------------------------------------
(***************************************************************************)
(* Functions that are defined by recursion.                                *)
(***************************************************************************)
\* Joined(), Value() and the loops of Split() and ReplaceAll(), turn by turn.
JoinedBy(f, C, t, pieces) ==
    /\ f \in [0 .. Len(pieces) -> Seq(C)] /\ f[0] = <<>>
    /\ \A k \in 1 .. Len(pieces) : f[k] = f[k - 1] \o pieces[k] \o t
    /\ Joined(pieces, t) = f[Len(pieces)]

\* Joined, of pieces that are texts, is what its recursion says.
LEMMA JoinedIsRecursive ==
    ASSUME NEW C, NEW t \in Seq(C), NEW pieces \in Seq(Seq(C))
    PROVE  \E f : JoinedBy(f, C, t, pieces)
  <1>. DEFINE n == Len(pieces)
              X == Seq(C)
              Next1(k, x) == x \o pieces[k] \o t
              step == [k \in 1 .. n |-> [x \in X |-> Next1(k, x)]]
              Rec(g) == [k \in 0 .. n |-> IF k = 0 THEN <<>> ELSE g[k - 1] \o pieces[k] \o t]
  <1>1. n \in Nat /\ <<>> \in X
    OBVIOUS
  <1>2. \A k \in 1 .. n : \A x \in X : Next1(k, x) \in X
    BY <1>1, ElementOfSeq
  <1>3. step \in [1 .. n -> [X -> X]] /\ \A k \in 1 .. n, x \in X : step[k][x] = Next1(k, x)
    <2>. HIDE DEF Next1, X, n
    <2>. QED
      BY <1>2
  <1>4. PICK f : Follows(f, n, X, <<>>, step)
    <2>. HIDE DEF step, X, n
    <2>. QED
      BY <1>1, <1>3, RecursionUpTo
  <1>5. f = Rec(f)
    <2>1. \A k \in 0 .. n : k # 0 => k \in 1 .. n /\ k - 1 \in 0 .. n
      BY <1>1
    <2>2. \A k \in 0 .. n : f[k] = IF k = 0 THEN <<>> ELSE Next1(k, f[k - 1])
      <3>. HIDE DEF Next1, step, X, n
      <3>. QED
        BY <1>3, <1>4, <2>1 DEF Follows
    <2>3. f = [k \in 0 .. n |-> f[k]]
      <3>. HIDE DEF step, X, n
      <3>. QED
        BY <1>4 DEF Follows
    <2>. HIDE DEF step, X, n
    <2>. QED
      BY <2>2, <2>3
  <1>. DEFINE h == CHOOSE g : g = Rec(g)
  <1>6. h = Rec(h)
    <2>. HIDE DEF Rec
    <2>. QED
      BY <1>5
  <1>7. Joined(pieces, t) = h[n]
    BY DEF Joined
  <1>. HIDE DEF h
  <1>8. h = [k \in 0 .. n |-> h[k]] /\ h[0] = <<>> /\ \A k \in 1 .. n : h[k] = Next1(k, h[k - 1])
    <2>1. 0 \in 0 .. n /\ \A k \in 1 .. n : k \in 0 .. n /\ k # 0
      BY <1>1
    <2>. HIDE DEF n
    <2>. QED
      BY <1>6, <2>1
  <1>9. h \in [0 .. n -> X]
    <2>. HIDE DEF n, X, step, Next1
    <2>1. Follows(h, n, X, <<>>, step)
      BY <1>1, <1>3, <1>8, RecursionIsTyped
    <2>. QED
      BY <2>1 DEF Follows
  <1>. QED
    BY <1>7, <1>8, <1>9 DEF JoinedBy

ValueBy(f, s) ==
    /\ f \in [0 .. Len(s) -> Nat] /\ f[0] = 0
    /\ \A k \in 1 .. Len(s) : f[k] = 10 * f[k - 1] + Digit(s[k])
    /\ Value(s) = f[Len(s)]

\* So is the value of digits.
LEMMA ValueIsRecursive ==
    ASSUME NEW s \in Seq(DigitChars)
    PROVE  \E f : ValueBy(f, s)
  <1>. DEFINE n == Len(s)
              X == Nat
              Next1(k, x) == 10 * x + Digit(s[k])
              step == [k \in 1 .. n |-> [x \in X |-> Next1(k, x)]]
              Rec(g) == [k \in 0 .. n |-> IF k = 0 THEN 0 ELSE 10 * g[k - 1] + Digit(s[k])]
  <1>1. n \in Nat /\ 0 \in X
    OBVIOUS
  <1>2. \A k \in 1 .. n : \A x \in X : Next1(k, x) \in X
    <2>1. \A k \in 1 .. n : Digit(s[k]) \in Nat
      <3>1. \A c \in DigitChars : Digit(c) \in Nat
        BY DEF DigitChars, Digit
      <3>. QED
        BY <3>1, ElementOfSeq
    <2>. QED
      BY <2>1
  <1>3. step \in [1 .. n -> [X -> X]] /\ \A k \in 1 .. n, x \in X : step[k][x] = Next1(k, x)
    <2>. HIDE DEF Next1, X, n
    <2>. QED
      BY <1>2
  <1>4. PICK f : Follows(f, n, X, 0, step)
    <2>. HIDE DEF step, X, n
    <2>. QED
      BY <1>1, <1>3, RecursionUpTo
  <1>5. f = Rec(f)
    <2>1. \A k \in 0 .. n : k # 0 => k \in 1 .. n /\ k - 1 \in 0 .. n
      BY <1>1
    <2>2. \A k \in 0 .. n : f[k] = IF k = 0 THEN 0 ELSE Next1(k, f[k - 1])
      <3>. HIDE DEF Next1, step, X, n
      <3>. QED
        BY <1>3, <1>4, <2>1 DEF Follows
    <2>3. f = [k \in 0 .. n |-> f[k]]
      <3>. HIDE DEF step, X, n
      <3>. QED
        BY <1>4 DEF Follows
    <2>. HIDE DEF step, X, n
    <2>. QED
      BY <2>2, <2>3
  <1>. DEFINE h == CHOOSE g : g = Rec(g)
  <1>6. h = Rec(h)
    <2>. HIDE DEF Rec
    <2>. QED
      BY <1>5
  <1>7. Value(s) = h[n]
    BY DEF Value
  <1>. HIDE DEF h
  <1>8. h = [k \in 0 .. n |-> h[k]] /\ h[0] = 0 /\ \A k \in 1 .. n : h[k] = Next1(k, h[k - 1])
    <2>1. 0 \in 0 .. n /\ \A k \in 1 .. n : k \in 0 .. n /\ k # 0
      BY <1>1
    <2>. HIDE DEF n
    <2>. QED
      BY <1>6, <2>1
  <1>9. h \in [0 .. n -> X]
    <2>. HIDE DEF n, X, step, Next1
    <2>1. Follows(h, n, X, 0, step)
      BY <1>1, <1>3, <1>8, RecursionIsTyped
    <2>. QED
      BY <2>1 DEF Follows
  <1>. QED
    BY <1>7, <1>8, <1>9 DEF ValueBy

Turns(C) == [beg : Nat \ {0}, pieces : Seq(Seq(C))]

\* A turn of the loop of Split() leaves a state of that loop.
LEMMA CutIsTurn ==
    ASSUME NEW C, NEW whole \in Seq(C), NEW t \in Seq(C), NEW trim, NEW ignore, NEW x \in Turns(C)
    PROVE  Cut(whole, t, trim, ignore, x) \in Turns(C)
  <1>. DEFINE loc == Find(whole, t, x.beg)
              sub == SubSeq(whole, x.beg, loc - 1)
              piece == IF trim THEN TrimSpace(sub) ELSE sub
              pieces == IF ignore /\ piece = <<>> THEN x.pieces ELSE Append(x.pieces, piece)
  <1>1. x.beg \in Nat \ {0} /\ x.pieces \in Seq(Seq(C)) /\ Len(t) \in Nat /\ Len(whole) \in Nat
    BY DEF Turns
  <1>2. loc \in Nat /\ (loc = 0 \/ loc \in x.beg .. Len(whole) - Len(t) + 1)
    BY <1>1, FindFinds, SMTT(30) DEF Found
  <1>3. CASE loc = 0
    BY <1>3 DEF Cut, NOT_FOUND
  <1>4. CASE loc # 0
    <2>1. Cut(whole, t, trim, ignore, x) = [beg |-> loc + Len(t), pieces |-> pieces]
      BY <1>4 DEF Cut, NOT_FOUND
    <2>. HIDE DEF loc
    <2>2. loc - 1 <= Len(whole) /\ loc - 1 \in Int /\ loc + Len(t) \in Nat \ {0}
      BY <1>1, <1>2, <1>4
    <2>3. sub \in Seq(C)
      BY <1>1, <2>2, PartOf
    <2>. HIDE DEF sub
    <2>4. piece \in Seq(C)
      BY <2>3, TrimKeeps
    <2>. HIDE DEF piece
    <2>5. pieces \in Seq(Seq(C))
      BY <1>1, <2>4
    <2>. HIDE DEF pieces
    <2>. QED
      BY <2>1, <2>2, <2>5 DEF Turns
  <1>. QED
    BY <1>3, <1>4

SplitBy(f, C, s, t, trim, ignore) ==
    /\ f \in [0 .. Len(s \o t) -> Turns(C)] /\ f[0] = [beg |-> 1, pieces |-> <<>>]
    /\ \A k \in 1 .. Len(s \o t) : f[k] = Cut(s \o t, t, trim, ignore, f[k - 1])
    /\ Split(s, t, trim, ignore) = f[Len(s \o t)].pieces

\* Split() is what its recursion says.
LEMMA SplitIsRecursive ==
    ASSUME NEW C, NEW s \in Seq(C), NEW t \in Seq(C), NEW trim, NEW ignore
    PROVE  \E f : SplitBy(f, C, s, t, trim, ignore)
  <1>. DEFINE n == Len(s \o t)
              X == Turns(C)
              z == [beg |-> 1, pieces |-> <<>>]
              Next1(k, x) == Cut(s \o t, t, trim, ignore, x)
              step == [k \in 1 .. n |-> [x \in X |-> Next1(k, x)]]
              Rec(g) == [k \in 0 .. n |-> IF k = 0 THEN z ELSE Cut(s \o t, t, trim, ignore, g[k - 1])]
  <1>1. n \in Nat /\ z \in X
    <2>1. s \o t \in Seq(C)
      OBVIOUS
    <2>2. n \in Nat
      BY <2>1
    <2>. QED
      BY <2>2 DEF Turns
  <1>2. \A k \in 1 .. n : \A x \in X : Next1(k, x) \in X
    <2>1. s \o t \in Seq(C)
      OBVIOUS
    <2>. QED
      BY <2>1, CutIsTurn
  <1>3. step \in [1 .. n -> [X -> X]] /\ \A k \in 1 .. n, x \in X : step[k][x] = Next1(k, x)
    <2>. HIDE DEF Next1, X, n
    <2>. QED
      BY <1>2
  <1>4. PICK f : Follows(f, n, X, z, step)
    <2>. HIDE DEF step, X, n, z
    <2>. QED
      BY <1>1, <1>3, RecursionUpTo
  <1>5. f = Rec(f)
    <2>1. \A k \in 0 .. n : k # 0 => k \in 1 .. n /\ k - 1 \in 0 .. n
      BY <1>1
    <2>2. \A k \in 0 .. n : f[k] = IF k = 0 THEN z ELSE Next1(k, f[k - 1])
      <3>. HIDE DEF Next1, step, X, n
      <3>. QED
        BY <1>3, <1>4, <2>1 DEF Follows
    <2>3. f = [k \in 0 .. n |-> f[k]]
      <3>. HIDE DEF step, X, n, z
      <3>. QED
        BY <1>4 DEF Follows
    <2>. HIDE DEF step, X, n, z
    <2>. QED
      BY <2>2, <2>3
  <1>. DEFINE h == CHOOSE g : g = Rec(g)
  <1>6. h = Rec(h)
    <2>. HIDE DEF Rec
    <2>. QED
      BY <1>5
  <1>7. Split(s, t, trim, ignore) = h[n].pieces
    BY DEF Split
  <1>. HIDE DEF h
  <1>8. h = [k \in 0 .. n |-> h[k]] /\ h[0] = z /\ \A k \in 1 .. n : h[k] = Next1(k, h[k - 1])
    <2>1. 0 \in 0 .. n /\ \A k \in 1 .. n : k \in 0 .. n /\ k # 0
      BY <1>1
    <2>. HIDE DEF n
    <2>. QED
      BY <1>6, <2>1
  <1>9. h \in [0 .. n -> X]
    <2>. HIDE DEF n, X, step, Next1, z
    <2>1. Follows(h, n, X, z, step)
      BY <1>1, <1>3, <1>8, RecursionIsTyped, ZenonT(30)
    <2>. QED
      BY <2>1 DEF Follows
  <1>. QED
    BY <1>7, <1>8, <1>9 DEF SplitBy

ReplaceTurns(C) == {x \in [text : Seq(C), pos : Nat] : x.pos <= Len(x.text)}

\* A turn of the loop of ReplaceAll() leaves a state of that loop.
LEMMA ReplaceIsTurn ==
    ASSUME NEW C, NEW t \in Seq(C), NEW w \in Seq(C), t # <<>>, NEW x \in ReplaceTurns(C)
    PROVE  Replace(t, w, x) \in ReplaceTurns(C)
  <1>1. x \in [text : Seq(C), pos : Nat] /\ x.pos <= Len(x.text)
    BY DEF ReplaceTurns
  <1>2. /\ x.text \in Seq(C) /\ x.pos \in Nat /\ Len(x.text) \in Nat
        /\ Len(t) \in Nat \ {0} /\ Len(w) \in Nat
    BY <1>1
  <1>3. CASE x.pos = 0
    BY <1>3 DEF Replace, NOT_FOUND
  <1>4. CASE x.pos # 0
    <2>. DEFINE text == Replaced(x, w, t)
                pos == Find(text, t, x.pos + Len(w))
                a == SubSeq(x.text, 1, x.pos - 1)
                b == SubSeq(x.text, x.pos + Len(t), Len(x.text))
    <2>1. Replace(t, w, x) = [text |-> text, pos |-> pos]
      BY <1>4 DEF Replace, NOT_FOUND
    <2>2. a \in Seq(C) /\ b \in Seq(C)
      <3>1. x.pos - 1 <= Len(x.text) /\ x.pos - 1 \in Int /\ x.pos + Len(t) \in Nat \ {0}
        BY <1>1, <1>2, <1>4
      <3>. QED
        BY <1>2, <3>1, PartOf
    <2>3. text = a \o w \o b
      BY DEF Replaced, From
    <2>. HIDE DEF text, a, b
    <2>4. text \in Seq(C) /\ Len(text) \in Nat
      BY <2>2, <2>3
    <2>5. x.pos + Len(w) \in Nat \ {0}
      BY <1>2, <1>4
    <2>6. pos \in Nat /\ (pos = 0 \/ pos \in x.pos + Len(w) .. Len(text) - Len(t) + 1)
      <3>1. Found(text, t, x.pos + Len(w), pos)
        BY <2>4, <2>5, FindFinds, Zenon
      <3>. QED
        BY <3>1, Zenon DEF Found
    <2>. HIDE DEF pos
    <2>7. pos <= Len(text)
      BY <1>2, <2>4, <2>6
    <2>. QED
      BY <2>1, <2>4, <2>6, <2>7 DEF ReplaceTurns
  <1>. QED
    BY <1>3, <1>4

ReplacedBy(f, C, s, t, w) ==
    /\ f \in [0 .. Len(s) -> ReplaceTurns(C)] /\ f[0] = [text |-> s, pos |-> Find(s, t, 1)]
    /\ \A k \in 1 .. Len(s) : f[k] = Replace(t, w, f[k - 1])
    /\ ReplaceAll(s, t, w) = f[Len(s)].text

\* ReplaceAll() is what its recursion says.
LEMMA ReplaceIsRecursive ==
    ASSUME NEW C, NEW s \in Seq(C), NEW t \in Seq(C), NEW w \in Seq(C), t # <<>>
    PROVE  \E f : ReplacedBy(f, C, s, t, w)
  <1>. DEFINE n == Len(s)
              X == ReplaceTurns(C)
              z == [text |-> s, pos |-> Find(s, t, 1)]
              Next1(k, x) == Replace(t, w, x)
              step == [k \in 1 .. n |-> [x \in X |-> Next1(k, x)]]
              Rec(g) == [k \in 0 .. n |-> IF k = 0 THEN z ELSE Replace(t, w, g[k - 1])]
  <1>1. n \in Nat /\ z \in X
    <2>. DEFINE pos == Find(s, t, 1)
    <2>1. n \in Nat /\ Len(t) \in Nat \ {0}
      OBVIOUS
    <2>2. pos \in Nat /\ (pos = 0 \/ pos \in 1 .. Len(s) - Len(t) + 1)
      BY FindFinds DEF Found
    <2>3. z = [text |-> s, pos |-> pos]
      OBVIOUS
    <2>. HIDE DEF pos, z
    <2>4. pos <= Len(s)
      BY <2>1, <2>2
    <2>. QED
      BY <2>1, <2>2, <2>3, <2>4 DEF ReplaceTurns
  <1>2. \A k \in 1 .. n : \A x \in X : Next1(k, x) \in X
    BY ReplaceIsTurn
  <1>3. step \in [1 .. n -> [X -> X]] /\ \A k \in 1 .. n, x \in X : step[k][x] = Next1(k, x)
    <2>. HIDE DEF Next1, X, n
    <2>. QED
      BY <1>2
  <1>4. PICK f : Follows(f, n, X, z, step)
    <2>. HIDE DEF step, X, n, z
    <2>. QED
      BY <1>1, <1>3, RecursionUpTo
  <1>5. f = Rec(f)
    <2>1. \A k \in 0 .. n : k # 0 => k \in 1 .. n /\ k - 1 \in 0 .. n
      BY <1>1
    <2>2. \A k \in 0 .. n : f[k] = IF k = 0 THEN z ELSE Next1(k, f[k - 1])
      <3>. HIDE DEF Next1, step, X, n
      <3>. QED
        BY <1>3, <1>4, <2>1 DEF Follows
    <2>3. f = [k \in 0 .. n |-> f[k]]
      <3>. HIDE DEF step, X, n, z
      <3>. QED
        BY <1>4 DEF Follows
    <2>. HIDE DEF step, X, n, z
    <2>. QED
      BY <2>2, <2>3
  <1>. DEFINE h == CHOOSE g : g = Rec(g)
  <1>6. h = Rec(h)
    <2>. HIDE DEF Rec
    <2>. QED
      BY <1>5
  <1>7. ReplaceAll(s, t, w) = h[n].text
    BY DEF ReplaceAll
  <1>. HIDE DEF h
  <1>8. h = [k \in 0 .. n |-> h[k]] /\ h[0] = z /\ \A k \in 1 .. n : h[k] = Next1(k, h[k - 1])
    <2>1. 0 \in 0 .. n /\ \A k \in 1 .. n : k \in 0 .. n /\ k # 0
      BY <1>1
    <2>. HIDE DEF n
    <2>. QED
      BY <1>6, <2>1
  <1>9. h \in [0 .. n -> X]
    <2>. HIDE DEF n, X, step, Next1, z
    <2>1. Follows(h, n, X, z, step)
      BY <1>1, <1>3, <1>8, RecursionIsTyped
    <2>. QED
      BY <2>1 DEF Follows
  <1>. QED
    BY <1>7, <1>8, <1>9 DEF ReplacedBy

-----------------------------------------------------------------------------
(***************************************************************************)
(* Split(): nothing is lost.                                               *)
(***************************************************************************)
\* No pieces are put together to nothing.
LEMMA JoinedNone == ASSUME NEW C, NEW t \in Seq(C) PROVE Joined(<<>>, t) = <<>>
  <1>1. <<>> \in Seq(Seq(C)) /\ Len(<<>>) = 0
    OBVIOUS
  <1>2. PICK h : JoinedBy(h, C, t, <<>>)
    BY <1>1, JoinedIsRecursive
  <1>. QED
    BY <1>1, <1>2 DEF JoinedBy

\* A part of a part is a part.
LEMMA PartOfPart ==
    ASSUME NEW C, NEW s \in Seq(C), NEW i \in Nat, NEW j \in Nat, NEW m \in Nat, NEW n \in Nat,
           1 <= i, i <= Len(s), 1 <= j, j <= Len(s),
           1 <= m, m <= j - i + 1, 1 <= n, n <= j - i + 1
    PROVE  SubSeq(SubSeq(s, i, j), m, n) = SubSeq(s, i + m - 1, i + n - 1)
  <1>1. i \in 1 .. Len(s) /\ j \in 1 .. Len(s) /\ m \in 1 .. j - i + 1 /\ n \in 1 .. j - i + 1
    OBVIOUS
  <1>. QED
    BY <1>1, SubSeqOfSubSeq

\* One piece more is put together with the others by adding it.
LEMMA JoinedAppend ==
    ASSUME NEW C, NEW t \in Seq(C), NEW pieces \in Seq(Seq(C)), NEW x \in Seq(C)
    PROVE  Joined(Append(pieces, x), t) = Joined(pieces, t) \o x \o t
  <1>. DEFINE more == Append(pieces, x)
              n == Len(pieces)
  <1>1. more \in Seq(Seq(C)) /\ Len(more) = n + 1 /\ n \in Nat
    OBVIOUS
  <1>2. more[n + 1] = x /\ \A k \in 1 .. n : more[k] = pieces[k]
    OBVIOUS
  <1>. HIDE DEF more
  <1>3. PICK f : JoinedBy(f, C, t, pieces)
    BY JoinedIsRecursive
  <1>4. PICK g : JoinedBy(g, C, t, more)
    BY <1>1, JoinedIsRecursive
  <1>5. /\ f \in [0 .. n -> Seq(C)] /\ f[0] = <<>>
        /\ \A k \in 1 .. n : f[k] = f[k - 1] \o pieces[k] \o t
        /\ Joined(pieces, t) = f[n]
    BY <1>3 DEF JoinedBy
  <1>6. /\ g \in [0 .. n + 1 -> Seq(C)] /\ g[0] = <<>>
        /\ \A k \in 1 .. n + 1 : g[k] = g[k - 1] \o more[k] \o t
        /\ Joined(more, t) = g[n + 1]
    BY <1>4, <1>1 DEF JoinedBy
  <1>. DEFINE T == {k \in 0 .. n : f[k] = g[k]}
  <1>7. 0 \in T
    BY <1>1, <1>5, <1>6
  <1>8. \A k \in 1 .. n : k - 1 \in T => k \in T
    <2>. SUFFICES ASSUME NEW k \in 1 .. n, f[k - 1] = g[k - 1] PROVE f[k] = g[k]
      BY <1>1
    <2>1. k \in 1 .. n + 1
      BY <1>1
    <2>. HIDE DEF more
    <2>. QED
      BY <1>2, <1>5, <1>6, <2>1
  <1>. HIDE DEF T
  <1>9. \A k \in 0 .. n : k \in T
    BY <1>1, <1>7, <1>8, InductionUpTo
  <1>10. f[n] = g[n]
    BY <1>1, <1>9 DEF T
  <1>11. g[n + 1] = g[n] \o x \o t
    <2>1. n + 1 \in 1 .. n + 1 /\ (n + 1) - 1 = n
      BY <1>1
    <2>. HIDE DEF more, n
    <2>. QED
      BY <1>2, <1>6, <2>1
  <1>. HIDE DEF more, n
  <1>12. Joined(more, t) = Joined(pieces, t) \o x \o t
    BY <1>5, <1>6, <1>10, <1>11
  <1>. QED
    BY <1>12 DEF more

\* Split() at the turn n: what is cut off so far is what was in front.
CutInv(whole, t, n, x) ==
    /\ x.beg <= Len(whole) + 1
    /\ Joined(x.pieces, t) = SubSeq(whole, 1, x.beg - 1)
    /\ \A k \in 1 .. Len(x.pieces) : Find(x.pieces[k], t, 1) = 0
    /\ x.beg > n \/ Find(whole, t, x.beg) = 0

\* A turn of the loop of Split() keeps its invariant.
LEMMA CutKeeps ==
    ASSUME NEW C, NEW whole \in Seq(C), NEW t \in Seq(C), t # <<>>, NEW n \in Nat \ {0},
           NEW x \in Turns(C), CutInv(whole, t, n - 1, x)
    PROVE  CutInv(whole, t, n, Cut(whole, t, FALSE, FALSE, x))
  <1>. DEFINE loc == Find(whole, t, x.beg)
              piece == SubSeq(whole, x.beg, loc - 1)
  <1>1. x.beg \in Nat \ {0} /\ x.pieces \in Seq(Seq(C))
    BY DEF Turns
  <1>2. Len(t) \in Nat \ {0} /\ Len(whole) \in Nat
    OBVIOUS
  <1>3. Found(whole, t, x.beg, loc)
    BY <1>1, FindFinds
  <1>4. /\ loc = 0 \/ (loc \in x.beg .. Len(whole) - Len(t) + 1 /\ Stands(whole, t, loc))
        /\ loc # 0 => \A i \in x.beg .. loc - 1 : ~Stands(whole, t, i)
        /\ loc \in Nat
    <2>. HIDE DEF loc
    <2>. QED
      BY <1>3 DEF Found
  <1>5. CASE loc = 0
    <2>1. Cut(whole, t, FALSE, FALSE, x) = x
      BY <1>5 DEF Cut, NOT_FOUND
    <2>. QED
      BY <1>5, <2>1 DEF CutInv
  <1>6. CASE loc # 0
    <2>. DEFINE y == Cut(whole, t, FALSE, FALSE, x)
    <2>1. y = [beg |-> loc + Len(t), pieces |-> Append(x.pieces, piece)]
      BY <1>6 DEF Cut, NOT_FOUND
    <2>. HIDE DEF loc, y
    <2>2. y.pieces = Append(x.pieces, piece) /\ y.beg = loc + Len(t)
      BY <2>1
    <2>3. /\ loc \in x.beg .. Len(whole) /\ loc - 1 \in x.beg - 1 .. Len(whole) /\ loc - 1 \in Int
          /\ loc + Len(t) - 1 \in loc .. Len(whole) /\ loc + Len(t) \in Nat \ {0}
      BY <1>1, <1>2, <1>4, <1>6
    <2>4. /\ piece \in Seq(C)
          /\ x.beg <= loc - 1 => Len(piece) = (loc - 1) - x.beg + 1
          /\ x.beg > loc - 1 => piece = <<>>
      <3>1. x.beg \in Nat \ {0} /\ loc - 1 \in Int /\ loc - 1 <= Len(whole)
        BY <1>1, <1>2, <2>3
      <3>. QED
        BY <3>1, PartOf
    <2>. HIDE DEF piece
    <2>5. Len(piece) = loc - x.beg /\ Len(piece) \in Nat
      <3>1. CASE x.beg <= loc - 1
        BY <1>1, <2>3, <2>4, <3>1, SMTT(30)
      <3>2. CASE x.beg > loc - 1
        BY <1>1, <2>3, <2>4, <3>2, SMTT(30)
      <3>. QED
        BY <1>1, <2>3, <3>1, <3>2
    <2>6. Find(piece, t, 1) = 0
      <3>. DEFINE p == Find(piece, t, 1)
      <3>1. p = 0 \/ (p \in 1 .. Len(piece) - Len(t) + 1 /\ Stands(piece, t, p))
        BY <2>4, FindFinds DEF Found
      <3>2. ASSUME p # 0 PROVE FALSE
        <4>. HIDE DEF p
        <4>1. p \in Nat /\ p >= 1 /\ p <= loc - x.beg - Len(t) + 1 /\ Stands(piece, t, p)
          BY <1>1, <1>2, <2>3, <2>5, <3>1, <3>2
        <4>2. /\ x.beg \in 1 .. Len(whole) /\ loc - 1 \in 1 .. Len(whole)
              /\ p \in 1 .. (loc - 1) - x.beg + 1
              /\ p + Len(t) - 1 \in 1 .. (loc - 1) - x.beg + 1
          <5>1. x.beg \in Nat /\ loc \in Nat /\ loc <= Len(whole)
            BY <1>1, <1>2, <2>3
          <5>2. Len(t) >= 1 /\ x.beg >= 1 /\ x.beg <= loc
            BY <1>1, <1>2, <2>3
          <5>. QED
            BY <1>2, <4>1, <5>1, <5>2, SMTT(30)
        <4>3. SubSeq(piece, p, p + Len(t) - 1)
                  = SubSeq(whole, x.beg + p - 1, x.beg + (p + Len(t) - 1) - 1)
          <5>. DEFINE q == p + Len(t) - 1
                      e == loc - 1
                      b == x.beg
          <5>1. /\ b \in Nat /\ e \in Nat /\ p \in Nat /\ q \in Nat /\ 1 <= b /\ b <= Len(whole)
                /\ 1 <= e /\ e <= Len(whole)
                /\ 1 <= p /\ p <= e - b + 1 /\ 1 <= q /\ q <= e - b + 1
            BY <1>1, <1>2, <2>3, <4>1, <4>2
          <5>. HIDE DEF q, e, b
          <5>2. SubSeq(SubSeq(whole, b, e), p, q) = SubSeq(whole, b + p - 1, b + q - 1)
            BY <5>1, PartOfPart
          <5>. QED
            BY <5>2 DEF piece, q, e, b
        <4>4. x.beg + (p + Len(t) - 1) - 1 = (x.beg + p - 1) + Len(t) - 1
          BY <1>1, <1>2, <4>1
        <4>5. Stands(whole, t, x.beg + p - 1)
          BY <4>1, <4>3, <4>4 DEF Stands
        <4>6. x.beg + p - 1 \in x.beg .. loc - 1
          <5>1. x.beg \in Nat /\ loc \in Nat /\ Len(t) >= 1 /\ x.beg >= 1
            BY <1>1, <1>2, <2>3
          <5>. QED
            BY <1>2, <4>1, <5>1, SMTT(30)
        <4>. QED
          BY <1>4, <1>6, <4>5, <4>6
      <3>. QED
        BY <3>2
    <2>7. Joined(y.pieces, t) = SubSeq(whole, 1, y.beg - 1)
      <3>1. t = SubSeq(whole, loc, loc + Len(t) - 1)
        BY <1>4, <1>6 DEF Stands
      <3>2. Joined(y.pieces, t) = Joined(x.pieces, t) \o piece \o t
        <4>1. Joined(Append(x.pieces, piece), t) = Joined(x.pieces, t) \o piece \o t
          BY <1>1, <2>4, JoinedAppend, ZenonT(30)
        <4>. QED
          BY <2>2, <4>1
      <3>3. SubSeq(whole, 1, x.beg - 1) \o piece = SubSeq(whole, 1, loc - 1)
        <4>1. /\ 1 \in 1 .. Len(whole) + 1 /\ x.beg - 1 \in 0 .. Len(whole)
              /\ loc - 1 \in x.beg - 1 .. Len(whole) /\ (x.beg - 1) + 1 = x.beg /\ 1 - 1 = 0
          BY <1>1, <1>2, <2>3, SMTT(30)
        <4>2. SubSeq(whole, 1, x.beg - 1) \o SubSeq(whole, (x.beg - 1) + 1, loc - 1)
                  = SubSeq(whole, 1, loc - 1)
          BY <4>1, ConcatAdjacentSubSeq
        <4>. QED
          BY <4>1, <4>2 DEF piece
      <3>4. SubSeq(whole, 1, loc - 1) \o t = SubSeq(whole, 1, loc + Len(t) - 1)
        <4>1. /\ 1 \in 1 .. Len(whole) + 1 /\ loc - 1 \in 0 .. Len(whole)
              /\ loc + Len(t) - 1 \in loc - 1 .. Len(whole) /\ (loc - 1) + 1 = loc /\ 1 - 1 = 0
          BY <1>1, <1>2, <2>3
        <4>2. SubSeq(whole, 1, loc - 1) \o SubSeq(whole, (loc - 1) + 1, loc + Len(t) - 1)
                  = SubSeq(whole, 1, loc + Len(t) - 1)
          BY <4>1, ConcatAdjacentSubSeq
        <4>. QED
          BY <3>1, <4>1, <4>2
      <3>. QED
        <4>1. Joined(x.pieces, t) = SubSeq(whole, 1, x.beg - 1) /\ y.beg - 1 = loc + Len(t) - 1
          BY <1>2, <2>2, <2>3 DEF CutInv
        <4>. QED
          BY <3>2, <3>3, <3>4, <4>1
    <2>8. \A k \in 1 .. Len(y.pieces) : Find(y.pieces[k], t, 1) = 0
      <3>1. \A k \in 1 .. Len(y.pieces) : k \in 1 .. Len(x.pieces) \/ y.pieces[k] = piece
        BY <1>1, <2>2, <2>4, SMTT(30)
      <3>2. \A k \in 1 .. Len(x.pieces) : y.pieces[k] = x.pieces[k]
        BY <1>1, <2>2, <2>4
      <3>. QED
        BY <2>6, <3>1, <3>2 DEF CutInv
    <2>9. y.beg <= Len(whole) + 1 /\ y.beg > n
      <3>1. x.beg > n - 1
        BY <1>6 DEF CutInv, loc
      <3>. QED
        BY <1>1, <1>2, <2>2, <2>3, <3>1
    <2>. QED
      BY <2>7, <2>8, <2>9 DEF CutInv, y
  <1>. QED
    BY <1>5, <1>6

\* Split() cuts at every delimiter and loses nothing.
LEMMA CutsAreExact ==
    ASSUME NEW C, NEW s \in Seq(C), NEW t \in Seq(C), Len(t) = 1 \/ Len(t) = 2
    PROVE  CutExact(s, t)
  <1>. DEFINE whole == s \o t
              N == Len(whole)
              cut == Split(s, t, FALSE, FALSE)
  <1>1. /\ whole \in Seq(C) /\ N = Len(s) + Len(t) /\ N \in Nat /\ Len(s) \in Nat
        /\ Len(t) \in Nat \ {0} /\ t # <<>>
    <2>1. t = <<>> => Len(t) = 0
      OBVIOUS
    <2>2. Len(t) \in Nat \ {0} /\ t # <<>>
      BY <2>1, SMTT(30)
    <2>. QED
      BY <2>2
  <1>2. PICK f : SplitBy(f, C, s, t, FALSE, FALSE)
    BY SplitIsRecursive
  <1>3. /\ f \in [0 .. N -> Turns(C)] /\ f[0] = [beg |-> 1, pieces |-> <<>>]
        /\ \A k \in 1 .. N : f[k] = Cut(whole, t, FALSE, FALSE, f[k - 1])
        /\ cut = f[N].pieces
    BY <1>2 DEF SplitBy
  <1>. HIDE DEF whole, N, cut
  <1>. DEFINE T == {k \in 0 .. N : CutInv(whole, t, k, f[k])}
  <1>4. 0 \in T
    <2>1. Joined(<<>>, t) = <<>> /\ SubSeq(whole, 1, 0) = <<>> /\ Len(<<>>) = 0
      <3>1. <<>> \in Seq(Seq(C)) /\ <<>> \in Seq(C)
        OBVIOUS
      <3>. QED
        <4>1. Joined(<<>>, t) = <<>>
          BY JoinedNone
        <4>. QED
          BY <1>1, <3>1, <4>1, PartOf
    <2>2. 1 <= Len(whole) + 1 /\ 0 \in 0 .. N
      BY <1>1 DEF N
    <2>. DEFINE z == f[0]
    <2>3. z.beg = 1 /\ z.pieces = <<>> /\ z.beg - 1 = 0
      BY <1>3
    <2>. HIDE DEF z
    <2>4. CutInv(whole, t, 0, z)
      <3>1. z.beg <= Len(whole) + 1 /\ z.beg > 0
        BY <2>3, <2>2
      <3>2. \A k \in 1 .. Len(z.pieces) : Find(z.pieces[k], t, 1) = 0
        BY <2>1, <2>3
      <3>. QED
        BY <2>1, <2>3, <3>1, <3>2 DEF CutInv
    <2>. QED
      BY <2>2, <2>4 DEF z
  <1>5. \A k \in 1 .. N : k - 1 \in T => k \in T
    <2>. SUFFICES ASSUME NEW k \in 1 .. N, k - 1 \in T PROVE k \in T
      OBVIOUS
    <2>1. k \in 0 .. N /\ k \in Nat \ {0} /\ k - 1 \in 0 .. N
      BY <1>1
    <2>2. f[k - 1] \in Turns(C) /\ CutInv(whole, t, k - 1, f[k - 1])
      BY <1>3, <2>1
    <2>3. CutInv(whole, t, k, Cut(whole, t, FALSE, FALSE, f[k - 1]))
      BY <1>1, <2>1, <2>2, CutKeeps
    <2>. QED
      BY <1>3, <2>1, <2>3
  <1>. HIDE DEF T
  <1>6. \A k \in 0 .. N : k \in T
    BY <1>1, <1>4, <1>5, InductionUpTo
  <1>. DEFINE x == f[N]
  <1>7. x \in Turns(C) /\ CutInv(whole, t, N, x) /\ cut = x.pieces
    BY <1>1, <1>3, <1>6 DEF T
  <1>. HIDE DEF x
  <1>8. x.beg \in Nat \ {0} /\ x.pieces \in Seq(Seq(C)) /\ x.beg <= N + 1
    BY <1>7 DEF Turns, CutInv, N
  <1>9. x.beg >= Len(s) + 2
    <2>1. \A i \in x.beg .. N - Len(t) + 1 : ~Stands(whole, t, i)
      <3>1. CASE x.beg > N
        BY <1>1, <1>8, <3>1
      <3>2. CASE Find(whole, t, x.beg) = 0
        <4>1. whole \in Seq(C) /\ t \in Seq(C) /\ x.beg \in Nat \ {0} /\ N = Len(whole)
          BY <1>1, <1>8 DEF N
        <4>. DEFINE none == Find(whole, t, x.beg)
        <4>2. Found(whole, t, x.beg, none)
          BY <4>1, FindFinds, Zenon
        <4>3. none = 0
          BY <3>2
        <4>. HIDE DEF none
        <4>. QED
          BY <4>1, <4>2, <4>3, Zenon DEF Found
      <3>. QED
        BY <1>7, <3>1, <3>2 DEF CutInv
    <2>2. Stands(whole, t, Len(s) + 1)
      <3>1. Len(s) + 1 \in Len(s) + 1 .. Len(s) + Len(t) /\ Len(s) + Len(t) \in Len(s) + 1 .. Len(s) + Len(t)
        BY <1>1
      <3>2. SubSeq(whole, Len(s) + 1, Len(s) + Len(t)) = SubSeq(t, (Len(s) + 1) - Len(s), (Len(s) + Len(t)) - Len(s))
        BY <3>1, SubSeqOfConcat2 DEF whole
      <3>3. (Len(s) + 1) - Len(s) = 1 /\ (Len(s) + Len(t)) - Len(s) = Len(t) /\ (Len(s) + 1) + Len(t) - 1 = Len(s) + Len(t)
        BY <1>1
      <3>4. SubSeq(t, 1, Len(t)) = t
        BY SubSeqFull
      <3>. QED
        BY <3>2, <3>3, <3>4 DEF Stands
    <2>3. Len(s) + 1 \in Nat /\ N - Len(t) + 1 = Len(s) + 1
      BY <1>1
    <2>4. ~(x.beg <= Len(s) + 1)
      BY <1>1, <1>8, <2>1, <2>2, <2>3
    <2>. QED
      BY <1>1, <1>8, <2>4
  <1>10. \E lost \in {<<>>, SubSeq(t, 2, Len(t))} : Joined(cut, t) \o lost = whole
    <2>1. Joined(cut, t) = SubSeq(whole, 1, x.beg - 1)
      BY <1>7 DEF CutInv
    <2>2. CASE x.beg = N + 1
      <3>1. Joined(cut, t) = whole
        <4>1. x.beg - 1 = Len(whole)
          BY <1>1, <2>2 DEF N
        <4>. QED
          BY <1>1, <2>1, <4>1, SubSeqFull
      <3>2. whole \o <<>> = whole
        BY <1>1, ConcatEmptySeq
      <3>. QED
        BY <3>1, <3>2
    <2>3. CASE x.beg # N + 1
      <3>1. Len(t) = 2 /\ x.beg = Len(s) + 2 /\ N = Len(s) + 2
        <4>1. CASE Len(t) = 1
          BY <1>1, <1>8, <1>9, <2>3, <4>1
        <4>2. CASE Len(t) = 2
          <5>1. N = Len(s) + 2
            BY <1>1, <4>2
          <5>2. Len(s) \in Nat /\ x.beg \in Nat /\ x.beg <= N + 1
            BY <1>1, <1>8
          <5>3. x.beg = Len(s) + 2
            BY <1>9, <2>3, <5>1, <5>2
          <5>. QED
            BY <4>2, <5>1, <5>3
        <4>. QED
          BY <4>1, <4>2
      <3>2. SubSeq(t, 2, Len(t)) = SubSeq(whole, Len(s) + 2, N)
        <4>1. Len(s) + 2 \in Len(s) + 1 .. Len(s) + Len(t) /\ (Len(s) + 2) - Len(s) = 2
          BY <1>1, <3>1
        <4>2. SubSeq(s \o t, Len(s) + 2, Len(s) + 2) = SubSeq(t, (Len(s) + 2) - Len(s), (Len(s) + 2) - Len(s))
          BY <4>1, SubSeqOfConcat2
        <4>. QED
          BY <3>1, <4>1, <4>2 DEF whole
      <3>3. SubSeq(whole, 1, Len(s) + 1) \o SubSeq(whole, (Len(s) + 1) + 1, N) = SubSeq(whole, 1, N)
        <4>1. /\ 1 \in 1 .. Len(whole) + 1 /\ Len(s) + 1 \in 1 - 1 .. Len(whole)
              /\ N \in Len(s) + 1 .. Len(whole)
          BY <1>1, <3>1 DEF N
        <4>. QED
          BY <1>1, <4>1, ConcatAdjacentSubSeq
      <3>4. SubSeq(whole, 1, N) = whole
        BY <1>1, SubSeqFull DEF N
      <3>5. (Len(s) + 1) + 1 = Len(s) + 2 /\ (Len(s) + 2) - 1 = Len(s) + 1
        BY <1>1
      <3>6. Joined(cut, t) \o SubSeq(t, 2, Len(t)) = whole
        BY <2>1, <3>1, <3>2, <3>3, <3>4, <3>5
      <3>. QED
        BY <3>6
    <2>. QED
      BY <2>2, <2>3
  <1>11. \A k \in DOMAIN cut : Find(cut[k], t, 1) = NOT_FOUND
    <2>1. DOMAIN cut = 1 .. Len(cut)
      BY <1>7, <1>8
    <2>. QED
      BY <1>7, <2>1 DEF CutInv, NOT_FOUND
  <1>. QED
    BY <1>10, <1>11 DEF CutExact, whole, cut

-----------------------------------------------------------------------------
(***************************************************************************)
(* TrimSpace().                                                            *)
(***************************************************************************)
\* The part of s from m to n, which may be empty.
IsPart(p, C, s, m, n) ==
    /\ p \in Seq(C) /\ Len(p) = n - m + 1
    /\ \A i \in 1 .. n - m + 1 : p[i] = s[m + i - 1]

\* What a part of a text is.
LEMMA Part ==
    ASSUME NEW C, NEW s \in Seq(C), NEW m \in Nat \ {0}, NEW n \in Nat, m <= n + 1, n <= Len(s)
    PROVE  IsPart(SubSeq(s, m, n), C, s, m, n)
  <1>1. m > n => Len(SubSeq(s, m, n)) = 0
    BY PartOf
  <1>2. m > n => n - m + 1 = 0
    OBVIOUS
  <1>3. Len(SubSeq(s, m, n)) = n - m + 1
    BY <1>1, <1>2, PartOf
  <1>. QED
    BY <1>3, PartOf DEF IsPart

\* A text that begins with u and ends as s does after its place k.
EndsAs(text, C, u, s, k) ==
    /\ text \in Seq(C) /\ Len(text) = Len(u) + (Len(s) - k)
    /\ \A i \in 1 .. Len(u) : text[i] = u[i]
    /\ \A i \in 1 .. Len(s) - k : text[Len(u) + i] = s[k + i]

\* A text whose end is the end of another.
LEMMA EndOfText ==
    ASSUME NEW C, NEW u \in Seq(C), NEW s \in Seq(C), NEW k \in 0 .. Len(s), NEW text,
           text = u \o SubSeq(s, k + 1, Len(s))
    PROVE  EndsAs(text, C, u, s, k)
  <1>. DEFINE v == SubSeq(s, k + 1, Len(s))
  <1>1. k + 1 \in Nat \ {0} /\ k + 1 <= Len(s) + 1 /\ Len(s) \in Nat /\ Len(u) \in Nat
    OBVIOUS
  <1>2. /\ v \in Seq(C) /\ Len(v) = Len(s) - (k + 1) + 1
        /\ \A i \in 1 .. Len(s) - (k + 1) + 1 : v[i] = s[(k + 1) + i - 1]
    BY <1>1, Part DEF IsPart
  <1>3. Len(v) = Len(s) - k /\ Len(s) - k \in Nat
    BY <1>1, <1>2
  <1>4. \A i \in 1 .. Len(s) - k : v[i] = s[k + i]
    <2>. TAKE i \in 1 .. Len(s) - k
    <2>1. i \in 1 .. Len(s) - (k + 1) + 1 /\ (k + 1) + i - 1 = k + i
      BY <1>1
    <2>. QED
      BY <1>2, <2>1
  <1>5. text = u \o v
    OBVIOUS
  <1>. HIDE DEF v
  <1>6. /\ text \in Seq(C) /\ Len(text) = Len(u) + Len(v)
        /\ \A i \in 1 .. Len(u) + Len(v) : text[i] = IF i <= Len(u) THEN u[i] ELSE v[i - Len(u)]
    <2>. DEFINE w == u \o v
    <2>1. /\ w \in Seq(C) /\ Len(w) = Len(u) + Len(v)
          /\ \A i \in 1 .. Len(u) + Len(v) : w[i] = IF i <= Len(u) THEN u[i] ELSE v[i - Len(u)]
      BY <1>2, ConcatProperties
    <2>. HIDE DEF w
    <2>. QED
      BY <1>5, <2>1 DEF w
  <1>7. \A i \in 1 .. Len(u) : text[i] = u[i]
    <2>1. \A i \in 1 .. Len(u) : i \in 1 .. Len(u) + Len(v) /\ i <= Len(u)
      BY <1>1, <1>3
    <2>. QED
      BY <1>6, <2>1
  <1>8. \A i \in 1 .. Len(s) - k : text[Len(u) + i] = s[k + i]
    <2>. TAKE i \in 1 .. Len(s) - k
    <2>1. Len(u) + i \in 1 .. Len(u) + Len(v) /\ ~(Len(u) + i <= Len(u)) /\ (Len(u) + i) - Len(u) = i
      BY <1>1, <1>3
    <2>2. text[Len(u) + i] = v[i]
      BY <1>6, <2>1
    <2>. QED
      BY <1>4, <2>2
  <1>. QED
    BY <1>3, <1>6, <1>7, <1>8 DEF EndsAs

\* Its part up to the place k + j of s, and the part from there on.
PartsAt(text, u, s, k, j) ==
    /\ SubSeq(text, 1, Len(u) + j) = u \o SubSeq(s, k + 1, k + j)
    /\ SubSeq(text, Len(u) + j + 1, Len(text)) = SubSeq(s, k + j + 1, Len(s))

\* The parts of a text that ends as another one.
LEMMA PartsOfText ==
    ASSUME NEW C, NEW u \in Seq(C), NEW s \in Seq(C), NEW k \in 0 .. Len(s), NEW text,
           text = u \o SubSeq(s, k + 1, Len(s)), NEW j \in 0 .. Len(s) - k
    PROVE  PartsAt(text, u, s, k, j)
  <1>1. /\ text \in Seq(C) /\ Len(text) = Len(u) + (Len(s) - k)
        /\ \A i \in 1 .. Len(u) : text[i] = u[i]
        /\ \A i \in 1 .. Len(s) - k : text[Len(u) + i] = s[k + i]
    BY EndOfText, SMTT(30) DEF EndsAs
  <1>2. Len(u) \in Nat /\ Len(s) \in Nat /\ k \in Nat /\ j \in Nat /\ k + j <= Len(s) /\ Len(s) - k \in Nat
    OBVIOUS
  <1>. DEFINE a == SubSeq(text, 1, Len(u) + j)
              b == SubSeq(s, k + 1, k + j)
              c == SubSeq(text, Len(u) + j + 1, Len(text))
              d == SubSeq(s, k + j + 1, Len(s))
  <1>3. a \in Seq(C) /\ Len(a) = Len(u) + j /\ \A i \in 1 .. Len(u) + j : a[i] = text[i]
    <2>1. /\ 1 \in Nat \ {0} /\ Len(u) + j \in Nat /\ 1 <= Len(u) + j + 1 /\ Len(u) + j <= Len(text)
          /\ Len(u) + j - 1 + 1 = Len(u) + j
      BY <1>1, <1>2
    <2>2. \A i \in 1 .. Len(u) + j : 1 + i - 1 = i
      OBVIOUS
    <2>3. a \in Seq(C) /\ Len(a) = Len(u) + j - 1 + 1 /\ \A i \in 1 .. Len(u) + j - 1 + 1 : a[i] = text[1 + i - 1]
      <3>1. IsPart(a, C, text, 1, Len(u) + j)
        BY <1>1, <2>1, Part
      <3>. HIDE DEF a
      <3>. QED
        BY <3>1, SMTT(30) DEF IsPart
    <2>. HIDE DEF a
    <2>. QED
      BY <2>1, <2>2, <2>3
  <1>4. b \in Seq(C) /\ Len(b) = j /\ \A i \in 1 .. j : b[i] = s[k + i]
    <2>1. /\ k + 1 \in Nat \ {0} /\ k + j \in Nat /\ k + 1 <= k + j + 1 /\ k + j <= Len(s)
          /\ k + j - (k + 1) + 1 = j
      BY <1>2
    <2>2. \A i \in 1 .. j : k + 1 + i - 1 = k + i
      BY <1>2
    <2>3. /\ b \in Seq(C) /\ Len(b) = k + j - (k + 1) + 1
          /\ \A i \in 1 .. k + j - (k + 1) + 1 : b[i] = s[k + 1 + i - 1]
      BY <2>1, Part DEF IsPart
    <2>. HIDE DEF b
    <2>. QED
      BY <2>1, <2>2, <2>3
  <1>5. a = u \o b
    <2>. HIDE DEF a, b
    <2>1. /\ u \o b \in Seq(C) /\ Len(u \o b) = Len(u) + Len(b)
          /\ \A i \in 1 .. Len(u) + Len(b) : (u \o b)[i] = IF i <= Len(u) THEN u[i] ELSE b[i - Len(u)]
      BY <1>4, ConcatProperties
    <2>2. ASSUME NEW i \in 1 .. Len(u) + j PROVE a[i] = (u \o b)[i]
      <3>1. CASE i <= Len(u)
        <4>1. i \in 1 .. Len(u)
          BY <1>2, <3>1
        <4>. QED
          BY <1>1, <1>3, <1>4, <2>1, <3>1, <4>1
      <3>2. CASE ~(i <= Len(u))
        <4>1. i - Len(u) \in 1 .. j /\ i - Len(u) \in 1 .. Len(s) - k /\ Len(u) + (i - Len(u)) = i
          BY <1>2, <3>2
        <4>2. a[i] = s[k + (i - Len(u))]
          BY <1>1, <1>3, <4>1
        <4>3. (u \o b)[i] = s[k + (i - Len(u))]
          BY <1>4, <2>1, <3>2, <4>1
        <4>. QED
          BY <4>2, <4>3
      <3>. QED
        BY <3>1, <3>2
    <2>3. Len(a) = Len(u \o b)
      BY <1>3, <1>4, <2>1
    <2>. QED
      BY <1>3, <1>4, <2>1, <2>2, <2>3, SeqEqual
  <1>6. c \in Seq(C) /\ Len(c) = Len(s) - (k + j) /\ \A i \in 1 .. Len(s) - (k + j) : c[i] = s[k + j + i]
    <2>1. /\ Len(u) + j + 1 \in Nat \ {0} /\ Len(text) \in Nat /\ Len(u) + j + 1 <= Len(text) + 1
          /\ Len(text) <= Len(text) /\ Len(text) - (Len(u) + j + 1) + 1 = Len(s) - (k + j)
      BY <1>1, <1>2
    <2>2. /\ c \in Seq(C) /\ Len(c) = Len(text) - (Len(u) + j + 1) + 1
          /\ \A i \in 1 .. Len(text) - (Len(u) + j + 1) + 1 : c[i] = text[Len(u) + j + 1 + i - 1]
      <3>1. IsPart(c, C, text, Len(u) + j + 1, Len(text))
        BY <1>1, <2>1, Part
      <3>. HIDE DEF c
      <3>. QED
        BY <3>1 DEF IsPart
    <2>. HIDE DEF c
    <2>3. ASSUME NEW i \in 1 .. Len(s) - (k + j) PROVE c[i] = s[k + j + i]
      <3>1. /\ j + i \in 1 .. Len(s) - k /\ Len(u) + (j + i) = Len(u) + j + 1 + i - 1 /\ k + (j + i) = k + j + i
        BY <1>2
      <3>. QED
        BY <1>1, <2>1, <2>2, <3>1
    <2>. QED
      BY <2>1, <2>2, <2>3
  <1>7. d \in Seq(C) /\ Len(d) = Len(s) - (k + j) /\ \A i \in 1 .. Len(s) - (k + j) : d[i] = s[k + j + i]
    <2>1. /\ k + j + 1 \in Nat \ {0} /\ k + j + 1 <= Len(s) + 1
          /\ Len(s) <= Len(s) /\ Len(s) - (k + j + 1) + 1 = Len(s) - (k + j)
      BY <1>2
    <2>2. /\ d \in Seq(C) /\ Len(d) = Len(s) - (k + j + 1) + 1
          /\ \A i \in 1 .. Len(s) - (k + j + 1) + 1 : d[i] = s[k + j + 1 + i - 1]
      <3>1. IsPart(d, C, s, k + j + 1, Len(s))
        BY <1>2, <2>1, Part
      <3>. HIDE DEF d
      <3>. QED
        BY <3>1 DEF IsPart
    <2>3. \A i \in 1 .. Len(s) - (k + j) : k + j + 1 + i - 1 = k + j + i
      BY <1>2
    <2>. HIDE DEF d
    <2>. QED
      BY <2>1, <2>2, <2>3
  <1>8. c = d
    <2>. HIDE DEF c, d
    <2>. QED
      BY <1>6, <1>7, SeqEqual
  <1>. QED
    BY <1>5, <1>8 DEF PartsAt

\* TrimSpace() takes the spaces at both ends and nothing else.
LEMMA TrimsAreExact ==
    ASSUME NEW C, NEW s \in Seq(C), Space \in C
    PROVE  TrimExact(s)
  <1>. DEFINE core == TrimSpace(s)
  <1>1. core \in Seq(C) /\ \E a, b \in Nat : Between(s, core, a, b)
    BY TrimKeeps
  <1>2. PICK a \in Nat, b \in Nat : Between(s, core, a, b)
    BY <1>1
  <1>. HIDE DEF core
  <1>3. Len(s) \in Nat /\ a <= b /\ b <= Len(s) /\ Len(s) - b \in 0 .. Len(s) /\ a \in 0 .. Len(s)
    BY <1>2 DEF Between
  <1>4. Len(core) = b - a /\ \A i \in 1 .. b - a : core[i] = s[a + i]
    <2>1. core = SubSeq(s, a + 1, b)
      BY <1>2 DEF Between
    <2>2. a + 1 \in Nat \ {0} /\ a + 1 <= b + 1 /\ b - (a + 1) + 1 = b - a
      BY <1>3
    <2>3. Len(core) = b - (a + 1) + 1 /\ \A i \in 1 .. b - (a + 1) + 1 : core[i] = s[(a + 1) + i - 1]
      BY <1>3, <2>1, <2>2, Part DEF IsPart
    <2>4. \A i \in 1 .. b - a : (a + 1) + i - 1 = a + i
      BY <1>3
    <2>. QED
      BY <2>2, <2>3, <2>4
  <1>5. core # <<>> => core[1] # Space /\ core[Len(core)] # Space
    <2>. SUFFICES ASSUME core # <<>> PROVE core[1] # Space /\ core[Len(core)] # Space
      OBVIOUS
    <2>1. Len(core) \in Nat \ {0}
      BY <1>1, EmptySeq
    <2>2. a < b /\ 1 \in 1 .. b - a /\ b - a \in 1 .. b - a /\ a + (b - a) = b
      BY <1>3, <1>4, <2>1
    <2>3. s[a + 1] # Space /\ s[b] # Space
      BY <1>2, <2>2 DEF Between
    <2>. QED
      BY <1>4, <2>2, <2>3
  <1>. DEFINE l == [k \in 1 .. a |-> Space]
              z == Len(s) - b
              r == [k \in 1 .. z |-> Space]
              w == l \o core \o r
  <1>6. l \in Seq(C) /\ Len(l) = a /\ \A i \in 1 .. a : l[i] = Space
    OBVIOUS
  <1>7. r \in Seq(C) /\ Len(r) = z /\ \A i \in 1 .. z : r[i] = Space
    <2>1. z \in Nat
      BY <1>3
    <2>. HIDE DEF z
    <2>. QED
      BY <2>1
  <1>8. s = w
    <2>. HIDE DEF l, r
    <2>1. /\ l \o core \in Seq(C) /\ Len(l \o core) = b
          /\ \A i \in 1 .. b : (l \o core)[i] = IF i <= a THEN l[i] ELSE core[i - a]
      <3>1. a + (b - a) = b
        BY <1>3
      <3>. QED
        BY <1>1, <1>4, <1>6, <3>1, ConcatProperties
    <2>2. /\ w \in Seq(C) /\ Len(w) = Len(s)
          /\ \A i \in 1 .. Len(s) : w[i] = IF i <= b THEN (l \o core)[i] ELSE r[i - b]
      <3>1. b + z = Len(s)
        BY <1>3
      <3>. HIDE DEF z
      <3>. QED
        BY <1>7, <2>1, <3>1, ConcatProperties
    <2>. HIDE DEF w
    <2>3. ASSUME NEW i \in 1 .. Len(s) PROVE s[i] = w[i]
      <3>1. CASE i <= a
        <4>1. i \in 1 .. a /\ i \in 1 .. b /\ i <= b
          BY <1>3, <3>1
        <4>2. s[i] = Space
          BY <1>2, <4>1 DEF Between
        <4>. QED
          BY <1>6, <2>1, <2>2, <3>1, <4>1, <4>2
      <3>2. CASE ~(i <= a) /\ i <= b
        <4>1. i \in 1 .. b /\ i - a \in 1 .. b - a /\ a + (i - a) = i
          BY <1>3, <3>2
        <4>. QED
          BY <1>4, <2>1, <2>2, <3>2, <4>1
      <3>3. CASE ~(i <= b)
        <4>1. i \in b + 1 .. Len(s) /\ i - b \in 1 .. z
          BY <1>3, <3>3
        <4>2. s[i] = Space
          BY <1>2, <4>1 DEF Between
        <4>. QED
          BY <1>7, <2>2, <3>3, <4>1, <4>2
      <3>. QED
        BY <3>1, <3>2, <3>3
    <2>. QED
      BY <2>2, <2>3, SeqEqual
  <1>9. \E x, y \in 0 .. Len(s) : s = [k \in 1 .. x |-> Space] \o core \o [k \in 1 .. y |-> Space]
    <2>1. s = [k \in 1 .. a |-> Space] \o core \o [k \in 1 .. Len(s) - b |-> Space]
      BY <1>8
    <2>. QED
      BY <1>3, <2>1
  <1>. QED
    BY <1>5, <1>9 DEF TrimExact, core

-----------------------------------------------------------------------------
(***************************************************************************)
(* ReplaceAll().                                                           *)
(***************************************************************************)
\* For the provers: concatenation as a term of its own.
Cat(a, b) == a \o b

\* Concatenation is associative.
LEMMA Associative ==
    ASSUME NEW C, NEW a \in Seq(C), NEW b \in Seq(C), NEW c \in Seq(C)
    PROVE  Cat(Cat(a, b), c) = Cat(a, Cat(b, c))
  BY ConcatAssociative DEF Cat

\* With(), character by character.
WithBy(r, C, s, c, w) ==
    /\ r \in [0 .. Len(s) -> Seq(C)] /\ r[0] = <<>>
    /\ \A k \in 1 .. Len(s) : r[k] = r[k - 1] \o (IF s[k] = c THEN w ELSE <<s[k]>>)
    /\ With(s, c, w) = r[Len(s)]

\* With is what its recursion says.
LEMMA WithIsRecursive ==
    ASSUME NEW C, NEW s \in Seq(C), NEW c, NEW w \in Seq(C)
    PROVE  \E r : WithBy(r, C, s, c, w)
  <1>. DEFINE Part1(k) == IF s[k] = c THEN w ELSE <<s[k]>>
              parts == [k \in 1 .. Len(s) |-> Part1(k)]
  <1>1. Len(s) \in Nat /\ <<>> \in Seq(C)
    OBVIOUS
  <1>2. \A k \in 1 .. Len(s) : Part1(k) \in Seq(C)
    BY ElementOfSeq
  <1>3. parts \in Seq(Seq(C)) /\ Len(parts) = Len(s) /\ \A k \in 1 .. Len(s) : parts[k] = Part1(k)
    <2>. HIDE DEF Part1
    <2>. QED
      BY <1>1, <1>2
  <1>4. With(s, c, w) = Joined(parts, <<>>)
    BY DEF With
  <1>. HIDE DEF parts, Part1
  <1>5. PICK r : JoinedBy(r, C, <<>>, parts)
    BY <1>1, <1>3, JoinedIsRecursive
  <1>6. /\ r \in [0 .. Len(s) -> Seq(C)] /\ r[0] = <<>>
        /\ \A k \in 1 .. Len(s) : r[k] = r[k - 1] \o parts[k] \o <<>>
        /\ Joined(parts, <<>>) = r[Len(s)]
    BY <1>3, <1>5 DEF JoinedBy
  <1>7. \A k \in 1 .. Len(s) : r[k] = r[k - 1] \o Part1(k)
    <2>. TAKE k \in 1 .. Len(s)
    <2>1. k - 1 \in 0 .. Len(s)
      BY <1>1
    <2>2. r[k - 1] \in Seq(C) /\ parts[k] \in Seq(C)
      BY <1>2, <1>3, <1>6, <2>1
    <2>. DEFINE q == r[k - 1] \o parts[k]
    <2>3. q \in Seq(C)
      BY <2>2
    <2>4. r[k] = q \o <<>>
      BY <1>6
    <2>. HIDE DEF q
    <2>5. r[k] = q
      BY <2>3, <2>4, ConcatEmptySeq
    <2>. QED
      BY <1>3, <2>5 DEF q
  <1>8. WithBy(r, C, s, c, w)
    BY <1>4, <1>6, <1>7 DEF WithBy, Part1
  <1>. QED
    BY <1>8

\* Where no c is, it puts the text itself.
NoneIn(s, c, k, m) == \A i \in 1 .. m : s[k + i] # c
GoesOn(r, s, k, m) == r[k + m] = r[k] \o SubSeq(s, k + 1, k + m)

\* Characters that are not replaced are kept.
LEMMA RunKept ==
    ASSUME NEW C, NEW s \in Seq(C), NEW c, NEW w \in Seq(C), NEW r, WithBy(r, C, s, c, w),
           NEW k \in 0 .. Len(s), NEW m \in 0 .. Len(s) - k,
           NoneIn(s, c, k, m)
    PROVE  GoesOn(r, s, k, m)
  <1>. DEFINE T == {i \in 0 .. m : r[k + i] = r[k] \o SubSeq(s, k + 1, k + i)}
  <1>1. Len(s) \in Nat /\ k \in Nat /\ m \in Nat /\ k + m <= Len(s)
    OBVIOUS
  <1>2. r[k] \in Seq(C)
    BY DEF WithBy
  <1>3. 0 \in T
    <2>1. SubSeq(s, k + 1, k + 0) = <<>>
      BY <1>1, PartOf
    <2>2. r[k + 0] = r[k] /\ r[k] \o <<>> = r[k]
      BY <1>1, <1>2, ConcatEmptySeq
    <2>3. r[k + 0] = r[k] \o SubSeq(s, k + 1, k + 0)
      BY <2>1, <2>2
    <2>4. 0 \in 0 .. m
      BY <1>1
    <2>. QED
      BY <2>3, <2>4
  <1>4. \A i \in 1 .. m : i - 1 \in T => i \in T
    <2>. SUFFICES ASSUME NEW i \in 1 .. m, r[k + (i - 1)] = r[k] \o SubSeq(s, k + 1, k + (i - 1))
                  PROVE  r[k + i] = r[k] \o SubSeq(s, k + 1, k + i)
      <3>1. \A i \in 1 .. m : i \in 0 .. m /\ i - 1 \in 0 .. m
        BY <1>1
      <3>. QED
        BY <3>1
    <2>1. i \in 0 .. m /\ k + i \in 1 .. Len(s) /\ (k + i) - 1 = k + (i - 1) /\ k + i \in k + 1 .. Len(s)
      BY <1>1
    <2>. DEFINE a == SubSeq(s, k + 1, k + (i - 1))
                e == <<s[k + i]>>
    <2>2. r[k + i] = r[k + (i - 1)] \o e
      BY <2>1 DEF WithBy, NoneIn
    <2>3. r[k + (i - 1)] = r[k] \o a
      OBVIOUS
    <2>4. SubSeq(s, k + 1, k + i) = a \o e
      <3>1. k + 1 \in 1 .. Len(s) /\ k + i \in k + 1 .. Len(s)
        BY <1>1
      <3>2. SubSeq(s, k + 1, k + i) = SubSeq(s, k + 1, (k + i) - 1) \o e
        BY <3>1, SubSeqRecursiveSecond
      <3>. QED
        BY <2>1, <3>2
    <2>5. a \in Seq(C) /\ e \in Seq(C)
      <3>1. k + 1 \in Nat \ {0} /\ k + (i - 1) \in Int /\ k + (i - 1) <= Len(s)
        BY <1>1
      <3>2. a \in Seq(C)
        BY <3>1, PartOf
      <3>3. e \in Seq(C)
        BY <2>1, ElementOfSeq
      <3>. QED
        BY <3>2, <3>3
    <2>. HIDE DEF a, e
    <2>6. r[k + i] = r[k] \o (a \o e)
      <3>. DEFINE u == r[k]
      <3>1. u \in Seq(C)
        BY <1>2
      <3>. HIDE DEF u
      <3>2. Cat(Cat(u, a), e) = Cat(u, Cat(a, e))
        BY <2>5, <3>1, Associative
      <3>3. r[k + i] = Cat(Cat(u, a), e)
        BY <2>2, <2>3 DEF u, Cat
      <3>. QED
        BY <3>2, <3>3 DEF u, Cat
    <2>. QED
      BY <2>1, <2>4, <2>6
  <1>. HIDE DEF T
  <1>5. \A i \in 0 .. m : i \in T
    BY <1>1, <1>3, <1>4, InductionUpTo
  <1>6. m \in T
    BY <1>1, <1>5
  <1>. QED
    BY <1>6 DEF T, GoesOn

\* ReplaceAll() at the turn n: it has come to a place k of s, and looks on.
ReplaceInv(r, s, c, n, x) ==
    \E k \in 0 .. Len(s) :
        /\ x.text = r[k] \o SubSeq(s, k + 1, Len(s))
        /\ x.pos = Find(x.text, <<c>>, Len(r[k]) + 1)
        /\ k >= n \/ x.pos = 0

\* A turn of the loop of ReplaceAll() keeps its invariant.
LEMMA ReplaceKeeps ==
    ASSUME NEW C, NEW s \in Seq(C), NEW c \in C, NEW w \in Seq(C), NEW r, WithBy(r, C, s, c, w),
           NEW n \in Nat \ {0}, NEW x, ReplaceInv(r, s, c, n - 1, x)
    PROVE  ReplaceInv(r, s, c, n, Replace(<<c>>, w, x))
  <1>1. PICK k \in 0 .. Len(s) : /\ x.text = r[k] \o SubSeq(s, k + 1, Len(s))
                                 /\ x.pos = Find(x.text, <<c>>, Len(r[k]) + 1)
                                 /\ k >= n - 1 \/ x.pos = 0
    BY DEF ReplaceInv
  <1>2. r[k] \in Seq(C) /\ Len(r[k]) \in Nat /\ Len(s) \in Nat /\ k \in Nat /\ k <= Len(s)
    <2>1. r[k] \in Seq(C)
      BY DEF WithBy
    <2>. QED
      BY <2>1
  <1>. DEFINE text == x.text
              p == x.pos
              u == r[k]
  <1>3. /\ text \in Seq(C) /\ Len(text) = Len(u) + (Len(s) - k)
        /\ \A i \in 1 .. Len(s) - k : text[Len(u) + i] = s[k + i]
    <2>1. EndsAs(text, C, u, s, k)
      <3>. HIDE DEF text, u
      <3>. QED
        BY <1>1, <1>2, EndOfText DEF text, u
    <2>. QED
      BY <2>1 DEF EndsAs
  <1>4. /\ p \in Nat /\ (p = 0 \/ (p \in Len(u) + 1 .. Len(text) /\ text[p] = c))
        /\ p # 0 => \A i \in Len(u) + 1 .. p - 1 : text[i] # c
    <2>1. Len(u) + 1 \in Nat \ {0}
      BY <1>2
    <2>. HIDE DEF u
    <2>2. p = Find(text, <<c>>, Len(u) + 1)
      BY <1>1 DEF u
    <2>. HIDE DEF text, p
    <2>3. FoundCharacter(text, c, Len(u) + 1, p)
      BY <1>3, <2>1, <2>2, FindFindsCharacter
    <2>. QED
      BY <2>3 DEF FoundCharacter
  <1>5. CASE p = 0
    <2>1. Replace(<<c>>, w, x) = x
      BY <1>5 DEF Replace, NOT_FOUND
    <2>. QED
      BY <1>1, <1>5, <2>1 DEF ReplaceInv
  <1>6. CASE p # 0
    <2>. DEFINE j == p - Len(u)
                new == Replaced(x, w, <<c>>)
                y == Replace(<<c>>, w, x)
    <2>1. y.text = new /\ y.pos = Find(new, <<c>>, p + Len(w))
      BY <1>6 DEF Replace, NOT_FOUND
    <2>. HIDE DEF p
    <2>2. j \in 1 .. Len(s) - k /\ j - 1 \in 0 .. Len(s) - k /\ j \in 0 .. Len(s) - k /\ p = Len(u) + j /\ j \in Nat
      BY <1>2, <1>3, <1>4, <1>6, SMTT(30)
    <2>3. s[k + j] = c /\ \A i \in 1 .. j - 1 : s[k + i] # c
      <3>1. s[k + j] = c
        BY <1>3, <1>4, <1>6, <2>2
      <3>2. ASSUME NEW i \in 1 .. j - 1 PROVE s[k + i] # c
        <4>1. Len(u) + i \in Len(u) + 1 .. p - 1 /\ i \in 1 .. Len(s) - k
          BY <1>2, <2>2
        <4>. QED
          BY <1>3, <1>4, <1>6, <4>1
      <3>. QED
        BY <3>1, <3>2
    <2>. HIDE DEF j
    <2>4. /\ SubSeq(text, 1, Len(u) + (j - 1)) = u \o SubSeq(s, k + 1, k + (j - 1))
          /\ SubSeq(text, Len(u) + j + 1, Len(text)) = SubSeq(s, k + j + 1, Len(s))
      <3>. HIDE DEF u, text
      <3>1. text = u \o SubSeq(s, k + 1, Len(s)) /\ u \in Seq(C)
        BY <1>1, <1>2 DEF u, text
      <3>2. SubSeq(text, 1, Len(u) + (j - 1)) = u \o SubSeq(s, k + 1, k + (j - 1))
        <4>. DEFINE i == j - 1
        <4>1. i \in 0 .. Len(s) - k
          BY <2>2
        <4>. HIDE DEF i
        <4>2. PartsAt(text, u, s, k, i)
          BY <3>1, <4>1, PartsOfText
        <4>. QED
          BY <4>2 DEF i, PartsAt
      <3>3. SubSeq(text, Len(u) + j + 1, Len(text)) = SubSeq(s, k + j + 1, Len(s))
        BY <2>2, <3>1, PartsOfText, SMTT(30) DEF PartsAt
      <3>. QED
        BY <3>2, <3>3
    <2>5. r[k + (j - 1)] = u \o SubSeq(s, k + 1, k + (j - 1))
      <3>. DEFINE i == j - 1
      <3>1. i \in 0 .. Len(s) - k /\ NoneIn(s, c, k, i)
        BY <2>2, <2>3 DEF NoneIn
      <3>. HIDE DEF i, u
      <3>2. GoesOn(r, s, k, i)
        BY <3>1, RunKept
      <3>. QED
        BY <3>2 DEF i, u, GoesOn
    <2>6. k + j \in 1 .. Len(s) /\ k + j \in 0 .. Len(s) /\ (k + j) - 1 = k + (j - 1) /\ k + (j - 1) \in 0 .. Len(s)
      BY <1>2, <2>2
    <2>7. r[k + j] = r[k + (j - 1)] \o w
      BY <2>3, <2>6 DEF WithBy
    <2>8. new = r[k + j] \o SubSeq(s, k + j + 1, Len(s))
      <3>1. p - 1 = Len(u) + (j - 1) /\ p + Len(<<c>>) = Len(u) + j + 1
        BY <1>2, <2>2
      <3>2. new = SubSeq(text, 1, p - 1) \o w \o SubSeq(text, p + Len(<<c>>), Len(text))
        BY DEF Replaced, From, p
      <3>. HIDE DEF new, text, u
      <3>. QED
        BY <2>4, <2>5, <2>7, <3>1, <3>2
    <2>9. p + Len(w) = Len(r[k + j]) + 1
      <3>1. r[k + (j - 1)] \in Seq(C)
        BY <2>6 DEF WithBy
      <3>. DEFINE v == r[k + (j - 1)]
      <3>2. Len(r[k + j]) = Len(v) + Len(w)
        BY <2>7, <3>1, ConcatProperties
      <3>3. Len(v) = Len(u) + (j - 1)
        <4>. DEFINE d == SubSeq(s, k + 1, k + (j - 1))
        <4>1. k + 1 \in Nat \ {0} /\ k + (j - 1) \in Nat /\ k + 1 <= k + (j - 1) + 1 /\ k + (j - 1) <= Len(s)
          BY <1>2, <2>2
        <4>2. IsPart(d, C, s, k + 1, k + (j - 1))
          BY <4>1, Part
        <4>. HIDE DEF d, u
        <4>3. d \in Seq(C) /\ Len(d) = j - 1
          BY <1>2, <2>2, <4>2 DEF IsPart
        <4>4. v = u \o d /\ u \in Seq(C)
          BY <1>2, <2>5 DEF u, d
        <4>. QED
          BY <4>3, <4>4, ConcatProperties
      <3>. HIDE DEF v, u
      <3>. QED
        BY <1>2, <2>2, <3>2, <3>3 DEF u
    <2>10. k + j >= n
      BY <1>1, <1>2, <1>6, <2>2 DEF p
    <2>. HIDE DEF y, new
    <2>. QED
      BY <2>1, <2>6, <2>8, <2>9, <2>10 DEF ReplaceInv, y
  <1>. QED
    BY <1>5, <1>6

\* ReplaceAll() replaces the character wherever it stands, and nothing else.
LEMMA ReplacesAreExact ==
    ASSUME NEW C, NEW s \in Seq(C), NEW c \in C, NEW w \in Seq(C)
    PROVE  ReplaceAll(s, <<c>>, w) = With(s, c, w)
  <1>1. PICK r : WithBy(r, C, s, c, w)
    BY WithIsRecursive
  <1>2. <<c>> \in Seq(C) /\ <<c>> # <<>> /\ Len(s) \in Nat
    OBVIOUS
  <1>3. PICK f : ReplacedBy(f, C, s, <<c>>, w)
    BY <1>2, ReplaceIsRecursive
  <1>. DEFINE N == Len(s)
              T == {k \in 0 .. N : ReplaceInv(r, s, c, k, f[k])}
  <1>4. 0 \in T
    <2>. DEFINE z == f[0]
    <2>1. z.text = s /\ z.pos = Find(s, <<c>>, 1)
      BY <1>3 DEF ReplacedBy
    <2>2. r[0] = <<>> /\ Len(<<>>) = 0 /\ Len(r[0]) + 1 = 1
      BY <1>1 DEF WithBy
    <2>3. r[0] \o SubSeq(s, 0 + 1, Len(s)) = s
      <3>1. SubSeq(s, 0 + 1, Len(s)) = s
        BY SubSeqFull
      <3>2. <<>> \o s = s
        BY ConcatEmptySeq
      <3>. QED
        BY <2>2, <3>1, <3>2
    <2>. HIDE DEF z
    <2>4. 0 \in 0 .. Len(s) /\ 0 >= 0
      BY <1>2, SMTT(30)
    <2>5. ReplaceInv(r, s, c, 0, z)
      BY <2>1, <2>2, <2>3, <2>4 DEF ReplaceInv
    <2>. QED
      BY <2>4, <2>5 DEF z
  <1>5. \A k \in 1 .. N : k - 1 \in T => k \in T
    <2>. SUFFICES ASSUME NEW k \in 1 .. N, k - 1 \in T PROVE k \in T
      OBVIOUS
    <2>1. k \in 0 .. N /\ k \in Nat \ {0}
      BY <1>2
    <2>2. ReplaceInv(r, s, c, k - 1, f[k - 1])
      OBVIOUS
    <2>3. ReplaceInv(r, s, c, k, Replace(<<c>>, w, f[k - 1]))
      BY <1>1, <2>1, <2>2, ReplaceKeeps
    <2>4. f[k] = Replace(<<c>>, w, f[k - 1])
      BY <1>3 DEF ReplacedBy
    <2>. QED
      BY <2>1, <2>3, <2>4
  <1>. HIDE DEF T
  <1>6. \A k \in 0 .. N : k \in T
    BY <1>2, <1>4, <1>5, InductionUpTo
  <1>. DEFINE x == f[N]
  <1>7. ReplaceInv(r, s, c, N, x) /\ ReplaceAll(s, <<c>>, w) = x.text
    <2>1. N \in T
      BY <1>2, <1>6
    <2>. QED
      BY <1>3, <2>1 DEF T, ReplacedBy
  <1>. HIDE DEF x
  <1>8. PICK k \in 0 .. Len(s) : /\ x.text = r[k] \o SubSeq(s, k + 1, Len(s))
                                 /\ x.pos = Find(x.text, <<c>>, Len(r[k]) + 1)
                                 /\ k >= N \/ x.pos = 0
    BY <1>7 DEF ReplaceInv
  <1>9. x.text = r[N]
    <2>1. r[k] \in Seq(C) /\ Len(r[k]) \in Nat
      <3>1. r[k] \in Seq(C)
        BY <1>1 DEF WithBy
      <3>. QED
        BY <3>1
    <2>2. ASSUME NEW i \in 1 .. N - k PROVE s[k + i] # c
      <3>1. /\ x.text \in Seq(C) /\ Len(x.text) = Len(r[k]) + (Len(s) - k)
            /\ \A h \in 1 .. Len(s) - k : x.text[Len(r[k]) + h] = s[k + h]
        <4>. DEFINE u == r[k]
                    text == x.text
        <4>. HIDE DEF u, text
        <4>1. EndsAs(text, C, u, s, k)
          BY <1>8, <2>1, EndOfText DEF u, text
        <4>. QED
          BY <4>1 DEF EndsAs, u, text
      <3>2. x.pos = 0
        BY <1>2, <1>8
      <3>3. Len(r[k]) + i \in Len(r[k]) + 1 .. Len(x.text)
        BY <1>2, <2>1, <3>1
      <3>4. \A h \in Len(r[k]) + 1 .. Len(x.text) : x.text[h] # c
        <4>. DEFINE beg == Len(r[k]) + 1
                    text == x.text
        <4>1. beg \in Nat \ {0} /\ text \in Seq(C)
          BY <2>1, <3>1
        <4>2. 0 = Find(text, <<c>>, beg)
          BY <1>8, <3>2
        <4>. HIDE DEF beg, text
        <4>3. FoundCharacter(text, c, beg, 0)
          BY <4>1, <4>2, FindFindsCharacter
        <4>4. \A h \in beg .. Len(text) : text[h] # c
          BY <4>3 DEF FoundCharacter
        <4>. QED
          BY <4>4 DEF beg, text
      <3>. QED
        BY <3>1, <3>3, <3>4
    <2>3. N - k \in 0 .. Len(s) - k /\ k + (N - k) = N
      BY <1>2
    <2>4. r[k + (N - k)] = r[k] \o SubSeq(s, k + 1, k + (N - k))
      <3>. DEFINE i == N - k
      <3>1. i \in 0 .. Len(s) - k /\ NoneIn(s, c, k, i)
        BY <2>2, <2>3 DEF NoneIn
      <3>. HIDE DEF i
      <3>2. GoesOn(r, s, k, i)
        BY <1>1, <3>1, RunKept
      <3>. QED
        BY <3>2 DEF i, GoesOn
    <2>. QED
      BY <1>8, <2>3, <2>4
  <1>. QED
    BY <1>1, <1>7, <1>9 DEF WithBy

-----------------------------------------------------------------------------
(***************************************************************************)
(* ToInt() and ToUint(): what is read of a text.                           *)
(***************************************************************************)
\* Widths: 2 ^ n is the number of sets of n bits.
LEMMA PowersGrow ==
    ASSUME NEW m \in Nat, NEW n \in Nat, m < n
    PROVE  2 ^ m \in Nat /\ 2 ^ n \in Nat /\ 1 <= 2 ^ m /\ 2 ^ m < 2 ^ n
  <1>. DEFINE A == 1 .. m
              B == 1 .. n
  <1>1. /\ IsFiniteSet(A) /\ Cardinality(A) = m /\ IsFiniteSet(B) /\ Cardinality(B) = n
        /\ A \subseteq B /\ n \in B /\ n \notin A
    <2>1. m = m - 1 + 1 /\ n = n - 1 + 1
      OBVIOUS
    <2>2. IsFiniteSet(A) /\ Cardinality(A) = m
      BY FS_Interval
    <2>3. IsFiniteSet(B) /\ Cardinality(B) = n
      BY FS_Interval
    <2>. QED
      BY <2>2, <2>3
  <1>. HIDE DEF A, B
  <1>2. /\ IsFiniteSet(SUBSET A) /\ Cardinality(SUBSET A) = 2 ^ Cardinality(A)
        /\ IsFiniteSet(SUBSET B) /\ Cardinality(SUBSET B) = 2 ^ Cardinality(B)
    BY <1>1, FS_SUBSET
  <1>. DEFINE a == Cardinality(SUBSET A)
              b == Cardinality(SUBSET B)
  <1>3. a \in Nat /\ b \in Nat
    BY <1>2, FS_CardinalityType
  <1>4. SUBSET A \subseteq SUBSET B /\ {n} \in SUBSET B /\ {n} \notin SUBSET A
    BY <1>1
  <1>5. a <= b /\ a # b
    BY <1>2, <1>4, FS_Subset
  <1>6. a # 0
    <2>1. {} \in SUBSET A
      OBVIOUS
    <2>. QED
      BY <1>2, <2>1, FS_EmptySet
  <1>7. a = 2 ^ m /\ b = 2 ^ n
    BY <1>1, <1>2
  <1>. HIDE DEF a, b
  <1>8. a \in Nat /\ b \in Nat /\ 1 <= a /\ a < b
    BY <1>3, <1>5, <1>6
  <1>. QED
    BY <1>7, <1>8

\* Where the digits that operator>> reads begin and end.
First(s) == IF s # <<>> /\ s[1] \in Signs THEN 2 ELSE 1
NoDigits(s) == {i \in First(s) .. Len(s) : s[i] \notin DigitChars} \cup {Len(s) + 1}
Stop(s) == Min(NoDigits(s))
DigitsOf(s) == SubSeq(s, First(s), Stop(s) - 1)

\* What operator>> reads: a sign or none, and all the digits after it.
LEMMA LeadingReads ==
    ASSUME NEW C, NEW s \in Seq(C)
    PROVE  /\ First(s) \in {1, 2} /\ First(s) <= Len(s) + 1
           /\ First(s) = 2 <=> (s # <<>> /\ s[1] \in Signs)
           /\ Stop(s) \in First(s) .. Len(s) + 1 /\ Stop(s) \in Nat
           /\ \A i \in First(s) .. Stop(s) - 1 : s[i] \in DigitChars
           /\ Stop(s) <= Len(s) => s[Stop(s)] \notin DigitChars
           /\ Leading(s).ok <=> DigitsOf(s) # <<>>
           /\ DigitsOf(s) # <<>> <=> First(s) < Stop(s)
           /\ Leading(s).n = IF First(s) = 2 /\ s[1] = "-" THEN 0 - Value(DigitsOf(s))
                             ELSE Value(DigitsOf(s))
  <1>1. Len(s) \in Nat /\ (s # <<>> => Len(s) >= 1)
    BY EmptySeq
  <1>2. First(s) \in {1, 2} /\ First(s) <= Len(s) + 1 /\ (First(s) = 2 <=> (s # <<>> /\ s[1] \in Signs))
    BY <1>1 DEF First
  <1>. DEFINE U == NoDigits(s)
              f == First(s)
              e == Stop(s)
  <1>3. U \in SUBSET Nat /\ Len(s) + 1 \in U
    BY <1>1, <1>2 DEF NoDigits
  <1>4. e \in U /\ \A i \in U : e <= i
    <2>. HIDE DEF U
    <2>1. Min(U) \in U /\ \A i \in U : Min(U) <= i
      BY <1>3, MinExists
    <2>. QED
      BY <2>1 DEF Stop, U
  <1>. HIDE DEF e
  <1>5. e \in f .. Len(s) + 1 /\ e \in Nat /\ (e <= Len(s) => s[e] \notin DigitChars)
    <2>. HIDE DEF f
    <2>1. e \in {i \in f .. Len(s) : s[i] \notin DigitChars} \cup {Len(s) + 1}
      BY <1>4 DEF NoDigits, f
    <2>2. f \in {1, 2} /\ f <= Len(s) + 1
      BY <1>2 DEF f
    <2>. QED
      BY <1>1, <2>1, <2>2
  <1>6. \A i \in f .. e - 1 : s[i] \in DigitChars
    <2>. SUFFICES ASSUME NEW i \in f .. e - 1, s[i] \notin DigitChars PROVE FALSE
      OBVIOUS
    <2>1. i \in f .. Len(s) /\ ~(e <= i)
      <3>1. f \in Nat
        BY <1>2
      <3>. HIDE DEF f
      <3>. QED
        BY <1>1, <1>5, <3>1
    <2>2. i \in U
      BY <2>1 DEF NoDigits
    <2>. HIDE DEF U
    <2>. QED
      BY <1>4, <2>1, <2>2
  <1>7. DigitsOf(s) # <<>> <=> f < e
    <2>1. f \in Nat \ {0} /\ e - 1 \in Int /\ e - 1 <= Len(s)
      BY <1>1, <1>2, <1>5
    <2>2. DigitsOf(s) = SubSeq(s, f, e - 1)
      BY DEF DigitsOf, e
    <2>. HIDE DEF f
    <2>3. /\ f <= e - 1 => Len(SubSeq(s, f, e - 1)) = (e - 1) - f + 1
          /\ f > e - 1 => SubSeq(s, f, e - 1) = <<>>
      BY <2>1, PartOf
    <2>4. CASE f <= e - 1
      <3>1. Len(DigitsOf(s)) # 0
        BY <1>5, <2>1, <2>2, <2>3, <2>4
      <3>2. Len(<<>>) = 0
        OBVIOUS
      <3>. QED
        BY <1>5, <2>1, <2>4, <3>1, <3>2
    <2>5. CASE f > e - 1
      BY <1>5, <2>1, <2>2, <2>3, <2>5
    <2>. QED
      BY <1>5, <2>1, <2>4, <2>5
  <1>8. /\ Leading(s).ok <=> DigitsOf(s) # <<>>
        /\ Leading(s).n = IF f = 2 /\ s[1] = "-" THEN 0 - Value(DigitsOf(s)) ELSE Value(DigitsOf(s))
    <2>. DEFINE signed == s # <<>> /\ s[1] \in Signs
    <2>1. signed <=> f = 2
      BY <1>2
    <2>2. Leading(s) = [ok |-> DigitsOf(s) # <<>>,
                        n |-> IF signed /\ s[1] = "-" THEN 0 - Value(DigitsOf(s)) ELSE Value(DigitsOf(s))]
      BY DEF Leading, DigitsOf, Stop, NoDigits, First
    <2>3. Leading(s).ok = (DigitsOf(s) # <<>>)
      BY <2>2
    <2>4. Leading(s).n = IF signed /\ s[1] = "-" THEN 0 - Value(DigitsOf(s)) ELSE Value(DigitsOf(s))
      BY <2>2
    <2>. HIDE DEF f, signed
    <2>. QED
      BY <2>1, <2>3, <2>4, Zenon
  <1>. QED
    BY <1>2, <1>5, <1>6, <1>7, <1>8 DEF e

\* The digits that are read say a natural number.
LEMMA DigitsHaveValue ==
    ASSUME NEW C, NEW s \in Seq(C)
    PROVE  DigitsOf(s) \in Seq(DigitChars) /\ Value(DigitsOf(s)) \in Nat /\ Leading(s).n \in Int
  <1>1. /\ First(s) \in {1, 2} /\ Stop(s) \in First(s) .. Len(s) + 1 /\ Stop(s) \in Nat
        /\ \A i \in First(s) .. Stop(s) - 1 : s[i] \in DigitChars
        /\ Leading(s).n = IF First(s) = 2 /\ s[1] = "-" THEN 0 - Value(DigitsOf(s))
                          ELSE Value(DigitsOf(s))
    BY LeadingReads
  <1>. DEFINE f == First(s)
              e == Stop(s) - 1
  <1>2. f \in 1 .. Len(s) + 1 /\ e \in Int /\ e <= Len(s) /\ Len(s) \in Nat
    BY <1>1
  <1>3. SubSeq(s, f, e) \in Seq(DigitChars)
    <2>1. \A i \in f .. e : s[i] \in DigitChars
      BY <1>1
    <2>. HIDE DEF f, e
    <2>. QED
      BY <1>2, <2>1, SubSeqProperties
  <1>4. DigitsOf(s) \in Seq(DigitChars)
    BY <1>3 DEF DigitsOf
  <1>5. PICK v : ValueBy(v, DigitsOf(s))
    BY <1>4, ValueIsRecursive
  <1>6. Value(DigitsOf(s)) \in Nat
    <2>1. Len(DigitsOf(s)) \in 0 .. Len(DigitsOf(s))
      BY <1>4
    <2>. QED
      BY <1>5, <2>1 DEF ValueBy
  <1>. QED
    BY <1>1, <1>4, <1>6

\* What is read is said, and what is said is read.
LEMMA ReadIsSaid ==
    ASSUME NEW C, NEW s \in Seq(C), SeemsGood(s)
    PROVE  Says(s, Leading(s).n)
  <1>1. /\ First(s) \in {1, 2} /\ Stop(s) \in First(s) .. Len(s) + 1 /\ Stop(s) \in Nat
        /\ First(s) = 2 <=> (s # <<>> /\ s[1] \in Signs)
        /\ \A i \in First(s) .. Stop(s) - 1 : s[i] \in DigitChars
        /\ Stop(s) <= Len(s) => s[Stop(s)] \notin DigitChars
        /\ Leading(s).ok <=> DigitsOf(s) # <<>>
        /\ DigitsOf(s) # <<>> <=> First(s) < Stop(s)
        /\ Leading(s).n = IF First(s) = 2 /\ s[1] = "-" THEN 0 - Value(DigitsOf(s))
                          ELSE Value(DigitsOf(s))
    BY LeadingReads
  <1>2. /\ \A i \in 1 .. Len(s) : s[i] \in DigitChars \cup Signs
        /\ First(s) < Stop(s)
    <2>1. DOMAIN s = 1 .. Len(s)
      OBVIOUS
    <2>. QED
      BY <1>1, <2>1 DEF SeemsGood
  <1>. DEFINE a == First(s) - 1
              b == Stop(s) - 1
  <1>3. /\ Len(s) \in Nat /\ a \in {0, 1} /\ b \in 1 .. Len(s) /\ a < b
        /\ a + 1 = First(s) /\ b + 1 = Stop(s) /\ (a = 1 <=> First(s) = 2)
    <2>1. Len(s) \in Nat /\ First(s) \in {1, 2} /\ Stop(s) \in Nat /\ Stop(s) <= Len(s) + 1
      BY <1>1
    <2>2. First(s) < Stop(s)
      BY <1>2
    <2>. QED
      BY <2>1, <2>2
  <1>4. DigitsOf(s) = SubSeq(s, a + 1, b) /\ (a = 1 => DigitsOf(s) = SubSeq(s, 2, b))
    <2>1. DigitsOf(s) = SubSeq(s, a + 1, b)
      BY <1>3 DEF DigitsOf
    <2>. HIDE DEF a, b
    <2>2. a = 1 => a + 1 = 2
      OBVIOUS
    <2>. QED
      BY <2>1, <2>2
  <1>5. /\ a = 1 => s[1] \in Signs
        /\ \A i \in a + 1 .. b : s[i] \in DigitChars
        /\ b < Len(s) => s[b + 1] \in Signs
        /\ \A i \in b + 1 .. Len(s) : s[i] \in DigitChars \cup Signs
    <2>1. a = 1 => s[1] \in Signs
      BY <1>1, <1>3
    <2>2. \A i \in a + 1 .. b : s[i] \in DigitChars
      BY <1>1, <1>3
    <2>3. b < Len(s) => s[b + 1] \in Signs
      <3>1. b < Len(s) => b + 1 \in 1 .. Len(s) /\ Stop(s) <= Len(s)
        BY <1>3
      <3>. HIDE DEF b
      <3>. QED
        BY <1>1, <1>2, <1>3, <3>1
    <2>4. \A i \in b + 1 .. Len(s) : i \in 1 .. Len(s)
      BY <1>3
    <2>. QED
      BY <1>2, <2>1, <2>2, <2>3, <2>4
  <1>6. Leading(s).n = IF a = 1 /\ s[1] = "-" THEN 0 - Value(SubSeq(s, 2, b))
                       ELSE Value(SubSeq(s, a + 1, b))
    <2>. HIDE DEF a, b
    <2>. QED
      BY <1>1, <1>3, <1>4
  <1>7. a \in {0, 1} /\ b \in DOMAIN s
    BY <1>3
  <1>. HIDE DEF a, b
  <1>. QED
    BY <1>3, <1>5, <1>6, <1>7 DEF Says

\* What a text says is what is read of it.
LEMMA SaidIsRead ==
    ASSUME NEW C, NEW s \in Seq(C), NEW n, Says(s, n)
    PROVE  SeemsGood(s) /\ Leading(s).n = n
  <1>1. Len(s) \in Nat /\ DOMAIN s = 1 .. Len(s)
    OBVIOUS
  <1>2. PICK a \in {0, 1}, b \in 1 .. Len(s) :
            /\ a < b /\ (a = 1 => s[1] \in Signs)
            /\ \A i \in a + 1 .. b : s[i] \in DigitChars
            /\ \A i \in b + 1 .. Len(s) : s[i] \in DigitChars \cup Signs
            /\ b < Len(s) => s[b + 1] \in Signs
            /\ n = IF a = 1 /\ s[1] = "-" THEN 0 - Value(SubSeq(s, 2, b)) ELSE Value(SubSeq(s, a + 1, b))
    BY <1>1 DEF Says
  <1>3. /\ First(s) \in {1, 2} /\ Stop(s) \in First(s) .. Len(s) + 1 /\ Stop(s) \in Nat
        /\ First(s) = 2 <=> (s # <<>> /\ s[1] \in Signs)
        /\ \A i \in First(s) .. Stop(s) - 1 : s[i] \in DigitChars
        /\ Stop(s) <= Len(s) => s[Stop(s)] \notin DigitChars
        /\ Leading(s).ok <=> DigitsOf(s) # <<>>
        /\ DigitsOf(s) # <<>> <=> First(s) < Stop(s)
        /\ Leading(s).n = IF First(s) = 2 /\ s[1] = "-" THEN 0 - Value(DigitsOf(s))
                          ELSE Value(DigitsOf(s))
    BY LeadingReads
  <1>4. \A c \in DigitChars : c \notin Signs
    BY DEF DigitChars, Signs
  <1>5. First(s) = a + 1
    <2>1. s # <<>>
      BY <1>2, EmptySeq
    <2>2. CASE a = 1
      BY <1>2, <1>3, <2>1, <2>2
    <2>3. CASE a = 0
      <3>1. 1 \in a + 1 .. b
        BY <1>2, <2>3
      <3>2. s[1] \notin Signs
        BY <1>2, <1>4, <3>1
      <3>. QED
        BY <1>3, <2>3, <3>2
    <2>. QED
      BY <2>2, <2>3
  <1>6. Stop(s) = b + 1
    <2>1. ~(Stop(s) <= b)
      <3>. SUFFICES ASSUME Stop(s) <= b PROVE FALSE
        OBVIOUS
      <3>1. Stop(s) \in a + 1 .. b /\ Stop(s) <= Len(s)
        BY <1>1, <1>3, <1>5
      <3>. QED
        BY <1>2, <1>3, <3>1
    <2>2. ~(Stop(s) > b + 1)
      <3>. SUFFICES ASSUME Stop(s) > b + 1 PROVE FALSE
        OBVIOUS
      <3>1. b + 1 \in First(s) .. Stop(s) - 1 /\ b < Len(s)
        BY <1>1, <1>2, <1>3, <1>5
      <3>. QED
        BY <1>2, <1>3, <1>4, <3>1
    <2>. QED
      BY <1>2, <1>3, <2>1, <2>2
  <1>7. DigitsOf(s) = SubSeq(s, a + 1, b) /\ (a = 1 => DigitsOf(s) = SubSeq(s, 2, b))
    <2>1. Stop(s) - 1 = b /\ (a = 1 => a + 1 = 2)
      BY <1>2, <1>6
    <2>. QED
      BY <1>5, <2>1 DEF DigitsOf
  <1>8. Leading(s).n = n /\ Leading(s).ok
    <2>1. First(s) < Stop(s) /\ (a = 1 <=> First(s) = 2)
      BY <1>2, <1>5, <1>6
    <2>. QED
      BY <1>2, <1>3, <1>7, <2>1
  <1>9. \A i \in 1 .. Len(s) : s[i] \in DigitChars \cup Signs
    <2>. TAKE i \in 1 .. Len(s)
    <2>1. (i = 1 /\ a = 1) \/ i \in a + 1 .. b \/ i \in b + 1 .. Len(s)
      BY <1>1, <1>2
    <2>. QED
      BY <1>2, <2>1
  <1>. QED
    BY <1>1, <1>8, <1>9 DEF SeemsGood

\* Remainders of small numbers.
LEMMA SmallRemainders ==
    ASSUME NEW m \in Nat \ {0}, NEW n \in Int
    PROVE  /\ n \in 0 .. m - 1 => n % m = n
           /\ n < 0 /\ -m <= n => n % m = m + n
  <1>1. ASSUME n \in 0 .. m - 1 PROVE n % m = n
    BY <1>1
  <1>2. ASSUME n < 0, -m <= n PROVE n % m = m + n
    BY <1>2
  <1>. QED
    BY <1>1, <1>2

\* ToInt() and ToUint() give what the text says, if it fits.
LEMMA NumbersAreExact ==
    ASSUME NEW C, NEW s \in Seq(C)
    PROVE  NumbersExact(s)
  <1>. DEFINE h == 2 ^ (INT_BITS - 1)
              u == 2 ^ UINT_BITS
              l == Leading(s).n
  <1>1. h \in Nat /\ u \in Nat /\ 1 <= h /\ h < u
    <2>1. INT_BITS - 1 \in Nat /\ UINT_BITS \in Nat /\ INT_BITS - 1 < UINT_BITS
      BY StrUtilAssumption
    <2>. QED
      BY <2>1, PowersGrow
  <1>2. l \in Int
    BY DigitsHaveValue
  <1>3. Ints = -h .. h - 1
    BY DEF Ints
  <1>4. ToInt(s) # 0 => SeemsGood(s) /\ l \in Ints /\ ToInt(s) = l
    BY DEF ToInt, IsInt
  <1>5. ASSUME ToInt(s) # 0 PROVE Says(s, ToInt(s))
    BY <1>4, <1>5, ReadIsSaid
  <1>6. ASSUME NEW n \in Ints, Says(s, n) PROVE ToInt(s) = n
    <2>1. SeemsGood(s) /\ l = n
      BY <1>6, SaidIsRead
    <2>. QED
      BY <2>1 DEF ToInt, IsInt
  <1>7. ASSUME ToInt(s) # 0 PROVE ToUint(s) = l % u
    <2>1. l \in -(u - 1) .. u - 1
      <3>1. l \in -h .. h - 1
        BY <1>3, <1>4, <1>7
      <3>. HIDE DEF l, h, u
      <3>. QED
        BY <1>1, <1>2, <3>1
    <2>. QED
      BY <1>4, <1>7, <2>1 DEF ToUint, IsUint
  <1>8. ToInt(s) # 0 => l \in -h .. h - 1 /\ l = ToInt(s)
    BY <1>3, <1>4
  <1>. DEFINE r == ToInt(s)
  <1>9. /\ r < 0 => ToUint(s) = u + r
        /\ r > 0 => ToUint(s) = r
    <2>. HIDE DEF l, h, u, r
    <2>1. CASE r # 0
      <3>1. /\ l \in 0 .. u - 1 => l % u = l
            /\ l < 0 /\ -u <= l => l % u = u + l
        BY <1>1, <1>2, SmallRemainders
      <3>2. l = r /\ l \in -h .. h - 1 /\ ToUint(s) = l % u
        BY <1>7, <1>8, <2>1 DEF r
      <3>3. (r > 0 => l \in 0 .. u - 1) /\ -u <= l
        BY <1>1, <1>2, <3>2
      <3>. QED
        BY <3>1, <3>2, <3>3
    <2>2. CASE r = 0
      BY <2>2
    <2>. QED
      BY <2>1, <2>2
  <1>. QED
    BY <1>5, <1>6, <1>9 DEF NumbersExact

-----------------------------------------------------------------------------
(***************************************************************************)
(* Split() at the colons.                                                  *)
(***************************************************************************)
\* A text of spaces is trimmed to nothing.
LEMMA TrimOfSpaces ==
    ASSUME NEW C, NEW s \in Seq(C), \A i \in 1 .. Len(s) : s[i] = Space
    PROVE  TrimSpace(s) = <<>>
  <1>1. Kept(s) = {}
    <2>1. Kept(s) = {i \in 1 .. Len(s) : s[i] # Space}
      BY DEF Kept
    <2>. QED
      BY <2>1
  <1>2. LeftTrim(s) = <<>>
    BY <1>1 DEF LeftTrim
  <1>3. Kept(<<>>) = {}
    BY DEF Kept
  <1>4. RightTrim(<<>>) = <<>>
    BY <1>3 DEF RightTrim
  <1>. QED
    BY <1>2, <1>4 DEF TrimSpace

\* A turn of Split(s, ":", true, true).
WithPiece(pieces, piece) == IF piece = <<>> THEN pieces ELSE Append(pieces, piece)

CutsAt(whole, x, p) ==
    Cut(whole, <<":">>, TRUE, TRUE, x)
        = [beg |-> p + 1, pieces |-> WithPiece(x.pieces, TrimSpace(SubSeq(whole, x.beg, p - 1)))]

\* The turn that finds the next colon.
LEMMA NextCut ==
    ASSUME NEW C, NEW whole \in Seq(C), ":" \in C, NEW x \in Turns(C), NEW p \in x.beg .. Len(whole),
           whole[p] = ":", \A i \in x.beg .. p - 1 : whole[i] # ":"
    PROVE  CutsAt(whole, x, p)
  <1>. DEFINE loc == Find(whole, <<":">>, x.beg)
  <1>1. x.beg \in Nat \ {0}
    BY DEF Turns
  <1>2. FoundCharacter(whole, ":", x.beg, loc)
    BY <1>1, FindFindsCharacter
  <1>. HIDE DEF loc
  <1>3. /\ loc \in Nat
        /\ loc = 0 \/ (loc \in x.beg .. Len(whole) /\ whole[loc] = ":")
        /\ loc = 0 => \A i \in x.beg .. Len(whole) : whole[i] # ":"
        /\ loc # 0 => \A i \in x.beg .. loc - 1 : whole[i] # ":"
    BY <1>2 DEF FoundCharacter
  <1>4. loc = p /\ p # 0
    <2>1. loc # 0 /\ p \in Nat /\ p # 0
      BY <1>1, <1>3
    <2>2. ~(loc < p)
      <3>1. loc < p => loc \in x.beg .. p - 1
        BY <1>1, <1>3, <2>1
      <3>. QED
        BY <1>3, <2>1, <3>1
    <2>3. ~(p < loc)
      <3>1. p < loc => p \in x.beg .. loc - 1
        BY <1>1, <1>3, <2>1
      <3>. QED
        BY <1>3, <2>1, <3>1
    <2>. QED
      BY <1>3, <2>1, <2>2, <2>3
  <1>5. Len(<<":">>) = 1
    OBVIOUS
  <1>. QED
    BY <1>4, <1>5 DEF Cut, loc, NOT_FOUND, WithPiece, CutsAt

\* The turns that find none.
LEMMA NoMoreCut ==
    ASSUME NEW C, NEW whole \in Seq(C), ":" \in C, NEW x \in Turns(C),
           \A i \in x.beg .. Len(whole) : whole[i] # ":"
    PROVE  Cut(whole, <<":">>, TRUE, TRUE, x) = x
  <1>. DEFINE loc == Find(whole, <<":">>, x.beg)
  <1>1. x.beg \in Nat \ {0}
    BY DEF Turns
  <1>2. FoundCharacter(whole, ":", x.beg, loc)
    BY <1>1, FindFindsCharacter
  <1>3. loc = 0
    <2>. HIDE DEF loc
    <2>. QED
      BY <1>2 DEF FoundCharacter
  <1>. QED
    BY <1>3 DEF Cut, NOT_FOUND

\* Once a turn changes nothing, no later one does.
ColonBy(f, C, s, N) == SplitBy(f, C, s, <<":">>, TRUE, TRUE) /\ N = Len(s \o <<":">>)
Stays(s, x) == Cut(s \o <<":">>, <<":">>, TRUE, TRUE, x) = x
SplitsInto(s, pieces) == Split(s, <<":">>, TRUE, TRUE) = pieces

\* When a turn changes nothing, the rest of them do not.
LEMMA TurnsEnd ==
    ASSUME NEW C, NEW s, NEW f, NEW N \in Nat, ColonBy(f, C, s, N), NEW k \in 0 .. N, NEW x, f[k] = x,
           Stays(s, x)
    PROVE  SplitsInto(s, x.pieces)
  <1>. DEFINE T == {j \in 0 .. N : j >= k => f[j] = x}
  <1>1. k \in Nat /\ k <= N
    OBVIOUS
  <1>2. 0 \in T
    <2>1. 0 >= k => 0 = k
      BY <1>1
    <2>. QED
      BY <1>1, <2>1
  <1>3. \A j \in 1 .. N : j - 1 \in T => j \in T
    <2>. SUFFICES ASSUME NEW j \in 1 .. N, j - 1 \in T, j >= k PROVE f[j] = x
      BY <1>1
    <2>1. j - 1 >= k \/ j = k
      BY <1>1
    <2>2. f[j] = Cut(s \o <<":">>, <<":">>, TRUE, TRUE, f[j - 1])
      BY DEF ColonBy, SplitBy
    <2>3. j - 1 >= k => f[j - 1] = x
      OBVIOUS
    <2>. QED
      BY <2>1, <2>2, <2>3 DEF Stays
  <1>. HIDE DEF T
  <1>4. \A j \in 0 .. N : j \in T
    BY <1>1, <1>2, <1>3, InductionUpTo
  <1>5. f[N] = x
    <2>1. N \in T /\ N >= k
      BY <1>1, <1>4
    <2>. QED
      BY <2>1 DEF T
  <1>. QED
    BY <1>5 DEF ColonBy, SplitBy, SplitsInto

\* What is split, character by character.
LEMMA WholeOf ==
    ASSUME NEW C, ":" \in C, NEW s \in Seq(C), NEW whole, whole = s \o <<":">>
    PROVE  /\ whole \in Seq(C) /\ Len(whole) = Len(s) + 1 /\ Len(s) \in Nat
           /\ \A i \in 1 .. Len(s) : whole[i] = s[i]
           /\ whole[Len(s) + 1] = ":"
           /\ \A m \in Nat \ {0}, n \in Nat : m <= n + 1 /\ n <= Len(s) =>
                  SubSeq(whole, m, n) = SubSeq(s, m, n)
  <1>1. <<":">> \in Seq(C) /\ Len(<<":">>) = 1 /\ <<":">>[1] = ":" /\ s \in Seq(C) /\ Len(s) \in Nat
    OBVIOUS
  <1>2. /\ whole \in Seq(C) /\ Len(whole) = Len(s) + 1
        /\ \A i \in 1 .. Len(s) : whole[i] = s[i]
        /\ whole[Len(s) + 1] = ":"
    BY <1>1, ConcatProperties
  <1>3. ASSUME NEW m \in Nat \ {0}, NEW n \in Nat, m <= n + 1, n <= Len(s)
        PROVE  SubSeq(whole, m, n) = SubSeq(s, m, n)
    <2>. DEFINE a == SubSeq(whole, m, n)
                b == SubSeq(s, m, n)
    <2>1. n <= Len(whole)
      BY <1>1, <1>2, <1>3
    <2>2. IsPart(a, C, whole, m, n) /\ IsPart(b, C, s, m, n)
      <3>1. IsPart(a, C, whole, m, n)
        BY <1>2, <1>3, <2>1, Part
      <3>2. IsPart(b, C, s, m, n)
        BY <1>3, Part
      <3>. QED
        BY <3>1, <3>2
    <2>. HIDE DEF a, b
    <2>3. \A i \in 1 .. n - m + 1 : a[i] = b[i]
      <3>1. \A i \in 1 .. n - m + 1 : m + i - 1 \in 1 .. Len(s)
        BY <1>1, <1>3
      <3>. QED
        BY <1>2, <2>2, <3>1 DEF IsPart
    <2>4. a = b
      <3>1. a \in Seq(C) /\ b \in Seq(C) /\ Len(a) = n - m + 1 /\ Len(b) = n - m + 1
        BY <2>2 DEF IsPart
      <3>. QED
        BY <2>3, <3>1, SeqEqual
    <2>. QED
      BY <2>4 DEF a, b
  <1>. QED
    BY <1>1, <1>2, <1>3

\* Pieces of colons and spaces are empty.
LEMMA NothingToSplit ==
    ASSUME NEW C, ":" \in C, NEW s \in Seq(C), \A i \in 1 .. Len(s) : s[i] \in {":", Space}
    PROVE  Split(s, <<":">>, TRUE, TRUE) = <<>>
  <1>. DEFINE whole == s \o <<":">>
              N == Len(whole)
  <1>1. /\ whole \in Seq(C) /\ N = Len(s) + 1 /\ Len(s) \in Nat
        /\ \A i \in 1 .. Len(s) : whole[i] = s[i]
        /\ whole[Len(s) + 1] = ":"
    BY WholeOf
  <1>2. PICK f : SplitBy(f, C, s, <<":">>, TRUE, TRUE)
    <2>1. <<":">> \in Seq(C)
      OBVIOUS
    <2>. QED
      BY <2>1, SplitIsRecursive
  <1>3. /\ f \in [0 .. N -> Turns(C)] /\ f[0] = [beg |-> 1, pieces |-> <<>>]
        /\ \A k \in 1 .. N : f[k] = Cut(whole, <<":">>, TRUE, TRUE, f[k - 1])
        /\ Split(s, <<":">>, TRUE, TRUE) = f[N].pieces
    BY <1>2 DEF SplitBy
  <1>. HIDE DEF whole, N
  <1>. DEFINE T == {k \in 0 .. N : f[k].pieces = <<>>}
  <1>4. 0 \in T /\ N \in Nat
    BY <1>1, <1>3
  <1>5. \A k \in 1 .. N : k - 1 \in T => k \in T
    <2>. SUFFICES ASSUME NEW k \in 1 .. N, k - 1 \in T PROVE f[k].pieces = <<>>
      BY <1>4
    <2>. DEFINE x == f[k - 1]
    <2>1. x \in Turns(C) /\ x.pieces = <<>> /\ f[k] = Cut(whole, <<":">>, TRUE, TRUE, x)
      BY <1>3
    <2>. HIDE DEF x
    <2>2. x.beg \in Nat \ {0}
      BY <2>1 DEF Turns
    <2>3. CASE \A i \in x.beg .. Len(whole) : whole[i] # ":"
      BY <1>1, <2>1, <2>3, NoMoreCut
    <2>4. CASE \E i \in x.beg .. Len(whole) : whole[i] = ":"
      <3>. DEFINE p == Find(whole, <<":">>, x.beg)
      <3>1. FoundCharacter(whole, ":", x.beg, p)
        BY <1>1, <2>2, FindFindsCharacter
      <3>. HIDE DEF p
      <3>2. /\ p \in x.beg .. Len(whole) /\ whole[p] = ":"
            /\ \A i \in x.beg .. p - 1 : whole[i] # ":"
        <4>1. p # 0
          BY <2>4, <3>1 DEF FoundCharacter
        <4>. QED
          BY <3>1, <4>1 DEF FoundCharacter
      <3>. DEFINE sub == SubSeq(whole, x.beg, p - 1)
      <3>3. TrimSpace(sub) = <<>>
        <4>1. x.beg <= p - 1 + 1 /\ p - 1 \in Nat /\ p - 1 <= Len(s) /\ p - 1 <= Len(whole)
          BY <1>1, <2>2, <3>2 DEF N
        <4>2. IsPart(sub, C, whole, x.beg, p - 1)
          <5>. DEFINE q == p - 1
          <5>. HIDE DEF q
          <5>1. x.beg <= q + 1 /\ q \in Nat /\ q <= Len(whole)
            BY <4>1 DEF q
          <5>2. IsPart(SubSeq(whole, x.beg, q), C, whole, x.beg, q)
            BY <1>1, <2>2, <5>1, Part
          <5>. QED
            BY <5>2 DEF q
        <4>. HIDE DEF sub
        <4>3. \A i \in 1 .. Len(sub) : sub[i] = Space
          <5>1. ASSUME NEW i \in 1 .. Len(sub)
                PROVE  x.beg + i - 1 \in x.beg .. p - 1 /\ x.beg + i - 1 \in 1 .. Len(s)
                       /\ sub[i] = whole[x.beg + i - 1]
            <6>1. Len(sub) = p - 1 - x.beg + 1 /\ \A j \in 1 .. p - 1 - x.beg + 1 : sub[j] = whole[x.beg + j - 1]
              BY <4>2 DEF IsPart
            <6>2. p \in Nat /\ Len(sub) \in Nat /\ i \in 1 .. p - 1 - x.beg + 1 /\ x.beg \in Nat
              BY <2>2, <3>1, <4>2, <6>1 DEF FoundCharacter, IsPart
            <6>3. x.beg + i - 1 \in x.beg .. p - 1 /\ x.beg + i - 1 \in 1 .. Len(s)
              <7>1. Len(s) \in Nat /\ x.beg >= 1 /\ p - 1 <= Len(s)
                BY <1>1, <2>2, <4>1
              <7>. DEFINE beg == x.beg
              <7>. HIDE DEF T, beg
              <7>2. /\ beg \in Nat /\ beg >= 1 /\ i \in 1 .. p - 1 - beg + 1
                    /\ p \in Nat /\ p - 1 <= Len(s) /\ Len(s) \in Nat
                BY <6>2, <7>1 DEF beg
              <7>3. i \in Int /\ 1 <= i /\ i <= p - beg
                BY <7>2
              <7>4. beg + i - 1 \in beg .. p - 1 /\ beg + i - 1 \in 1 .. Len(s)
                BY <7>2, <7>3
              <7>. QED
                BY <7>4 DEF beg
            <6>. QED
              BY <6>1, <6>2, <6>3
          <5>2. \A i \in 1 .. Len(s) : whole[i] = ":" \/ whole[i] = Space
            BY <1>1
          <5>. QED
            BY <3>2, <5>1, <5>2
        <4>4. sub \in Seq(C)
          BY <4>2 DEF IsPart
        <4>. QED
          BY <4>3, <4>4, TrimOfSpaces
      <3>4. f[k] = [beg |-> p + 1, pieces |-> WithPiece(x.pieces, TrimSpace(sub))]
        <4>1. CutsAt(whole, x, p)
          BY <1>1, <2>1, <3>2, NextCut
        <4>. QED
          BY <2>1, <4>1 DEF CutsAt
      <3>. HIDE DEF sub
      <3>5. f[k].pieces = WithPiece(x.pieces, TrimSpace(sub))
        BY <3>4
      <3>. QED
        BY <2>1, <3>3, <3>5 DEF WithPiece
    <2>. QED
      BY <2>3, <2>4
  <1>. HIDE DEF T
  <1>6. \A k \in 0 .. N : k \in T
    BY <1>4, <1>5, InductionUpTo
  <1>7. N \in T
    BY <1>4, <1>6
  <1>. QED
    BY <1>3, <1>7 DEF T

\* A text with no colon is one piece.
LEMMA OneToSplit ==
    ASSUME NEW C, ":" \in C, NEW s \in Seq(C), \A i \in 1 .. Len(s) : s[i] # ":"
    PROVE  Split(s, <<":">>, TRUE, TRUE) = WithPiece(<<>>, TrimSpace(s))
  <1>. DEFINE t == <<":">>
              whole == s \o t
              z == [beg |-> 1, pieces |-> <<>>]
              x == [beg |-> Len(s) + 2, pieces |-> WithPiece(<<>>, TrimSpace(s))]
  <1>1. /\ whole \in Seq(C) /\ Len(whole) = Len(s) + 1 /\ Len(s) \in Nat
        /\ \A i \in 1 .. Len(s) : whole[i] = s[i]
        /\ whole[Len(s) + 1] = ":"
        /\ SubSeq(whole, 1, Len(s)) = SubSeq(s, 1, Len(s))
    BY WholeOf
  <1>2. t \in Seq(C)
    OBVIOUS
  <1>3. PICK f : SplitBy(f, C, s, t, TRUE, TRUE)
    BY <1>2, SplitIsRecursive
  <1>4. z \in Turns(C) /\ x \in Turns(C)
    <2>1. TrimSpace(s) \in Seq(C)
      BY TrimKeeps
    <2>2. WithPiece(<<>>, TrimSpace(s)) \in Seq(Seq(C))
      BY <2>1 DEF WithPiece
    <2>3. 1 \in Nat \ {0} /\ Len(s) + 2 \in Nat \ {0} /\ <<>> \in Seq(Seq(C))
      BY <1>1
    <2>. QED
      BY <2>2, <2>3 DEF Turns
  <1>5. f[0] = z /\ f[1] = Cut(whole, t, TRUE, TRUE, f[0])
    <2>1. 1 \in 1 .. Len(whole) /\ 1 - 1 = 0
      BY <1>1
    <2>. QED
      BY <1>3, <2>1 DEF SplitBy
  <1>6. SubSeq(s, 1, Len(s)) = s
    BY SubSeqFull
  <1>. HIDE DEF whole, t
  <1>7. Cut(whole, t, TRUE, TRUE, z) = x
    <2>. DEFINE p == Len(s) + 1
    <2>1. /\ p \in z.beg .. Len(whole) /\ whole[p] = ":" /\ p - 1 = Len(s) /\ p + 1 = Len(s) + 2
          /\ \A i \in z.beg .. p - 1 : whole[i] # ":"
      BY <1>1
    <2>. HIDE DEF p
    <2>2. Cut(whole, t, TRUE, TRUE, z)
              = [beg |-> p + 1, pieces |-> WithPiece(z.pieces, TrimSpace(SubSeq(whole, z.beg, p - 1)))]
      <3>. HIDE DEF z
      <3>1. CutsAt(whole, z, p)
        BY <1>1, <1>4, <2>1, NextCut
      <3>. QED
        BY <3>1 DEF CutsAt, t
    <2>3. z.beg = 1 /\ z.pieces = <<>>
      OBVIOUS
    <2>4. SubSeq(whole, z.beg, p - 1) = s
      BY <1>1, <1>6, <2>1, <2>3
    <2>. QED
      BY <2>1, <2>2, <2>3, <2>4
  <1>8. Cut(whole, t, TRUE, TRUE, x) = x
    <2>1. \A i \in x.beg .. Len(whole) : whole[i] # ":"
      BY <1>1
    <2>. HIDE DEF x
    <2>. QED
      BY <1>1, <1>4, <2>1, NoMoreCut DEF t
  <1>9. Split(s, t, TRUE, TRUE) = x.pieces
    <2>. HIDE DEF z, x
    <2>1. f[1] = x /\ Cut(whole, t, TRUE, TRUE, f[1]) = f[1]
      BY <1>5, <1>7, <1>8
    <2>. DEFINE N == Len(whole)
    <2>2. N \in Nat /\ 1 \in 0 .. N
      BY <1>1
    <2>3. ColonBy(f, C, s, N) /\ Stays(s, x)
      BY <1>3, <1>8 DEF ColonBy, Stays, whole, t
    <2>. HIDE DEF N
    <2>4. SplitsInto(s, x.pieces)
      BY <2>1, <2>2, <2>3, TurnsEnd
    <2>. QED
      BY <2>4 DEF SplitsInto, t
  <1>. QED
    BY <1>9 DEF t

\* A text with one colon is two pieces, of which the empty ones are left out.
LEMMA TwoToSplit ==
    ASSUME NEW C, ":" \in C, NEW s \in Seq(C), NEW i \in 1 .. Len(s), s[i] = ":",
           \A j \in 1 .. Len(s) : s[j] = ":" => j = i
    PROVE  Split(s, <<":">>, TRUE, TRUE)
               = WithPiece(WithPiece(<<>>, TrimSpace(SubSeq(s, 1, i - 1))), TrimSpace(SubSeq(s, i + 1, Len(s))))
  <1>. DEFINE t == <<":">>
              whole == s \o t
              host == SubSeq(s, 1, i - 1)
              port == SubSeq(s, i + 1, Len(s))
              z == [beg |-> 1, pieces |-> <<>>]
              y == [beg |-> i + 1, pieces |-> WithPiece(<<>>, TrimSpace(host))]
              x == [beg |-> Len(s) + 2, pieces |-> WithPiece(y.pieces, TrimSpace(port))]
  <1>1. Len(s) \in Nat /\ i \in Nat \ {0} /\ i - 1 \in Nat /\ i + 1 \in Nat \ {0} /\ i <= Len(s)
    OBVIOUS
  <1>2. /\ whole \in Seq(C) /\ Len(whole) = Len(s) + 1
        /\ \A j \in 1 .. Len(s) : whole[j] = s[j]
        /\ whole[Len(s) + 1] = ":"
        /\ \A m \in Nat \ {0}, n \in Nat : m <= n + 1 /\ n <= Len(s) =>
               SubSeq(whole, m, n) = SubSeq(s, m, n)
    BY WholeOf
  <1>3. t \in Seq(C)
    OBVIOUS
  <1>4. PICK f : SplitBy(f, C, s, t, TRUE, TRUE)
    BY <1>3, SplitIsRecursive
  <1>. HIDE DEF host, port
  <1>5. z \in Turns(C) /\ y \in Turns(C) /\ x \in Turns(C)
    <2>1. host \in Seq(C) /\ port \in Seq(C)
      <3>1. IsPart(host, C, s, 1, i - 1)
        <4>1. 1 \in Nat \ {0} /\ 1 <= i - 1 + 1 /\ i - 1 <= Len(s)
          BY <1>1
        <4>. QED
          BY <1>1, <4>1, Part DEF host
      <3>2. IsPart(port, C, s, i + 1, Len(s))
        <4>1. i + 1 <= Len(s) + 1 /\ Len(s) <= Len(s)
          BY <1>1
        <4>. QED
          BY <1>1, <4>1, Part DEF port
      <3>. QED
        BY <3>1, <3>2 DEF IsPart
    <2>2. TrimSpace(host) \in Seq(C) /\ TrimSpace(port) \in Seq(C)
      BY <2>1, TrimKeeps
    <2>3. \A p \in Seq(Seq(C)), q \in Seq(C) : WithPiece(p, q) \in Seq(Seq(C))
      BY DEF WithPiece
    <2>4. 1 \in Nat \ {0} /\ i + 1 \in Nat \ {0} /\ Len(s) + 2 \in Nat \ {0} /\ <<>> \in Seq(Seq(C))
      BY <1>1
    <2>. QED
      BY <2>2, <2>3, <2>4 DEF Turns
  <1>6. f[0] = z /\ f[1] = Cut(whole, t, TRUE, TRUE, f[0]) /\ f[2] = Cut(whole, t, TRUE, TRUE, f[1])
    <2>1. 1 \in 1 .. Len(whole) /\ 2 \in 1 .. Len(whole) /\ 1 - 1 = 0 /\ 2 - 1 = 1
      BY <1>1, <1>2
    <2>. QED
      BY <1>4, <2>1 DEF SplitBy
  <1>. HIDE DEF whole, t
  <1>7. Cut(whole, t, TRUE, TRUE, z) = y
    <2>1. /\ i \in z.beg .. Len(whole) /\ whole[i] = ":"
          /\ \A j \in z.beg .. i - 1 : whole[j] # ":"
      <3>1. \A j \in 1 .. i - 1 : j \in 1 .. Len(s) /\ j # i
        BY <1>1
      <3>2. i \in 1 .. Len(whole)
        BY <1>1, <1>2
      <3>. QED
        BY <1>2, <3>1, <3>2
    <2>2. Cut(whole, t, TRUE, TRUE, z)
              = [beg |-> i + 1, pieces |-> WithPiece(z.pieces, TrimSpace(SubSeq(whole, z.beg, i - 1)))]
      <3>. HIDE DEF z
      <3>1. CutsAt(whole, z, i)
        BY <1>2, <1>5, <2>1, NextCut
      <3>. QED
        BY <3>1 DEF CutsAt, t
    <2>3. z.beg = 1 /\ z.pieces = <<>>
      OBVIOUS
    <2>4. SubSeq(whole, 1, i - 1) = host
      <3>1. 1 \in Nat \ {0} /\ 1 <= i - 1 + 1 /\ i - 1 <= Len(s)
        BY <1>1
      <3>. QED
        BY <1>1, <1>2, <3>1 DEF host
    <2>. QED
      BY <2>2, <2>3, <2>4
  <1>8. Cut(whole, t, TRUE, TRUE, y) = x
    <2>. DEFINE p == Len(s) + 1
    <2>1. /\ p \in y.beg .. Len(whole) /\ whole[p] = ":" /\ p - 1 = Len(s) /\ p + 1 = Len(s) + 2
          /\ \A j \in y.beg .. p - 1 : whole[j] # ":"
      <3>1. \A j \in i + 1 .. Len(s) : j \in 1 .. Len(s) /\ j # i
        BY <1>1
      <3>2. p \in i + 1 .. Len(whole) /\ p - 1 = Len(s) /\ p + 1 = Len(s) + 2
        BY <1>1, <1>2
      <3>. QED
        BY <1>2, <3>1, <3>2
    <2>. HIDE DEF p
    <2>2. Cut(whole, t, TRUE, TRUE, y)
              = [beg |-> p + 1, pieces |-> WithPiece(y.pieces, TrimSpace(SubSeq(whole, y.beg, p - 1)))]
      <3>. HIDE DEF y
      <3>1. CutsAt(whole, y, p)
        BY <1>2, <1>5, <2>1, NextCut
      <3>. QED
        BY <3>1 DEF CutsAt, t
    <2>3. y.beg = i + 1
      OBVIOUS
    <2>4. SubSeq(whole, i + 1, Len(s)) = port
      <3>1. i + 1 <= Len(s) + 1 /\ Len(s) <= Len(s)
        BY <1>1
      <3>. QED
        BY <1>1, <1>2, <3>1 DEF port
    <2>. HIDE DEF y
    <2>. QED
      BY <2>1, <2>2, <2>3, <2>4
  <1>9. Cut(whole, t, TRUE, TRUE, x) = x
    <2>1. \A j \in x.beg .. Len(whole) : whole[j] # ":"
      <3>1. x.beg = Len(s) + 2
        OBVIOUS
      <3>. HIDE DEF x
      <3>. QED
        BY <1>1, <1>2, <3>1
    <2>. HIDE DEF x
    <2>. QED
      BY <1>2, <1>5, <2>1, NoMoreCut DEF t
  <1>10. Split(s, t, TRUE, TRUE) = x.pieces
    <2>. HIDE DEF z, y, x
    <2>1. f[2] = x /\ Cut(whole, t, TRUE, TRUE, f[2]) = f[2]
      BY <1>6, <1>7, <1>8, <1>9
    <2>. DEFINE N == Len(whole)
    <2>2. N \in Nat /\ 2 \in 0 .. N
      BY <1>1, <1>2
    <2>3. ColonBy(f, C, s, N) /\ Stays(s, x)
      BY <1>4, <1>9 DEF ColonBy, Stays, whole, t
    <2>. HIDE DEF N
    <2>4. SplitsInto(s, x.pieces)
      BY <2>1, <2>2, <2>3, TurnsEnd
    <2>. QED
      BY <2>4 DEF SplitsInto, t
  <1>. QED
    BY <1>10 DEF t, host, port

\* A text that is not empty is not after its replacements.
LEMMA WithIsNotEmpty ==
    ASSUME NEW C, NEW s \in Seq(C), s # <<>>, NEW c, NEW w \in Seq(C), w # <<>>
    PROVE  With(s, c, w) # <<>>
  <1>1. PICK r : WithBy(r, C, s, c, w)
    BY WithIsRecursive
  <1>. DEFINE n == Len(s)
              v == IF s[n] = c THEN w ELSE <<s[n]>>
  <1>2. n \in 1 .. n /\ n - 1 \in 0 .. n /\ n \in Nat
    BY EmptySeq
  <1>3. v \in Seq(C) /\ Len(v) # 0
    BY <1>2, ElementOfSeq, EmptySeq
  <1>4. r[n] = r[n - 1] \o v /\ r[n - 1] \in Seq(C)
    BY <1>1, <1>2 DEF WithBy
  <1>5. Len(r[n]) = Len(r[n - 1]) + Len(v)
    <2>. HIDE DEF v, n
    <2>. QED
      BY <1>3, <1>4, ConcatProperties
  <1>6. Len(r[n]) # 0
    <2>. HIDE DEF v, n
    <2>1. Len(v) \in Nat /\ Len(r[n - 1]) \in Nat
      BY <1>3, <1>4
    <2>. QED
      BY <1>3, <1>5, <2>1
  <1>. QED
    BY <1>1, <1>6 DEF WithBy

-----------------------------------------------------------------------------
(***************************************************************************)
(* Ipv4Address::set().                                                     *)
(***************************************************************************)
\* Pieces that are no address leave it as it is, one gives a host and no port.
Parsed(old, pieces, new) ==
    /\ Len(pieces) = 1 => new = [ip |-> ReplaceAll(pieces[1], <<"*">>, <<"2", "5", "5">>), port |-> 0]
    /\ Len(pieces) = 2 => new = [ip |-> ReplaceAll(pieces[1], <<"*">>, <<"2", "5", "5">>),
                                 port |-> ToInt(pieces[2]) % 2 ^ PORT_BITS]
    /\ Len(pieces) # 1 /\ Len(pieces) # 2 => new = old

\* Ipv4Address::set() by the number of pieces.
LEMMA ParsedPieces ==
    ASSUME NEW s, NEW old, NEW pieces, SplitsInto(s, pieces)
    PROVE  Parsed(old, pieces, ParseIpv4(old, s))
  <1>. DEFINE One(v) == [ip |-> ReplaceAll(v[1], <<"*">>, <<"2", "5", "5">>), port |-> 0]
              Two(v) == [ip |-> ReplaceAll(v[1], <<"*">>, <<"2", "5", "5">>),
                         port |-> ToInt(v[2]) % 2 ^ PORT_BITS]
              new == ParseIpv4(old, s)
  <1>1. new = CASE Len(pieces) = 1 -> One(pieces) [] Len(pieces) = 2 -> Two(pieces) [] OTHER -> old
    BY Zenon DEF SplitsInto, ParseIpv4
  <1>. HIDE DEF One, Two, new
  <1>2. /\ Len(pieces) = 1 => new = One(pieces)
        /\ Len(pieces) = 2 => new = Two(pieces)
        /\ Len(pieces) # 1 /\ Len(pieces) # 2 => new = old
    <2>1. CASE Len(pieces) = 1
      BY <1>1, <2>1
    <2>2. CASE Len(pieces) = 2
      BY <1>1, <2>2
    <2>3. CASE Len(pieces) # 1 /\ Len(pieces) # 2
      BY <1>1, <2>3
    <2>. QED
      BY <2>1, <2>2, <2>3
  <1>. QED
    BY <1>2, Zenon DEF Parsed, One, Two, new

\* An address gives its host and its port.
LEMMA AddressesAreExact ==
    ASSUME NEW C, {":", "*", "2", "5"} \subseteq C, NEW s \in Seq(C), NEW old
    PROVE  AddressExact(s, old)
  <1>. DEFINE new == ParseIpv4(old, s)
              parts == {i \in DOMAIN s : s[i] = ":"}
              w == <<"2", "5", "5">>
  <1>1. DOMAIN s = 1 .. Len(s) /\ Len(s) \in Nat /\ ":" \in C /\ "*" \in C /\ w \in Seq(C) /\ w # <<>>
    <2>1. w \in Seq(C)
      OBVIOUS
    <2>2. Len(w) = 3 /\ Len(<<>>) = 0
      OBVIOUS
    <2>. QED
      BY <2>1, <2>2
  <1>2. \A p : p \in Seq(C) => ReplaceAll(p, <<"*">>, w) = With(p, "*", w)
    <2>. HIDE DEF w
    <2>. QED
      BY <1>1, ReplacesAreExact
  <1>3. ASSUME \A i \in DOMAIN s : s[i] \in {":", Space} PROVE new = old
    <2>1. SplitsInto(s, <<>>)
      BY <1>1, <1>3, NothingToSplit DEF SplitsInto
    <2>2. Parsed(old, <<>>, new) /\ Len(<<>>) = 0
      BY <2>1, ParsedPieces
    <2>. HIDE DEF new
    <2>. QED
      BY <2>2 DEF Parsed
  <1>4. ASSUME parts = {}, TrimSpace(s) # <<>> PROVE new.port = 0 /\ new.ip # <<>>
    <2>. DEFINE host == TrimSpace(s)
    <2>1. host \in Seq(C)
      BY TrimKeeps
    <2>2. SplitsInto(s, <<host>>)
      <3>1. \A i \in 1 .. Len(s) : s[i] # ":"
        BY <1>1, <1>4
      <3>2. Split(s, <<":">>, TRUE, TRUE) = WithPiece(<<>>, host)
        BY <1>1, <3>1, OneToSplit
      <3>3. WithPiece(<<>>, host) = <<host>>
        <4>. HIDE DEF host
        <4>1. Append(<<>>, host) = <<host>>
          OBVIOUS
        <4>. QED
          BY <1>4, <4>1 DEF WithPiece, host
      <3>. HIDE DEF host
      <3>. QED
        BY <3>2, <3>3 DEF SplitsInto
    <2>. HIDE DEF host
    <2>3. Parsed(old, <<host>>, new) /\ Len(<<host>>) = 1 /\ <<host>>[1] = host
      BY <2>2, ParsedPieces
    <2>. HIDE DEF new, w
    <2>4. new = [ip |-> With(host, "*", w), port |-> 0]
      BY <1>2, <2>1, <2>3 DEF Parsed, w
    <2>5. With(host, "*", w) # <<>>
      BY <1>1, <1>4, <2>1, WithIsNotEmpty DEF host
    <2>. QED
      BY <2>4, <2>5
  <1>5. ASSUME NEW i \in parts, parts = {i},
               NEW host, host = TrimSpace(SubSeq(s, 1, i - 1)),
               NEW port, port = TrimSpace(From(s, i + 1))
        PROVE  IF host # <<>> /\ port # <<>>
               THEN new.ip = With(host, "*", w) /\ new.port = ToInt(port) % 2 ^ PORT_BITS
               ELSE new = old \/ new.port = 0
    <2>1. i \in 1 .. Len(s) /\ s[i] = ":" /\ \A j \in 1 .. Len(s) : s[j] = ":" => j = i
      BY <1>1, <1>5
    <2>2. SplitsInto(s, WithPiece(WithPiece(<<>>, host), port))
      <3>1. Split(s, <<":">>, TRUE, TRUE)
                = WithPiece(WithPiece(<<>>, TrimSpace(SubSeq(s, 1, i - 1))), TrimSpace(SubSeq(s, i + 1, Len(s))))
        BY <1>1, <2>1, TwoToSplit
      <3>. QED
        BY <1>5, <3>1 DEF SplitsInto, From
    <2>. DEFINE pieces == WithPiece(WithPiece(<<>>, host), port)
    <2>3. Parsed(old, pieces, new)
      BY <2>2, ParsedPieces
    <2>. HIDE DEF new
    <2>4. CASE host # <<>> /\ port # <<>>
      <3>1. pieces = <<host, port>>
        <4>1. Append(<<>>, host) = <<host>>
          OBVIOUS
        <4>2. Append(<<host>>, port) = <<host, port>>
          <5>. DEFINE S == {host, port}
          <5>1. <<host>> \in Seq(S) /\ port \in S /\ <<host, port>> \in Seq(S)
            OBVIOUS
          <5>. HIDE DEF S
          <5>2. Append(<<host>>, port) \in Seq(S) /\ Len(Append(<<host>>, port)) = 2
            BY <5>1, AppendProperties
          <5>3. Append(<<host>>, port)[1] = host /\ Append(<<host>>, port)[2] = port
            BY <5>1, AppendProperties
          <5>. DEFINE a == Append(<<host>>, port)
                      b == <<host, port>>
          <5>4. /\ a \in Seq(S) /\ Len(a) = 2 /\ a[1] = host /\ a[2] = port
                /\ b \in Seq(S) /\ Len(b) = 2 /\ b[1] = host /\ b[2] = port
            BY <5>1, <5>2, <5>3
          <5>. HIDE DEF a, b
          <5>5. a = b
            <6>1. \A j \in 1 .. 2 : j = 1 \/ j = 2
              OBVIOUS
            <6>. QED
              BY <5>4, <6>1, SeqEqual
          <5>. QED
            BY <5>5 DEF a, b
        <4>. QED
          BY <2>4, <4>1, <4>2 DEF WithPiece
      <3>2. Len(<<host, port>>) = 2 /\ <<host, port>>[1] = host /\ <<host, port>>[2] = port
        OBVIOUS
      <3>3. host \in Seq(C)
        <4>1. IsPart(SubSeq(s, 1, i - 1), C, s, 1, i - 1)
          <5>1. 1 \in Nat \ {0} /\ i - 1 \in Nat /\ 1 <= i - 1 + 1 /\ i - 1 <= Len(s)
            BY <1>1, <2>1
          <5>. QED
            BY <5>1, Part
        <4>2. SubSeq(s, 1, i - 1) \in Seq(C)
          BY <4>1 DEF IsPart
        <4>. QED
          BY <1>5, <4>2, TrimKeeps
      <3>. HIDE DEF pieces, w
      <3>4. new = [ip |-> With(host, "*", w), port |-> ToInt(port) % 2 ^ PORT_BITS]
        BY <1>2, <2>3, <3>1, <3>2, <3>3 DEF Parsed, w
      <3>. QED
        BY <2>4, <3>4
    <2>5. CASE host = <<>> \/ port = <<>>
      <3>1. Len(pieces) # 2
        <4>1. \A p : Append(<<>>, p) = <<p>> /\ Len(<<p>>) = 1
          OBVIOUS
        <4>2. Len(<<>>) = 0
          OBVIOUS
        <4>. QED
          BY <2>5, <4>1, <4>2 DEF WithPiece
      <3>. HIDE DEF pieces
      <3>2. new = old \/ new.port = 0
        BY <2>3, <3>1 DEF Parsed
      <3>. QED
        BY <2>5, <3>2
    <2>. QED
      BY <2>4, <2>5
  <1>6. \A i \in parts : parts = {i} =>
            LET host == TrimSpace(SubSeq(s, 1, i - 1))
                port == TrimSpace(From(s, i + 1))
            IN IF host # <<>> /\ port # <<>>
               THEN new.ip = With(host, "*", w) /\ new.port = ToInt(port) % 2 ^ PORT_BITS
               ELSE new = old \/ new.port = 0
    BY <1>5
  <1>7. \A n : n \in 0 .. 2 ^ PORT_BITS - 1 => n % 2 ^ PORT_BITS = n
    <2>. DEFINE u == 2 ^ PORT_BITS
    <2>1. u \in Nat /\ 1 <= u
      <3>. DEFINE m == PORT_BITS
                  n == PORT_BITS + 1
      <3>1. m \in Nat /\ n \in Nat /\ m < n
        BY StrUtilAssumption
      <3>. HIDE DEF m, n
      <3>2. 2 ^ m \in Nat /\ 1 <= 2 ^ m
        BY <3>1, PowersGrow
      <3>. QED
        BY <3>2 DEF m
    <2>. HIDE DEF u
    <2>2. \A n : n \in 0 .. u - 1 => n % u = n
      BY <2>1
    <2>. QED
      BY <2>2 DEF u
  <1>. HIDE DEF new
  <1>8. \A i \in parts : parts = {i} =>
            LET host == TrimSpace(SubSeq(s, 1, i - 1))
                port == TrimSpace(From(s, i + 1))
            IN IF host # <<>> /\ port # <<>>
               THEN /\ new.ip = With(host, "*", w)
                    /\ ToInt(port) \in 0 .. 2 ^ PORT_BITS - 1 => new.port = ToInt(port)
               ELSE new = old \/ new.port = 0
    BY <1>6, <1>7, ZenonT(30)
  <1>. QED
    BY <1>3, <1>4, <1>8, ZenonT(30) DEF AddressExact, new

-----------------------------------------------------------------------------
(***************************************************************************)
(* FixedLength: the fields of the buffer.                                  *)
(***************************************************************************)
\* Where the fields are: in the buffer, apart from each other.
Begin(f) == PositionOf(f) + 1
End(f) == PositionOf(f) + LengthOf(f)

\* The fields lie in the buffer one after the other.
LEMMA FieldsApart ==
    /\ FieldCount \in Nat \ {0} /\ LastEnum \in FieldsOf /\ LastEnum \in Nat /\ FixedLength \in Nat
    /\ \A f \in FieldsOf : /\ f \in Nat /\ PositionOf(f) \in Nat /\ LengthOf(f) \in Nat \ {0}
                           /\ Begin(f) \in Nat \ {0} /\ End(f) \in Nat /\ Begin(f) <= End(f)
                           /\ End(f) <= FixedLength /\ End(f) = Begin(f) + LengthOf(f) - 1
                           /\ Begin(f) = PositionOf(f) + 1
                           /\ f # 0 => PositionOf(f) # 0
    /\ 0 \in FieldsOf /\ PositionOf(0) = 0
    /\ \A f, g \in FieldsOf : f < g => End(f) < Begin(g)
  <1>. DEFINE P == PosLenOfField
              n == FieldCount
  <1>1. n \in Nat \ {0} /\ n = Len(P) /\ DOMAIN P = 1 .. n
    <2>1. P # <<>> /\ P \in Seq([pos : Nat \ {0}, len : Nat \ {0}])
      BY FixedLengthAssumption
    <2>. QED
      BY <2>1, EmptySeq DEF FieldCount
  <1>2. \A k \in 1 .. n : P[k].pos \in Nat \ {0} /\ P[k].len \in Nat \ {0}
    <2>. DEFINE S == [pos : Nat \ {0}, len : Nat \ {0}]
    <2>1. P \in Seq(S)
      BY FixedLengthAssumption
    <2>2. \A k \in 1 .. n : P[k] \in S
      <3>. HIDE DEF S, P
      <3>. QED
        BY <1>1, <2>1, ElementOfSeq
    <2>. QED
      BY <2>2
  <1>3. P[1].pos = 1 /\ \A j, k \in 1 .. n : j < k => P[j].pos + P[j].len <= P[k].pos
    BY <1>1, FixedLengthAssumption
  <1>4. LastEnum = n - 1 /\ FieldsOf = 0 .. n - 1
    BY DEF LastEnum, FieldsOf
  <1>5. \A f \in FieldsOf : PositionOf(f) = P[f + 1].pos - 1 /\ LengthOf(f) = P[f + 1].len
    BY DEF PositionOf, LengthOf
  <1>6. LastEnum \in FieldsOf /\ LastEnum \in Nat /\ 0 \in FieldsOf /\ LastEnum + 1 = n
    BY <1>1, <1>4
  <1>7. FixedLength = P[n].pos + P[n].len - 1
    BY <1>3, <1>5, <1>6 DEF FixedLength
  <1>. HIDE DEF P, n
  <1>8. FixedLength \in Nat
    BY <1>1, <1>2, <1>7
  <1>9. ASSUME NEW f \in FieldsOf
        PROVE  /\ f \in Nat /\ PositionOf(f) \in Nat /\ LengthOf(f) \in Nat \ {0}
               /\ Begin(f) \in Nat \ {0} /\ End(f) \in Nat /\ Begin(f) <= End(f)
               /\ End(f) <= FixedLength /\ End(f) = Begin(f) + LengthOf(f) - 1
               /\ Begin(f) = PositionOf(f) + 1
               /\ f # 0 => PositionOf(f) # 0
    <2>1. f \in Nat /\ f + 1 \in 1 .. n
      BY <1>1, <1>4
    <2>2. /\ P[f + 1].pos \in Nat \ {0} /\ P[f + 1].len \in Nat \ {0}
          /\ P[n].pos \in Nat \ {0} /\ P[n].len \in Nat \ {0} /\ P[1].len \in Nat \ {0}
      BY <1>1, <1>2, <2>1
    <2>3. f + 1 = n \/ P[f + 1].pos + P[f + 1].len <= P[n].pos
      BY <1>1, <1>3, <2>1
    <2>4. f = 0 \/ P[1].pos + P[1].len <= P[f + 1].pos
      <3>1. f # 0 => 1 < f + 1 /\ 1 \in 1 .. n
        BY <2>1, <1>1
      <3>. QED
        BY <1>3, <2>1, <3>1
    <2>5. PositionOf(f) \in Nat /\ LengthOf(f) \in Nat \ {0} /\ (f # 0 => PositionOf(f) # 0)
      BY <1>3, <1>5, <2>2, <2>4
    <2>6. End(f) <= FixedLength
      <3>1. End(f) = P[f + 1].pos - 1 + P[f + 1].len
        BY <1>5 DEF End
      <3>2. CASE f + 1 = n
        BY <1>7, <2>2, <3>1, <3>2
      <3>3. CASE P[f + 1].pos + P[f + 1].len <= P[n].pos
        BY <1>7, <2>2, <3>1, <3>3
      <3>. QED
        BY <2>3, <3>2, <3>3
    <2>. QED
      BY <2>1, <2>5, <2>6 DEF Begin, End
  <1>10. ASSUME NEW f \in FieldsOf, NEW g \in FieldsOf, f < g PROVE End(f) < Begin(g)
    <2>1. f + 1 \in 1 .. n /\ g + 1 \in 1 .. n /\ f + 1 < g + 1
      BY <1>1, <1>4, <1>10
    <2>2. P[f + 1].pos + P[f + 1].len <= P[g + 1].pos
      BY <1>3, <2>1
    <2>3. P[f + 1].pos \in Nat /\ P[f + 1].len \in Nat /\ P[g + 1].pos \in Nat
      BY <1>2, <2>1
    <2>. QED
      BY <1>5, <2>2, <2>3 DEF Begin, End
  <1>11. PositionOf(0) = 0
    <2>1. 0 + 1 = 1
      OBVIOUS
    <2>. QED
      BY <1>3, <1>5, <1>6, <2>1
  <1>. QED
    BY <1>1, <1>6, <1>8, <1>9, <1>10, <1>11 DEF n

\* memset() and memcpy().
LEMMA RepeatIs ==
    ASSUME NEW C, NEW c \in C, NEW n \in Int
    PROVE  /\ Repeat(c, n) \in Seq(C)
           /\ n >= 0 => Len(Repeat(c, n)) = n
           /\ n < 0 => Len(Repeat(c, n)) = 0
           /\ \A k \in 1 .. n : Repeat(c, n)[k] = c
  <1>1. CASE n >= 0
    BY <1>1 DEF Repeat
  <1>2. CASE n < 0
    <2>1. 1 .. n = 1 .. 0 /\ ~(n >= 0)
      BY <1>2
    <2>2. Repeat(c, n) = [k \in 1 .. 0 |-> c]
      BY <2>1 DEF Repeat
    <2>3. [k \in 1 .. 0 |-> c] \in Seq(C) /\ Len([k \in 1 .. 0 |-> c]) = 0
      OBVIOUS
    <2>. QED
      BY <2>1, <2>2, <2>3
  <1>. QED
    BY <1>1, <1>2

IsCopy(new, C, buf, pos, text) ==
    /\ new \in Seq(C) /\ Len(new) = Len(buf)
    /\ \A k \in 1 .. Len(buf) :
           /\ k \in pos + 1 .. pos + Len(text) => new[k] = text[k - pos]
           /\ k \notin pos + 1 .. pos + Len(text) => new[k] = buf[k]

\* What memcpy() and memset() leave.
LEMMA CopiedIs ==
    ASSUME NEW C, NEW buf \in Seq(C), NEW pos \in Int, NEW text \in Seq(C)
    PROVE  IsCopy(Copied(buf, pos, text), C, buf, pos, text)
  <1>. DEFINE e(k) == IF k \in pos + 1 .. pos + Len(text) THEN text[k - pos] ELSE buf[k]
  <1>1. DOMAIN buf = 1 .. Len(buf) /\ Len(buf) \in Nat
    OBVIOUS
  <1>2. Copied(buf, pos, text) = [k \in 1 .. Len(buf) |-> e(k)]
    BY <1>1 DEF Copied
  <1>3. \A k \in 1 .. Len(buf) : e(k) \in C
    <2>. TAKE k \in 1 .. Len(buf)
    <2>1. k \in pos + 1 .. pos + Len(text) => k - pos \in 1 .. Len(text)
      OBVIOUS
    <2>. QED
      BY <2>1, ElementOfSeq
  <1>4. /\ \A k \in 1 .. Len(buf) : k \in pos + 1 .. pos + Len(text) => e(k) = text[k - pos]
        /\ \A k \in 1 .. Len(buf) : k \notin pos + 1 .. pos + Len(text) => e(k) = buf[k]
    OBVIOUS
  <1>. HIDE DEF e
  <1>. DEFINE new == [k \in 1 .. Len(buf) |-> e(k)]
  <1>5. new \in Seq(C) /\ Len(new) = Len(buf) /\ \A k \in 1 .. Len(buf) : new[k] = e(k)
    BY <1>1, <1>3
  <1>. HIDE DEF new
  <1>6. IsCopy(new, C, buf, pos, text)
    BY <1>4, <1>5 DEF IsCopy
  <1>. QED
    BY <1>2, <1>6 DEF new

\* The record: each field holds what it was told.
FieldHolds(buf, f, text) == \A k \in 1 .. LengthOf(f) : buf[PositionOf(f) + k] = text[k]

FieldsInv(C, buf, told) ==
    /\ buf \in Seq(C) /\ Len(buf) = FixedLength
    /\ told \in [FieldsOf -> Seq(C)]
    /\ \A f \in FieldsOf : Len(told[f]) = LengthOf(f) /\ FieldHolds(buf, f, told[f])

\* The same, but for one field.
Written(new, C, buf, f, text) ==
    /\ new \in Seq(C) /\ Len(new) = Len(buf)
    /\ text \in Seq(C) /\ Len(text) = LengthOf(f) /\ FieldHolds(new, f, text)
    /\ \A k \in 1 .. Len(buf) : k \notin Begin(f) .. End(f) => new[k] = buf[k]

\* A field that is written keeps the others.
LEMMA WrittenKeeps ==
    ASSUME NEW C, NEW buf, NEW told, FieldsInv(C, buf, told), NEW f \in FieldsOf, NEW text, NEW new,
           Written(new, C, buf, f, text)
    PROVE  FieldsInv(C, new, [told EXCEPT ![f] = text])
  <1>. DEFINE told1 == [told EXCEPT ![f] = text]
  <1>1. told1 \in [FieldsOf -> Seq(C)] /\ told1[f] = text /\ \A g \in FieldsOf : g # f => told1[g] = told[g]
    BY DEF FieldsInv, Written
  <1>. HIDE DEF told1
  <1>2. ASSUME NEW g \in FieldsOf, g # f PROVE Len(told1[g]) = LengthOf(g) /\ FieldHolds(new, g, told1[g])
    <2>1. Len(told[g]) = LengthOf(g) /\ FieldHolds(buf, g, told[g]) /\ told1[g] = told[g]
      BY <1>1, <1>2 DEF FieldsInv
    <2>2. ASSUME NEW k \in 1 .. LengthOf(g) PROVE new[PositionOf(g) + k] = buf[PositionOf(g) + k]
      <3>. DEFINE i == PositionOf(g) + k
      <3>1. i \in Begin(g) .. End(g) /\ i \in 1 .. Len(buf)
        <4>1. PositionOf(g) \in Nat /\ LengthOf(g) \in Nat /\ End(g) <= FixedLength /\ FixedLength \in Nat
          BY FieldsApart
        <4>2. i \in Begin(g) .. End(g) /\ i \in 1 .. End(g)
          BY <4>1 DEF Begin, End
        <4>3. Len(buf) = FixedLength /\ End(g) \in Nat
          BY FieldsApart DEF FieldsInv
        <4>. HIDE DEF i
        <4>. QED
          BY <4>1, <4>2, <4>3
      <3>2. i \notin Begin(f) .. End(f)
        <4>1. /\ Begin(f) \in Nat /\ End(f) \in Nat /\ Begin(g) \in Nat /\ End(g) \in Nat
              /\ f \in Nat /\ g \in Nat
              /\ f < g => End(f) < Begin(g)
              /\ g < f => End(g) < Begin(f)
          BY FieldsApart
        <4>2. f < g \/ g < f
          BY <1>2, <4>1
        <4>. HIDE DEF i
        <4>. QED
          BY <3>1, <4>1, <4>2
      <3>. HIDE DEF i
      <3>3. new[i] = buf[i]
        BY <3>1, <3>2 DEF Written
      <3>. QED
        BY <3>3 DEF i
    <2>3. FieldHolds(new, g, told[g])
      BY <2>1, <2>2 DEF FieldHolds
    <2>. QED
      BY <2>1, <2>3
  <1>3. Len(told1[f]) = LengthOf(f) /\ FieldHolds(new, f, told1[f])
    BY <1>1 DEF Written
  <1>4. new \in Seq(C) /\ Len(new) = FixedLength
    BY DEF Written, FieldsInv
  <1>5. FieldsInv(C, new, told1)
    BY <1>1, <1>2, <1>3, <1>4 DEF FieldsInv
  <1>. QED
    BY <1>5 DEF told1

-----------------------------------------------------------------------------
(***************************************************************************)
(* What the setters write.                                                 *)
(***************************************************************************)
\* Texts put together, character by character.
IsConcat(text, C, a, b) ==
    /\ text \in Seq(C) /\ Len(text) = Len(a) + Len(b)
    /\ \A k \in 1 .. Len(a) : text[k] = a[k]
    /\ \A k \in 1 .. Len(b) : text[Len(a) + k] = b[k]

\* What two texts put together are.
LEMMA ConcatIs ==
    ASSUME NEW C, NEW a \in Seq(C), NEW b \in Seq(C)
    PROVE  IsConcat(a \o b, C, a, b)
  <1>. DEFINE text == a \o b
  <1>1. /\ text \in Seq(C) /\ Len(text) = Len(a) + Len(b) /\ Len(a) \in Nat /\ Len(b) \in Nat
        /\ \A i \in 1 .. Len(a) + Len(b) : text[i] = IF i <= Len(a) THEN a[i] ELSE b[i - Len(a)]
    BY ConcatProperties
  <1>. HIDE DEF text
  <1>2. \A k \in 1 .. Len(a) : k \in 1 .. Len(a) + Len(b) /\ k <= Len(a)
    BY <1>1
  <1>3. \A k \in 1 .. Len(b) : /\ Len(a) + k \in 1 .. Len(a) + Len(b)
                               /\ ~(Len(a) + k <= Len(a)) /\ (Len(a) + k) - Len(a) = k
    BY <1>1
  <1>4. IsConcat(text, C, a, b)
    BY <1>1, <1>2, <1>3 DEF IsConcat
  <1>. QED
    BY <1>4 DEF text

\* Where a field is in a buffer.
FieldIn(buf, f, pos, l) ==
    /\ pos = PositionOf(f) /\ l = LengthOf(f) /\ pos \in Nat /\ l \in Nat \ {0}
    /\ Begin(f) = pos + 1 /\ End(f) = pos + l /\ pos + l <= Len(buf) /\ Len(buf) \in Nat

\* The field that is read is in the buffer.
LEMMA FieldIsIn ==
    ASSUME NEW buf, Len(buf) = FixedLength, NEW f \in FieldsOf
    PROVE  FieldIn(buf, f, PositionOf(f), LengthOf(f))
  <1>1. PositionOf(f) \in Nat /\ LengthOf(f) \in Nat \ {0} /\ End(f) <= FixedLength /\ FixedLength \in Nat
    BY FieldsApart
  <1>2. Begin(f) = PositionOf(f) + 1 /\ End(f) = PositionOf(f) + LengthOf(f)
    BY DEF Begin, End
  <1>. QED
    BY <1>1, <1>2 DEF FieldIn

\* A place k of a text that is put after p.
LEMMA Shifted ==
    ASSUME NEW p \in Int, NEW k \in Int, NEW a \in Int, NEW b \in Int
    PROVE  p + k \in p + a + 1 .. p + b <=> (a < k /\ k <= b)
  OBVIOUS

\* A number goes to the right of its field, after the filling.
LEMMA NumberWritten ==
    ASSUME NEW C, NEW buf \in Seq(C), Len(buf) = FixedLength, NEW f \in FieldsOf, Accepted(f),
           NEW n \in Seq(C), NEW fill \in C, NEW room \in Nat, room = LengthOf(f) - Len(n)
    PROVE  Written(SetFieldNumber(buf, f, n, fill), C, buf, f, Repeat(fill, room) \o n)
  <1>. DEFINE pos == PositionOf(f)
              filled == Repeat(fill, room)
              mid == Copied(buf, pos, filled)
              new == Copied(mid, pos + room, n)
              text == filled \o n
  <1>1. /\ pos \in Nat /\ LengthOf(f) \in Nat /\ Len(n) \in Nat /\ LengthOf(f) = room + Len(n)
        /\ Begin(f) = pos + 1 /\ End(f) = pos + LengthOf(f)
        /\ pos + LengthOf(f) <= Len(buf) /\ Len(buf) \in Nat
    <2>1. FieldIn(buf, f, PositionOf(f), LengthOf(f)) /\ Len(n) \in Nat
      BY FieldIsIn
    <2>2. LengthOf(f) \in Nat
      BY <2>1 DEF FieldIn
    <2>. QED
      BY <2>1, <2>2 DEF FieldIn
  <1>2. filled \in Seq(C) /\ Len(filled) = room /\ \A k \in 1 .. room : filled[k] = fill
    BY RepeatIs
  <1>. HIDE DEF filled, pos
  <1>3. IsCopy(mid, C, buf, pos, filled)
    BY <1>1, <1>2, CopiedIs
  <1>. HIDE DEF mid
  <1>4. IsCopy(new, C, mid, pos + room, n)
    <2>1. mid \in Seq(C) /\ pos + room \in Int
      BY <1>1, <1>3 DEF IsCopy
    <2>. QED
      BY <2>1, CopiedIs
  <1>5. text \in Seq(C) /\ Len(text) = LengthOf(f)
        /\ (\A k \in 1 .. room : text[k] = fill) /\ \A k \in 1 .. Len(n) : text[room + k] = n[k]
    <2>1. IsConcat(text, C, filled, n)
      BY <1>2, ConcatIs
    <2>. HIDE DEF text
    <2>. QED
      BY <1>1, <1>2, <2>1 DEF IsConcat
  <1>6. SetFieldNumber(buf, f, n, fill) = new
    BY DEF SetFieldNumber, new, mid, pos, filled
  <1>. HIDE DEF new, text
  <1>7. ASSUME NEW k \in 1 .. LengthOf(f) PROVE new[pos + k] = text[k]
    <2>. DEFINE i == pos + k
    <2>1. k \in Int /\ i \in 1 .. Len(buf) /\ i \in Int /\ i - pos = k /\ i - (pos + room) = k - room
      BY <1>1, SMTT(30)
    <2>2. CASE k <= room
      <3>1. i \in pos + 1 .. pos + Len(filled) /\ i \notin pos + room + 1 .. pos + room + Len(n) /\ k \in 1 .. room
        <4>1. k \in 1 .. room
          BY <1>1, <2>1, <2>2
        <4>2. /\ k \in Int /\ pos \in Int /\ room \in Int /\ 0 \in Int
              /\ Len(n) \in Int /\ room + Len(n) \in Int /\ 0 < k /\ k <= room
          BY <1>1, <4>1
        <4>3. pos + k \in pos + 0 + 1 .. pos + room <=> (0 < k /\ k <= room)
          BY <4>2, Shifted
        <4>4. pos + k \in pos + room + 1 .. pos + (room + Len(n)) <=> (room < k /\ k <= room + Len(n))
          BY <4>2, Shifted
        <4>5. pos + 0 = pos /\ pos + (room + Len(n)) = pos + room + Len(n) /\ ~(room < k)
          BY <4>2
        <4>. QED
          BY <1>2, <4>1, <4>2, <4>3, <4>4, <4>5
      <3>. HIDE DEF i
      <3>2. new[i] = mid[i] /\ mid[i] = filled[k]
        BY <1>3, <1>4, <2>1, <3>1 DEF IsCopy
      <3>. QED
        BY <1>2, <1>5, <3>1, <3>2 DEF i
    <2>3. CASE k > room
      <3>1. i \in pos + room + 1 .. pos + room + Len(n) /\ k - room \in 1 .. Len(n) /\ room + (k - room) = k
        <4>1. pos \in Int /\ room \in Int /\ Len(n) \in Int /\ k <= room + Len(n) /\ k > room
          BY <1>1, <2>1, <2>3
        <4>2. pos + k \in pos + room + 1 .. pos + (room + Len(n)) <=> (room < k /\ k <= room + Len(n))
          BY <2>1, <4>1, Shifted
        <4>3. pos + (room + Len(n)) = pos + room + Len(n) /\ k - room \in 1 .. Len(n) /\ room + (k - room) = k
          BY <2>1, <4>1, SMTT(30)
        <4>. QED
          BY <4>1, <4>2, <4>3
      <3>. HIDE DEF i
      <3>2. new[i] = n[k - room]
        BY <1>3, <1>4, <2>1, <3>1 DEF IsCopy
      <3>3. text[room + (k - room)] = n[k - room]
        BY <1>5, <3>1
      <3>. QED
        BY <3>1, <3>2, <3>3 DEF i
    <2>. QED
      BY <1>1, <2>1, <2>2, <2>3
  <1>8. ASSUME NEW k \in 1 .. Len(buf), k \notin Begin(f) .. End(f) PROVE new[k] = buf[k]
    <2>1. k \notin pos + 1 .. pos + Len(filled) /\ k \notin pos + room + 1 .. pos + room + Len(n)
      <3>1. k \in Int /\ (k < pos + 1 \/ k > pos + (room + Len(n)))
        BY <1>1, <1>8
      <3>2. room \in Nat /\ pos \in Nat /\ Len(n) \in Nat
        BY <1>1
      <3>. QED
        BY <1>2, <3>1, <3>2
    <2>. QED
      BY <1>3, <1>4, <2>1 DEF IsCopy
  <1>9. Written(new, C, buf, f, text)
    <2>1. FieldHolds(new, f, text)
      BY <1>7 DEF FieldHolds, pos
    <2>. QED
      BY <1>3, <1>4, <1>5, <1>8, <2>1 DEF Written, IsCopy
  <1>. QED
    BY <1>6, <1>9 DEF text, filled

\* A text goes to the left of its field, cut or with the filling after it.
LEMMA TextWritten ==
    ASSUME NEW C, NEW buf \in Seq(C), Len(buf) = FixedLength, NEW f \in FieldsOf,
           NEW n \in Seq(C), NEW fill \in C, NEW room \in Int, room = LengthOf(f) - Len(n)
    PROVE  Written(SetFieldText(buf, f, n, fill), C, buf, f,
                   SubSeq(n \o Repeat(fill, room), 1, LengthOf(f)))
  <1>. DEFINE pos == PositionOf(f)
              filled == Repeat(fill, room)
              cut == IF room < 0 THEN LengthOf(f) ELSE Len(n)
              kept == SubSeq(n, 1, cut)
              mid == Copied(buf, pos + Len(n), filled)
              new == Copied(mid, pos, kept)
              long == n \o filled
              text == SubSeq(long, 1, LengthOf(f))
  <1>1. /\ pos \in Nat /\ LengthOf(f) \in Nat /\ Len(n) \in Nat /\ LengthOf(f) = room + Len(n)
        /\ Begin(f) = pos + 1 /\ End(f) = pos + LengthOf(f)
        /\ pos + LengthOf(f) <= Len(buf) /\ Len(buf) \in Nat
    <2>1. FieldIn(buf, f, PositionOf(f), LengthOf(f)) /\ Len(n) \in Nat
      BY FieldIsIn
    <2>2. LengthOf(f) \in Nat
      BY <2>1 DEF FieldIn
    <2>. QED
      BY <2>1, <2>2 DEF FieldIn
  <1>2. /\ filled \in Seq(C) /\ (room >= 0 => Len(filled) = room) /\ (room < 0 => Len(filled) = 0)
        /\ \A k \in 1 .. room : filled[k] = fill
    BY RepeatIs
  <1>3. /\ cut \in Nat /\ cut <= Len(n) /\ cut <= LengthOf(f)
        /\ (room < 0 => cut = LengthOf(f)) /\ (room >= 0 => cut = Len(n))
    BY <1>1
  <1>. HIDE DEF filled, pos, cut
  <1>4. kept \in Seq(C) /\ Len(kept) = cut /\ \A k \in 1 .. cut : kept[k] = n[k]
    <2>1. 1 \in Nat \ {0} /\ 1 <= cut + 1
      BY <1>3
    <2>2. IsPart(kept, C, n, 1, cut)
      BY <1>3, <2>1, Part
    <2>. HIDE DEF kept
    <2>3. cut - 1 + 1 = cut /\ \A k \in 1 .. cut : 1 + k - 1 = k
      BY <1>3
    <2>. QED
      BY <2>2, <2>3 DEF IsPart
  <1>5. /\ long \in Seq(C) /\ Len(long) = Len(n) + Len(filled)
        /\ (\A k \in 1 .. Len(n) : long[k] = n[k]) /\ \A k \in 1 .. Len(filled) : long[Len(n) + k] = filled[k]
    <2>1. IsConcat(long, C, n, filled)
      BY <1>2, ConcatIs
    <2>. HIDE DEF long
    <2>. QED
      BY <2>1 DEF IsConcat
  <1>. HIDE DEF kept, long
  <1>6. text \in Seq(C) /\ Len(text) = LengthOf(f) /\ \A k \in 1 .. LengthOf(f) : text[k] = long[k]
    <2>. DEFINE l == LengthOf(f)
    <2>1. 1 \in Nat \ {0} /\ 1 <= l + 1 /\ l <= Len(long) /\ l \in Nat
      <3>1. l = room + Len(n) /\ l \in Nat /\ Len(n) \in Nat
        BY <1>1
      <3>. HIDE DEF l
      <3>2. l <= Len(long)
        BY <1>2, <1>5, <3>1
      <3>. QED
        BY <3>1, <3>2
    <2>2. IsPart(text, C, long, 1, l)
      BY <1>5, <2>1, Part
    <2>. HIDE DEF text, l
    <2>3. l - 1 + 1 = l /\ \A k \in 1 .. l : 1 + k - 1 = k
      BY <2>1
    <2>4. text \in Seq(C) /\ Len(text) = l /\ \A k \in 1 .. l : text[k] = long[k]
      BY <2>2, <2>3 DEF IsPart
    <2>. QED
      BY <2>4 DEF l
  <1>. HIDE DEF text
  <1>7. IsCopy(mid, C, buf, pos + Len(n), filled)
    <2>1. pos + Len(n) \in Int
      BY <1>1
    <2>. QED
      BY <1>2, <2>1, CopiedIs
  <1>. HIDE DEF mid
  <1>8. IsCopy(new, C, mid, pos, kept)
    <2>1. mid \in Seq(C) /\ pos \in Int
      BY <1>1, <1>7 DEF IsCopy
    <2>. QED
      BY <1>4, <2>1, CopiedIs
  <1>9. SetFieldText(buf, f, n, fill) = new
    BY DEF SetFieldText, new, mid, pos, filled, kept, cut
  <1>. HIDE DEF new
  <1>10. ASSUME NEW k \in 1 .. LengthOf(f) PROVE new[pos + k] = text[k]
    <2>. DEFINE i == pos + k
    <2>1. k \in Int /\ i \in 1 .. Len(buf) /\ i \in Int /\ i - pos = k /\ i - (pos + Len(n)) = k - Len(n)
      BY <1>1
    <2>2. CASE k <= cut
      <3>1. i \in pos + 1 .. pos + Len(kept) /\ k \in 1 .. cut /\ k \in 1 .. Len(n)
        BY <1>1, <1>3, <1>4, <2>1, <2>2
      <3>. HIDE DEF i
      <3>2. new[i] = kept[k]
        BY <1>7, <1>8, <2>1, <3>1 DEF IsCopy
      <3>. QED
        BY <1>4, <1>5, <1>6, <3>1, <3>2 DEF i
    <2>3. CASE k > cut
      <3>1. room >= 0 /\ cut = Len(n) /\ Len(filled) = room
        BY <1>1, <1>2, <1>3, <2>1, <2>3, SMTT(30)
      <3>2. /\ i \notin pos + 1 .. pos + Len(kept)
            /\ i \in pos + Len(n) + 1 .. pos + Len(n) + Len(filled)
            /\ k - Len(n) \in 1 .. Len(filled) /\ Len(n) + (k - Len(n)) = k
        <4>1. /\ pos \in Int /\ room \in Int /\ Len(n) \in Int /\ k <= Len(n) + room /\ k > Len(n)
              /\ 0 \in Int
          BY <1>1, <2>1, <2>3, <3>1
        <4>2. pos + k \in pos + Len(n) + 1 .. pos + (Len(n) + room) <=> (Len(n) < k /\ k <= Len(n) + room)
          BY <2>1, <4>1, Shifted
        <4>3. pos + k \in pos + 0 + 1 .. pos + Len(n) <=> (0 < k /\ k <= Len(n))
          BY <2>1, <4>1, Shifted
        <4>4. /\ pos + 0 = pos /\ pos + (Len(n) + room) = pos + Len(n) + room
              /\ k - Len(n) \in 1 .. room /\ Len(n) + (k - Len(n)) = k /\ ~(k <= Len(n))
          BY <2>1, <4>1
        <4>. QED
          BY <1>4, <3>1, <4>1, <4>2, <4>3, <4>4
      <3>. HIDE DEF i
      <3>3. new[i] = mid[i] /\ mid[i] = filled[k - Len(n)]
        BY <1>7, <1>8, <2>1, <3>2 DEF IsCopy
      <3>4. long[Len(n) + (k - Len(n))] = filled[k - Len(n)]
        BY <1>5, <3>2
      <3>. QED
        BY <1>6, <3>2, <3>3, <3>4 DEF i
    <2>. QED
      BY <1>3, <2>1, <2>2, <2>3
  <1>11. ASSUME NEW k \in 1 .. Len(buf), k \notin Begin(f) .. End(f) PROVE new[k] = buf[k]
    <2>1. k \notin pos + 1 .. pos + Len(kept)
      BY <1>1, <1>3, <1>4, <1>11
    <2>2. k \notin pos + Len(n) + 1 .. pos + Len(n) + Len(filled)
      <3>1. CASE room >= 0
        BY <1>1, <1>2, <1>11, <3>1, SMTT(30)
      <3>2. CASE room < 0
        BY <1>1, <1>2, <3>2
      <3>. QED
        BY <3>1, <3>2
    <2>. QED
      BY <1>7, <1>8, <2>1, <2>2 DEF IsCopy
  <1>12. Written(new, C, buf, f, text)
    <2>1. FieldHolds(new, f, text)
      BY <1>10 DEF FieldHolds, pos
    <2>. QED
      BY <1>6, <1>7, <1>8, <1>11, <2>1 DEF Written, IsCopy
  <1>. QED
    BY <1>9, <1>12 DEF text, long, filled

\* A raw value that has the length of the first field.
LEMMA RawWritten ==
    ASSUME NEW C, NEW buf \in Seq(C), Len(buf) = FixedLength, NEW f \in FieldsOf, Accepted(f),
           NEW n \in Seq(C), Len(n) = LengthOf(f), LengthOf(f) = LengthOf(0)
    PROVE  Written(SetFieldRaw(buf, f, n), C, buf, 0, n)
  <1>. DEFINE new == Copied(buf, 0, n)
  <1>1. /\ 0 \in FieldsOf /\ PositionOf(0) = 0 /\ LengthOf(0) \in Nat /\ Begin(0) = 1
        /\ End(0) = LengthOf(0) /\ End(0) <= Len(buf) /\ Len(buf) \in Nat
    <2>1. 0 \in FieldsOf /\ PositionOf(0) = 0
      BY FieldsApart
    <2>. QED
      BY <2>1, FieldsApart DEF Begin, End
  <1>2. SubSeq(n, 1, LengthOf(f)) = n
    BY SubSeqFull
  <1>3. IsCopy(new, C, buf, 0, n)
    BY CopiedIs
  <1>4. SetFieldRaw(buf, f, n) = new
    BY <1>2 DEF SetFieldRaw
  <1>. HIDE DEF new
  <1>5. \A k \in 1 .. LengthOf(0) : /\ k \in 1 .. Len(buf) /\ k \in 0 + 1 .. 0 + Len(n)
                                    /\ k - 0 = k /\ 0 + k = k
    BY <1>1
  <1>6. FieldHolds(new, 0, n)
    BY <1>1, <1>3, <1>5 DEF FieldHolds, IsCopy
  <1>7. ASSUME NEW k \in 1 .. Len(buf), k \notin Begin(0) .. End(0) PROVE new[k] = buf[k]
    <2>1. k \notin 0 + 1 .. 0 + Len(n)
      BY <1>1, <1>7
    <2>. QED
      BY <1>3, <2>1 DEF IsCopy
  <1>. QED
    BY <1>3, <1>4, <1>6, <1>7 DEF Written, IsCopy

-----------------------------------------------------------------------------
(***************************************************************************)
(* What get_field_as_u64() reads.                                          *)
(***************************************************************************)
\* What trimming leaves of a number with and without spaces before it.
LEMMA NothingToTrim ==
    ASSUME NEW C, NEW s \in Seq(C), \A i \in 1 .. Len(s) : s[i] # Space
    PROVE  TrimSpace(s) = s
  <1>. DEFINE r == TrimSpace(s)
  <1>1. PICK a \in Nat, b \in Nat : Between(s, r, a, b)
    BY TrimKeeps
  <1>. HIDE DEF r
  <1>2. /\ a \in 0 .. Len(s) /\ b \in a .. Len(s) /\ r = SubSeq(s, a + 1, b) /\ Len(s) \in Nat
        /\ \A i \in 1 .. a : s[i] = Space
        /\ \A i \in b + 1 .. Len(s) : s[i] = Space
    BY <1>1 DEF Between
  <1>3. a = 0
    <2>1. a # 0 => a \in 1 .. a /\ a \in 1 .. Len(s)
      BY <1>2
    <2>. QED
      BY <1>2, <2>1
  <1>4. b = Len(s)
    <2>1. b # Len(s) => b + 1 \in b + 1 .. Len(s) /\ b + 1 \in 1 .. Len(s)
      BY <1>2
    <2>. QED
      BY <1>2, <2>1
  <1>5. SubSeq(s, 1, Len(s)) = s /\ 0 + 1 = 1
    BY SubSeqFull
  <1>6. r = s
    BY <1>2, <1>3, <1>4, <1>5
  <1>. QED
    BY <1>6 DEF r

\* A character with spaces before it is trimmed to that character.
LEMMA TrimOfOne ==
    ASSUME NEW C, NEW s \in Seq(C), NEW m \in Nat, Len(s) = m + 1, \A i \in 1 .. m : s[i] = Space,
           NEW c, c = s[m + 1], c # Space
    PROVE  TrimSpace(s) = <<c>>
  <1>. DEFINE r == TrimSpace(s)
  <1>1. PICK a \in Nat, b \in Nat : Between(s, r, a, b)
    BY TrimKeeps
  <1>. HIDE DEF r
  <1>2. /\ a \in 0 .. m + 1 /\ b \in a .. m + 1 /\ r = SubSeq(s, a + 1, b)
        /\ \A i \in 1 .. a : s[i] = Space
        /\ \A i \in b + 1 .. m + 1 : s[i] = Space
        /\ a < b => s[a + 1] # Space
    BY <1>1 DEF Between
  <1>3. a <= m
    <2>1. a > m => m + 1 \in 1 .. a
      BY <1>2
    <2>. QED
      BY <1>2, <2>1
  <1>4. b = m + 1
    <2>1. b # m + 1 => m + 1 \in b + 1 .. m + 1
      BY <1>2
    <2>. QED
      BY <1>2, <2>1
  <1>5. a = m
    <2>1. a < b
      BY <1>3, <1>4
    <2>2. a < m => a + 1 \in 1 .. m
      BY <1>3
    <2>. QED
      BY <1>2, <1>3, <2>1, <2>2
  <1>6. SubSeq(s, m + 1, m + 1) = <<c>>
    <2>1. m + 1 \in 1 .. Len(s)
      OBVIOUS
    <2>. QED
      BY <2>1, OneCharacter
  <1>7. r = <<c>>
    BY <1>2, <1>4, <1>5, <1>6
  <1>. QED
    BY <1>7 DEF r

\* Digits are read as the number they say, if it fits.
LEMMA DigitsRead ==
    ASSUME NEW s \in Seq(DigitChars), s # <<>>, Value(s) < 2 ^ UINT_BITS
    PROVE  ToUint(s) = Value(s)
  <1>. DEFINE v == Value(s)
              u == 2 ^ UINT_BITS
  <1>1. Len(s) \in Nat \ {0} /\ DOMAIN s = 1 .. Len(s)
    BY EmptySeq
  <1>2. v \in Nat
    <2>1. PICK h : ValueBy(h, s)
      BY ValueIsRecursive
    <2>2. Len(s) \in 0 .. Len(s)
      BY <1>1
    <2>. QED
      BY <2>1, <2>2 DEF ValueBy
  <1>3. Says(s, v)
    <2>1. \A i \in 1 .. Len(s) : s[i] \in DigitChars
      BY ElementOfSeq
    <2>2. SubSeq(s, 1, Len(s)) = s
      BY SubSeqFull
    <2>. DEFINE a == 0
                b == Len(s)
    <2>3. a \in {0, 1} /\ b \in DOMAIN s /\ a < b /\ ~(a = 1) /\ a + 1 = 1 /\ ~(b < Len(s))
      BY <1>1
    <2>4. \A i \in b + 1 .. Len(s) : FALSE
      BY <1>1
    <2>5. v = Value(SubSeq(s, a + 1, b))
      BY <2>2, <2>3
    <2>6. \A i \in a + 1 .. b : s[i] \in DigitChars
      BY <2>1, <2>3
    <2>. HIDE DEF v, a, b
    <2>. QED
      BY <2>3, <2>4, <2>5, <2>6 DEF Says
  <1>4. SeemsGood(s) /\ Leading(s).n = v
    <2>. HIDE DEF v
    <2>. QED
      BY <1>3, SaidIsRead
  <1>5. u \in Nat /\ v < u
    <2>1. 0 \in Nat /\ UINT_BITS \in Nat /\ 0 < UINT_BITS
      BY StrUtilAssumption
    <2>2. u \in Nat
      BY <2>1, PowersGrow
    <2>. QED
      BY <2>2
  <1>6. v \in -(u - 1) .. u - 1 /\ v \in 0 .. u - 1
    <2>. HIDE DEF v, u
    <2>. QED
      BY <1>2, <1>5
  <1>7. ToUint(s) = v % u
    <2>1. IsUint(s)
      BY <1>4, <1>6 DEF IsUint
    <2>. QED
      BY <1>4, <2>1 DEF ToUint
  <1>8. v % u = v
    <2>. HIDE DEF v, u
    <2>1. u \in Nat \ {0} /\ v \in Int
      BY <1>2, <1>5
    <2>. QED
      BY <1>6, <2>1, SmallRemainders
  <1>. QED
    BY <1>7, <1>8

\* A one after zeros says one.
LEMMA ValueOfOne ==
    ASSUME NEW s \in Seq(DigitChars), NEW m \in Nat, Len(s) = m + 1, \A i \in 1 .. m : s[i] = "0",
           s[m + 1] = "1"
    PROVE  Value(s) = 1
  <1>1. PICK h : ValueBy(h, s)
    BY ValueIsRecursive
  <1>2. Digit("0") = 0 /\ Digit("1") = 1
    BY DEF Digit
  <1>3. /\ h[0] = 0 /\ Value(s) = h[m + 1]
        /\ \A k \in 1 .. m + 1 : h[k] = 10 * h[k - 1] + Digit(s[k])
    BY <1>1 DEF ValueBy
  <1>. DEFINE T == {k \in 0 .. m : h[k] = 0}
  <1>4. 0 \in T
    BY <1>3
  <1>5. \A k \in 1 .. m : k - 1 \in T => k \in T
    <2>. SUFFICES ASSUME NEW k \in 1 .. m, k - 1 \in T PROVE h[k] = 0
      OBVIOUS
    <2>1. h[k] = 10 * h[k - 1] + Digit(s[k]) /\ h[k - 1] = 0 /\ s[k] = "0"
      BY <1>3
    <2>. QED
      BY <1>2, <2>1
  <1>. HIDE DEF T
  <1>6. \A k \in 0 .. m : k \in T
    BY <1>4, <1>5, InductionUpTo
  <1>7. h[m] = 0
    <2>1. m \in T
      BY <1>6
    <2>. QED
      BY <2>1 DEF T
  <1>8. h[m + 1] = 10 * h[m] + Digit(s[m + 1])
    <2>1. m + 1 \in 1 .. m + 1 /\ (m + 1) - 1 = m
      OBVIOUS
    <2>. QED
      BY <1>3, <2>1
  <1>. QED
    BY <1>2, <1>3, <1>7, <1>8

\* What a field holds is what get_field() gives.
LEMMA FieldIs ==
    ASSUME NEW C, NEW buf \in Seq(C), Len(buf) = FixedLength, NEW f \in FieldsOf,
           NEW text \in Seq(C), Len(text) = LengthOf(f), FieldHolds(buf, f, text)
    PROVE  SubSeq(buf, PositionOf(f) + 1, PositionOf(f) + LengthOf(f)) = text
  <1>. DEFINE pos == PositionOf(f)
              l == LengthOf(f)
              r == SubSeq(buf, pos + 1, pos + l)
  <1>1. pos \in Nat /\ l \in Nat \ {0} /\ pos + l <= Len(buf)
    BY FieldIsIn DEF FieldIn
  <1>2. IsPart(r, C, buf, pos + 1, pos + l)
    <2>. HIDE DEF pos, l
    <2>1. pos + 1 \in Nat \ {0} /\ pos + l \in Nat /\ pos + 1 <= pos + l + 1
      BY <1>1
    <2>. QED
      BY <1>1, <2>1, Part
  <1>3. \A k \in 1 .. l : buf[pos + k] = text[k]
    BY DEF FieldHolds
  <1>4. Len(text) = l
    OBVIOUS
  <1>. HIDE DEF pos, l, r
  <1>5. (pos + l) - (pos + 1) + 1 = l /\ \A k \in 1 .. l : (pos + 1) + k - 1 = pos + k
    BY <1>1
  <1>6. r \in Seq(C) /\ Len(r) = l /\ \A k \in 1 .. l : r[k] = text[k]
    <2>. DEFINE a == pos + 1
                b == pos + l
    <2>1. IsPart(r, C, buf, a, b) /\ b - a + 1 = l /\ \A k \in 1 .. l : a + k - 1 = pos + k
      BY <1>2, <1>5
    <2>. HIDE DEF a, b
    <2>. QED
      BY <1>3, <2>1 DEF IsPart
  <1>7. r = text
    BY <1>4, <1>6, SeqEqual
  <1>. QED
    BY <1>7 DEF r, pos, l

\* A sequence of elements of S.
LEMMA SeqInRange ==
    ASSUME NEW C, NEW s \in Seq(C), NEW S, \A i \in 1 .. Len(s) : s[i] \in S
    PROVE  s \in Seq(S)
  OBVIOUS

\* The fields that numbers go to.
LEMMA InnerFields ==
    ASSUME NEW f \in FieldsOf
    PROVE  (Accepted(f) <=> f # LastEnum) /\ (Accepted(f) => Accepted(0))
  <1>1. FieldsOf = 0 .. LastEnum /\ LastEnum \in Nat
    BY FieldsApart DEF FieldsOf
  <1>. QED
    BY <1>1 DEF Accepted

\* A one that is put in a field is read as one.
LEMMA OneIsRead ==
    ASSUME NEW C, {"0", "1", Space} \subseteq C, NEW buf \in Seq(C), Len(buf) = FixedLength,
           NEW f \in FieldsOf, Accepted(f), NEW fill \in {Space, "0"}
    PROVE  GetFieldAsU64(SetFieldNumber(buf, f, <<"1">>, fill), f) = 1
  <1>. DEFINE m == LengthOf(f) - 1
              new == SetFieldNumber(buf, f, <<"1">>, fill)
              text == Repeat(fill, m) \o <<"1">>
  <1>1. LengthOf(f) \in Nat \ {0} /\ m \in Nat /\ m + 1 = LengthOf(f)
    <2>1. LengthOf(f) \in Nat \ {0}
      BY FieldsApart
    <2>. QED
      BY <2>1
  <1>2. <<"1">> \in Seq(C) /\ Len(<<"1">>) = 1 /\ <<"1">>[1] = "1" /\ fill \in C
    OBVIOUS
  <1>3. Written(new, C, buf, f, text)
    <2>. DEFINE room == LengthOf(f) - 1
    <2>1. room \in Nat /\ room = LengthOf(f) - Len(<<"1">>)
      BY <1>1, <1>2
    <2>. HIDE DEF room
    <2>2. Written(new, C, buf, f, Repeat(fill, room) \o <<"1">>)
      BY <1>2, <2>1, NumberWritten
    <2>. QED
      BY <2>2 DEF room
  <1>. HIDE DEF new, m
  <1>4. /\ text \in Seq(C) /\ Len(text) = m + 1 /\ text[m + 1] = "1"
        /\ \A k \in 1 .. m : text[k] = fill
    <2>. DEFINE filled == Repeat(fill, m)
    <2>1. filled \in Seq(C) /\ Len(filled) = m /\ \A k \in 1 .. m : filled[k] = fill
      <3>1. m \in Int /\ m >= 0 /\ fill \in C
        BY <1>1, <1>2
      <3>. QED
        BY <3>1, RepeatIs
    <2>. HIDE DEF filled
    <2>2. IsConcat(filled \o <<"1">>, C, filled, <<"1">>)
      BY <1>2, <2>1, ConcatIs
    <2>. DEFINE cat == filled \o <<"1">>
    <2>. HIDE DEF cat
    <2>3. /\ cat \in Seq(C) /\ Len(cat) = m + 1 /\ cat[m + 1] = "1"
          /\ \A k \in 1 .. m : cat[k] = fill
      <3>1. IsConcat(cat, C, filled, <<"1">>) /\ 1 \in 1 .. Len(<<"1">>)
        BY <1>2, <2>2 DEF cat
      <3>. QED
        BY <1>2, <2>1, <3>1 DEF IsConcat
    <2>. QED
      BY <2>3 DEF cat, filled
  <1>. HIDE DEF text
  <1>5. GetField(new, f) = text
    <2>1. new \in Seq(C) /\ Len(new) = FixedLength /\ FieldHolds(new, f, text) /\ Len(text) = LengthOf(f)
      BY <1>3 DEF Written
    <2>2. SubSeq(new, PositionOf(f) + 1, PositionOf(f) + LengthOf(f)) = text
      BY <1>4, <2>1, FieldIs
    <2>. QED
      BY <2>2 DEF GetField
  <1>6. ToUint(TrimSpace(text)) = 1
    <2>1. "1" # Space /\ "0" # Space
      BY Zenon DEF Space
    <2>2. 2 ^ UINT_BITS \in Nat /\ 1 < 2 ^ UINT_BITS
      <3>1. 0 \in Nat /\ UINT_BITS \in Nat /\ 0 < UINT_BITS
        BY StrUtilAssumption
      <3>2. 2 ^ 0 \in Nat /\ 2 ^ UINT_BITS \in Nat /\ 1 <= 2 ^ 0 /\ 2 ^ 0 < 2 ^ UINT_BITS
        BY <3>1, PowersGrow
      <3>. QED
        BY <3>2
    <2>. DEFINE r == TrimSpace(text)
    <2>3. ASSUME NEW k \in Nat, r \in Seq(DigitChars), Len(r) = k + 1, \A i \in 1 .. k : r[i] = "0",
                 r[k + 1] = "1"
          PROVE  ToUint(r) = 1
      <3>. HIDE DEF r
      <3>1. Value(r) = 1
        BY <2>3, ValueOfOne
      <3>2. r # <<>>
        BY <2>3, EmptySeq
      <3>. QED
        BY <2>2, <2>3, <3>1, <3>2, DigitsRead
    <2>4. CASE fill = Space
      <3>1. r = <<"1">>
        BY <1>1, <1>4, <2>1, <2>4, TrimOfOne
      <3>2. <<"1">> \in Seq(DigitChars) /\ Len(<<"1">>) = 0 + 1 /\ <<"1">>[0 + 1] = "1" /\ 0 \in Nat
        BY DEF DigitChars
      <3>. HIDE DEF r
      <3>3. \A i \in 1 .. 0 : r[i] = "0"
        OBVIOUS
      <3>. QED
        BY <2>3, <3>1, <3>2, <3>3 DEF r
    <2>5. CASE fill = "0"
      <3>1. \A i \in 1 .. m + 1 : i \in 1 .. m \/ i = m + 1
        BY <1>1
      <3>2. \A i \in 1 .. Len(text) : text[i] # Space /\ text[i] \in DigitChars
        BY <1>4, <2>1, <2>5, <3>1 DEF DigitChars
      <3>3. r = text
        BY <1>4, <3>2, NothingToTrim
      <3>4. text \in Seq(DigitChars)
        BY <1>4, <3>2, SeqInRange
      <3>. HIDE DEF r
      <3>. QED
        BY <1>1, <1>4, <2>3, <2>5, <3>3, <3>4 DEF r
    <2>. QED
      BY <2>4, <2>5
  <1>. QED
    BY <1>5, <1>6 DEF GetFieldAsU64, new

\* A number that is too long: its last digits fill the field.
LEMMA LongNumberIsRead ==
    ASSUME NEW C, {"0", "1", "2", Space} \subseteq C, NEW buf \in Seq(C), Len(buf) = FixedLength,
           NEW f \in FieldsOf, Accepted(f), f # 0, NEW fill \in {Space, "0"},
           NEW ones, ones = Repeat("1", LengthOf(f)), Value(ones) < 2 ^ UINT_BITS
    PROVE  GetFieldAsU64(SetFieldNumber(buf, f, <<"2">> \o ones, fill), f) = Value(ones)
  <1>. DEFINE l == LengthOf(f)
              pos == PositionOf(f)
              digits == <<"2">> \o ones
              room == l - Len(digits)
              mid == Copied(buf, pos, Repeat(fill, room))
              new == Copied(mid, pos + room, digits)
  <1>1. /\ l \in Nat \ {0} /\ pos \in Nat \ {0} /\ pos + l <= Len(buf) /\ Len(buf) \in Nat
    <2>1. FieldIn(buf, f, pos, l)
      BY FieldIsIn
    <2>2. PositionOf(f) # 0
      BY FieldsApart
    <2>. QED
      BY <2>1, <2>2 DEF FieldIn
  <1>2. /\ ones \in Seq(C) /\ Len(ones) = l /\ \A k \in 1 .. l : ones[k] = "1"
    <2>1. l \in Int /\ l >= 0 /\ "1" \in C
      BY <1>1
    <2>. HIDE DEF l
    <2>2. ones = Repeat("1", l)
      BY DEF l
    <2>. DEFINE r == Repeat("1", l)
    <2>3. r \in Seq(C) /\ Len(r) = l /\ \A k \in 1 .. l : r[k] = "1"
      BY <2>1, RepeatIs
    <2>. HIDE DEF r
    <2>. QED
      BY <2>2, <2>3 DEF r
  <1>3. /\ digits \in Seq(C) /\ Len(digits) = l + 1 /\ \A k \in 1 .. l : digits[k + 1] = ones[k]
    <2>1. <<"2">> \in Seq(C) /\ Len(<<"2">>) = 1
      OBVIOUS
    <2>2. IsConcat(digits, C, <<"2">>, ones)
      BY <1>2, <2>1, ConcatIs
    <2>. HIDE DEF digits, l
    <2>3. /\ digits \in Seq(C) /\ Len(digits) = 1 + l /\ \A k \in 1 .. l : digits[1 + k] = ones[k]
      BY <1>2, <2>1, <2>2 DEF IsConcat
    <2>4. 1 + l = l + 1 /\ \A k \in 1 .. l : 1 + k = k + 1
      BY <1>1
    <2>. QED
      BY <2>3, <2>4
  <1>4. SetFieldNumber(buf, f, digits, fill) = new
    BY DEF SetFieldNumber
  <1>. HIDE DEF digits, l, pos
  <1>5. room = -1 /\ pos + room \in Int /\ pos + room = pos - 1
    BY <1>1, <1>3
  <1>. HIDE DEF room
  <1>6. IsCopy(mid, C, buf, pos, Repeat(fill, room))
    <2>1. Repeat(fill, room) \in Seq(C)
      <3>1. room \in Int /\ fill \in C
        BY <1>5
      <3>. QED
        BY <3>1, RepeatIs
    <2>2. pos \in Int
      BY <1>1
    <2>. QED
      BY <2>1, <2>2, CopiedIs
  <1>. HIDE DEF mid
  <1>7. IsCopy(new, C, mid, pos + room, digits)
    <2>1. mid \in Seq(C)
      BY <1>6 DEF IsCopy
    <2>. QED
      BY <1>3, <1>5, <2>1, CopiedIs
  <1>. HIDE DEF new
  <1>8. new \in Seq(C) /\ Len(new) = Len(buf) /\ \A k \in 1 .. l : new[pos + k] = ones[k]
    <2>1. new \in Seq(C) /\ Len(new) = Len(buf) /\ Len(mid) = Len(buf)
      BY <1>6, <1>7 DEF IsCopy
    <2>2. ASSUME NEW k \in 1 .. l PROVE new[pos + k] = ones[k]
      <3>. DEFINE i == pos + k
      <3>1. /\ i \in 1 .. Len(mid) /\ i \in (pos + room) + 1 .. (pos + room) + Len(digits)
            /\ i - (pos + room) = k + 1
        <4>1. k \in Int /\ 1 <= k /\ k <= l /\ pos \in Int /\ 0 <= pos /\ l \in Int
          BY <1>1
        <4>2. i \in 1 .. Len(mid)
          BY <1>1, <2>1, <4>1
        <4>3. i \in (pos - 1) + 1 .. (pos - 1) + (l + 1) /\ i - (pos - 1) = k + 1
          BY <4>1
        <4>. HIDE DEF i
        <4>. QED
          BY <1>3, <1>5, <4>2, <4>3
      <3>. HIDE DEF i
      <3>2. new[i] = digits[k + 1]
        BY <1>7, <3>1 DEF IsCopy
      <3>. QED
        BY <1>3, <3>2 DEF i
    <2>. QED
      BY <2>1, <2>2
  <1>9. GetField(new, f) = ones
    <2>1. Len(new) = FixedLength /\ FieldHolds(new, f, ones) /\ Len(ones) = LengthOf(f)
      BY <1>2, <1>8 DEF FieldHolds, l, pos
    <2>2. SubSeq(new, PositionOf(f) + 1, PositionOf(f) + LengthOf(f)) = ones
      BY <1>2, <1>8, <2>1, FieldIs
    <2>. QED
      BY <2>2 DEF GetField
  <1>10. ToUint(TrimSpace(ones)) = Value(ones)
    <2>1. "1" # Space
      BY Zenon DEF Space
    <2>2. TrimSpace(ones) = ones
      BY <1>2, <2>1, NothingToTrim
    <2>3. ones \in Seq(DigitChars)
      <3>1. \A i \in 1 .. Len(ones) : ones[i] \in DigitChars
        BY <1>2 DEF DigitChars
      <3>. QED
        BY <1>2, <3>1, SeqInRange
    <2>4. ones # <<>>
      BY <1>1, <1>2, EmptySeq
    <2>. QED
      BY <2>2, <2>3, <2>4, DigitsRead
  <1>. QED
    BY <1>4, <1>9, <1>10 DEF GetFieldAsU64, digits

\* The fields are kept.
LEMMA FieldsAreKept ==
    ASSUME NEW C, {"0", "1", "2", "x", Space} \subseteq C, NEW buf, NEW told, FieldsInv(C, buf, told)
    PROVE  FieldsKept(buf, told)
  <1>1. buf \in Seq(C) /\ Len(buf) = FixedLength
    BY DEF FieldsInv
  <1>2. ASSUME NEW f \in FieldsOf
        PROVE  SubSeq(buf, PositionOf(f) + 1, PositionOf(f) + LengthOf(f)) = told[f]
    <2>1. told[f] \in Seq(C) /\ Len(told[f]) = LengthOf(f) /\ FieldHolds(buf, f, told[f])
      BY DEF FieldsInv
    <2>. QED
      BY <1>1, <2>1, FieldIs
  <1>3. ASSUME NEW f \in FieldsOf
        PROVE  GetField(buf, f) = IF f = LastEnum THEN <<>> ELSE told[f]
    <2>1. Accepted(f) <=> f # LastEnum
      BY InnerFields
    <2>. QED
      BY <1>2, <2>1 DEF GetField
  <1>4. ASSUME NEW f \in FieldsOf, Accepted(f), LengthOf(f) = LengthOf(0),
               NEW raw, raw = Repeat("x", LengthOf(f))
        PROVE  GetField(SetFieldRaw(buf, f, raw), 0) = raw
    <2>. DEFINE new == SetFieldRaw(buf, f, raw)
                l == LengthOf(f)
    <2>1. raw \in Seq(C) /\ Len(raw) = l
      <3>1. l \in Int /\ l >= 0
        <4>1. LengthOf(f) \in Nat
          BY FieldsApart
        <4>. QED
          BY <4>1
      <3>2. raw = Repeat("x", l) /\ "x" \in C
        BY <1>4
      <3>. HIDE DEF l
      <3>. QED
        BY <3>1, <3>2, RepeatIs
    <2>2. Written(new, C, buf, 0, raw)
      BY <1>1, <1>4, <2>1, RawWritten
    <2>. HIDE DEF new
    <2>3. new \in Seq(C) /\ Len(new) = FixedLength /\ FieldHolds(new, 0, raw) /\ Len(raw) = LengthOf(0)
      BY <1>1, <1>4, <2>1, <2>2 DEF Written
    <2>4. 0 \in FieldsOf
      BY FieldsApart
    <2>5. SubSeq(new, PositionOf(0) + 1, PositionOf(0) + LengthOf(0)) = raw
      BY <2>1, <2>3, <2>4, FieldIs
    <2>6. Accepted(0)
      BY <1>4, InnerFields
    <2>7. GetField(new, 0) = raw
      BY <2>5, <2>6 DEF GetField
    <2>. QED
      BY <2>7 DEF new
  <1>5. ASSUME NEW f \in FieldsOf \ {0, LastEnum}, NEW fill \in {Space, "0"}
        PROVE  /\ GetFieldAsU64(SetFieldNumber(buf, f, <<"1">>, fill), f) = 1
               /\ LET ones == Repeat("1", LengthOf(f))
                  IN Value(ones) < 2 ^ UINT_BITS =>
                         GetFieldAsU64(SetFieldNumber(buf, f, <<"2">> \o ones, fill), f) = Value(ones)
    <2>1. f \in FieldsOf /\ f # 0 /\ Accepted(f)
      BY InnerFields
    <2>2. GetFieldAsU64(SetFieldNumber(buf, f, <<"1">>, fill), f) = 1
      BY <1>1, <2>1, OneIsRead
    <2>3. ASSUME NEW ones, ones = Repeat("1", LengthOf(f)), Value(ones) < 2 ^ UINT_BITS
          PROVE  GetFieldAsU64(SetFieldNumber(buf, f, <<"2">> \o ones, fill), f) = Value(ones)
      BY <1>1, <2>1, <2>3, LongNumberIsRead
    <2>. QED
      BY <2>2, <2>3
  <1>6. \A f \in FieldsOf :
            /\ GetField(buf, f) = IF f = LastEnum THEN <<>> ELSE told[f]
            /\ SubSeq(buf, PositionOf(f) + 1, PositionOf(f) + LengthOf(f)) = told[f]
            /\ Accepted(f) /\ LengthOf(f) = LengthOf(0) =>
                   LET raw == Repeat("x", LengthOf(f))
                   IN GetField(SetFieldRaw(buf, f, raw), 0) = raw
    BY <1>2, <1>3, <1>4
  <1>. QED
    BY <1>1, <1>5, <1>6 DEF FieldsKept
=============================================================================
