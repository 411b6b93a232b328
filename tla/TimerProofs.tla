---------------------------- MODULE TimerProofs ----------------------------
(***************************************************************************)
(* Proofs about Timer, for any clients, ids and delays, whatever action()  *)
(* calls, with and without spurious wake-ups.  What is known of the thread *)
(* itself, Inv of ThreadProofs, holds for it too.                          *)
(***************************************************************************)
EXTENDS Timer, ThreadProofs, SequenceTheorems, WellFoundedInduction

Entries == [at : 0 .. MaxTime, id : Ids]

\* What MapsAgree says, for the maps d and s: each entry of d is subscribed at
\* its alarm, each subscription has its entry, and d is in order.
Agree(d, s) ==
    /\ \A i \in DOMAIN d : d[i].id \in DOMAIN s /\ s[d[i].id] = d[i].at
    /\ \A id \in DOMAIN s : \E i \in DOMAIN d : d[i].id = id
    /\ \A i, j \in DOMAIN d : i < j => d[i].id # d[j].id /\ d[i].at <= d[j].at

Maps(d, s) ==
    /\ d \in Seq(Entries)
    /\ DOMAIN s \subseteq Ids /\ \A i \in DOMAIN s : s[i] \in 0 .. MaxTime
    /\ Agree(d, s)

-----------------------------------------------------------------------------
\* The operators on the maps.

LEMMA EntriesOf ==
    ASSUME NEW d \in Seq(Entries)
    PROVE  /\ Len(d) \in Nat /\ DOMAIN d = 1 .. Len(d)
           /\ \A i \in 1 .. Len(d) : d[i] \in Entries /\ d[i].at \in Nat /\ d[i].id \in Ids
           /\ d = <<>> <=> Len(d) = 0
  <1>1. Len(d) \in Nat /\ DOMAIN d = 1 .. Len(d)
    BY LenProperties
  <1>2. \A i \in 1 .. Len(d) : d[i] \in Entries
    BY <1>1, ElementOfSeq
  <1>3. d = <<>> <=> Len(d) = 0
    BY EmptySeq
  <1>. QED
    BY <1>1, <1>2, <1>3, TimerAssumption DEF Entries

LEMMA MapsAgreeIsAgree ==
    ASSUME delays \in Seq(Entries)
    PROVE  MapsAgree <=> Agree(delays, subs)
  <1>1. \A i \in DOMAIN delays : delays[i] \in Entries
    BY EntriesOf
  <1>2. \A i \in DOMAIN delays : delays[i] = [at |-> delays[i].at, id |-> delays[i].id]
    BY <1>1 DEF Entries
  <1>3. ASSUME MapsAgree PROVE Agree(delays, subs)
    <2>. DEFINE D == {delays[i] : i \in DOMAIN delays}
                S == {[at |-> subs[id], id |-> id] : id \in DOMAIN subs}
    <2>1. D = S
      BY <1>3 DEF MapsAgree
    <2>2. ASSUME NEW i \in DOMAIN delays
          PROVE  delays[i].id \in DOMAIN subs /\ subs[delays[i].id] = delays[i].at
      <3>1. delays[i] \in S
        BY <2>1
      <3>2. PICK id \in DOMAIN subs : delays[i] = [at |-> subs[id], id |-> id]
        BY <3>1
      <3>. QED
        BY <3>2
    <2>3. ASSUME NEW id \in DOMAIN subs PROVE \E i \in DOMAIN delays : delays[i].id = id
      <3>1. [at |-> subs[id], id |-> id] \in D
        BY <2>1
      <3>2. PICK i \in DOMAIN delays : delays[i] = [at |-> subs[id], id |-> id]
        BY <3>1
      <3>. QED
        BY <3>2
    <2>4. \A i, j \in DOMAIN delays :
              i < j => delays[i].id # delays[j].id /\ delays[i].at <= delays[j].at
      BY <1>3 DEF MapsAgree
    <2>. QED
      BY <2>2, <2>3, <2>4 DEF Agree
  <1>4. ASSUME Agree(delays, subs) PROVE MapsAgree
    <2>. DEFINE D == {delays[i] : i \in DOMAIN delays}
                S == {[at |-> subs[id], id |-> id] : id \in DOMAIN subs}
    <2>1. ASSUME NEW i \in DOMAIN delays PROVE delays[i] \in S
      BY <1>2, <1>4 DEF Agree
    <2>2. ASSUME NEW id \in DOMAIN subs PROVE [at |-> subs[id], id |-> id] \in D
      <3>1. PICK i \in DOMAIN delays : delays[i].id = id
        BY <1>4 DEF Agree
      <3>2. subs[id] = delays[i].at
        BY <1>4, <3>1 DEF Agree
      <3>3. delays[i] = [at |-> subs[id], id |-> id]
        BY <1>2, <3>1, <3>2
      <3>. QED
        BY <3>3
    <2>3. D = S
      BY <2>1, <2>2
    <2>4. \A i, j \in DOMAIN delays :
              i < j => delays[i].id # delays[j].id /\ delays[i].at <= delays[j].at
      BY <1>4 DEF Agree
    <2>. QED
      BY <2>3, <2>4 DEF MapsAgree
  <1>. QED
    BY <1>3, <1>4

\* There is a place for every alarm in a sorted sequence.
LEMMA PlaceExists ==
    ASSUME Maps(delays, subs), NEW at \in Nat
    PROVE  /\ PlaceFor(at) \in 1 .. Len(delays) + 1
           /\ \A i \in 1 .. PlaceFor(at) - 1 : delays[i].at <= at
           /\ \A i \in PlaceFor(at) .. Len(delays) : delays[i].at > at
  <1>. DEFINE Len1 == Len(delays) + 1
              T == {p \in 1 .. Len1 : \A i \in p .. Len(delays) : delays[i].at > at}
  <1>1. /\ Len(delays) \in Nat /\ DOMAIN delays = 1 .. Len(delays)
        /\ \A i \in 1 .. Len(delays) : delays[i].at \in Nat
    BY EntriesOf DEF Maps
  <1>2. Len1 \in T /\ T \subseteq Nat
    BY <1>1
  <1>3. PICK p \in T : \A q \in T : ~ (<<q, p>> \in OpToRel(<, Nat))
    <2>. HIDE DEF T
    <2>. QED
      BY <1>2, WFMin, NatLessThanWellFounded
  <1>4. \A q \in T : ~ (q < p)
    BY <1>2, <1>3 DEF OpToRel
  <1>5. p \in 1 .. Len1 /\ p \in Nat /\ \A i \in p .. Len(delays) : delays[i].at > at
    BY <1>2
  <1>6. ASSUME p > 1 PROVE delays[p - 1].at <= at
    <2>1. p - 1 \notin T /\ p - 1 \in 1 .. Len1
      <3>1. p - 1 < p /\ p - 1 \in 1 .. Len1
        BY <1>1, <1>5, <1>6
      <3>. HIDE DEF T
      <3>. QED
        BY <1>4, <3>1
    <2>2. PICK i \in p - 1 .. Len(delays) : ~ (delays[i].at > at)
      BY <2>1
    <2>3. i = p - 1
      BY <1>1, <1>5, <2>2
    <2>. QED
      BY <1>1, <1>5, <1>6, <2>2, <2>3
  <1>7. ASSUME NEW i \in 1 .. p - 1 PROVE delays[i].at <= at
    <2>1. i \in DOMAIN delays /\ p - 1 \in DOMAIN delays /\ p > 1
      BY <1>1, <1>5
    <2>2. i < p - 1 => delays[i].at <= delays[p - 1].at
      BY <2>1 DEF Maps, Agree
    <2>3. i = p - 1 \/ i < p - 1
      BY <1>5
    <2>. QED
      BY <1>1, <1>6, <2>1, <2>2, <2>3
  <1>8. \E q \in 1 .. Len(delays) + 1 :
            /\ \A i \in 1 .. q - 1 : delays[i].at <= at
            /\ \A i \in q .. Len(delays) : delays[i].at > at
    BY <1>5, <1>7
  <1>. QED
    BY <1>8 DEF PlaceFor

\* insert puts the entry at its place and leaves the others in their order.
LEMMA InsertedIs ==
    ASSUME Maps(delays, subs), NEW e \in Entries
    PROVE  LET p == PlaceFor(e.at)
           IN /\ Inserted(e) \in Seq(Entries)
              /\ Len(Inserted(e)) = Len(delays) + 1
              /\ p \in 1 .. Len(delays) + 1
              /\ \A i \in 1 .. Len(delays) + 1 :
                     Inserted(e)[i] = IF i < p THEN delays[i]
                                      ELSE IF i = p THEN e ELSE delays[i - 1]
  <1>. DEFINE p == PlaceFor(e.at)
              a == SubSeq(delays, 1, p - 1)
              b == SubSeq(delays, p, Len(delays))
  <1>1. Len(delays) \in Nat /\ delays \in Seq(Entries)
    BY EntriesOf DEF Maps
  <1>2. p \in 1 .. Len(delays) + 1
    <2>1. e.at \in Nat
      BY DEF Entries
    <2>. QED
      BY <2>1, PlaceExists
  <1>. HIDE DEF p
  <1>3. /\ a \in Seq(Entries) /\ Len(a) = p - 1
        /\ \A i \in 1 .. p - 1 : a[i] = delays[i]
    BY <1>1, <1>2, SubSeqProperties
  <1>4. /\ b \in Seq(Entries) /\ Len(b) = Len(delays) - p + 1
        /\ \A i \in 1 .. Len(delays) - p + 1 : b[i] = delays[p + i - 1]
    BY <1>1, <1>2, SubSeqProperties
  <1>5. Inserted(e) = a \o <<e>> \o b
    BY DEF Inserted, Seqs!InsertAt, p
  <1>. HIDE DEF a, b
  <1>6. a \o <<e>> \in Seq(Entries) /\ Len(a \o <<e>>) = p
        /\ \A i \in 1 .. p : (a \o <<e>>)[i] = IF i < p THEN delays[i] ELSE e
    BY <1>2, <1>3
  <1>. DEFINE c == a \o <<e>>
  <1>. HIDE DEF c
  <1>7. c \o b \in Seq(Entries) /\ Len(c \o b) = Len(delays) + 1
        /\ \A i \in 1 .. Len(delays) + 1 :
               (c \o b)[i] = IF i <= p THEN c[i] ELSE b[i - p]
    <2>1. c \in Seq(Entries) /\ Len(c) = p
      BY <1>6 DEF c
    <2>2. Len(c) + Len(b) = Len(delays) + 1
      BY <1>1, <1>2, <1>4, <2>1
    <2>3. /\ c \o b \in Seq(Entries) /\ Len(c \o b) = Len(c) + Len(b)
          /\ \A i \in 1 .. Len(c) + Len(b) :
                 (c \o b)[i] = IF i <= Len(c) THEN c[i] ELSE b[i - Len(c)]
      BY <1>4, <2>1, ConcatProperties
    <2>. QED
      BY <2>1, <2>2, <2>3
  <1>. DEFINE r == c \o b
  <1>. HIDE DEF r
  <1>8. \A i \in 1 .. Len(delays) + 1 : r[i] = IF i <= p THEN c[i] ELSE b[i - p]
    BY <1>7 DEF r
  <1>9. \A i \in 1 .. Len(delays) + 1 :
            r[i] = IF i < p THEN delays[i] ELSE IF i = p THEN e ELSE delays[i - 1]
    <2>. TAKE i \in 1 .. Len(delays) + 1
    <2>1. CASE i <= p
      BY <1>2, <1>6, <1>8, <2>1 DEF c
    <2>2. CASE i > p
      <3>1. i - p \in 1 .. Len(delays) - p + 1 /\ p + (i - p) - 1 = i - 1
        BY <1>1, <1>2, <2>2
      <3>2. b[i - p] = delays[i - 1]
        BY <1>4, <3>1
      <3>3. ~ (i <= p) /\ ~ (i < p) /\ i # p
        BY <1>1, <1>2, <2>2
      <3>. QED
        BY <1>1, <1>2, <1>8, <3>2, <3>3
    <2>. QED
      BY <1>1, <1>2, <2>1, <2>2
  <1>. QED
    BY <1>2, <1>5, <1>7, <1>9 DEF p, c, r

LEMMA PositionIs ==
    ASSUME Maps(delays, subs), NEW id \in DOMAIN subs
    PROVE  /\ Position(id) \in DOMAIN delays /\ delays[Position(id)].id = id
           /\ delays[Position(id)].at = subs[id]
           /\ \A i \in DOMAIN delays : delays[i].id = id => i = Position(id)
  <1>1. \E i \in DOMAIN delays : delays[i].id = id
    BY DEF Maps, Agree
  <1>2. Position(id) \in DOMAIN delays /\ delays[Position(id)].id = id
    BY <1>1 DEF Position
  <1>3. DOMAIN delays \subseteq Nat
    BY EntriesOf DEF Maps
  <1>4. delays[Position(id)].at = subs[id]
    BY <1>2 DEF Maps, Agree
  <1>5. ASSUME NEW i \in DOMAIN delays, delays[i].id = id PROVE i = Position(id)
    <2>1. ~ (i < Position(id)) /\ ~ (Position(id) < i)
      BY <1>2, <1>5 DEF Maps, Agree
    <2>2. i \in Nat /\ Position(id) \in Nat
      BY <1>2, <1>3
    <2>. QED
      BY <2>1, <2>2
  <1>. QED
    BY <1>2, <1>4, <1>5

\* erase takes the entry out and leaves the others in their order.
LEMMA WithoutIs ==
    ASSUME Maps(delays, subs), NEW id \in DOMAIN subs
    PROVE  LET p == Position(id)
           IN /\ Without(id) \in Seq(Entries)
              /\ Len(Without(id)) = Len(delays) - 1
              /\ p \in 1 .. Len(delays)
              /\ \A i \in 1 .. Len(delays) - 1 :
                     Without(id)[i] = IF i < p THEN delays[i] ELSE delays[i + 1]
  <1>. DEFINE p == Position(id)
              a == SubSeq(delays, 1, p - 1)
              b == SubSeq(delays, p + 1, Len(delays))
  <1>1. Len(delays) \in Nat /\ delays \in Seq(Entries) /\ p \in 1 .. Len(delays)
    BY EntriesOf, PositionIs DEF Maps
  <1>. HIDE DEF p
  <1>2. /\ a \in Seq(Entries) /\ Len(a) = p - 1
        /\ \A i \in 1 .. p - 1 : a[i] = delays[i]
    BY <1>1, SubSeqProperties
  <1>3. /\ b \in Seq(Entries) /\ Len(b) = Len(delays) - p
        /\ \A i \in 1 .. Len(delays) - p : b[i] = delays[p + 1 + i - 1]
    BY <1>1, SubSeqProperties
  <1>4. Without(id) = a \o b
    BY DEF Without, Seqs!RemoveAt, p
  <1>. HIDE DEF a, b
  <1>5. a \o b \in Seq(Entries) /\ Len(a \o b) = Len(delays) - 1
        /\ \A i \in 1 .. Len(delays) - 1 :
               (a \o b)[i] = IF i <= p - 1 THEN a[i] ELSE b[i - (p - 1)]
    <2>1. Len(a) + Len(b) = Len(delays) - 1
      BY <1>1, <1>2, <1>3
    <2>2. /\ a \o b \in Seq(Entries) /\ Len(a \o b) = Len(a) + Len(b)
          /\ \A i \in 1 .. Len(a) + Len(b) :
                 (a \o b)[i] = IF i <= Len(a) THEN a[i] ELSE b[i - Len(a)]
      BY <1>2, <1>3, ConcatProperties
    <2>. QED
      BY <1>2, <2>1, <2>2
  <1>. DEFINE r == a \o b
  <1>. HIDE DEF r
  <1>6. \A i \in 1 .. Len(delays) - 1 : r[i] = IF i <= p - 1 THEN a[i] ELSE b[i - (p - 1)]
    BY <1>5 DEF r
  <1>7. \A i \in 1 .. Len(delays) - 1 :
            r[i] = IF i < p THEN delays[i] ELSE delays[i + 1]
    <2>. TAKE i \in 1 .. Len(delays) - 1
    <2>1. CASE i < p
      BY <1>1, <1>2, <1>6, <2>1
    <2>2. CASE i >= p
      <3>1. i - (p - 1) \in 1 .. Len(delays) - p /\ p + 1 + (i - (p - 1)) - 1 = i + 1
        BY <1>1, <2>2
      <3>2. b[i - (p - 1)] = delays[i + 1]
        BY <1>3, <3>1
      <3>3. ~ (i <= p - 1) /\ ~ (i < p)
        BY <1>1, <2>2
      <3>. QED
        BY <1>1, <1>6, <3>2, <3>3
    <2>. QED
      BY <1>1, <2>1, <2>2
  <1>. QED
    BY <1>1, <1>4, <1>5, <1>7 DEF p, r

-----------------------------------------------------------------------------
\* What the changes of the maps keep.

LEMMA AddingKeepsMaps ==
    ASSUME Maps(delays, subs), NEW alarm \in 0 .. MaxTime, NEW id \in Ids,
           id \notin DOMAIN subs
    PROVE  LET d == Inserted([at |-> alarm, id |-> id])
               s == [i \in DOMAIN subs \cup {id} |-> IF i = id THEN alarm ELSE subs[i]]
           IN /\ Maps(d, s) /\ d # <<>>
              /\ d[1] = delays[1] \/ delays = <<>> \/ delays[1].at > alarm
  <1>. DEFINE e == [at |-> alarm, id |-> id]
              d == Inserted(e)
              s == [i \in DOMAIN subs \cup {id} |-> IF i = id THEN alarm ELSE subs[i]]
              p == PlaceFor(alarm)
              n == Len(delays)
  <1>1. /\ n \in Nat /\ DOMAIN delays = 1 .. n
        /\ \A i \in 1 .. n : delays[i].at \in Nat /\ delays[i].id \in Ids
        /\ delays = <<>> <=> n = 0
    BY EntriesOf DEF Maps
  <1>2. /\ p \in 1 .. n + 1
        /\ \A i \in 1 .. p - 1 : delays[i].at <= alarm
        /\ \A i \in p .. n : delays[i].at > alarm
    BY PlaceExists
  <1>3. e \in Entries /\ e.at = alarm /\ e.id = id
    BY DEF Entries
  <1>4. /\ d \in Seq(Entries) /\ Len(d) = n + 1
        /\ \A i \in 1 .. n + 1 :
               d[i] = IF i < p THEN delays[i] ELSE IF i = p THEN e ELSE delays[i - 1]
    BY <1>3, InsertedIs
  <1>5. DOMAIN d = 1 .. n + 1 /\ d # <<>>
    <2>1. DOMAIN d = 1 .. Len(d) /\ (d = <<>> <=> Len(d) = 0)
      BY <1>4, EntriesOf
    <2>. QED
      BY <1>1, <1>4, <2>1
  <1>. HIDE DEF d, e, p, n
  <1>6. /\ DOMAIN s = DOMAIN subs \cup {id} /\ s[id] = alarm
        /\ \A i \in DOMAIN subs : s[i] = subs[i]
    OBVIOUS
  <1>. HIDE DEF s
  <1>7. /\ \A i \in 1 .. n : delays[i].id \in DOMAIN subs /\ subs[delays[i].id] = delays[i].at
        /\ \A j \in DOMAIN subs : \E i \in 1 .. n : delays[i].id = j
        /\ \A i, j \in 1 .. n :
               i < j => delays[i].id # delays[j].id /\ delays[i].at <= delays[j].at
    BY <1>1 DEF Maps, Agree
  <1>8. ASSUME NEW i \in DOMAIN d PROVE d[i].id \in DOMAIN s /\ s[d[i].id] = d[i].at
    <2>1. CASE i < p
      <3>1. i \in 1 .. n /\ d[i] = delays[i]
        BY <1>1, <1>2, <1>4, <1>5, <2>1
      <3>. QED
        BY <1>6, <1>7, <3>1
    <2>2. CASE i = p
      <3>1. d[i] = e
        BY <1>1, <1>2, <1>4, <1>5, <2>2
      <3>. QED
        BY <1>3, <1>6, <3>1
    <2>3. CASE i > p
      <3>1. i - 1 \in 1 .. n /\ d[i] = delays[i - 1]
        BY <1>1, <1>2, <1>4, <1>5, <2>3
      <3>. QED
        BY <1>6, <1>7, <3>1
    <2>. QED
      BY <1>1, <1>2, <1>5, <2>1, <2>2, <2>3
  <1>9. ASSUME NEW j \in DOMAIN s PROVE \E i \in DOMAIN d : d[i].id = j
    <2>1. CASE j = id
      <3>1. p \in DOMAIN d /\ d[p] = e
        BY <1>1, <1>2, <1>4, <1>5
      <3>. QED
        BY <1>3, <2>1, <3>1
    <2>2. CASE j # id
      <3>1. PICK k \in 1 .. n : delays[k].id = j
        BY <1>6, <1>7, <2>2
      <3>2. k < p => k \in DOMAIN d /\ d[k] = delays[k]
        BY <1>1, <1>2, <1>4, <1>5
      <3>3. ~ (k < p) => k + 1 \in DOMAIN d /\ d[k + 1] = delays[k]
        BY <1>1, <1>2, <1>4, <1>5
      <3>. QED
        BY <3>1, <3>2, <3>3
    <2>. QED
      BY <2>1, <2>2
  <1>10. ASSUME NEW i \in DOMAIN d, NEW j \in DOMAIN d, i < j
         PROVE  d[i].id # d[j].id /\ d[i].at <= d[j].at
    <2>1. i \in 1 .. n + 1 /\ j \in 1 .. n + 1
      BY <1>5
    <2>2. CASE i < p
      <3>1. i \in 1 .. n /\ d[i] = delays[i] /\ d[i].at <= alarm
        BY <1>1, <1>2, <1>4, <2>1, <2>2
      <3>2. CASE j = p
        <4>1. d[j] = e
          BY <1>1, <1>2, <1>4, <2>1, <3>2
        <4>. QED
          BY <1>3, <1>7, <3>1, <4>1
      <3>3. CASE j < p
        <4>1. j \in 1 .. n /\ d[j] = delays[j]
          BY <1>1, <1>2, <1>4, <2>1, <3>3
        <4>. QED
          BY <1>7, <1>10, <3>1, <4>1
      <3>4. CASE j > p
        <4>1. j - 1 \in 1 .. n /\ i < j - 1 /\ d[j] = delays[j - 1]
          BY <1>1, <1>2, <1>4, <2>1, <2>2, <3>4
        <4>. QED
          BY <1>7, <3>1, <4>1
      <3>. QED
        BY <1>2, <2>1, <3>2, <3>3, <3>4
    <2>3. CASE i = p
      <3>1. d[i] = e /\ j - 1 \in p .. n /\ j - 1 \in 1 .. n /\ d[j] = delays[j - 1]
        BY <1>1, <1>2, <1>4, <1>10, <2>1, <2>3
      <3>2. delays[j - 1].at > alarm /\ delays[j - 1].at \in Nat
        BY <1>1, <1>2, <3>1
      <3>. QED
        BY <1>3, <1>7, <3>1, <3>2
    <2>4. CASE i > p
      <3>1. /\ i - 1 \in 1 .. n /\ j - 1 \in 1 .. n /\ i - 1 < j - 1
            /\ d[i] = delays[i - 1] /\ d[j] = delays[j - 1]
        BY <1>1, <1>2, <1>4, <1>10, <2>1, <2>4
      <3>. QED
        BY <1>7, <3>1
    <2>. QED
      BY <1>2, <2>1, <2>2, <2>3, <2>4
  <1>11. d[1] = delays[1] \/ n = 0 \/ delays[1].at > alarm
    <2>1. p = 1 /\ n # 0 => delays[1].at > alarm
      BY <1>1, <1>2
    <2>2. p # 1 => d[1] = delays[1]
      BY <1>1, <1>2, <1>4
    <2>. QED
      BY <2>1, <2>2
  <1>12. DOMAIN s \subseteq Ids /\ \A i \in DOMAIN s : s[i] \in 0 .. MaxTime
    BY <1>6 DEF Maps
  <1>13. Maps(d, s)
    BY <1>4, <1>8, <1>9, <1>10, <1>12 DEF Maps, Agree
  <1>. QED
    BY <1>1, <1>5, <1>11, <1>13 DEF d, s, e, n

LEMMA RemovingKeepsMaps ==
    ASSUME Maps(delays, subs), NEW id \in DOMAIN subs
    PROVE  LET d == Without(id)
               s == [i \in DOMAIN subs \ {id} |-> subs[i]]
           IN /\ Maps(d, s)
              /\ delays # <<>>
              /\ delays[1].id # id => d[1] = delays[1]
              /\ Len(delays) > 1 /\ delays[1].id = id => d # <<>> /\ d[1] = delays[2]
  <1>. DEFINE d == Without(id)
              s == [i \in DOMAIN subs \ {id} |-> subs[i]]
              p == Position(id)
              n == Len(delays)
  <1>1. /\ n \in Nat /\ DOMAIN delays = 1 .. n
        /\ \A i \in 1 .. n : delays[i].at \in Nat /\ delays[i].id \in Ids
        /\ delays = <<>> <=> n = 0
    BY EntriesOf DEF Maps
  <1>2. p \in 1 .. n /\ \A i \in 1 .. n : delays[i].id = id <=> i = p
    BY <1>1, PositionIs
  <1>3. /\ d \in Seq(Entries) /\ Len(d) = n - 1
        /\ \A i \in 1 .. n - 1 : d[i] = IF i < p THEN delays[i] ELSE delays[i + 1]
    BY WithoutIs
  <1>4. DOMAIN d = 1 .. n - 1 /\ (d = <<>> <=> n = 1)
    <2>1. DOMAIN d = 1 .. Len(d) /\ (d = <<>> <=> Len(d) = 0)
      BY <1>3, EntriesOf
    <2>. QED
      BY <1>1, <1>3, <2>1
  <1>. HIDE DEF d, p, n
  <1>5. /\ DOMAIN s = DOMAIN subs \ {id}
        /\ \A i \in DOMAIN s : s[i] = subs[i]
    OBVIOUS
  <1>. HIDE DEF s
  <1>6. /\ \A i \in 1 .. n : delays[i].id \in DOMAIN subs /\ subs[delays[i].id] = delays[i].at
        /\ \A j \in DOMAIN subs : \E i \in 1 .. n : delays[i].id = j
        /\ \A i, j \in 1 .. n :
               i < j => delays[i].id # delays[j].id /\ delays[i].at <= delays[j].at
    BY <1>1 DEF Maps, Agree
  <1>7. ASSUME NEW i \in DOMAIN d PROVE d[i].id \in DOMAIN s /\ s[d[i].id] = d[i].at
    <2>1. PICK k \in 1 .. n : k # p /\ d[i] = delays[k]
      <3>1. i < p => i \in 1 .. n /\ i # p /\ d[i] = delays[i]
        BY <1>1, <1>2, <1>3, <1>4
      <3>2. ~ (i < p) => i + 1 \in 1 .. n /\ i + 1 # p /\ d[i] = delays[i + 1]
        BY <1>1, <1>2, <1>3, <1>4
      <3>. QED
        BY <3>1, <3>2
    <2>. QED
      BY <1>2, <1>5, <1>6, <2>1
  <1>8. ASSUME NEW j \in DOMAIN s PROVE \E i \in DOMAIN d : d[i].id = j
    <2>1. PICK k \in 1 .. n : delays[k].id = j
      BY <1>5, <1>6
    <2>2. k # p
      BY <1>2, <1>5, <2>1
    <2>3. k < p => k \in DOMAIN d /\ d[k] = delays[k]
      BY <1>1, <1>2, <1>3, <1>4
    <2>4. k > p => k - 1 \in DOMAIN d /\ d[k - 1] = delays[k]
      BY <1>1, <1>2, <1>3, <1>4
    <2>. QED
      BY <1>2, <2>1, <2>2, <2>3, <2>4
  <1>9. ASSUME NEW i \in DOMAIN d, NEW j \in DOMAIN d, i < j
        PROVE  d[i].id # d[j].id /\ d[i].at <= d[j].at
    <2>1. i \in 1 .. n - 1 /\ j \in 1 .. n - 1
      BY <1>4
    <2>2. PICK k \in {i, i + 1} : k = IF i < p THEN i ELSE i + 1
      OBVIOUS
    <2>3. PICK l \in {j, j + 1} : l = IF j < p THEN j ELSE j + 1
      OBVIOUS
    <2>4. d[i] = delays[k] /\ d[j] = delays[l]
      BY <1>3, <2>1, <2>2, <2>3
    <2>5. k \in 1 .. n /\ l \in 1 .. n /\ k < l
      BY <1>1, <1>2, <1>9, <2>1, <2>2, <2>3
    <2>. QED
      BY <1>6, <2>4, <2>5
  <1>10. DOMAIN s \subseteq Ids /\ \A i \in DOMAIN s : s[i] \in 0 .. MaxTime
    BY <1>5 DEF Maps
  <1>11. Maps(d, s)
    BY <1>3, <1>7, <1>8, <1>9, <1>10 DEF Maps, Agree
  <1>12. n # 0
    BY <1>1, <1>2
  <1>13. ASSUME delays[1].id # id PROVE d[1] = delays[1]
    BY <1>1, <1>2, <1>3, <1>13
  <1>14. ASSUME n > 1, delays[1].id = id PROVE d # <<>> /\ d[1] = delays[2]
    <2>1. p = 1
      BY <1>1, <1>2, <1>14
    <2>. QED
      BY <1>1, <1>3, <1>4, <1>14, <2>1
  <1>. QED
    BY <1>1, <1>11, <1>12, <1>13, <1>14 DEF d, s, n

\* remove() spins only when two alarms are the same, and never for the first.
LEMMA SpinsOnTie ==
    ASSUME Maps(delays, subs), NEW id \in Ids, Spins(id)
    PROVE  /\ \E i, j \in DOMAIN delays : i < j /\ delays[i].at = delays[j].at
           /\ delays[1].id # id
  <1>. DEFINE P(k) == delays[k].at = subs[id] /\ \A j \in 1 .. k - 1 : delays[j].at # subs[id]
              n == Len(delays)
              T == {k \in 1 .. n : delays[k].at = subs[id]}
  <1>1. id \in DOMAIN subs
    BY DEF Spins, Subscribed
  <1>2. n \in Nat /\ DOMAIN delays = 1 .. n
    BY EntriesOf DEF Maps
  <1>3. PICK p \in 1 .. n : delays[p].id = id /\ delays[p].at = subs[id]
    BY <1>1, <1>2, PositionIs
  <1>4. PICK q \in T : \A r \in T : ~ (<<r, q>> \in OpToRel(<, Nat))
    <2>1. p \in T /\ T \subseteq Nat
      BY <1>3
    <2>. HIDE DEF T
    <2>. QED
      BY <2>1, WFMin, NatLessThanWellFounded
  <1>5. \A r \in T : ~ (r < q)
    <2>1. T \subseteq Nat
      OBVIOUS
    <2>. HIDE DEF T
    <2>. QED
      BY <1>4, <2>1 DEF OpToRel
  <1>6. q \in DOMAIN delays /\ P(q)
    BY <1>2, <1>5
  <1>. DEFINE f == CHOOSE k \in DOMAIN delays : P(k)
  <1>7. f \in DOMAIN delays /\ P(f)
    BY <1>6
  <1>8. Found(subs[id]) = delays[f]
    BY DEF Found
  <1>. HIDE DEF f, T
  <1>9. delays[f].id # id
    BY <1>8 DEF Spins
  <1>10. f < p
    <2>1. f # p
      BY <1>3, <1>9
    <2>2. ~ (p < f)
      BY <1>2, <1>3, <1>7
    <2>. QED
      BY <1>2, <1>7, <2>1, <2>2
  <1>11. p # 1
    BY <1>2, <1>7, <1>10
  <1>12. 1 < p
    BY <1>2, <1>3, <1>11
  <1>13. delays[1].id # id
    <2>1. 1 \in DOMAIN delays
      BY <1>2, <1>3
    <2>. QED
      BY <1>2, <1>3, <1>12, <2>1 DEF Maps, Agree
  <1>. QED
    BY <1>2, <1>3, <1>7, <1>10, <1>13

-----------------------------------------------------------------------------
(***************************************************************************)
(* The inductive invariant.                                                *)
(***************************************************************************)

\* Nothing happens before the object is there.
BuiltFirst ==
    client[Owner] = "unbuilt" =>
        /\ delays = <<>> /\ leaving = "no" /\ task = "none"
        /\ \A c \in Clients : client[c] = "unbuilt"

\* run() is a call of the worker.  While it goes over the alarms its iterator
\* is at a subscribed id, and at the first one when that is due.
RunInv ==
    /\ task # "none" => worker = "calling"
    /\ now <= clock
    /\ iter \in Ids => iter \in DOMAIN subs
    /\ iter # End => task \in {"scan", "action", "spin", "undefined"}
    /\ acting # End => task \in {"action", "spin"}
    /\ task \in {"scan", "action"} /\ iter \in Ids /\ subs[iter] <= now =>
           delays[1].id = iter

\* How far the destructors are, and whether the worker has been joined.
Left ==
    /\ maps <=> leaving \in {"no", "derived"}
    /\ JoinsFirst =>
         /\ leaving = "derived" =>
                \/ client[Owner] = "joining"
                \/ client[Owner] = "idle" /\ worker \in {"none", "done"}
         /\ leaving \in {"timer", "thread"} => worker \in {"none", "done"}

TimerInv ==
    /\ Inv
    /\ TimerTypeOK
    /\ Maps(delays, subs)
    /\ BuiltFirst
    /\ PausedOnlyWhenIdle
    /\ HangsOnlyOnTie
    /\ RunInv
    /\ Left

USE ThreadAssumption, TimerAssumption DEF MaxBegun

LEMMA TimerInvInit == TimerInit => TimerInv
  <1>. SUFFICES ASSUME TimerInit PROVE TimerInv
    OBVIOUS
  <1>1. Inv
    BY InvInit DEF TimerInit
  <1>2. delays = <<>> /\ subs = <<>> /\ DOMAIN delays = {} /\ DOMAIN subs = {}
    BY DEF TimerInit
  <1>3. TimerTypeOK
    BY <1>2 DEF TimerInit, TimerTypeOK, Tasks
  <1>4. Maps(delays, subs)
    BY <1>2, <1>3 DEF TimerTypeOK, Maps, Entries, Agree
  <1>5. BuiltFirst /\ PausedOnlyWhenIdle
    BY DEF BuiltFirst, PausedOnlyWhenIdle, TimerInit, Init
  <1>6. HangsOnlyOnTie
    BY DEF HangsOnlyOnTie, TimerInit
  <1>7. RunInv /\ Left
    BY DEF RunInv, Left, TimerInit
  <1>. QED
    BY <1>1, <1>3, <1>4, <1>5, <1>6, <1>7 DEF TimerInv

\* start(), called with the lock.
LEMMA StartKeepsInv ==
    ASSUME Inv, StartBody
    PROVE  /\ Inv'
           /\ state' # "PAUSED"
           /\ worker \in {"none", "done", "calling"} => worker' = worker
           /\ client' = client
  <1>1. CASE state = "PAUSED"
    <2>. USE <1>1 DEF StartBody, Inv, TypeOK, States, WorkerLabels, BuiltOnce,
               SleepsOnlyWhilePaused, Waiting, WorkerEndsBeforeObject, OneMoreInv, object,
               locals, clients, history, Woken
    <2>1. Inv'
      OBVIOUS
    <2>2. state' # "PAUSED" /\ client' = client
      OBVIOUS
    <2>. QED
      BY <2>1, <2>2
  <1>2. CASE state # "PAUSED"
    BY <1>2, InvNext DEF StartBody, vars, object, locals, clients, history
  <1>. QED
    BY <1>1, <1>2

\* run() returns to the thread, and may pause it before.
LEMMA ReturnKeepsInv ==
    ASSUME Inv, worker = "calling", NEW goOn \in BOOLEAN, RunReturns(goOn),
           \/ UNCHANGED <<state, begun>>
           \/ goOn /\ state = "RUNNING" /\ state' = "PAUSED" /\ begun' = 0
    PROVE  /\ Inv'
           /\ client' = client /\ worker' \in {"check", "exiting"}
  <1>. USE DEF RunReturns, Inv, TypeOK, States, WorkerLabels, BuiltOnce, SleepsOnlyWhilePaused,
               Waiting, WorkerEndsBeforeObject, OneMoreInv, object, locals, clients,
               history
  <1>1. Inv'
    OBVIOUS
  <1>. QED
    BY <1>1

\* The steps of the thread itself.
LEMMA ThreadKeepsInv ==
    ASSUME Inv,
           \/ Construct(TRUE) \/ ConstructFails \/ SpuriousWake
           \/ JoinReturns(Owner) \/ Join(Owner) \/ ThreadStep \/ UNCHANGED vars
    PROVE  Inv'
  <1>1. TRUE \in StartsPaused /\ Owner \in Clients
    OBVIOUS
  <1>2. CASE Construct(TRUE) \/ ConstructFails \/ SpuriousWake \/ UNCHANGED vars
    BY <1>1, <1>2, InvNext DEF Next
  <1>3. CASE JoinReturns(Owner) \/ Join(Owner)
    BY <1>1, <1>3, ClientKeepsInv DEF Client
  <1>4. CASE ThreadStep
    BY <1>4, WorkerKeepsInv DEF ThreadStep, Worker
  <1>. QED
    BY <1>2, <1>3, <1>4

\* add() under the lock keeps what concerns the maps and the thread, whatever
\* else goes on.
LEMMA AddKeeps ==
    ASSUME TimerInv, client[Owner] # "unbuilt", NEW delay \in Delays, NEW id \in Ids,
           delay > 0, clock + delay <= MaxTime, AddBody(delay, id)
    PROVE  /\ Inv' /\ Maps(delays, subs)' /\ PausedOnlyWhenIdle'
           /\ worker \in {"none", "done", "calling"} => worker' = worker
           /\ client' = client
           /\ DOMAIN subs \subseteq DOMAIN subs' /\ \A i \in DOMAIN subs : subs'[i] = subs[i]
           /\ \A i \in DOMAIN subs : subs[i] <= now /\ delays[1].id = i => delays'[1].id = i
  <1>. DEFINE alarm == clock + delay
  <1>1. alarm \in 0 .. MaxTime /\ alarm > now
    <2>1. clock \in 0 .. MaxTime /\ now \in 0 .. MaxTime
      BY DEF TimerInv, TimerTypeOK
    <2>2. now <= clock
      BY DEF TimerInv, RunInv
    <2>3. delay \in Nat /\ MaxTime \in Nat
      BY TimerAssumption
    <2>. QED
      BY <2>1, <2>2, <2>3
  <1>2. Inv /\ Maps(delays, subs) /\ PausedOnlyWhenIdle
    BY DEF TimerInv
  <1>. HIDE DEF alarm
  <1>3. CASE Subscribed(id)
    <2>1. UNCHANGED vars /\ delays' = delays /\ subs' = subs
      BY <1>3 DEF AddBody
    <2>2. state' = state /\ worker' = worker /\ client' = client
      BY <2>1 DEF vars, object, clients
    <2>3. Inv'
      BY <1>2, <2>1, ThreadKeepsInv
    <2>. QED
      BY <1>2, <2>1, <2>2, <2>3 DEF PausedOnlyWhenIdle
  <1>4. CASE ~Subscribed(id)
    <2>. DEFINE d == Inserted([at |-> alarm, id |-> id])
                s == [i \in DOMAIN subs \cup {id} |-> IF i = id THEN alarm ELSE subs[i]]
    <2>1. /\ IF NeedSetTime(alarm) THEN StartBody ELSE UNCHANGED vars
          /\ delays' = d /\ subs' = s
      BY <1>4 DEF AddBody, alarm
    <2>2. /\ Maps(d, s) /\ d # <<>>
          /\ d[1] = delays[1] \/ delays = <<>> \/ delays[1].at > alarm
      BY <1>1, <1>2, <1>4, AddingKeepsMaps DEF Subscribed
    <2>3. DOMAIN s = DOMAIN subs \cup {id} /\ \A i \in DOMAIN subs : s[i] = subs[i]
      BY <1>4 DEF Subscribed
    <2>. HIDE DEF d, s
    <2>4. /\ Inv' /\ client' = client
          /\ worker \in {"none", "done", "calling"} => worker' = worker
          /\ state' # "PAUSED"
      <3>1. CASE NeedSetTime(alarm)
        BY <1>2, <2>1, <3>1, StartKeepsInv
      <3>2. CASE ~NeedSetTime(alarm)
        <4>1. UNCHANGED vars /\ state # "PAUSED"
          BY <1>2, <2>1, <3>2 DEF NeedSetTime, PausedOnlyWhenIdle
        <4>2. state' = state /\ worker' = worker /\ client' = client
          BY <4>1 DEF vars, object, clients
        <4>. QED
          BY <1>2, <4>1, <4>2, ThreadKeepsInv
      <3>. QED
        BY <3>1, <3>2
    <2>5. ASSUME NEW i \in DOMAIN subs, subs[i] <= now, delays[1].id = i
          PROVE  d[1].id = i
      <3>1. delays # <<>> /\ Len(delays) \in Nat /\ DOMAIN delays = 1 .. Len(delays)
            /\ (delays = <<>> <=> Len(delays) = 0)
        BY <1>2, EntriesOf, RemovingKeepsMaps DEF Maps
      <3>2. 1 \in DOMAIN delays /\ delays[1].at \in Nat
        BY <1>2, <3>1, EntriesOf DEF Maps
      <3>3. delays[1].at = subs[i]
        BY <1>2, <2>5, <3>2 DEF Maps, Agree
      <3>4. now \in Nat
        BY DEF TimerInv, TimerTypeOK
      <3>. QED
        BY <1>1, <2>2, <2>5, <3>1, <3>2, <3>3, <3>4
    <2>. QED
      BY <2>1, <2>2, <2>3, <2>4, <2>5 DEF PausedOnlyWhenIdle
  <1>. QED
    BY <1>3, <1>4

\* remove() under the lock.
LEMMA RemoveKeeps ==
    ASSUME Maps(delays, subs), PausedOnlyWhenIdle, NEW id \in Ids, RemoveBody(id),
           state' = state
    PROVE  /\ Maps(delays, subs)' /\ PausedOnlyWhenIdle'
           /\ DOMAIN subs' = DOMAIN subs \ {id} /\ \A i \in DOMAIN subs' : subs'[i] = subs[i]
           /\ delays = <<>> => delays' = <<>>
           /\ \A i \in DOMAIN subs' : delays[1].id = i => delays'[1].id = i
  <1>1. CASE Subscribed(id)
    <2>1. delays' = Without(id) /\ subs' = [i \in DOMAIN subs \ {id} |-> subs[i]]
      BY <1>1 DEF RemoveBody
    <2>2. /\ Maps(delays, subs)' /\ delays # <<>>
          /\ delays[1].id # id => delays'[1] = delays[1]
      BY <1>1, <2>1, RemovingKeepsMaps DEF Subscribed
    <2>. QED
      BY <2>1, <2>2 DEF PausedOnlyWhenIdle
  <1>2. CASE ~Subscribed(id)
    BY <1>2 DEF RemoveBody, PausedOnlyWhenIdle, Subscribed
  <1>. QED
    BY <1>1, <1>2

-----------------------------------------------------------------------------
\* The steps.

\* A step that leaves the timer alone.
LEMMA ThreadStepsKeepInv ==
    ASSUME TimerInv, UNCHANGED timerVars,
           \/ Construct(TRUE) \/ ConstructFails \/ SpuriousWake
           \/ JoinReturns(Owner) \/ ThreadStep \/ UNCHANGED vars
    PROVE  TimerInv'
  <1>. USE DEF object, locals, clients, history
  <1>1. Inv' /\ Inv
    BY ThreadKeepsInv DEF TimerInv
  <1>2. /\ state' = "PAUSED" => state = "PAUSED" \/ client[Owner] = "unbuilt"
        /\ worker = "calling" => worker' = "calling"
        /\ worker \in {"none", "done"} /\ client[Owner] # "unbuilt" => worker' = worker
        /\ client' = client \/ client[Owner] = "unbuilt" \/ client[Owner] = "destroying"
               \/ (client[Owner] = "joining" /\ worker \in {"none", "done"})
        /\ client' = client \/ client'[Owner] = "idle"
    <2>1. CASE Construct(TRUE) \/ ConstructFails
      BY <1>1, <2>1 DEF Construct, ConstructFails, Inv, BuiltOnce
    <2>2. CASE SpuriousWake
      BY <2>2 DEF SpuriousWake, Waiting, Woken
    <2>3. CASE JoinReturns(Owner)
      <3>1. /\ client[Owner] \in {"joining", "destroying"} /\ worker \in {"none", "done"}
            /\ state' = state /\ worker' = worker
        BY <1>1, <2>3 DEF JoinReturns, Joinable, Inv, WorkerEndsBeforeObject
      <3>2. client'[Owner] = "idle"
        BY <1>1, <2>3 DEF JoinReturns, Inv, TypeOK
      <3>. QED
        BY <3>1, <3>2
    <2>4. CASE ThreadStep
      BY <2>4 DEF ThreadStep, WorkerEnters, WorkerSnapshots, WorkerChecks, WorkerRefreshes,
                  WorkerExits, WorkerLoops, Snapshot
    <2>5. CASE UNCHANGED vars
      BY <2>5 DEF vars
    <2>. QED
      BY <2>1, <2>2, <2>3, <2>4, <2>5
  <1>3. /\ delays' = delays /\ subs' = subs /\ clock' = clock /\ lock' = lock
        /\ task' = task /\ now' = now /\ iter' = iter /\ until' = until /\ acting' = acting
        /\ maps' = maps /\ leaving' = leaving
    BY DEF timerVars
  <1>4. TimerTypeOK' /\ Maps(delays, subs)' /\ HangsOnlyOnTie'
    BY <1>3 DEF TimerInv, TimerTypeOK, HangsOnlyOnTie
  <1>5. BuiltFirst' /\ PausedOnlyWhenIdle'
    BY <1>2, <1>3 DEF TimerInv, BuiltFirst, PausedOnlyWhenIdle
  <1>6. RunInv'
    BY <1>2, <1>3 DEF TimerInv, RunInv
  <1>7. Left'
    <2>1. leaving \in {"derived", "timer", "thread"} => client[Owner] # "unbuilt"
      BY DEF TimerInv, BuiltFirst
    <2>2. ASSUME JoinsFirst, leaving = "derived"
          PROVE  \/ client'[Owner] = "joining"
                 \/ client'[Owner] = "idle" /\ worker' \in {"none", "done"}
      BY <1>2, <2>1, <2>2 DEF TimerInv, Left
    <2>3. ASSUME JoinsFirst, leaving \in {"timer", "thread"} PROVE worker' \in {"none", "done"}
      BY <1>2, <2>1, <2>3 DEF TimerInv, Left
    <2>. QED
      BY <1>3, <2>2, <2>3 DEF TimerInv, Left
  <1>. QED
    BY <1>1, <1>4, <1>5, <1>6, <1>7 DEF TimerInv

\* The worker's place and the state when only the timer's variables change.
LEMMA ThreadUnchanged ==
    ASSUME Inv, UNCHANGED vars
    PROVE  Inv' /\ state' = state /\ worker' = worker /\ client' = client
               /\ destroyed' = destroyed
  BY ThreadKeepsInv DEF vars, object, clients

LEMMA RunReturnsKeepsInv ==
    ASSUME TimerInv, RunPauses \/ RunEnds \/ RunWakes PROVE TimerInv'
  <1>1. /\ worker = "calling" /\ Inv /\ client[Owner] # "unbuilt"
    BY DEF TimerInv, RunInv, BuiltFirst, Inv, BuiltOnce, RunPauses, RunEnds, RunWakes
  <1>2. PICK goOn \in BOOLEAN :
            /\ RunReturns(goOn)
            /\ \/ UNCHANGED <<state, begun>>
               \/ goOn /\ state = "RUNNING" /\ state' = "PAUSED" /\ begun' = 0 /\ delays = <<>>
    BY DEF RunPauses, RunEnds, RunWakes
  <1>3. Inv' /\ client' = client /\ worker' \in {"check", "exiting"}
    BY <1>1, <1>2, ReturnKeepsInv
  <1>4. /\ delays' = delays /\ subs' = subs /\ clock' = clock
        /\ maps' = maps /\ leaving' = leaving
        /\ task' = "none" /\ lock' = NoLock
        /\ now' = 0 /\ iter' = End /\ until' = 0 /\ acting' = End
    BY <1>2 DEF RunReturns
  <1>5. TimerTypeOK' /\ Maps(delays, subs)' /\ HangsOnlyOnTie'
    BY <1>4 DEF TimerInv, TimerTypeOK, HangsOnlyOnTie, Tasks
  <1>6. BuiltFirst' /\ PausedOnlyWhenIdle'
    BY <1>1, <1>2, <1>3, <1>4 DEF TimerInv, BuiltFirst, PausedOnlyWhenIdle
  <1>7. RunInv' /\ Left'
    BY <1>1, <1>3, <1>4 DEF TimerInv, TimerTypeOK, RunInv, Left
  <1>. QED
    BY <1>3, <1>5, <1>6, <1>7 DEF TimerInv

LEMMA RunBeginsKeepsInv == ASSUME TimerInv, RunBegins PROVE TimerInv'
  <1>1. /\ Inv' /\ state' = state /\ worker' = worker /\ client' = client
        /\ worker = "calling" /\ client[Owner] # "unbuilt"
    BY ThreadUnchanged DEF RunBegins, TimerInv, Inv, BuiltOnce
  <1>2. /\ delays' = delays /\ subs' = subs /\ clock' = clock /\ delays # <<>>
        /\ maps' = maps /\ leaving' = leaving /\ until' = until /\ acting' = acting
        /\ task = "none" /\ task' = "scan" /\ lock' = RunLock /\ now' = clock /\ iter' = First
    BY DEF RunBegins
  <1>3. First = delays[1].id /\ First \in Ids /\ First \in DOMAIN subs
    <2>1. /\ delays = <<>> <=> Len(delays) = 0
          /\ Len(delays) \in Nat /\ DOMAIN delays = 1 .. Len(delays)
          /\ \A i \in 1 .. Len(delays) : delays[i].id \in Ids
      BY EntriesOf DEF TimerInv, Maps
    <2>2. 1 \in DOMAIN delays
      BY <1>2, <2>1
    <2>. QED
      BY <1>2, <2>1, <2>2 DEF First, TimerInv, Maps, Agree
  <1>4. TimerTypeOK' /\ Maps(delays, subs)' /\ HangsOnlyOnTie'
    BY <1>2, <1>3 DEF TimerInv, TimerTypeOK, HangsOnlyOnTie, Tasks
  <1>5. BuiltFirst' /\ PausedOnlyWhenIdle'
    BY <1>1, <1>2 DEF TimerInv, BuiltFirst, PausedOnlyWhenIdle
  <1>6. acting = End
    BY <1>2 DEF TimerInv, RunInv
  <1>7. RunInv' /\ Left'
    BY <1>1, <1>2, <1>3, <1>6 DEF TimerInv, TimerTypeOK, RunInv, Left
  <1>. QED
    BY <1>1, <1>4, <1>5, <1>7 DEF TimerInv

\* An element that is due is the first one: run() finds it at once, and its
\* iterator goes on to the one that is first afterwards.
LEMMA FiresFirst ==
    ASSUME TimerInv, RunFires
    PROVE  /\ iter \in DOMAIN subs /\ delays[1].id = iter
           /\ subs[iter] <= now /\ ~Spins(iter)
           /\ RemoveBody(iter) /\ task' = "action" /\ acting' = iter
           /\ iter' = After(iter) /\ iter' \in Ids \cup {End}
           /\ Maps(delays, subs)' /\ PausedOnlyWhenIdle'
           /\ iter' \in Ids => iter' \in DOMAIN subs' /\ delays'[1].id = iter'
  <1>1. /\ task = "scan" /\ iter \in Ids /\ delays[Position(iter)].at <= now
        /\ iter' = After(iter) /\ UNCHANGED vars
        /\ IF Spins(iter) THEN task' = "spin" /\ UNCHANGED <<delays, subs, acting>>
           ELSE RemoveBody(iter) /\ task' = "action" /\ acting' = iter
    BY DEF RunFires
  <1>2. iter \in DOMAIN subs /\ Maps(delays, subs)
    BY <1>1 DEF TimerInv, RunInv
  <1>3. subs[iter] <= now
    BY <1>1, <1>2, PositionIs
  <1>4. delays[1].id = iter
    BY <1>1, <1>3 DEF TimerInv, RunInv
  <1>5. ~Spins(iter)
    BY <1>1, <1>2, <1>4, SpinsOnTie
  <1>6. /\ RemoveBody(iter) /\ task' = "action" /\ acting' = iter /\ state' = state
    BY <1>1, <1>5, ThreadUnchanged DEF TimerInv
  <1>7. Maps(delays, subs)' /\ PausedOnlyWhenIdle'
    BY <1>1, <1>2, <1>6, RemoveKeeps DEF TimerInv
  <1>8. /\ Len(delays) \in Nat /\ DOMAIN delays = 1 .. Len(delays)
        /\ \A i \in 1 .. Len(delays) : delays[i].id \in Ids
        /\ delays = <<>> <=> Len(delays) = 0
    BY <1>2, EntriesOf DEF Maps
  <1>9. Position(iter) = 1
    <2>1. 1 \in DOMAIN delays
      BY <1>2, <1>8, PositionIs
    <2>. QED
      BY <1>2, <1>4, <2>1, PositionIs
  <1>10. iter' = IF Len(delays) = 1 THEN End ELSE delays[2].id
    BY <1>1, <1>9 DEF After
  <1>11. ASSUME Len(delays) # 1
         PROVE  iter' \in Ids /\ iter' \in DOMAIN subs' /\ delays'[1].id = iter'
    <2>1. Len(delays) > 1
      BY <1>2, <1>8, <1>11, PositionIs
    <2>2. delays' = Without(iter)
      BY <1>2, <1>6 DEF RemoveBody, Subscribed
    <2>3. delays' # <<>> /\ delays'[1] = delays[2]
      BY <1>2, <1>4, <2>1, <2>2, RemovingKeepsMaps
    <2>4. iter' = delays[2].id /\ iter' \in Ids
      BY <1>8, <1>10, <1>11, <2>1
    <2>5. 1 \in DOMAIN delays'
      <3>1. delays' \in Seq(Entries)
        BY <1>7 DEF Maps, Entries
      <3>. QED
        BY <2>3, <3>1, EntriesOf
    <2>6. delays'[1].id \in DOMAIN subs'
      BY <1>7, <2>5 DEF Maps, Agree
    <2>. QED
      BY <2>3, <2>4, <2>6
  <1>12. iter' \in Ids \cup {End}
    BY <1>10, <1>11
  <1>. QED
    BY <1>1, <1>2, <1>3, <1>4, <1>5, <1>6, <1>7, <1>10, <1>11, <1>12

LEMMA RunFiresKeepsInv == ASSUME TimerInv, RunFires PROVE TimerInv'
  <1>1. /\ Inv' /\ state' = state /\ worker' = worker /\ client' = client
    BY ThreadUnchanged DEF RunFires, TimerInv
  <1>2. /\ clock' = clock /\ maps' = maps /\ leaving' = leaving /\ until' = until
        /\ task = "scan" /\ lock' = lock /\ now' = now /\ iter \in Ids
    BY DEF RunFires
  <1>3. worker = "calling" /\ client[Owner] # "unbuilt"
    BY <1>2 DEF TimerInv, RunInv, Inv, BuiltOnce
  <1>4. /\ task' = "action" /\ acting' = iter /\ iter' \in Ids \cup {End}
        /\ Maps(delays, subs)' /\ PausedOnlyWhenIdle'
        /\ iter' \in Ids => iter' \in DOMAIN subs' /\ delays'[1].id = iter'
    BY FiresFirst
  <1>5. lock = RunLock
    BY <1>2 DEF TimerInv, TimerTypeOK
  <1>6. TimerTypeOK'
    BY <1>2, <1>4, <1>5 DEF TimerInv, TimerTypeOK, Maps, Entries, Tasks
  <1>7. HangsOnlyOnTie'
    BY <1>2, <1>4, <1>5 DEF HangsOnlyOnTie
  <1>8. BuiltFirst' /\ RunInv' /\ Left'
    BY <1>1, <1>2, <1>3, <1>4 DEF TimerInv, BuiltFirst, RunInv, Left
  <1>. QED
    BY <1>1, <1>4, <1>6, <1>7, <1>8 DEF TimerInv

\* The steps that change neither the thread nor the maps.
LEMMA TimerOnlyKeepsInv ==
    ASSUME TimerInv, RunWaits \/ ActionReturns \/ RunIsLost \/ TimedWaitEnds \/ Tick
    PROVE  TimerInv'
  <1>1. /\ Inv' /\ state' = state /\ worker' = worker /\ client' = client
    BY ThreadUnchanged DEF RunWaits, ActionReturns, RunIsLost, TimedWaitEnds, Tick, TimerInv
  <1>2. /\ delays' = delays /\ subs' = subs /\ maps' = maps /\ leaving' = leaving
    BY DEF RunWaits, ActionReturns, RunIsLost, TimedWaitEnds, Tick, runVars
  <1>3. Maps(delays, subs)' /\ PausedOnlyWhenIdle'
    BY <1>1, <1>2 DEF TimerInv, PausedOnlyWhenIdle
  <1>4. Left'
    BY <1>1, <1>2 DEF TimerInv, Left
  <1>5. TimerTypeOK' /\ RunInv' /\ HangsOnlyOnTie' /\ BuiltFirst'
    <2>. USE <1>1, <1>2 DEF TimerInv, TimerTypeOK, RunInv, HangsOnlyOnTie, BuiltFirst, Tasks,
                            runVars
    <2>1. CASE RunWaits
      <3>1. delays[Position(iter)].at \in 0 .. MaxTime
        <4>1. iter \in DOMAIN subs
          BY <2>1 DEF RunWaits
        <4>2. delays[Position(iter)].at = subs[iter]
          BY <4>1, PositionIs
        <4>. QED
          BY <4>1, <4>2 DEF Maps
      <3>. QED
        BY <2>1, <3>1 DEF RunWaits
    <2>2. CASE ActionReturns
      BY <2>2 DEF ActionReturns
    <2>3. CASE RunIsLost
      BY <2>3 DEF RunIsLost
    <2>4. CASE TimedWaitEnds
      BY <2>4 DEF TimedWaitEnds
    <2>5. CASE Tick
      BY <2>5 DEF Tick
    <2>. QED
      BY <2>1, <2>2, <2>3, <2>4, <2>5
  <1>. QED
    BY <1>1, <1>3, <1>4, <1>5 DEF TimerInv

\* An add(), by a client or in action().
LEMMA AddsKeepInv ==
    ASSUME TimerInv, NEW delay \in Delays, NEW id \in Ids,
           ActionAdds(delay, id) \/ \E c \in Clients : Add(c, delay, id)
    PROVE  TimerInv'
  <1>1. /\ delay > 0 /\ clock + delay <= MaxTime /\ AddBody(delay, id)
        /\ UNCHANGED <<clock, lock, task, runVars, maps, leaving>>
    BY DEF ActionAdds, Add
  <1>2. client[Owner] # "unbuilt"
    <2>1. CASE ActionAdds(delay, id)
      BY <2>1 DEF ActionAdds, TimerInv, BuiltFirst
    <2>2. CASE \E c \in Clients : Add(c, delay, id)
      BY <2>2 DEF Add, MayUse, MayCall, TimerInv, BuiltFirst
    <2>. QED
      BY <2>1, <2>2
  <1>3. /\ Inv' /\ Maps(delays, subs)' /\ PausedOnlyWhenIdle'
        /\ worker \in {"none", "done", "calling"} => worker' = worker
        /\ client' = client
        /\ DOMAIN subs \subseteq DOMAIN subs' /\ \A i \in DOMAIN subs : subs'[i] = subs[i]
        /\ \A i \in DOMAIN subs : subs[i] <= now /\ delays[1].id = i => delays'[1].id = i
    BY <1>1, <1>2, AddKeeps
  <1>4. /\ clock' = clock /\ lock' = lock /\ task' = task /\ maps' = maps /\ leaving' = leaving
        /\ now' = now /\ iter' = iter /\ until' = until /\ acting' = acting
    BY <1>1 DEF runVars
  <1>5. TimerTypeOK'
    BY <1>3, <1>4 DEF TimerInv, TimerTypeOK, Maps, Entries
  <1>6. HangsOnlyOnTie'
    <2>1. lock \notin Clients /\ task # "spin"
      <3>1. CASE ActionAdds(delay, id)
        BY <3>1 DEF ActionAdds, TimerInv, TimerTypeOK
      <3>2. CASE \E c \in Clients : Add(c, delay, id)
        BY <3>2 DEF Add, MayUse, LockFree, TimerInv, TimerTypeOK
      <3>. QED
        BY <3>1, <3>2
    <2>. QED
      BY <1>4, <2>1 DEF HangsOnlyOnTie
  <1>7. BuiltFirst'
    BY <1>2, <1>3 DEF BuiltFirst
  <1>8. RunInv'
    <2>1. \A i \in Ids : i \in DOMAIN subs => i \in DOMAIN subs' /\ subs'[i] = subs[i]
      BY <1>3
    <2>. QED
      BY <1>3, <1>4, <2>1 DEF TimerInv, RunInv
  <1>9. Left'
    BY <1>3, <1>4 DEF TimerInv, Left
  <1>. QED
    BY <1>3, <1>5, <1>6, <1>7, <1>8, <1>9 DEF TimerInv

\* A remove(), by a client or in action(): it hangs or it removes.
LEMMA RemovesKeepInv ==
    ASSUME TimerInv, NEW id \in Ids, ActionRemoves(id) \/ \E c \in Clients : Remove(c, id)
    PROVE  TimerInv'
  <1>1. /\ Inv' /\ state' = state /\ worker' = worker /\ client' = client
        /\ clock' = clock /\ maps' = maps /\ leaving' = leaving
        /\ now' = now /\ until' = until /\ acting' = acting
    BY ThreadUnchanged DEF ActionRemoves, Remove, runVars, TimerInv
  <1>2. /\ client[Owner] # "unbuilt" /\ task # "spin" /\ lock \notin Clients
        /\ task = "action" \/ lock = NoLock
    <2>1. CASE ActionRemoves(id)
      BY <2>1 DEF ActionRemoves, TimerInv, BuiltFirst, TimerTypeOK
    <2>2. CASE \E c \in Clients : Remove(c, id)
      BY <2>2 DEF Remove, MayUse, MayCall, LockFree, TimerInv, BuiltFirst, TimerTypeOK
    <2>. QED
      BY <2>1, <2>2
  <1>3. BuiltFirst' /\ Left'
    BY <1>1, <1>2 DEF TimerInv, BuiltFirst, Left
  <1>4. CASE Spins(id)
    <2>1. /\ delays' = delays /\ subs' = subs /\ iter' = iter
          /\ \/ task' = "spin" /\ lock' = lock /\ task = "action"
             \/ task' = task /\ lock' \in Clients /\ lock = NoLock
      BY <1>4 DEF ActionRemoves, Remove, runVars, MayUse, LockFree
    <2>2. Maps(delays, subs)' /\ PausedOnlyWhenIdle'
      BY <1>1, <2>1 DEF TimerInv, PausedOnlyWhenIdle
    <2>3. TimerTypeOK'
      BY <1>1, <2>1 DEF TimerInv, TimerTypeOK, Tasks
    <2>4. HangsOnlyOnTie'
      BY <1>4, <2>1, SpinsOnTie DEF TimerInv, HangsOnlyOnTie
    <2>5. RunInv'
      BY <1>1, <2>1 DEF TimerInv, RunInv
    <2>. QED
      BY <1>1, <1>3, <2>2, <2>3, <2>4, <2>5 DEF TimerInv
  <1>5. CASE ~Spins(id)
    <2>1. /\ RemoveBody(id) /\ task' = task /\ lock' = lock
          /\ \/ iter' = IF id = iter THEN Lost ELSE iter
             \/ iter' = iter /\ lock = NoLock
          /\ iter' # iter => task = "action"
      BY <1>5 DEF ActionRemoves, Remove, runVars, MayUse, LockFree
    <2>2. /\ Maps(delays, subs)' /\ PausedOnlyWhenIdle'
          /\ DOMAIN subs' = DOMAIN subs \ {id} /\ \A i \in DOMAIN subs' : subs'[i] = subs[i]
          /\ \A i \in DOMAIN subs' : delays[1].id = i => delays'[1].id = i
      BY <1>1, <2>1, RemoveKeeps DEF TimerInv
    <2>3. iter' \in {iter, Lost}
      BY <2>1
    <2>4. TimerTypeOK'
      BY <1>1, <2>1, <2>2, <2>3 DEF TimerInv, TimerTypeOK, Maps, Entries
    <2>5. HangsOnlyOnTie'
      BY <1>2, <2>1 DEF HangsOnlyOnTie
    <2>6. iter' \in Ids => iter' = iter /\ iter # id
      <3>1. lock = NoLock => task \notin {"scan", "action", "spin", "undefined"}
        BY DEF TimerInv, TimerTypeOK
      <3>. QED
        BY <2>1, <3>1 DEF TimerInv, RunInv
    <2>7. iter' # End => task \in {"scan", "action", "spin", "undefined"}
      BY <2>1 DEF TimerInv, RunInv
    <2>8. RunInv'
      <3>1. iter' \in Ids => iter' \in DOMAIN subs' /\ subs'[iter'] = subs[iter]
        BY <2>2, <2>6 DEF TimerInv, RunInv
      <3>2. task' \in {"scan", "action"} /\ iter' \in Ids /\ subs'[iter'] <= now' =>
                delays'[1].id = iter'
        BY <1>1, <2>1, <2>2, <2>6, <3>1 DEF TimerInv, RunInv
      <3>. QED
        BY <1>1, <2>1, <2>7, <3>1, <3>2 DEF TimerInv, RunInv
    <2>. QED
      BY <1>1, <1>3, <2>2, <2>4, <2>5, <2>8 DEF TimerInv
  <1>. QED
    BY <1>4, <1>5

\* The destructors.
LEMMA DestroyTimerKeepsInv == ASSUME TimerInv, DestroyTimer PROVE TimerInv'
  <1>1. /\ Inv' /\ state' = state /\ worker' = worker /\ client' = client
    BY ThreadUnchanged DEF DestroyTimer, TimerInv
  <1>2. /\ delays' = delays /\ subs' = subs /\ clock' = clock /\ lock' = lock
        /\ task' = task /\ now' = now /\ iter' = iter /\ until' = until /\ acting' = acting
        /\ maps' = FALSE /\ leaving' = "timer" /\ client[Owner] = "idle"
        /\ JoinsFirst => leaving = "derived"
    BY DEF DestroyTimer, runVars, MayCall
  <1>3. /\ Maps(delays, subs)' /\ PausedOnlyWhenIdle' /\ TimerTypeOK' /\ HangsOnlyOnTie'
    BY <1>1, <1>2 DEF TimerInv, PausedOnlyWhenIdle, TimerTypeOK, HangsOnlyOnTie
  <1>4. BuiltFirst' /\ RunInv' /\ Left'
    BY <1>1, <1>2 DEF TimerInv, BuiltFirst, RunInv, Left
  <1>. QED
    BY <1>1, <1>3, <1>4 DEF TimerInv

LEMMA JoinsKeepInv == ASSUME TimerInv, DestroyDerived \/ DestroyThread PROVE TimerInv'
  <1>1. /\ LockFree /\ Join(Owner) /\ task' = IF task = "timedWait" THEN "woken" ELSE task
        /\ UNCHANGED <<clock, delays, subs, lock, runVars, maps>>
        /\ \/ leaving = "no" /\ leaving' = "derived" /\ client'[Owner] = "joining"
           \/ leaving = "timer" /\ leaving' = "thread"
    BY DEF DestroyDerived, DestroyThread, JoinAnd
  <1>2. Inv' /\ Inv
    BY <1>1, ThreadKeepsInv DEF TimerInv
  <1>3. /\ state' = "PAUSED" => state = "PAUSED"
        /\ worker \in {"none", "done", "calling"} => worker' = worker
        /\ client[Owner] # "unbuilt"
    BY <1>1 DEF Join, StopBody, Woken, MayCall, Unstoppable
  <1>4. client'[Owner] # "unbuilt"
    <2>1. PICK next \in {"joining", "destroying"} : client' = [client EXCEPT ![Owner] = next]
      BY <1>1 DEF Join
    <2>. QED
      BY <1>2, <2>1 DEF Inv, TypeOK
  <1>5. /\ delays' = delays /\ subs' = subs /\ clock' = clock /\ lock' = lock
        /\ now' = now /\ iter' = iter /\ until' = until /\ acting' = acting /\ maps' = maps
    BY <1>1 DEF runVars
  <1>6. /\ lock = NoLock /\ task' \notin {"scan", "action", "spin", "undefined"}
        /\ task' # "none" => task # "none"
        /\ task' \in Tasks
    BY <1>1 DEF LockFree, TimerInv, TimerTypeOK, Tasks
  <1>7. /\ Maps(delays, subs)' /\ PausedOnlyWhenIdle' /\ TimerTypeOK' /\ HangsOnlyOnTie'
    BY <1>1, <1>3, <1>5, <1>6 DEF TimerInv, PausedOnlyWhenIdle, TimerTypeOK, HangsOnlyOnTie
  <1>8. task \notin {"scan", "action", "spin", "undefined"}
    BY <1>6 DEF TimerInv, TimerTypeOK
  <1>9. BuiltFirst' /\ RunInv'
    BY <1>3, <1>4, <1>5, <1>6, <1>8 DEF TimerInv, BuiltFirst, RunInv
  <1>10. Left'
    BY <1>1, <1>3, <1>5 DEF TimerInv, Left
  <1>. QED
    BY <1>2, <1>7, <1>9, <1>10 DEF TimerInv

LEMMA TimerInvNext == TimerInv /\ [TimerNext]_allVars => TimerInv'
  <1>. SUFFICES ASSUME TimerInv, [TimerNext]_allVars PROVE TimerInv'
    OBVIOUS
  <1>1. CASE UNCHANGED allVars
    BY <1>1, ThreadStepsKeepInv DEF allVars
  <1>2. CASE (Construct(TRUE) \/ ConstructFails \/ SpuriousWake \/ JoinReturns(Owner))
                 /\ UNCHANGED timerVars
    BY <1>2, ThreadStepsKeepInv
  <1>3. CASE ThreadStep
    BY <1>3, ThreadStepsKeepInv DEF ThreadStep
  <1>4. CASE RunStep
    BY <1>4, RunReturnsKeepsInv, RunBeginsKeepsInv, RunFiresKeepsInv, TimerOnlyKeepsInv
       DEF RunStep
  <1>5. CASE TimedWaitEnds \/ Tick
    BY <1>5, TimerOnlyKeepsInv
  <1>6. ASSUME NEW delay \in Delays, NEW id \in Ids,
               ActionAdds(delay, id) \/ \E c \in Clients : Add(c, delay, id)
        PROVE  TimerInv'
    BY <1>6, AddsKeepInv
  <1>7. ASSUME NEW id \in Ids, ActionRemoves(id) \/ \E c \in Clients : Remove(c, id)
        PROVE  TimerInv'
    BY <1>7, RemovesKeepInv
  <1>8. CASE DestroyDerived \/ DestroyTimer \/ DestroyThread
    BY <1>8, DestroyTimerKeepsInv, JoinsKeepInv
  <1>. QED
    BY <1>1, <1>2, <1>3, <1>4, <1>5, <1>6, <1>7, <1>8 DEF TimerNext

THEOREM TimerInvHolds == TimerSpec => []TimerInv
  BY TimerInvInit, TimerInvNext, PTL DEF TimerSpec

\* The variables of a timer have their types, and run() holds the lock exactly
\* while it is awake.
THEOREM TimerTypes == TimerSpec => []TimerTypeOK
  <1>1. TimerInv => TimerTypeOK
    BY DEF TimerInv
  <1>. QED
    BY <1>1, TimerInvHolds, PTL

\* The two maps always agree, and the alarms are in order.
THEOREM TwoMapsAgree == TimerSpec => []MapsAgree
  <1>1. TimerInv => MapsAgree
    BY MapsAgreeIsAgree DEF TimerInv, Maps
  <1>. QED
    BY <1>1, TimerInvHolds, PTL

\* No subscription is left to a paused thread.
THEOREM PausesOnlyWhenIdle == TimerSpec => []PausedOnlyWhenIdle
  <1>1. TimerInv => PausedOnlyWhenIdle
    BY DEF TimerInv
  <1>. QED
    BY <1>1, TimerInvHolds, PTL

\* remove() hangs only when two alarms are the same.
THEOREM HangsOnTieOnly == TimerSpec => []HangsOnlyOnTie
  <1>1. TimerInv => HangsOnlyOnTie
    BY DEF TimerInv
  <1>. QED
    BY <1>1, TimerInvHolds, PTL

\* What run() takes out itself never hangs, whatever the alarms.
THEOREM RunNeverHangs == TimerSpec => [][RunStep => task' # "spin" \/ task = "spin"]_allVars
  <1>1. TimerInv /\ [TimerNext]_allVars => [RunStep => task' # "spin" \/ task = "spin"]_allVars
    <2>. SUFFICES ASSUME TimerInv, RunStep, task # "spin" PROVE task' # "spin"
      OBVIOUS
    <2>1. CASE RunFires
      BY <2>1, FiresFirst
    <2>2. CASE ~RunFires
      BY <2>2 DEF RunStep, RunPauses, RunBegins, RunWaits, RunEnds, RunWakes, RunReturns,
                  ActionReturns, RunIsLost
    <2>. QED
      BY <2>1, <2>2
  <1>. QED
    BY <1>1, TimerInvHolds, PTL DEF TimerSpec

\* If the derived class joins first, run() has its maps.
THEOREM JoinedTimerIsSafe == ASSUME JoinsFirst PROVE TimerSpec => []MapsOutliveRun
  <1>1. TimerInv => MapsOutliveRun
    BY DEF TimerInv, TimerTypeOK, Left, MapsOutliveRun
  <1>. QED
    BY <1>1, TimerInvHolds, PTL

\* An alarm rings when its time has come, as the earliest of all, and is out of
\* the maps by then.
THEOREM AlarmsRingInTime == TimerSpec => RingsInTime
  <1>. DEFINE A == \A id \in Ids : acting' = id /\ acting # id =>
            /\ Subscribed(id) /\ ~Subscribed(id)'
            /\ subs[id] <= clock
            /\ \A other \in DOMAIN subs \ {id} : subs[id] <= subs[other]
  <1>1. TimerInv /\ [TimerNext]_allVars => [A]_allVars
    <2>. SUFFICES ASSUME TimerInv, TimerNext, NEW id \in Ids, acting' = id, acting # id
                  PROVE  /\ Subscribed(id) /\ ~Subscribed(id)'
                         /\ subs[id] <= clock
                         /\ \A other \in DOMAIN subs \ {id} : subs[id] <= subs[other]
      BY DEF allVars
    <2>1. RunFires
      BY DEF TimerNext, ThreadStep, RunStep, RunPauses, RunBegins, RunFires, RunWaits, RunEnds,
             RunWakes, RunReturns, ActionReturns, RunIsLost, TimedWaitEnds, ActionAdds,
             ActionRemoves, Add, Remove, DestroyDerived, DestroyTimer, DestroyThread, JoinAnd,
             Tick, timerVars, runVars
    <2>2. /\ id = iter /\ id \in DOMAIN subs /\ delays[1].id = id /\ subs[id] <= now
          /\ RemoveBody(id)
      BY <2>1, FiresFirst
    <2>3. Subscribed(id) /\ ~Subscribed(id)'
      BY <2>2 DEF Subscribed, RemoveBody
    <2>4. now <= clock /\ now \in Nat /\ clock \in Nat /\ subs[id] \in Nat
      BY <2>2 DEF TimerInv, RunInv, TimerTypeOK
    <2>5. ASSUME NEW other \in DOMAIN subs \ {id} PROVE subs[id] <= subs[other]
      <3>1. Maps(delays, subs) /\ DOMAIN delays = 1 .. Len(delays) /\ Len(delays) \in Nat
        BY EntriesOf DEF TimerInv, Maps
      <3>2. PICK j \in DOMAIN delays : delays[j].id = other
        BY <3>1 DEF Maps, Agree
      <3>3. 1 \in DOMAIN delays /\ 1 < j
        BY <2>2, <3>1, <3>2
      <3>4. /\ delays[1].at <= delays[j].at
            /\ subs[id] = delays[1].at /\ subs[other] = delays[j].at
        BY <2>2, <3>1, <3>2, <3>3 DEF Maps, Agree
      <3>. QED
        BY <3>4
    <2>. QED
      BY <2>2, <2>3, <2>4, <2>5
  <1>. QED
    BY <1>1, TimerInvHolds, PTL DEF TimerSpec, RingsInTime

\* run() loses the element its iterator is at only to what action() removes.
THEOREM IteratorIsLostOnlyInAction == TimerSpec => OnlyActionTakesNext
  <1>. DEFINE A == IterIsValid /\ ~IterIsValid' =>
                      task = "action" /\ iter \in DOMAIN subs \ DOMAIN subs'
  <1>1. TimerInv /\ [TimerNext]_allVars => [A]_allVars
    <2>. SUFFICES ASSUME TimerInv, TimerNext, IterIsValid, ~IterIsValid'
                  PROVE  task = "action" /\ iter \in DOMAIN subs \ DOMAIN subs'
      BY DEF allVars
    <2>1. TimerInv'
      BY TimerInvNext
    <2>2. iter' \in Ids => IterIsValid'
      BY <2>1 DEF TimerInv, RunInv, Maps, Agree, IterIsValid
    <2>3. iter' = Lost
      BY <2>1, <2>2 DEF TimerInv, TimerTypeOK, IterIsValid
    <2>4. iter # Lost
      <3>1. /\ DOMAIN delays = 1 .. Len(delays)
            /\ \A i \in 1 .. Len(delays) : delays[i].id \in Ids
        BY EntriesOf DEF TimerInv, Maps
      <3>. QED
        BY <3>1 DEF IterIsValid
    <2>5. PICK id \in Ids : ActionRemoves(id)
      <3>1. ~RunFires
        BY <2>3, FiresFirst
      <3>2. ~RunBegins
        <4>1. TimerInv /\ RunBegins => First \in Ids \cup {End}
          BY <2>1 DEF RunBegins, TimerInv, TimerTypeOK, First, Maps, Agree
        <4>. QED
          BY <2>3, <4>1 DEF RunBegins
      <3>. QED
        BY <2>3, <2>4, <3>1, <3>2
           DEF TimerNext, ThreadStep, RunStep, RunPauses, RunWaits, RunEnds,
             RunWakes, RunReturns, ActionReturns, RunIsLost, TimedWaitEnds, ActionAdds,
             Add, Remove, DestroyDerived, DestroyTimer, DestroyThread, JoinAnd,
             Tick, timerVars, runVars
    <2>6. id = iter /\ RemoveBody(id) /\ task = "action"
      BY <2>3, <2>4, <2>5 DEF ActionRemoves
    <2>7. iter \in DOMAIN subs
      BY <2>6 DEF TimerInv, RunInv
    <2>. QED
      BY <2>6, <2>7 DEF RemoveBody, Subscribed
  <1>. QED
    BY <1>1, TimerInvHolds, PTL DEF TimerSpec, OnlyActionTakesNext
=============================================================================
