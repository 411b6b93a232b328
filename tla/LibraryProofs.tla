---------------------------- MODULE LibraryProofs ----------------------------
(***************************************************************************)
(* Proofs about Library: Move() loses no file, for any number of threads   *)
(* that move files of any length at the same time; the arithmetic of       *)
(* moments is exact, for any base; and what the parts of DataProofs and    *)
(* TextProofs compute stays right along every sequence of calls.           *)
(***************************************************************************)
EXTENDS Library, TextProofs

-----------------------------------------------------------------------------
(***************************************************************************)
(* FileUtil.                                                               *)
(***************************************************************************)
Here(p) == <<"here", Number[p]>>
There == {"there"} \X (1 .. MaxInode)

Places == {"idle", "access", "source", "target", "read", "write", "unlink", "done", "crashed"}

MoverRecords ==
    [pc : Places, cover : BOOLEAN, src : Inodes \cup {ABSENT}, dst : Inodes \cup {ABSENT},
     readNum : Nat, got : BOOLEAN, last : BOOLEAN, result : BOOLEAN,
     old : Inodes \cup {ABSENT}, unseen : BOOLEAN, mixed : BOOLEAN]

FilesTypeOK ==
    /\ ino \in [Paths -> Inodes \cup {ABSENT}]
    /\ data = [i \in Inodes |-> data[i]]
    /\ mover \in [Movers -> MoverRecords]

\* The source stays what it was until Move() has unlinked it.
SourceKept(p) ==
    /\ data[Here(p)] = Content[p]
    /\ \/ ino[Source[p]] = Here(p)
       \/ ino[Source[p]] = ABSENT /\ mover[p].pc = "done" /\ mover[p].result
                                  /\ ino[Target[p]] \in There

\* A target is on the other device, or it is the source and stays alone.
TargetApart(p) ==
    /\ ino[Target[p]] \in There \cup {Here(p), ABSENT}
    /\ ino[Target[p]] = Here(p) =>
           \/ mover[p].pc \in {"idle", "crashed"}
           \/ mover[p].pc = "done" /\ mover[p].result /\ IsSame(Source[p], Target[p])

\* Where a thread is in its source and its target.
PlaceInv(p) ==
    LET m == mover[p]
    IN /\ m.pc \in {"target", "read", "write", "unlink"} => m.src = Here(p)
       /\ m.pc \in {"idle", "access", "source", "target"} => m.readNum = 0 /\ m.dst = ABSENT
       /\ m.pc \in {"read", "write", "unlink"} => m.dst # ABSENT
       /\ m.pc = "done" /\ m.result /\ m.dst = ABSENT =>
              ino[Source[p]] = Here(p) /\ IsSame(Source[p], Target[p])
       /\ m.dst # ABSENT => m.dst \in There /\ m.dst = ino[Target[p]]
       /\ m.readNum <= Len(Content[p])
       /\ m.pc = "write" /\ m.got => m.readNum > 0

\* The chunks that a thread has given to fwrite() so far.
Given(p) ==
    IF mover[p].pc = "write" /\ mover[p].got THEN mover[p].readNum - 1 ELSE mover[p].readNum

\* How much of the source is in the target, if nothing went wrong.
CopyInv(p) ==
    LET m == mover[p]
    IN ~m.unseen =>
           /\ m.pc = "write" /\ m.last => m.readNum = Len(Content[p])
           /\ m.pc = "unlink" => m.readNum = Len(Content[p])
           /\ ~m.mixed => /\ m.pc \in {"read", "write", "unlink"} =>
                                 data[m.dst] = SubSeq(Content[p], 1, Given(p))
                          /\ m.pc = "done" /\ m.result /\ m.dst # ABSENT =>
                                 data[m.dst] = Content[p]

\* What is in the target if something went wrong, but no other thread did it.
Pieces(chunks, all, n) ==
    chunks \in Seq(Chunks \cup {TORN}) /\ InOrder(chunks, all, n)

OrderInv(p) ==
    mover[p].dst # ABSENT /\ ~mover[p].mixed =>
        Pieces(data[mover[p].dst], Content[p], Given(p))

\* The file that was the target stays if it may not be covered.
OldInv(p) ==
    LET m == mover[p]
    IN /\ m.pc = "idle" => /\ m.old = ABSENT
                           /\ ino[Target[p]] \in There => data[ino[Target[p]]] = Old
       /\ m.old # ABSENT /\ ~m.cover =>
              /\ m.pc \in {"access", "done", "crashed"}
              /\ m.old \in There /\ m.old = ino[Target[p]] /\ data[m.old] = Old

\* The buffer holds what this thread has read unless another one has a target too.
Alone(p) == \A q \in Movers \ {p} : mover[q].dst = ABSENT

BufferInv(p) ==
    /\ mover[p].mixed => ~Alone(p)
    /\ mover[p].pc = "write" /\ mover[p].got /\ Alone(p) => buf = Content[p][mover[p].readNum]

MoverInv(p) ==
    /\ SourceKept(p) /\ TargetApart(p) /\ PlaceInv(p)
    /\ CopyInv(p) /\ OrderInv(p) /\ OldInv(p) /\ BufferInv(p)

\* No two threads have a target in common.
TargetsDiffer ==
    \A p, q \in Movers : p # q => ino[Target[p]] = ABSENT \/ ino[Target[p]] # ino[Target[q]]

FileInv ==
    /\ FilesTypeOK
    /\ TargetsDiffer
    /\ \A p \in Movers : MoverInv(p)

-----------------------------------------------------------------------------
\* Chunks of a file in their order: none, one more, fewer, the last one cut short.
LEMMA NoPieces == ASSUME NEW all, NEW n PROVE Pieces(<<>>, all, n)
  <1>. DEFINE none == [i \in DOMAIN <<>> |-> 1]
  <1>1. none \in [DOMAIN <<>> -> 1 .. n] /\ DOMAIN <<>> = {}
    OBVIOUS
  <1>2. InOrder(<<>>, all, n)
    BY <1>1 DEF InOrder
  <1>. QED
    BY <1>2 DEF Pieces

LEMMA MorePlaces ==
    ASSUME NEW s, NEW all, NEW m \in Nat, NEW n \in Nat, m <= n, Pieces(s, all, m)
    PROVE  Pieces(s, all, n)
  <1>1. PICK place \in [DOMAIN s -> 1 .. m] :
            /\ \A i, j \in DOMAIN s : i < j => place[i] < place[j]
            /\ \A i \in DOMAIN s : s[i] \in {all[place[i]], TORN}
    BY DEF Pieces, InOrder
  <1>2. place \in [DOMAIN s -> 1 .. n]
    OBVIOUS
  <1>. QED
    BY <1>1, <1>2 DEF Pieces, InOrder

LEMMA OnePieceMore ==
    ASSUME NEW s, NEW all, NEW n \in Nat \ {0}, Pieces(s, all, n - 1),
           NEW c \in Chunks \cup {TORN}, c \in {all[n], TORN}
    PROVE  Pieces(Append(s, c), all, n)
  <1>1. PICK place \in [DOMAIN s -> 1 .. n - 1] :
            /\ \A i, j \in DOMAIN s : i < j => place[i] < place[j]
            /\ \A i \in DOMAIN s : s[i] \in {all[place[i]], TORN}
    BY DEF Pieces, InOrder
  <1>2. s \in Seq(Chunks \cup {TORN})
    BY DEF Pieces
  <1>. DEFINE t == Append(s, c)
              more == [i \in DOMAIN t |-> IF i \in DOMAIN s THEN place[i] ELSE n]
  <1>3. /\ t \in Seq(Chunks \cup {TORN}) /\ Len(s) \in Nat
        /\ DOMAIN s = 1 .. Len(s) /\ DOMAIN t = 1 .. Len(s) + 1
        /\ \A i \in DOMAIN s : t[i] = s[i]
        /\ t[Len(s) + 1] = c
    BY <1>2, AppendProperties
  <1>. HIDE DEF t
  <1>4. /\ more \in [DOMAIN t -> 1 .. n]
        /\ \A i \in DOMAIN s : more[i] = place[i] /\ place[i] \in 1 .. n - 1
        /\ more[Len(s) + 1] = n
    BY <1>3
  <1>. HIDE DEF more
  <1>5. ASSUME NEW i \in DOMAIN t, NEW j \in DOMAIN t, i < j
        PROVE  more[i] < more[j]
    <2>1. i \in DOMAIN s /\ i \in Nat /\ (j \in DOMAIN s \/ j = Len(s) + 1)
      BY <1>3, <1>5
    <2>2. CASE j \in DOMAIN s
      BY <1>1, <1>4, <1>5, <2>1, <2>2
    <2>3. CASE j = Len(s) + 1
      BY <1>4, <2>1, <2>3
    <2>. QED
      BY <2>1, <2>2, <2>3
  <1>6. \A i \in DOMAIN t : t[i] \in {all[more[i]], TORN}
    <2>. SUFFICES ASSUME NEW i \in DOMAIN t PROVE t[i] \in {all[more[i]], TORN}
      OBVIOUS
    <2>1. CASE i \in DOMAIN s
      BY <1>1, <1>3, <1>4, <2>1
    <2>2. CASE i = Len(s) + 1
      BY <1>3, <1>4, <2>2
    <2>. QED
      BY <1>3, <2>1, <2>2
  <1>. QED
    BY <1>3, <1>4, <1>5, <1>6 DEF Pieces, InOrder, t

LEMMA PiecesLeft ==
    ASSUME NEW s, NEW all, NEW n \in Nat, Pieces(s, all, n), NEW how \in Flushes
    PROVE  Pieces(Left(s, how), all, n)
  <1>1. PICK place \in [DOMAIN s -> 1 .. n] :
            /\ \A i, j \in DOMAIN s : i < j => place[i] < place[j]
            /\ \A i \in DOMAIN s : s[i] \in {all[place[i]], TORN}
    BY DEF Pieces, InOrder
  <1>2. s \in Seq(Chunks \cup {TORN}) /\ Len(s) \in Nat /\ DOMAIN s = 1 .. Len(s)
    BY DEF Pieces
  <1>3. CASE how = "all" \/ s = <<>>
    BY <1>3 DEF Left
  <1>4. CASE how = "some" /\ s # <<>>
    <2>. DEFINE t == [s EXCEPT ![Len(s)] = TORN]
    <2>1. Left(s, how) = t
      BY <1>4 DEF Left
    <2>2. /\ t \in Seq(Chunks \cup {TORN}) /\ DOMAIN t = DOMAIN s
          /\ \A i \in DOMAIN s : t[i] \in {s[i], TORN}
      <3>1. s \in [1 .. Len(s) -> Chunks \cup {TORN}]
        BY <1>2
      <3>2. t \in [1 .. Len(s) -> Chunks \cup {TORN}]
        BY <3>1
      <3>3. t \in Seq(Chunks \cup {TORN})
        BY <1>2, <3>2
      <3>. QED
        BY <1>2, <3>3
    <2>. HIDE DEF t
    <2>3. \A i \in DOMAIN t : t[i] \in {all[place[i]], TORN}
      BY <1>1, <2>2
    <2>. QED
      BY <1>1, <2>1, <2>2, <2>3 DEF Pieces, InOrder
  <1>5. CASE how = "none" /\ s # <<>>
    <2>. DEFINE t == SubSeq(s, 1, Len(s) - 1)
                fewer == [i \in DOMAIN t |-> place[i]]
    <2>1. Left(s, how) = t
      BY <1>5 DEF Left
    <2>2. Len(s) > 0
      BY <1>2, <1>5
    <2>3. /\ t \in Seq(Chunks \cup {TORN}) /\ DOMAIN t = 1 .. Len(s) - 1
          /\ DOMAIN t \subseteq DOMAIN s
          /\ \A i \in DOMAIN t : t[i] = s[i]
      BY <1>2, <2>2
    <2>. HIDE DEF t
    <2>4. fewer \in [DOMAIN t -> 1 .. n] /\ \A i \in DOMAIN t : fewer[i] = place[i]
      BY <2>3
    <2>. HIDE DEF fewer
    <2>5. \A i, j \in DOMAIN t : i < j => fewer[i] < fewer[j]
      BY <1>1, <2>3, <2>4
    <2>6. \A i \in DOMAIN t : t[i] \in {all[fewer[i]], TORN}
      BY <1>1, <2>3, <2>4
    <2>. QED
      BY <2>1, <2>3, <2>4, <2>5, <2>6 DEF Pieces, InOrder
  <1>. QED
    BY <1>3, <1>4, <1>5 DEF Flushes

-----------------------------------------------------------------------------
LEMMA PathsApart ==
    ASSUME NEW p \in Movers
    PROVE  /\ Source[p] \in Paths /\ Target[p] \in Paths /\ Source[p] # Target[p]
           /\ \A q \in Movers \ {p} : /\ Source[q] \notin {Source[p], Target[p]}
                                      /\ Target[q] \notin {Source[p], Target[p]}
  <1>1. \A q \in Movers \ {p} : {Source[p], Target[p]} \cap {Source[q], Target[q]} = {}
    BY FileUtilAssumption
  <1>2. Source[p] \in Paths /\ Target[p] \in Paths
    BY DEF Paths
  <1>3. Source[p] # Target[p]
    BY FileUtilAssumption
  <1>. QED
    BY <1>1, <1>2, <1>3

LEMMA InodesApart ==
    ASSUME NEW p \in Movers
    PROVE  /\ Here(p) \in Inodes /\ Here(p) \notin There /\ There \subseteq Inodes
           /\ ABSENT \notin Inodes
           /\ \A q \in Movers \ {p} : Here(p) # Here(q)
  BY FileUtilAssumption DEF Here, There, Inodes

LEMMA WholeFile ==
    ASSUME NEW p \in Movers
    PROVE  /\ Content[p] \in Seq(Chunks) /\ Len(Content[p]) \in Nat
           /\ SubSeq(Content[p], 1, Len(Content[p])) = Content[p]
           /\ SubSeq(Content[p], 1, 0) = <<>>
  <1>1. Content[p] \in Seq(Chunks)
    BY FileUtilAssumption
  <1>. QED
    BY <1>1

\* The constants of a step and of its primed states are the same.
LEMMA SameConstants ==
    /\ \A p \in Movers : Here(p)' = Here(p)
    /\ There' = There /\ MoverRecords' = MoverRecords
  BY DEF Here, There, MoverRecords, Inodes, Places

\* What a thread relies on is its own: its place, its two paths, their files; and
\* the buffer, as long as no other thread has a target.
LEMMA OwnThings ==
    ASSUME NEW q \in Movers, MoverInv(q), mover'[q] = mover[q],
           ino'[Source[q]] = ino[Source[q]], ino'[Target[q]] = ino[Target[q]],
           data'[Here(q)] = data[Here(q)],
           ino[Target[q]] \in There => data'[ino[Target[q]]] = data[ino[Target[q]]],
           Alone(q)' => Alone(q) /\ buf' = buf
    PROVE  MoverInv(q)'
  <1>1. Here(q)' = Here(q) /\ There' = There
    BY SameConstants
  <1>2. SourceKept(q)'
    BY <1>1 DEF MoverInv, SourceKept
  <1>3. TargetApart(q)'
    BY <1>1 DEF MoverInv, TargetApart, IsSame
  <1>4. PlaceInv(q)'
    BY <1>1 DEF MoverInv, PlaceInv, IsSame
  <1>5. Given(q)' = Given(q)
    BY DEF Given
  <1>6. mover[q].dst # ABSENT => data'[mover[q].dst] = data[mover[q].dst]
    BY DEF MoverInv, PlaceInv
  <1>7. CopyInv(q)'
    BY <1>5, <1>6 DEF MoverInv, CopyInv, PlaceInv
  <1>8. OrderInv(q)'
    BY <1>5, <1>6 DEF MoverInv, OrderInv, Pieces, InOrder
  <1>9. OldInv(q)'
    BY <1>1 DEF MoverInv, OldInv
  <1>10. BufferInv(q)'
    BY DEF MoverInv, BufferInv
  <1>. QED
    BY <1>2, <1>3, <1>4, <1>7, <1>8, <1>9, <1>10 DEF MoverInv

\* So a step of p that changes no other thread's things is harmless to them.
LEMMA OthersUntouched ==
    ASSUME FileInv, NEW p \in Movers, NEW q \in Movers \ {p},
           NEW r, mover' = [mover EXCEPT ![p] = r],
           r.dst = ABSENT => mover[p].dst = ABSENT /\ buf' = buf,
           NEW path \in {Source[p], Target[p]}, NEW i, ino' = ino \/ ino' = [ino EXCEPT ![path] = i],
           NEW d \in There,
           data' = data \/ \E chunks : data' = [data EXCEPT ![d] = chunks],
           data' = data \/ ino[Target[q]] # d
    PROVE  MoverInv(q)'
  <1>1. /\ mover'[q] = mover[q]
        /\ ino'[Source[q]] = ino[Source[q]] /\ ino'[Target[q]] = ino[Target[q]]
    BY PathsApart DEF FileInv, FilesTypeOK
  <1>2. Here(q) \in Inodes /\ Here(q) # d /\ There \subseteq Inodes
    BY InodesApart
  <1>3. \A j \in Inodes \ {d} : data'[j] = data[j]
    BY DEF FileInv, FilesTypeOK
  <1>4. Alone(q)' => Alone(q) /\ buf' = buf
    <2>1. \A s \in Movers : mover'[s] = IF s = p THEN r ELSE mover[s]
      BY DEF FileInv, FilesTypeOK
    <2>. QED
      BY <2>1 DEF Alone
  <1>. QED
    BY <1>1, <1>2, <1>3, <1>4, OwnThings DEF FileInv

-----------------------------------------------------------------------------
\* A thread moves, and what it may do to the others' buffer.
OnlyMoves(p) == /\ mover' = [mover EXCEPT ![p] = mover'[p]]
                /\ mover'[p] \in MoverRecords
                /\ mover'[p].dst = ABSENT => mover[p].dst = ABSENT /\ buf' = buf

\* The local variables of a thread that goes on, and of one that returns.
Keeps(p) ==
    LET m == mover[p]
        n == mover'[p]
    IN /\ n.src = m.src /\ n.dst = m.dst /\ n.readNum = m.readNum /\ n.cover = m.cover
       /\ n.old = m.old /\ n.mixed = m.mixed

LEMMA Updated ==
    ASSUME NEW p \in Movers, mover \in [Movers -> MoverRecords],
           NEW r \in MoverRecords, mover' = [mover EXCEPT ![p] = r],
           r.dst = ABSENT => mover[p].dst = ABSENT /\ buf' = buf
    PROVE  OnlyMoves(p) /\ mover'[p] = r /\ Alone(p)' = Alone(p)
  <1>1. mover'[p] = r /\ \A q \in Movers \ {p} : mover'[q] = mover[q]
    OBVIOUS
  <1>2. Alone(p)' = Alone(p)
    BY <1>1 DEF Alone
  <1>. QED
    BY <1>1, <1>2 DEF OnlyMoves

LEMMA MoverGoes ==
    ASSUME NEW p \in Movers, mover \in [Movers -> MoverRecords],
           NEW place \in Places, Goto(p, place), buf' = buf
    PROVE  /\ OnlyMoves(p) /\ Alone(p)' = Alone(p) /\ Keeps(p)
           /\ mover'[p].pc = place /\ mover'[p].unseen = mover[p].unseen
  <1>. DEFINE r == [mover[p] EXCEPT !.pc = place]
  <1>1. mover' = [mover EXCEPT ![p] = r]
    BY DEF Goto
  <1>2. mover[p] \in MoverRecords
    OBVIOUS
  <1>3. /\ r \in MoverRecords /\ r.pc = place /\ r.src = mover[p].src /\ r.dst = mover[p].dst
        /\ r.readNum = mover[p].readNum /\ r.cover = mover[p].cover /\ r.old = mover[p].old
        /\ r.unseen = mover[p].unseen /\ r.mixed = mover[p].mixed
    BY <1>2 DEF MoverRecords
  <1>. HIDE DEF r
  <1>4. OnlyMoves(p) /\ mover'[p] = r /\ Alone(p)' = Alone(p)
    BY <1>1, <1>3, Updated
  <1>. QED
    BY <1>3, <1>4 DEF Keeps

LEMMA MoverReturns ==
    ASSUME NEW p \in Movers, mover \in [Movers -> MoverRecords],
           NEW v \in BOOLEAN, Return(p, v), buf' = buf
    PROVE  /\ OnlyMoves(p) /\ Alone(p)' = Alone(p) /\ Keeps(p)
           /\ mover'[p].pc = "done" /\ mover'[p].result = v
           /\ mover'[p].unseen = mover[p].unseen
  <1>. DEFINE r == [mover[p] EXCEPT !.pc = "done", !.result = v]
  <1>1. mover' = [mover EXCEPT ![p] = r]
    BY DEF Return
  <1>2. mover[p] \in MoverRecords
    OBVIOUS
  <1>3. r \in MoverRecords
    BY <1>2, ZenonT(30) DEF MoverRecords, Places
  <1>4. /\ r.pc = "done" /\ r.result = v /\ r.src = mover[p].src /\ r.dst = mover[p].dst
        /\ r.readNum = mover[p].readNum /\ r.cover = mover[p].cover /\ r.old = mover[p].old
        /\ r.unseen = mover[p].unseen /\ r.mixed = mover[p].mixed
    BY <1>2 DEF MoverRecords
  <1>. HIDE DEF r
  <1>5. OnlyMoves(p) /\ mover'[p] = r /\ Alone(p)' = Alone(p)
    BY <1>1, <1>3, <1>4, Updated
  <1>. QED
    BY <1>4, <1>5 DEF Keeps

\* A thread without a target has written nothing, and whether it is alone matters
\* only when it has.
LEMMA NoTargetYet ==
    ASSUME FileInv, NEW p \in Movers, mover'[p].dst = ABSENT, mover[p].dst = ABSENT,
           mover'[p].mixed = mover[p].mixed, mover'[p].pc \notin {"read", "write", "unlink"},
           Alone(p)' = Alone(p)
    PROVE  CopyInv(p)' /\ OrderInv(p)' /\ BufferInv(p)'
  <1>1. CopyInv(p)'
    BY DEF CopyInv
  <1>. QED
    BY <1>1 DEF FileInv, MoverInv, OrderInv, BufferInv

\* The steps of Move(), for the thread that takes them.
LEMMA MoveStep ==
    ASSUME FileInv, NEW p \in Movers, NEW cover \in BOOLEAN, Move(p, cover)
    PROVE  OnlyMoves(p) /\ MoverInv(p)'
  <1>1. /\ ino' = ino /\ data' = data /\ buf' = buf /\ mover[p].pc = "idle"
        /\ Here(p)' = Here(p) /\ There' = There
        /\ mover \in [Movers -> MoverRecords] /\ mover[p] \in MoverRecords
    BY SameConstants DEF Move, AtPc, FileInv, FilesTypeOK
  <1>2. /\ SourceKept(p) /\ TargetApart(p) /\ PlaceInv(p) /\ OldInv(p)
        /\ mover[p].dst = ABSENT /\ mover[p].readNum = 0
    BY <1>1 DEF FileInv, MoverInv, PlaceInv
  <1>3. ino[Source[p]] = Here(p)
    BY <1>1, <1>2 DEF SourceKept
  <1>4. CASE IsSame(Source[p], Target[p])
    <2>1. Return(p, TRUE)
      BY <1>4 DEF Move
    <2>2. /\ OnlyMoves(p) /\ Alone(p)' = Alone(p) /\ Keeps(p)
          /\ mover'[p].pc = "done" /\ mover'[p].result
      BY <1>1, <2>1, MoverReturns
    <2>3. CopyInv(p)' /\ OrderInv(p)' /\ BufferInv(p)'
      BY <1>2, <2>2, NoTargetYet DEF Keeps
    <2>4. SourceKept(p)' /\ TargetApart(p)'
      BY <1>1, <1>2, <1>3, <1>4, <2>2 DEF SourceKept, TargetApart, IsSame
    <2>5. PlaceInv(p)'
      BY <1>1, <1>2, <1>3, <1>4, <2>2 DEF PlaceInv, Keeps, IsSame
    <2>6. OldInv(p)'
      BY <1>1, <1>2, <2>2 DEF OldInv, Keeps
    <2>. QED
      BY <2>2, <2>3, <2>4, <2>5, <2>6 DEF MoverInv
  <1>5. CASE ~IsSame(Source[p], Target[p])
    <2>. DEFINE r == [mover[p] EXCEPT !.pc = "access", !.cover = cover, !.old = ino[Target[p]]]
    <2>1. mover' = [mover EXCEPT ![p] = r]
      BY <1>5 DEF Move
    <2>2. ino[Target[p]] \in There \cup {ABSENT} /\ ino[Target[p]] \in Inodes \cup {ABSENT}
      BY <1>1, <1>2, <1>3, <1>5, InodesApart DEF TargetApart, IsSame
    <2>3. /\ r \in MoverRecords /\ r.pc = "access" /\ r.readNum = 0 /\ r.dst = ABSENT
          /\ r.old = ino[Target[p]] /\ r.mixed = mover[p].mixed
      BY <1>1, <1>2, <2>2 DEF MoverRecords, Places
    <2>. HIDE DEF r
    <2>4. OnlyMoves(p) /\ mover'[p] = r /\ Alone(p)' = Alone(p)
      BY <1>1, <1>2, <2>1, <2>3, Updated
    <2>5. CopyInv(p)' /\ OrderInv(p)' /\ BufferInv(p)'
      BY <1>2, <2>3, <2>4, NoTargetYet
    <2>6. SourceKept(p)' /\ TargetApart(p)'
      BY <1>1, <1>2, <1>3, <2>2, <2>3, <2>4, InodesApart DEF SourceKept, TargetApart
    <2>7. PlaceInv(p)'
      BY <1>1, <1>2, <2>3, <2>4 DEF PlaceInv
    <2>8. OldInv(p)'
      BY <1>1, <1>2, <2>2, <2>3, <2>4 DEF OldInv
    <2>. QED
      BY <2>4, <2>5, <2>6, <2>7, <2>8 DEF MoverInv
  <1>. QED
    BY <1>4, <1>5

LEMMA MakeRoomStep ==
    ASSUME FileInv, NEW p \in Movers, MakeRoom(p)
    PROVE  OnlyMoves(p) /\ MoverInv(p)'
  <1>1. /\ data' = data /\ buf' = buf /\ mover[p].pc = "access"
        /\ Here(p)' = Here(p) /\ There' = There
        /\ mover \in [Movers -> MoverRecords] /\ mover[p] \in MoverRecords
    BY SameConstants DEF MakeRoom, AtPc, FileInv, FilesTypeOK
  <1>2. /\ SourceKept(p) /\ TargetApart(p) /\ PlaceInv(p) /\ OldInv(p)
        /\ mover[p].dst = ABSENT /\ mover[p].readNum = 0
        /\ ABSENT \notin There /\ ABSENT # Here(p)
    BY <1>1, InodesApart DEF FileInv, MoverInv, PlaceInv
  <1>3. \/ Goto(p, "source") /\ ino' = ino /\ ino[Target[p]] = ABSENT
        \/ Goto(p, "source") /\ mover[p].cover
           /\ ino' \in {ino, [ino EXCEPT ![Target[p]] = ABSENT]}
        \/ Return(p, FALSE) /\ ino' = ino
    BY DEF MakeRoom
  <1>4. /\ OnlyMoves(p) /\ Alone(p)' = Alone(p) /\ Keeps(p)
        /\ \/ mover'[p].pc = "source" /\ (mover[p].cover \/ ino[Target[p]] = ABSENT)
           \/ mover'[p].pc = "done" /\ ~mover'[p].result /\ ino' = ino
    <2>1. CASE Goto(p, "source") /\ (mover[p].cover \/ ino[Target[p]] = ABSENT)
      BY <1>1, <2>1, MoverGoes DEF Places
    <2>2. CASE Return(p, FALSE) /\ ino' = ino
      BY <1>1, <2>2, MoverReturns
    <2>. QED
      BY <1>3, <2>1, <2>2
  <1>5. /\ ino'[Source[p]] = ino[Source[p]]
        /\ ino'[Target[p]] \in {ino[Target[p]], ABSENT}
    BY <1>3, PathsApart DEF FileInv, FilesTypeOK
  <1>6. CopyInv(p)' /\ OrderInv(p)' /\ BufferInv(p)'
    BY <1>2, <1>4, NoTargetYet DEF Keeps
  <1>7. SourceKept(p)' /\ TargetApart(p)'
    BY <1>1, <1>2, <1>4, <1>5 DEF SourceKept, TargetApart
  <1>8. PlaceInv(p)'
    BY <1>1, <1>2, <1>4 DEF PlaceInv, Keeps
  <1>9. OldInv(p)'
    BY <1>1, <1>2, <1>4 DEF OldInv, Keeps
  <1>. QED
    BY <1>4, <1>6, <1>7, <1>8, <1>9 DEF MoverInv

LEMMA OpenSourceStep ==
    ASSUME FileInv, NEW p \in Movers, OpenSource(p)
    PROVE  OnlyMoves(p) /\ MoverInv(p)'
  <1>1. /\ ino' = ino /\ data' = data /\ buf' = buf /\ mover[p].pc = "source"
        /\ Here(p)' = Here(p) /\ There' = There
        /\ mover \in [Movers -> MoverRecords] /\ mover[p] \in MoverRecords
    BY SameConstants DEF OpenSource, AtPc, FileInv, FilesTypeOK
  <1>2. /\ SourceKept(p) /\ TargetApart(p) /\ PlaceInv(p) /\ OldInv(p)
        /\ mover[p].dst = ABSENT /\ mover[p].readNum = 0
        /\ Here(p) \in Inodes /\ Here(p) # ABSENT
    BY <1>1, InodesApart DEF FileInv, MoverInv, PlaceInv
  <1>3. ino[Source[p]] = Here(p) /\ ino[Target[p]] # Here(p)
    BY <1>1, <1>2 DEF SourceKept, TargetApart
  <1>4. /\ OnlyMoves(p) /\ Alone(p)' = Alone(p)
        /\ mover'[p].dst = ABSENT /\ mover'[p].readNum = 0 /\ mover'[p].cover = mover[p].cover
        /\ mover'[p].mixed = mover[p].mixed /\ mover'[p].old = mover[p].old
        /\ \/ mover'[p].pc = "target" /\ mover'[p].src = Here(p)
           \/ mover'[p].pc = "done" /\ ~mover'[p].result
    <2>1. CASE mover' = [mover EXCEPT ![p].pc = "target", ![p].src = ino[Source[p]]]
      <3>. DEFINE r == [mover[p] EXCEPT !.pc = "target", !.src = Here(p)]
      <3>1. mover' = [mover EXCEPT ![p] = r]
        BY <1>3, <2>1
      <3>2. /\ r \in MoverRecords /\ r.pc = "target" /\ r.src = Here(p) /\ r.dst = ABSENT
            /\ r.readNum = 0 /\ r.cover = mover[p].cover /\ r.mixed = mover[p].mixed
            /\ r.old = mover[p].old
        BY <1>1, <1>2 DEF MoverRecords, Places
      <3>. HIDE DEF r
      <3>3. OnlyMoves(p) /\ mover'[p] = r /\ Alone(p)' = Alone(p)
        BY <1>1, <1>2, <3>1, <3>2, Updated
      <3>. QED
        BY <3>2, <3>3
    <2>2. CASE Return(p, FALSE)
      BY <1>1, <1>2, <2>2, MoverReturns DEF Keeps
    <2>. QED
      BY <2>1, <2>2 DEF OpenSource
  <1>5. CopyInv(p)' /\ OrderInv(p)' /\ BufferInv(p)'
    BY <1>2, <1>4, NoTargetYet
  <1>6. SourceKept(p)' /\ TargetApart(p)'
    BY <1>1, <1>2, <1>3, <1>4 DEF SourceKept, TargetApart
  <1>7. PlaceInv(p)'
    BY <1>1, <1>2, <1>4 DEF PlaceInv
  <1>8. OldInv(p)'
    BY <1>1, <1>2, <1>4 DEF OldInv
  <1>. QED
    BY <1>4, <1>5, <1>6, <1>7, <1>8 DEF MoverInv

LEMMA OpenTargetStep ==
    ASSUME FileInv, NEW p \in Movers, OpenTarget(p)
    PROVE  OnlyMoves(p) /\ MoverInv(p)'
  <1>1. /\ buf' = buf /\ mover[p].pc = "target"
        /\ Here(p)' = Here(p) /\ There' = There
        /\ mover \in [Movers -> MoverRecords] /\ mover[p] \in MoverRecords
    BY SameConstants DEF OpenTarget, AtPc, FileInv, FilesTypeOK
  <1>2. /\ SourceKept(p) /\ TargetApart(p) /\ PlaceInv(p) /\ OldInv(p) /\ BufferInv(p)
        /\ mover[p].dst = ABSENT /\ mover[p].readNum = 0 /\ mover[p].src = Here(p)
        /\ Here(p) \in Inodes /\ Here(p) # ABSENT
    BY <1>1, InodesApart DEF FileInv, MoverInv, PlaceInv
  <1>3. ino[Source[p]] = Here(p) /\ ino[Target[p]] \in There \cup {ABSENT}
    BY <1>1, <1>2 DEF SourceKept, TargetApart
  <1>4. CASE Return(p, FALSE) /\ UNCHANGED <<ino, data>>
    <2>1. /\ OnlyMoves(p) /\ Alone(p)' = Alone(p) /\ Keeps(p)
          /\ mover'[p].pc = "done" /\ ~mover'[p].result
      BY <1>1, <1>4, MoverReturns
    <2>2. CopyInv(p)' /\ OrderInv(p)' /\ BufferInv(p)'
      BY <1>2, <2>1, NoTargetYet DEF Keeps
    <2>3. SourceKept(p)' /\ TargetApart(p)'
      BY <1>1, <1>2, <1>3, <1>4, <2>1, InodesApart DEF SourceKept, TargetApart
    <2>4. PlaceInv(p)'
      BY <1>1, <1>2, <1>4, <2>1 DEF PlaceInv, Keeps
    <2>5. OldInv(p)'
      BY <1>1, <1>2, <1>4, <2>1 DEF OldInv, Keeps
    <2>. QED
      BY <2>1, <2>2, <2>3, <2>4, <2>5 DEF MoverInv
  <1>5. ASSUME NEW dst \in There,
               ino' = [ino EXCEPT ![Target[p]] = dst],
               data' = [data EXCEPT ![dst] = <<>>],
               mover' = [mover EXCEPT ![p].pc = "read", ![p].dst = dst]
        PROVE  OnlyMoves(p) /\ MoverInv(p)'
    <2>. DEFINE r == [mover[p] EXCEPT !.pc = "read", !.dst = dst]
    <2>1. dst \in Inodes /\ dst # Here(p) /\ dst # ABSENT
      BY InodesApart
    <2>2. mover' = [mover EXCEPT ![p] = r]
      BY <1>5
    <2>3. /\ r \in MoverRecords /\ r.pc = "read" /\ r.src = Here(p) /\ r.dst = dst
          /\ r.readNum = 0 /\ r.old = mover[p].old /\ r.cover = mover[p].cover
          /\ r.mixed = mover[p].mixed
      BY <1>1, <1>2, <2>1 DEF MoverRecords, Places
    <2>. HIDE DEF r
    <2>4. OnlyMoves(p) /\ mover'[p] = r /\ Alone(p)' = Alone(p)
      BY <1>1, <2>1, <2>2, <2>3, Updated
    <2>5. ino'[Source[p]] = Here(p) /\ ino'[Target[p]] = dst
      BY <1>3, <1>5, PathsApart DEF FileInv, FilesTypeOK
    <2>6. data'[dst] = <<>> /\ data'[Here(p)] = Content[p]
      BY <1>2, <1>5, <2>1 DEF FileInv, FilesTypeOK, SourceKept
    <2>7. Given(p)' = 0
      BY <2>3, <2>4 DEF Given
    <2>8. SourceKept(p)' /\ TargetApart(p)'
      BY <1>1, <2>1, <2>5, <2>6 DEF SourceKept, TargetApart
    <2>9. PlaceInv(p)'
      BY <1>1, <2>1, <2>3, <2>4, <2>5, WholeFile DEF PlaceInv
    <2>10. CopyInv(p)'
      BY <2>3, <2>4, <2>6, <2>7, WholeFile DEF CopyInv
    <2>11. OrderInv(p)'
      <3>1. Pieces(<<>>, Content[p], 0)
        BY NoPieces
      <3>. QED
        BY <2>3, <2>4, <2>6, <2>7, <3>1 DEF OrderInv, Pieces, InOrder
    <2>12. OldInv(p)'
      BY <1>1, <1>2, <2>3, <2>4 DEF OldInv
    <2>13. BufferInv(p)'
      BY <1>2, <2>3, <2>4 DEF BufferInv
    <2>. QED
      BY <2>4, <2>8, <2>9, <2>10, <2>11, <2>12, <2>13 DEF MoverInv
  <1>6. CASE ~(Return(p, FALSE) /\ UNCHANGED <<ino, data>>)
    <2>1. PICK dst \in Inodes :
              /\ (dst = ino[Target[p]] /\ ino[Target[p]] # ABSENT) \/ dst[1] = "there"
              /\ ino' = [ino EXCEPT ![Target[p]] = dst]
              /\ data' = [data EXCEPT ![dst] = <<>>]
              /\ mover' = [mover EXCEPT ![p].pc = "read", ![p].dst = dst]
      <3>1. There \subseteq Inodes
        BY InodesApart
      <3>. QED
        BY <1>3, <1>6, <3>1 DEF OpenTarget
    <2>2. dst \in There
      BY <1>3, <2>1 DEF There, Inodes
    <2>. QED
      BY <1>5, <2>1, <2>2
  <1>. QED
    BY <1>4, <1>6

\* One chunk more of a file.
LEMMA OneChunkMore ==
    ASSUME NEW p \in Movers, NEW n \in 1 .. Len(Content[p])
    PROVE  Append(SubSeq(Content[p], 1, n - 1), Content[p][n]) = SubSeq(Content[p], 1, n)
  <1>. DEFINE c == Content[p]
  <1>1. c \in Seq(Chunks) /\ Len(c) \in Nat /\ n \in Nat /\ n - 1 \in Nat
    BY FileUtilAssumption
  <1>. HIDE DEF c
  <1>2. n \in 1 .. Len(c) /\ c[n] \in Chunks
    BY <1>1 DEF c
  <1>3. /\ SubSeq(c, 1, n - 1) \in Seq(Chunks) /\ Len(SubSeq(c, 1, n - 1)) = n - 1
        /\ \A i \in 1 .. n - 1 : SubSeq(c, 1, n - 1)[i] = c[i]
    BY <1>1, <1>2
  <1>4. /\ SubSeq(c, 1, n) \in Seq(Chunks) /\ Len(SubSeq(c, 1, n)) = n
        /\ \A i \in 1 .. n : SubSeq(c, 1, n)[i] = c[i]
    BY <1>1, <1>2
  <1>. DEFINE s == SubSeq(c, 1, n - 1)
              t == SubSeq(c, 1, n)
  <1>. HIDE DEF s, t
  <1>5. /\ Append(s, c[n]) \in Seq(Chunks) /\ Len(Append(s, c[n])) = n
        /\ \A i \in 1 .. n - 1 : Append(s, c[n])[i] = s[i]
        /\ Append(s, c[n])[n] = c[n]
    BY <1>1, <1>2, <1>3, AppendProperties DEF s
  <1>6. \A i \in 1 .. n : Append(s, c[n])[i] = t[i]
    BY <1>1, <1>3, <1>4, <1>5 DEF s, t
  <1>7. Append(s, c[n]) = t
    BY <1>1, <1>4, <1>5, <1>6, SeqEqual DEF t
  <1>. QED
    BY <1>7 DEF s, t, c

LEMMA ReadChunkStep ==
    ASSUME FileInv, NEW p \in Movers, ReadChunk(p)
    PROVE  OnlyMoves(p) /\ MoverInv(p)'
  <1>. DEFINE n == mover[p].readNum
              file == Content[p]
              more == n < Len(file)
              after == IF more THEN n + 1 ELSE n
              last == n + 1 >= Len(file)
              r == [mover[p] EXCEPT !.pc = "write", !.got = more, !.readNum = after,
                                    !.last = last]
              q == [mover[p] EXCEPT !.pc = "write", !.got = FALSE, !.last = TRUE,
                                    !.unseen = TRUE]
  <1>1. /\ ino' = ino /\ data' = data /\ mover[p].pc = "read"
        /\ Here(p)' = Here(p) /\ There' = There
        /\ mover \in [Movers -> MoverRecords] /\ mover[p] \in MoverRecords
    BY SameConstants DEF ReadChunk, AtPc, FileInv, FilesTypeOK
  <1>2. /\ SourceKept(p) /\ TargetApart(p) /\ PlaceInv(p) /\ CopyInv(p) /\ OrderInv(p)
        /\ OldInv(p) /\ BufferInv(p)
        /\ mover[p].dst \in There /\ mover[p].dst = ino[Target[p]] /\ mover[p].dst # ABSENT
        /\ mover[p].src = Here(p) /\ data[mover[p].src] = file
    BY <1>1, InodesApart DEF FileInv, MoverInv, PlaceInv, SourceKept
  <1>3. ino[Source[p]] = Here(p) /\ ino[Target[p]] # Here(p)
    BY <1>1, <1>2, InodesApart DEF SourceKept
  <1>4. n \in Nat /\ n <= Len(file) /\ Len(file) \in Nat
    BY <1>1, <1>2, WholeFile DEF PlaceInv, MoverRecords
  <1>5. Given(p) = n
    BY <1>1 DEF Given
  <1>6. ASSUME NEW s \in MoverRecords, mover' = [mover EXCEPT ![p] = s],
               s.pc = "write", s.src = Here(p), s.dst = mover[p].dst, s.old = mover[p].old,
               s.cover = mover[p].cover, s.mixed = mover[p].mixed,
               s.readNum \in n .. Len(file), s.got => s.readNum = n + 1 /\ buf' = file[n + 1],
               ~s.got => s.readNum = n,
               ~s.unseen => ~mover[p].unseen /\ (s.last => s.readNum = Len(file))
        PROVE  OnlyMoves(p) /\ MoverInv(p)'
    <2>1. OnlyMoves(p) /\ mover'[p] = s /\ Alone(p)' = Alone(p)
      BY <1>1, <1>2, <1>6, Updated
    <2>2. Given(p)' = n
      BY <1>4, <1>6, <2>1 DEF Given
    <2>3. SourceKept(p)' /\ TargetApart(p)'
      BY <1>1, <1>2, <1>3, <2>1 DEF SourceKept, TargetApart
    <2>4. PlaceInv(p)'
      BY <1>1, <1>2, <1>4, <1>6, <2>1 DEF PlaceInv
    <2>5. CopyInv(p)'
      BY <1>1, <1>2, <1>5, <1>6, <2>1, <2>2 DEF CopyInv
    <2>6. OrderInv(p)'
      <3>1. data'[mover'[p].dst] = data[mover[p].dst] /\ Given(p)' = Given(p)
            /\ mover'[p].dst = mover[p].dst /\ mover'[p].mixed = mover[p].mixed
        BY <1>1, <1>5, <1>6, <2>1, <2>2
      <3>. QED
        BY <1>2, <3>1, SMTT(30) DEF OrderInv, Pieces, InOrder
    <2>7. OldInv(p)'
      BY <1>1, <1>2, <1>6, <2>1 DEF OldInv
    <2>8. BufferInv(p)'
      BY <1>2, <1>6, <2>1 DEF BufferInv
    <2>. QED
      BY <2>1, <2>3, <2>4, <2>5, <2>6, <2>7, <2>8 DEF MoverInv
  <1>7. CASE /\ mover' = [mover EXCEPT ![p].pc = "write", ![p].got = more,
                                       ![p].readNum = IF more THEN @ + 1 ELSE @,
                                       ![p].last = Ends(file, n + 1)]
             /\ buf' = IF more THEN file[n + 1] ELSE buf
    <2>1. mover' = [mover EXCEPT ![p] = r]
      BY <1>1, <1>7 DEF Ends
    <2>2. more \in BOOLEAN /\ last \in BOOLEAN /\ after \in Nat
      BY <1>4
    <2>3. /\ after \in n .. Len(file)
          /\ more => after = n + 1 /\ buf' = file[n + 1]
          /\ ~more => after = n
          /\ last => after = Len(file)
      BY <1>4, <1>7
    <2>. HIDE DEF more, after, last
    <2>4. /\ r \in MoverRecords /\ r.pc = "write"
          /\ r.src = mover[p].src /\ r.dst = mover[p].dst /\ r.unseen = mover[p].unseen
          /\ r.old = mover[p].old /\ r.cover = mover[p].cover /\ r.mixed = mover[p].mixed
          /\ r.got = more /\ r.readNum = after /\ r.last = last
      BY <1>1, <2>2 DEF MoverRecords, Places
    <2>. HIDE DEF r, n, file
    <2>. QED
      BY <1>2, <1>6, <2>1, <2>3, <2>4
  <1>8. CASE mover' = [mover EXCEPT ![p].pc = "write", ![p].got = FALSE, ![p].last = TRUE,
                                    ![p].unseen = TRUE]
    <2>1. mover' = [mover EXCEPT ![p] = q]
      BY <1>8
    <2>2. /\ q \in MoverRecords /\ q.pc = "write"
          /\ q.src = mover[p].src /\ q.dst = mover[p].dst /\ q.unseen
          /\ q.old = mover[p].old /\ q.cover = mover[p].cover /\ q.mixed = mover[p].mixed
          /\ ~q.got /\ q.readNum = n
      BY <1>1 DEF MoverRecords, Places
    <2>3. n \in n .. Len(file)
      BY <1>4
    <2>. HIDE DEF q, n, file
    <2>. QED
      BY <1>2, <1>6, <2>1, <2>2, <2>3
  <1>9. \/ /\ mover' = [mover EXCEPT ![p].pc = "write", ![p].got = more,
                                     ![p].readNum = IF more THEN @ + 1 ELSE @,
                                     ![p].last = Ends(file, n + 1)]
           /\ buf' = IF more THEN file[n + 1] ELSE buf
        \/ mover' = [mover EXCEPT ![p].pc = "write", ![p].got = FALSE, ![p].last = TRUE,
                                  ![p].unseen = TRUE]
    BY <1>2, SMTT(30) DEF ReadChunk
  <1>. QED
    BY <1>7, <1>8, <1>9

LEMMA WriteChunkStep ==
    ASSUME FileInv, NEW p \in Movers, WriteChunk(p)
    PROVE  OnlyMoves(p) /\ MoverInv(p)'
  <1>. DEFINE n == mover[p].readNum
              file == Content[p]
              dst == mover[p].dst
              next == IF mover[p].last THEN "unlink" ELSE "read"
  <1>1. /\ ino' = ino /\ buf' = buf /\ mover[p].pc = "write"
        /\ Here(p)' = Here(p) /\ There' = There
        /\ mover \in [Movers -> MoverRecords] /\ mover[p] \in MoverRecords
        /\ next \in Places
    BY SameConstants DEF WriteChunk, AtPc, FileInv, FilesTypeOK, Places
  <1>2. /\ SourceKept(p) /\ TargetApart(p) /\ PlaceInv(p) /\ CopyInv(p) /\ OrderInv(p)
        /\ OldInv(p) /\ BufferInv(p)
        /\ dst \in There /\ dst = ino[Target[p]] /\ dst # ABSENT
        /\ mover[p].src = Here(p) /\ data[Here(p)] = file
    BY <1>1, InodesApart DEF FileInv, MoverInv, PlaceInv, SourceKept
  <1>3. ino[Source[p]] = Here(p) /\ ino[Target[p]] # Here(p)
    BY <1>1, <1>2, InodesApart DEF SourceKept
  <1>4. n \in Nat /\ n <= Len(file) /\ Len(file) \in Nat /\ (mover[p].got => n > 0)
    BY <1>1, <1>2, WholeFile DEF PlaceInv, MoverRecords
  <1>5. Here(p) \in Inodes /\ dst \in Inodes /\ Here(p) # dst
    BY <1>2, InodesApart
  <1>6. Given(p) = IF mover[p].got THEN n - 1 ELSE n
    BY <1>1 DEF Given
  <1>7. /\ ~mover[p].unseen /\ ~mover[p].mixed => data[dst] = SubSeq(file, 1, Given(p))
        /\ ~mover[p].unseen /\ mover[p].last => n = Len(file)
        /\ ~mover[p].mixed => Pieces(data[dst], file, Given(p))
        /\ mover[p].mixed => ~Alone(p)
    BY <1>1, <1>2 DEF CopyInv, OrderInv, BufferInv
  <1>. HIDE DEF next
  <1>8. ASSUME NEW r \in MoverRecords, mover' = [mover EXCEPT ![p] = r],
               r.pc = next, r.src = Here(p), r.dst = dst, r.readNum = n,
               r.old = mover[p].old, r.cover = mover[p].cover,
               data'[Here(p)] = file,
               ~r.unseen => ~mover[p].unseen,
               ~r.unseen /\ ~r.mixed => data'[dst] = SubSeq(file, 1, n),
               ~r.mixed => Pieces(data'[dst], file, n),
               r.mixed => ~Alone(p)
        PROVE  OnlyMoves(p) /\ MoverInv(p)'
    <2>1. OnlyMoves(p) /\ mover'[p] = r /\ Alone(p)' = Alone(p)
      BY <1>1, <1>2, <1>8, Updated
    <2>2. /\ r.pc \in {"read", "unlink"}
          /\ r.pc = "unlink" => mover[p].last
      BY <1>8 DEF next
    <2>3. Given(p)' = n
      BY <1>8, <2>1, <2>2 DEF Given
    <2>4. SourceKept(p)' /\ TargetApart(p)'
      BY <1>1, <1>2, <1>3, <1>8, <2>1, <2>2 DEF SourceKept, TargetApart
    <2>5. PlaceInv(p)'
      BY <1>1, <1>2, <1>4, <1>8, <2>1, <2>2 DEF PlaceInv
    <2>6. CopyInv(p)'
      BY <1>1, <1>2, <1>7, <1>8, <2>1, <2>2, <2>3 DEF CopyInv
    <2>7. OrderInv(p)'
      BY <1>1, <1>2, <1>8, <2>1, <2>3 DEF OrderInv, Pieces, InOrder
    <2>8. OldInv(p)'
      BY <1>1, <1>2, <1>8, <2>1, <2>2 DEF OldInv
    <2>9. BufferInv(p)'
      BY <1>8, <2>1, <2>2 DEF BufferInv
    <2>. QED
      BY <2>1, <2>4, <2>5, <2>6, <2>7, <2>8, <2>9 DEF MoverInv
  <1>9. CASE ~mover[p].got /\ Goto(p, next) /\ UNCHANGED data
    <2>. DEFINE r == [mover[p] EXCEPT !.pc = next]
    <2>1. mover' = [mover EXCEPT ![p] = r]
      BY <1>9 DEF Goto
    <2>2. /\ r \in MoverRecords /\ r.pc = next /\ r.src = mover[p].src /\ r.dst = dst
          /\ r.readNum = n /\ r.unseen = mover[p].unseen /\ r.mixed = mover[p].mixed
          /\ r.old = mover[p].old /\ r.cover = mover[p].cover
      BY <1>1 DEF MoverRecords
    <2>3. Given(p) = n
      BY <1>6, <1>9
    <2>. HIDE DEF r, n, file, dst
    <2>. QED
      BY <1>2, <1>7, <1>8, <1>9, <2>1, <2>2, <2>3
  <1>10. ASSUME mover[p].got
         PROVE  /\ n \in 1 .. Len(file) /\ n \in Nat \ {0} /\ Given(p) = n - 1
                /\ file[n] \in Chunks
                /\ Append(SubSeq(file, 1, n - 1), file[n]) = SubSeq(file, 1, n)
    <2>1. n \in 1 .. Len(file)
      BY <1>4, <1>10
    <2>2. file \in Seq(Chunks)
      BY WholeFile
    <2>3. n \in Nat \ {0} /\ Given(p) = n - 1
      BY <1>4, <1>6, <1>10
    <2>4. Append(SubSeq(file, 1, n - 1), file[n]) = SubSeq(file, 1, n)
      BY <2>1, OneChunkMore
    <2>5. file[n] \in Chunks
      <3>. HIDE DEF file, n
      <3>. QED
        BY <2>1, <2>2
    <2>. QED
      BY <2>1, <2>3, <2>4, <2>5
  <1>11. ASSUME mover[p].got, NEW chunk \in {buf} \cup IF Racing(p) THEN {TORN} ELSE {},
                data' = [data EXCEPT ![dst] = Append(@, chunk)],
                mover' = [mover EXCEPT ![p].pc = next,
                                       ![p].mixed = @ \/ chunk # data[mover[p].src][n]]
         PROVE  OnlyMoves(p) /\ MoverInv(p)'
    <2>. DEFINE mixed == mover[p].mixed \/ chunk # file[n]
                r == [mover[p] EXCEPT !.pc = next, !.mixed = mixed]
    <2>1. mover' = [mover EXCEPT ![p] = r]
      BY <1>1, <1>2, <1>11
    <2>2. mixed \in BOOLEAN
      OBVIOUS
    <2>3. mixed => ~Alone(p)
      <3>. SUFFICES ASSUME Alone(p), chunk # file[n] PROVE FALSE
        BY <1>7
      <3>1. buf = file[n]
        BY <1>1, <1>2, <1>11 DEF BufferInv
      <3>2. Racing(p)
        BY <1>11, <3>1
      <3>3. PICK q \in Movers \ {p} : mover[q].pc \in {"read", "write"}
        BY <3>2 DEF Racing, AtPc
      <3>4. mover[q].dst # ABSENT
        BY <3>3 DEF FileInv, MoverInv, PlaceInv
      <3>. QED
        BY <3>4 DEF Alone
    <2>4. ~mixed => ~mover[p].mixed /\ chunk = file[n]
      OBVIOUS
    <2>. HIDE DEF mixed
    <2>5. /\ r \in MoverRecords /\ r.pc = next /\ r.src = mover[p].src /\ r.dst = dst
          /\ r.readNum = n /\ r.unseen = mover[p].unseen /\ r.mixed = mixed
          /\ r.old = mover[p].old /\ r.cover = mover[p].cover
      BY <1>1, <2>2 DEF MoverRecords
    <2>. HIDE DEF r
    <2>6. data'[Here(p)] = file /\ data'[dst] = Append(data[dst], chunk)
      BY <1>2, <1>5, <1>11 DEF FileInv, FilesTypeOK
    <2>7. ~mixed => Pieces(data'[dst], file, n)
      BY <1>7, <1>10, <1>11, <2>4, <2>6, OnePieceMore
    <2>8. ~r.unseen /\ ~mixed => data'[dst] = SubSeq(file, 1, n)
      BY <1>7, <1>10, <1>11, <2>4, <2>5, <2>6
    <2>. HIDE DEF n, file, dst
    <2>. QED
      BY <1>2, <1>8, <2>1, <2>3, <2>5, <2>6, <2>7, <2>8
  <1>12. ASSUME mover[p].got, data' \in {data, [data EXCEPT ![dst] = Append(@, TORN)]},
                mover' = [mover EXCEPT ![p].pc = next, ![p].unseen = TRUE]
         PROVE  OnlyMoves(p) /\ MoverInv(p)'
    <2>. DEFINE r == [mover[p] EXCEPT !.pc = next, !.unseen = TRUE]
    <2>1. mover' = [mover EXCEPT ![p] = r]
      BY <1>12
    <2>2. /\ r \in MoverRecords /\ r.pc = next /\ r.src = mover[p].src /\ r.dst = dst
          /\ r.readNum = n /\ r.unseen /\ r.mixed = mover[p].mixed
          /\ r.old = mover[p].old /\ r.cover = mover[p].cover
      BY <1>1 DEF MoverRecords
    <2>. HIDE DEF r
    <2>3. data'[Here(p)] = file /\ data'[dst] \in {data[dst], Append(data[dst], TORN)}
      BY <1>2, <1>5, <1>12 DEF FileInv, FilesTypeOK
    <2>4. ~mover[p].mixed => Pieces(data'[dst], file, n)
      <3>. SUFFICES ASSUME ~mover[p].mixed PROVE Pieces(data'[dst], file, n)
        OBVIOUS
      <3>1. Pieces(data[dst], file, n - 1) /\ n - 1 \in Nat /\ n - 1 <= n
        BY <1>7, <1>10, <1>12
      <3>2. Pieces(data[dst], file, n)
        BY <1>4, <3>1, MorePlaces
      <3>3. Pieces(Append(data[dst], TORN), file, n)
        BY <1>10, <1>12, <3>1, OnePieceMore
      <3>. QED
        BY <2>3, <3>2, <3>3
    <2>. HIDE DEF n, file, dst
    <2>. QED
      BY <1>2, <1>7, <1>8, <2>1, <2>2, <2>3, <2>4
  <1>13. \/ ~mover[p].got /\ Goto(p, next) /\ UNCHANGED data
         \/ /\ mover[p].got
            /\ \E chunk \in {buf} \cup IF Racing(p) THEN {TORN} ELSE {} :
                   /\ data' = [data EXCEPT ![dst] = Append(@, chunk)]
                   /\ mover' = [mover EXCEPT ![p].pc = next,
                                             ![p].mixed = @ \/ chunk # data[mover[p].src][n]]
         \/ /\ mover[p].got
            /\ mover' = [mover EXCEPT ![p].pc = next, ![p].unseen = TRUE]
            /\ data' \in {data, [data EXCEPT ![dst] = Append(@, TORN)]}
    BY DEF WriteChunk, next
  <1>. QED
    BY <1>9, <1>11, <1>12, <1>13

LEMMA UnlinkStep ==
    ASSUME FileInv, NEW p \in Movers, Unlink(p)
    PROVE  OnlyMoves(p) /\ MoverInv(p)'
  <1>. DEFINE n == mover[p].readNum
              file == Content[p]
              dst == mover[p].dst
  <1>1. /\ buf' = buf /\ mover[p].pc = "unlink"
        /\ ino' = ino \/ ino' = [ino EXCEPT ![Source[p]] = ABSENT]
        /\ Here(p)' = Here(p) /\ There' = There
        /\ mover \in [Movers -> MoverRecords] /\ mover[p] \in MoverRecords
    BY SameConstants DEF Unlink, AtPc, FileInv, FilesTypeOK
  <1>2. /\ SourceKept(p) /\ TargetApart(p) /\ PlaceInv(p) /\ CopyInv(p) /\ OrderInv(p)
        /\ OldInv(p) /\ BufferInv(p)
        /\ dst \in There /\ dst = ino[Target[p]] /\ dst # ABSENT
        /\ data[Here(p)] = file /\ ino[Source[p]] = Here(p)
    BY <1>1, InodesApart DEF FileInv, MoverInv, PlaceInv, SourceKept
  <1>3. n \in Nat /\ n <= Len(file) /\ Len(file) \in Nat
    BY <1>1, <1>2, WholeFile DEF PlaceInv, MoverRecords
  <1>4. Here(p) \in Inodes /\ dst \in Inodes /\ Here(p) # dst
    BY <1>2, InodesApart
  <1>5. /\ ino'[Source[p]] \in {Here(p), ABSENT}
        /\ ino'[Target[p]] = dst
    BY <1>1, <1>2, PathsApart DEF FileInv, FilesTypeOK
  <1>6. PICK how \in Flushes :
            /\ data' = [data EXCEPT ![dst] = Left(@, how)]
            /\ mover' = [mover EXCEPT ![p].pc = "done", ![p].result = TRUE,
                                      ![p].unseen = @ \/ how # "all"]
    BY DEF Unlink
  <1>. DEFINE unseen == mover[p].unseen \/ how # "all"
              r == [mover[p] EXCEPT !.pc = "done", !.result = TRUE, !.unseen = unseen]
  <1>7. mover' = [mover EXCEPT ![p] = r]
    BY <1>6
  <1>8. unseen \in BOOLEAN /\ (~unseen => ~mover[p].unseen /\ how = "all")
    OBVIOUS
  <1>. HIDE DEF unseen
  <1>9. /\ r \in MoverRecords /\ r.pc = "done" /\ r.result /\ r.dst = dst /\ r.readNum = n
        /\ r.unseen = unseen /\ r.mixed = mover[p].mixed
        /\ r.old = mover[p].old /\ r.cover = mover[p].cover
    BY <1>1, <1>8 DEF MoverRecords, Places
  <1>. HIDE DEF r
  <1>10. OnlyMoves(p) /\ mover'[p] = r /\ Alone(p)' = Alone(p)
    BY <1>1, <1>2, <1>7, <1>9, Updated
  <1>11. data'[Here(p)] = file /\ data'[dst] = Left(data[dst], how)
    BY <1>2, <1>4, <1>6 DEF FileInv, FilesTypeOK
  <1>12. Given(p) = n /\ Given(p)' = n
    BY <1>1, <1>9, <1>10 DEF Given
  <1>13. ~unseen /\ ~mover[p].mixed => data'[dst] = file
    <2>. SUFFICES ASSUME ~unseen, ~mover[p].mixed PROVE data'[dst] = file
      OBVIOUS
    <2>1. data[dst] = SubSeq(file, 1, n) /\ n = Len(file)
      BY <1>1, <1>2, <1>8, <1>12 DEF CopyInv
    <2>2. data[dst] = file
      BY <2>1, WholeFile
    <2>. QED
      BY <1>8, <1>11, <2>2 DEF Left
  <1>14. ~mover[p].mixed => Pieces(data'[dst], file, n)
    BY <1>2, <1>3, <1>11, <1>12, PiecesLeft DEF OrderInv
  <1>15. SourceKept(p)' /\ TargetApart(p)'
    BY <1>1, <1>2, <1>4, <1>5, <1>9, <1>10, <1>11 DEF SourceKept, TargetApart
  <1>16. PlaceInv(p)'
    BY <1>1, <1>2, <1>3, <1>5, <1>9, <1>10 DEF PlaceInv
  <1>17. CopyInv(p)'
    BY <1>9, <1>10, <1>13 DEF CopyInv
  <1>18. OrderInv(p)'
    BY <1>9, <1>10, <1>12, <1>14 DEF OrderInv, Pieces, InOrder
  <1>19. OldInv(p)'
    BY <1>1, <1>2, <1>9, <1>10 DEF OldInv
  <1>20. BufferInv(p)'
    BY <1>2, <1>9, <1>10 DEF BufferInv
  <1>. QED
    BY <1>10, <1>15, <1>16, <1>17, <1>18, <1>19, <1>20 DEF MoverInv

-----------------------------------------------------------------------------
\* What a thread changes of the files: one of its paths, and its target.
ChangesPath(p) ==
    \E path \in {Source[p], Target[p]}, i \in Inodes \cup {ABSENT} :
        /\ ino' = ino \/ ino' = [ino EXCEPT ![path] = i]
        /\ i = ABSENT \/ \A q \in Movers \ {p} : ino[Target[q]] # i

ChangesFile(p) ==
    \E d \in There :
        /\ data' = data \/ \E chunks : data' = [data EXCEPT ![d] = chunks]
        /\ \A q \in Movers \ {p} : ino[Target[q]] # d

LEMMA SameFiles ==
    ASSUME FileInv, NEW p \in Movers
    PROVE  /\ ino' = ino => ChangesPath(p)
           /\ ino' = [ino EXCEPT ![Target[p]] = ABSENT] => ChangesPath(p)
           /\ ino' = [ino EXCEPT ![Source[p]] = ABSENT] => ChangesPath(p)
  BY DEF ChangesPath

\* A file that is written, or made, is in no other thread's way.
LEMMA OwnTarget ==
    ASSUME FileInv, NEW p \in Movers, NEW d \in There,
           d = ino[Target[p]] \/ \A path \in Paths : ino[path] # d
    PROVE  d \in Inodes /\ \A q \in Movers \ {p} : ino[Target[q]] # d
  <1>1. d \in Inodes /\ d # ABSENT
    BY InodesApart
  <1>2. \A q \in Movers \ {p} : Target[q] \in Paths
    BY PathsApart
  <1>. QED
    BY <1>1, <1>2 DEF FileInv, TargetsDiffer

LEMMA StepEffects ==
    ASSUME FileInv, NEW p \in Movers, MoverStep(p)
    PROVE  ChangesPath(p) /\ (data' = data \/ ChangesFile(p))
  <1>1. CASE \E cover \in BOOLEAN : Move(p, cover)
    BY <1>1, SameFiles DEF Move
  <1>2. CASE MakeRoom(p)
    BY <1>2, SameFiles DEF MakeRoom
  <1>3. CASE OpenSource(p)
    BY <1>3, SameFiles DEF OpenSource
  <1>4. CASE OpenTarget(p)
    <2>1. CASE UNCHANGED <<ino, data>>
      BY <2>1, SameFiles
    <2>2. CASE ~UNCHANGED <<ino, data>>
      <3>1. PICK dst \in IF ino[Target[p]] # ABSENT THEN {ino[Target[p]]}
                         ELSE {i \in Inodes : i[1] = "there" /\ \A path \in Paths : ino[path] # i} :
                /\ ino' = [ino EXCEPT ![Target[p]] = dst]
                /\ data' = [data EXCEPT ![dst] = <<>>]
        BY <1>4, <2>2 DEF OpenTarget
      <3>2. ino[Target[p]] \in There \cup {ABSENT}
        BY <1>4 DEF OpenTarget, AtPc, FileInv, MoverInv, TargetApart
      <3>3. /\ dst \in There
            /\ dst = ino[Target[p]] \/ \A path \in Paths : ino[path] # dst
        <4>1. CASE ino[Target[p]] # ABSENT
          BY <3>1, <3>2, <4>1
        <4>2. CASE ino[Target[p]] = ABSENT
          BY <3>1, <4>2 DEF Inodes, There
        <4>. QED
          BY <4>1, <4>2
      <3>4. dst \in Inodes /\ \A q \in Movers \ {p} : ino[Target[q]] # dst
        BY <3>3, OwnTarget
      <3>. QED
        BY <3>1, <3>3, <3>4 DEF ChangesPath, ChangesFile
    <2>. QED
      BY <2>1, <2>2
  <1>5. CASE ReadChunk(p)
    BY <1>5, SameFiles DEF ReadChunk
  <1>6. CASE WriteChunk(p)
    <2>1. /\ ino' = ino
          /\ mover[p].dst \in There /\ mover[p].dst = ino[Target[p]]
      BY <1>6 DEF WriteChunk, AtPc, FileInv, MoverInv, PlaceInv
    <2>2. \A q \in Movers \ {p} : ino[Target[q]] # mover[p].dst
      BY <2>1, OwnTarget, SMTT(30)
    <2>3. data' = data \/ \E chunk : data' = [data EXCEPT ![mover[p].dst] = Append(@, chunk)]
      BY <1>6 DEF WriteChunk
    <2>. QED
      BY <2>1, <2>2, <2>3, SameFiles DEF ChangesFile
  <1>7. CASE Unlink(p)
    <2>1. /\ mover[p].dst \in There /\ mover[p].dst = ino[Target[p]]
          /\ ino' = ino \/ ino' = [ino EXCEPT ![Source[p]] = ABSENT]
      BY <1>7, InodesApart DEF Unlink, AtPc, FileInv, MoverInv, PlaceInv
    <2>2. \A q \in Movers \ {p} : ino[Target[q]] # mover[p].dst
      BY <2>1, OwnTarget, SMTT(30)
    <2>3. \E how : data' = [data EXCEPT ![mover[p].dst] = Left(@, how)]
      BY <1>7 DEF Unlink
    <2>. QED
      BY <2>1, <2>2, <2>3, SameFiles DEF ChangesFile
  <1>. QED
    BY <1>1, <1>2, <1>3, <1>4, <1>5, <1>6, <1>7 DEF MoverStep

LEMMA MoverStepKeeps ==
    ASSUME FileInv, NEW p \in Movers, MoverStep(p)
    PROVE  FileInv'
  <1>1. OnlyMoves(p) /\ MoverInv(p)'
    BY MoveStep, MakeRoomStep, OpenSourceStep, OpenTargetStep, ReadChunkStep, WriteChunkStep,
       UnlinkStep DEF MoverStep
  <1>2. PICK path \in {Source[p], Target[p]}, i \in Inodes \cup {ABSENT} :
            /\ ino' = ino \/ ino' = [ino EXCEPT ![path] = i]
            /\ i = ABSENT \/ \A q \in Movers \ {p} : ino[Target[q]] # i
    BY StepEffects DEF ChangesPath
  <1>3. PICK d \in There :
            /\ data' = data \/ \E chunks : data' = [data EXCEPT ![d] = chunks]
            /\ data' = data \/ \A q \in Movers \ {p} : ino[Target[q]] # d
    <2>1. CASE data' = data
      <3>1. <<"there", Number[p]>> \in There
        BY FileUtilAssumption DEF There
      <3>. QED
        BY <2>1, <3>1
    <2>. QED
      BY <2>1, StepEffects DEF ChangesFile
  <1>4. FilesTypeOK'
    BY <1>1, <1>2, <1>3, PathsApart DEF FileInv, FilesTypeOK, OnlyMoves
  <1>5. TargetsDiffer'
    <2>1. /\ Target[p] \in Paths /\ path \in Paths
          /\ \A q \in Movers \ {p} : Target[q] \in Paths /\ Target[q] # path
      BY PathsApart
    <2>2. ino'[Target[p]] \in {ino[Target[p]], i}
      BY <1>2, <2>1 DEF FileInv, FilesTypeOK
    <2>3. \A q \in Movers \ {p} : ino'[Target[q]] = ino[Target[q]]
      BY <1>2, <2>1 DEF FileInv, FilesTypeOK
    <2>. QED
      BY <1>2, <2>2, <2>3 DEF FileInv, TargetsDiffer
  <1>6. ASSUME NEW q \in Movers \ {p} PROVE MoverInv(q)'
    BY <1>1, <1>2, <1>3, OthersUntouched DEF OnlyMoves
  <1>. QED
    BY <1>1, <1>4, <1>5, <1>6 DEF FileInv

\* A crash shortens files that are being written; the sources are not among
\* them, nor the targets of other threads.
LEMMA CrashKeeps == ASSUME FileInv, Crash PROVE FileInv'
  <1>. DEFINE writers == {q \in Movers : mover[q].pc \in {"read", "write", "unlink"}}
              open == {mover[q].dst : q \in writers}
  <1>1. /\ ino' = ino /\ mover \in [Movers -> MoverRecords]
        /\ mover' = [p \in Movers |-> IF mover[p].pc = "done" THEN mover[p]
                                      ELSE [mover[p] EXCEPT !.pc = "crashed"]]
        /\ There' = There /\ \A p \in Movers : Here(p)' = Here(p)
    BY SameConstants DEF Crash, FileInv, FilesTypeOK
  <1>2. PICK how \in [open -> Flushes] :
            data' = [i \in Inodes |-> IF i \in open THEN Left(data[i], how[i]) ELSE data[i]]
    BY DEF Crash
  <1>3. ASSUME NEW p \in Movers
        PROVE  /\ mover[p].pc = "done" => mover'[p] = mover[p]
               /\ mover[p].pc # "done" => mover'[p].pc = "crashed"
               /\ mover'[p] \in MoverRecords /\ Keeps(p)
               /\ mover'[p].unseen = mover[p].unseen
    <2>1. mover[p] \in MoverRecords
      BY <1>1
    <2>2. CASE mover[p].pc = "done"
      BY <1>1, <2>1, <2>2 DEF Keeps
    <2>3. CASE mover[p].pc # "done"
      <3>1. mover'[p] = [mover[p] EXCEPT !.pc = "crashed"]
        BY <1>1, <2>3
      <3>. QED
        BY <2>1, <2>3, <3>1 DEF MoverRecords, Places, Keeps
    <2>. QED
      BY <2>2, <2>3
  <1>4. FilesTypeOK'
    <2>1. mover' \in [Movers -> MoverRecords]
      BY <1>1, <1>3
    <2>2. data' = [i \in Inodes |-> data'[i]]
      BY <1>2
    <2>3. MoverRecords' = MoverRecords /\ Inodes' = Inodes /\ Paths' = Paths
      BY SameConstants DEF Inodes, Paths
    <2>. QED
      BY <1>1, <2>1, <2>2, <2>3 DEF FileInv, FilesTypeOK
  <1>5. TargetsDiffer'
    BY <1>1 DEF FileInv, TargetsDiffer
  <1>6. \A q \in writers : q \in Movers /\ mover[q].dst \in There /\ mover[q].dst = ino[Target[q]]
    BY DEF FileInv, MoverInv, PlaceInv
  <1>7. ASSUME NEW p \in Movers PROVE MoverInv(p)'
    <2>1. /\ SourceKept(p) /\ TargetApart(p) /\ PlaceInv(p) /\ CopyInv(p) /\ OrderInv(p)
          /\ OldInv(p) /\ BufferInv(p) /\ mover[p] \in MoverRecords
      BY <1>1 DEF FileInv, MoverInv
    <2>2. data'[Here(p)] = data[Here(p)]
      BY <1>2, <1>6, InodesApart
    <2>3. \A i \in There : i \in open \/ data'[i] = data[i]
      BY <1>2, InodesApart
    <2>4. p \notin writers /\ ino[Target[p]] \in There
              => data'[ino[Target[p]]] = data[ino[Target[p]]]
      <3>. SUFFICES ASSUME p \notin writers, ino[Target[p]] \in There,
                           NEW q \in writers, mover[q].dst = ino[Target[p]]
                    PROVE  FALSE
        BY <2>3
      <3>1. q # p /\ q \in Movers /\ ino[Target[q]] = ino[Target[p]]
        BY <1>6
      <3>2. ino[Target[p]] # ABSENT
        BY InodesApart
      <3>. QED
        BY <3>1, <3>2 DEF FileInv, TargetsDiffer
    <2>5. Alone(p)' = Alone(p)
      BY <1>3 DEF Alone, Keeps
    <2>6. CASE mover[p].pc = "done"
      <3>1. mover'[p] = mover[p] /\ p \notin writers /\ buf' = buf
        BY <1>3, <2>6 DEF Crash
      <3>. QED
        BY <1>1, <2>2, <2>4, <2>5, <3>1, OwnThings DEF FileInv
    <2>7. CASE mover[p].pc # "done"
      <3>1. mover'[p].pc = "crashed" /\ Keeps(p)
        BY <1>3, <2>7
      <3>2. SourceKept(p)' /\ TargetApart(p)' /\ CopyInv(p)' /\ BufferInv(p)'
        BY <1>1, <2>1, <2>2, <2>5, <2>7, <3>1
           DEF SourceKept, TargetApart, CopyInv, BufferInv, Keeps
      <3>3. PlaceInv(p)'
        BY <1>1, <2>1, <3>1 DEF PlaceInv, Keeps
      <3>4. OldInv(p)'
        <4>. SUFFICES ASSUME mover[p].old # ABSENT, ~mover[p].cover
                      PROVE  mover[p].old \in There /\ mover[p].old = ino[Target[p]]
                             /\ data'[mover[p].old] = Old
          BY <1>1, <3>1 DEF OldInv, Keeps
        <4>1. /\ mover[p].pc \in {"access", "crashed"}
              /\ mover[p].old \in There /\ mover[p].old = ino[Target[p]]
              /\ data[mover[p].old] = Old
          BY <2>1, <2>7 DEF OldInv
        <4>. QED
          BY <2>4, <4>1
      <3>5. OrderInv(p)'
        <4>. DEFINE d == mover[p].dst
                    file == Content[p]
                    n == mover[p].readNum
        <4>. SUFFICES ASSUME d # ABSENT, ~mover[p].mixed PROVE Pieces(data'[d], file, n)
          <5>1. Given(p)' = n
            BY <3>1 DEF Given, Keeps
          <5>. QED
            BY <3>1, <5>1 DEF OrderInv, Keeps, Pieces, InOrder
        <4>1. d \in There /\ Pieces(data[d], file, Given(p))
          BY <2>1 DEF OrderInv, PlaceInv
        <4>2. n \in Nat /\ Given(p) \in Nat /\ Given(p) <= n
          BY <2>1 DEF Given, PlaceInv, MoverRecords
        <4>. HIDE DEF d, file, n
        <4>3. Pieces(data[d], file, n)
          BY <4>1, <4>2, MorePlaces
        <4>4. data'[d] = data[d] \/ \E h \in Flushes : data'[d] = Left(data[d], h)
          BY <1>2, <4>1, InodesApart
        <4>. QED
          BY <4>2, <4>3, <4>4, PiecesLeft
      <3>. QED
        BY <3>2, <3>3, <3>4, <3>5 DEF MoverInv
    <2>. QED
      BY <2>6, <2>7
  <1>. QED
    BY <1>4, <1>5, <1>7 DEF FileInv

LEMMA FileInitInv == FileInit => FileInv
  <1>. SUFFICES ASSUME FileInit PROVE FileInv
    OBVIOUS
  <1>1. FilesTypeOK
    <2>1. Idle \in MoverRecords
      BY DEF Idle, MoverRecords, Places
    <2>2. mover \in [Movers -> MoverRecords]
      BY <2>1 DEF FileInit
    <2>3. data = [i \in Inodes |-> data[i]]
      BY DEF FileInit
    <2>. QED
      BY <2>2, <2>3 DEF FileInit, FilesTypeOK
  <1>2. TargetsDiffer
    BY DEF FileInit, TargetsDiffer
  <1>3. ASSUME NEW p \in Movers PROVE MoverInv(p)
    <2>1. ino[Source[p]] = Here(p)
      BY DEF FileInit, Here
    <2>2. data[Here(p)] = Content[p]
      <3>1. \A q \in Movers : Here(p) = <<"here", Number[q]>> <=> q = p
        BY InodesApart DEF Here
      <3>2. p = CHOOSE q \in Movers : Here(p) = <<"here", Number[q]>>
        BY <3>1
      <3>3. Here(p) \in Inodes
        BY InodesApart
      <3>4. data[Here(p)] = Content[CHOOSE q \in Movers : Here(p) = <<"here", Number[q]>>]
        BY <3>1, <3>3 DEF FileInit
      <3>. QED
        BY <3>2, <3>4
    <2>3. ino[Target[p]] \in There \cup {Here(p), ABSENT}
      <3>1. \A q \in Movers : <<"there", Number[q]>> \in There
        BY FileUtilAssumption DEF There
      <3>. QED
        BY <2>1, <3>1 DEF FileInit
    <2>4. ino[Target[p]] \in There => data[ino[Target[p]]] = Old
      <3>. SUFFICES ASSUME NEW d \in There PROVE data[d] = Old
        OBVIOUS
      <3>1. d \in Inodes /\ \A q \in Movers : d # <<"here", Number[q]>>
        BY InodesApart DEF Here, There
      <3>. QED
        BY <3>1 DEF FileInit
    <2>5. /\ mover[p].pc = "idle" /\ mover[p].dst = ABSENT /\ mover[p].readNum = 0
          /\ mover[p].old = ABSENT /\ ~mover[p].mixed
      BY DEF FileInit, Idle
    <2>6. Len(Content[p]) \in Nat
      BY WholeFile
    <2>. QED
      BY <2>1, <2>2, <2>3, <2>4, <2>5, <2>6
         DEF MoverInv, SourceKept, TargetApart, PlaceInv, CopyInv, OrderInv, OldInv, BufferInv
  <1>. QED
    BY <1>1, <1>2, <1>3 DEF FileInv

LEMMA FileInvSafe == FileInv => MoveLosesNothing
  <1>. SUFFICES ASSUME FileInv, NEW p \in Movers
                PROVE  LET m == mover[p]
                           whole(path) == Holds(path, Content[p])
                       IN /\ m.pc # "done" \/ ~m.result => whole(Source[p])
                          /\ m.pc = "done" /\ m.result /\ ~m.unseen /\ ~m.mixed =>
                                 \/ whole(Target[p])
                                 \/ whole(Source[p]) /\ IsSame(Source[p], Target[p])
                          /\ m.dst # ABSENT /\ ~m.mixed =>
                                 InOrder(data[m.dst], Content[p], Len(Content[p]))
                          /\ m.mixed => \E q \in Movers \ {p} : mover[q].dst # ABSENT
                          /\ m.old # ABSENT /\ ~m.cover => Holds(Target[p], Old)
    BY DEF MoveLosesNothing
  <1>1. /\ SourceKept(p) /\ PlaceInv(p) /\ CopyInv(p) /\ OrderInv(p) /\ OldInv(p)
        /\ BufferInv(p) /\ mover[p] \in MoverRecords
    BY DEF FileInv, MoverInv, FilesTypeOK
  <1>2. Here(p) # ABSENT /\ ABSENT \notin There
    BY InodesApart
  <1>3. ino[Source[p]] = Here(p) => Holds(Source[p], Content[p])
    BY <1>1, <1>2 DEF SourceKept, Holds
  <1>4. mover[p].pc # "done" \/ ~mover[p].result => ino[Source[p]] = Here(p)
    BY <1>1 DEF SourceKept
  <1>5. mover[p].pc = "done" /\ mover[p].result /\ ~mover[p].unseen /\ ~mover[p].mixed
            => \/ Holds(Target[p], Content[p])
               \/ ino[Source[p]] = Here(p) /\ IsSame(Source[p], Target[p])
    BY <1>1 DEF CopyInv, PlaceInv, Holds
  <1>6. mover[p].dst # ABSENT /\ ~mover[p].mixed
            => InOrder(data[mover[p].dst], Content[p], Len(Content[p]))
    <2>. DEFINE n == Given(p)
                file == Content[p]
                s == data[mover[p].dst]
    <2>. SUFFICES ASSUME mover[p].dst # ABSENT, ~mover[p].mixed PROVE InOrder(s, file, Len(file))
      OBVIOUS
    <2>1. n \in Nat /\ Len(file) \in Nat /\ n <= Len(file)
      BY <1>1, WholeFile DEF Given, PlaceInv, MoverRecords
    <2>2. Pieces(s, file, n)
      BY <1>1 DEF OrderInv
    <2>. HIDE DEF n, file, s
    <2>3. Pieces(s, file, Len(file))
      BY <2>1, <2>2, MorePlaces
    <2>. QED
      BY <2>3 DEF Pieces
  <1>7. mover[p].mixed => \E q \in Movers \ {p} : mover[q].dst # ABSENT
    BY <1>1 DEF BufferInv, Alone
  <1>8. mover[p].old # ABSENT /\ ~mover[p].cover => Holds(Target[p], Old)
    BY <1>1, <1>2 DEF OldInv, Holds
  <1>. QED
    BY <1>3, <1>4, <1>5, <1>6, <1>7, <1>8

\* However many threads move files of any length, and wherever the process ends, what
\* is moved is whole under its old name until Move() has succeeded, and then under its
\* new one, and what an unseen error leaves there are its own chunks in order; a target
\* that may not be covered stays (file_util.cpp:31-77); but for the cases that
\* MoveLosesNothing names.
THEOREM FilesAreKept == LibrarySpec => []FilesKept
  <1>1. LibraryInit => FileInv
    BY FileInitInv DEF LibraryInit
  <1>2. FileInv /\ [LibraryNext]_vars => FileInv'
    <2>. SUFFICES ASSUME FileInv, [LibraryNext]_vars PROVE FileInv'
      OBVIOUS
    <2>1. CASE UNCHANGED fileVars
      <3>1. ino' = ino /\ data' = data /\ buf' = buf /\ mover' = mover
        BY <2>1 DEF fileVars
      <3>2. FilesTypeOK' /\ TargetsDiffer'
        BY <3>1 DEF FileInv, FilesTypeOK, TargetsDiffer
      <3>3. ASSUME NEW p \in Movers PROVE MoverInv(p)'
        BY <3>1, OwnThings DEF FileInv, Alone
      <3>. QED
        BY <3>2, <3>3 DEF FileInv
    <2>2. CASE FileNext
      BY <2>2, CrashKeeps, MoverStepKeeps DEF FileNext
    <2>. QED
      BY <2>1, <2>2 DEF LibraryNext, vars, Is, Calculate, Pass, PutBits, PutFields, Type,
                        ReadFile, Enter, MoveFiles
  <1>3. FileInv => FilesKept
    BY FileInvSafe DEF FilesKept
  <1>. QED
    BY <1>1, <1>2, <1>3, PTL DEF LibrarySpec

-----------------------------------------------------------------------------
(***************************************************************************)
(* Moment.  A moment is a number written in base USEC_PER_SEC.             *)
(***************************************************************************)
LEMMA BaseIsPositive == USEC_PER_SEC \in Nat \ {0}
  BY MomentAssumption DEF USEC_PER_SEC

LEMMA DigitsOrder ==
    ASSUME NEW n \in Nat \ {0}, NEW s \in Int, NEW t \in Int,
           NEW u \in 0 .. n - 1, NEW v \in 0 .. n - 1
    PROVE  s * n + u < t * n + v <=> (s < t \/ (s = t /\ u < v))
  <1>1. ASSUME NEW x \in Int, NEW y \in Int, x < y PROVE x * n + n <= y * n
    <2>1. (x + 1) * n <= y * n /\ (x + 1) * n = x * n + n
      BY <1>1
    <2>. QED
      BY <2>1
  <1>2. s < t => s * n + n <= t * n
    BY <1>1
  <1>3. t < s => t * n + n <= s * n
    BY <1>1
  <1>4. s * n \in Int /\ t * n \in Int
    OBVIOUS
  <1>. DEFINE x == s * n
              y == t * n
  <1>5. s = t => x = y
    OBVIOUS
  <1>6. /\ s < t => x + n <= y
        /\ t < s => y + n <= x
        /\ x \in Int /\ y \in Int
    BY <1>2, <1>3, <1>4
  <1>. HIDE DEF x, y
  <1>7. x + u < y + v <=> (s < t \/ (s = t /\ u < v))
    <2>1. CASE s < t
      BY <1>6, <2>1
    <2>2. CASE t < s
      BY <1>6, <2>2
    <2>3. CASE s = t
      BY <1>5, <1>6, <2>3
    <2>. QED
      BY <2>1, <2>2, <2>3
  <1>. QED
    BY <1>7 DEF x, y

LEMMA LessExact ==
    ASSUME NEW a \in Moments, NEW b \in Moments
    PROVE  Less(a, b) <=> Micro(a) < Micro(b)
  <1>1. /\ a.sec \in Int /\ a.usec \in 0 .. USEC_PER_SEC - 1
        /\ b.sec \in Int /\ b.usec \in 0 .. USEC_PER_SEC - 1
    BY DEF Moments
  <1>2. a.sec * USEC_PER_SEC + a.usec < b.sec * USEC_PER_SEC + b.usec
        <=> (a.sec < b.sec \/ (a.sec = b.sec /\ a.usec < b.usec))
    <2>. DEFINE U == USEC_PER_SEC
    <2>1. U \in Nat \ {0} /\ a.usec \in 0 .. U - 1 /\ b.usec \in 0 .. U - 1
      BY <1>1, BaseIsPositive
    <2>. HIDE DEF U
    <2>2. a.sec * U + a.usec < b.sec * U + b.usec
          <=> (a.sec < b.sec \/ (a.sec = b.sec /\ a.usec < b.usec))
      BY <1>1, <2>1, DigitsOrder
    <2>. QED
      BY <2>2 DEF U
  <1>. QED
    BY <1>2 DEF Less, Micro

LEMMA MinusExact ==
    ASSUME NEW a \in Moments, NEW b \in Moments
    PROVE  /\ Minus(a, b) \in Moments
           /\ Minus(a, b).sec >= 0
           /\ Micro(Minus(a, b)) = IF Less(a, b) THEN 0 ELSE Micro(a) - Micro(b)
           /\ MinusAssign(a, b) = Minus(a, b)
  <1>. DEFINE U == USEC_PER_SEC
  <1>1. /\ a.sec \in Int /\ a.usec \in 0 .. U - 1
        /\ b.sec \in Int /\ b.usec \in 0 .. U - 1
        /\ U \in Nat \ {0}
    BY BaseIsPositive DEF Moments
  <1>2. Null \in Moments /\ Null.sec = 0 /\ Micro(Null) = 0
    BY BaseIsPositive DEF Null, Moments, Micro
  <1>3. (a.sec - b.sec) * U = a.sec * U - b.sec * U
        /\ (a.sec - b.sec - 1) * U = a.sec * U - b.sec * U - U
    <2>. HIDE DEF U
    <2>. QED
      BY <1>1
  <1>. HIDE DEF U
  <1>4. CASE Less(a, b)
    <2>1. Minus(a, b) = Null /\ MinusAssign(a, b) = Null
      BY <1>1, <1>4 DEF Minus, MinusAssign, Less
    <2>. QED
      BY <1>2, <1>4, <2>1
  <1>5. CASE ~Less(a, b) /\ a.usec >= b.usec
    <2>. DEFINE m == [sec |-> a.sec - b.sec, usec |-> a.usec - b.usec]
    <2>1. Minus(a, b) = m /\ MinusAssign(a, b) = m /\ m.sec >= 0
      BY <1>1, <1>5 DEF Minus, MinusAssign, Less
    <2>2. m \in Moments
      BY <1>1, <1>5 DEF Moments, U
    <2>3. Micro(m) = Micro(a) - Micro(b)
      BY <1>1, <1>3 DEF Micro, U
    <2>. QED
      BY <1>5, <2>1, <2>2, <2>3
  <1>6. CASE ~Less(a, b) /\ a.usec < b.usec
    <2>. DEFINE m == [sec |-> a.sec - b.sec - 1, usec |-> a.usec - b.usec + U]
    <2>1. Minus(a, b) = m /\ MinusAssign(a, b) = m /\ m.sec >= 0
      BY <1>1, <1>6 DEF Minus, MinusAssign, Less, U
    <2>2. m \in Moments
      BY <1>1, <1>6 DEF Moments, U
    <2>3. Micro(m) = Micro(a) - Micro(b)
      BY <1>1, <1>3 DEF Micro, U
    <2>. QED
      BY <1>6, <2>1, <2>2, <2>3
  <1>. QED
    BY <1>1, <1>4, <1>5, <1>6

LEMMA PlusExact ==
    ASSUME NEW a \in Moments, NEW b \in Moments
    PROVE  /\ Plus(a, b) \in Moments
           /\ Plus(a, b).sec >= a.sec + b.sec
           /\ Micro(Plus(a, b)) = Micro(a) + Micro(b)
  <1>. DEFINE U == USEC_PER_SEC
              w == a.usec + b.usec
              z == a.sec + b.sec
  <1>1. /\ a.sec \in Int /\ a.usec \in 0 .. U - 1
        /\ b.sec \in Int /\ b.usec \in 0 .. U - 1
        /\ U \in Nat \ {0}
    BY BaseIsPositive DEF Moments
  <1>2. (a.sec + b.sec) * U = a.sec * U + b.sec * U
        /\ (a.sec + b.sec + 1) * U = a.sec * U + b.sec * U + U
    <2>. HIDE DEF U
    <2>. QED
      BY <1>1
  <1>. HIDE DEF U
  <1>3. CASE w < U
    <2>1. Plus(a, b) = [sec |-> z, usec |-> w]
      BY <1>1, <1>3 DEF Plus, Carried, U
    <2>2. Plus(a, b) \in Moments
      BY <1>1, <1>3, <2>1 DEF Moments, U
    <2>. QED
      BY <1>1, <1>2, <2>1, <2>2 DEF Micro, U
  <1>4. CASE w >= U
    <2>1. w % U = w - U
      <3>1. w - U \in 0 .. U - 1
        BY <1>1, <1>4
      <3>2. (U * 1 + (w - U)) % U = w - U
        <4>1. 1 \in Int
          OBVIOUS
        <4>. QED
          BY <1>1, <3>1, <4>1, Quotient, Zenon
      <3>3. U * 1 + (w - U) = w
        BY <1>1
      <3>. QED
        BY <3>2, <3>3
    <2>2. Plus(a, b) = [sec |-> z + 1, usec |-> w - U]
      BY <1>1, <1>4, <2>1 DEF Plus, Carried, U
    <2>3. Plus(a, b) \in Moments
      BY <1>1, <1>4, <2>2 DEF Moments, U
    <2>. QED
      BY <1>1, <1>2, <2>2, <2>3 DEF Micro, U
  <1>. QED
    BY <1>1, <1>3, <1>4

\* Two remainders make one more at most.
LEMMA SumQuotient ==
    ASSUME NEW n \in Nat \ {0}, NEW q \in Int, NEW r \in 0 .. 2 * n - 2
    PROVE  (n * q + r) \div n - q \in {0, 1}
  <1>1. CASE r < n
    <2>1. r \in 0 .. n - 1
      BY <1>1
    <2>2. (n * q + r) \div n = q
      BY <2>1, Quotient
    <2>. QED
      BY <2>2
  <1>2. CASE r >= n
    <2>1. r - n \in 0 .. n - 1 /\ q + 1 \in Int
      BY <1>2
    <2>2. (n * (q + 1) + (r - n)) \div n = q + 1
      BY <2>1, Quotient
    <2>3. n * (q + 1) + (r - n) = n * q + r
      OBVIOUS
    <2>. QED
      BY <2>2, <2>3
  <1>. QED
    BY <1>1, <1>2

LEMMA DivideByExact ==
    ASSUME NEW a \in Moments, a.sec >= 0, NEW n \in Nat \ {0}
    PROVE  /\ DivideBy(a, n) \in Moments
           /\ DivideBy(a, n).sec >= 0
           /\ Micro(a) \div n - Micro(DivideBy(a, n)) \in {0, 1}
  <1>. DEFINE U == USEC_PER_SEC
              s == a.sec
              u == a.usec
              usec == (u \div n) + ((s % n) * U) \div n
              q == [sec |-> (s \div n) + (usec \div U), usec |-> usec % U]
  <1>1. s \in Nat /\ u \in 0 .. U - 1 /\ u \in Nat /\ U \in Nat \ {0}
    BY BaseIsPositive DEF Moments
  <1>2. CASE a = Null
    <2>1. DivideBy(a, n) = Null
      BY <1>2 DEF DivideBy
    <2>2. Micro(Null) = 0
      BY <1>1 DEF Micro, Null
    <2>3. 0 \div n = 0
      <3>1. 0 \in Int /\ 0 \in 0 .. n - 1 /\ n * 0 + 0 = 0
        OBVIOUS
      <3>2. (n * 0 + 0) \div n = 0
        BY <3>1, Quotient, Zenon
      <3>. QED
        BY <3>1, <3>2
    <2>4. Micro(a) \div n = 0
      BY <1>2, <2>2, <2>3
    <2>. QED
      BY <1>2, <2>1, <2>2, <2>4 DEF Null
  <1>3. CASE a # Null
    <2>1. DivideBy(a, n) = q
      BY <1>3 DEF DivideBy
    <2>. DEFINE R == s % n
                Q == s \div n
                V == R * U
    <2>2. s = n * Q + R /\ Q \in Nat /\ R \in Nat
      <3>1. Divides(n, s)
        BY <1>1, Division
      <3>2. s = n * Q + R /\ Q \in Nat /\ R \in 0 .. n - 1
        BY <3>1, Zenon DEF Divides
      <3>. QED
        BY <3>2
    <2>3. V \in Nat
      <3>. HIDE DEF R, U
      <3>. QED
        BY <1>1, <2>2
    <2>. HIDE DEF V, R, Q, U
    <2>4. /\ u = n * (u \div n) + (u % n) /\ u \div n \in Nat /\ u % n \in 0 .. n - 1
          /\ V = n * (V \div n) + (V % n) /\ V \div n \in Nat /\ V % n \in 0 .. n - 1
      <3>1. Divides(n, u) /\ Divides(n, V)
        BY <1>1, <2>3, Division
      <3>. QED
        BY <3>1, Zenon DEF Divides
    <2>. DEFINE w == (u \div n) + (V \div n)
                r == (u % n) + (V % n)
    <2>5. usec = w /\ q = [sec |-> Q + (w \div U), usec |-> w % U]
      BY DEF V, R, Q
    <2>6. w \in Nat /\ r \in 0 .. 2 * n - 2 /\ u + V = n * w + r
      <3>. DEFINE x == u \div n
                  y == V \div n
      <3>1. n * (x + y) = n * x + n * y /\ n * x \in Int /\ n * y \in Int
        <4>. SUFFICES ASSUME x \in Nat, y \in Nat
                      PROVE  n * (x + y) = n * x + n * y /\ n * x \in Int /\ n * y \in Int
          BY <2>4
        <4>. HIDE DEF x, y
        <4>. QED
          OBVIOUS
      <3>. DEFINE z == u % n
                  t == V % n
      <3>2. /\ x \in Nat /\ y \in Nat /\ z \in 0 .. n - 1 /\ t \in 0 .. n - 1
            /\ u = n * x + z /\ V = n * y + t
        BY <2>4
      <3>. HIDE DEF x, y, z, t
      <3>3. x + y \in Nat /\ z + t \in 0 .. 2 * n - 2 /\ u + V = n * (x + y) + (z + t)
        BY <3>1, <3>2
      <3>. QED
        BY <3>3 DEF x, y, z, t
    <2>. HIDE DEF w, r, s, u, usec, q
    <2>7. w = U * (w \div U) + (w % U) /\ w \div U \in Nat /\ w % U \in 0 .. U - 1
      <3>1. Divides(U, w)
        BY <1>1, <2>6, Division
      <3>. QED
        BY <3>1, Zenon DEF Divides
    <2>8. q \in Moments /\ q.sec = Q + (w \div U) /\ q.usec = w % U /\ q.sec >= 0
      BY <2>2, <2>5, <2>7 DEF Moments, U
    <2>9. Micro(q) = Q * U + w
      <3>1. Micro(q) = (Q + (w \div U)) * U + (w % U)
        BY <2>8 DEF Micro, U
      <3>2. (Q + (w \div U)) * U = Q * U + U * (w \div U)
        BY <1>1, <2>2, <2>7
      <3>3. Q * U \in Int /\ U * (w \div U) \in Int
        BY <1>1, <2>2, <2>7
      <3>. QED
        BY <2>7, <3>1, <3>2, <3>3
    <2>10. Micro(a) = n * (Q * U + w) + r
      <3>1. Micro(a) = s * U + u
        BY DEF Micro, s, u, U
      <3>2. s * U = n * (Q * U) + V
        BY <1>1, <2>2 DEF V
      <3>3. n * (Q * U + w) = n * (Q * U) + n * w
        BY <1>1, <2>2, <2>6
      <3>4. n * (Q * U) \in Int /\ n * w \in Int
        BY <1>1, <2>2, <2>6
      <3>. QED
        BY <1>1, <2>3, <2>6, <3>1, <3>2, <3>3, <3>4
    <2>11. Q * U + w \in Int
      BY <1>1, <2>2, <2>6
    <2>12. Micro(a) \div n - (Q * U + w) \in {0, 1}
      BY <2>6, <2>10, <2>11, SumQuotient
    <2>. QED
      BY <2>1, <2>8, <2>9, <2>12
  <1>. QED
    BY <1>2, <1>3

LEMMA ToMilliExact ==
    ASSUME NEW a \in Moments, a.sec >= 0
    PROVE  /\ Micro(a) \div THOUSAND <= MAX_UL =>
                  ToMilli(a) = [ok |-> TRUE, msec |-> Micro(a) \div THOUSAND]
           /\ MAX_UL \div THOUSAND < a.sec /\ a.sec <= MAX_UL => ~ToMilli(a).ok
  <1>. DEFINE T == THOUSAND
              s == a.sec
              u == a.usec
              k == u \div T
              L == MAX_UL \div T
              x == s * T + k
  <1>1. s \in Nat /\ u \in 0 .. T * T - 1 /\ u \in Nat /\ T \in Nat \ {0} /\ MAX_UL \in Nat
    BY MomentAssumption DEF Moments, USEC_PER_SEC
  <1>2. /\ ToMilli(a) = [ok |-> s % (MAX_UL + 1) <= L, msec |-> x % (MAX_UL + 1)]
        /\ Micro(a) = s * (T * T) + u
    BY DEF ToMilli, Micro, USEC_PER_SEC
  <1>3. /\ u = T * k + (u % T) /\ k \in Nat /\ u % T \in 0 .. T - 1
        /\ MAX_UL = T * L + (MAX_UL % T) /\ L \in Nat /\ MAX_UL % T \in 0 .. T - 1
    <2>1. Divides(T, u) /\ Divides(T, MAX_UL)
      BY <1>1, Division
    <2>. QED
      BY <2>1, Zenon DEF Divides
  <1>. HIDE DEF T, s, u, k, L
  <1>4. \A y \in 0 .. MAX_UL : y % (MAX_UL + 1) = y
    <2>. SUFFICES ASSUME NEW y \in 0 .. MAX_UL PROVE y % (MAX_UL + 1) = y
      OBVIOUS
    <2>. DEFINE m == MAX_UL + 1
    <2>1. m \in Nat \ {0} /\ y \in 0 .. m - 1 /\ 0 \in Int /\ m * 0 + y = y
      BY <1>1
    <2>. HIDE DEF m
    <2>2. (m * 0 + y) % m = y
      BY <2>1, Quotient, Zenon
    <2>. QED
      BY <2>1, <2>2 DEF m
  <1>5. s * T \in Nat /\ x \in Nat /\ s * T <= x
    BY <1>1, <1>3
  <1>6. Micro(a) = T * x + (u % T)
    <2>1. T * x = s * (T * T) + T * k
      BY <1>1, <1>3
    <2>2. s * (T * T) \in Int /\ T * k \in Int
      BY <1>1, <1>3
    <2>. QED
      BY <1>2, <1>3, <2>1, <2>2
  <1>. HIDE DEF x
  <1>7. Micro(a) \div T = x
    <2>1. x \in Int
      BY <1>5
    <2>2. (T * x + (u % T)) \div T = x
      BY <1>1, <1>3, <2>1, Quotient, Zenon
    <2>. QED
      BY <1>6, <2>2
  <1>8. ASSUME x <= MAX_UL PROVE ToMilli(a) = [ok |-> TRUE, msec |-> x]
    <2>1. s <= L
      <3>1. SUFFICES ASSUME s >= L + 1 PROVE FALSE
        BY <1>1, <1>3
      <3>2. s * T >= (L + 1) * T
        BY <1>1, <1>3, <3>1
      <3>3. (L + 1) * T = T * L + T /\ T * L \in Nat
        BY <1>1, <1>3
      <3>. QED
        BY <1>1, <1>3, <1>5, <1>8, <3>2, <3>3
    <2>2. s <= MAX_UL
      <3>1. s <= s * T
        BY <1>1
      <3>. QED
        BY <1>1, <1>5, <1>8, <3>1
    <2>3. s % (MAX_UL + 1) = s /\ x % (MAX_UL + 1) = x
      BY <1>1, <1>4, <1>5, <1>8, <2>2
    <2>. QED
      BY <1>2, <2>1, <2>3
  <1>9. ASSUME L < s, s <= MAX_UL PROVE ~ToMilli(a).ok
    <2>1. s % (MAX_UL + 1) = s
      BY <1>1, <1>4, <1>9
    <2>2. ToMilli(a).ok = (s <= L)
      BY <1>2, <2>1
    <2>3. ~(s <= L)
      BY <1>1, <1>3, <1>9
    <2>. QED
      BY <2>2, <2>3, Zenon
  <1>. QED
    BY <1>7, <1>8, <1>9 DEF T, L, s

LEMMA MomentsAreExact ==
    ASSUME NEW a \in Moments, NEW b \in Moments, a.sec >= 0, b.sec >= 0
    PROVE  OperatorsExact(a, b)
  <1>1. a.sec \in Nat /\ b.sec \in Nat
    BY DEF Moments
  <1>2. b.sec > 0 => LET q == DivideBy(a, b.sec)
                     IN q \in Moments /\ Micro(a) \div b.sec - Micro(q) \in {0, 1}
    BY <1>1, DivideByExact
  <1>. QED
    BY <1>2, LessExact, MinusExact, PlusExact, ToMilliExact DEF OperatorsExact

MomentInv == part = "moment" => obj \in Moments /\ obj.sec >= 0

\* The arithmetic of moments of 1970 or later (moment.cpp:75-222)
\* is what OperatorsExact says, for every base and every width of milliseconds,
\* and its results are moments of 1970 or later again.
THEOREM MomentArithmeticIsExact == LibrarySpec => []MomentsExact
  <1>1. LibraryInit => MomentInv
    BY BaseIsPositive DEF LibraryInit, MomentInv, Null, Moments
  <1>2. MomentInv /\ [LibraryNext]_vars => MomentInv'
    <2>. SUFFICES ASSUME MomentInv, [LibraryNext]_vars PROVE MomentInv'
      OBVIOUS
    <2>1. Moments' = Moments
      BY DEF Moments
    <2>2. CASE Calculate
      <3>1. part = "moment" /\ part' = part /\ obj \in Moments /\ obj.sec >= 0
        BY <2>2 DEF Calculate, Is, MomentInv
      <3>2. PICK m \in Moments1 :
                \/ obj' = Plus(obj, m)
                \/ obj' = Minus(obj, m)
                \/ obj' = MinusAssign(obj, m)
                \/ m.sec # 0 /\ obj' = DivideBy(obj, m.sec)
        BY <2>2 DEF Calculate, Becomes
      <3>3. m \in Moments /\ m.sec >= 0 /\ m.sec \in Nat
        BY LibraryAssumption DEF Moments
      <3>4. CASE obj' = Plus(obj, m)
        <4>1. Plus(obj, m) \in Moments /\ Plus(obj, m).sec >= obj.sec + m.sec
          BY <3>1, <3>3, PlusExact
        <4>2. Plus(obj, m).sec \in Int /\ obj.sec \in Int
          BY <3>1, <4>1 DEF Moments
        <4>. QED
          BY <2>1, <3>1, <3>3, <3>4, <4>1, <4>2 DEF MomentInv
      <3>5. CASE obj' = Minus(obj, m) \/ obj' = MinusAssign(obj, m)
        <4>1. /\ Minus(obj, m) \in Moments /\ Minus(obj, m).sec >= 0
              /\ MinusAssign(obj, m) = Minus(obj, m)
          BY <3>1, <3>3, MinusExact
        <4>. QED
          BY <2>1, <3>5, <4>1 DEF MomentInv
      <3>6. CASE m.sec # 0 /\ obj' = DivideBy(obj, m.sec)
        <4>1. DivideBy(obj, m.sec) \in Moments /\ DivideBy(obj, m.sec).sec >= 0
          BY <3>1, <3>3, <3>6, DivideByExact
        <4>. QED
          BY <2>1, <3>6, <4>1 DEF MomentInv
      <3>. QED
        BY <3>2, <3>4, <3>5, <3>6
    <2>3. CASE UNCHANGED vars
      BY <2>1, <2>3 DEF vars, MomentInv
    <2>4. CASE LibraryNext /\ ~Calculate
      BY <2>4 DEF LibraryNext, Is, Pass, PutBits, PutFields, Type, ReadFile, Enter, MoveFiles,
                  MomentInv
    <2>. QED
      BY <2>2, <2>3, <2>4
  <1>3. MomentInv => MomentsExact
    BY MomentsAreExact, LibraryAssumption DEF MomentInv, MomentsExact
  <1>. QED
    BY <1>1, <1>2, <1>3, PTL DEF LibrarySpec

-----------------------------------------------------------------------------
(***************************************************************************)
(* IniFile and DirUtil.                                                    *)
(***************************************************************************)
ReadingInv ==
    /\ part = "ini" => IniInv(obj.ini, obj.lines)
    /\ part = "dir" => obj \in Seq(EntryRecords)

\* What read() gives is what the lines of all the files say, however many there
\* are, and a directory's listings are what they are named for, whatever its
\* entries are (IniFile, DirUtil).
THEOREM ReadingsAreExact == LibrarySpec => []ReadingsExact
  <1>1. LibraryInit => ReadingInv
    <2>. SUFFICES ASSUME LibraryInit PROVE ReadingInv
      OBVIOUS
    <2>1. CASE part = "ini"
      <3>1. PICK a \in BOOLEAN, b \in BOOLEAN : obj = [ini |-> NewIni(a, b), lines |-> <<>>]
        BY <2>1 DEF LibraryInit
      <3>2. IniInv(obj.ini, obj.lines)
        BY <3>1, NewIniInv
      <3>. QED
        BY <2>1, <3>2 DEF ReadingInv
    <2>2. CASE part = "dir"
      <3>1. obj = <<>>
        BY <2>2 DEF LibraryInit
      <3>. QED
        BY <2>2, <3>1 DEF ReadingInv
    <2>. QED
      BY <2>1, <2>2 DEF ReadingInv
  <1>2. ReadingInv /\ [LibraryNext]_vars => ReadingInv'
    <2>. SUFFICES ASSUME ReadingInv, [LibraryNext]_vars PROVE ReadingInv'
      OBVIOUS
    <2>1. CASE ReadFile
      <3>1. part = "ini" /\ part' = part /\ IniInv(obj.ini, obj.lines)
        BY <2>1 DEF ReadFile, Is, ReadingInv
      <3>2. IniInv(obj'.ini, obj'.lines)
        <4>1. CASE \E line \in IniLines : obj' = [ini |-> TakeLine(obj.ini, line),
                                                  lines |-> Append(obj.lines, line)]
          <5>1. PICK line \in IniLines : obj' = [ini |-> TakeLine(obj.ini, line),
                                                 lines |-> Append(obj.lines, line)]
            BY <4>1
          <5>2. line \in Lines
            BY LibraryAssumption
          <5>3. IniInv(TakeLine(obj.ini, line), Append(obj.lines, line))
            BY <3>1, <5>2, TakeLineKeepsIni
          <5>. QED
            BY <5>1, <5>3
        <4>2. CASE obj' = [ini |-> Open(obj.ini), lines |-> Append(obj.lines, OPEN)]
          <5>1. IniInv(Open(obj.ini), Append(obj.lines, OPEN))
            BY <3>1, OpenKeepsIni
          <5>. QED
            BY <4>2, <5>1
        <4>. QED
          BY <2>1, <4>1, <4>2 DEF ReadFile, Becomes
      <3>. QED
        BY <3>1, <3>2 DEF ReadingInv
    <2>2. CASE Enter
      <3>1. part = "dir" /\ part' = part /\ obj \in Seq(EntryRecords)
        BY <2>2 DEF Enter, Is, ReadingInv
      <3>2. PICK e \in Entries : obj' = Append(obj, [ino |-> e.ino, kind |-> e.kind, name |-> Len(obj)])
        BY <2>2 DEF Enter, Becomes
      <3>3. [ino |-> e.ino, kind |-> e.kind, name |-> Len(obj)] \in EntryRecords
        <4>1. e.ino \in Nat /\ e.kind \in DOMAIN ModeBits
          BY LibraryAssumption
        <4>2. Len(obj) \in Nat
          BY <3>1
        <4>. QED
          BY <4>1, <4>2 DEF EntryRecords
      <3>4. obj' \in Seq(EntryRecords)
        BY <3>1, <3>2, <3>3
      <3>. QED
        BY <3>1, <3>4 DEF ReadingInv
    <2>3. CASE UNCHANGED vars
      BY <2>3 DEF vars, ReadingInv
    <2>4. CASE LibraryNext /\ ~ReadFile /\ ~Enter
      BY <2>4 DEF LibraryNext, Is, Calculate, Pass, PutBits, PutFields, Type, MoveFiles, ReadingInv
    <2>. QED
      BY <2>1, <2>2, <2>3, <2>4
  <1>3. ReadingInv => ReadingsExact
    BY IniReadsExact, ListsAreExact DEF ReadingInv, ReadingsExact
  <1>. QED
    BY <1>1, <1>2, <1>3, PTL DEF LibrarySpec
-----------------------------------------------------------------------------
(***************************************************************************)
(* CTime and StrUtil.                                                      *)
(***************************************************************************)
\* The times of Library are times of one year.
LEMMA TimesInYear ==
    ASSUME NEW t \in FirstTime .. LastTime
    PROVE  InYear(t)
  <1>1. StdOffset \in Int /\ DstBegin \in Nat /\ DstEnd \in Nat
    BY CTimeAssumption
  <1>2. /\ FirstTime >= 0 /\ FirstTime + StdOffset >= 0
        /\ LastTime < YEAR /\ LastTime + StdOffset + HOUR < YEAR
    BY LibraryAssumption DEF YEAR
  <1>3. FirstTime \in Int /\ LastTime \in Int /\ HOUR \in Nat /\ YEAR \in Nat
    BY <1>1 DEF FirstTime, LastTime, DAY, HOUR, YEAR
  <1>4. Offset(t) = StdOffset + 0 \/ Offset(t) = StdOffset + HOUR
    BY DEF Offset
  <1>5. t + Offset(t) >= FirstTime + StdOffset /\ t + Offset(t) <= LastTime + StdOffset + HOUR
    BY <1>1, <1>3, <1>4
  <1>6. t \in Nat /\ t < YEAR /\ Offset(t) \in Int
    BY <1>1, <1>2, <1>3, <1>4
  <1>7. t + Offset(t) \in Nat /\ t + Offset(t) < YEAR
    BY <1>1, <1>2, <1>3, <1>5, <1>6
  <1>. QED
    BY <1>6, <1>7 DEF InYear

\* The characters of texts, those that delimit them and those that replace others.
TextChars == Characters \cup DigitChars \cup {":", "*", "x", Space}

\* What is asked of a text is true of every text.
LEMMA TextsAreExact ==
    ASSUME NEW s \in Seq(Characters)
    PROVE  SplitExact(s) /\ NumbersExact(s) /\ AddressExact(s, [ip |-> <<"x">>, port |-> 1])
  <1>. DEFINE C == TextChars
              old == [ip |-> <<"x">>, port |-> 1]
  <1>1. /\ ":" \in C /\ "*" \in C /\ "x" \in C /\ "2" \in C /\ "5" \in C /\ Space \in C
        /\ Characters \subseteq C
    BY DEF TextChars, DigitChars
  <1>. HIDE DEF C, old
  <1>2. s \in Seq(C)
    <2>1. \A i \in 1 .. Len(s) : s[i] \in C
      BY <1>1
    <2>. QED
      BY <2>1, SeqInRange
  <1>3. NumbersExact(s) /\ AddressExact(s, old)
    BY <1>1, <1>2, NumbersAreExact, AddressesAreExact
  <1>4. CutExact(s, <<":">>) /\ CutExact(s, <<":", ":">>)
    <2>1. <<":">> \in Seq(C) /\ Len(<<":">>) = 1
      BY <1>1
    <2>2. <<":", ":">> \in Seq(C) /\ Len(<<":", ":">>) = 2
      BY <1>1
    <2>3. CutExact(s, <<":">>)
      BY <1>2, <2>1, CutsAreExact, Zenon
    <2>4. CutExact(s, <<":", ":">>)
      BY <1>2, <2>2, CutsAreExact, Zenon
    <2>. QED
      BY <2>3, <2>4
  <1>5. ASSUME NEW w \in {<<>>, <<"x", ":">>} PROVE ReplaceAll(s, <<":">>, w) = With(s, ":", w)
    <2>1. <<>> \in Seq(C) /\ <<"x", ":">> \in Seq(C)
      BY <1>1
    <2>2. w \in Seq(C)
      BY <1>5, <2>1
    <2>. QED
      BY <1>1, <1>2, <2>2, ReplacesAreExact
  <1>6. TrimExact(s)
    BY <1>1, <1>2, TrimsAreExact
  <1>7. SplitExact(s)
    BY <1>4, <1>5, <1>6 DEF SplitExact
  <1>. QED
    BY <1>3, <1>7 DEF old

ConversionInv ==
    /\ part = "time" => obj \in FirstTime .. LastTime
    /\ part = "text" => obj \in Seq(Characters)

\* Every time of the year is packed, parsed and cut as TimeExact says, whatever
\* the zone (ctime.cpp, moment.cpp:32-59), and every text is split, trimmed,
\* replaced and converted as it should (str_util.cpp, ipv4.h), for texts of any
\* length and integers of any width.
THEOREM ConversionsAreExact == LibrarySpec => []ConversionsExact
  <1>1. LibraryInit => ConversionInv
    <2>. SUFFICES ASSUME LibraryInit PROVE ConversionInv
      OBVIOUS
    <2>1. part = "time" => obj \in Times
      BY DEF LibraryInit
    <2>2. part = "text" => obj = <<>>
      BY DEF LibraryInit
    <2>3. <<>> \in Seq(Characters)
      OBVIOUS
    <2>. QED
      BY <2>1, <2>2, <2>3, LibraryAssumption DEF ConversionInv
  <1>2. ConversionInv /\ [LibraryNext]_vars => ConversionInv'
    <2>. SUFFICES ASSUME ConversionInv, [LibraryNext]_vars PROVE ConversionInv'
      OBVIOUS
    <2>1. CASE Pass
      <3>1. part = "time" /\ part' = part /\ obj' \in FirstTime .. LastTime
        BY <2>1 DEF Pass, Is
      <3>. QED
        BY <3>1 DEF ConversionInv, FirstTime, LastTime
    <2>2. CASE Type
      <3>1. part = "text" /\ part' = part /\ obj \in Seq(Characters)
        BY <2>2 DEF Type, Is, ConversionInv
      <3>2. PICK c \in Characters : obj' = Append(obj, c)
        BY <2>2 DEF Type, Becomes
      <3>3. obj' \in Seq(Characters)
        BY <3>1, <3>2
      <3>. QED
        BY <3>1, <3>3 DEF ConversionInv
    <2>3. CASE UNCHANGED vars
      BY <2>3 DEF vars, ConversionInv, FirstTime, LastTime
    <2>4. CASE LibraryNext /\ ~Pass /\ ~Type
      BY <2>4 DEF LibraryNext, Is, Calculate, PutBits, PutFields, ReadFile, Enter, MoveFiles,
                  ConversionInv, FirstTime, LastTime
    <2>. QED
      BY <2>1, <2>2, <2>3, <2>4
  <1>3. ConversionInv => ConversionsExact
    <2>. SUFFICES ASSUME ConversionInv PROVE ConversionsExact
      OBVIOUS
    <2>1. ASSUME part = "time", NEW now \in Times PROVE TimeExact(obj, now)
      <3>1. now \in Int
        BY LibraryAssumption, CTimeAssumption DEF FirstTime, LastTime, DAY, HOUR
      <3>2. InYear(obj)
        BY <2>1, TimesInYear DEF ConversionInv
      <3>. QED
        BY <3>1, <3>2, TimesAreExact
    <2>2. ASSUME part = "text"
          PROVE  /\ SplitExact(obj) /\ NumbersExact(obj)
                 /\ AddressExact(obj, [ip |-> <<"x">>, port |-> 1])
      BY <2>2, TextsAreExact DEF ConversionInv
    <2>. QED
      BY <2>1, <2>2 DEF ConversionsExact
  <1>. QED
    BY <1>1, <1>2, <1>3, PTL DEF LibrarySpec

-----------------------------------------------------------------------------
(***************************************************************************)
(* BitVector and FixedLength.                                              *)
(***************************************************************************)
StoredInv ==
    /\ part = "bits" => BitsInv(obj.v, obj.told)
    /\ part = "record" => FieldsInv(TextChars, obj.buf, obj.told)

\* The first record is all zeros.
LEMMA ZeroFields ==
    FieldsInv(TextChars, Repeat("0", FixedLength), AllZero)
  <1>. DEFINE zero == Repeat("0", FixedLength)
  <1>1. "0" \in TextChars
    BY DEF TextChars, DigitChars
  <1>2. FixedLength \in Nat /\ \A f \in FieldsOf : LengthOf(f) \in Nat /\ PositionOf(f) \in Nat
                                                   /\ End(f) <= FixedLength
    BY FieldsApart
  <1>3. zero \in Seq(TextChars) /\ Len(zero) = FixedLength
        /\ \A k \in 1 .. FixedLength : zero[k] = "0"
    BY <1>1, <1>2, RepeatIs
  <1>4. ASSUME NEW f \in FieldsOf
        PROVE  /\ AllZero[f] \in Seq(TextChars) /\ Len(AllZero[f]) = LengthOf(f)
               /\ FieldHolds(zero, f, AllZero[f])
    <2>1. AllZero[f] = Repeat("0", LengthOf(f))
      BY DEF AllZero
    <2>2. LengthOf(f) \in Nat /\ PositionOf(f) \in Nat /\ PositionOf(f) + LengthOf(f) <= FixedLength
      BY <1>2 DEF End
    <2>3. /\ AllZero[f] \in Seq(TextChars) /\ Len(AllZero[f]) = LengthOf(f)
          /\ \A k \in 1 .. LengthOf(f) : AllZero[f][k] = "0"
      <3>1. \A l \in Nat : /\ Repeat("0", l) \in Seq(TextChars) /\ Len(Repeat("0", l)) = l
                           /\ \A k \in 1 .. l : Repeat("0", l)[k] = "0"
        BY <1>1, RepeatIs
      <3>. QED
        BY <2>1, <2>2, <3>1, Zenon
    <2>4. ASSUME NEW k \in 1 .. LengthOf(f) PROVE zero[PositionOf(f) + k] = "0"
      <3>1. PositionOf(f) + k \in 1 .. FixedLength
        BY <1>2, <2>2
      <3>. QED
        BY <1>3, <3>1
    <2>. QED
      BY <2>3, <2>4 DEF FieldHolds
  <1>5. AllZero \in [FieldsOf -> Seq(TextChars)]
    BY <1>4 DEF AllZero
  <1>. QED
    BY <1>3, <1>4, <1>5 DEF FieldsInv

\* What PutBits does to a vector.
LEMMA BitsPut ==
    ASSUME part = "bits", BitsInv(obj.v, obj.told), PutBits
    PROVE  BitsInv(obj'.v, obj'.told)
  <1>. DEFINE v == obj.v
              told == obj.told
              copy == DeSerialize(Serialize(v), FALSE).v
  <1>1. /\ v.size \in Nat /\ DOMAIN told = 0 .. v.size - 1
        /\ \E w \in SUBSET WordBits : v.size = NumberOf(w)
    BY DEF BitsInv, Vectors
  <1>2. \/ \E i \in 0 .. v.size - 1 :
              \/ obj' = [v |-> SetBit(v, i), told |-> [told EXCEPT ![i] = TRUE]]
              \/ obj' = [v |-> ResetBit(v, i), told |-> [told EXCEPT ![i] = FALSE]]
        \/ obj' = [v |-> SetAllTrue(v), told |-> [i \in 0 .. v.size - 1 |-> TRUE]]
        \/ obj' = [v |-> SetAllFalse(v), told |-> [i \in 0 .. v.size - 1 |-> FALSE]]
        \/ obj' = [v |-> copy, told |-> [i \in 0 .. v.size - 1 |-> At(copy, i)]]
    BY <1>1 DEF PutBits, Tell, Becomes
  <1>3. BitsInv(v, told)
    OBVIOUS
  <1>. HIDE DEF v, told, copy
  <1>4. ASSUME NEW i \in 0 .. v.size - 1
        PROVE  /\ BitsInv(SetBit(v, i), [told EXCEPT ![i] = TRUE])
               /\ BitsInv(ResetBit(v, i), [told EXCEPT ![i] = FALSE])
    BY <1>3, PutBitKept
  <1>5. /\ BitsInv(SetAllTrue(v), [i \in 0 .. v.size - 1 |-> TRUE])
        /\ BitsInv(SetAllFalse(v), [i \in 0 .. v.size - 1 |-> FALSE])
    <2>1. BitsInv(Filled(v.size, WordBits), [i \in 0 .. v.size - 1 |-> TRUE])
      BY <1>1, FilledKept
    <2>2. BitsInv(Filled(v.size, {}), [i \in 0 .. v.size - 1 |-> FALSE])
      BY <1>1, FilledKept
    <2>. QED
      BY <2>1, <2>2 DEF SetAllTrue, SetAllFalse
  <1>6. BitsInv(copy, [i \in 0 .. v.size - 1 |-> At(copy, i)])
    BY <1>3, CopyKept DEF copy
  <1>7. \A w, t : obj' = [v |-> w, told |-> t] /\ BitsInv(w, t) => BitsInv(obj'.v, obj'.told)
    OBVIOUS
  <1>. QED
    BY <1>2, <1>4, <1>5, <1>6, <1>7, Zenon

\* What PutFields does to a record.
LEMMA FieldsPut ==
    ASSUME part = "record", FieldsInv(TextChars, obj.buf, obj.told), PutFields
    PROVE  FieldsInv(TextChars, obj'.buf, obj'.told)
  <1>. DEFINE C == TextChars
              b == obj.buf
              told == obj.told
  <1>1. b \in Seq(C) /\ Len(b) = FixedLength /\ FieldsInv(C, b, told)
    BY DEF FieldsInv
  <1>2. PICK f \in FieldsOf, n \in Numbers, fill \in {"0", Space} :
           LET room == LengthOf(f) - Len(n) IN
           \/ /\ Accepted(f) /\ room >= 0
              /\ PutField(SetFieldNumber(b, f, n, fill), f, Repeat(fill, room) \o n)
           \/ PutField(SetFieldText(b, f, n, fill), f, SubSeq(n \o Repeat(fill, room), 1, LengthOf(f)))
           \/ f = 0 /\ Accepted(f) /\ room = 0 /\ PutField(SetFieldRaw(b, f, n), f, n)
    BY DEF PutFields
  <1>3. n \in Seq(C)
    <2>1. n \in Seq(Characters \cup DigitChars)
      BY LibraryAssumption
    <2>2. \A i \in 1 .. Len(n) : n[i] \in C
      BY <2>1 DEF TextChars
    <2>. QED
      BY <2>1, <2>2, SeqInRange
  <1>4. fill \in C
    BY <1>2 DEF TextChars, DigitChars
  <1>. DEFINE room == LengthOf(f) - Len(n)
  <1>5. room \in Int /\ LengthOf(f) \in Nat /\ Len(n) \in Nat
    <2>1. LengthOf(f) \in Nat
      BY FieldsApart
    <2>2. Len(n) \in Nat
      BY <1>3
    <2>. QED
      BY <2>1, <2>2
  <1>6. \A new, text : obj' = [buf |-> new, told |-> [told EXCEPT ![f] = text]]
                           /\ Written(new, C, b, f, text) => FieldsInv(C, obj'.buf, obj'.told)
    BY <1>1, WrittenKeeps
  <1>7. \/ /\ Accepted(f) /\ room >= 0
           /\ obj' = [buf |-> SetFieldNumber(b, f, n, fill),
                      told |-> [told EXCEPT ![f] = Repeat(fill, room) \o n]]
        \/ obj' = [buf |-> SetFieldText(b, f, n, fill),
                   told |-> [told EXCEPT ![f] = SubSeq(n \o Repeat(fill, room), 1, LengthOf(f))]]
        \/ /\ f = 0 /\ Accepted(f) /\ room = 0
           /\ obj' = [buf |-> SetFieldRaw(b, f, n), told |-> [told EXCEPT ![f] = n]]
    BY <1>2 DEF PutField, Becomes
  <1>8. room = LengthOf(f) - Len(n)
    OBVIOUS
  <1>. HIDE DEF C, b, told, room
  <1>9. CASE /\ Accepted(f) /\ room >= 0
             /\ obj' = [buf |-> SetFieldNumber(b, f, n, fill),
                        told |-> [told EXCEPT ![f] = Repeat(fill, room) \o n]]
    <2>1. room \in Nat
      BY <1>5, <1>9
    <2>2. Written(SetFieldNumber(b, f, n, fill), C, b, f, Repeat(fill, room) \o n)
      BY <1>1, <1>3, <1>4, <1>8, <1>9, <2>1, NumberWritten, Zenon
    <2>. QED
      BY <1>6, <1>9, <2>2, Zenon DEF C
  <1>10. CASE obj' = [buf |-> SetFieldText(b, f, n, fill),
                      told |-> [told EXCEPT ![f] = SubSeq(n \o Repeat(fill, room), 1, LengthOf(f))]]
    <2>1. Written(SetFieldText(b, f, n, fill), C, b, f,
                  SubSeq(n \o Repeat(fill, room), 1, LengthOf(f)))
      BY <1>1, <1>3, <1>4, <1>5, <1>8, TextWritten, Zenon
    <2>. QED
      BY <1>6, <1>10, <2>1, Zenon DEF C
  <1>11. CASE /\ f = 0 /\ Accepted(f) /\ room = 0
              /\ obj' = [buf |-> SetFieldRaw(b, f, n), told |-> [told EXCEPT ![f] = n]]
    <2>1. Len(n) = LengthOf(f) /\ LengthOf(f) = LengthOf(0)
      BY <1>5, <1>8, <1>11
    <2>2. Written(SetFieldRaw(b, f, n), C, b, 0, n)
      BY <1>1, <1>3, <1>11, <2>1, RawWritten, Zenon
    <2>3. Written(SetFieldRaw(b, f, n), C, b, f, n)
      BY <1>11, <2>2
    <2>. QED
      BY <1>6, <1>11, <2>3, Zenon DEF C
  <1>. QED
    BY <1>7, <1>9, <1>10, <1>11 DEF C

\* Bits and fields hold what was last put there, for vectors of any size that a
\* word can hold and records of any layout (bit_vector.cpp, fixed_length_class.h),
\* with the exceptions that BitsKept and FieldsKept tell.
THEOREM StoredAreKept == LibrarySpec => []StoredKept
  <1>1. LibraryInit => StoredInv
    <2>. SUFFICES ASSUME LibraryInit PROVE StoredInv
      OBVIOUS
    <2>1. ASSUME part = "bits" PROVE BitsInv(obj.v, obj.told)
      <3>1. PICK n \in Sizes : obj = [v |-> NewBits(n), told |-> [i \in 0 .. n - 1 |-> FALSE]]
        BY <2>1 DEF LibraryInit
      <3>2. PICK w \in SUBSET WordBits : n = NumberOf(w)
        BY LibraryAssumption
      <3>3. n \in Nat
        BY <3>2, WordOfNumber
      <3>4. BitsInv(Filled(n, {}), [i \in 0 .. n - 1 |-> FALSE])
        BY <3>2, <3>3, FilledKept
      <3>. QED
        BY <3>1, <3>4 DEF NewBits
    <2>2. ASSUME part = "record" PROVE FieldsInv(TextChars, obj.buf, obj.told)
      <3>1. obj = [buf |-> Repeat("0", FixedLength), told |-> AllZero]
        BY <2>2 DEF LibraryInit
      <3>. QED
        BY <3>1, ZeroFields
    <2>. QED
      BY <2>1, <2>2 DEF StoredInv
  <1>2. StoredInv /\ [LibraryNext]_vars => StoredInv'
    <2>. SUFFICES ASSUME StoredInv, [LibraryNext]_vars PROVE StoredInv'
      OBVIOUS
    <2>1. CASE PutBits
      <3>1. part = "bits" /\ part' = part
        BY <2>1 DEF PutBits, Is
      <3>2. BitsInv(obj'.v, obj'.told)
        BY <2>1, <3>1, BitsPut DEF StoredInv
      <3>. QED
        BY <3>1, <3>2 DEF StoredInv, BitsInv, Vectors
    <2>2. CASE PutFields
      <3>1. part = "record" /\ part' = part
        BY <2>2 DEF PutFields, Is
      <3>2. FieldsInv(TextChars, obj'.buf, obj'.told)
        BY <2>2, <3>1, FieldsPut DEF StoredInv
      <3>. QED
        BY <3>1, <3>2 DEF StoredInv, FieldsInv
    <2>3. CASE UNCHANGED vars
      BY <2>3 DEF vars, StoredInv
    <2>4. CASE LibraryNext /\ ~PutBits /\ ~PutFields
      BY <2>4 DEF LibraryNext, Is, Calculate, Pass, Type, ReadFile, Enter, MoveFiles, StoredInv
    <2>. QED
      BY <2>1, <2>2, <2>3, <2>4
  <1>3. StoredInv => StoredKept
    <2>. SUFFICES ASSUME StoredInv PROVE StoredKept
      OBVIOUS
    <2>1. {"0", "1", "2", "x", Space} \subseteq TextChars
      BY DEF TextChars, DigitChars
    <2>2. part = "bits" => BitsKept(obj.v, obj.told)
      BY BitsAreKept DEF StoredInv
    <2>3. part = "record" => FieldsKept(obj.buf, obj.told)
      BY <2>1, FieldsAreKept DEF StoredInv
    <2>. QED
      BY <2>2, <2>3 DEF StoredKept
  <1>. QED
    BY <1>1, <1>2, <1>3, PTL DEF LibrarySpec
=============================================================================
