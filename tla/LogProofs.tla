------------------------------ MODULE LogProofs ------------------------------
(***************************************************************************)
(* Proofs about Log, for any threads, limits and names, any number of      *)
(* processes, days and records, and opens that fail whenever they like.    *)
(***************************************************************************)
EXTENDS Log, SequenceTheorems, FiniteSetTheorems, TLAPS

Paths == Texts \cup {<<>>}
Names == Paths \X Paths \X Pids \X Nat \X Nat
Files == Names \X {"tmp", "log"}
Records == [id : Nat, day : Nat]

Logs ==
    [level : Nat, levelFile : Nat, levelTerm : Nat, fileSize : FileSizes,
     prefix : Paths, subdir : Paths, fulldir : Paths,
     open : BOOLEAN, name : Names \cup {<<>>}, size : Nat, count : Nat, date : Nat]

LogTypeOK ==
    /\ log \in Logs
    /\ at \in [Threads -> [point : {"idle", "setFile", "write", "term", "setTerm", "print"},
                           level : Nat]]
    /\ disk \in [DOMAIN disk -> Seq(Records)] /\ DOMAIN disk \subseteq Files
    /\ flushed \in Nat /\ today \in Nat /\ pid \in Pids
    /\ sets \in Nat /\ serial \in Nat /\ processes \in Nat
    /\ kept \subseteq 1 .. serial /\ reused \in BOOLEAN

\* The open file is there under its name with .tmp, in the name of this process
\* and of _date; _log_size is at least its length.
OpenInv ==
    log.open =>
        /\ log.name \in Names /\ Tmp(log.name) \in DOMAIN disk
        /\ log.name[3] = pid /\ log.name[4] = log.date
        /\ Len(disk[Tmp(log.name)]) <= log.size

\* The records of the files d are of the day of their file or of that before.
Dated(d) == \A f \in DOMAIN d : \A i \in DOMAIN d[f] : f[1][4] - d[f][i].day \in {0, 1}

\* The numbers of the records are those given out.
Numbered(d, last) == \A f \in DOMAIN d : \A i \in DOMAIN d[f] : d[f][i].id <= last

\* No two places in the files d hold the same record, and those of ids are there.
Once(d, ids) ==
    /\ \A f, g \in DOMAIN d : \A i \in DOMAIN d[f], j \in DOMAIN d[g] :
           d[f][i].id = d[g][j].id => f = g /\ i = j
    /\ \A id \in ids : \E f \in DOMAIN d : \E i \in DOMAIN d[f] : d[f][i].id = id

\* Of this process there is no file with a name that logOpen() has yet to give:
\* the day of every name is past, or its count is.
NamesLeft(d, l) ==
    \A f \in DOMAIN d : f[1][3] = pid =>
        f[1][4] < l.date \/ (f[1][4] = l.date /\ f[1][5] < l.count)

\* The open file can be given its name.
FinalLeft(d, l) == l.open => Final(l.name) \notin DOMAIN d

FilesInv == ~reused => NamesLeft(disk, log) /\ FinalLeft(disk, log) /\ Once(disk, kept)

Inv ==
    /\ LogTypeOK
    /\ OpenInv
    /\ log.date <= today
    /\ Dated(disk) /\ Numbered(disk, serial)
    /\ FilesInv

USE LogAssumption

-----------------------------------------------------------------------------
\* What the operators on the files and on the members do.

LEMMA ReopenedLog ==
    ASSUME LogTypeOK, NEW day \in Nat, NEW opens \in BOOLEAN
    PROVE  LET l == Reopened(day, opens)
           IN /\ l \in Logs /\ l.name \in Names
              /\ l.open = opens /\ l.date = day
              /\ l.name[3] = pid /\ l.name[4] = day /\ l.count = l.name[5] + 1
              /\ l.level = log.level /\ l.fileSize = log.fileSize /\ l.size = log.size
              /\ log.date = day => l.name[5] = log.count
  <1>. DEFINE l1 == IF log.date = day THEN log ELSE [log EXCEPT !.count = 0, !.date = day]
              n == FileName(l1)
              l == Reopened(day, opens)
  <1>1. l1 \in Logs /\ l1.date = day /\ l1.level = log.level /\ l1.fileSize = log.fileSize
        /\ l1.size = log.size /\ (log.date = day => l1.count = log.count)
    BY DEF LogTypeOK, Logs
  <1>2. /\ n \in Names /\ n[3] = pid /\ n[4] = day /\ n[5] = l1.count
    BY <1>1 DEF LogTypeOK, Logs, FileName, Names
  <1>3. l = [l1 EXCEPT !.name = n, !.open = opens, !.count = l1.count + 1]
    BY DEF Reopened
  <1>. HIDE DEF l1, n, l
  <1>4. /\ l \in Logs /\ l.name = n /\ l.open = opens /\ l.date = day
        /\ l.count = l1.count + 1 /\ l.level = log.level
        /\ l.fileSize = log.fileSize /\ l.size = log.size
    <2>1. n \in Names \cup {<<>>} /\ l1.count + 1 \in Nat
      BY <1>1, <1>2 DEF Logs
    <2>2. l \in Logs
      BY <1>1, <1>3, <2>1 DEF Logs
    <2>3. l.name = n /\ l.open = opens /\ l.date = l1.date /\ l.count = l1.count + 1
      BY <1>1, <1>3 DEF Logs
    <2>4. l.level = l1.level /\ l.fileSize = l1.fileSize /\ l.size = l1.size
      BY <1>1, <1>3 DEF Logs
    <2>. QED
      BY <1>1, <2>2, <2>3, <2>4
  <1>. QED
    BY <1>1, <1>2, <1>4 DEF l

\* What logClose() leaves: the same files, but for the name of the open one.
LEMMA ClosedFiles ==
    ASSUME LogTypeOK, OpenInv
    PROVE  /\ DiskClosed \in [DOMAIN DiskClosed -> Seq(Records)]
           /\ DOMAIN DiskClosed \subseteq Files
           /\ \A f \in DOMAIN DiskClosed :
                  \E g \in DOMAIN disk : g[1] = f[1] /\ DiskClosed[f] = disk[g]
  <1>1. CASE ~log.open
    BY <1>1 DEF DiskClosed, LogTypeOK
  <1>2. CASE log.open
    <2>. DEFINE tmp == Tmp(log.name)
                final == Final(log.name)
                dom == (DOMAIN disk \ {tmp}) \cup {final}
    <2>1. DiskClosed = [f \in dom |-> IF f = final THEN disk[tmp] ELSE disk[f]]
      BY <1>2 DEF DiskClosed, Put, Restrict
    <2>2. tmp \in DOMAIN disk /\ tmp[1] = final[1] /\ final \in Files
      BY <1>2 DEF OpenInv, Tmp, Final, Files
    <2>3. \A f \in DOMAIN disk : disk[f] \in Seq(Records) /\ f \in Files
      BY DEF LogTypeOK
    <2>. HIDE DEF tmp, final
    <2>. QED
      BY <2>1, <2>2, <2>3
  <1>. QED
    BY <1>1, <1>2

LEMMA ClosedOnce ==
    ASSUME LogTypeOK, OpenInv, FinalLeft(disk, log), NEW ids, Once(disk, ids)
    PROVE  Once(DiskClosed, ids)
  <1>1. CASE ~log.open
    BY <1>1 DEF DiskClosed
  <1>2. CASE log.open
    <2>. DEFINE tmp == Tmp(log.name)
                final == Final(log.name)
                dom == (DOMAIN disk \ {tmp}) \cup {final}
                from(f) == IF f = final THEN tmp ELSE f
    <2>1. DiskClosed = [f \in dom |-> disk[from(f)]]
      BY <1>2 DEF DiskClosed, Put, Restrict, FinalLeft
    <2>2. tmp \in DOMAIN disk /\ final \notin DOMAIN disk
      BY <1>2 DEF OpenInv, FinalLeft
    <2>. HIDE DEF tmp, final
    <2>3. \A f \in dom : from(f) \in DOMAIN disk
      BY <2>2
    <2>4. \A f, g \in dom : from(f) = from(g) => f = g
      BY <2>2
    <2>5. \A g \in DOMAIN disk : \E f \in dom : from(f) = g
      BY <2>2
    <2>. HIDE DEF dom, from
    <2>6. DOMAIN DiskClosed = dom /\ \A f \in dom : DiskClosed[f] = disk[from(f)]
      BY <2>1
    <2>7. ASSUME NEW f \in dom, NEW g \in dom,
                 NEW i \in DOMAIN DiskClosed[f], NEW j \in DOMAIN DiskClosed[g],
                 DiskClosed[f][i].id = DiskClosed[g][j].id
          PROVE  f = g /\ i = j
      BY <2>3, <2>4, <2>6, <2>7 DEF Once
    <2>8. ASSUME NEW id \in ids
          PROVE  \E f \in dom : \E i \in DOMAIN DiskClosed[f] : DiskClosed[f][i].id = id
      <3>1. PICK g \in DOMAIN disk : \E i \in DOMAIN disk[g] : disk[g][i].id = id
        BY DEF Once
      <3>. QED
        BY <2>5, <2>6, <3>1
    <2>. QED
      BY <2>6, <2>7, <2>8 DEF Once
  <1>. QED
    BY <1>1, <1>2

\* What logOpen() leaves, whether it can open a file or not.
LEMMA ReopenedFiles ==
    ASSUME Inv, NEW day \in Nat, today <= day, NEW opens \in BOOLEAN
    PROVE  LET l == Reopened(day, opens)
               d == DiskReopened(l)
           IN /\ d \in [DOMAIN d -> Seq(Records)] /\ DOMAIN d \subseteq Files
              /\ opens => Tmp(l.name) \in DOMAIN d /\ d[Tmp(l.name)] = <<>>
              /\ Dated(d) /\ Numbered(d, serial)
              /\ ~reused => NamesLeft(d, l) /\ FinalLeft(d, l) /\ Once(d, kept)
  <1>. DEFINE l == Reopened(day, opens)
              d == DiskReopened(l)
              tmp == Tmp(l.name)
  <1>1. /\ l.name \in Names /\ l.open = opens /\ l.date = day
        /\ l.name[3] = pid /\ l.name[4] = day /\ l.count = l.name[5] + 1
        /\ log.date = day => l.name[5] = log.count
    BY ReopenedLog DEF Inv
  <1>2. log.date \in Nat /\ log.date <= day /\ log.count \in Nat /\ l.name[5] \in Nat
    <2>1. log.date \in Nat /\ log.count \in Nat /\ log.date <= today /\ today \in Nat
      BY DEF Inv, LogTypeOK, Logs
    <2>2. l.name[5] \in Nat
      BY <1>1 DEF Names
    <2>. QED
      BY <2>1, <2>2
  <1>3. /\ DiskClosed \in [DOMAIN DiskClosed -> Seq(Records)]
        /\ DOMAIN DiskClosed \subseteq Files
        /\ \A f \in DOMAIN DiskClosed :
               \E g \in DOMAIN disk : g[1] = f[1] /\ DiskClosed[f] = disk[g]
    BY ClosedFiles DEF Inv
  <1>4. /\ DOMAIN d = DOMAIN DiskClosed \cup (IF opens THEN {tmp} ELSE {})
        /\ \A f \in DOMAIN d : d[f] = IF opens /\ f = tmp THEN <<>> ELSE DiskClosed[f]
        /\ d = [f \in DOMAIN d |-> d[f]]
    BY <1>1, <1>3 DEF DiskReopened, Put
  <1>5. tmp \in Files /\ tmp[1] = l.name /\ Final(l.name)[1] = l.name /\ Final(l.name) # tmp
    BY <1>1 DEF Tmp, Final, Files
  <1>. HIDE DEF l, d, tmp
  <1>6. d \in [DOMAIN d -> Seq(Records)] /\ DOMAIN d \subseteq Files
    <2>1. <<>> \in Seq(Records)
      BY EmptySeq
    <2>2. \A f \in DOMAIN d : d[f] \in Seq(Records) /\ f \in Files
      BY <1>3, <1>4, <1>5, <2>1
    <2>. QED
      BY <1>4, <2>2
  <1>7. Dated(DiskClosed) /\ Numbered(DiskClosed, serial)
    BY <1>3 DEF Inv, Dated, Numbered
  <1>8. Dated(d) /\ Numbered(d, serial)
    BY <1>4, <1>7 DEF Dated, Numbered
  <1>9. ASSUME ~reused PROVE NamesLeft(d, l) /\ FinalLeft(d, l) /\ Once(d, kept)
    <2>1. \A f \in DOMAIN DiskClosed : f[1][3] = pid =>
             f[1][4] < log.date \/ (f[1][4] = log.date /\ f[1][5] < log.count)
      BY <1>3, <1>9 DEF Inv, FilesInv, NamesLeft
    <2>2. \A f \in DOMAIN DiskClosed : f[1][4] \in Nat /\ f[1][5] \in Nat
      BY <1>3 DEF Files, Names
    <2>3. \A f \in DOMAIN DiskClosed : f[1][3] = pid =>
             f[1][4] < day \/ (f[1][4] = day /\ f[1][5] < l.name[5])
      BY <1>1, <1>2, <2>1, <2>2
    <2>4. tmp \notin DOMAIN DiskClosed /\ Final(l.name) \notin DOMAIN DiskClosed
      BY <1>1, <1>2, <1>5, <2>3
    <2>5. ASSUME NEW f \in DOMAIN d, f[1][3] = pid
          PROVE  f[1][4] < l.date \/ (f[1][4] = l.date /\ f[1][5] < l.count)
      <3>1. CASE f = tmp
        BY <1>1, <1>2, <1>5, <3>1
      <3>2. CASE f \in DOMAIN DiskClosed
        <4>1. \/ f[1][4] < day
              \/ f[1][4] = day /\ f[1][5] < l.name[5]
          BY <2>3, <2>5, <3>2
        <4>2. f[1][4] \in Nat /\ f[1][5] \in Nat
          BY <2>2, <3>2
        <4>. QED
          BY <1>1, <1>2, <4>1, <4>2
      <3>. QED
        BY <1>4, <2>5, <3>1, <3>2
    <2>6. FinalLeft(d, l)
      BY <1>4, <1>5, <2>4 DEF FinalLeft
    <2>7. Once(DiskClosed, kept)
      BY <1>9, ClosedOnce DEF Inv, FilesInv
    <2>8. Once(d, kept)
      BY <1>4, <2>4, <2>7 DEF Once
    <2>. QED
      BY <2>5, <2>6, <2>8 DEF NamesLeft
  <1>. QED
    BY <1>4, <1>5, <1>6, <1>8, <1>9 DEF l, d, tmp

\* A record goes to the end of a file.
LEMMA WrittenFiles ==
    ASSUME serial \in Nat, today \in Nat,
           NEW d, d \in [DOMAIN d -> Seq(Records)], NEW tmp \in DOMAIN d, NEW ids
    PROVE  LET e == [d EXCEPT ![tmp] = Append(@, Record)]
           IN /\ e \in [DOMAIN d -> Seq(Records)] /\ Len(e[tmp]) = Len(d[tmp]) + 1
              /\ Dated(d) /\ tmp[1][4] - today \in {0, 1} => Dated(e)
              /\ Numbered(d, serial) => Numbered(e, serial + 1)
              /\ Numbered(d, serial) /\ Once(d, ids) => Once(e, ids \cup {serial + 1})
  <1>. DEFINE e == [d EXCEPT ![tmp] = Append(d[tmp], Record)]
              n == Len(d[tmp])
  <1>1. Record \in Records /\ Record.id = serial + 1 /\ Record.day = today
    BY DEF Record, Records
  <1>2. \A f \in DOMAIN d : /\ d[f] \in Seq(Records) /\ DOMAIN d[f] = 1 .. Len(d[f])
                             /\ \A i \in DOMAIN d[f] : d[f][i].id \in Nat
    <2>. SUFFICES ASSUME NEW f \in DOMAIN d
                  PROVE  /\ d[f] \in Seq(Records) /\ DOMAIN d[f] = 1 .. Len(d[f])
                         /\ \A i \in DOMAIN d[f] : d[f][i].id \in Nat
      OBVIOUS
    <2>1. d[f] \in Seq(Records)
      OBVIOUS
    <2>2. DOMAIN d[f] = 1 .. Len(d[f])
      BY <2>1, LenProperties
    <2>3. \A i \in DOMAIN d[f] : d[f][i] \in Records
      BY <2>1, <2>2, ElementOfSeq
    <2>. QED
      BY <2>1, <2>2, <2>3 DEF Records
  <1>3. n \in Nat /\ d[tmp] \in Seq(Records) /\ DOMAIN d[tmp] = 1 .. n
    BY <1>2
  <1>4. /\ DOMAIN e = DOMAIN d
        /\ \A f \in DOMAIN d \ {tmp} : e[f] = d[f]
        /\ e[tmp] = Append(d[tmp], Record)
    OBVIOUS
  <1>5. /\ e[tmp] \in Seq(Records) /\ Len(e[tmp]) = n + 1 /\ DOMAIN e[tmp] = 1 .. n + 1
        /\ \A i \in 1 .. n : e[tmp][i] = d[tmp][i]
        /\ e[tmp][n + 1] = Record
    <2>. HIDE DEF e, n
    <2>1. e[tmp] = Append(d[tmp], Record)
      BY <1>4
    <2>. QED
      BY <1>1, <1>3, <2>1, AppendProperties, LenProperties DEF n
  <1>6. e = [f \in DOMAIN d |-> e[f]]
    OBVIOUS
  <1>. HIDE DEF e, n
  <1>7. \A f \in DOMAIN d : \A i \in DOMAIN e[f] :
           \/ i \in DOMAIN d[f] /\ e[f][i] = d[f][i] /\ ~(f = tmp /\ i = n + 1)
           \/ f = tmp /\ i = n + 1 /\ e[f][i] = Record
    <2>1. ASSUME NEW i \in DOMAIN e[tmp]
          PROVE  \/ i \in DOMAIN d[tmp] /\ e[tmp][i] = d[tmp][i] /\ i # n + 1
                 \/ i = n + 1 /\ e[tmp][i] = Record
      BY <1>3, <1>5
    <2>. QED
      BY <1>4, <2>1
  <1>8. \A f \in DOMAIN d : \A i \in DOMAIN d[f] : i \in DOMAIN e[f] /\ e[f][i] = d[f][i]
    <2>1. \A i \in DOMAIN d[tmp] : i \in DOMAIN e[tmp] /\ e[tmp][i] = d[tmp][i]
      BY <1>3, <1>5
    <2>. QED
      BY <1>4, <2>1
  <1>9. e \in [DOMAIN d -> Seq(Records)]
    BY <1>2, <1>4, <1>5, <1>6
  <1>10. Dated(d) /\ tmp[1][4] - today \in {0, 1} => Dated(e)
    BY <1>1, <1>4, <1>7 DEF Dated
  <1>11. ASSUME Numbered(d, serial) PROVE Numbered(e, serial + 1)
    BY <1>1, <1>2, <1>4, <1>7, <1>11 DEF Numbered
  <1>12. ASSUME Numbered(d, serial), Once(d, ids) PROVE Once(e, ids \cup {serial + 1})
    <2>1. \A f \in DOMAIN d : \A i \in DOMAIN d[f] : d[f][i].id # serial + 1
      BY <1>2, <1>12 DEF Numbered
    <2>2. ASSUME NEW f \in DOMAIN d, NEW g \in DOMAIN d,
                 NEW i \in DOMAIN e[f], NEW j \in DOMAIN e[g], e[f][i].id = e[g][j].id
          PROVE  f = g /\ i = j
      <3>1. CASE f = tmp /\ i = n + 1
        BY <1>1, <1>7, <2>1, <2>2, <3>1
      <3>2. CASE g = tmp /\ j = n + 1
        BY <1>1, <1>7, <2>1, <2>2, <3>2
      <3>3. CASE ~(f = tmp /\ i = n + 1) /\ ~(g = tmp /\ j = n + 1)
        BY <1>7, <1>12, <2>2, <3>3 DEF Once
      <3>. QED
        BY <3>1, <3>2, <3>3
    <2>3. ASSUME NEW id \in ids PROVE \E f \in DOMAIN d : \E i \in DOMAIN e[f] : e[f][i].id = id
      BY <1>8, <1>12 DEF Once
    <2>4. \E i \in DOMAIN e[tmp] : e[tmp][i].id = serial + 1
      BY <1>1, <1>3, <1>5
    <2>5. \A id \in ids \cup {serial + 1} : \E f \in DOMAIN d : \E i \in DOMAIN e[f] : e[f][i].id = id
      BY <2>3, <2>4
    <2>. QED
      BY <1>4, <2>2, <2>5 DEF Once
  <1>. QED
    BY <1>5, <1>9, <1>10, <1>11, <1>12 DEF e, n

-----------------------------------------------------------------------------
\* The invariant holds at the beginning and is kept by every step.

LEMMA InvInit == LogInit => Inv
  <1>. SUFFICES ASSUME LogInit PROVE Inv
    OBVIOUS
  <1>1. log \in Logs /\ ~log.open /\ log.date = 0 /\ log.name = <<>>
    BY DEF LogInit, NewLog, Logs, NoDay, Paths
  <1>2. DOMAIN disk = {} /\ disk \in [DOMAIN disk -> Seq(Records)]
    BY DEF LogInit
  <1>3. LogTypeOK
    BY <1>1, <1>2 DEF LogInit, LogTypeOK, Resting
  <1>4. OpenInv /\ Dated(disk) /\ Numbered(disk, serial) /\ log.date <= today
    BY <1>1, <1>2 DEF LogInit, OpenInv, Dated, Numbered
  <1>5. FilesInv
    BY <1>1, <1>2 DEF LogInit, FilesInv, NamesLeft, FinalLeft, Once
  <1>. QED
    BY <1>3, <1>4, <1>5 DEF Inv

\* Steps that leave the files alone, and of the members what concerns files.
LEMMA MembersKeepInv ==
    ASSUME Inv, LogTypeOK',
           UNCHANGED <<disk, pid, serial, kept, reused>>,
           log'.open = log.open, log'.name = log.name, log'.size = log.size,
           log'.count = log.count, log'.date = log.date, today <= today'
    PROVE  Inv'
  <1>1. OpenInv' /\ Dated(disk)' /\ Numbered(disk, serial)'
    BY DEF Inv, OpenInv, Dated, Numbered
  <1>2. FilesInv'
    BY DEF Inv, FilesInv, NamesLeft, FinalLeft, Once
  <1>3. log.date \in Nat /\ today \in Nat /\ today' \in Nat /\ log.date <= today
    BY DEF Inv, LogTypeOK, Logs
  <1>4. log'.date <= today'
    BY <1>3
  <1>. QED
    BY <1>1, <1>2, <1>4 DEF Inv

LEMMA LevelStepsKeepInv ==
    ASSUME Inv, NEW t \in Threads,
           (\E level \in Levels : CheckLevelFile(t, level))
               \/ CheckLevelTerm(t) \/ SetConditional(t) \/ Log2(t)
    PROVE  Inv'
  <1>. USE DEF LogTypeOK, Goes, Resting, history
  <1>1. today <= today
    BY DEF Inv
  <1>2. ASSUME NEW level \in Levels, CheckLevelFile(t, level) PROVE Inv'
    <2>1. LogTypeOK'
      BY <1>2 DEF Inv, CheckLevelFile
    <2>2. UNCHANGED <<log, disk, today, pid, serial, kept, reused>>
      BY <1>2 DEF CheckLevelFile
    <2>. HIDE DEF LogTypeOK
    <2>. QED
      BY <1>1, <2>1, <2>2, MembersKeepInv
  <1>3. CASE CheckLevelTerm(t)
    <2>1. LogTypeOK'
      BY <1>3 DEF Inv, CheckLevelTerm
    <2>2. UNCHANGED <<log, disk, today, pid, serial, kept, reused>>
      BY <1>3 DEF CheckLevelTerm
    <2>. HIDE DEF LogTypeOK
    <2>. QED
      BY <1>1, <2>1, <2>2, MembersKeepInv
  <1>4. CASE SetConditional(t)
    <2>1. log' \in Logs
      BY <1>4 DEF Inv, SetConditional, Logs
    <2>2. LogTypeOK'
      <3>1. \E p \in {"write", "print"} : at' = [at EXCEPT ![t] = [@ EXCEPT !.point = p]]
        BY <1>4 DEF SetConditional
      <3>2. at' \in [Threads -> [point : {"idle", "setFile", "write", "term", "setTerm", "print"},
                                 level : Nat]]
        BY <3>1 DEF Inv
      <3>3. UNCHANGED <<disk, flushed, today, pid, sets, serial, processes, kept, reused>>
        BY <1>4 DEF SetConditional
      <3>. QED
        BY <2>1, <3>2, <3>3 DEF Inv
    <2>3. /\ log'.open = log.open /\ log'.name = log.name /\ log'.size = log.size
          /\ log'.count = log.count /\ log'.date = log.date
      BY <1>4 DEF Inv, SetConditional, Logs
    <2>4. UNCHANGED <<disk, today, pid, serial, kept, reused>>
      BY <1>4 DEF SetConditional
    <2>. HIDE DEF LogTypeOK
    <2>. QED
      BY <1>1, <2>2, <2>3, <2>4, MembersKeepInv
  <1>5. CASE Log2(t)
    <2>1. LogTypeOK'
      BY <1>5 DEF Inv, Log2
    <2>2. UNCHANGED <<log, disk, today, pid, serial, kept, reused>>
      BY <1>5 DEF Log2
    <2>. HIDE DEF LogTypeOK
    <2>. QED
      BY <1>1, <2>1, <2>2, MembersKeepInv
  <1>. QED
    BY <1>2, <1>3, <1>4, <1>5

LEMMA OtherStepsKeepInv == ASSUME Inv, SetLimits \/ Flush \/ Midnight PROVE Inv'
  <1>. USE DEF LogTypeOK, history
  <1>1. CASE SetLimits
    <2>1. log \in Logs
      BY DEF Inv
    <2>. DEFINE Kept(l) == /\ l \in Logs /\ l.level = log.level
                           /\ l.open = log.open /\ l.name = log.name /\ l.size = log.size
                           /\ l.count = log.count /\ l.date = log.date
    <2>2. Kept(log')
      <3>1. ASSUME NEW f \in Levels, NEW t \in Levels,
                   log' = [log EXCEPT !.levelFile = f, !.levelTerm = t]
            PROVE  Kept(log')
        BY <2>1, <3>1 DEF Logs
      <3>2. ASSUME NEW s \in FileSizes, log' = [log EXCEPT !.fileSize = s]
            PROVE  Kept(log')
        BY <2>1, <3>2 DEF Logs
      <3>. QED
        BY <1>1, <3>1, <3>2 DEF SetLimits
    <2>3. UNCHANGED <<at, disk, flushed, today, pid, serial, processes, kept, reused>>
      BY <1>1 DEF SetLimits
    <2>4. sets' \in Nat
      <3>1. sets \in Nat /\ sets' = sets + 1
        BY <1>1 DEF Inv, SetLimits
      <3>. QED
        BY <3>1
    <2>5. LogTypeOK' /\ today <= today'
      BY <2>2, <2>3, <2>4 DEF Inv
    <2>. QED
      BY <2>2, <2>3, <2>5, MembersKeepInv
  <1>2. CASE Flush
    <2>1. disk[Tmp(log.name)] \in Seq(Records)
      BY <1>2 DEF Inv, OpenInv, Flush
    <2>2. flushed' \in Nat
      BY <1>2, <2>1 DEF Flush
    <2>3. LogTypeOK'
      BY <1>2, <2>2 DEF Inv, Flush
    <2>4. today <= today'
          /\ UNCHANGED <<log, disk, pid, serial, kept, reused>>
      BY <1>2 DEF Inv, Flush
    <2>. QED
      BY <2>3, <2>4, MembersKeepInv
  <1>3. CASE Midnight
    <2>1. LogTypeOK' /\ today <= today'
      BY <1>3 DEF Inv, Midnight
    <2>. QED
      BY <1>3, <2>1, MembersKeepInv DEF Inv, Midnight
  <1>. QED
    BY <1>1, <1>2, <1>3

\* A record is written to the open file, by log1() at its end: to the present
\* one, or to one that logOpen() has given it.
LEMMA WrittenKeepsInv ==
    ASSUME Inv, NEW l \in Logs, NEW d, Written(l, d), NEW t \in Threads,
           d \in [DOMAIN d -> Seq(Records)], DOMAIN d \subseteq Files,
           l.open, l.name \in Names, Tmp(l.name) \in DOMAIN d,
           l.name[3] = pid, l.name[4] = l.date, Len(d[Tmp(l.name)]) <= l.size,
           l.date - today \in {0, 1}, l.date <= today', today' \in Nat,
           l.level = log.level, flushed' \in Nat,
           Dated(d), Numbered(d, serial),
           ~reused => NamesLeft(d, l) /\ FinalLeft(d, l) /\ Once(d, kept),
           Goes(t, "write", "term"),
           UNCHANGED <<pid, sets, processes, reused>>
    PROVE  Inv'
  <1>. DEFINE tmp == Tmp(l.name)
  <1>1. serial \in Nat /\ today \in Nat
    BY DEF Inv, LogTypeOK
  <1>2. disk' = [d EXCEPT ![tmp] = Append(@, Record)] /\ DOMAIN disk' = DOMAIN d
    BY DEF Written
  <1>3. /\ disk' \in [DOMAIN d -> Seq(Records)] /\ Len(disk'[tmp]) = Len(d[tmp]) + 1
        /\ Dated(d) /\ tmp[1][4] - today \in {0, 1} => Dated(disk')
        /\ Numbered(disk', serial + 1)
        /\ Once(d, kept) => Once(disk', kept \cup {serial + 1})
    BY <1>1, <1>2, WrittenFiles
  <1>4. tmp[1] = l.name
    BY DEF Tmp
  <1>5. l.size \in Nat /\ log' \in Logs /\ log' = [l EXCEPT !.size = l.size + 1]
    <2>1. log' = [l EXCEPT !.size = l.size + 1]
      BY DEF Written
    <2>2. l.size \in Nat /\ l.size + 1 \in Nat
      BY DEF Logs
    <2>. QED
      BY <2>1, <2>2 DEF Logs
  <1>6. /\ log'.open /\ log'.name = l.name /\ log'.date = l.date /\ log'.count = l.count
        /\ log'.level = log.level /\ log'.size = l.size + 1
    BY <1>5 DEF Logs
  <1>7. serial' = serial + 1 /\ kept' = kept \cup {serial + 1}
    BY DEF Written
  <1>8. LogTypeOK'
    <2>1. at' \in [Threads -> [point : {"idle", "setFile", "write", "term", "setTerm", "print"},
                               level : Nat]]
      <3>1. at' = [at EXCEPT ![t] = [@ EXCEPT !.point = "term"]]
        BY DEF Goes
      <3>2. at \in [Threads -> [point : {"idle", "setFile", "write", "term", "setTerm", "print"},
                                level : Nat]]
        BY DEF Inv, LogTypeOK
      <3>. QED
        BY <3>1, <3>2
    <2>2. kept' \subseteq 1 .. serial' /\ serial' \in Nat
      <3>1. kept \subseteq 1 .. serial
        BY DEF Inv, LogTypeOK
      <3>. QED
        BY <1>1, <1>7, <3>1
    <2>. QED
      BY <1>2, <1>3, <1>5, <2>1, <2>2 DEF Inv, LogTypeOK
  <1>9. OpenInv'
    <2>1. Len(d[tmp]) \in Nat
      OBVIOUS
    <2>. QED
      BY <1>2, <1>3, <1>5, <1>6, <2>1 DEF OpenInv
  <1>10. Dated(disk)' /\ Numbered(disk, serial)' /\ log'.date <= today'
    BY <1>3, <1>4, <1>6, <1>7 DEF Dated, Numbered
  <1>11. FilesInv'
    <2>. SUFFICES ASSUME ~reused
                  PROVE  NamesLeft(disk, log)' /\ FinalLeft(disk, log)' /\ Once(disk, kept)'
      BY DEF FilesInv
    <2>1. NamesLeft(disk, log)' /\ FinalLeft(disk, log)'
      BY <1>2, <1>6 DEF NamesLeft, FinalLeft, Final
    <2>2. Once(disk, kept)'
      BY <1>3, <1>7 DEF Once
    <2>. QED
      BY <2>1, <2>2
  <1>. QED
    BY <1>8, <1>9, <1>10, <1>11 DEF Inv

\* The log is opened anew, or cannot be.
LEMMA ReopenedKeepsInv ==
    ASSUME Inv, NEW day \in Nat, today <= day, NEW opens \in BOOLEAN,
           log' = Reopened(day, opens), disk' = DiskReopened(log'),
           today' = day, flushed' = 0, sets' \in Nat,
           at' \in [Threads -> [point : {"idle", "setFile", "write", "term", "setTerm", "print"},
                               level : Nat]],
           UNCHANGED <<pid, serial, processes, kept, reused>>
    PROVE  Inv'
  <1>1. /\ log' \in Logs /\ log'.name \in Names
        /\ log'.open = opens /\ log'.date = day /\ log'.name[3] = pid /\ log'.name[4] = day
        /\ log'.level = log.level
    BY ReopenedLog DEF Inv
  <1>2. /\ disk' \in [DOMAIN disk' -> Seq(Records)] /\ DOMAIN disk' \subseteq Files
        /\ opens => Tmp(log'.name) \in DOMAIN disk' /\ disk'[Tmp(log'.name)] = <<>>
        /\ Dated(disk') /\ Numbered(disk', serial)
        /\ ~reused => NamesLeft(disk', log') /\ FinalLeft(disk', log') /\ Once(disk', kept)
    BY ReopenedFiles
  <1>3. LogTypeOK'
    BY <1>1, <1>2 DEF Inv, LogTypeOK
  <1>4. OpenInv'
    <2>. SUFFICES ASSUME log'.open
                  PROVE  Tmp(log'.name) \in DOMAIN disk' /\ Len(disk'[Tmp(log'.name)]) <= log'.size
      BY <1>1 DEF OpenInv, Tmp
    <2>1. log'.size \in Nat
      BY <1>1 DEF Logs
    <2>2. Tmp(log'.name) \in DOMAIN disk' /\ disk'[Tmp(log'.name)] = <<>>
      BY <1>1, <1>2
    <2>. QED
      BY <2>1, <2>2
  <1>5. Dated(disk)' /\ Numbered(disk, serial)' /\ log'.date <= today'
    BY <1>1, <1>2 DEF Dated, Numbered
  <1>6. FilesInv'
    BY <1>2 DEF FilesInv, NamesLeft, FinalLeft, Once
  <1>. QED
    BY <1>1, <1>3, <1>4, <1>5, <1>6 DEF Inv

LEMMA Log1KeepsInv == ASSUME Inv, NEW t \in Threads, Log1(t) PROVE Inv'
  <1>1. /\ Goes(t, "write", "term")
        /\ UNCHANGED <<pid, sets, processes, reused>>
    BY DEF Log1
  <1>2. log \in Logs /\ today \in Nat /\ flushed \in Nat /\ log.date <= today
    BY DEF Inv, LogTypeOK
  <1>3. CASE ~NeedsOpen
    <2>1. Written(log, disk) /\ UNCHANGED <<today, flushed>>
      BY <1>3 DEF Log1
    <2>2. log.open /\ log.date = today
      BY <1>3 DEF NeedsOpen
    <2>3. /\ log.name \in Names /\ Tmp(log.name) \in DOMAIN disk
          /\ log.name[3] = pid /\ log.name[4] = log.date /\ Len(disk[Tmp(log.name)]) <= log.size
      BY <2>2 DEF Inv, OpenInv
    <2>4. disk \in [DOMAIN disk -> Seq(Records)] /\ DOMAIN disk \subseteq Files
      BY DEF Inv, LogTypeOK
    <2>5. /\ Dated(disk) /\ Numbered(disk, serial)
          /\ ~reused => NamesLeft(disk, log) /\ FinalLeft(disk, log) /\ Once(disk, kept)
      BY DEF Inv, FilesInv
    <2>6. log.date - today \in {0, 1} /\ log.date <= today' /\ today' \in Nat /\ flushed' \in Nat
      BY <1>2, <2>1, <2>2
    <2>. QED
      BY <1>1, <1>2, <2>1, <2>2, <2>3, <2>4, <2>5, <2>6, WrittenKeepsInv
  <1>4. CASE NeedsOpen
    <2>1. PICK opens \in BOOLEAN, day \in today .. today + 1 :
             LET l == Reopened(day, opens)
             IN /\ today' = day
                /\ IF opens THEN Written([l EXCEPT !.size = 0], DiskReopened(l))
                   ELSE /\ log' = l /\ disk' = DiskReopened(l)
                        /\ UNCHANGED <<serial, kept>>
      BY <1>3, <1>4 DEF Log1
    <2>2. flushed' = 0 /\ day \in Nat /\ today <= day
      BY <1>2, <1>3, <1>4 DEF Log1
    <2>3. CASE ~opens
      <3>1. log' = Reopened(day, FALSE) /\ disk' = DiskReopened(log') /\ UNCHANGED <<serial, kept>>
        BY <2>1, <2>3
      <3>2. at' \in [Threads -> [point : {"idle", "setFile", "write", "term", "setTerm", "print"},
                                 level : Nat]]
        BY <1>1 DEF Inv, LogTypeOK, Goes
      <3>3. sets' \in Nat
        BY <1>1 DEF Inv, LogTypeOK
      <3>. QED
        BY <1>1, <2>1, <2>2, <3>1, <3>2, <3>3, ReopenedKeepsInv
    <2>4. CASE opens
      <3>. DEFINE l0 == Reopened(day, opens)
                  l == [l0 EXCEPT !.size = 0]
                  d == DiskReopened(l0)
      <3>1. /\ l0 \in Logs /\ l0.name \in Names /\ l0.open /\ l0.date = day
            /\ l0.name[3] = pid /\ l0.name[4] = day /\ l0.level = log.level
        BY <2>2, <2>4, ReopenedLog DEF Inv
      <3>2. /\ d \in [DOMAIN d -> Seq(Records)] /\ DOMAIN d \subseteq Files
            /\ Tmp(l0.name) \in DOMAIN d /\ d[Tmp(l0.name)] = <<>>
            /\ Dated(d) /\ Numbered(d, serial)
            /\ ~reused => NamesLeft(d, l0) /\ FinalLeft(d, l0) /\ Once(d, kept)
        BY <2>2, <2>4, ReopenedFiles
      <3>3. Written(l, d)
        BY <2>1, <2>4
      <3>. HIDE DEF l0, d
      <3>4. /\ l \in Logs /\ l.name = l0.name /\ l.open = l0.open /\ l.date = day
            /\ l.level = log.level /\ l.count = l0.count /\ l.size = 0
        BY <3>1 DEF Logs
      <3>5. Len(d[Tmp(l.name)]) <= l.size
        BY <3>2, <3>4, EmptySeq
      <3>6. ~reused => NamesLeft(d, l) /\ FinalLeft(d, l) /\ Once(d, kept)
        BY <3>1, <3>2, <3>4 DEF NamesLeft, FinalLeft
      <3>7. l.date - today \in {0, 1} /\ l.date <= today' /\ today' \in Nat
        BY <1>2, <2>1, <2>2, <3>4
      <3>. HIDE DEF l
      <3>. QED
        BY <1>1, <2>2, <3>1, <3>2, <3>3, <3>4, <3>5, <3>6, <3>7, WrittenKeepsInv
    <2>. QED
      BY <2>3, <2>4
  <1>. QED
    BY <1>3, <1>4

LEMMA ReopenKeepsInv == ASSUME Inv, Reopen PROVE Inv'
  <1>1. PICK opens \in BOOLEAN : log' = Reopened(today, opens)
    BY DEF Reopen
  <1>2. /\ disk' = DiskReopened(log') /\ flushed' = 0 /\ sets' = sets + 1
        /\ UNCHANGED <<at, today, pid, serial, processes, kept, reused>>
    BY DEF Reopen, history
  <1>3. today \in Nat /\ sets' \in Nat
        /\ at \in [Threads -> [point : {"idle", "setFile", "write", "term", "setTerm", "print"},
                               level : Nat]]
    BY <1>2 DEF Inv, LogTypeOK
  <1>. QED
    BY <1>1, <1>2, <1>3, ReopenedKeepsInv

LEMMA SetNameKeepsInv ==
    ASSUME Inv, NEW field \in {"prefix", "subdir", "fulldir"}, NEW x \in Texts, SetName(field, x)
    PROVE  Inv'
  <1>1. log' = [log EXCEPT ![field] = x, !.count = 0, !.open = FALSE]
    BY DEF SetName
  <1>2. /\ disk' = DiskClosed /\ flushed' = 0 /\ sets' = sets + 1
        /\ reused' = (reused \/ log.count > 0)
        /\ UNCHANGED <<at, today, pid, serial, processes, kept>>
    BY DEF SetName
  <1>3. /\ log' \in Logs /\ ~log'.open /\ log'.count = 0
        /\ log'.date = log.date /\ log'.level = log.level
    <2>1. log \in Logs /\ x \in Paths
      BY DEF Inv, LogTypeOK, Paths
    <2>2. CASE field = "prefix"
      BY <1>1, <2>1, <2>2 DEF Logs
    <2>3. CASE field = "subdir"
      BY <1>1, <2>1, <2>3 DEF Logs
    <2>4. CASE field = "fulldir"
      BY <1>1, <2>1, <2>4 DEF Logs
    <2>. QED
      BY <2>2, <2>3, <2>4
  <1>4. /\ disk' \in [DOMAIN disk' -> Seq(Records)] /\ DOMAIN disk' \subseteq Files
        /\ \A f \in DOMAIN disk' :
               \E g \in DOMAIN disk : g[1] = f[1] /\ disk'[f] = disk[g]
    BY <1>2, ClosedFiles DEF Inv
  <1>5. sets \in Nat /\ reused \in BOOLEAN /\ log.count \in Nat /\ log.date <= today
    BY DEF Inv, LogTypeOK, Logs
  <1>6. sets' \in Nat /\ serial' = serial /\ kept' = kept /\ pid' = pid
    BY <1>2, <1>5
  <1>7. reused' \in BOOLEAN /\ (~reused' => ~reused /\ ~(log.count > 0))
    BY <1>2, <1>5
  <1>8. LogTypeOK'
    BY <1>2, <1>3, <1>4, <1>6, <1>7 DEF Inv, LogTypeOK
  <1>9. OpenInv' /\ log'.date <= today'
    BY <1>2, <1>3 DEF Inv, OpenInv
  <1>10. Dated(disk') /\ Numbered(disk', serial')
    BY <1>4, <1>6 DEF Inv, Dated, Numbered
  <1>11. ASSUME ~reused'
        PROVE  NamesLeft(disk, log)' /\ FinalLeft(disk, log)' /\ Once(disk, kept)'
    <2>1. ~reused /\ log.count = 0
      BY <1>5, <1>7, <1>11
    <2>2. NamesLeft(disk, log)'
      BY <1>3, <1>4, <1>6, <2>1 DEF Inv, FilesInv, NamesLeft
    <2>3. Once(disk', kept)
      BY <1>2, <2>1, ClosedOnce DEF Inv, FilesInv
    <2>. QED
      BY <1>2, <1>3, <2>2, <2>3 DEF FinalLeft, Once
  <1>. QED
    BY <1>8, <1>9, <1>10, <1>11 DEF Inv, FilesInv, Dated, Numbered

\* What an old process leaves to a new one.
LEMMA BeginsKeepsInv ==
    ASSUME Inv, Begins,
           disk' \in [DOMAIN disk' -> Seq(Records)], DOMAIN disk' \subseteq Files,
           \A f \in DOMAIN disk' : \E g \in DOMAIN disk : g[1] = f[1],
           Dated(disk'), Numbered(disk', serial), kept' \subseteq kept,
           ~reused => Once(disk', kept')
    PROVE  Inv'
  <1>1. /\ log' = NewLog /\ at' = [t \in Threads |-> Resting] /\ flushed' = 0
        /\ pid' \in Pids /\ processes' = processes + 1
        /\ UNCHANGED <<today, sets, serial>>
    BY DEF Begins
  <1>2. reused' = (reused \/ \E f \in DOMAIN disk : f[1][3] = pid')
    BY DEF Begins
  <1>3. log' \in Logs /\ ~log'.open /\ log'.date = 0
    BY <1>1 DEF NewLog, Logs, NoDay, Paths
  <1>4. processes' \in Nat /\ reused' \in BOOLEAN /\ today \in Nat /\ kept' \subseteq 1 .. serial
    BY <1>1, <1>2 DEF Inv, LogTypeOK
  <1>5. LogTypeOK'
    BY <1>1, <1>3, <1>4 DEF Inv, LogTypeOK, Resting
  <1>6. OpenInv' /\ log'.date <= today'
    BY <1>1, <1>3, <1>4 DEF OpenInv, Resting
  <1>7. Dated(disk)' /\ Numbered(disk, serial)'
    BY <1>1 DEF Dated, Numbered
  <1>8. ASSUME ~reused'
        PROVE  NamesLeft(disk, log)' /\ FinalLeft(disk, log)' /\ Once(disk, kept)'
    <2>1. \A f \in DOMAIN disk' : f[1][3] # pid'
      BY <1>2, <1>8
    <2>. QED
      BY <1>2, <1>3, <1>8, <2>1 DEF NamesLeft, FinalLeft, Once
  <1>. QED
    BY <1>5, <1>6, <1>7, <1>8 DEF Inv, FilesInv

LEMMA ExitKeepsInv == ASSUME Inv, Exit PROVE Inv'
  <1>1. disk' = DiskClosed /\ Begins /\ kept' = kept
    BY DEF Exit
  <1>2. /\ disk' \in [DOMAIN disk' -> Seq(Records)] /\ DOMAIN disk' \subseteq Files
        /\ \A f \in DOMAIN disk' :
               \E g \in DOMAIN disk : g[1] = f[1] /\ disk'[f] = disk[g]
    BY <1>1, ClosedFiles DEF Inv
  <1>3. Dated(disk') /\ Numbered(disk', serial)
    BY <1>2 DEF Inv, Dated, Numbered
  <1>4. ~reused => Once(disk', kept')
    BY <1>1, ClosedOnce DEF Inv, FilesInv
  <1>. QED
    BY <1>1, <1>2, <1>3, <1>4, BeginsKeepsInv

LEMMA CrashKeepsInv == ASSUME Inv, LogCrash PROVE Inv'
  <1>1. Begins
    BY DEF LogCrash
  <1>2. CASE ~log.open
    <2>1. disk' = disk /\ kept' = kept
      BY <1>2 DEF LogCrash
    <2>2. /\ disk \in [DOMAIN disk -> Seq(Records)] /\ DOMAIN disk \subseteq Files
          /\ Dated(disk) /\ Numbered(disk, serial) /\ (~reused => Once(disk, kept))
      BY DEF Inv, LogTypeOK, FilesInv
    <2>. QED
      BY <1>1, <2>1, <2>2, BeginsKeepsInv
  <1>3. CASE log.open
    <2>. DEFINE tmp == Tmp(log.name)
    <2>1. PICK n \in flushed .. Len(disk[tmp]) :
             /\ disk' = [disk EXCEPT ![tmp] = SubSeq(disk[tmp], 1, n)]
             /\ kept' = kept \ {disk[tmp][i].id : i \in n + 1 .. Len(disk[tmp])}
      BY <1>3 DEF LogCrash
    <2>2. tmp \in DOMAIN disk /\ disk \in [DOMAIN disk -> Seq(Records)] /\ DOMAIN disk \subseteq Files
      BY <1>3 DEF Inv, OpenInv, LogTypeOK
    <2>. HIDE DEF tmp
    <2>3. /\ disk[tmp] \in Seq(Records) /\ Len(disk[tmp]) \in Nat
          /\ DOMAIN disk[tmp] = 1 .. Len(disk[tmp])
      BY <2>2, LenProperties
    <2>4. n \in Nat /\ n <= Len(disk[tmp])
      BY <2>1, <2>3 DEF Inv, LogTypeOK
    <2>5. \A i \in 1 .. n : disk[tmp][i] \in Records
      BY <2>3, <2>4, ElementOfSeq
    <2>6. /\ SubSeq(disk[tmp], 1, n) \in Seq(Records)
          /\ DOMAIN SubSeq(disk[tmp], 1, n) = 1 .. n
          /\ \A i \in 1 .. n : SubSeq(disk[tmp], 1, n)[i] = disk[tmp][i]
      BY <2>4, <2>5
    <2>7. /\ DOMAIN disk' = DOMAIN disk
          /\ \A f \in DOMAIN disk \ {tmp} : disk'[f] = disk[f]
          /\ disk'[tmp] = SubSeq(disk[tmp], 1, n)
      BY <2>1, <2>2
    <2>8. disk' \in [DOMAIN disk' -> Seq(Records)]
      BY <2>1, <2>2, <2>6
    <2>9. \A f \in DOMAIN disk : \A i \in DOMAIN disk'[f] : i \in DOMAIN disk[f] /\ disk'[f][i] = disk[f][i]
      BY <2>3, <2>4, <2>6, <2>7
    <2>10. Dated(disk') /\ Numbered(disk', serial)
      BY <2>7, <2>9 DEF Inv, Dated, Numbered
    <2>11. ASSUME ~reused PROVE Once(disk', kept')
      <3>1. Once(disk, kept)
        BY <2>11 DEF Inv, FilesInv
      <3>2. \A f, g \in DOMAIN disk' : \A i \in DOMAIN disk'[f], j \in DOMAIN disk'[g] :
               disk'[f][i].id = disk'[g][j].id => f = g /\ i = j
        BY <2>7, <2>9, <3>1 DEF Once
      <3>3. ASSUME NEW id \in kept'
            PROVE  \E f \in DOMAIN disk' : \E i \in DOMAIN disk'[f] : disk'[f][i].id = id
        <4>1. PICK f \in DOMAIN disk : \E i \in DOMAIN disk[f] : disk[f][i].id = id
          BY <2>1, <3>1 DEF Once
        <4>2. PICK i \in DOMAIN disk[f] : disk[f][i].id = id
          BY <4>1
        <4>3. CASE f # tmp
          BY <2>7, <4>1, <4>2, <4>3
        <4>4. CASE f = tmp
          <5>1. i \in 1 .. Len(disk[tmp]) /\ i \notin n + 1 .. Len(disk[tmp])
            BY <2>1, <2>3, <4>2, <4>4
          <5>2. i \in 1 .. n
            BY <2>3, <2>4, <5>1
          <5>3. i \in DOMAIN disk'[tmp] /\ disk'[tmp][i].id = id /\ tmp \in DOMAIN disk'
            BY <2>2, <2>6, <2>7, <4>2, <4>4, <5>2
          <5>. QED
            BY <5>3
        <4>. QED
          BY <4>3, <4>4
      <3>. QED
        BY <3>2, <3>3 DEF Once
    <2>12. kept' \subseteq kept
      BY <2>1
    <2>. QED
      BY <1>1, <2>2, <2>7, <2>8, <2>10, <2>11, <2>12, BeginsKeepsInv
  <1>. QED
    BY <1>2, <1>3

LEMMA InvStep == Inv /\ [LogNext]_logVars => Inv'
  <1>. SUFFICES ASSUME Inv, [LogNext]_logVars PROVE Inv'
    OBVIOUS
  <1>1. ASSUME NEW t \in Threads, LogStep(t) PROVE Inv'
    BY <1>1, LevelStepsKeepInv, Log1KeepsInv DEF LogStep
  <1>2. ASSUME NEW field \in {"prefix", "subdir", "fulldir"}, NEW x \in Texts, SetName(field, x)
        PROVE  Inv'
    BY <1>2, SetNameKeepsInv
  <1>3. CASE Reopen
    BY <1>3, ReopenKeepsInv
  <1>4. CASE SetLimits \/ Flush \/ Midnight
    BY <1>4, OtherStepsKeepInv
  <1>5. CASE Exit
    BY <1>5, ExitKeepsInv
  <1>6. CASE LogCrash
    BY <1>6, CrashKeepsInv
  <1>7. CASE UNCHANGED logVars
    <2>1. LogTypeOK' /\ today <= today'
      BY <1>7 DEF Inv, LogTypeOK, logVars
    <2>. QED
      BY <1>7, <2>1, MembersKeepInv DEF logVars
  <1>. QED
    BY <1>1, <1>2, <1>3, <1>4, <1>5, <1>6, <1>7 DEF LogNext

LEMMA InvHolds == LogSpec => []Inv
  BY InvInit, InvStep, PTL DEF LogSpec

-----------------------------------------------------------------------------
(***************************************************************************)
(* The theorems.                                                           *)
(***************************************************************************)

\* A record that was written is in exactly one file, through renaming,
\* reopening, crashes and new processes, as long as no name is used again.
THEOREM RecordsAreKept == LogSpec => []NothingLost
  <1>1. ASSUME Inv PROVE NothingLost
    <2>. SUFFICES ASSUME ~reused, NEW id \in kept PROVE Cardinality(Places(id)) = 1
      BY DEF NothingLost
    <2>1. Once(disk, kept)
      BY <1>1 DEF Inv, FilesInv
    <2>2. PICK f \in DOMAIN disk : \E i \in DOMAIN disk[f] : disk[f][i].id = id
      BY <2>1 DEF Once
    <2>. PICK i \in DOMAIN disk[f] : disk[f][i].id = id
      BY <2>2
    <2>3. Places(id) = {<<f, i>>}
      <3>1. <<f, i>> \in Places(id)
        BY <2>2 DEF Places
      <3>2. ASSUME NEW p \in Places(id) PROVE p = <<f, i>>
        <4>1. PICK g \in DOMAIN disk : p \in {g} \X DOMAIN disk[g]
          BY DEF Places
        <4>2. p = <<g, p[2]>> /\ p[1] = g /\ p[2] \in DOMAIN disk[g] /\ disk[g][p[2]].id = id
          BY <4>1 DEF Places
        <4>. QED
          BY <2>1, <2>2, <4>2 DEF Once
      <3>. QED
        BY <3>1, <3>2
    <2>. QED
      BY <2>3, FS_Singleton
  <1>. QED
    BY <1>1, InvHolds, PTL

\* A record is in the file of its day or, if midnight passed in log1(), of the next.
THEOREM RecordsAreInTheirDay == LogSpec => []DayOfFile
  <1>1. Inv => DayOfFile
    BY DEF Inv, Dated, DayOfFile
  <1>. QED
    BY <1>1, InvHolds, PTL

\* The step that writes a record leaves its file within the limit.
LEMMA Log1RespectsSize ==
    ASSUME Inv, NEW t \in Threads, Log1(t), serial' > serial
    PROVE  Len(disk'[Tmp(log'.name)]) <= log.fileSize
  <1>1. log \in Logs /\ today \in Nat /\ serial \in Nat /\ log.fileSize \in Nat \ {0} /\ log.size \in Nat
    BY DEF Inv, LogTypeOK, Logs
  <1>2. ASSUME NEW l \in Logs, NEW d, d \in [DOMAIN d -> Seq(Records)],
               Tmp(l.name) \in DOMAIN d, Written(l, d)
        PROVE  Len(disk'[Tmp(log'.name)]) = Len(d[Tmp(l.name)]) + 1 /\ Len(d[Tmp(l.name)]) \in Nat
    <2>1. disk' = [d EXCEPT ![Tmp(l.name)] = Append(@, Record)] /\ log' = [l EXCEPT !.size = @ + 1]
      BY <1>2 DEF Written
    <2>2. log'.name = l.name
      BY <2>1 DEF Logs
    <2>3. d[Tmp(l.name)] \in Seq(Records)
      BY <1>2
    <2>4. Len(d[Tmp(l.name)]) \in Nat
      BY <2>3, LenProperties
    <2>. QED
      BY <1>1, <1>2, <2>1, <2>2, <2>4, WrittenFiles
  <1>3. CASE ~NeedsOpen
    <2>1. Written(log, disk)
      BY <1>3 DEF Log1
    <2>2. log.open /\ log.size < log.fileSize
      BY <1>1, <1>3 DEF NeedsOpen
    <2>3. /\ Tmp(log.name) \in DOMAIN disk /\ Len(disk[Tmp(log.name)]) <= log.size
          /\ disk \in [DOMAIN disk -> Seq(Records)]
      BY <2>2 DEF Inv, OpenInv, LogTypeOK
    <2>4. Len(disk'[Tmp(log'.name)]) = Len(disk[Tmp(log.name)]) + 1 /\ Len(disk[Tmp(log.name)]) \in Nat
      BY <1>1, <1>2, <2>1, <2>3
    <2>. QED
      BY <1>1, <2>2, <2>3, <2>4
  <1>4. CASE NeedsOpen
    <2>1. PICK opens \in BOOLEAN, day \in today .. today + 1 :
             LET l == Reopened(day, opens)
             IN IF opens THEN Written([l EXCEPT !.size = 0], DiskReopened(l))
                ELSE UNCHANGED serial
      BY <1>4 DEF Log1
    <2>2. opens
      BY <1>1, <2>1
    <2>3. day \in Nat /\ today <= day
      BY <1>1
    <2>. DEFINE l0 == Reopened(day, opens)
                l == [l0 EXCEPT !.size = 0]
                d == DiskReopened(l0)
    <2>4. l0 \in Logs
      BY <2>3, ReopenedLog DEF Inv
    <2>5. /\ d \in [DOMAIN d -> Seq(Records)]
          /\ Tmp(l0.name) \in DOMAIN d /\ d[Tmp(l0.name)] = <<>>
      BY <2>2, <2>3, ReopenedFiles
    <2>6. Written(l, d)
      BY <2>1, <2>2
    <2>. HIDE DEF l0, d
    <2>7. l \in Logs /\ l.name = l0.name
      BY <2>4 DEF Logs
    <2>. HIDE DEF l
    <2>8. Len(disk'[Tmp(log'.name)]) = Len(d[Tmp(l.name)]) + 1
      BY <1>2, <2>5, <2>6, <2>7
    <2>. QED
      BY <1>1, <2>5, <2>7, <2>8
  <1>. QED
    BY <1>3, <1>4

\* A record never makes a file longer than the limit in force.
THEOREM FilesKeepTheirSize == LogSpec => SizeRespected
  <1>. DEFINE A == log'.open /\ serial' > serial => Len(disk'[Tmp(log'.name)]) <= log.fileSize
  <1>1. ASSUME Inv, [LogNext]_logVars PROVE [A]_logVars
    <2>. SUFFICES ASSUME LogNext, serial' > serial PROVE Len(disk'[Tmp(log'.name)]) <= log.fileSize
      BY <1>1
    <2>1. serial \in Nat
      BY <1>1 DEF Inv, LogTypeOK
    <2>2. ASSUME serial' = serial PROVE FALSE
      BY <2>1, <2>2
    <2>3. ASSUME NEW t \in Threads, LogStep(t) PROVE Log1(t)
      BY <2>2, <2>3 DEF LogStep, CheckLevelFile, CheckLevelTerm, SetConditional, Log2
    <2>4. ASSUME NEW field \in {"prefix", "subdir", "fulldir"}, NEW x \in Texts, SetName(field, x)
          PROVE  FALSE
      BY <2>2, <2>4 DEF SetName
    <2>5. ASSUME Reopen \/ SetLimits \/ Flush \/ Exit \/ LogCrash \/ Midnight PROVE FALSE
      BY <2>2, <2>5 DEF Reopen, SetLimits, Flush, Exit, LogCrash, Midnight, Begins
    <2>. QED
      BY <1>1, <2>3, <2>4, <2>5, Log1RespectsSize DEF LogNext
  <1>. QED
    BY <1>1, InvHolds, PTL DEF LogSpec, SizeRespected

=============================================================================
