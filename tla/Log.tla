-------------------------------- MODULE Log --------------------------------
(***************************************************************************)
(* my_log.h, my_log.cpp: MyLog, the log that all threads of a process      *)
(* share.  The macro MY_LOG sets the level of the next record in one       *)
(* locked section and writes the record in another.  A file is written     *)
(* under its name with .tmp and renamed when it is closed; a new one is    *)
(* begun when it is full or the day has changed.  Its name holds           *)
(* directory, prefix, process id, day and a count.                         *)
(*                                                                         *)
(* Every method holds _term_and_member_lock from beginning to end          *)
(* (EASY_LOCK) and waits for nothing, so it is one action.                 *)
(***************************************************************************)
EXTENDS Integers, Sequences, FiniteSets, Functions

LOCAL INSTANCE SequencesExt

CONSTANTS
    Threads,
    Levels,         \* the levels of records and of the two thresholds
    Texts,          \* the names given to the setters, as sequences
    FileSizes,      \* the limits of a file, in records
    MY_LOG_SIZE,    \* the one that holds until setFileSize()
    Pids,           \* process ids, which the system uses again
    LastDay,        \* bound: days the clock reaches
    MaxRecords,     \* bound: records written to files
    MaxFailed,      \* bound: the count of files up to which fopen may fail
    MaxSets,        \* bound: calls of setters and REOPEN_LOG that take effect
    MaxProcesses    \* bound: processes, one after the other

ASSUME LogAssumption ==
    /\ Levels \subseteq Nat /\ FileSizes \subseteq Nat \ {0} /\ MY_LOG_SIZE \in FileSizes
    /\ Pids # {} /\ LastDay \in Nat \ {0}

VARIABLES
    log,            \* the members of MyLog
    at,             \* where each thread is in MY_LOG, and the level it logs
    disk,           \* the files: name -> records
    flushed,        \* how many records of the open file are out of its buffer
    today, pid,
    sets, serial, processes,    \* counters for the bounds
    kept,           \* history: the records that must be in some file
    reused          \* history: the count began again, or the id of a process with files

logVars == <<log, at, disk, flushed, today, pid, sets, serial, processes,
          kept, reused>>
history == <<kept, reused>>

NoDay == 0          \* _date of a log that was never opened

NewLog ==
    [level |-> 0, levelFile |-> 0, levelTerm |-> 0,
     fileSize |-> MY_LOG_SIZE,
     prefix |-> <<>>, subdir |-> <<>>, fulldir |-> <<>>,
     open |-> FALSE, name |-> <<>>, size |-> 0, count |-> 0, date |-> NoDay]

-----------------------------------------------------------------------------
\* Files.

\* Fault: the name does not tell the count.
FileNameNoCount(l) ==
    <<IF l.fulldir = <<>> THEN l.subdir ELSE l.fulldir, l.prefix, pid, l.date>>

FileName(l) ==
    <<IF l.fulldir = <<>> THEN l.subdir ELSE l.fulldir, l.prefix, pid, l.date, l.count>>

Tmp(name) == <<name, "tmp">>
Final(name) == <<name, "log">>

Put(files, f, records) ==
    [g \in DOMAIN files \cup {f} |-> IF g = f THEN records ELSE files[g]]

\* The files after logClose(): the open file gets its name, over
\* whatever had it.
DiskClosed ==
    IF log.open
    THEN Put(Restrict(disk, DOMAIN disk \ {Tmp(log.name)}), Final(log.name), disk[Tmp(log.name)])
    ELSE disk

\* The members after logOpen() on a day; fopen may fail.
Reopened(day, opens) ==
    LET l == IF log.date = day THEN log ELSE [log EXCEPT !.count = 0, !.date = day]
    IN [l EXCEPT !.name = FileName(l), !.open = opens, !.count = @ + 1]

\* The files after logOpen(): fopen truncates.
DiskReopened(l) ==
    IF l.open THEN Put(DiskClosed, Tmp(l.name), <<>>) ELSE DiskClosed

-----------------------------------------------------------------------------
\* MY_LOG: first to the file, then to the terminal.

Resting == [point |-> "idle", level |-> 0]

Goes(t, from, to) ==
    /\ at[t].point = from
    /\ at' = [at EXCEPT ![t] = IF to = "idle" THEN Resting ELSE [@ EXCEPT !.point = to]]

CheckLevelFile(t, level) ==
    /\ at[t] = Resting /\ serial < MaxRecords
    /\ at' = [at EXCEPT ![t] = [point |-> IF level >= log.levelFile THEN "setFile" ELSE "term",
                                level |-> level]]
    /\ UNCHANGED <<log, disk, flushed, today, pid, sets, serial, processes, history>>

CheckLevelTerm(t) ==
    /\ Goes(t, "term", IF at[t].level >= log.levelTerm THEN "setTerm" ELSE "idle")
    /\ UNCHANGED <<log, disk, flushed, today, pid, sets, serial, processes, history>>

SetConditional(t) ==
    /\ Goes(t, "setFile", "write") \/ Goes(t, "setTerm", "print")
    /\ log' = [log EXCEPT !.level = at[t].level]
    /\ UNCHANGED <<disk, flushed, today, pid, sets, serial, processes, history>>

\* Fault: one record too many.
NeedsOpenLate == ~log.open \/ log.size > log.fileSize \/ log.date # today

\* Fault: only the size is looked at.
NeedsOpenAnyDay == ~log.open \/ log.size >= log.fileSize

NeedsOpen == ~log.open \/ log.size >= log.fileSize \/ log.date # today

\* A record goes to the end of the open file of l.
Record == [id |-> serial + 1, day |-> today]
Written(l, files) ==
    /\ log' = [l EXCEPT !.size = @ + 1]
    /\ disk' = [files EXCEPT ![Tmp(l.name)] = Append(@, Record)]
    /\ serial' = serial + 1
    /\ kept' = kept \cup {serial + 1}

\* log1(): logOpen() reads the clock again, so midnight may pass in between;
\* if no file can be opened the record is dropped.
Log1(t) ==
    /\ Goes(t, "write", "term")
    /\ \/ /\ ~NeedsOpen
          /\ Written(log, disk)
          /\ UNCHANGED <<today, flushed>>
       \/ /\ NeedsOpen
          /\ \E opens \in BOOLEAN, day \in today .. today + 1 :
                LET l == Reopened(day, opens)
                IN /\ day <= LastDay /\ (opens \/ l.count <= MaxFailed)
                   /\ today' = day
                   /\ IF opens THEN Written([l EXCEPT !.size = 0], DiskReopened(l))
                      ELSE /\ log' = l /\ disk' = DiskReopened(l)
                           /\ UNCHANGED <<serial, kept>>
          /\ flushed' = 0
    /\ UNCHANGED <<pid, sets, processes, reused>>

Log2(t) ==
    /\ Goes(t, "print", "idle")
    /\ UNCHANGED <<log, disk, flushed, today, pid, sets, serial, processes, history>>

-----------------------------------------------------------------------------
\* The other methods, called by whatever thread.

\* setLogNameHead, setLogSubDir, setLogDir.  A name that the present one begins
\* with, or a directory that checkPath() refuses, changes nothing.
SetName(field, x) ==
    /\ sets < MaxSets
    /\ ~IsPrefix(x, log[field])
    /\ log' = [log EXCEPT ![field] = x, !.count = 0, !.open = FALSE]
    /\ disk' = DiskClosed
    /\ flushed' = 0
    /\ reused' = (reused \/ log.count > 0)
    /\ sets' = sets + 1
    /\ UNCHANGED <<at, today, pid, serial, processes, kept>>

\* REOPEN_LOG; _log_size stays.
Reopen ==
    /\ sets < MaxSets
    /\ \E opens \in BOOLEAN : log' = Reopened(today, opens) /\ (opens \/ log'.count <= MaxFailed)
    /\ disk' = DiskReopened(log')
    /\ flushed' = 0
    /\ sets' = sets + 1
    /\ UNCHANGED <<at, today, pid, serial, processes, history>>

\* setLevelClass and setFileSize.
SetLimits ==
    /\ sets < MaxSets
    /\ \/ \E f, t \in Levels : log' = [log EXCEPT !.levelFile = f, !.levelTerm = t]
       \/ \E s \in FileSizes : log' = [log EXCEPT !.fileSize = s]
    /\ sets' = sets + 1
    /\ UNCHANGED <<at, disk, flushed, today, pid, serial, processes, history>>

Flush ==
    /\ log.open
    /\ flushed' = Len(disk[Tmp(log.name)])
    /\ UNCHANGED <<log, at, disk, today, pid, sets, serial, processes, history>>

-----------------------------------------------------------------------------
\* The process ends and another one begins.

Begins ==
    /\ processes < MaxProcesses
    /\ processes' = processes + 1
    /\ log' = NewLog
    /\ at' = [t \in Threads |-> Resting]
    /\ flushed' = 0
    /\ pid' \in Pids
    /\ reused' = (reused \/ \E f \in DOMAIN disk : f[1][3] = pid')
    /\ UNCHANGED <<today, sets, serial>>

\* ~MyLog closes the file.
Exit ==
    /\ \A t \in Threads : at[t] = Resting
    /\ disk' = DiskClosed
    /\ Begins
    /\ UNCHANGED kept

\* What is still in the buffer may be lost, from any record on.
LogCrash ==
    /\ IF log.open
       THEN LET f == Tmp(log.name)
            IN \E n \in flushed .. Len(disk[f]) :
                /\ disk' = [disk EXCEPT ![f] = SubSeq(@, 1, n)]
                /\ kept' = kept \ {disk[f][i].id : i \in n + 1 .. Len(disk[f])}
       ELSE UNCHANGED <<disk, kept>>
    /\ Begins

Midnight ==
    /\ today < LastDay
    /\ today' = today + 1
    /\ UNCHANGED <<log, at, disk, flushed, pid, sets, serial, processes, history>>

LogInit ==
    /\ log = NewLog
    /\ at = [t \in Threads |-> Resting]
    /\ disk = <<>>
    /\ flushed = 0
    /\ today = 1 /\ pid \in Pids
    /\ sets = 0 /\ serial = 0 /\ processes = 1
    /\ kept = {} /\ reused = FALSE

LogStep(t) ==
    \/ \E level \in Levels : CheckLevelFile(t, level)
    \/ CheckLevelTerm(t) \/ SetConditional(t) \/ Log1(t) \/ Log2(t)

LogNext ==
    \/ \E t \in Threads : LogStep(t)
    \/ \E field \in {"prefix", "subdir", "fulldir"}, x \in Texts : SetName(field, x)
    \/ Reopen \/ SetLimits \/ Flush
    \/ Exit \/ LogCrash \/ Midnight

LogSpec == LogInit /\ [][LogNext]_logVars

-----------------------------------------------------------------------------
(***************************************************************************)
(* Properties.                                                             *)
(***************************************************************************)

\* Every record that was written is in exactly one file, whatever is renamed,
\* reopened or crashes, unless directory or prefix were set after the first
\* file was opened, which starts the count again (my_log.cpp:46, 62, 79), or
\* the process id of an existing file came again.  A crash takes only what was
\* not flushed.
Places(id) == {p \in UNION {{f} \X DOMAIN disk[f] : f \in DOMAIN disk} : disk[p[1]][p[2]].id = id}
NothingLost == ~reused => \A id \in kept : Cardinality(Places(id)) = 1

\* A record is in the file of its day, or in that of the next day if midnight
\* passed between the two times log1() looks at the clock (my_log.cpp:165-174).
DayOfFile ==
    \A f \in DOMAIN disk : \A i \in DOMAIN disk[f] :
        f[1][4] - disk[f][i].day \in {0, 1}

\* A record never makes a file longer than the limit in force, although
\* REOPEN_LOG and failing opens leave _log_size alone (my_log.cpp:171-177).
SizeRespected ==
    [][log'.open /\ serial' > serial => Len(disk'[Tmp(log'.name)]) <= log.fileSize]_logVars
=============================================================================
