----------------------------- MODULE FileUtil -----------------------------
(***************************************************************************)
(* file_util.h, file_util.cpp: Move(), a copy and an unlink, one system    *)
(* call a step, by threads at the same time.  The chunks pass through one  *)
(* static buffer.  An inode is a device and a number; the sources are on   *)
(* another device than the targets, which is what the copying is for.  No  *)
(* two threads have a path in common.  A file is a sequence of chunks of   *)
(* BUFFER_SIZE bytes, the last of them shorter.                            *)
(***************************************************************************)
EXTENDS Integers, Sequences

CONSTANTS
    Movers,         \* threads
    Source, Target, \* functions: the paths each thread is given
    Number,         \* function: the inode number of the source of each
    Chunks,         \* what a chunk of a file can be
    Content,        \* function: what is in it at first
    Old,            \* what is in a target that is there at first
    ABSENT, TORN,   \* no inode; a chunk cut short or of two files
    MaxInode        \* bound: numbers of inodes

ASSUME FileUtilAssumption ==
    /\ \A p, q \in Movers : p # q =>
           {Source[p], Target[p]} \cap {Source[q], Target[q]} = {} /\ Number[p] # Number[q]
    /\ \A p \in Movers : /\ Source[p] # Target[p] /\ Number[p] \in 1 .. MaxInode
                         /\ Content[p] \in Seq(Chunks)
    /\ MaxInode \in Nat
    /\ ABSENT \notin {"here", "there"} \X (1 .. MaxInode)

Inodes == {"here", "there"} \X (1 .. MaxInode)
Paths == UNION {{Source[p], Target[p]} : p \in Movers}

VARIABLES
    ino,            \* path -> inode, or ABSENT: the directories
    data,           \* inode -> chunks: the files
    buf,            \* static char buf[]
    mover           \* thread -> where it is in Move(), and its local variables

fileVars == <<ino, data, buf, mover>>

\* src, dst: FILE*; readNum: chunks read so far, got: the last fread gave one.
\* History: the target that was there; an error that nobody looked at; a chunk that
\* another thread had put in the buffer.
Idle == [pc |-> "idle", cover |-> FALSE, src |-> ABSENT, dst |-> ABSENT, readNum |-> 0,
         got |-> FALSE, last |-> FALSE, result |-> FALSE,
         old |-> ABSENT, unseen |-> FALSE, mixed |-> FALSE]

AtPc(p, pc) == mover[p].pc = pc
Goto(p, pc) == mover' = [mover EXCEPT ![p].pc = pc]
Return(p, value) == mover' = [mover EXCEPT ![p].pc = "done", ![p].result = value]

\* A target is absent, an old file, perhaps with the number of the source, or
\* another name of the source.
FileInit ==
    /\ ino \in [Paths -> Inodes \cup {ABSENT}]
    /\ \A p \in Movers : /\ ino[Source[p]] = <<"here", Number[p]>>
                         /\ ino[Target[p]] \in {ABSENT, ino[Source[p]]} \cup
                                {<<"there", n>> : n \in {Number[q] : q \in Movers}}
    /\ \A p, q \in Movers : p # q => ino[Target[p]] = ABSENT \/ ino[Target[p]] # ino[Target[q]]
    /\ data = [i \in Inodes |-> IF \E p \in Movers : i = <<"here", Number[p]>>
                                THEN Content[CHOOSE p \in Movers : i = <<"here", Number[p]>>]
                                ELSE Old]
    /\ buf = <<>>
    /\ mover = [p \in Movers |-> Idle]

\* IsSame(): the number of the inode, not the device.
IsSame(a, b) == ino[a] # ABSENT /\ ino[b] # ABSENT /\ ino[a][2] = ino[b][2]

Move(p, cover) ==
    /\ AtPc(p, "idle")
    /\ IF IsSame(Source[p], Target[p]) THEN Return(p, TRUE)
       ELSE mover' = [mover EXCEPT ![p].pc = "access", ![p].cover = cover,
                                   ![p].old = ino[Target[p]]]
    /\ UNCHANGED <<ino, data, buf>>

\* access() and remove(), whose failure nobody looks at.
MakeRoom(p) ==
    /\ AtPc(p, "access")
    /\ IF ino[Target[p]] = ABSENT THEN Goto(p, "source") /\ UNCHANGED ino
       ELSE IF mover[p].cover
       THEN Goto(p, "source") /\ ino' \in {ino, [ino EXCEPT ![Target[p]] = ABSENT]}
       ELSE Return(p, FALSE) /\ UNCHANGED ino
    /\ UNCHANGED <<data, buf>>

OpenSource(p) ==
    /\ AtPc(p, "source")
    /\ \/ mover' = [mover EXCEPT ![p].pc = "target", ![p].src = ino[Source[p]]]
       \/ Return(p, FALSE)
    /\ UNCHANGED <<ino, data, buf>>

\* fopen(dstFile, "wb"): empties what is there, or makes it.
OpenTarget(p) ==
    LET free == {i \in Inodes : i[1] = "there" /\ \A path \in Paths : ino[path] # i}
    IN /\ AtPc(p, "target")
       /\ \/ \E dst \in IF ino[Target[p]] # ABSENT THEN {ino[Target[p]]} ELSE free :
                 /\ ino' = [ino EXCEPT ![Target[p]] = dst]
                 /\ data' = [data EXCEPT ![dst] = <<>>]
                 /\ mover' = [mover EXCEPT ![p].pc = "read", ![p].dst = dst]
          \/ /\ Return(p, FALSE)
             /\ UNCHANGED <<ino, data>>
       /\ UNCHANGED buf

\* Fault: the loop ends when no more is read than asked for.
EndsAtOnce(file, readNum) == TRUE

\* readNum < BUFFER_SIZE: the read that gets to the end of the file.
Ends(file, readNum) == readNum >= Len(file)

\* fread(): the next chunk, or nothing at the end and on an error.
ReadChunk(p) ==
    LET m == mover[p]
        file == data[m.src]
        more == m.readNum < Len(file)
    IN /\ AtPc(p, "read")
       /\ \/ /\ mover' = [mover EXCEPT ![p].pc = "write", ![p].got = more,
                                       ![p].readNum = IF more THEN @ + 1 ELSE @,
                                       ![p].last = Ends(file, m.readNum + 1)]
             /\ buf' = IF more THEN file[m.readNum + 1] ELSE buf
          \/ /\ more
             /\ mover' = [mover EXCEPT ![p].pc = "write", ![p].got = FALSE, ![p].last = TRUE,
                                       ![p].unseen = TRUE]
             /\ UNCHANGED buf
       /\ UNCHANGED <<ino, data>>

\* Another thread copies at this time: the bytes may be its own, or some of them.
Racing(p) == \E q \in Movers \ {p} : AtPc(q, "read") \/ AtPc(q, "write")

\* fwrite(): what the buffer holds, or nothing or some of it on an error.
WriteChunk(p) ==
    LET m == mover[p]
        own == data[m.src][m.readNum]
        next == IF m.last THEN "unlink" ELSE "read"
    IN /\ AtPc(p, "write")
       /\ \/ /\ ~m.got
             /\ Goto(p, next)
             /\ UNCHANGED data
          \/ /\ m.got
             /\ \E chunk \in {buf} \cup IF Racing(p) THEN {TORN} ELSE {} :
                    /\ data' = [data EXCEPT ![m.dst] = Append(@, chunk)]
                    /\ mover' = [mover EXCEPT ![p].pc = next, ![p].mixed = @ \/ chunk # own]
          \/ /\ m.got
             /\ mover' = [mover EXCEPT ![p].pc = next, ![p].unseen = TRUE]
             /\ data' \in {data, [data EXCEPT ![m.dst] = Append(@, TORN)]}
       /\ UNCHANGED <<ino, buf>>

\* What becomes of the last chunk, which is in the FILE's buffer: it gets out to the
\* file, or some of it, or nothing.
Flushes == {"all", "some", "none"}
Left(chunks, how) ==
    CASE how = "all" \/ chunks = <<>> -> chunks
      [] how = "some" /\ chunks # <<>> -> [chunks EXCEPT ![Len(chunks)] = TORN]
      [] how = "none" /\ chunks # <<>> -> SubSeq(chunks, 1, Len(chunks) - 1)

\* fclose(), whose last flush may fail unnoticed, and unlink(), whose failure is
\* only reported.
Unlink(p) ==
    /\ AtPc(p, "unlink")
    /\ \E how \in Flushes :
           /\ data' = [data EXCEPT ![mover[p].dst] = Left(@, how)]
           /\ mover' = [mover EXCEPT ![p].pc = "done", ![p].result = TRUE,
                                     ![p].unseen = @ \/ how # "all"]
    /\ ino' \in {ino, [ino EXCEPT ![Source[p]] = ABSENT]}
    /\ UNCHANGED buf

\* The process ends, and with it the buffers of the open FILEs.
Crash ==
    /\ \E p \in Movers : mover[p].pc \notin {"idle", "done", "crashed"}
    /\ mover' = [p \in Movers |-> IF mover[p].pc = "done" THEN mover[p]
                                  ELSE [mover[p] EXCEPT !.pc = "crashed"]]
    /\ LET open == {mover[p].dst : p \in {q \in Movers : mover[q].pc \in {"read", "write", "unlink"}}}
       IN \E how \in [open -> Flushes] :
              data' = [i \in Inodes |-> IF i \in open THEN Left(data[i], how[i]) ELSE data[i]]
    /\ UNCHANGED <<ino, buf>>

MoverStep(p) ==
    \/ \E cover \in BOOLEAN : Move(p, cover)
    \/ MakeRoom(p) \/ OpenSource(p) \/ OpenTarget(p)
    \/ ReadChunk(p) \/ WriteChunk(p) \/ Unlink(p)

FileNext == Crash \/ \E p \in Movers : MoverStep(p)

-----------------------------------------------------------------------------
Holds(path, chunks) == ino[path] # ABSENT /\ data[ino[path]] = chunks

\* These chunks are some of the first n of all, in their order, or cut short.
InOrder(chunks, all, n) ==
    \E place \in [DOMAIN chunks -> 1 .. n] :
        /\ \A i, j \in DOMAIN chunks : i < j => place[i] < place[j]
        /\ \A i \in DOMAIN chunks : chunks[i] \in {all[place[i]], TORN}

(***************************************************************************)
(* Until Move() has succeeded, also after a crash and when it has failed,  *)
(* what is moved is whole under its old name.  When it has succeeded, it   *)
(* is whole under the new one, unless an error of fread(), fwrite() or     *)
(* fclose() went unseen or another thread's chunk was written; or both     *)
(* files are there, as their inode numbers are equal.  What an unseen      *)
(* error leaves in the target is chunks of this file, in order; another's  *)
(* chunk gets there only if another thread copies.  Without cover a target *)
(* that is there stays as it is (with it, it goes also when Move() fails). *)
(***************************************************************************)
MoveLosesNothing ==
    \A p \in Movers :
        LET m == mover[p]
            whole(path) == Holds(path, Content[p])
        IN /\ m.pc # "done" \/ ~m.result => whole(Source[p])
           /\ m.pc = "done" /\ m.result /\ ~m.unseen /\ ~m.mixed =>
                  \/ whole(Target[p])
                  \/ whole(Source[p]) /\ IsSame(Source[p], Target[p])
           /\ m.dst # ABSENT /\ ~m.mixed =>
                  InOrder(data[m.dst], Content[p], Len(Content[p]))
           /\ m.mixed => \E q \in Movers \ {p} : mover[q].dst # ABSENT
           /\ m.old # ABSENT /\ ~m.cover => Holds(Target[p], Old)
=============================================================================
