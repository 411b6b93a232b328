------------------------------ MODULE Sections ------------------------------
(***************************************************************************)
(* reserve(), reservePriority() and receive() of MQ, cut where a signal    *)
(* can tell the difference.  Between two threads a locked section of mq.h  *)
(* is one step; a signal handler of the same thread comes between any two  *)
(* of its statements, and the lock, being recursive, lets it in.           *)
(*                                                                         *)
(* The section has points, named for what comes next.  A handler before    *)
(* the first test, or after the last statement, does what it would do      *)
(* outside.  The program may read _head again, or keep what it read last,  *)
(* until it calls a function it knows nothing of.                          *)
(***************************************************************************)
EXTENDS MQ

VARIABLE inside     \* each thread's point in its section, and what it read

SectionPoints == {"wait", "look", "signal", "move", "read"}
Outside == [point |-> "out", seen |-> 0, old |-> 0]

At(t, p) == inside[t].point = p
SeenHeads(t) == {head, inside[t].seen}

Goes(t, p, seen, old) ==
    inside' = [inside EXCEPT ![t] = [point |-> p, seen |-> seen, old |-> old]]
Leaves(t) == inside' = [inside EXCEPT ![t] = Outside]

Reserving(t) == pc[t] = "reserve"
Receiving(t) == pc[t] = "receive"

\* Take the lock and test whether to wait.  In front of the lock, or after a
\* wake-up, the queue is in use: nobody here turns it off.
Test(t) ==
    /\ At(t, "out") /\ (Reserving(t) \/ Receiving(t))
    /\ CanLock(lock, t) /\ canBeUsed
    /\ lock' = Locked(lock, t)
    /\ Goes(t, IF IF Reserving(t) THEN IsFull ELSE IsEmpty THEN "wait" ELSE "look", head, head)
    /\ UNCHANGED <<ring, canBeUsed, pc, call, slot, result>>

\* pthread_cond_wait, whatever happened since the test.
Wait(t) ==
    /\ At(t, "wait")
    /\ lock' = Unlocked(lock)
    /\ Continue(t, IF Reserving(t) THEN "notFull" ELSE "notEmpty", {})
    /\ Leaves(t)
    /\ UNCHANGED <<ring, canBeUsed, slot>>

\* A first message, or the first room, is to be signalled.
IsEdge(t, h) == IF Reserving(t) THEN h = tail ELSE Prev_(h) = tail

\* reservePriority() also reads the head whose slot it will give.
Look(t) ==
    /\ At(t, "look")
    /\ \E h, old \in SeenHeads(t) :
        Goes(t, IF IsEdge(t, h) THEN "signal" ELSE "move", inside[t].seen, old)
    /\ UNCHANGED vars

Signal(t) ==
    /\ At(t, "signal")
    /\ \E woken \in Signalled(IF Reserving(t) THEN WaitNotEmpty ELSE WaitNotFull) :
        Continue(t, pc[t], woken)
    /\ Goes(t, "move", head, inside[t].old)
    /\ UNCHANGED <<ring, canBeUsed, lock, slot>>

\* The end of reserve() and of reservePriority(), whose slot is that of line 145.
Give(t) ==
    /\ At(t, "move") /\ Reserving(t)
    /\ \/ /\ call[t].op # "sendPriority"
          /\ ReserveTail(t)
       \/ /\ call[t].op = "sendPriority"
          /\ \E h \in SeenHeads(t) : head' = Prev_(h)
          /\ slot' = [slot EXCEPT ![t] = inside[t].old]
          /\ UNCHANGED tail
    /\ Continue(t, IF call[t].op = "trySend" THEN "tryUnlock" ELSE "filling", {})
    /\ Leaves(t)
    /\ UNCHANGED <<buffer, canBeUsed, lock>>

Advance(t) ==
    /\ At(t, "move") /\ Receiving(t)
    /\ \E h \in SeenHeads(t) :
        /\ head' = Next_(h)
        /\ Goes(t, "read", Next_(h), inside[t].old)
    /\ UNCHANGED <<tail, buffer, canBeUsed, lock, pc, call, slot, result>>

Read(t) ==
    /\ At(t, "read")
    /\ lock' = Unlocked(lock)
    /\ \E h \in SeenHeads(t) : Received(t, buffer[h], {})
    /\ Leaves(t)
    /\ UNCHANGED <<ring, canBeUsed, slot>>

\* What is left whole: calls, wake-ups, and the sections of one test.
WholeStep(t) ==
    /\ \/ Call(t) \/ SpuriousWake(t)
       \/ TryReserve(t) \/ TryReserveUnlock(t) \/ Confirm(t)
       \/ TryReceive(t) \/ TryReceiveUnlock(t)
    /\ UNCHANGED inside

SectionStep(t) ==
    \/ WholeStep(t)
    \/ Test(t) \/ Wait(t) \/ Look(t) \/ Signal(t) \/ Give(t) \/ Advance(t) \/ Read(t)
=============================================================================
