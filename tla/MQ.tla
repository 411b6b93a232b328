--------------------------------- MODULE MQ ---------------------------------
(***************************************************************************)
(* mq.h: MQ<T>, a bounded message queue kept in a circular array with one  *)
(* unused slot, shared by threads under one recursive mutex, with two      *)
(* condition variables and a switch _can_be_used that turns it off.        *)
(*                                                                         *)
(* A step of a thread is what it does between two points where it may have *)
(* to wait: taking _lock, blocking on a condition, or leaving the queue    *)
(* locked in the hands of the caller (reserve() returns with the lock      *)
(* held).  pc names these points.                                          *)
(***************************************************************************)
EXTENDS Pthread, Sequences

CONSTANTS
    MaxSize,        \* the constructor's maxSize
    Messages,       \* the messages senders send
    Default,        \* Message_T()
    Uninit,         \* what a variable `Message_T msg;` may hold
    Senders, Receivers, Controllers,    \* the threads, by what they call
    SendOps, ReceiveOps, ControlOps,    \* the methods they call
    Void            \* the result of a method that returns nothing

Threads == Senders \cup Receivers \cup Controllers
Values == Messages \cup {Default}
Slots == 0 .. MaxSize
NULL == -1          \* reserve() found no slot

AllSendOps == {"send", "sendPriority", "trySend"}
AllReceiveOps == {"receive", "tryReceive"}
AllControlOps == {"clear", "clearExcept", "stopUse", "startUse", "canBeUsed",
                  "weakUpSender", "weakUpReceiver", "count"}
AllOps == AllSendOps \cup AllReceiveOps \cup AllControlOps
NoCall == [op |-> "none", msg |-> Default]

ASSUME MQAssumption ==
    /\ MaxSize \in Nat \ {0}
    /\ Uninit \subseteq Values
    /\ Senders # {} /\ Receivers # {}
    /\ Senders \cap Receivers = {}
    /\ NoThread \notin Threads
    /\ SendOps \subseteq AllSendOps
    /\ ReceiveOps \subseteq AllReceiveOps
    /\ ControlOps \subseteq AllControlOps

VARIABLES
    head, tail,     \* the oldest message is in the slot after head
    buffer,
    canBeUsed,
    lock,
    pc,
    call,           \* the method each thread is executing, and its argument
    slot,           \* the slot reserve() gave to the thread
    result          \* what its last call returned

ring == <<head, tail, buffer>>
vars == <<head, tail, buffer, canBeUsed, lock, pc, call, slot, result>>

-----------------------------------------------------------------------------
\* The circular array.

Next_(pos) == IF pos = MaxSize THEN 0 ELSE pos + 1

\* Fault: the index does not wrap at the beginning of the array.
PrevNoWrap(pos) == pos - 1

Prev_(pos) == IF pos = 0 THEN MaxSize ELSE pos - 1

\* Fault: the count of an empty queue is a whole turn.
CountWholeTurn == tail - head + MaxSize + 1

Count_ == IF head <= tail THEN tail - head ELSE tail + MaxSize - head + 1

IsFull == Prev_(head) = tail

IsEmpty == head = tail

-----------------------------------------------------------------------------
\* Threads and conditions.

Labels == {"idle", "tryReserve", "reserve", "notFull", "filling", "tryUnlock",
           "tryReceive", "receive", "notEmpty", "control"}

\* The threads blocked in pthread_cond_wait on _not_full and _not_empty.
WaitNotFull == {t \in Threads : pc[t] = "notFull"}
WaitNotEmpty == {t \in Threads : pc[t] = "notEmpty"}

\* A thread woken in reserve() or receive() tests again, once it has _lock,
\* what it tested on entry: it is back at the entry of the method.
Retry(t) == IF pc[t] = "notFull" THEN "reserve"
            ELSE IF pc[t] = "notEmpty" THEN "receive" ELSE pc[t]

\* Thread t moves to a label and the threads of woken leave their condition.
Moves(t, label, woken) ==
    pc' = [u \in Threads |-> IF u = t THEN label
                             ELSE IF u \in woken THEN Retry(u) ELSE pc[u]]

Return(t, v, woken) ==
    /\ Moves(t, "idle", woken)
    /\ call' = [call EXCEPT ![t] = NoCall]
    /\ result' = [result EXCEPT ![t] = v]

Continue(t, label, woken) ==
    /\ Moves(t, label, woken)
    /\ UNCHANGED <<call, result>>

\* The method's own lock and unlock, in one step: nothing is left of them.
InOneSection(t) == CanLock(lock, t) /\ UNCHANGED lock

TypeOK ==
    /\ head \in Slots /\ tail \in Slots
    /\ buffer \in [Slots -> Values]
    /\ canBeUsed \in BOOLEAN
    /\ lock \in [owner : Threads \cup {NoThread}, depth : Nat]
    /\ pc \in [Threads -> Labels]
    /\ call \in [Threads -> [op : AllOps \cup {"none"}, msg : Values]]
    /\ slot \in [Threads -> Slots \cup {NULL}]
    /\ result \in [Threads -> Values \cup BOOLEAN \cup {Void}]

Init ==
    /\ head = 0 /\ tail = 0
    /\ buffer = [s \in Slots |-> Default]
    /\ canBeUsed = TRUE
    /\ lock = Free
    /\ pc = [t \in Threads |-> "idle"]
    /\ call = [t \in Threads |-> NoCall]
    /\ slot = [t \in Threads |-> NULL]
    /\ result = [t \in Threads |-> Void]

-----------------------------------------------------------------------------
\* The caller: a thread that is not in a method may call one of its role.

Entry(op) == CASE op \in {"send", "sendPriority"} -> "reserve"
               [] op = "trySend" -> "tryReserve"
               [] op = "receive" -> "receive"
               [] op = "tryReceive" -> "tryReceive"
               [] OTHER -> "control"

Call(t) ==
    /\ pc[t] = "idle"
    /\ \E op \in AllOps, m \in Values :
        /\ \/ t \in Senders /\ op \in SendOps /\ m \in Messages
           \/ t \in Receivers /\ op \in ReceiveOps /\ m = Default
           \/ t \in Controllers /\ op \in ControlOps /\ m = Default
        /\ Moves(t, Entry(op), {})
        /\ call' = [call EXCEPT ![t] = [op |-> op, msg |-> m]]
    /\ result' = [result EXCEPT ![t] = Void]
    /\ UNCHANGED <<ring, canBeUsed, lock, slot>>

-----------------------------------------------------------------------------
\* reserve() and reservePriority(): a slot to write the message in.

\* Failing, reserve() gives back the lock it took; inside tryReserve() the
\* caller's own level of the lock remains.
NoSlot(t) ==
    IF call[t].op = "trySend" THEN Continue(t, "tryUnlock", {})
    ELSE Return(t, IF call[t].op = "send" THEN FALSE ELSE Void, {})

ReserveRefused(t) ==
    /\ pc[t] = "reserve" /\ InOneSection(t)
    /\ ~canBeUsed
    /\ NoSlot(t)
    /\ UNCHANGED <<ring, canBeUsed, slot>>

\* pthread_cond_wait gives up the level of the lock reserve() has just taken,
\* and no other.
ReserveBlocks(t) ==
    /\ pc[t] = "reserve" /\ InOneSection(t)
    /\ canBeUsed /\ IsFull
    /\ Continue(t, "notFull", {})
    /\ UNCHANGED <<ring, canBeUsed, slot>>

\* Fault: the signal is forgotten.
SignalNobody == {{}}

\* The senders' side of "not empty": only a first message wakes a receiver.
WokenByFirst == IF IsEmpty THEN Signalled(WaitNotEmpty) ELSE {{}}

ReserveTail(t) ==
    /\ tail' = Next_(tail)
    /\ slot' = [slot EXCEPT ![t] = Next_(tail)]
    /\ UNCHANGED head

ReserveHead(t) ==
    /\ head' = Prev_(head)
    /\ slot' = [slot EXCEPT ![t] = head]
    /\ UNCHANGED tail

\* Success returns with the lock held.
ReserveSlot(t) ==
    /\ pc[t] = "reserve" /\ CanLock(lock, t)
    /\ canBeUsed /\ ~IsFull
    /\ IF call[t].op = "sendPriority" THEN ReserveHead(t) ELSE ReserveTail(t)
    /\ lock' = Locked(lock, t)
    /\ \E woken \in WokenByFirst :
        Continue(t, IF call[t].op = "trySend" THEN "tryUnlock" ELSE "filling", woken)
    /\ UNCHANGED <<buffer, canBeUsed>>

\* tryReserve() tests for room under its own level of the lock.
TryReserve(t) ==
    /\ pc[t] = "tryReserve" /\ CanLock(lock, t)
    /\ IF IsFull THEN Return(t, FALSE, {}) /\ UNCHANGED lock
       ELSE Continue(t, "reserve", {}) /\ lock' = Locked(lock, t)
    /\ UNCHANGED <<ring, canBeUsed, slot>>

\* The end of tryReserve(): the lock stays held once if there is a slot.
TryReserveUnlock(t) ==
    /\ pc[t] = "tryUnlock" /\ call[t].op = "trySend"
    /\ lock' = Unlocked(lock)
    /\ IF slot[t] = NULL THEN Return(t, FALSE, {}) ELSE Continue(t, "filling", {})
    /\ UNCHANGED <<ring, canBeUsed, slot>>

\* send, trySend and sendPriority: write the message, then reserveConfirm().
Confirm(t) ==
    /\ pc[t] = "filling"
    /\ buffer' = [buffer EXCEPT ![slot[t]] = call[t].msg]
    /\ slot' = [slot EXCEPT ![t] = NULL]
    /\ lock' = Unlocked(lock)
    /\ Return(t, IF call[t].op = "sendPriority" THEN Void ELSE TRUE, {})
    /\ UNCHANGED <<head, tail, canBeUsed>>

-----------------------------------------------------------------------------
\* receive() and tryReceive().

\* receive() returns to its caller, which is tryReceive() for that method.
Received(t, v, woken) ==
    IF call[t].op = "receive" THEN Return(t, v, woken)
    ELSE /\ Moves(t, "tryUnlock", woken)
         /\ result' = [result EXCEPT ![t] = v]
         /\ UNCHANGED call

ReceiveRefused(t) ==
    /\ pc[t] = "receive" /\ InOneSection(t)
    /\ ~canBeUsed
    /\ \E v \in Uninit : Received(t, v, {})
    /\ UNCHANGED <<ring, canBeUsed, slot>>

ReceiveBlocks(t) ==
    /\ pc[t] = "receive" /\ InOneSection(t)
    /\ canBeUsed /\ IsEmpty
    /\ Continue(t, "notEmpty", {})
    /\ UNCHANGED <<ring, canBeUsed, slot>>

\* The receivers' side of "not full": only leaving a full queue wakes a sender.
WokenByRoom == IF IsFull THEN Signalled(WaitNotFull) ELSE {{}}

\* Fault: the message is read before head moves.
TakenTooEarly == buffer[head]

Taken == buffer[Next_(head)]

ReceiveTakes(t) ==
    /\ pc[t] = "receive" /\ InOneSection(t)
    /\ canBeUsed /\ ~IsEmpty
    /\ head' = Next_(head)
    /\ \E woken \in WokenByRoom : Received(t, Taken, woken)
    /\ UNCHANGED <<tail, buffer, canBeUsed, slot>>

TryReceive(t) ==
    /\ pc[t] = "tryReceive" /\ CanLock(lock, t)
    /\ IF Count_ = 0 THEN Return(t, FALSE, {}) /\ UNCHANGED lock
       ELSE Continue(t, "receive", {}) /\ lock' = Locked(lock, t)
    /\ UNCHANGED <<ring, canBeUsed, slot>>

\* tryReceive() says true whatever receive() gave it.
TryReceiveUnlock(t) ==
    /\ pc[t] = "tryUnlock" /\ call[t].op = "tryReceive"
    /\ lock' = Unlocked(lock)
    /\ Return(t, result[t], {})
    /\ UNCHANGED <<ring, canBeUsed, slot>>

-----------------------------------------------------------------------------
\* The methods that hold _lock from beginning to end.

Control(t, op) == pc[t] = "control" /\ call[t].op = op /\ InOneSection(t)

Clear(t) ==
    /\ Control(t, "clear")
    /\ head' = tail
    /\ \E woken \in WokenByRoom : Return(t, Void, woken)
    /\ UNCHANGED <<tail, buffer, canBeUsed, slot>>

\* A full queue may make room for a sender, an empty one gets its message.
ClearExcept(t) ==
    /\ Control(t, "clearExcept")
    /\ buffer' = [buffer EXCEPT ![tail] = call[t].msg]
    /\ head' = Prev_(tail)
    /\ \E woken \in IF IsFull THEN WokenByRoom ELSE WokenByFirst :
        Return(t, Void, woken)
    /\ UNCHANGED <<tail, canBeUsed, slot>>

\* canBeUsed(b) wakes nobody.
SetCanBeUsed(t) ==
    /\ \/ Control(t, "stopUse") /\ canBeUsed' = FALSE
       \/ Control(t, "startUse") /\ canBeUsed' = TRUE
    /\ Return(t, Void, {})
    /\ UNCHANGED <<ring, slot>>

WeakUpSender(t) ==
    /\ Control(t, "weakUpSender")
    /\ \E woken \in Broadcast(WaitNotFull) : Return(t, Void, woken)
    /\ UNCHANGED <<ring, canBeUsed, slot>>

WeakUpReceiver(t) ==
    /\ Control(t, "weakUpReceiver")
    /\ \E woken \in Broadcast(WaitNotEmpty) : Return(t, Void, woken)
    /\ UNCHANGED <<ring, canBeUsed, slot>>

\* canBeUsed() and count() change nothing; the number is left out.
Observe(t) ==
    /\ \/ Control(t, "canBeUsed") /\ Return(t, canBeUsed, {})
       \/ Control(t, "count") /\ Return(t, Void, {})
    /\ UNCHANGED <<ring, canBeUsed, slot>>

-----------------------------------------------------------------------------
\* A condition wait may return without a signal.
SpuriousWake(t) ==
    /\ pc[t] \in {"notFull", "notEmpty"}
    /\ pc' = [pc EXCEPT ![t] = Retry(t)]
    /\ UNCHANGED <<ring, canBeUsed, lock, call, slot, result>>

SendStep(t) ==
    \/ ReserveRefused(t) \/ ReserveBlocks(t) \/ ReserveSlot(t)
    \/ TryReserve(t) \/ TryReserveUnlock(t) \/ Confirm(t)

ReceiveStep(t) ==
    \/ ReceiveRefused(t) \/ ReceiveBlocks(t) \/ ReceiveTakes(t)
    \/ TryReceive(t) \/ TryReceiveUnlock(t)

ControlStep(t) ==
    \/ Clear(t) \/ ClearExcept(t) \/ SetCanBeUsed(t)
    \/ WeakUpSender(t) \/ WeakUpReceiver(t) \/ Observe(t)

\* A thread inside a method.
Step(t) == SendStep(t) \/ ReceiveStep(t) \/ ControlStep(t)

Next == \E t \in Threads : Call(t) \/ Step(t) \/ SpuriousWake(t)

Spec == Init /\ [][Next]_vars

(***************************************************************************)
(* A thread inside a method that can go on eventually does.  Nothing is    *)
(* assumed of the callers, nor of the scheduler when threads compete for   *)
(* the lock (a pthread mutex is not fair), nor of spurious wake-ups.       *)
(***************************************************************************)
FairSpec == Spec /\ \A t \in Threads : WF_vars(Step(t))

-----------------------------------------------------------------------------
(***************************************************************************)
(* Properties.                                                             *)
(***************************************************************************)

\* The consumers are never all asleep while there is a message: reserve()
\* signals _not_empty for a first message only (mq.h:78-80), and that is
\* enough because whoever was signalled is then awake.  With one consumer it
\* says that the consumer sleeps only while the queue is empty.
ReceiversAsleepOnlyIfEmpty ==
    (\A t \in Receivers : pc[t] = "notEmpty") => IsEmpty

\* The producers are never all asleep while there is room: receive(), clear()
\* and clearExcept() signal _not_full when they leave a full queue.
SendersAsleepOnlyIfFull ==
    (\A t \in Senders : pc[t] = "notFull") => IsFull

\* A thread blocked on a condition does not hold _lock.  The lock is
\* recursive and a condition wait gives up one level of it, so tryReserve()
\* and tryReceive() must test before they call the blocking method.
BlockedWithoutLock ==
    \A t \in Threads : pc[t] \in {"notFull", "notEmpty"} => lock.owner # t

\* Between reserve() and reserveConfirm() the slot given to the caller stays
\* the last one of the queue (the first one, for a priority message), whatever
\* the other threads do: nobody receives, moves or clears it meanwhile.
SlotIsAtTheEnd(t) ==
    slot[t] # NULL =>
        /\ lock.owner = t
        /\ slot[t] = IF call[t].op = "sendPriority" THEN Next_(head) ELSE tail
        /\ ~IsEmpty
ReservedSlotIsMine == \A t \in Threads : SlotIsAtTheEnd(t)

\* _lock is held between two steps only by a thread that is between reserve()
\* and reserveConfirm(), or inside tryReserve() or tryReceive(): no path of
\* any method returns without its unlock, or unlocks once too often.
HoldsLockInMethod(t) ==
    /\ pc[t] \in {"filling", "tryUnlock"} => lock.owner = t
    /\ lock.owner = t =>
        /\ pc[t] \in {"reserve", "filling", "tryUnlock", "receive"}
        /\ lock.depth = IF pc[t] = "tryUnlock" /\ slot[t] # NULL THEN 2 ELSE 1
        /\ pc[t] = "reserve" => call[t].op = "trySend"
        /\ pc[t] = "receive" => call[t].op = "tryReceive"
LockHeldByItsUser ==
    /\ lock.owner = NoThread <=> lock.depth = 0
    /\ \A t \in Threads : HoldsLockInMethod(t)

\* What the queue holds: the slots after head up to tail, without the one
\* that is reserved and not yet written.
Place(i) == IF head + i <= MaxSize THEN head + i ELSE head + i - MaxSize - 1
Ring == [i \in 1 .. Count_ |-> buffer[Place(i)]]
Reserved(ops) == \E t \in Threads : slot[t] # NULL /\ call[t].op \in ops
Queue == SubSeq(Ring, IF Reserved({"sendPriority"}) THEN 2 ELSE 1,
                Count_ - IF Reserved({"send", "trySend"}) THEN 1 ELSE 0)

\* MQ implements the message queue its comments describe: a message takes its
\* place at reserveConfirm(), in order, exactly once, and leaves by receive(),
\* clear() or clearExcept() only.
Abstract == INSTANCE MessageQueue WITH queue <- Queue, usable <- canBeUsed
Implements == Abstract!Spec

(***************************************************************************)
(* mq.h:172 says that a receiver waits when the buffer is empty.  It may   *)
(* go on waiting when it is not: only the first message of an empty queue  *)
(* is signalled, so of two waiting receivers the second is not woken for   *)
(* the second message.                                                     *)
(***************************************************************************)
ReceiverWaitsOnlyWhileEmpty ==
    \A t \in Receivers :
        (pc[t] = "notEmpty" /\ ~IsEmpty) ~> (pc[t] # "notEmpty" \/ IsEmpty)
=============================================================================
