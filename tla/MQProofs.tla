------------------------------ MODULE MQProofs ------------------------------
(***************************************************************************)
(* Proofs about MQ, for any number of threads, any capacity and any set of *)
(* messages: what is true of the queue; that MQ implements MessageQueue,   *)
(* every step of MQ being a step of the abstract queue or leaving it       *)
(* unchanged; and what is true of callers that turn the queue off.         *)
(***************************************************************************)
EXTENDS MQShutdown, SequenceTheorems, TLAPS

\* Where a thread is in a method agrees with the method and with its role.
RoleAgrees(t) ==
    /\ pc[t] = "tryReserve" => call[t].op = "trySend"
    /\ pc[t] \in {"reserve", "filling"} => call[t].op \in AllSendOps
    /\ pc[t] = "notFull" => call[t].op \in {"send", "sendPriority"}
    /\ pc[t] = "tryReceive" => call[t].op = "tryReceive"
    /\ pc[t] = "receive" => call[t].op \in AllReceiveOps
    /\ pc[t] = "notEmpty" => call[t].op = "receive"
    /\ pc[t] = "tryUnlock" => call[t].op \in {"trySend", "tryReceive"}
    /\ call[t].op \in AllSendOps => t \in Senders
    /\ call[t].op \in AllReceiveOps => t \in Receivers
RolesAgree == \A t \in Threads : RoleAgrees(t)

\* The test of tryReserve() and of tryReceive() is still true when they call
\* the blocking method, because they have kept the lock.
TestHolds(t) ==
    /\ pc[t] = "reserve" /\ call[t].op = "trySend" => lock.owner = t /\ ~IsFull
    /\ pc[t] = "receive" /\ call[t].op = "tryReceive" => lock.owner = t /\ ~IsEmpty
TestStillHolds == \A t \in Threads : TestHolds(t)

WritesSlot(t) ==
    /\ pc[t] = "filling" => slot[t] # NULL
    /\ slot[t] # NULL => pc[t] \in {"filling", "tryUnlock"} /\ call[t].op \in AllSendOps
SlotIsWritten == \A t \in Threads : WritesSlot(t)

LockInv ==
    /\ TypeOK
    /\ RolesAgree
    /\ TestStillHolds
    /\ SlotIsWritten
    /\ LockHeldByItsUser
    /\ ReservedSlotIsMine

\* Signalling some of the waiters changes the labels of waiters only.
LEMMA MovesLabels ==
    ASSUME NEW t \in Threads, NEW label, NEW woken, Moves(t, label, woken)
    PROVE  /\ pc'[t] = label
           /\ \A u \in Threads \ {t} :
                \/ pc'[u] = pc[u]
                \/ pc[u] = "notFull" /\ pc'[u] = "reserve"
                \/ pc[u] = "notEmpty" /\ pc'[u] = "receive"
           /\ pc' = [u \in Threads |-> pc'[u]]
  BY DEF Moves, Retry

LEMMA MovesType ==
    ASSUME TypeOK, NEW t \in Threads, NEW label \in Labels, NEW woken,
           Moves(t, label, woken)
    PROVE  pc' \in [Threads -> Labels]
  BY DEF Moves, Retry, TypeOK, Labels

LEMMA SlotsStayInside ==
    ASSUME NEW p \in Slots
    PROVE  Next_(p) \in Slots /\ Prev_(p) \in Slots
  BY MQAssumption DEF Slots, Next_, Prev_

USE DEF NULL

-----------------------------------------------------------------------------
\* Type correctness.

LEMMA TypeInit == Init => TypeOK
  BY MQAssumption DEF Init, TypeOK, Slots, Values, Labels, Free, NoCall

LEMMA TypeCall ==
    ASSUME TypeOK, NEW t \in Threads, Call(t) PROVE TypeOK'
  <1>1. PICK op \in AllOps, m \in Values :
            /\ Moves(t, Entry(op), {})
            /\ call' = [call EXCEPT ![t] = [op |-> op, msg |-> m]]
    BY DEF Call
  <1>2. Entry(op) \in Labels
    BY DEF Entry, Labels
  <1>3. pc' \in [Threads -> Labels]
    BY <1>1, <1>2, MovesType
  <1>. QED
    BY <1>1, <1>3 DEF Call, TypeOK, ring

LEMMA TypeReturn ==
    ASSUME TypeOK, NEW t \in Threads, NEW v \in Values \cup BOOLEAN \cup {Void},
           NEW woken, Return(t, v, woken)
    PROVE  /\ pc' \in [Threads -> Labels]
           /\ call' \in [Threads -> [op : AllOps \cup {"none"}, msg : Values]]
           /\ result' \in [Threads -> Values \cup BOOLEAN \cup {Void}]
  <1>1. "idle" \in Labels
    BY DEF Labels
  <1>2. pc' \in [Threads -> Labels]
    BY <1>1, MovesType DEF Return
  <1>3. NoCall \in [op : AllOps \cup {"none"}, msg : Values]
    BY DEF NoCall, Values
  <1>. QED
    BY <1>2, <1>3 DEF Return, TypeOK

LEMMA TypeContinue ==
    ASSUME TypeOK, NEW t \in Threads, NEW label \in Labels, NEW woken,
           Continue(t, label, woken)
    PROVE  /\ pc' \in [Threads -> Labels]
           /\ call' \in [Threads -> [op : AllOps \cup {"none"}, msg : Values]]
           /\ result' \in [Threads -> Values \cup BOOLEAN \cup {Void}]
  BY MovesType DEF Continue, TypeOK

LEMMA TypeLock ==
    ASSUME TypeOK, NEW t \in Threads
    PROVE  /\ Locked(lock, t) \in [owner : Threads \cup {NoThread}, depth : Nat]
           /\ Unlocked(lock) \in [owner : Threads \cup {NoThread}, depth : Nat]
  BY DEF TypeOK, Locked, Unlocked, Free

LEMMA TypeSend ==
    ASSUME TypeOK, NEW t \in Threads, SendStep(t) PROVE TypeOK'
  <1>. /\ "tryUnlock" \in Labels /\ "filling" \in Labels /\ "notFull" \in Labels
       /\ "reserve" \in Labels
    BY DEF Labels
  <1>. /\ FALSE \in Values \cup BOOLEAN \cup {Void}
       /\ TRUE \in Values \cup BOOLEAN \cup {Void}
       /\ Void \in Values \cup BOOLEAN \cup {Void}
    OBVIOUS
  <1>1. CASE ReserveRefused(t)
    BY <1>1, TypeReturn, TypeContinue DEF ReserveRefused, NoSlot, InOneSection, TypeOK, ring
  <1>2. CASE ReserveBlocks(t)
    BY <1>2, TypeContinue DEF ReserveBlocks, InOneSection, TypeOK, ring
  <1>3. CASE ReserveSlot(t)
    <2>1. head' \in Slots /\ tail' \in Slots /\ slot' \in [Threads -> Slots \cup {NULL}]
      BY <1>3, SlotsStayInside DEF ReserveSlot, ReserveHead, ReserveTail, TypeOK
    <2>2. PICK woken \in WokenByFirst :
            Continue(t, IF call[t].op = "trySend" THEN "tryUnlock" ELSE "filling", woken)
      BY <1>3 DEF ReserveSlot
    <2>3. pc' \in [Threads -> Labels]
          /\ call' \in [Threads -> [op : AllOps \cup {"none"}, msg : Values]]
          /\ result' \in [Threads -> Values \cup BOOLEAN \cup {Void}]
      BY <2>2, TypeContinue
    <2>. QED
      BY <1>3, <2>1, <2>3, TypeLock DEF ReserveSlot, TypeOK
  <1>4. CASE TryReserve(t)
    BY <1>4, TypeReturn, TypeContinue, TypeLock DEF TryReserve, TypeOK, ring
  <1>5. CASE TryReserveUnlock(t)
    BY <1>5, TypeReturn, TypeContinue, TypeLock DEF TryReserveUnlock, TypeOK, ring
  <1>6. CASE Confirm(t)
    <2>1. call[t].msg \in Values
      BY DEF TypeOK
    <2>2. buffer' \in [Slots -> Values] /\ slot' \in [Threads -> Slots \cup {NULL}]
      BY <1>6, <2>1 DEF Confirm, TypeOK
    <2>3. pc' \in [Threads -> Labels]
          /\ call' \in [Threads -> [op : AllOps \cup {"none"}, msg : Values]]
          /\ result' \in [Threads -> Values \cup BOOLEAN \cup {Void}]
      BY <1>6, TypeReturn DEF Confirm
    <2>. QED
      BY <1>6, <2>2, <2>3, TypeLock DEF Confirm, TypeOK
  <1>. QED
    BY <1>1, <1>2, <1>3, <1>4, <1>5, <1>6 DEF SendStep

LEMMA TypeReceive ==
    ASSUME TypeOK, NEW t \in Threads, ReceiveStep(t) PROVE TypeOK'
  <1>. /\ "tryUnlock" \in Labels /\ "notEmpty" \in Labels /\ "receive" \in Labels
    BY DEF Labels
  <1>0. ASSUME NEW v \in Values, NEW woken, Received(t, v, woken)
        PROVE  /\ pc' \in [Threads -> Labels]
               /\ call' \in [Threads -> [op : AllOps \cup {"none"}, msg : Values]]
               /\ result' \in [Threads -> Values \cup BOOLEAN \cup {Void}]
    <2>1. CASE Return(t, v, woken)
      BY <2>1, TypeReturn
    <2>2. CASE ~Return(t, v, woken)
      BY <1>0, <2>2, MovesType DEF Received, TypeOK
    <2>. QED
      BY <2>1, <2>2
  <1>1. CASE ReceiveRefused(t)
    BY <1>0, <1>1, MQAssumption DEF ReceiveRefused, InOneSection, TypeOK, ring
  <1>2. CASE ReceiveBlocks(t)
    BY <1>2, TypeContinue DEF ReceiveBlocks, InOneSection, TypeOK, ring
  <1>3. CASE ReceiveTakes(t)
    <2>1. head' \in Slots /\ Taken \in Values
      BY <1>3, SlotsStayInside DEF ReceiveTakes, Taken, TypeOK
    <2>. QED
      BY <1>0, <1>3, <2>1 DEF ReceiveTakes, InOneSection, TypeOK
  <1>4. CASE TryReceive(t)
    BY <1>4, TypeReturn, TypeContinue, TypeLock DEF TryReceive, TypeOK, ring
  <1>5. CASE TryReceiveUnlock(t)
    <2>1. result[t] \in Values \cup BOOLEAN \cup {Void}
      BY DEF TypeOK
    <2>2. pc' \in [Threads -> Labels]
          /\ call' \in [Threads -> [op : AllOps \cup {"none"}, msg : Values]]
          /\ result' \in [Threads -> Values \cup BOOLEAN \cup {Void}]
      BY <1>5, <2>1, TypeReturn DEF TryReceiveUnlock
    <2>. QED
      BY <1>5, <2>2, TypeLock DEF TryReceiveUnlock, TypeOK, ring
  <1>. QED
    BY <1>1, <1>2, <1>3, <1>4, <1>5 DEF ReceiveStep

LEMMA TypeControl ==
    ASSUME TypeOK, NEW t \in Threads, ControlStep(t) PROVE TypeOK'
  <1>0. ASSUME NEW v \in BOOLEAN \cup {Void}, NEW woken, Return(t, v, woken)
        PROVE  /\ pc' \in [Threads -> Labels]
               /\ call' \in [Threads -> [op : AllOps \cup {"none"}, msg : Values]]
               /\ result' \in [Threads -> Values \cup BOOLEAN \cup {Void}]
    BY <1>0, TypeReturn
  <1>1. CASE Clear(t)
    BY <1>0, <1>1 DEF Clear, Control, InOneSection, TypeOK
  <1>2. CASE ClearExcept(t)
    <2>1. head' \in Slots /\ buffer' \in [Slots -> Values]
      BY <1>2, SlotsStayInside DEF ClearExcept, TypeOK
    <2>. QED
      BY <1>0, <1>2, <2>1 DEF ClearExcept, Control, InOneSection, TypeOK
  <1>3. CASE SetCanBeUsed(t)
    BY <1>0, <1>3 DEF SetCanBeUsed, Control, InOneSection, TypeOK, ring
  <1>4. CASE WeakUpSender(t)
    BY <1>0, <1>4 DEF WeakUpSender, Control, InOneSection, TypeOK, ring
  <1>5. CASE WeakUpReceiver(t)
    BY <1>0, <1>5 DEF WeakUpReceiver, Control, InOneSection, TypeOK, ring
  <1>6. CASE Observe(t)
    <2>1. canBeUsed \in BOOLEAN \cup {Void}
      BY DEF TypeOK
    <2>. QED
      BY <1>0, <1>6, <2>1 DEF Observe, Control, InOneSection, TypeOK, ring
  <1>. QED
    BY <1>1, <1>2, <1>3, <1>4, <1>5, <1>6 DEF ControlStep

LEMMA TypeNext == TypeOK /\ [Next]_vars => TypeOK'
  <1>. SUFFICES ASSUME TypeOK, [Next]_vars PROVE TypeOK'
    OBVIOUS
  <1>1. CASE UNCHANGED vars
    BY <1>1 DEF vars, TypeOK
  <1>2. ASSUME NEW t \in Threads, SpuriousWake(t) PROVE TypeOK'
    BY <1>2 DEF SpuriousWake, Retry, TypeOK, Labels, ring
  <1>. QED
    BY <1>1, <1>2, TypeCall, TypeSend, TypeReceive, TypeControl DEF Next, Step

\* The state of a queue has its type in every reachable state: the indices stay
\* inside the array, whatever its size.
THEOREM TypeCorrect == Spec => []TypeOK
  BY TypeInit, TypeNext, PTL DEF Spec

-----------------------------------------------------------------------------
\* The lock.  Each lemma is about the steps of one part of the interface.

LEMMA LockInit == Init => LockInv
  <1>. SUFFICES ASSUME Init PROVE LockInv
    OBVIOUS
  <1>1. lock.owner = NoThread /\ lock.depth = 0 /\ \A t \in Threads : lock.owner # t
    BY MQAssumption DEF Init, Free
  <1>2. \A t \in Threads : pc[t] = "idle" /\ slot[t] = NULL /\ call[t].op = "none"
    BY DEF Init, NoCall
  <1>3. RolesAgree
    BY <1>2 DEF RolesAgree, RoleAgrees, AllSendOps, AllReceiveOps
  <1>4. TestStillHolds /\ SlotIsWritten /\ LockHeldByItsUser /\ ReservedSlotIsMine
    BY <1>1, <1>2
    DEF TestStillHolds, SlotIsWritten, LockHeldByItsUser, ReservedSlotIsMine,
        TestHolds, WritesSlot, HoldsLockInMethod, SlotIsAtTheEnd
  <1>. QED
    BY <1>3, <1>4, TypeInit DEF LockInv

LEMMA NextPrev ==
    ASSUME NEW h \in Slots
    PROVE  /\ Next_(h) # h /\ Prev_(h) # h
           /\ Next_(Prev_(h)) = h /\ Prev_(Next_(h)) = h
  BY MQAssumption DEF Slots, Next_, Prev_

\* The part of the invariant that is about one thread.
LockInvAt(t) ==
    RoleAgrees(t) /\ TestHolds(t) /\ WritesSlot(t) /\ HoldsLockInMethod(t)
    /\ SlotIsAtTheEnd(t)

LEMMA LockInvByThread ==
    LockInv <=> /\ TypeOK
                /\ lock.owner = NoThread <=> lock.depth = 0
                /\ \A t \in Threads : LockInvAt(t)
  BY DEF LockInv, LockInvAt, RolesAgree, TestStillHolds, SlotIsWritten,
         LockHeldByItsUser, ReservedSlotIsMine

\* A step of a thread that holds _lock, or takes it, does not disturb what the
\* invariant says of the other threads, even if it wakes some of them.
LEMMA OthersKeep ==
    ASSUME LockInv, NEW t \in Threads,
           lock.owner \in {NoThread, t}, lock'.owner \in {NoThread, t},
           NEW u \in Threads \ {t},
           \/ pc'[u] = pc[u]
           \/ pc[u] = "notFull" /\ pc'[u] = "reserve"
           \/ pc[u] = "notEmpty" /\ pc'[u] = "receive",
           call'[u] = call[u], slot'[u] = slot[u]
    PROVE  LockInvAt(u)'
  <1>1. LockInvAt(u) /\ u \in Threads /\ u # t /\ u # NoThread
    BY MQAssumption, LockInvByThread
  <1>2. lock.owner # u /\ lock'.owner # u
    BY <1>1
  <1>3. RoleAgrees(u)'
    BY <1>1 DEF LockInvAt, RoleAgrees, AllSendOps, AllReceiveOps
  <1>4. TestHolds(u)'
    BY <1>1, <1>2 DEF LockInvAt, RoleAgrees, TestHolds
  <1>5. pc[u] \notin {"filling", "tryUnlock"} /\ slot[u] = NULL
    BY <1>1, <1>2 DEF LockInvAt, HoldsLockInMethod, SlotIsAtTheEnd
  <1>6. WritesSlot(u)' /\ HoldsLockInMethod(u)' /\ SlotIsAtTheEnd(u)'
    BY <1>2, <1>5 DEF WritesSlot, HoldsLockInMethod, SlotIsAtTheEnd
  <1>. QED
    BY <1>3, <1>4, <1>6 DEF LockInvAt

\* What a step of thread t has to establish: the lock, and its own part.
LEMMA LockStep ==
    ASSUME LockInv, TypeOK', NEW t \in Threads,
           lock.owner \in {NoThread, t}, lock'.owner \in {NoThread, t},
           lock'.owner = NoThread <=> lock'.depth = 0,
           NEW label, NEW woken, Moves(t, label, woken),
           \A u \in Threads \ {t} : call'[u] = call[u] /\ slot'[u] = slot[u],
           LockInvAt(t)'
    PROVE  LockInv'
  <1>1. ASSUME NEW u \in Threads \ {t} PROVE LockInvAt(u)'
    BY <1>1, OthersKeep, MovesLabels
  <1>2. (\A u \in Threads : LockInvAt(u))'
    BY <1>1
  <1>. QED
    BY <1>2 DEF LockInv, LockInvAt, RolesAgree, TestStillHolds, SlotIsWritten,
                LockHeldByItsUser, ReservedSlotIsMine

LEMMA LockCall ==
    ASSUME LockInv, NEW t \in Threads, Call(t) PROVE LockInv'
  <1>. /\ TypeOK /\ TypeOK' /\ LockInvAt(t) /\ t # NoThread
       /\ lock.owner = NoThread <=> lock.depth = 0
    BY TypeCall, LockInvByThread, MQAssumption
  <1>1. PICK op \in AllOps, m \in Values :
            /\ \/ t \in Senders /\ op \in SendOps /\ m \in Messages
               \/ t \in Receivers /\ op \in ReceiveOps /\ m = Default
               \/ t \in Controllers /\ op \in ControlOps /\ m = Default
            /\ Moves(t, Entry(op), {})
            /\ call' = [call EXCEPT ![t] = [op |-> op, msg |-> m]]
    BY DEF Call
  <1>2. /\ pc'[t] = Entry(op) /\ pc[t] = "idle"
        /\ call'[t].op = op
        /\ \A u \in Threads \ {t} : pc'[u] = pc[u] /\ call'[u] = call[u]
    BY <1>1 DEF Moves, Call, TypeOK
  <1>3. /\ UNCHANGED <<head, tail, buffer, lock, slot>>
        /\ lock.owner # t /\ slot[t] = NULL
    BY <1>2 DEF Call, ring, LockInvAt, HoldsLockInMethod, WritesSlot
  <1>4. /\ op \in AllSendOps => t \in Senders
        /\ op \in AllReceiveOps => t \in Receivers
    BY <1>1, MQAssumption DEF AllSendOps, AllReceiveOps, AllControlOps
  <1>5. /\ Entry(op) = "tryReserve" => op = "trySend"
        /\ Entry(op) = "reserve" => op \in {"send", "sendPriority"}
        /\ Entry(op) = "tryReceive" => op = "tryReceive"
        /\ Entry(op) = "receive" => op = "receive"
        /\ Entry(op) \in {"tryReserve", "reserve", "tryReceive", "receive", "control"}
    BY DEF Entry
  <1>6. RoleAgrees(t)'
    BY <1>2, <1>4, <1>5 DEF RoleAgrees, AllSendOps, AllReceiveOps
  <1>7. TestHolds(t)' /\ WritesSlot(t)' /\ HoldsLockInMethod(t)' /\ SlotIsAtTheEnd(t)'
    BY <1>2, <1>3, <1>5 DEF TestHolds, WritesSlot, HoldsLockInMethod, SlotIsAtTheEnd
  <1>8. LockInvAt(t)'
    BY <1>6, <1>7 DEF LockInvAt
  <1>9. ASSUME NEW u \in Threads PROVE LockInvAt(u)'
    BY <1>2, <1>3, <1>8, LockInvByThread
    DEF LockInvAt, RoleAgrees, TestHolds, WritesSlot, HoldsLockInMethod, SlotIsAtTheEnd,
        IsFull, IsEmpty
  <1>. QED
    BY <1>3, <1>9 DEF LockInv, LockInvAt, RolesAgree, TestStillHolds, SlotIsWritten,
                      LockHeldByItsUser, ReservedSlotIsMine

LEMMA LockSend ==
    ASSUME LockInv, NEW t \in Threads, SendStep(t) PROVE LockInv'
  <1>. /\ TypeOK /\ TypeOK' /\ LockInvAt(t) /\ t # NoThread
       /\ lock.owner = NoThread <=> lock.depth = 0
    BY TypeSend, LockInvByThread, MQAssumption DEF LockInv
  <1>1. CASE ReserveRefused(t)
    <2>1. CASE call[t].op = "trySend"
      <3>1. Moves(t, "tryUnlock", {}) /\ UNCHANGED <<call, slot, lock, head, tail>>
        BY <1>1, <2>1 DEF ReserveRefused, NoSlot, Continue, InOneSection, ring
      <3>2. lock.owner = t /\ pc[t] = "reserve" /\ pc'[t] = "tryUnlock"
        BY <1>1, <2>1, <3>1, MovesLabels DEF ReserveRefused, LockInvAt, TestHolds
      <3>3. LockInvAt(t)'
        BY <2>1, <3>1, <3>2
        DEF LockInvAt, RoleAgrees, TestHolds, WritesSlot, HoldsLockInMethod,
            SlotIsAtTheEnd, AllSendOps, AllReceiveOps
      <3>. QED
        BY <3>1, <3>2, <3>3, LockStep
    <2>2. CASE call[t].op # "trySend"
      <3>1. /\ Moves(t, "idle", {}) /\ UNCHANGED <<slot, lock, head, tail>>
            /\ call' = [call EXCEPT ![t] = NoCall] /\ pc[t] = "reserve"
            /\ lock.owner \in {NoThread, t}
        BY <1>1, <2>2 DEF ReserveRefused, NoSlot, Return, InOneSection, CanLock, ring
      <3>2. /\ pc'[t] = "idle" /\ call'[t].op = "none" /\ lock.owner # t
            /\ \A u \in Threads \ {t} : call'[u] = call[u]
        BY <2>2, <3>1, MovesLabels DEF LockInvAt, HoldsLockInMethod, NoCall, TypeOK
      <3>3. LockInvAt(t)'
        BY <3>1, <3>2
        DEF LockInvAt, RoleAgrees, TestHolds, WritesSlot, HoldsLockInMethod,
            SlotIsAtTheEnd, AllSendOps, AllReceiveOps
      <3>. QED
        BY <3>1, <3>2, <3>3, LockStep
    <2>. QED
      BY <2>1, <2>2
  <1>2. CASE ReserveBlocks(t)
    <2>1. /\ Moves(t, "notFull", {}) /\ UNCHANGED <<call, slot, lock, head, tail>>
          /\ pc[t] = "reserve" /\ lock.owner \in {NoThread, t} /\ IsFull
      BY <1>2 DEF ReserveBlocks, Continue, InOneSection, CanLock, ring
    <2>2. pc'[t] = "notFull" /\ lock.owner # t /\ call[t].op \in {"send", "sendPriority"}
      BY <2>1, MovesLabels
      DEF LockInvAt, TestHolds, HoldsLockInMethod, RoleAgrees, AllSendOps
    <2>3. LockInvAt(t)'
      BY <2>1, <2>2
      DEF LockInvAt, RoleAgrees, TestHolds, WritesSlot, HoldsLockInMethod,
          SlotIsAtTheEnd, AllSendOps, AllReceiveOps
    <2>. QED
      BY <2>1, <2>2, <2>3, LockStep
  <1>3. CASE ReserveSlot(t)
    <2>. DEFINE label == IF call[t].op = "trySend" THEN "tryUnlock" ELSE "filling"
    <2>1. PICK woken \in WokenByFirst : Moves(t, label, woken) /\ UNCHANGED call
      BY <1>3 DEF ReserveSlot, Continue
    <2>2. /\ pc[t] = "reserve" /\ pc'[t] = label /\ call[t].op \in AllSendOps
          /\ lock' = Locked(lock, t) /\ lock.owner \in {NoThread, t}
      BY <1>3, <2>1, MovesLabels DEF ReserveSlot, CanLock, LockInvAt, RoleAgrees
    <2>3. /\ head \in Slots /\ tail \in Slots /\ Prev_(head) # tail
          /\ \/ /\ call[t].op = "sendPriority" /\ head' = Prev_(head) /\ tail' = tail
                /\ slot' = [slot EXCEPT ![t] = head]
             \/ /\ call[t].op # "sendPriority" /\ tail' = Next_(tail) /\ head' = head
                /\ slot' = [slot EXCEPT ![t] = Next_(tail)]
      BY <1>3 DEF ReserveSlot, ReserveHead, ReserveTail, IsFull, TypeOK
    <2>4. /\ slot'[t] # NULL
          /\ slot'[t] = IF call[t].op = "sendPriority" THEN Next_(head') ELSE tail'
          /\ \A u \in Threads \ {t} : slot'[u] = slot[u]
          /\ head' # tail'
      <3>1. Next_(Prev_(head)) = head /\ Prev_(Next_(tail)) = tail
        BY <2>3, NextPrev
      <3>2. head # NULL /\ Next_(tail) # NULL
        BY <2>3, SlotsStayInside DEF Slots
      <3>. QED
        BY <2>3, <3>1, <3>2 DEF TypeOK
    <2>5. /\ lock'.owner = t /\ lock'.depth = IF label = "tryUnlock" THEN 2 ELSE 1
      BY <2>2 DEF LockInvAt, TestHolds, HoldsLockInMethod, Locked, TypeOK
    <2>6. LockInvAt(t)'
      BY <2>1, <2>2, <2>4, <2>5
      DEF LockInvAt, RoleAgrees, TestHolds, WritesSlot, HoldsLockInMethod,
          SlotIsAtTheEnd, AllSendOps, AllReceiveOps, IsEmpty, Next_
    <2>. QED
      BY <2>1, <2>2, <2>4, <2>5, <2>6, LockStep
  <1>4. CASE TryReserve(t)
    <2>1. /\ pc[t] = "tryReserve" /\ lock.owner \in {NoThread, t} /\ lock.owner # t
          /\ slot[t] = NULL /\ UNCHANGED <<head, tail, slot>> /\ call[t].op = "trySend"
      BY <1>4
      DEF TryReserve, CanLock, LockInvAt, HoldsLockInMethod, WritesSlot, RoleAgrees, ring
    <2>2. CASE IsFull
      <3>1. /\ Moves(t, "idle", {}) /\ UNCHANGED lock
            /\ call' = [call EXCEPT ![t] = NoCall]
        BY <1>4, <2>2 DEF TryReserve, Return
      <3>2. /\ pc'[t] = "idle" /\ call'[t].op = "none"
            /\ \A u \in Threads \ {t} : call'[u] = call[u]
        BY <3>1, MovesLabels DEF NoCall, TypeOK
      <3>3. LockInvAt(t)'
        BY <2>1, <3>1, <3>2
        DEF LockInvAt, RoleAgrees, TestHolds, WritesSlot, HoldsLockInMethod,
            SlotIsAtTheEnd, AllSendOps, AllReceiveOps
      <3>. QED
        BY <2>1, <3>1, <3>2, <3>3, LockStep
    <2>3. CASE ~IsFull
      <3>1. /\ Moves(t, "reserve", {}) /\ lock' = Locked(lock, t) /\ UNCHANGED call
        BY <1>4, <2>3 DEF TryReserve, Continue
      <3>2. pc'[t] = "reserve" /\ lock'.owner = t /\ lock'.depth = 1 /\ ~IsFull'
        BY <2>1, <2>3, <3>1, MovesLabels DEF Locked, IsFull, Prev_
      <3>3. LockInvAt(t)'
        BY <2>1, <3>1, <3>2
        DEF LockInvAt, RoleAgrees, TestHolds, WritesSlot, HoldsLockInMethod,
            SlotIsAtTheEnd, AllSendOps, AllReceiveOps
      <3>. QED
        BY <2>1, <3>1, <3>2, <3>3, LockStep
    <2>. QED
      BY <2>2, <2>3
  <1>5. CASE TryReserveUnlock(t)
    <2>1. /\ pc[t] = "tryUnlock" /\ lock.owner = t /\ UNCHANGED <<head, tail, slot>>
          /\ call[t].op = "trySend" /\ lock' = Unlocked(lock)
          /\ lock.depth = IF slot[t] # NULL THEN 2 ELSE 1
      BY <1>5 DEF TryReserveUnlock, LockInvAt, HoldsLockInMethod, ring
    <2>2. CASE slot[t] = NULL
      <3>1. /\ Moves(t, "idle", {}) /\ call' = [call EXCEPT ![t] = NoCall]
        BY <1>5, <2>2 DEF TryReserveUnlock, Return
      <3>2. /\ pc'[t] = "idle" /\ call'[t].op = "none" /\ lock' = Free
            /\ lock'.owner = NoThread /\ lock'.depth = 0
            /\ \A u \in Threads \ {t} : call'[u] = call[u]
        BY <2>1, <2>2, <3>1, MovesLabels DEF NoCall, TypeOK, Unlocked, Free
      <3>3. LockInvAt(t)'
        BY <2>1, <2>2, <3>2
        DEF LockInvAt, RoleAgrees, TestHolds, WritesSlot, HoldsLockInMethod,
            SlotIsAtTheEnd, AllSendOps, AllReceiveOps
      <3>. QED
        BY <2>1, <3>1, <3>2, <3>3, LockStep
    <2>3. CASE slot[t] # NULL
      <3>1. Moves(t, "filling", {}) /\ UNCHANGED call
        BY <1>5, <2>3 DEF TryReserveUnlock, Continue
      <3>2. pc'[t] = "filling" /\ lock'.owner = t /\ lock'.depth = 1
        BY <2>1, <2>3, <3>1, MovesLabels DEF Unlocked, TypeOK
      <3>3. LockInvAt(t)'
        BY <2>1, <2>3, <3>1, <3>2
        DEF LockInvAt, RoleAgrees, TestHolds, WritesSlot, HoldsLockInMethod,
            SlotIsAtTheEnd, AllSendOps, AllReceiveOps, IsEmpty, Next_
      <3>. QED
        BY <2>1, <3>1, <3>2, <3>3, LockStep
    <2>. QED
      BY <2>2, <2>3
  <1>6. CASE Confirm(t)
    <2>1. /\ pc[t] = "filling" /\ lock.owner = t /\ lock.depth = 1
          /\ lock' = Unlocked(lock) /\ Moves(t, "idle", {})
          /\ call' = [call EXCEPT ![t] = NoCall] /\ slot' = [slot EXCEPT ![t] = NULL]
      BY <1>6 DEF Confirm, Return, LockInvAt, HoldsLockInMethod
    <2>2. /\ pc'[t] = "idle" /\ call'[t].op = "none" /\ slot'[t] = NULL /\ lock' = Free
          /\ lock'.owner = NoThread /\ lock'.depth = 0
          /\ \A u \in Threads \ {t} : call'[u] = call[u] /\ slot'[u] = slot[u]
      BY <2>1, MovesLabels DEF NoCall, TypeOK, Unlocked, Free
    <2>3. LockInvAt(t)'
      BY <2>2
      DEF LockInvAt, RoleAgrees, TestHolds, WritesSlot, HoldsLockInMethod,
          SlotIsAtTheEnd, AllSendOps, AllReceiveOps
    <2>. QED
      BY <2>1, <2>2, <2>3, LockStep
  <1>. QED
    BY <1>1, <1>2, <1>3, <1>4, <1>5, <1>6 DEF SendStep

\* A method that returns with the lock as it was before it took it.
LEMMA LockReturn ==
    ASSUME LockInv, TypeOK', NEW t \in Threads, NEW v, NEW woken,
           lock.owner = NoThread, Return(t, v, woken), UNCHANGED <<lock, slot>>
    PROVE  LockInv'
  <1>. /\ TypeOK /\ LockInvAt(t) /\ t # NoThread
       /\ lock.owner = NoThread <=> lock.depth = 0
    BY LockInvByThread, MQAssumption
  <1>1. /\ Moves(t, "idle", woken) /\ pc'[t] = "idle" /\ call'[t].op = "none"
        /\ \A u \in Threads \ {t} : call'[u] = call[u]
    BY MovesLabels DEF Return, NoCall, TypeOK
  <1>2. lock.owner # t /\ slot[t] = NULL
    BY DEF LockInvAt, SlotIsAtTheEnd
  <1>3. LockInvAt(t)'
    BY <1>1, <1>2
    DEF LockInvAt, RoleAgrees, TestHolds, WritesSlot, HoldsLockInMethod,
        SlotIsAtTheEnd, AllSendOps, AllReceiveOps
  <1>. QED
    BY <1>1, <1>2, <1>3, LockStep

LEMMA LockReceive ==
    ASSUME LockInv, NEW t \in Threads, ReceiveStep(t) PROVE LockInv'
  <1>. /\ TypeOK /\ TypeOK' /\ LockInvAt(t) /\ t # NoThread
       /\ lock.owner = NoThread <=> lock.depth = 0
    BY TypeReceive, LockInvByThread, MQAssumption DEF LockInv
  <1>1. ASSUME pc[t] = "receive", CanLock(lock, t), UNCHANGED <<lock, slot>>,
               NEW v, NEW woken, Received(t, v, woken)
        PROVE  LockInv'
    <2>1. CASE call[t].op = "receive"
      BY <1>1, <2>1, LockReturn
      DEF Received, LockInvAt, HoldsLockInMethod, CanLock
    <2>2. CASE call[t].op # "receive"
      <3>1. Moves(t, "tryUnlock", woken) /\ UNCHANGED call /\ pc'[t] = "tryUnlock"
        BY <1>1, <2>2, MovesLabels DEF Received
      <3>2. call[t].op = "tryReceive" /\ lock.owner = t /\ slot[t] = NULL
        BY <1>1, <2>2 DEF LockInvAt, RoleAgrees, TestHolds, WritesSlot, AllReceiveOps
      <3>3. LockInvAt(t)'
        BY <1>1, <3>1, <3>2
        DEF LockInvAt, RoleAgrees, TestHolds, WritesSlot, HoldsLockInMethod,
            SlotIsAtTheEnd, AllSendOps, AllReceiveOps
      <3>. QED
        BY <1>1, <3>1, <3>2, <3>3, LockStep
    <2>. QED
      BY <2>1, <2>2
  <1>2. CASE ReceiveRefused(t)
    BY <1>1, <1>2 DEF ReceiveRefused, InOneSection, ring
  <1>3. CASE ReceiveBlocks(t)
    <2>1. /\ Moves(t, "notEmpty", {}) /\ UNCHANGED <<call, slot, lock, head, tail>>
          /\ pc[t] = "receive" /\ lock.owner \in {NoThread, t} /\ IsEmpty
      BY <1>3 DEF ReceiveBlocks, Continue, InOneSection, CanLock, ring
    <2>2. pc'[t] = "notEmpty" /\ lock.owner # t /\ call[t].op = "receive"
      BY <2>1, MovesLabels
      DEF LockInvAt, TestHolds, HoldsLockInMethod, RoleAgrees, AllReceiveOps
    <2>3. LockInvAt(t)'
      BY <2>1, <2>2
      DEF LockInvAt, RoleAgrees, TestHolds, WritesSlot, HoldsLockInMethod,
          SlotIsAtTheEnd, AllSendOps, AllReceiveOps
    <2>. QED
      BY <2>1, <2>2, <2>3, LockStep
  <1>4. CASE ReceiveTakes(t)
    BY <1>1, <1>4 DEF ReceiveTakes, InOneSection
  <1>5. CASE TryReceive(t)
    <2>1. /\ pc[t] = "tryReceive" /\ lock.owner = NoThread /\ slot[t] = NULL
          /\ UNCHANGED <<head, tail, slot>> /\ call[t].op = "tryReceive"
      BY <1>5
      DEF TryReceive, CanLock, LockInvAt, HoldsLockInMethod, WritesSlot, RoleAgrees, ring
    <2>2. CASE Count_ = 0
      BY <1>5, <2>1, <2>2, LockReturn DEF TryReceive
    <2>3. CASE Count_ # 0
      <3>1. /\ Moves(t, "receive", {}) /\ lock' = Locked(lock, t) /\ UNCHANGED call
        BY <1>5, <2>3 DEF TryReceive, Continue
      <3>2. pc'[t] = "receive" /\ lock'.owner = t /\ lock'.depth = 1
        BY <2>1, <3>1, MovesLabels DEF Locked
      <3>3. ~IsEmpty'
        BY <2>1, <2>3 DEF IsEmpty, Count_, TypeOK, Slots
      <3>4. LockInvAt(t)'
        BY <2>1, <3>1, <3>2, <3>3
        DEF LockInvAt, RoleAgrees, TestHolds, WritesSlot, HoldsLockInMethod,
            SlotIsAtTheEnd, AllSendOps, AllReceiveOps
      <3>. QED
        BY <2>1, <3>1, <3>2, <3>4, LockStep
    <2>. QED
      BY <2>2, <2>3
  <1>6. CASE TryReceiveUnlock(t)
    <2>1. /\ pc[t] = "tryUnlock" /\ call[t].op = "tryReceive" /\ slot[t] = NULL
          /\ lock.owner = t /\ lock.depth = 1 /\ lock' = Unlocked(lock)
          /\ UNCHANGED <<head, tail, slot>>
          /\ Moves(t, "idle", {}) /\ call' = [call EXCEPT ![t] = NoCall]
      BY <1>6
      DEF TryReceiveUnlock, Return, LockInvAt, HoldsLockInMethod, WritesSlot,
          AllSendOps, ring
    <2>2. /\ pc'[t] = "idle" /\ call'[t].op = "none"
          /\ lock'.owner = NoThread /\ lock'.depth = 0
          /\ \A u \in Threads \ {t} : call'[u] = call[u]
      BY <2>1, MovesLabels DEF NoCall, TypeOK, Unlocked, Free
    <2>3. LockInvAt(t)'
      BY <2>1, <2>2
      DEF LockInvAt, RoleAgrees, TestHolds, WritesSlot, HoldsLockInMethod,
          SlotIsAtTheEnd, AllSendOps, AllReceiveOps
    <2>. QED
      BY <2>1, <2>2, <2>3, LockStep
  <1>. QED
    BY <1>2, <1>3, <1>4, <1>5, <1>6 DEF ReceiveStep

LEMMA LockControl ==
    ASSUME LockInv, NEW t \in Threads, ControlStep(t) PROVE LockInv'
  <1>1. PICK v \in BOOLEAN \cup {Void} : \E woken : Return(t, v, woken)
    BY DEF ControlStep, Clear, ClearExcept, SetCanBeUsed, WeakUpSender,
           WeakUpReceiver, Observe, LockInv, TypeOK
  <1>2. pc[t] = "control" /\ CanLock(lock, t) /\ UNCHANGED <<lock, slot>>
    BY DEF ControlStep, Clear, ClearExcept, SetCanBeUsed, WeakUpSender,
           WeakUpReceiver, Observe, Control, InOneSection
  <1>3. lock.owner = NoThread
    BY <1>2, LockInvByThread DEF LockInvAt, HoldsLockInMethod, CanLock
  <1>4. TypeOK'
    BY TypeControl DEF LockInv
  <1>. QED
    BY <1>1, <1>2, <1>3, <1>4, LockReturn

LEMMA LockNext == LockInv /\ [Next]_vars => LockInv'
  <1>. SUFFICES ASSUME LockInv, [Next]_vars PROVE LockInv'
    OBVIOUS
  <1>1. CASE UNCHANGED vars
    BY <1>1, TypeNext
    DEF vars, LockInv, RolesAgree, RoleAgrees, TestStillHolds, TestHolds, SlotIsWritten,
        WritesSlot, LockHeldByItsUser, HoldsLockInMethod, ReservedSlotIsMine,
        SlotIsAtTheEnd, IsFull, IsEmpty, Prev_, Next_
  <1>2. ASSUME NEW t \in Threads, SpuriousWake(t) PROVE LockInv'
    <2>1. TypeOK /\ TypeOK' /\ \A u \in Threads : LockInvAt(u)
      BY <1>2, TypeNext, LockInvByThread DEF LockInv, Next
    <2>2. /\ UNCHANGED <<head, tail, lock, call, slot>>
          /\ \A u \in Threads : \/ pc'[u] = pc[u]
                                \/ pc[u] = "notFull" /\ pc'[u] = "reserve"
                                \/ pc[u] = "notEmpty" /\ pc'[u] = "receive"
      BY <1>2, <2>1 DEF SpuriousWake, Retry, TypeOK, ring
    <2>3. ASSUME NEW u \in Threads PROVE LockInvAt(u)'
      BY <2>1, <2>2
      DEF LockInvAt, RoleAgrees, TestHolds, WritesSlot, HoldsLockInMethod,
          SlotIsAtTheEnd, AllSendOps, AllReceiveOps, IsFull, IsEmpty, Prev_, Next_
    <2>. QED
      BY <2>1, <2>2, <2>3
      DEF LockInv, LockInvAt, RolesAgree, TestStillHolds, SlotIsWritten,
          LockHeldByItsUser, ReservedSlotIsMine
  <1>. QED
    BY <1>1, <1>2, LockCall, LockSend, LockReceive, LockControl DEF Next, Step

\* In every reachable state the lock is held by the thread that is using it,
\* once or twice as its method has locked it, and by nobody else.
THEOREM LockIsHeldByItsUser == Spec => []LockHeldByItsUser
  <1>1. LockInv => LockHeldByItsUser
    BY DEF LockInv
  <1>. QED
    BY <1>1, LockInit, LockNext, PTL DEF Spec

\* No thread waits on a condition with the lock held.
THEOREM NobodyBlocksWithLock == Spec => []BlockedWithoutLock
  <1>1. LockInv => BlockedWithoutLock
    BY DEF LockInv, LockHeldByItsUser, HoldsLockInMethod, BlockedWithoutLock
  <1>. QED
    BY <1>1, LockInit, LockNext, PTL DEF Spec

\* The slot reserve() returned is the caller's until reserveConfirm().
THEOREM SlotIsReserved == Spec => []ReservedSlotIsMine
  <1>1. LockInv => ReservedSlotIsMine
    BY DEF LockInv
  <1>. QED
    BY <1>1, LockInit, LockNext, PTL DEF Spec

-----------------------------------------------------------------------------
\* Nobody sleeps through a signal.

AwakeInv == LockInv /\ ReceiversAsleepOnlyIfEmpty /\ SendersAsleepOnlyIfFull

\* Only senders wait on _not_full and only receivers on _not_empty.
WaitersAgree ==
    \A t \in Threads : /\ pc[t] = "notFull" => t \in Senders
                       /\ pc[t] = "notEmpty" => t \in Receivers

\* A step that puts nobody to sleep keeps both, if it signals _not_empty when
\* it fills an empty queue and _not_full when it makes room in a full one: the
\* thread it wakes is a receiver, or a sender, that is awake.
LEMMA AwakeStep ==
    ASSUME TypeOK, WaitersAgree, ReceiversAsleepOnlyIfEmpty, SendersAsleepOnlyIfFull,
           NEW woken,
           \A u \in Threads : pc'[u] \in {"notEmpty", "notFull"}
                             => pc'[u] = pc[u] /\ u \notin woken,
           IsEmpty' \/ ~IsEmpty \/ woken \in Signalled(WaitNotEmpty),
           IsFull' \/ ~IsFull \/ woken \in Signalled(WaitNotFull)
    PROVE  ReceiversAsleepOnlyIfEmpty' /\ SendersAsleepOnlyIfFull'
  <1>. Senders # {} /\ Receivers # {} /\ Senders \subseteq Threads /\ Receivers \subseteq Threads
    BY MQAssumption DEF Threads
  <1>1. ASSUME \A r \in Receivers : pc'[r] = "notEmpty", ~IsEmpty' PROVE FALSE
    <2>1. (\A r \in Receivers : r \in WaitNotEmpty) /\ WaitNotEmpty \subseteq Receivers
      BY <1>1 DEF WaitersAgree, WaitNotEmpty
    <2>2. IsEmpty /\ woken \in Signalled(WaitNotEmpty)
      BY <1>1, <2>1 DEF ReceiversAsleepOnlyIfEmpty, WaitNotEmpty
    <2>3. PICK w \in WaitNotEmpty : woken = {w}
      BY <2>1, <2>2 DEF Signalled
    <2>. QED
      BY <1>1, <2>1, <2>3
  <1>2. ASSUME \A s \in Senders : pc'[s] = "notFull", ~IsFull' PROVE FALSE
    <2>1. (\A s \in Senders : s \in WaitNotFull) /\ WaitNotFull \subseteq Senders
      BY <1>2 DEF WaitersAgree, WaitNotFull
    <2>2. IsFull /\ woken \in Signalled(WaitNotFull)
      BY <1>2, <2>1 DEF SendersAsleepOnlyIfFull, WaitNotFull
    <2>3. PICK w \in WaitNotFull : woken = {w}
      BY <2>1, <2>2 DEF Signalled
    <2>. QED
      BY <1>2, <2>1, <2>3
  <1>. QED
    BY <1>1, <1>2 DEF ReceiversAsleepOnlyIfEmpty, SendersAsleepOnlyIfFull

\* The same for a step in which one thread moves on.
LEMMA AwakeMove ==
    ASSUME TypeOK, WaitersAgree, ReceiversAsleepOnlyIfEmpty, SendersAsleepOnlyIfFull,
           NEW t \in Threads, NEW label, NEW woken,
           Moves(t, label, woken), label \notin {"notEmpty", "notFull"},
           IsEmpty' \/ ~IsEmpty \/ woken \in Signalled(WaitNotEmpty),
           IsFull' \/ ~IsFull \/ woken \in Signalled(WaitNotFull)
    PROVE  ReceiversAsleepOnlyIfEmpty' /\ SendersAsleepOnlyIfFull'
  <1>1. ASSUME NEW u \in Threads, pc'[u] \in {"notEmpty", "notFull"}
        PROVE  pc'[u] = pc[u] /\ u \notin woken
    BY <1>1 DEF Moves, Retry
  <1>. QED
    BY <1>1, AwakeStep

LEMMA EmptyIsNotFull == TypeOK => ~(IsEmpty /\ IsFull)
  BY NextPrev DEF TypeOK, IsEmpty, IsFull

LEMMA AwakeKept ==
    ASSUME TypeOK, WaitersAgree, ReceiversAsleepOnlyIfEmpty, SendersAsleepOnlyIfFull,
           [Next]_vars
    PROVE  ReceiversAsleepOnlyIfEmpty' /\ SendersAsleepOnlyIfFull'
  <1>. USE DEF ring
  <1>0. ASSUME UNCHANGED <<head, tail>> PROVE IsEmpty' = IsEmpty /\ IsFull' = IsFull
    BY <1>0 DEF IsEmpty, IsFull, Prev_
  <1>1. CASE UNCHANGED vars
    BY <1>1 DEF vars, ReceiversAsleepOnlyIfEmpty, SendersAsleepOnlyIfFull,
                IsEmpty, IsFull, Prev_
  <1>2. ASSUME NEW t \in Threads, NEW label, NEW woken, Moves(t, label, woken),
               label \notin {"notEmpty", "notFull"}, UNCHANGED <<head, tail>>
        PROVE  ReceiversAsleepOnlyIfEmpty' /\ SendersAsleepOnlyIfFull'
    BY <1>0, <1>2, AwakeMove
  <1>3. ASSUME NEW t \in Threads, SpuriousWake(t)
        PROVE  ReceiversAsleepOnlyIfEmpty' /\ SendersAsleepOnlyIfFull'
    <2>1. Moves(t, Retry(t), {}) /\ Retry(t) \notin {"notEmpty", "notFull"}
      BY <1>3 DEF SpuriousWake, Moves, Retry, TypeOK
    <2>. QED
      BY <1>2, <1>3, <2>1 DEF SpuriousWake
  <1>4. ASSUME NEW t \in Threads, Call(t)
        PROVE  ReceiversAsleepOnlyIfEmpty' /\ SendersAsleepOnlyIfFull'
    <2>1. PICK op \in AllOps : Moves(t, Entry(op), {})
      BY <1>4 DEF Call
    <2>2. Entry(op) \notin {"notEmpty", "notFull"}
      BY DEF Entry
    <2>. QED
      BY <1>2, <1>4, <2>1, <2>2 DEF Call
  <1>5. ASSUME NEW t \in Threads, SendStep(t)
        PROVE  ReceiversAsleepOnlyIfEmpty' /\ SendersAsleepOnlyIfFull'
    <2>1. CASE ReserveBlocks(t)
      <3>1. Moves(t, "notFull", {}) /\ UNCHANGED <<head, tail>> /\ IsFull
        BY <2>1 DEF ReserveBlocks, Continue
      <3>2. \A u \in Threads : pc'[u] = "notEmpty" => pc[u] = "notEmpty"
        BY <3>1, MovesLabels
      <3>. QED
        BY <1>0, <3>1, <3>2
        DEF ReceiversAsleepOnlyIfEmpty, SendersAsleepOnlyIfFull, Threads
    <2>2. CASE ReserveSlot(t)
      <3>1. PICK woken \in WokenByFirst :
              Moves(t, IF call[t].op = "trySend" THEN "tryUnlock" ELSE "filling", woken)
        BY <2>2 DEF ReserveSlot, Continue
      <3>. QED
        BY <2>2, <3>1, AwakeMove DEF ReserveSlot, WokenByFirst
    <2>3. CASE ReserveRefused(t)
      BY <1>2, <2>3 DEF ReserveRefused, NoSlot, Return, Continue
    <2>4. CASE TryReserve(t)
      BY <1>2, <2>4 DEF TryReserve, Return, Continue
    <2>5. CASE TryReserveUnlock(t)
      BY <1>2, <2>5 DEF TryReserveUnlock, Return, Continue
    <2>6. CASE Confirm(t)
      BY <1>2, <2>6 DEF Confirm, Return
    <2>. QED
      BY <1>5, <2>1, <2>2, <2>3, <2>4, <2>5, <2>6 DEF SendStep
  <1>6. ASSUME NEW t \in Threads, ReceiveStep(t)
        PROVE  ReceiversAsleepOnlyIfEmpty' /\ SendersAsleepOnlyIfFull'
    <2>1. CASE ReceiveBlocks(t)
      <3>1. Moves(t, "notEmpty", {}) /\ UNCHANGED <<head, tail>> /\ IsEmpty
        BY <2>1 DEF ReceiveBlocks, Continue
      <3>2. \A u \in Threads : pc'[u] = "notFull" => pc[u] = "notFull"
        BY <3>1, MovesLabels
      <3>. QED
        BY <1>0, <3>1, <3>2
        DEF ReceiversAsleepOnlyIfEmpty, SendersAsleepOnlyIfFull, Threads
    <2>2. CASE ReceiveTakes(t)
      <3>1. PICK woken \in WokenByRoom, label \in {"idle", "tryUnlock"} :
              Moves(t, label, woken)
        BY <2>2 DEF ReceiveTakes, Received, Return
      <3>. QED
        BY <2>2, <3>1, AwakeMove DEF ReceiveTakes, WokenByRoom
    <2>3. CASE ReceiveRefused(t)
      <3>1. PICK label \in {"idle", "tryUnlock"} : Moves(t, label, {})
        BY <2>3 DEF ReceiveRefused, Received, Return
      <3>. QED
        BY <1>2, <2>3, <3>1 DEF ReceiveRefused
    <2>4. CASE TryReceive(t)
      BY <1>2, <2>4 DEF TryReceive, Return, Continue
    <2>5. CASE TryReceiveUnlock(t)
      BY <1>2, <2>5 DEF TryReceiveUnlock, Return
    <2>. QED
      BY <1>6, <2>1, <2>2, <2>3, <2>4, <2>5 DEF ReceiveStep
  <1>7. ASSUME NEW t \in Threads, ControlStep(t)
        PROVE  ReceiversAsleepOnlyIfEmpty' /\ SendersAsleepOnlyIfFull'
    <2>1. CASE Clear(t)
      <3>1. PICK woken \in WokenByRoom : Moves(t, "idle", woken)
        BY <2>1 DEF Clear, Return
      <3>2. IsEmpty'
        BY <2>1 DEF Clear, IsEmpty
      <3>. QED
        BY <3>1, <3>2, AwakeMove DEF WokenByRoom
    <2>2. CASE ClearExcept(t)
      <3>1. PICK woken \in IF IsFull THEN WokenByRoom ELSE WokenByFirst :
              Moves(t, "idle", woken)
        BY <2>2 DEF ClearExcept, Return
      <3>. QED
        BY <3>1, AwakeMove, EmptyIsNotFull DEF WokenByRoom, WokenByFirst
    <2>3. CASE SetCanBeUsed(t) \/ WeakUpSender(t) \/ WeakUpReceiver(t) \/ Observe(t)
      <3>1. PICK woken : Moves(t, "idle", woken)
        BY <2>3 DEF SetCanBeUsed, WeakUpSender, WeakUpReceiver, Observe, Return, Broadcast
      <3>. QED
        BY <1>2, <2>3, <3>1 DEF SetCanBeUsed, WeakUpSender, WeakUpReceiver, Observe
    <2>. QED
      BY <1>7, <2>1, <2>2, <2>3 DEF ControlStep
  <1>. QED
    BY <1>1, <1>3, <1>4, <1>5, <1>6, <1>7 DEF Next, Step

LEMMA AwakeNext == AwakeInv /\ [Next]_vars => AwakeInv'
  <1>1. LockInv => TypeOK /\ WaitersAgree
    BY DEF LockInv, RolesAgree, RoleAgrees, WaitersAgree, AllSendOps, AllReceiveOps
  <1>. QED
    BY <1>1, LockNext, AwakeKept DEF AwakeInv

LEMMA AwakeInit == Init => AwakeInv
  <1>. SUFFICES ASSUME Init PROVE AwakeInv
    OBVIOUS
  <1>1. \A t \in Threads : pc[t] = "idle"
    BY DEF Init
  <1>. QED
    BY <1>1, LockInit, MQAssumption
    DEF AwakeInv, ReceiversAsleepOnlyIfEmpty, SendersAsleepOnlyIfFull, Threads

\* A message never lies in the queue while all consumers sleep.
THEOREM SomeReceiverIsAwake == Spec => []ReceiversAsleepOnlyIfEmpty
  <1>1. AwakeInv => ReceiversAsleepOnlyIfEmpty
    BY DEF AwakeInv
  <1>. QED
    BY <1>1, AwakeInit, AwakeNext, PTL DEF Spec

\* There is never room in the queue while all producers sleep.
THEOREM SomeSenderIsAwake == Spec => []SendersAsleepOnlyIfFull
  <1>1. AwakeInv => SendersAsleepOnlyIfFull
    BY DEF AwakeInv
  <1>. QED
    BY <1>1, AwakeInit, AwakeNext, PTL DEF Spec

-----------------------------------------------------------------------------
(***************************************************************************)
(* MQ implements MessageQueue.                                             *)
(*                                                                         *)
(* The content of a circular array b after slot h up to slot t.  The queue *)
(* is the content between two slots that a reservation does not move.      *)
(***************************************************************************)
PlaceAfter(h, i) == IF h + i <= MaxSize THEN h + i ELSE h + i - MaxSize - 1
Distance(h, t) == IF h <= t THEN t - h ELSE t + MaxSize - h + 1
Between(h, t, b) == [i \in 1 .. Distance(h, t) |-> b[PlaceAfter(h, i)]]

HeadSlot == IF Reserved({"sendPriority"}) THEN Next_(head) ELSE head
TailSlot == IF Reserved({"send", "trySend"}) THEN Prev_(tail) ELSE tail

-----------------------------------------------------------------------------
\* Lemmas about the circular array.

LEMMA SlotsAreNat == \A p \in Slots : p \in Nat /\ p <= MaxSize /\ p # NULL
  BY MQAssumption DEF Slots, NULL

LEMMA AfterType ==
    ASSUME NEW h \in Slots, NEW t \in Slots
    PROVE  /\ Distance(h, t) \in 0 .. MaxSize
           /\ Distance(h, t) = 0 <=> h = t
           /\ \A i \in 1 .. Distance(h, t) : PlaceAfter(h, i) \in Slots
           /\ h # t => PlaceAfter(h, Distance(h, t)) = t
  BY MQAssumption DEF Slots, Distance, PlaceAfter

LEMMA BetweenType ==
    ASSUME NEW h \in Slots, NEW t \in Slots, NEW b \in [Slots -> Values]
    PROVE  /\ Between(h, t, b) \in Seq(Values)
           /\ Len(Between(h, t, b)) = Distance(h, t)
           /\ \A i \in 1 .. Distance(h, t) : Between(h, t, b)[i] = b[PlaceAfter(h, i)]
  <1>1. Distance(h, t) \in Nat /\ \A i \in 1 .. Distance(h, t) : b[PlaceAfter(h, i)] \in Values
    BY AfterType
  <1>. QED
    BY <1>1 DEF Between

LEMMA BetweenEmpty ==
    ASSUME NEW h \in Slots, NEW b \in [Slots -> Values]
    PROVE  Between(h, h, b) = <<>>
  <1>1. Between(h, h, b) \in Seq(Values) /\ Len(Between(h, h, b)) = 0
    BY BetweenType, AfterType
  <1>. QED
    BY <1>1, EmptySeq

\* A message behind the last one.
LEMMA BetweenAppend ==
    ASSUME NEW h \in Slots, NEW t \in Slots, NEW b \in [Slots -> Values],
           NEW m \in Values, Next_(t) # h
    PROVE  Between(h, Next_(t), [b EXCEPT ![Next_(t)] = m]) = Append(Between(h, t, b), m)
  <1>. DEFINE n == Next_(t)
              c == [b EXCEPT ![n] = m]
              d == Distance(h, t)
              s == Between(h, t, b)
              r == Between(h, n, c)
  <1>1. n \in Slots /\ c \in [Slots -> Values]
    BY SlotsStayInside
  <1>2. /\ d \in Nat /\ Distance(h, n) = d + 1 /\ PlaceAfter(h, d + 1) = n
        /\ \A i \in 1 .. d : PlaceAfter(h, i) \in Slots /\ PlaceAfter(h, i) # n
    BY MQAssumption DEF Slots, Distance, PlaceAfter, Next_
  <1>3. /\ s \in Seq(Values) /\ Len(s) = d
        /\ \A i \in 1 .. d : s[i] = b[PlaceAfter(h, i)]
    BY BetweenType
  <1>4. /\ r \in Seq(Values) /\ Len(r) = d + 1
        /\ \A i \in 1 .. d + 1 : r[i] = c[PlaceAfter(h, i)]
    <2>. HIDE DEF c, d, n
    <2>1. /\ r \in Seq(Values) /\ Len(r) = Distance(h, n)
          /\ \A i \in 1 .. Distance(h, n) : r[i] = c[PlaceAfter(h, i)]
      BY <1>1, BetweenType
    <2>. QED
      BY <1>2, <2>1
  <1>5. /\ Append(s, m) \in Seq(Values) /\ Len(Append(s, m)) = d + 1
        /\ \A i \in 1 .. d : Append(s, m)[i] = s[i]
        /\ Append(s, m)[d + 1] = m
    BY <1>3, AppendProperties
  <1>6. \A i \in 1 .. d : c[PlaceAfter(h, i)] = b[PlaceAfter(h, i)]
    BY <1>2
  <1>7. c[n] = m
    BY <1>1
  <1>. HIDE DEF c, d, s, r, n
  <1>8. ASSUME NEW i \in 1 .. d + 1 PROVE r[i] = Append(s, m)[i]
    <2>1. i \in 1 .. d \/ i = d + 1
      BY <1>2
    <2>. QED
      BY <1>2, <1>3, <1>4, <1>5, <1>6, <1>7, <2>1
  <1>9. r = Append(s, m)
    BY <1>4, <1>5, <1>8, SeqEqual
  <1>. QED
    BY <1>9 DEF r, s, c, n

\* A message before the first one.
LEMMA BetweenPrepend ==
    ASSUME NEW h \in Slots, NEW t \in Slots, NEW b \in [Slots -> Values],
           NEW m \in Values, Prev_(h) # t
    PROVE  Between(Prev_(h), t, [b EXCEPT ![h] = m]) = <<m>> \o Between(h, t, b)
  <1>. DEFINE p == Prev_(h)
              c == [b EXCEPT ![h] = m]
              d == Distance(h, t)
              s == Between(h, t, b)
              r == Between(p, t, c)
  <1>1. p \in Slots /\ c \in [Slots -> Values]
    BY SlotsStayInside
  <1>2. /\ d \in Nat /\ Distance(p, t) = d + 1 /\ PlaceAfter(p, 1) = h
        /\ \A i \in 1 .. d : /\ PlaceAfter(h, i) \in Slots /\ PlaceAfter(h, i) # h
                             /\ PlaceAfter(p, i + 1) = PlaceAfter(h, i)
    BY MQAssumption DEF Slots, Distance, PlaceAfter, Prev_
  <1>3. /\ s \in Seq(Values) /\ Len(s) = d
        /\ \A i \in 1 .. d : s[i] = b[PlaceAfter(h, i)]
    BY BetweenType
  <1>4. /\ r \in Seq(Values) /\ Len(r) = d + 1
        /\ \A i \in 1 .. d + 1 : r[i] = c[PlaceAfter(p, i)]
    <2>. HIDE DEF c, d, p
    <2>1. /\ r \in Seq(Values) /\ Len(r) = Distance(p, t)
          /\ \A i \in 1 .. Distance(p, t) : r[i] = c[PlaceAfter(p, i)]
      BY <1>1, BetweenType
    <2>. QED
      BY <1>2, <2>1
  <1>5. /\ <<m>> \o s \in Seq(Values) /\ Len(<<m>> \o s) = d + 1
        /\ (<<m>> \o s)[1] = m
        /\ \A i \in 2 .. d + 1 : (<<m>> \o s)[i] = s[i - 1]
    <2>1. <<m>> \in Seq(Values) /\ Len(<<m>>) = 1 /\ <<m>>[1] = m
      OBVIOUS
    <2>. DEFINE w == <<m>>
    <2>. HIDE DEF s, d, w
    <2>2. w \in Seq(Values) /\ Len(w) = 1 /\ w[1] = m
      BY <2>1 DEF w
    <2>3. /\ w \o s \in Seq(Values) /\ Len(w \o s) = 1 + d
          /\ \A i \in 1 .. 1 + d : (w \o s)[i] = IF i <= 1 THEN w[i] ELSE s[i - 1]
      <3>1. /\ w \o s \in Seq(Values) /\ Len(w \o s) = Len(w) + Len(s)
            /\ \A i \in 1 .. Len(w) + Len(s) :
                   (w \o s)[i] = IF i <= Len(w) THEN w[i] ELSE s[i - Len(w)]
        BY <1>3, <2>2, ConcatProperties
      <3>. QED
        BY <1>3, <2>2, <3>1
    <2>4. 1 + d = d + 1 /\ (w \o s)[1] = w[1]
      BY <1>2, <2>3
    <2>5. \A i \in 2 .. d + 1 : (w \o s)[i] = s[i - 1]
      BY <1>2, <2>3
    <2>. QED
      BY <2>2, <2>3, <2>4, <2>5 DEF w
  <1>6. \A i \in 1 .. d : c[PlaceAfter(p, i + 1)] = b[PlaceAfter(h, i)]
    BY <1>2
  <1>7. c[PlaceAfter(p, 1)] = m
    BY <1>2
  <1>. HIDE DEF c, d, s, r, p
  <1>8. ASSUME NEW i \in 1 .. d + 1 PROVE r[i] = (<<m>> \o s)[i]
    <2>1. i = 1 \/ (i \in 2 .. d + 1 /\ i - 1 \in 1 .. d /\ (i - 1) + 1 = i)
      BY <1>2
    <2>2. CASE i = 1
      BY <1>4, <1>5, <1>7, <2>2
    <2>3. CASE i \in 2 .. d + 1 /\ i - 1 \in 1 .. d /\ (i - 1) + 1 = i
      <3>1. r[i] = c[PlaceAfter(p, i)] /\ (<<m>> \o s)[i] = s[i - 1]
        BY <1>4, <1>5, <2>3
      <3>2. s[i - 1] = b[PlaceAfter(h, i - 1)]
        BY <1>3, <2>3
      <3>3. c[PlaceAfter(p, (i - 1) + 1)] = b[PlaceAfter(h, i - 1)]
        BY <1>6, <2>3
      <3>. QED
        BY <2>3, <3>1, <3>2, <3>3
    <2>. QED
      BY <2>1, <2>2, <2>3
  <1>9. r = <<m>> \o s
    BY <1>4, <1>5, <1>8, SeqEqual
  <1>. QED
    BY <1>9 DEF r, s, c, p

\* The first message goes.
LEMMA BetweenTail ==
    ASSUME NEW h \in Slots, NEW t \in Slots, NEW b \in [Slots -> Values], h # t
    PROVE  /\ Between(h, t, b) # <<>>
           /\ Head(Between(h, t, b)) = b[Next_(h)]
           /\ Tail(Between(h, t, b)) = Between(Next_(h), t, b)
  <1>. DEFINE n == Next_(h)
              d == Distance(n, t)
              s == Between(n, t, b)
              r == Between(h, t, b)
  <1>1. n \in Slots
    BY SlotsStayInside
  <1>2. /\ d \in Nat /\ Distance(h, t) = d + 1 /\ PlaceAfter(h, 1) = n
        /\ \A i \in 1 .. d : PlaceAfter(n, i) = PlaceAfter(h, i + 1)
    BY MQAssumption DEF Slots, Distance, PlaceAfter, Next_
  <1>3. /\ s \in Seq(Values) /\ Len(s) = d
        /\ \A i \in 1 .. d : s[i] = b[PlaceAfter(n, i)]
    BY <1>1, BetweenType
  <1>4. /\ r \in Seq(Values) /\ Len(r) = d + 1
        /\ \A i \in 1 .. d + 1 : r[i] = b[PlaceAfter(h, i)]
    BY <1>2, BetweenType
  <1>. HIDE DEF d, s, r, n
  <1>5. r # <<>> /\ Head(r) = r[1] /\ r[1] = b[n]
    BY <1>2, <1>4, EmptySeq
  <1>6. /\ Tail(r) \in Seq(Values) /\ Len(Tail(r)) = d
        /\ \A i \in 1 .. d : Tail(r)[i] = r[i + 1]
    BY <1>2, <1>4, <1>5, HeadTailProperties
  <1>7. \A i \in 1 .. d : Tail(r)[i] = s[i]
    BY <1>2, <1>3, <1>4, <1>6
  <1>8. Tail(r) = s
    BY <1>3, <1>6, <1>7, SeqEqual
  <1>. QED
    BY <1>5, <1>8 DEF r, s, n

\* The last message goes.
LEMMA BetweenFront ==
    ASSUME NEW h \in Slots, NEW t \in Slots, NEW b \in [Slots -> Values], h # t
    PROVE  SubSeq(Between(h, t, b), 1, Distance(h, t) - 1) = Between(h, Prev_(t), b)
  <1>. DEFINE p == Prev_(t)
              r == Between(h, t, b)
              s == Between(h, p, b)
              d == Distance(h, p)
              q == SubSeq(r, 1, d)
  <1>1. p \in Slots
    BY SlotsStayInside
  <1>2. d \in Nat /\ Distance(h, t) = d + 1 /\ Distance(h, t) - 1 = d
    BY MQAssumption DEF Slots, Distance, Prev_
  <1>3. /\ s \in Seq(Values) /\ Len(s) = d
        /\ \A i \in 1 .. d : s[i] = b[PlaceAfter(h, i)]
    BY <1>1, BetweenType
  <1>4. /\ r \in Seq(Values) /\ Len(r) = d + 1
        /\ \A i \in 1 .. d + 1 : r[i] = b[PlaceAfter(h, i)]
    BY <1>2, BetweenType
  <1>. HIDE DEF r, s, p, d
  <1>5. \A i \in 1 .. d : r[i] \in Values
    BY <1>2, <1>4, ElementOfSeq
  <1>6. /\ q \in Seq(Values) /\ Len(q) = d
        /\ \A i \in 1 .. d : q[i] = r[i]
    <2>1. 1 \in Int /\ d \in Int
      BY <1>2
    <2>2. /\ q \in Seq(Values) /\ Len(q) = IF 1 <= d THEN d - 1 + 1 ELSE 0
          /\ \A i \in 1 .. d - 1 + 1 : q[i] = r[1 + i - 1]
      BY <1>5, <2>1, SubSeqProperties
    <2>. HIDE DEF q
    <2>. QED
      BY <1>2, <2>2
  <1>. HIDE DEF q
  <1>7. \A i \in 1 .. d : q[i] = s[i]
    BY <1>2, <1>3, <1>4, <1>6
  <1>8. q = s
    BY <1>3, <1>6, <1>7, SeqEqual
  <1>. QED
    BY <1>2, <1>8 DEF q, r, s, p

-----------------------------------------------------------------------------
\* The refinement mapping.

\* At most one thread has reserved a slot, and only in a queue that is then not empty.
LEMMA OneReservation ==
    LockInv => /\ \A t \in Threads : slot[t] # NULL => lock.owner = t /\ ~IsEmpty
               /\ ~(Reserved({"sendPriority"}) /\ Reserved({"send", "trySend"}))
  BY DEF LockInv, ReservedSlotIsMine, SlotIsAtTheEnd, Reserved

\* The queue is the content of the array between HeadSlot and TailSlot.
LEMMA QueueIs ==
    LockInv => /\ Queue = Between(HeadSlot, TailSlot, buffer)
               /\ HeadSlot \in Slots /\ TailSlot \in Slots
  <1>. SUFFICES ASSUME LockInv
                PROVE  /\ Queue = Between(HeadSlot, TailSlot, buffer)
                       /\ HeadSlot \in Slots /\ TailSlot \in Slots
    OBVIOUS
  <1>. /\ head \in Slots /\ tail \in Slots /\ buffer \in [Slots -> Values]
    BY DEF LockInv, TypeOK
  <1>1. HeadSlot \in Slots /\ TailSlot \in Slots
    BY SlotsStayInside DEF HeadSlot, TailSlot
  <1>2. Ring = Between(head, tail, buffer) /\ Count_ = Distance(head, tail)
    BY DEF Ring, Place, Between, PlaceAfter, Count_, Distance
  <1>3. Ring \in Seq(Values) /\ Len(Ring) = Count_ /\ Count_ \in Nat
    BY <1>2, BetweenType, AfterType
  <1>4. CASE ~Reserved({"sendPriority"}) /\ ~Reserved({"send", "trySend"})
    <2>1. Queue = SubSeq(Ring, 1, Count_ - 0)
      BY <1>4 DEF Queue
    <2>2. Count_ - 0 = Count_
      BY <1>3
    <2>3. HeadSlot = head /\ TailSlot = tail
      BY <1>4 DEF HeadSlot, TailSlot
    <2>. QED
      BY <1>1, <1>2, <1>3, <2>1, <2>2, <2>3, SubSeqFull
  <1>5. CASE Reserved({"sendPriority"})
    <2>1. head # tail /\ ~Reserved({"send", "trySend"})
      BY <1>5, OneReservation DEF Reserved, IsEmpty
    <2>2. Queue = SubSeq(Ring, 2, Count_ - 0) /\ HeadSlot = Next_(head) /\ TailSlot = tail
      BY <1>5, <2>1 DEF Queue, HeadSlot, TailSlot
    <2>3. Count_ - 0 = Len(Ring)
      BY <1>3
    <2>4. Ring # <<>> /\ Tail(Ring) = Between(Next_(head), tail, buffer)
      BY <1>2, <2>1, BetweenTail
    <2>. QED
      BY <1>1, <1>3, <2>2, <2>3, <2>4, TailIsSubSeq
  <1>6. CASE Reserved({"send", "trySend"})
    <2>1. head # tail /\ ~Reserved({"sendPriority"})
      BY <1>6, OneReservation DEF Reserved, IsEmpty
    <2>2. Queue = SubSeq(Ring, 1, Count_ - 1) /\ HeadSlot = head /\ TailSlot = Prev_(tail)
      BY <1>6, <2>1 DEF Queue, HeadSlot, TailSlot
    <2>. QED
      BY <1>1, <1>2, <2>1, <2>2, BetweenFront
  <1>. QED
    BY <1>4, <1>5, <1>6

\* A slot is reserved, and a send that found room is refused, only in a queue
\* that is, or is not, in use: both by the thread that holds _lock.
Usable(t) ==
    /\ slot[t] # NULL => canBeUsed
    /\ pc[t] = "tryUnlock" /\ call[t].op = "trySend" /\ slot[t] = NULL => ~canBeUsed
RefineInv == LockInv /\ \A t \in Threads : Usable(t)

\* What the abstract queue sees does not change if nothing is written, moved or
\* reserved and the owner of a reserved slot stays in its method.
LEMMA SameQueue ==
    ASSUME UNCHANGED <<head, tail, buffer, slot>>,
           \A u \in Threads : slot[u] # NULL => call'[u] = call[u]
    PROVE  Queue' = Queue
  <1>1. \A ops : Reserved(ops)' <=> Reserved(ops)
    BY DEF Reserved
  <1>. QED
    BY <1>1 DEF Queue, Ring, Place, Count_

LEMMA UsableInit == Init => RefineInv
  BY LockInit DEF Init, RefineInv, Usable

LEMMA UsableNext == RefineInv /\ [Next]_vars => RefineInv'
  <1>. SUFFICES ASSUME RefineInv, [Next]_vars, NEW u \in Threads PROVE Usable(u)'
    BY LockNext DEF RefineInv
  <1>. LockInv /\ LockInv' /\ TypeOK /\ u # NoThread /\ Usable(u)
    BY LockNext, MQAssumption DEF RefineInv, LockInv
  <1>1. slot[u] # NULL \/ pc[u] = "tryUnlock" => lock.owner = u
    BY LockInvByThread DEF LockInvAt, SlotIsAtTheEnd, HoldsLockInMethod
  <1>2. ASSUME UNCHANGED <<slot, canBeUsed>>,
               pc'[u] = "tryUnlock" => pc[u] = "tryUnlock" /\ call'[u] = call[u]
        PROVE  Usable(u)'
    BY <1>2 DEF Usable
  <1>3. ASSUME NEW t \in Threads, NEW label, NEW woken, Moves(t, label, woken), t # u
        PROVE  pc'[u] = "tryUnlock" => pc[u] = "tryUnlock"
    BY <1>3, MovesLabels
  <1>4. CASE UNCHANGED vars
    BY <1>2, <1>4 DEF vars
  <1>5. ASSUME NEW t \in Threads, Call(t) PROVE Usable(u)'
    <2>1. PICK op \in AllOps, m \in Values :
            /\ Moves(t, Entry(op), {})
            /\ call' = [call EXCEPT ![t] = [op |-> op, msg |-> m]]
      BY <1>5 DEF Call
    <2>2. Entry(op) # "tryUnlock"
      BY DEF Entry
    <2>. QED
      BY <1>2, <1>3, <1>5, <2>1, <2>2, MovesLabels DEF Call, TypeOK
  <1>6. ASSUME NEW t \in Threads, SpuriousWake(t) PROVE Usable(u)'
    BY <1>2, <1>6 DEF SpuriousWake, Retry, TypeOK
  <1>7. ASSUME NEW t \in Threads, SendStep(t) PROVE Usable(u)'
    <2>1. CASE ReserveRefused(t)
      <3>1. CASE t = u /\ call[t].op = "trySend"
        BY <2>1, <3>1, MovesLabels DEF ReserveRefused, NoSlot, Continue, Usable
      <3>2. CASE t # u \/ call[t].op # "trySend"
        <4>1. PICK label : Moves(t, label, {}) /\ (t = u => label = "idle")
          BY <2>1, <3>2 DEF ReserveRefused, NoSlot, Continue, Return
        <4>2. t # u => call'[u] = call[u]
          BY <2>1 DEF ReserveRefused, NoSlot, Continue, Return, TypeOK
        <4>. QED
          BY <1>2, <1>3, <2>1, <4>1, <4>2, MovesLabels DEF ReserveRefused
      <3>. QED
        BY <3>1, <3>2
    <2>2. CASE ReserveBlocks(t)
      BY <1>2, <1>3, <2>2, MovesLabels DEF ReserveBlocks, Continue
    <2>3. CASE ReserveSlot(t)
      <3>1. PICK woken, label :
              Moves(t, label, woken) /\ UNCHANGED call /\ canBeUsed'
        BY <2>3 DEF ReserveSlot, Continue
      <3>2. /\ \A v \in Threads \ {t} : slot'[v] = slot[v]
            /\ slot'[t] # NULL
        BY <2>3, SlotsStayInside, SlotsAreNat
        DEF ReserveSlot, ReserveHead, ReserveTail, TypeOK
      <3>. QED
        BY <1>3, <2>3, <3>1, <3>2 DEF Usable, ReserveSlot
    <2>4. CASE TryReserve(t)
      <3>1. PICK label \in {"idle", "reserve"} : Moves(t, label, {})
        BY <2>4 DEF TryReserve, Return, Continue
      <3>2. t # u => call'[u] = call[u]
        BY <2>4 DEF TryReserve, Return, Continue, TypeOK
      <3>. QED
        BY <1>2, <1>3, <2>4, <3>1, <3>2, MovesLabels DEF TryReserve
    <2>5. CASE TryReserveUnlock(t)
      <3>1. PICK label \in {"idle", "filling"} : Moves(t, label, {})
        BY <2>5 DEF TryReserveUnlock, Return, Continue
      <3>2. t # u => call'[u] = call[u]
        BY <2>5 DEF TryReserveUnlock, Return, Continue, TypeOK
      <3>. QED
        BY <1>2, <1>3, <2>5, <3>1, <3>2, MovesLabels DEF TryReserveUnlock
    <2>6. CASE Confirm(t)
      <3>1. /\ Moves(t, "idle", {}) /\ UNCHANGED canBeUsed
            /\ t # u => slot'[u] = slot[u] /\ call'[u] = call[u]
            /\ slot'[t] = NULL
        BY <2>6 DEF Confirm, Return, TypeOK
      <3>. QED
        BY <1>3, <3>1, MovesLabels DEF Usable
    <2>. QED
      BY <1>7, <2>1, <2>2, <2>3, <2>4, <2>5, <2>6 DEF SendStep
  <1>8. ASSUME NEW t \in Threads, ReceiveStep(t) PROVE Usable(u)'
    <2>1. /\ UNCHANGED <<slot, canBeUsed>>
          /\ \E label, woken : Moves(t, label, woken)
          /\ t # u => call'[u] = call[u]
      BY <1>8
      DEF ReceiveStep, ReceiveRefused, ReceiveBlocks, ReceiveTakes, TryReceive,
          TryReceiveUnlock, Received, Return, Continue, TypeOK
    <2>2. CASE t # u
      BY <1>2, <1>3, <2>1, <2>2
    <2>3. CASE t = u
      <3>1. call[t].op \in AllReceiveOps /\ (call'[t] = call[t] \/ call'[t] = NoCall)
        BY <1>8, LockInvByThread
        DEF ReceiveStep, ReceiveRefused, ReceiveBlocks, ReceiveTakes, TryReceive,
            TryReceiveUnlock, Received, Return, Continue, TypeOK, LockInvAt, RoleAgrees,
            AllReceiveOps
      <3>. QED
        BY <2>1, <2>3, <3>1 DEF Usable, AllReceiveOps, NoCall
    <2>. QED
      BY <2>2, <2>3
  <1>9. ASSUME NEW t \in Threads, ControlStep(t) PROVE Usable(u)'
    <2>1. /\ UNCHANGED slot /\ pc[t] = "control" /\ lock.owner \in {NoThread, t}
          /\ \E woken : Moves(t, "idle", woken)
      BY <1>9
      DEF ControlStep, Clear, ClearExcept, SetCanBeUsed, WeakUpSender, WeakUpReceiver,
          Observe, Control, InOneSection, CanLock, Return
    <2>2. lock.owner = NoThread
      BY <2>1, LockInvByThread DEF LockInvAt, HoldsLockInMethod
    <2>3. slot[u] = NULL /\ pc[u] # "tryUnlock"
      BY <1>1, <2>2
    <2>4. pc'[u] # "tryUnlock"
      BY <1>3, <2>1, <2>3, MovesLabels
    <2>. QED
      BY <2>1, <2>3, <2>4 DEF Usable
  <1>. QED
    BY <1>4, <1>5, <1>6, <1>7, <1>8, <1>9 DEF Next, Step

-----------------------------------------------------------------------------
\* The steps.

\* The content before and after a step of a thread that has the lock to itself.
LEMMA QueueMoves ==
    ASSUME LockInv, LockInv', NEW t \in Threads, lock.owner \in {NoThread, t},
           \A u \in Threads \ {t} : slot'[u] = slot[u]
    PROVE  LET mine(ops) == slot[t] # NULL /\ call[t].op \in ops
               f == IF mine({"sendPriority"}) THEN Next_(head) ELSE head
               l == IF mine({"send", "trySend"}) THEN Prev_(tail) ELSE tail
           IN /\ Queue = Between(f, l, buffer)
              /\ f \in Slots /\ l \in Slots
              /\ Queue' = Between(f', l', buffer')
              /\ f' \in Slots /\ l' \in Slots
  <1>1. \A u \in Threads \ {t} : slot[u] = NULL /\ slot'[u] = NULL
    BY OneReservation, MQAssumption
  <1>2. \A ops : /\ Reserved(ops) <=> slot[t] # NULL /\ call[t].op \in ops
                 /\ Reserved(ops)' <=> slot'[t] # NULL /\ call'[t].op \in ops
    BY <1>1 DEF Reserved
  <1>3. (LockInv => /\ Queue = Between(HeadSlot, TailSlot, buffer)
                    /\ HeadSlot \in Slots /\ TailSlot \in Slots)'
    BY QueueIs, PTL
  <1>. QED
    BY <1>2, <1>3, QueueIs DEF HeadSlot, TailSlot

AbstractStep == Abstract!Next \/ UNCHANGED <<Queue, canBeUsed, result>>

LEMMA RefineReserve ==
    ASSUME RefineInv, RefineInv', NEW t \in Threads, ReserveSlot(t)
    PROVE  UNCHANGED <<Queue, canBeUsed, result>>
  <1>. LockInv /\ LockInv' /\ head \in Slots /\ tail \in Slots
    BY DEF RefineInv, LockInv, TypeOK
  <1>1. /\ pc[t] = "reserve" /\ lock.owner \in {NoThread, t} /\ UNCHANGED <<buffer, call>>
        /\ UNCHANGED <<canBeUsed, result>>
    BY DEF ReserveSlot, CanLock, Continue
  <1>2. slot[t] = NULL /\ call[t].op \in AllSendOps
    BY <1>1, LockInvByThread DEF LockInvAt, WritesSlot, RoleAgrees
  <1>3. /\ \/ /\ call[t].op = "sendPriority" /\ head' = Prev_(head) /\ tail' = tail
              /\ slot' = [slot EXCEPT ![t] = head]
           \/ /\ call[t].op # "sendPriority" /\ tail' = Next_(tail) /\ head' = head
              /\ slot' = [slot EXCEPT ![t] = Next_(tail)]
    BY DEF ReserveSlot, ReserveHead, ReserveTail
  <1>4. /\ \A u \in Threads \ {t} : slot'[u] = slot[u]
        /\ slot'[t] # NULL
    BY <1>3, SlotsStayInside, SlotsAreNat DEF LockInv, TypeOK
  <1>5. Next_(Prev_(head)) = head /\ Prev_(Next_(tail)) = tail
    BY NextPrev
  <1>6. CASE call[t].op = "sendPriority"
    <2>1. Queue = Between(head, tail, buffer)
      BY <1>1, <1>2, <1>4, <1>6, QueueMoves
    <2>2. Queue' = Between(Next_(Prev_(head)), tail, buffer)
      BY <1>1, <1>2, <1>3, <1>4, <1>6, QueueMoves DEF Next_
    <2>. QED
      BY <1>1, <1>5, <2>1, <2>2
  <1>7. CASE call[t].op # "sendPriority"
    <2>1. Queue = Between(head, tail, buffer)
      BY <1>1, <1>2, <1>4, <1>7, QueueMoves
    <2>2. Queue' = Between(head, Prev_(Next_(tail)), buffer)
      BY <1>1, <1>2, <1>3, <1>4, <1>7, QueueMoves DEF Prev_, AllSendOps
    <2>. QED
      BY <1>1, <1>5, <2>1, <2>2
  <1>. QED
    BY <1>6, <1>7

\* reserveConfirm(): the message takes its place.
LEMMA RefineConfirm ==
    ASSUME RefineInv, RefineInv', NEW t \in Threads, Confirm(t)
    PROVE  IF call[t].op = "sendPriority" THEN Abstract!SendPriority(t, call[t].msg)
           ELSE Abstract!Send(t, call[t].msg)
  <1>. DEFINE m == call[t].msg
  <1>. /\ LockInv /\ LockInv' /\ head \in Slots /\ tail \in Slots /\ m \in Values
       /\ buffer \in [Slots -> Values]
    BY DEF RefineInv, LockInv, TypeOK
  <1>1. /\ pc[t] = "filling" /\ UNCHANGED <<head, tail, canBeUsed>>
        /\ buffer' = [buffer EXCEPT ![slot[t]] = m]
        /\ slot'[t] = NULL /\ \A u \in Threads \ {t} : slot'[u] = slot[u]
        /\ result' = [result EXCEPT ![t] = IF call[t].op = "sendPriority" THEN Void ELSE TRUE]
    BY DEF Confirm, Return, LockInv, TypeOK
  <1>2. /\ slot[t] # NULL /\ call[t].op \in AllSendOps /\ lock.owner = t /\ head # tail
        /\ slot[t] = IF call[t].op = "sendPriority" THEN Next_(head) ELSE tail
    BY <1>1, LockInvByThread
    DEF LockInvAt, WritesSlot, RoleAgrees, SlotIsAtTheEnd, IsEmpty
  <1>3. canBeUsed
    BY <1>2 DEF RefineInv, Usable
  <1>4. Queue' = Between(head, tail, buffer')
    BY <1>1, <1>2, QueueMoves
  <1>5. CASE call[t].op = "sendPriority"
    <2>. DEFINE f == Next_(head)
    <2>1. f \in Slots /\ Prev_(f) = head
      BY NextPrev, SlotsStayInside
    <2>2. Queue = Between(f, tail, buffer)
      BY <1>1, <1>2, <1>5, QueueMoves
    <2>3. buffer' = [buffer EXCEPT ![f] = m]
      BY <1>1, <1>2, <1>5
    <2>4. Queue' = <<m>> \o Queue
      <3>. HIDE DEF m, f
      <3>. QED
        BY <1>2, <1>4, <2>1, <2>2, <2>3, BetweenPrepend
    <2>5. Len(Queue) < MaxSize
      <3>1. Distance(head, tail) = Distance(f, tail) + 1
        BY <1>2, MQAssumption DEF Distance, Next_, Slots
      <3>2. Distance(f, tail) \in Nat /\ Distance(head, tail) <= MaxSize
        BY <2>1, AfterType
      <3>3. Len(Queue) = Distance(f, tail)
        BY <2>1, <2>2, BetweenType
      <3>. QED
        BY <3>1, <3>2, <3>3, MQAssumption
    <2>6. Abstract!SendPriority(t, m)
      BY <1>1, <1>3, <1>5, <2>4, <2>5 DEF Abstract!SendPriority, Abstract!Returns
    <2>. QED
      BY <1>5, <2>6
  <1>6. CASE call[t].op # "sendPriority"
    <2>. DEFINE l == Prev_(tail)
    <2>1. l \in Slots /\ Next_(l) = tail
      BY NextPrev, SlotsStayInside
    <2>2. Queue = Between(head, l, buffer)
      BY <1>1, <1>2, <1>6, QueueMoves DEF AllSendOps
    <2>3. buffer' = [buffer EXCEPT ![tail] = m]
      BY <1>1, <1>2, <1>6
    <2>4. Queue' = Append(Queue, m)
      <3>. HIDE DEF m, l
      <3>. QED
        BY <1>2, <1>4, <2>1, <2>2, <2>3, BetweenAppend
    <2>5. Len(Queue) < MaxSize
      <3>1. Distance(head, tail) = Distance(head, l) + 1
        BY <1>2, MQAssumption DEF Distance, Prev_, Slots
      <3>2. Distance(head, l) \in Nat /\ Distance(head, tail) <= MaxSize
        BY <2>1, AfterType
      <3>3. Len(Queue) = Distance(head, l)
        BY <2>1, <2>2, BetweenType
      <3>. QED
        BY <3>1, <3>2, <3>3, MQAssumption
    <2>6. Abstract!Send(t, m)
      BY <1>1, <1>3, <1>6, <2>4, <2>5 DEF Abstract!Send, Abstract!Returns
    <2>. QED
      BY <1>6, <2>6
  <1>. QED
    BY <1>5, <1>6

\* A step of a thread that has the lock to itself and no slot reserved.
LEMMA QueueUnreserved ==
    ASSUME LockInv, LockInv', NEW t \in Threads, lock.owner \in {NoThread, t},
           UNCHANGED slot, slot[t] = NULL
    PROVE  /\ Queue = Between(head, tail, buffer)
           /\ Queue' = Between(head', tail', buffer')
  BY QueueMoves

\* receive(): the oldest message goes to the caller.
LEMMA RefineTakes ==
    ASSUME RefineInv, RefineInv', NEW t \in Threads, ReceiveTakes(t)
    PROVE  Abstract!Receive(t)
  <1>. /\ LockInv /\ LockInv' /\ head \in Slots /\ tail \in Slots
       /\ buffer \in [Slots -> Values]
    BY DEF RefineInv, LockInv, TypeOK
  <1>1. /\ pc[t] = "receive" /\ lock.owner \in {NoThread, t} /\ UNCHANGED slot
        /\ canBeUsed /\ head # tail /\ head' = Next_(head)
        /\ UNCHANGED <<tail, buffer, canBeUsed>>
        /\ result' = [result EXCEPT ![t] = buffer[Next_(head)]]
    BY DEF ReceiveTakes, InOneSection, CanLock, IsEmpty, Received, Return, Taken
  <1>2. slot[t] = NULL
    BY <1>1, LockInvByThread DEF LockInvAt, WritesSlot
  <1>3. /\ Queue = Between(head, tail, buffer)
        /\ Queue' = Between(Next_(head), tail, buffer)
    BY <1>1, <1>2, QueueUnreserved
  <1>4. Queue # <<>> /\ Head(Queue) = buffer[Next_(head)] /\ Tail(Queue) = Queue'
    BY <1>1, <1>3, BetweenTail
  <1>. QED
    BY <1>1, <1>4 DEF Abstract!Receive, Abstract!Returns

LEMMA RefineClear ==
    ASSUME RefineInv, RefineInv', NEW t \in Threads, Clear(t)
    PROVE  Abstract!Next
  <1>. /\ LockInv /\ LockInv' /\ tail \in Slots /\ buffer \in [Slots -> Values]
    BY DEF RefineInv, LockInv, TypeOK
  <1>1. /\ pc[t] = "control" /\ lock.owner \in {NoThread, t} /\ UNCHANGED slot
        /\ head' = tail /\ UNCHANGED <<tail, buffer, canBeUsed>>
        /\ result' = [result EXCEPT ![t] = Void]
    BY DEF Clear, Control, InOneSection, CanLock, Return
  <1>2. slot[t] = NULL
    BY <1>1, LockInvByThread DEF LockInvAt, WritesSlot
  <1>3. Queue' = <<>>
    BY <1>1, <1>2, QueueUnreserved, BetweenEmpty
  <1>4. Abstract!Clear(t)
    BY <1>1, <1>3 DEF Abstract!Clear, Abstract!Returns
  <1>. QED
    BY <1>4 DEF Abstract!Next

LEMMA RefineClearExcept ==
    ASSUME RefineInv, RefineInv', NEW t \in Threads, ClearExcept(t)
    PROVE  Abstract!Next
  <1>. DEFINE m == call[t].msg
              p == Prev_(tail)
  <1>. /\ LockInv /\ LockInv' /\ tail \in Slots /\ buffer \in [Slots -> Values]
       /\ m \in Values
    BY DEF RefineInv, LockInv, TypeOK
  <1>1. /\ pc[t] = "control" /\ lock.owner \in {NoThread, t} /\ UNCHANGED slot
        /\ head' = p /\ UNCHANGED <<tail, canBeUsed>>
        /\ buffer' = [buffer EXCEPT ![tail] = m]
        /\ result' = [result EXCEPT ![t] = Void]
    BY DEF ClearExcept, Control, InOneSection, CanLock, Return
  <1>2. slot[t] = NULL
    BY <1>1, LockInvByThread DEF LockInvAt, WritesSlot
  <1>3. p \in Slots /\ Next_(p) = tail /\ p # tail
    BY NextPrev, SlotsStayInside
  <1>4. Queue' = Between(p, Next_(p), [buffer EXCEPT ![Next_(p)] = m])
    BY <1>1, <1>2, <1>3, QueueUnreserved
  <1>. HIDE DEF p, m
  <1>5. Queue' = Append(Between(p, p, buffer), m)
    BY <1>3, <1>4, BetweenAppend
  <1>6. Queue' = <<m>>
    <2>1. Between(p, p, buffer) = <<>>
      BY <1>3, BetweenEmpty
    <2>2. Append(<<>>, m) = <<m>>
      OBVIOUS
    <2>. QED
      BY <1>5, <2>1, <2>2
  <1>7. Abstract!ClearExcept(t, m)
    BY <1>1, <1>6 DEF Abstract!ClearExcept, Abstract!Returns
  <1>. QED
    BY <1>7 DEF Abstract!Next, Abstract!Values, Values

\* A full or an empty array that nobody has reserved a slot of.
LEMMA QueueLimits ==
    ASSUME LockInv, NEW t \in Threads, lock.owner \in {NoThread, t}, slot[t] = NULL
    PROVE  /\ IsFull => Len(Queue) = MaxSize
           /\ Count_ = 0 => Queue = <<>>
  <1>. /\ head \in Slots /\ tail \in Slots /\ buffer \in [Slots -> Values]
    BY DEF LockInv, TypeOK
  <1>1. \A ops : ~Reserved(ops)
    BY OneReservation, MQAssumption DEF Reserved
  <1>2. Queue = Between(head, tail, buffer)
    BY <1>1, QueueIs DEF HeadSlot, TailSlot
  <1>3. Len(Queue) = Distance(head, tail) /\ Count_ = Distance(head, tail)
    BY <1>2, BetweenType DEF Count_, Distance
  <1>4. IsFull => Distance(head, tail) = MaxSize
    BY MQAssumption DEF IsFull, Prev_, Distance, Slots
  <1>5. Count_ = 0 => Queue = <<>>
    BY <1>2, <1>3, AfterType, BetweenEmpty
  <1>. QED
    BY <1>3, <1>4, <1>5

LEMMA RefineSend ==
    ASSUME RefineInv, RefineInv', NEW t \in Threads, SendStep(t)
    PROVE  AbstractStep
  <1>. LockInv /\ LockInv' /\ TypeOK
    BY DEF RefineInv, LockInv
  <1>1. ASSUME NEW v \in {FALSE, Void}, result' = [result EXCEPT ![t] = v],
               UNCHANGED <<Queue, canBeUsed>>, ~canBeUsed \/ Len(Queue) = MaxSize
        PROVE  AbstractStep
    <2>1. Abstract!Refuse(t)
      BY <1>1 DEF Abstract!Refuse, Abstract!Returns
    <2>. QED
      BY <2>1 DEF AbstractStep, Abstract!Next
  <1>2. ASSUME pc[t] \in {"reserve", "tryReserve"}
        PROVE  slot[t] = NULL
    BY <1>2, LockInvByThread DEF LockInvAt, WritesSlot
  <1>3. CASE ReserveRefused(t)
    <2>1. /\ slot[t] = NULL /\ ~canBeUsed /\ UNCHANGED <<head, tail, buffer, slot, canBeUsed>>
          /\ \A u \in Threads : u # t => call'[u] = call[u]
      BY <1>2, <1>3 DEF ReserveRefused, NoSlot, Return, Continue, ring, TypeOK
    <2>2. UNCHANGED Queue
      BY <2>1, SameQueue
    <2>3. UNCHANGED result \/ \E v \in {FALSE, Void} : result' = [result EXCEPT ![t] = v]
      BY <1>3 DEF ReserveRefused, NoSlot, Return, Continue
    <2>. QED
      BY <1>1, <2>1, <2>2, <2>3 DEF AbstractStep
  <1>4. CASE ReserveBlocks(t)
    BY <1>4, SameQueue DEF ReserveBlocks, Continue, ring, AbstractStep
  <1>5. CASE ReserveSlot(t)
    BY <1>5, RefineReserve DEF AbstractStep
  <1>6. CASE TryReserve(t)
    <2>1. /\ slot[t] = NULL /\ UNCHANGED <<head, tail, buffer, slot, canBeUsed>>
          /\ \A u \in Threads : u # t => call'[u] = call[u]
          /\ lock.owner \in {NoThread, t}
      BY <1>2, <1>6 DEF TryReserve, Return, Continue, ring, CanLock, TypeOK
    <2>2. UNCHANGED Queue
      BY <2>1, SameQueue
    <2>3. UNCHANGED result \/ (IsFull /\ result' = [result EXCEPT ![t] = FALSE])
      BY <1>6 DEF TryReserve, Return, Continue
    <2>. QED
      BY <1>1, <2>1, <2>2, <2>3, QueueLimits DEF AbstractStep
  <1>7. CASE TryReserveUnlock(t)
    <2>1. /\ UNCHANGED <<head, tail, buffer, slot, canBeUsed>>
          /\ \A u \in Threads : u # t => call'[u] = call[u]
          /\ pc[t] = "tryUnlock" /\ call[t].op = "trySend"
          /\ IF slot[t] = NULL THEN result' = [result EXCEPT ![t] = FALSE]
             ELSE UNCHANGED <<call, result>>
      BY <1>7 DEF TryReserveUnlock, Return, Continue, ring, TypeOK
    <2>2. UNCHANGED Queue
      BY <2>1, SameQueue
    <2>3. slot[t] = NULL => ~canBeUsed
      BY <2>1 DEF RefineInv, Usable
    <2>. QED
      BY <1>1, <2>1, <2>2, <2>3 DEF AbstractStep
  <1>8. CASE Confirm(t)
    <2>1. Abstract!SendPriority(t, call[t].msg) \/ Abstract!Send(t, call[t].msg)
      BY <1>8, RefineConfirm
    <2>2. call[t].msg \in Values
      BY DEF TypeOK
    <2>. QED
      BY <2>1, <2>2 DEF AbstractStep, Abstract!Next, Abstract!Values, Values
  <1>. QED
    BY <1>3, <1>4, <1>5, <1>6, <1>7, <1>8 DEF SendStep

LEMMA RefineReceive ==
    ASSUME RefineInv, RefineInv', NEW t \in Threads, ReceiveStep(t)
    PROVE  AbstractStep
  <1>. LockInv /\ LockInv' /\ TypeOK
    BY DEF RefineInv, LockInv
  <1>1. slot[t] = NULL
    BY LockInvByThread
    DEF ReceiveStep, ReceiveRefused, ReceiveBlocks, ReceiveTakes, TryReceive,
        TryReceiveUnlock, LockInvAt, WritesSlot, AllSendOps
  <1>2. CASE ReceiveTakes(t)
    BY <1>2, RefineTakes DEF AbstractStep, Abstract!Next
  <1>3. CASE ~ReceiveTakes(t)
    <2>1. /\ UNCHANGED <<head, tail, buffer, slot, canBeUsed>>
          /\ \A u \in Threads : u # t => call'[u] = call[u]
      BY <1>3
      DEF ReceiveStep, ReceiveRefused, ReceiveBlocks, TryReceive,
          TryReceiveUnlock, Received, Return, Continue, ring, TypeOK
    <2>2. UNCHANGED Queue
      BY <1>1, <2>1, SameQueue
    <2>3. CASE ReceiveRefused(t)
      <3>1. PICK v \in Uninit : result' = [result EXCEPT ![t] = v]
        BY <2>3 DEF ReceiveRefused, Received, Return
      <3>2. Abstract!ReceiveNothing(t)
        BY <2>1, <2>2, <2>3, <3>1
        DEF ReceiveRefused, Abstract!ReceiveNothing, Abstract!Returns
      <3>. QED
        BY <3>2 DEF AbstractStep, Abstract!Next
    <2>4. CASE TryReceive(t)
      <3>1. CASE Count_ = 0
        <4>1. Queue = <<>> /\ result' = [result EXCEPT ![t] = FALSE]
          BY <1>1, <2>4, <3>1, QueueLimits DEF TryReceive, Return, CanLock
        <4>2. Abstract!NothingToReceive(t)
          BY <2>1, <2>2, <4>1 DEF Abstract!NothingToReceive, Abstract!Returns
        <4>. QED
          BY <4>2 DEF AbstractStep, Abstract!Next
      <3>2. CASE Count_ # 0
        BY <2>1, <2>2, <2>4, <3>2 DEF TryReceive, Continue, AbstractStep
      <3>. QED
        BY <3>1, <3>2
    <2>5. CASE ReceiveBlocks(t) \/ TryReceiveUnlock(t)
      BY <2>1, <2>2, <2>5
      DEF ReceiveBlocks, TryReceiveUnlock, Return, Continue, AbstractStep, TypeOK
    <2>. QED
      BY <1>3, <2>3, <2>4, <2>5 DEF ReceiveStep
  <1>. QED
    BY <1>2, <1>3

LEMMA RefineControl ==
    ASSUME RefineInv, RefineInv', NEW t \in Threads, ControlStep(t)
    PROVE  AbstractStep
  <1>. LockInv /\ LockInv' /\ TypeOK
    BY DEF RefineInv, LockInv
  <1>1. CASE Clear(t)
    BY <1>1, RefineClear DEF AbstractStep
  <1>2. CASE ClearExcept(t)
    BY <1>2, RefineClearExcept DEF AbstractStep
  <1>3. CASE SetCanBeUsed(t) \/ WeakUpSender(t) \/ WeakUpReceiver(t) \/ Observe(t)
    <2>1. /\ UNCHANGED <<head, tail, buffer, slot>>
          /\ \A u \in Threads : u # t => call'[u] = call[u]
          /\ pc[t] = "control"
      BY <1>3
      DEF SetCanBeUsed, WeakUpSender, WeakUpReceiver, Observe, Control, Return, ring, TypeOK
    <2>2. slot[t] = NULL
      BY <2>1, LockInvByThread DEF LockInvAt, WritesSlot
    <2>3. UNCHANGED Queue
      BY <2>1, <2>2, SameQueue
    <2>4. ASSUME SetCanBeUsed(t) PROVE Abstract!SetUsable(t)
      BY <2>3, <2>4 DEF SetCanBeUsed, Return, Abstract!SetUsable, Abstract!Returns
    <2>5. ASSUME result' = [result EXCEPT ![t] = Void], UNCHANGED canBeUsed
          PROVE  Abstract!Forget(t)
      BY <2>3, <2>5 DEF Abstract!Forget, Abstract!Returns
    <2>6. ASSUME result' = [result EXCEPT ![t] = canBeUsed], UNCHANGED canBeUsed
          PROVE  Abstract!GetUsable(t)
      BY <2>3, <2>6 DEF Abstract!GetUsable, Abstract!Returns
    <2>7. Abstract!SetUsable(t) \/ Abstract!Forget(t) \/ Abstract!GetUsable(t)
      BY <1>3, <2>4, <2>5, <2>6 DEF WeakUpSender, WeakUpReceiver, Observe, Return
    <2>. QED
      BY <2>7 DEF AbstractStep, Abstract!Next
  <1>. QED
    BY <1>1, <1>2, <1>3 DEF ControlStep

LEMMA RefineNext == RefineInv /\ [Next]_vars => [Abstract!Next]_(Abstract!vars)
  <1>. SUFFICES ASSUME RefineInv, [Next]_vars PROVE AbstractStep
    BY DEF AbstractStep, Abstract!vars
  <1>. RefineInv' /\ TypeOK
    BY UsableNext DEF RefineInv, LockInv
  <1>1. CASE UNCHANGED vars
    BY <1>1, SameQueue DEF vars, AbstractStep
  <1>2. ASSUME NEW t \in Threads, Call(t) PROVE AbstractStep
    <2>1. /\ UNCHANGED <<head, tail, buffer, slot, canBeUsed>> /\ pc[t] = "idle"
          /\ result' = [result EXCEPT ![t] = Void]
          /\ \A u \in Threads : u # t => call'[u] = call[u]
      BY <1>2 DEF Call, ring, TypeOK
    <2>2. slot[t] = NULL
      BY <2>1, LockInvByThread DEF RefineInv, LockInvAt, WritesSlot
    <2>3. UNCHANGED Queue
      BY <2>1, <2>2, SameQueue
    <2>4. Abstract!Forget(t)
      BY <2>1, <2>3 DEF Abstract!Forget, Abstract!Returns
    <2>. QED
      BY <2>4 DEF AbstractStep, Abstract!Next
  <1>3. ASSUME NEW t \in Threads, SpuriousWake(t) PROVE AbstractStep
    BY <1>3, SameQueue DEF SpuriousWake, ring, AbstractStep
  <1>. QED
    BY <1>1, <1>2, <1>3, RefineSend, RefineReceive, RefineControl DEF Next, Step

LEMMA RefineInit == Init => Abstract!Init
  <1>. SUFFICES ASSUME Init PROVE Abstract!Init
    OBVIOUS
  <1>1. LockInv /\ head = tail /\ head \in Slots /\ buffer \in [Slots -> Values]
    BY LockInit DEF Init, LockInv, TypeOK
  <1>2. \A ops : ~Reserved(ops)
    BY DEF Init, Reserved
  <1>3. Queue = <<>>
    BY <1>1, <1>2, QueueIs, BetweenEmpty DEF HeadSlot, TailSlot
  <1>. QED
    BY <1>3 DEF Init, Abstract!Init

\* The circular array under its lock, with its two conditions, is the bounded
\* queue with two ways in, one way out and a switch: a method takes effect in one
\* step, messages keep their order and none is lost, doubled or made up.
THEOREM QueueIsImplemented == Spec => Implements
  BY RefineInit, RefineNext, UsableInit, UsableNext, PTL
  DEF Spec, Implements, Abstract!Spec
-----------------------------------------------------------------------------
(***************************************************************************)
(* The callers that turn the queue off (MQShutdown).                       *)
(***************************************************************************)
Points == {"send", "receive", "check", "stop", "wakeSender", "wakeReceiver"}

PointsTypeOK ==
    /\ at \in [Threads -> Points \cup {"quit"}]
    /\ got \in [Receivers -> Values \cup BOOLEAN \cup {Void}]

\* A thread inside a method is inside the one its loop calls, a producer sends
\* messages, and a consumer that is about to ask, or is asking, has received one
\* unless the queue has been turned off.
LoopAgrees(t) ==
    /\ pc[t] # "idle" => at[t] # "quit" /\ call[t].op = Program[at[t]]
    /\ call[t].op = "send" => call[t].msg \in Messages
    /\ t \in Receivers /\ at[t] = "check" /\ canBeUsed => got[t] \in Messages

ShutdownInv ==
    /\ RefineInv
    /\ PointsTypeOK
    /\ Queue \in Seq(Messages)
    /\ \A t \in Threads : LoopAgrees(t)

-----------------------------------------------------------------------------
LEMMA ReceiversAreThreads == Receivers \subseteq Threads
  BY DEF Threads

\* What the loops call, and the argument of send().
LEMMA ProgramOps ==
    ASSUME ShutdownInv, NEW t \in Threads, pc[t] # "idle"
    PROVE  /\ call[t].op = Program[at[t]]
           /\ call[t].op \in {"send", "receive", "canBeUsed", "stopUse",
                              "weakUpSender", "weakUpReceiver"}
           /\ at[t] = "receive" <=> call[t].op = "receive"
           /\ at[t] = "check" <=> call[t].op = "canBeUsed"
  <1>1. at[t] \in Points /\ call[t].op = Program[at[t]]
    BY DEF ShutdownInv, PointsTypeOK, LoopAgrees
  <1>. QED
    BY <1>1 DEF Points, Program

\* Nothing turns the queue on again.
LEMMA NeverTurnedOn ==
    ASSUME ShutdownInv, NEW t \in Threads, Step(t)
    PROVE  canBeUsed' => canBeUsed
  <1>1. CASE ControlStep(t)
    <2>1. pc[t] = "control"
      BY <1>1 DEF ControlStep, Clear, ClearExcept, SetCanBeUsed, WeakUpSender,
                  WeakUpReceiver, Observe, Control
    <2>2. call[t].op # "startUse"
      BY <2>1, ProgramOps
    <2>. QED
      BY <1>1, <2>2 DEF ControlStep, Clear, ClearExcept, SetCanBeUsed, WeakUpSender,
                        WeakUpReceiver, Observe, Control
  <1>2. CASE SendStep(t)
    BY <1>2 DEF SendStep, ReserveRefused, ReserveBlocks, ReserveSlot, TryReserve,
                TryReserveUnlock, Confirm
  <1>3. CASE ReceiveStep(t)
    BY <1>3 DEF ReceiveStep, ReceiveRefused, ReceiveBlocks, ReceiveTakes, TryReceive,
                TryReceiveUnlock
  <1>. QED
    BY <1>1, <1>2, <1>3 DEF Step

\* Only messages enter the queue.
LEMMA MessagesAreQueued ==
    ASSUME ShutdownInv, RefineInv', NEW t \in Threads, Step(t)
    PROVE  Queue' \in Seq(Messages)
  <1>. /\ RefineInv /\ LockInv /\ LockInv' /\ TypeOK /\ Queue \in Seq(Messages)
    BY DEF ShutdownInv, RefineInv, LockInv
  <1>1. CASE SendStep(t)
    <2>1. CASE Confirm(t)
      <3>1. pc[t] = "filling" /\ call[t].op \in AllSendOps
        BY <2>1, LockInvByThread DEF Confirm, LockInvAt, RoleAgrees
      <3>2. call[t].op = "send"
        BY <3>1, ProgramOps DEF AllSendOps
      <3>3. call[t].msg \in Messages
        BY <3>2 DEF ShutdownInv, LoopAgrees
      <3>4. Queue' = Append(Queue, call[t].msg)
        BY <2>1, <3>2, RefineConfirm DEF Abstract!Send
      <3>. QED
        BY <3>3, <3>4, AppendProperties
    <2>2. CASE ReserveSlot(t)
      BY <2>2, RefineReserve
    <2>3. CASE ReserveRefused(t) \/ ReserveBlocks(t) \/ TryReserve(t) \/ TryReserveUnlock(t)
      <3>1. UNCHANGED <<head, tail, buffer, slot>> /\ pc[t] # "idle"
        BY <2>3 DEF ReserveRefused, ReserveBlocks, TryReserve, TryReserveUnlock, ring
      <3>2. slot[t] = NULL
        <4>1. pc[t] \notin {"tryUnlock", "filling"}
          BY <2>3, <3>1, ProgramOps
          DEF ReserveRefused, ReserveBlocks, TryReserve, TryReserveUnlock
        <4>. QED
          BY <4>1, LockInvByThread DEF LockInvAt, WritesSlot
      <3>3. \A u \in Threads : u # t => call'[u] = call[u]
        BY <2>3 DEF ReserveRefused, ReserveBlocks, TryReserve, TryReserveUnlock, NoSlot,
                    Return, Continue, TypeOK
      <3>. QED
        BY <3>1, <3>2, <3>3, SameQueue
    <2>. QED
      BY <1>1, <2>1, <2>2, <2>3 DEF SendStep
  <1>2. CASE ReceiveStep(t)
    <2>1. CASE ReceiveTakes(t)
      <3>1. Queue # <<>> /\ Queue' = Tail(Queue)
        BY <2>1, RefineTakes DEF Abstract!Receive
      <3>. QED
        BY <3>1, HeadTailProperties
    <2>2. CASE ~ReceiveTakes(t)
      <3>1. /\ UNCHANGED <<head, tail, buffer, slot>>
            /\ \A u \in Threads : u # t => call'[u] = call[u]
        BY <1>2, <2>2
        DEF ReceiveStep, ReceiveRefused, ReceiveBlocks, TryReceive,
            TryReceiveUnlock, Received, Return, Continue, ring, TypeOK
      <3>2. slot[t] = NULL
        BY <1>2, LockInvByThread
        DEF ReceiveStep, ReceiveRefused, ReceiveBlocks, ReceiveTakes, TryReceive,
            TryReceiveUnlock, LockInvAt, WritesSlot, AllSendOps
      <3>. QED
        BY <3>1, <3>2, SameQueue
    <2>. QED
      BY <2>1, <2>2
  <1>3. CASE ControlStep(t)
    <2>1. pc[t] = "control"
      BY <1>3 DEF ControlStep, Clear, ClearExcept, SetCanBeUsed, WeakUpSender,
                  WeakUpReceiver, Observe, Control
    <2>2. call[t].op # "clear" /\ call[t].op # "clearExcept"
      BY <2>1, ProgramOps
    <2>3. /\ UNCHANGED <<head, tail, buffer, slot>>
          /\ \A u \in Threads : u # t => call'[u] = call[u]
      BY <1>3, <2>2
      DEF ControlStep, Clear, ClearExcept, SetCanBeUsed, WeakUpSender, WeakUpReceiver,
          Observe, Control, Return, ring, TypeOK
    <2>4. slot[t] = NULL
      BY <2>1, LockInvByThread DEF LockInvAt, WritesSlot
    <2>. QED
      BY <2>3, <2>4, SameQueue
  <1>. QED
    BY <1>1, <1>2, <1>3 DEF Step

\* receive() that returns while the queue is in use returns a message.
LEMMA MessageIsReceived ==
    ASSUME ShutdownInv, RefineInv', NEW t \in Threads, Step(t),
           at[t] = "receive", pc[t] # "idle", pc'[t] = "idle", canBeUsed
    PROVE  result'[t] \in Messages
  <1>. RefineInv /\ LockInv /\ TypeOK /\ Queue \in Seq(Messages)
    BY DEF ShutdownInv, RefineInv, LockInv
  <1>1. call[t].op = "receive"
    BY ProgramOps
  <1>2. ReceiveStep(t)
    BY <1>1, LockInvByThread
    DEF Step, SendStep, ReserveRefused, ReserveBlocks, ReserveSlot, TryReserve,
        TryReserveUnlock, Confirm, ControlStep, Clear, ClearExcept, SetCanBeUsed,
        WeakUpSender, WeakUpReceiver, Observe, Control, LockInvAt, RoleAgrees, AllSendOps
  <1>3. ReceiveTakes(t)
    <2>1. ~TryReceive(t) /\ ~TryReceiveUnlock(t)
      BY <1>1, LockInvByThread DEF TryReceive, TryReceiveUnlock, LockInvAt, RoleAgrees
    <2>2. ~ReceiveBlocks(t)
      BY MovesLabels DEF ReceiveBlocks, Continue
    <2>. QED
      BY <1>2, <2>1, <2>2 DEF ReceiveStep, ReceiveRefused
  <1>4. Queue # <<>> /\ result' = [result EXCEPT ![t] = Head(Queue)]
    BY <1>3, RefineTakes DEF Abstract!Receive, Abstract!Returns
  <1>5. Head(Queue) \in Messages
    BY <1>4, HeadTailProperties
  <1>. QED
    BY <1>4, <1>5 DEF TypeOK

\* canBeUsed() answers what is true when it answers.
LEMMA AnswerIsTrue ==
    ASSUME ShutdownInv, NEW t \in Threads, Step(t), at[t] = "check",
           pc[t] # "idle", pc'[t] = "idle"
    PROVE  result'[t] = canBeUsed /\ canBeUsed \in BOOLEAN
  <1>. LockInv /\ TypeOK
    BY DEF ShutdownInv, RefineInv, LockInv
  <1>1. call[t].op = "canBeUsed"
    BY ProgramOps
  <1>2. Observe(t)
    BY <1>1, LockInvByThread
    DEF Step, SendStep, ReserveRefused, ReserveBlocks, ReserveSlot, TryReserve,
        TryReserveUnlock, Confirm, ReceiveStep, ReceiveRefused, ReceiveBlocks,
        ReceiveTakes, TryReceive, TryReceiveUnlock, ControlStep, Clear, ClearExcept,
        SetCanBeUsed, WeakUpSender, WeakUpReceiver, Control, LockInvAt, RoleAgrees,
        AllSendOps, AllReceiveOps
  <1>. QED
    BY <1>1, <1>2 DEF Observe, Control, Return, TypeOK

-----------------------------------------------------------------------------
LEMMA ShutdownInvInit == ShutdownInit => ShutdownInv
  <1>. SUFFICES ASSUME ShutdownInit PROVE ShutdownInv
    OBVIOUS
  <1>1. RefineInv
    BY UsableInit DEF ShutdownInit
  <1>2. Queue = <<>>
    BY RefineInit DEF ShutdownInit, Abstract!Init
  <1>3. PointsTypeOK
    BY DEF ShutdownInit, PointsTypeOK, Points, Values
  <1>4. \A t \in Threads : LoopAgrees(t)
    BY ShutdownAssumption DEF ShutdownInit, Init, LoopAgrees, NoCall, Threads
  <1>. QED
    BY <1>1, <1>2, <1>3, <1>4 DEF ShutdownInv

\* Where the loops are after a step of one of them.
LEMMA LoopMoves ==
    ASSUME ShutdownInv, RefineInv', NEW t \in Threads, Steps(t)
    PROVE  /\ PointsTypeOK'
           /\ \A u \in Threads \ {t} : at'[u] = at[u]
           /\ \A u \in Receivers \ {t} : got'[u] = got[u]
           /\ pc[t] # "idle"
           /\ at'[t] = "check" /\ t \in Receivers /\ at' # at
                => at[t] = "receive" /\ pc'[t] = "idle" /\ got'[t] = result'[t]
  <1>1. pc[t] # "idle"
    BY DEF Steps, Step, SendStep, ReserveRefused, ReserveBlocks, ReserveSlot, TryReserve,
        TryReserveUnlock, Confirm, ReceiveStep, ReceiveRefused, ReceiveBlocks,
        ReceiveTakes, TryReceive, TryReceiveUnlock, ControlStep, Clear, ClearExcept,
        SetCanBeUsed, WeakUpSender, WeakUpReceiver, Observe, Control
  <1>2. at[t] \in Points
    BY <1>1 DEF ShutdownInv, PointsTypeOK, LoopAgrees
  <1>3. result'[t] \in Values \cup BOOLEAN \cup {Void}
    BY DEF RefineInv, LockInv, TypeOK
  <1>4. /\ After(t, result'[t]) \in Points \cup {"quit"}
        /\ After(t, result'[t]) = "check" => at[t] = "receive"
    BY <1>2 DEF After, Points
  <1>. PointsTypeOK
    BY DEF ShutdownInv
  <1>5. CASE pc'[t] = "idle"
    <2>1. at' = [at EXCEPT ![t] = After(t, result'[t])]
      BY <1>5 DEF Steps
    <2>2. got' = IF at[t] = "receive" THEN [got EXCEPT ![t] = result'[t]] ELSE got
      BY <1>5 DEF Steps
    <2>. QED
      BY <1>1, <1>3, <1>4, <1>5, <2>1, <2>2, ReceiversAreThreads DEF PointsTypeOK
  <1>6. CASE pc'[t] # "idle"
    BY <1>1, <1>6 DEF Steps, PointsTypeOK
  <1>. QED
    BY <1>5, <1>6

LEMMA LoopStep ==
    ASSUME ShutdownInv, RefineInv', NEW t \in Threads, Steps(t), NEW u \in Threads
    PROVE  LoopAgrees(u)'
  <1>. /\ RefineInv /\ LockInv /\ TypeOK /\ LoopAgrees(u) /\ Step(t)
    BY DEF ShutdownInv, RefineInv, LockInv, Steps
  <1>1. canBeUsed' => canBeUsed
    BY NeverTurnedOn
  <1>2. PICK label, woken : /\ Moves(t, label, woken)
                            /\ \/ call' = call
                               \/ label = "idle" /\ call' = [call EXCEPT ![t] = NoCall]
    BY DEF Step, SendStep, ReserveRefused, ReserveBlocks, ReserveSlot, TryReserve,
        TryReserveUnlock, Confirm, ReceiveStep, ReceiveRefused, ReceiveBlocks,
        ReceiveTakes, TryReceive, TryReceiveUnlock, ControlStep, Clear, ClearExcept,
        SetCanBeUsed, WeakUpSender, WeakUpReceiver, Observe, Control, NoSlot, Received,
        Return, Continue
  <1>3. CASE u # t
    <2>1. pc'[u] # "idle" => pc[u] # "idle"
      BY <1>2, <1>3, MovesLabels
    <2>2. call'[u] = call[u] /\ at'[u] = at[u] /\ (u \in Receivers => got'[u] = got[u])
      BY <1>2, <1>3, LoopMoves DEF TypeOK
    <2>. QED
      BY <1>1, <2>1, <2>2 DEF LoopAgrees
  <1>4. CASE u = t
    <2>1. pc[t] # "idle"
      BY LoopMoves
    <2>2. pc'[t] # "idle" => call'[t] = call[t] /\ UNCHANGED <<at, got>>
      BY <1>2, MovesLabels DEF Steps
    <2>3. call'[t] = call[t] \/ call'[t].op # "send"
      BY <1>2 DEF TypeOK, NoCall
    <2>4. ASSUME t \in Receivers, at'[t] = "check", canBeUsed'
          PROVE  got'[t] \in Messages
      <3>1. CASE at' # at
        BY <1>1, <2>1, <2>4, <3>1, LoopMoves, MessageIsReceived
      <3>2. CASE at' = at
        <4>1. got' = got
          BY <2>4, <3>2 DEF Steps
        <4>. QED
          BY <1>1, <1>4, <2>4, <3>2, <4>1 DEF LoopAgrees
      <3>. QED
        BY <3>1, <3>2
    <2>. QED
      BY <1>4, <2>1, <2>2, <2>3, <2>4 DEF LoopAgrees
  <1>. QED
    BY <1>3, <1>4

LEMMA LoopCall ==
    ASSUME ShutdownInv, NEW t \in Threads, Calls(t), NEW u \in Threads
    PROVE  LoopAgrees(u)'
  <1>. LockInv /\ TypeOK /\ LoopAgrees(u)
    BY DEF ShutdownInv, RefineInv, LockInv
  <1>1. PICK op \in AllOps, m \in Values :
          /\ \/ t \in Senders /\ op \in SendOps /\ m \in Messages
             \/ t \in Receivers /\ op \in ReceiveOps /\ m = Default
             \/ t \in Controllers /\ op \in ControlOps /\ m = Default
          /\ Moves(t, Entry(op), {})
          /\ call' = [call EXCEPT ![t] = [op |-> op, msg |-> m]]
    BY DEF Calls, Call
  <1>2. op = "send" => m \in Messages
    BY <1>1, ShutdownAssumption
  <1>3. UNCHANGED <<at, got, canBeUsed>> /\ at[t] # "quit" /\ call'[t].op = Program[at[t]]
    BY DEF Calls, Call
  <1>4. CASE u # t
    BY <1>1, <1>3, <1>4, MovesLabels DEF LoopAgrees, TypeOK
  <1>5. CASE u = t
    BY <1>1, <1>2, <1>3, <1>5 DEF LoopAgrees, TypeOK
  <1>. QED
    BY <1>4, <1>5

LEMMA ShutdownInvNext == ShutdownInv /\ [ShutdownNext]_shutdownVars => ShutdownInv'
  <1>. SUFFICES ASSUME ShutdownInv, [ShutdownNext]_shutdownVars PROVE ShutdownInv'
    OBVIOUS
  <1>. RefineInv /\ LockInv /\ TypeOK /\ PointsTypeOK /\ Queue \in Seq(Messages)
    BY DEF ShutdownInv, RefineInv, LockInv
  <1>1. [Next]_vars
    BY DEF ShutdownNext, shutdownVars, Calls, Steps, Next
  <1>2. RefineInv'
    BY <1>1, UsableNext
  <1>3. ASSUME UNCHANGED <<head, tail, buffer, canBeUsed, call, slot, at, got>>,
               \A u \in Threads : pc'[u] # "idle" => pc[u] # "idle"
        PROVE  ShutdownInv'
    <2>1. UNCHANGED Queue
      BY <1>3, SameQueue
    <2>2. \A u \in Threads : LoopAgrees(u)'
      BY <1>3 DEF ShutdownInv, LoopAgrees
    <2>. QED
      BY <1>2, <1>3, <2>1, <2>2 DEF ShutdownInv, PointsTypeOK
  <1>4. CASE UNCHANGED shutdownVars
    BY <1>3, <1>4 DEF shutdownVars, vars
  <1>5. ASSUME NEW t \in Threads, SpuriousWake(t), UNCHANGED <<at, got>>
        PROVE  ShutdownInv'
    BY <1>3, <1>5 DEF SpuriousWake, ring, TypeOK
  <1>6. ASSUME NEW t \in Threads, Calls(t) PROVE ShutdownInv'
    <2>1. /\ UNCHANGED <<head, tail, buffer, slot, at, got>> /\ pc[t] = "idle"
          /\ \A u \in Threads : u # t => call'[u] = call[u]
      BY <1>6 DEF Calls, Call, ring, TypeOK
    <2>2. slot[t] = NULL
      BY <2>1, LockInvByThread DEF LockInvAt, WritesSlot
    <2>3. UNCHANGED Queue
      BY <2>1, <2>2, SameQueue
    <2>. QED
      BY <1>2, <1>6, <2>1, <2>3, LoopCall DEF ShutdownInv, PointsTypeOK
  <1>7. ASSUME NEW t \in Threads, Steps(t) PROVE ShutdownInv'
    <2>1. Queue' \in Seq(Messages)
      BY <1>2, <1>7, MessagesAreQueued DEF Steps
    <2>. QED
      BY <1>2, <1>7, <2>1, LoopMoves, LoopStep DEF ShutdownInv
  <1>. QED
    BY <1>4, <1>5, <1>6, <1>7 DEF ShutdownNext

-----------------------------------------------------------------------------
\* A consumer that goes on to the next receive() has processed a message: it was
\* told that the queue is in use after its receive() returned, the queue is never
\* turned on again, so that receive() was not refused and took a message.
LEMMA CheckedIsMessage ==
    ShutdownInv /\ [ShutdownNext]_shutdownVars =>
        \A t \in Receivers : (at[t] = "check" /\ at'[t] = "receive") => got[t] \in Messages
  <1>. SUFFICES ASSUME ShutdownInv, [ShutdownNext]_shutdownVars, NEW t \in Receivers,
                       at[t] = "check", at'[t] = "receive"
                PROVE  got[t] \in Messages
    OBVIOUS
  <1>. t \in Threads /\ PointsTypeOK
    BY ReceiversAreThreads DEF ShutdownInv
  <1>1. RefineInv'
    BY ShutdownInvNext DEF ShutdownInv
  <1>2. PICK u \in Threads : Steps(u)
    BY DEF ShutdownNext, shutdownVars, Calls
  <1>3. u = t
    BY <1>1, <1>2, LoopMoves
  <1>4. pc[t] # "idle" /\ pc'[t] = "idle" /\ at'[t] = After(t, result'[t])
    BY <1>1, <1>2, <1>3, LoopMoves DEF Steps, PointsTypeOK
  <1>5. result'[t] = canBeUsed /\ canBeUsed \in BOOLEAN
    BY <1>2, <1>3, <1>4, AnswerIsTrue DEF Steps
  <1>6. canBeUsed
    BY <1>4, <1>5 DEF After
  <1>. QED
    BY <1>6 DEF ShutdownInv, LoopAgrees

\* What a refused receive() returns is never processed by a consumer that asks
\* canBeUsed() before it uses what it received (mq.h:227).
THEOREM MessagesAreProcessed == ShutdownSpec => OnlyMessagesAreProcessed
  BY ShutdownInvInit, ShutdownInvNext, CheckedIsMessage, PTL
  DEF ShutdownSpec, OnlyMessagesAreProcessed
=============================================================================
