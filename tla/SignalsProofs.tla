--------------------------- MODULE SignalsProofs ---------------------------
(***************************************************************************)
(* Proofs about Signals, for any number of threads, signals, functions and *)
(* registrations, and with all methods that send and receive.              *)
(***************************************************************************)
EXTENDS Signals, MQProofs, SequenceTheorems, FiniteSetTheorems

(***************************************************************************)
(* The lock, when sig_term may change the queue in the hands of the thread *)
(* that holds it.  LockInv of MQProofs is too strong then: a handler fills *)
(* a queue of one slot between the test of tryReserve() and reserve(),     *)
(* which blocks with the lock held.                                        *)
(***************************************************************************)
Within(t) == inside[t].point # "out"

Trying(t) == call[t].op \in {"trySend", "tryReceive"}

Role(t) ==
    /\ pc[t] = "tryReserve" => call[t].op = "trySend"
    /\ pc[t] \in {"reserve", "notFull", "filling"} => call[t].op \in AllSendOps
    /\ pc[t] = "tryReceive" => call[t].op = "tryReceive"
    /\ pc[t] \in {"receive", "notEmpty"} => call[t].op \in AllReceiveOps
    /\ pc[t] = "tryUnlock" => Trying(t)
    /\ call[t].op \in AllSendOps => t \in Senders
    /\ call[t].op \in AllReceiveOps => t \in Receivers

Holds(t) ==
    /\ pc[t] \in {"filling", "tryUnlock"} => lock.owner = t
    /\ pc[t] \in {"reserve", "notFull", "receive", "notEmpty"}
       => (lock.owner = t <=> Trying(t) \/ Within(t))
    /\ lock.owner = t =>
        /\ pc[t] \in {"reserve", "notFull", "filling", "tryUnlock", "receive", "notEmpty"}
        /\ lock.depth = IF (pc[t] = "tryUnlock" /\ slot[t] # NULL) \/ (Within(t) /\ Trying(t))
                        THEN 2 ELSE 1

\* sig_term in its owner does the slot no harm, if there is one more.
Harmless(t) == t \in hit => MaxSize > 1

Slot(t) ==
    /\ pc[t] = "filling" => slot[t] # NULL
    /\ slot[t] # NULL =>
        /\ pc[t] \in {"filling", "tryUnlock"} /\ call[t].op \in AllSendOps
        /\ call[t].op # "sendPriority" => slot[t] = tail
        /\ call[t].op # "sendPriority" /\ Harmless(t) => ~IsEmpty
        /\ call[t].op = "sendPriority" /\ t \notin hit => slot[t] = Next_(head) /\ ~IsEmpty

\* A thread at a point of its section; one that reserves has room.
Section(t) ==
    /\ Within(t) => pc[t] \in {"reserve", "receive"}
    /\ At(t, "read") => Receiving(t)
    /\ Reserving(t) /\ inside[t].point \in {"look", "signal", "move"} =>
        /\ t \notin hit => inside[t].seen = head /\ inside[t].old = head
        /\ Harmless(t) => ~IsFull

ThreadInv(t) == Role(t) /\ Holds(t) /\ Slot(t) /\ Section(t)

InsideOK == inside \in [Threads -> [point : SectionPoints \cup {"out"}, seen : Slots, old : Slots]]

QueueInv ==
    /\ TypeOK /\ InsideOK
    /\ lock.owner = NoThread <=> lock.depth = 0
    /\ \A t \in Threads : ThreadInv(t)

LEMMA QueueInit == SignalsInit => QueueInv
  <1>. SUFFICES ASSUME Init, inside = [t \in Threads |-> Outside] PROVE QueueInv
    BY DEF SignalsInit
  <1>1. lock.owner = NoThread /\ lock.depth = 0 /\ \A t \in Threads : lock.owner # t
    BY MQAssumption DEF Init, Free
  <1>2. \A t \in Threads : pc[t] = "idle" /\ slot[t] = NULL /\ call[t].op = "none" /\ ~Within(t)
    BY DEF Init, NoCall, Within, Outside
  <1>3. \A t \in Threads : ThreadInv(t)
    BY <1>1, <1>2
    DEF ThreadInv, Role, Holds, Slot, Section, At, Within, Reserving, Trying, AllSendOps, AllReceiveOps
  <1>4. InsideOK
    <2>1. 0 \in Slots
      BY MQAssumption DEF Slots
    <2>. QED
      BY <2>1 DEF InsideOK, Outside
  <1>. QED
    BY <1>1, <1>3, <1>4, TypeInit DEF QueueInv

\* A thread that does not hold _lock is in no section and has no slot.
LEMMA OthersAreOut ==
    ASSUME QueueInv, NEW u \in Threads, lock.owner # u
    PROVE  ~Within(u) /\ slot[u] = NULL
  BY DEF QueueInv, ThreadInv, Holds, Slot, Section

\* A step of a thread that holds _lock, or takes it, does not disturb what the
\* invariant says of the other threads.
LEMMA QueueMove ==
    ASSUME QueueInv, TypeOK', InsideOK', NEW t \in Threads,
           lock.owner \in {NoThread, t}, lock'.owner \in {NoThread, t},
           lock'.owner = NoThread <=> lock'.depth = 0,
           \A u \in Threads \ {t} : /\ \/ pc'[u] = pc[u]
                                       \/ pc[u] = "notFull" /\ pc'[u] = "reserve"
                                       \/ pc[u] = "notEmpty" /\ pc'[u] = "receive"
                                    /\ call'[u] = call[u] /\ slot'[u] = slot[u]
                                    /\ inside'[u] = inside[u],
           ThreadInv(t)'
    PROVE  QueueInv'
  <1>1. ASSUME NEW u \in Threads \ {t} PROVE ThreadInv(u)'
    <2>1. ThreadInv(u) /\ lock.owner # u /\ lock'.owner # u
      BY MQAssumption DEF QueueInv
    <2>2. Role(u)'
      BY <2>1 DEF ThreadInv, Role, Trying, AllSendOps, AllReceiveOps
    <2>3. slot'[u] = NULL /\ slot[u] = NULL /\ ~Within(u) /\ ~Within(u)' /\ (Trying(u)' <=> Trying(u))
      BY <2>1, OthersAreOut DEF Within, Trying
    <2>4. Slot(u)' /\ Section(u)'
      BY <2>1, <2>3 DEF ThreadInv, Holds, Slot, Section, Within, At
    <2>5. Holds(u)'
      BY <2>1, <2>3 DEF ThreadInv, Holds
    <2>. QED
      BY <2>2, <2>4, <2>5 DEF ThreadInv
  <1>2. (\A u \in Threads : ThreadInv(u))'
    BY <1>1
  <1>. QED
    BY <1>2 DEF QueueInv

\* A step that moves no index and leaves the lock and the slots alone.
LEMMA QueueCall ==
    ASSUME QueueInv, NEW t \in Threads, Call(t), UNCHANGED inside,
           \A u \in hit : HasRoom(u)' => u \in hit'
    PROVE  QueueInv'
  <1>. TypeOK /\ TypeOK' /\ ThreadInv(t)
    BY TypeCall DEF QueueInv
  <1>1. PICK op \in AllOps, m \in Values :
            /\ \/ t \in Senders /\ op \in SendOps /\ m \in Messages
               \/ t \in Receivers /\ op \in ReceiveOps /\ m = Default
               \/ t \in Controllers /\ op \in ControlOps /\ m = Default
            /\ Moves(t, Entry(op), {})
            /\ call' = [call EXCEPT ![t] = [op |-> op, msg |-> m]]
    BY DEF Call
  <1>2. /\ pc'[t] = Entry(op) /\ pc[t] = "idle"
        /\ call'[t].op = op
        /\ \A u \in Threads \ {t} : pc'[u] = pc[u] /\ call'[u] = call[u]
    BY <1>1 DEF Moves, Call, TypeOK
  <1>3. /\ UNCHANGED <<head, tail, buffer, lock, slot>>
        /\ lock.owner # t /\ slot[t] = NULL /\ ~Within(t) /\ ~Within(t)'
    BY <1>2 DEF Call, ring, ThreadInv, Holds, Slot, Section, Within
  <1>4. /\ op \in AllSendOps => t \in Senders
        /\ op \in AllReceiveOps => t \in Receivers
    BY <1>1, MQAssumption DEF AllSendOps, AllReceiveOps, AllControlOps
  <1>5. /\ Entry(op) = "tryReserve" => op = "trySend"
        /\ Entry(op) = "reserve" => op \in {"send", "sendPriority"}
        /\ Entry(op) = "tryReceive" => op = "tryReceive"
        /\ Entry(op) = "receive" => op = "receive"
        /\ Entry(op) \in {"tryReserve", "reserve", "tryReceive", "receive", "control"}
    BY DEF Entry
  <1>6. Role(t)'
    BY <1>2, <1>4, <1>5 DEF Role, AllSendOps, AllReceiveOps
  <1>7. Holds(t)' /\ Slot(t)' /\ Section(t)'
    BY <1>2, <1>3, <1>5 DEF Holds, Slot, Section, Trying, Within, At
  <1>8. ASSUME NEW u \in Threads \ {t} PROVE ThreadInv(u)'
    <2>1. ThreadInv(u) /\ pc'[u] = pc[u] /\ call'[u] = call[u] /\ slot'[u] = slot[u]
      BY <1>2, <1>3 DEF QueueInv
    <2>2. u \in hit => u \in hit' \/ ~HasRoom(u)
      BY <1>3, <2>1 DEF HasRoom, Reserving
    <2>3. Role(u)' /\ Holds(u)'
      BY <1>3, <2>1 DEF ThreadInv, Role, Holds, Trying, Within
    <2>4. Slot(u)'
      BY <1>3, <2>1, <2>2 DEF ThreadInv, Slot, IsEmpty, Next_, HasRoom, Harmless
    <2>5. Section(u)'
      BY <1>3, <2>1, <2>2
      DEF ThreadInv, Section, IsFull, Prev_, HasRoom, Harmless, Within, At, Reserving, Receiving
    <2>. QED
      BY <2>3, <2>4, <2>5 DEF ThreadInv
  <1>9. (\A u \in Threads : ThreadInv(u))'
    BY <1>6, <1>7, <1>8 DEF ThreadInv
  <1>. QED
    BY <1>3, <1>9 DEF QueueInv, InsideOK

LEMMA QueueSpurious ==
    ASSUME QueueInv, NEW t \in Threads, SpuriousWake(t), UNCHANGED inside,
           \A u \in hit : HasRoom(u)' => u \in hit'
    PROVE  QueueInv'
  <1>1. TypeOK /\ TypeOK' /\ \A u \in Threads : ThreadInv(u)
    BY TypeNext DEF QueueInv, Next
  <1>2. /\ UNCHANGED <<head, tail, lock, call, slot>>
        /\ pc'[t] = IF pc[t] = "notFull" THEN "reserve" ELSE "receive"
        /\ pc[t] \in {"notFull", "notEmpty"}
        /\ \A u \in Threads \ {t} : pc'[u] = pc[u]
    BY <1>1 DEF SpuriousWake, Retry, TypeOK, ring
  <1>3. ~Within(t)
    BY <1>1, <1>2 DEF ThreadInv, Section
  <1>4. ASSUME NEW u \in Threads PROVE ThreadInv(u)'
    <2>1. /\ ThreadInv(u) /\ call'[u] = call[u] /\ slot'[u] = slot[u] /\ inside'[u] = inside[u]
          /\ \/ pc'[u] = pc[u]
             \/ /\ \/ pc[u] = "notFull" /\ pc'[u] = "reserve"
                   \/ pc[u] = "notEmpty" /\ pc'[u] = "receive"
                /\ ~Within(u)
      BY <1>1, <1>2, <1>3
    <2>2. u \in hit => u \in hit' \/ ~HasRoom(u)
      BY <2>1 DEF HasRoom, Reserving
    <2>3. Role(u)'
      BY <1>2, <2>1 DEF ThreadInv, Role, Trying
    <2>4. Holds(u)'
      BY <1>2, <2>1 DEF ThreadInv, Holds, Trying, Within
    <2>5. Slot(u)'
      BY <1>2, <2>1, <2>2 DEF ThreadInv, Slot, IsEmpty, Next_, HasRoom, Harmless
    <2>6. Section(u)'
      BY <1>2, <2>1, <2>2
      DEF ThreadInv, Section, IsFull, Prev_, HasRoom, Harmless, Within, At, Reserving, Receiving
    <2>. QED
      BY <2>3, <2>4, <2>5, <2>6 DEF ThreadInv
  <1>5. (\A u \in Threads : ThreadInv(u))'
    BY <1>4
  <1>. QED
    BY <1>1, <1>2, <1>5 DEF QueueInv, InsideOK

\* A step that ends a method outside the lock, and one that blocks or goes on.
LEMMA QueueReturn ==
    ASSUME QueueInv, TypeOK', InsideOK', NEW t \in Threads, NEW v, NEW woken,
           Return(t, v, woken), UNCHANGED slot, slot[t] = NULL, ~Within(t)',
           \A u \in Threads \ {t} : inside'[u] = inside[u],
           lock.owner \in {NoThread, t}, lock'.owner = NoThread, lock'.depth = 0
    PROVE  QueueInv'
  <1>1. /\ Moves(t, "idle", woken) /\ pc'[t] = "idle" /\ call'[t].op = "none"
        /\ \A u \in Threads \ {t} : call'[u] = call[u]
    BY MovesLabels DEF Return, NoCall, QueueInv, TypeOK
  <1>2. ThreadInv(t)'
    BY <1>1, MQAssumption
    DEF ThreadInv, Role, Holds, Slot, Section, Within, At, AllSendOps, AllReceiveOps
  <1>. QED
    BY <1>1, <1>2, MovesLabels, QueueMove

LEMMA QueueContinue ==
    ASSUME QueueInv, TypeOK', InsideOK', NEW t \in Threads, NEW label, NEW woken,
           Moves(t, label, woken), UNCHANGED <<call, slot>>,
           \A u \in Threads \ {t} : inside'[u] = inside[u],
           slot[t] = NULL, label # "filling",
           lock.owner \in {NoThread, t}, lock'.owner \in {NoThread, t},
           lock'.owner = NoThread <=> lock'.depth = 0,
           pc'[t] = label => Role(t)' /\ Holds(t)' /\ Section(t)'
    PROVE  QueueInv'
  <1>1. pc'[t] = label
    BY MovesLabels
  <1>2. ThreadInv(t)'
    BY <1>1 DEF ThreadInv, Slot
  <1>. QED
    BY <1>2, MovesLabels, QueueMove

\* The sections that Sections leaves whole.
LEMMA QueueWhole ==
    ASSUME QueueInv, NEW t \in Threads, UNCHANGED inside,
           t \in hit /\ HasRoom(t)' => t \in hit',
           \/ TryReserve(t) \/ TryReserveUnlock(t) \/ Confirm(t)
           \/ TryReceive(t) \/ TryReceiveUnlock(t)
    PROVE  QueueInv'
  <1>. /\ TypeOK /\ TypeOK' /\ InsideOK' /\ t # NoThread
       /\ lock.owner = NoThread <=> lock.depth = 0
    BY TypeSend, TypeReceive, MQAssumption DEF QueueInv, SendStep, ReceiveStep, InsideOK
  <1>. Role(t) /\ Holds(t) /\ Slot(t) /\ Section(t)
    BY DEF QueueInv, ThreadInv
  <1>0. /\ ~Within(t) /\ ~Within(t)' /\ \A u \in Threads \ {t} : inside'[u] = inside[u]
    BY DEF Section, Within, TryReserve, TryReserveUnlock, Confirm, TryReceive, TryReceiveUnlock
  <1>1. ASSUME pc'[t] \notin {"reserve", "receive"} \/ ~Within(t)' PROVE Section(t)'
    BY <1>0 DEF Section, Within, At
  <1>2. CASE TryReserve(t)
    <2>1. /\ pc[t] = "tryReserve" /\ lock.owner = NoThread /\ lock.depth = 0
          /\ slot[t] = NULL /\ UNCHANGED slot /\ call[t].op = "trySend"
      BY <1>2 DEF TryReserve, CanLock, Holds, Slot, Role
    <2>2. CASE IsFull
      BY <1>0, <1>2, <2>1, <2>2, QueueReturn DEF TryReserve
    <2>3. CASE ~IsFull
      <3>1. /\ Moves(t, "reserve", {}) /\ lock' = Locked(lock, t) /\ UNCHANGED call
        BY <1>2, <2>3 DEF TryReserve, Continue
      <3>2. lock'.owner = t /\ lock'.depth = 1
        BY <2>1, <3>1 DEF Locked
      <3>3. pc'[t] = "reserve" => Role(t)' /\ Holds(t)' /\ Section(t)'
        BY <1>0, <1>1, <2>1, <3>1, <3>2 DEF Role, Holds, Trying, AllSendOps
      <3>. QED
        BY <1>0, <2>1, <3>1, <3>2, <3>3, QueueContinue
    <2>. QED
      BY <2>2, <2>3
  <1>3. CASE TryReserveUnlock(t)
    <2>1. /\ pc[t] = "tryUnlock" /\ lock.owner = t /\ UNCHANGED <<head, tail, slot>>
          /\ call[t].op = "trySend" /\ lock' = Unlocked(lock)
          /\ lock.depth = IF slot[t] # NULL THEN 2 ELSE 1
      BY <1>0, <1>3 DEF TryReserveUnlock, Holds, ring
    <2>2. CASE slot[t] = NULL
      <3>1. lock'.owner = NoThread /\ lock'.depth = 0
        BY <2>1, <2>2 DEF Unlocked, Free
      <3>. QED
        BY <1>0, <1>3, <2>1, <2>2, <3>1, QueueReturn DEF TryReserveUnlock
    <2>3. CASE slot[t] # NULL
      <3>1. Moves(t, "filling", {}) /\ UNCHANGED call
        BY <1>3, <2>3 DEF TryReserveUnlock, Continue
      <3>2. pc'[t] = "filling" /\ lock'.owner = t /\ lock'.depth = 1
        BY <2>1, <2>3, <3>1, MovesLabels DEF Unlocked, TypeOK
      <3>3. Role(t)' /\ Holds(t)'
        BY <1>0, <2>1, <2>3, <3>1, <3>2 DEF Role, Holds, Trying, AllSendOps
      <3>4. Slot(t)'
        BY <2>1, <2>3, <3>1, <3>2 DEF Slot, IsEmpty, Next_, HasRoom, Harmless
      <3>. QED
        BY <1>0, <1>1, <2>1, <3>1, <3>2, <3>3, <3>4, MovesLabels, QueueMove DEF ThreadInv
    <2>. QED
      BY <2>2, <2>3
  <1>4. CASE Confirm(t)
    <2>1. /\ pc[t] = "filling" /\ lock.owner = t /\ lock.depth = 1
          /\ lock' = Unlocked(lock) /\ Moves(t, "idle", {})
          /\ call' = [call EXCEPT ![t] = NoCall] /\ slot' = [slot EXCEPT ![t] = NULL]
      BY <1>0, <1>4 DEF Confirm, Return, Holds
    <2>2. /\ pc'[t] = "idle" /\ call'[t].op = "none" /\ slot'[t] = NULL
          /\ lock'.owner = NoThread /\ lock'.depth = 0
          /\ \A u \in Threads \ {t} : call'[u] = call[u] /\ slot'[u] = slot[u]
      BY <2>1, MovesLabels DEF NoCall, TypeOK, Unlocked, Free
    <2>3. ThreadInv(t)'
      BY <1>1, <2>2 DEF ThreadInv, Role, Holds, Slot, AllSendOps, AllReceiveOps
    <2>. QED
      BY <1>0, <2>1, <2>2, <2>3, MovesLabels, QueueMove
  <1>5. CASE TryReceive(t)
    <2>1. /\ pc[t] = "tryReceive" /\ lock.owner = NoThread /\ lock.depth = 0
          /\ slot[t] = NULL /\ UNCHANGED slot /\ call[t].op = "tryReceive"
      BY <1>5 DEF TryReceive, CanLock, Holds, Slot, Role
    <2>2. CASE Count_ = 0
      BY <1>0, <1>5, <2>1, <2>2, QueueReturn DEF TryReceive
    <2>3. CASE Count_ # 0
      <3>1. /\ Moves(t, "receive", {}) /\ lock' = Locked(lock, t) /\ UNCHANGED call
        BY <1>5, <2>3 DEF TryReceive, Continue
      <3>2. lock'.owner = t /\ lock'.depth = 1
        BY <2>1, <3>1 DEF Locked
      <3>3. pc'[t] = "receive" => Role(t)' /\ Holds(t)' /\ Section(t)'
        BY <1>0, <1>1, <2>1, <3>1, <3>2 DEF Role, Holds, Trying, AllReceiveOps
      <3>. QED
        BY <1>0, <2>1, <3>1, <3>2, <3>3, QueueContinue
    <2>. QED
      BY <2>2, <2>3
  <1>6. CASE TryReceiveUnlock(t)
    <2>1. /\ pc[t] = "tryUnlock" /\ call[t].op = "tryReceive" /\ slot[t] = NULL
          /\ lock.owner = t /\ lock.depth = 1 /\ lock' = Unlocked(lock) /\ UNCHANGED slot
      BY <1>0, <1>6 DEF TryReceiveUnlock, Holds, Slot, AllSendOps
    <2>2. lock'.owner = NoThread /\ lock'.depth = 0
      BY <2>1 DEF Unlocked, Free
    <2>. QED
      BY <1>0, <1>6, <2>1, <2>2, QueueReturn DEF TryReceiveUnlock
  <1>. QED
    BY <1>2, <1>3, <1>4, <1>5, <1>6

\* A step inside a section moves its thread to another point, and no other.
LEMMA PointsMove ==
    ASSUME InsideOK, NEW t \in Threads, NEW r \in [point : SectionPoints \cup {"out"}, seen : Slots, old : Slots],
           inside' = [inside EXCEPT ![t] = r]
    PROVE  InsideOK' /\ inside'[t] = r /\ \A u \in Threads \ {t} : inside'[u] = inside[u]
  BY DEF InsideOK

LEMMA QueueTest ==
    ASSUME QueueInv, NEW t \in Threads, Test(t), t \in hit /\ HasRoom(t)' => t \in hit'
    PROVE  QueueInv'
  <1>. /\ TypeOK /\ InsideOK /\ t # NoThread
       /\ lock.owner = NoThread <=> lock.depth = 0
       /\ Role(t) /\ Holds(t) /\ Slot(t) /\ Section(t)
    BY MQAssumption DEF QueueInv, ThreadInv
  <1>. DEFINE p == IF IF Reserving(t) THEN IsFull ELSE IsEmpty THEN "wait" ELSE "look"
              r == [point |-> p, seen |-> head, old |-> head]
  <1>1. /\ pc[t] \in {"reserve", "receive"} /\ ~Within(t) /\ lock.owner \in {NoThread, t}
        /\ lock' = Locked(lock, t) /\ inside' = [inside EXCEPT ![t] = r]
        /\ UNCHANGED <<head, tail, buffer, canBeUsed, pc, call, slot, result>>
        /\ slot[t] = NULL
    BY DEF Test, CanLock, At, Within, Goes, Reserving, Receiving, ring, Slot
  <1>2. p \in {"wait", "look"} /\ (p = "look" /\ Reserving(t) => ~IsFull)
    OBVIOUS
  <1>. HIDE DEF p
  <1>3. r \in [point : SectionPoints \cup {"out"}, seen : Slots, old : Slots]
    BY <1>2 DEF TypeOK, SectionPoints
  <1>4. InsideOK' /\ inside'[t] = r /\ \A u \in Threads \ {t} : inside'[u] = inside[u]
    BY <1>1, <1>3, PointsMove
  <1>5. TypeOK' /\ lock'.owner = t /\ lock'.depth = (IF Trying(t) THEN 2 ELSE 1)
    <2>1. lock'.owner = t /\ lock'.depth = lock.depth + 1
      BY <1>1 DEF Locked
    <2>2. lock.depth = IF Trying(t) THEN 1 ELSE 0
      BY <1>1 DEF Holds
    <2>3. lock' \in [owner : Threads \cup {NoThread}, depth : Nat]
      BY <1>1, TypeLock
    <2>. QED
      BY <1>1, <2>1, <2>2, <2>3 DEF TypeOK
  <1>6. Role(t)' /\ Slot(t)'
    BY <1>1 DEF Role, Slot, Trying
  <1>7. Holds(t)'
    BY <1>1, <1>2, <1>4, <1>5 DEF Holds, Within, Trying
  <1>8. Section(t)'
    BY <1>1, <1>2, <1>4 DEF Section, Within, At, Reserving, Receiving, IsFull, Prev_
  <1>. QED
    BY <1>1, <1>4, <1>5, <1>6, <1>7, <1>8, QueueMove DEF ThreadInv

\* A thread inside has the lock once more than outside.
LEMMA InsideIsLocked ==
    ASSUME QueueInv, NEW t \in Threads, Within(t)
    PROVE  /\ lock.owner = t /\ lock.depth = (IF Trying(t) THEN 2 ELSE 1)
           /\ pc[t] \in {"reserve", "receive"} /\ slot[t] = NULL
           /\ Unlocked(lock) = IF Trying(t) THEN [owner |-> t, depth |-> 1] ELSE Free
  <1>1. /\ lock.owner = t /\ lock.depth = (IF Trying(t) THEN 2 ELSE 1)
        /\ pc[t] \in {"reserve", "receive"} /\ slot[t] = NULL
    BY DEF QueueInv, ThreadInv, Holds, Slot, Section
  <1>. QED
    BY <1>1 DEF Unlocked, QueueInv, TypeOK

LEMMA QueueWait ==
    ASSUME QueueInv, NEW t \in Threads, Wait(t)
    PROVE  QueueInv'
  <1>. /\ TypeOK /\ InsideOK /\ t # NoThread
       /\ Role(t) /\ Holds(t) /\ Slot(t) /\ Section(t)
    BY MQAssumption DEF QueueInv, ThreadInv
  <1>. DEFINE label == IF Reserving(t) THEN "notFull" ELSE "notEmpty"
  <1>1. Within(t) /\ Continue(t, label, {}) /\ Leaves(t) /\ lock' = Unlocked(lock)
        /\ UNCHANGED <<head, tail, buffer, canBeUsed, slot>>
    BY DEF Wait, At, Within, ring
  <1>2. /\ pc[t] \in {"reserve", "receive"} /\ slot[t] = NULL /\ lock.owner = t
        /\ lock'.owner = (IF Trying(t) THEN t ELSE NoThread)
        /\ lock'.depth = (IF Trying(t) THEN 1 ELSE 0)
    BY <1>1, InsideIsLocked DEF Free
  <1>3. InsideOK' /\ ~Within(t)' /\ \A u \in Threads \ {t} : inside'[u] = inside[u]
    <2>1. Outside \in [point : SectionPoints \cup {"out"}, seen : Slots, old : Slots]
      BY MQAssumption DEF Outside, Slots
    <2>2. InsideOK' /\ inside'[t] = Outside /\ \A u \in Threads \ {t} : inside'[u] = inside[u]
      BY <1>1, <2>1, PointsMove DEF Leaves
    <2>. QED
      BY <2>2 DEF Within, Outside
  <1>4. TypeOK'
    <2>1. label \in Labels
      BY DEF Labels
    <2>. QED
      BY <1>1, <2>1, TypeLock, TypeContinue DEF TypeOK
  <1>5. Moves(t, label, {}) /\ UNCHANGED call
    BY <1>1 DEF Continue
  <1>6. pc'[t] = label => Role(t)' /\ Holds(t)' /\ Section(t)'
    BY <1>1, <1>2, <1>3, <1>5 DEF Role, Holds, Section, At, Within, Trying, Reserving, Receiving
  <1>. QED
    BY <1>1, <1>2, <1>3, <1>4, <1>5, <1>6, QueueContinue

LEMMA QueueLook ==
    ASSUME QueueInv, NEW t \in Threads, Look(t) \/ Signal(t),
           t \in hit /\ HasRoom(t)' => t \in hit'
    PROVE  QueueInv'
  <1>. /\ TypeOK /\ InsideOK /\ t # NoThread
       /\ Role(t) /\ Holds(t) /\ Slot(t) /\ Section(t)
       /\ lock.owner = NoThread <=> lock.depth = 0
    BY MQAssumption DEF QueueInv, ThreadInv
  <1>1. /\ Within(t) /\ inside[t].point \in {"look", "signal"}
        /\ UNCHANGED <<head, tail, buffer, canBeUsed, lock, call, slot, result>>
    BY DEF Look, Signal, At, Within, vars, ring, Continue
  <1>2. PICK p \in {"signal", "move"}, seen \in SeenHeads(t), old \in SeenHeads(t) \cup {inside[t].old} :
            /\ inside' = [inside EXCEPT ![t] = [point |-> p, seen |-> seen, old |-> old]]
            /\ At(t, "signal") => old = inside[t].old
    <2>1. CASE Look(t)
      <3>1. PICK h \in SeenHeads(t), old \in SeenHeads(t) :
              Goes(t, IF IsEdge(t, h) THEN "signal" ELSE "move", inside[t].seen, old)
        BY <2>1 DEF Look
      <3>. DEFINE p == IF IsEdge(t, h) THEN "signal" ELSE "move"
      <3>2. p \in {"signal", "move"}
        OBVIOUS
      <3>. HIDE DEF p
      <3>3. Goes(t, p, inside[t].seen, old)
        BY <3>1 DEF p
      <3>. QED
        BY <2>1, <3>2, <3>3 DEF SeenHeads, Look, At, Goes
    <2>2. CASE Signal(t)
      BY <2>2 DEF Signal, SeenHeads, Goes
    <2>. QED
      BY <2>1, <2>2
  <1>3. PICK woken : Moves(t, pc[t], woken)
    <2>1. CASE Look(t)
      <3>1. Moves(t, pc[t], {})
        BY <2>1 DEF Look, vars, Moves, TypeOK
      <3>. QED
        BY <3>1
    <2>2. CASE Signal(t)
      BY <2>2 DEF Signal, Continue
    <2>. QED
      BY <2>1, <2>2
  <1>4. seen \in Slots /\ old \in Slots
    BY DEF SeenHeads, TypeOK, InsideOK
  <1>5. /\ InsideOK' /\ \A u \in Threads \ {t} : inside'[u] = inside[u]
        /\ inside'[t] = [point |-> p, seen |-> seen, old |-> old]
    <2>1. [point |-> p, seen |-> seen, old |-> old] \in [point : SectionPoints \cup {"out"}, seen : Slots, old : Slots]
      BY <1>4 DEF SectionPoints
    <2>. QED
      BY <1>2, <2>1, PointsMove
  <1>6. TypeOK' /\ pc'[t] = pc[t]
    <2>1. pc[t] \in Labels
      BY DEF TypeOK
    <2>. QED
      BY <1>1, <1>3, <2>1, MovesType, MovesLabels DEF TypeOK
  <1>7. lock.owner = t /\ pc[t] \in {"reserve", "receive"}
    BY <1>1, InsideIsLocked
  <1>8. Within(t)' /\ (Trying(t)' <=> Trying(t)) /\ ~At(t, "read")'
    BY <1>1, <1>5 DEF Within, At, Trying
  <1>9. Role(t)' /\ Holds(t)' /\ Slot(t)'
    BY <1>1, <1>6, <1>7, <1>8 DEF Role, Holds, Slot, Trying
  <1>10. Section(t)'
    <2>1. ASSUME Reserving(t)' PROVE /\ t \notin hit' => seen = head /\ old = head
                                     /\ Harmless(t)' => ~IsFull
      <3>1. Reserving(t) /\ HasRoom(t)'
        BY <1>5, <1>6, <2>1 DEF Reserving, HasRoom
      <3>2. t \in hit => t \in hit'
        BY <3>1
      <3>3. /\ t \notin hit => inside[t].seen = head /\ inside[t].old = head
            /\ Harmless(t) => ~IsFull
        BY <1>1, <3>1 DEF Section
      <3>. QED
        BY <3>2, <3>3 DEF SeenHeads, Harmless
    <2>2. IsFull' = IsFull
      BY <1>1 DEF IsFull, Prev_
    <2>. QED
      BY <1>1, <1>5, <1>6, <1>7, <1>8, <2>1, <2>2 DEF Section, Within
  <1>. QED
    BY <1>1, <1>3, <1>5, <1>6, <1>7, <1>9, <1>10, MovesLabels, QueueMove DEF ThreadInv

LEMMA QueueGive ==
    ASSUME QueueInv, NEW t \in Threads, Give(t), t \in hit /\ HasRoom(t)' => t \in hit'
    PROVE  QueueInv'
  <1>. /\ TypeOK /\ InsideOK /\ t # NoThread /\ head \in Slots /\ tail \in Slots
       /\ Role(t) /\ Holds(t) /\ Slot(t) /\ Section(t)
    BY MQAssumption DEF QueueInv, ThreadInv, TypeOK
  <1>. DEFINE label == IF call[t].op = "trySend" THEN "tryUnlock" ELSE "filling"
  <1>1. /\ Within(t) /\ Reserving(t) /\ inside[t].point = "move"
        /\ Moves(t, label, {}) /\ Leaves(t)
        /\ UNCHANGED <<call, result, buffer, canBeUsed, lock>>
    BY DEF Give, At, Within, Continue
  <1>2. /\ lock.owner = t /\ lock.depth = IF Trying(t) THEN 2 ELSE 1
        /\ call[t].op \in AllSendOps /\ label \in {"tryUnlock", "filling"}
    BY <1>1, InsideIsLocked DEF Role, Reserving
  <1>3. PICK h \in SeenHeads(t) :
            \/ /\ call[t].op = "sendPriority" /\ head' = Prev_(h) /\ tail' = tail
               /\ slot' = [slot EXCEPT ![t] = inside[t].old]
            \/ /\ call[t].op # "sendPriority" /\ tail' = Next_(tail) /\ head' = head
               /\ slot' = [slot EXCEPT ![t] = Next_(tail)]
    <2>1. head \in SeenHeads(t)
      BY DEF SeenHeads
    <2>. QED
      BY <2>1 DEF Give, ReserveTail
  <1>4. /\ inside[t].old \in Slots /\ h \in Slots
        /\ head' \in Slots /\ tail' \in Slots /\ slot' \in [Threads -> Slots \cup {NULL}]
        /\ slot'[t] # NULL /\ \A u \in Threads \ {t} : slot'[u] = slot[u]
    <2>1. inside[t].old \in Slots /\ h \in Slots
      BY DEF SeenHeads, InsideOK
    <2>2. Prev_(h) \in Slots /\ Next_(tail) \in Slots
      BY <2>1, SlotsStayInside
    <2>3. \A s \in Slots : s # NULL
      BY SlotsAreNat
    <2>. QED
      BY <1>3, <2>1, <2>2, <2>3 DEF TypeOK
  <1>5. /\ InsideOK' /\ inside'[t] = Outside /\ ~Within(t)'
        /\ \A u \in Threads \ {t} : inside'[u] = inside[u]
    <2>1. Outside \in [point : SectionPoints \cup {"out"}, seen : Slots, old : Slots]
      BY MQAssumption DEF Outside, Slots
    <2>2. InsideOK' /\ inside'[t] = Outside /\ \A u \in Threads \ {t} : inside'[u] = inside[u]
      BY <1>1, <2>1, PointsMove DEF Leaves
    <2>. QED
      BY <2>2 DEF Within, Outside
  <1>6. TypeOK' /\ pc'[t] = label
    <2>1. label \in Labels
      BY <1>2 DEF Labels
    <2>. QED
      BY <1>1, <1>4, <2>1, MovesType, MovesLabels DEF TypeOK
  <1>7. HasRoom(t) /\ HasRoom(t)' /\ (t \in hit => t \in hit') /\ (Harmless(t)' => Harmless(t))
    BY <1>1, <1>4 DEF HasRoom, Harmless
  <1>8. /\ t \notin hit => inside[t].seen = head /\ inside[t].old = head
        /\ Harmless(t) => ~IsFull
    BY <1>1 DEF Section
  <1>9. Role(t)' /\ Holds(t)'
    BY <1>1, <1>2, <1>4, <1>5, <1>6 DEF Role, Holds, Trying, AllSendOps
  <1>10. Slot(t)'
    <2>1. CASE call[t].op # "sendPriority"
      <3>1. slot'[t] = tail' /\ tail' = Next_(tail) /\ head' = head
        BY <1>3, <2>1 DEF TypeOK
      <3>2. Harmless(t)' => ~IsEmpty'
        <4>1. ~IsFull => head # Next_(tail)
          BY NextPrev DEF IsFull
        <4>. QED
          BY <1>7, <1>8, <3>1, <4>1 DEF IsEmpty
      <3>. QED
        BY <1>1, <1>2, <1>4, <1>6, <2>1, <3>1, <3>2 DEF Slot
    <2>2. CASE call[t].op = "sendPriority"
      <3>1. ASSUME t \notin hit' PROVE slot'[t] = Next_(head)' /\ ~IsEmpty'
        <4>1. inside[t].seen = head /\ inside[t].old = head /\ ~IsFull
          BY <1>7, <1>8, <3>1 DEF Harmless
        <4>2. h = head /\ head' = Prev_(head) /\ tail' = tail /\ slot'[t] = head
          BY <1>3, <2>2, <4>1 DEF SeenHeads, TypeOK
        <4>3. Next_(head') = head
          BY <4>2, NextPrev
        <4>. QED
          BY <4>1, <4>2, <4>3 DEF IsEmpty, IsFull, Next_
      <3>. QED
        BY <1>1, <1>2, <1>4, <1>6, <2>2, <3>1 DEF Slot
    <2>. QED
      BY <2>1, <2>2
  <1>11. Section(t)'
    BY <1>2, <1>5, <1>6 DEF Section, At, Within, Reserving
  <1>. QED
    BY <1>1, <1>2, <1>4, <1>5, <1>6, <1>9, <1>10, <1>11, MovesLabels, QueueMove
    DEF ThreadInv, QueueInv

LEMMA QueueAdvance ==
    ASSUME QueueInv, NEW t \in Threads, Advance(t) PROVE QueueInv'
  <1>. /\ TypeOK /\ InsideOK /\ t # NoThread /\ head \in Slots /\ tail \in Slots
       /\ Role(t) /\ Holds(t) /\ Slot(t) /\ Section(t)
       /\ lock.owner = NoThread <=> lock.depth = 0
    BY MQAssumption DEF QueueInv, ThreadInv, TypeOK
  <1>1. PICK h \in SeenHeads(t) : head' = Next_(h) /\ Goes(t, "read", Next_(h), inside[t].old)
    BY DEF Advance
  <1>2. /\ Receiving(t) /\ Within(t)
        /\ UNCHANGED <<tail, buffer, canBeUsed, lock, pc, call, slot, result>>
    BY DEF Advance, At, Within
  <1>3. lock.owner = t /\ slot[t] = NULL
    BY <1>2, InsideIsLocked
  <1>4. h \in Slots /\ Next_(h) \in Slots /\ inside[t].old \in Slots
    <2>1. h \in Slots /\ inside[t].old \in Slots
      BY DEF SeenHeads, InsideOK
    <2>. QED
      BY <2>1, SlotsStayInside
  <1>. DEFINE r == [point |-> "read", seen |-> Next_(h), old |-> inside[t].old]
  <1>5. /\ InsideOK' /\ inside'[t] = r /\ \A u \in Threads \ {t} : inside'[u] = inside[u]
    <2>1. r \in [point : SectionPoints \cup {"out"}, seen : Slots, old : Slots]
      BY <1>4 DEF SectionPoints
    <2>. QED
      BY <1>1, <2>1, PointsMove DEF Goes
  <1>6. TypeOK'
    BY <1>1, <1>2, <1>4 DEF TypeOK
  <1>7. Within(t)' /\ (Trying(t)' <=> Trying(t)) /\ Receiving(t)' /\ ~Reserving(t)'
    BY <1>2, <1>5 DEF Within, Trying, Receiving, Reserving
  <1>8. Role(t)' /\ Holds(t)' /\ Slot(t)'
    BY <1>2, <1>3, <1>7 DEF Role, Holds, Slot, Receiving, Trying
  <1>9. Section(t)'
    BY <1>7 DEF Section, Receiving
  <1>. QED
    BY <1>2, <1>3, <1>5, <1>6, <1>8, <1>9, QueueMove DEF ThreadInv

LEMMA QueueRead ==
    ASSUME QueueInv, NEW t \in Threads, Read(t) PROVE QueueInv'
  <1>. /\ TypeOK /\ InsideOK /\ t # NoThread /\ head \in Slots /\ tail \in Slots
       /\ Role(t) /\ Holds(t) /\ Slot(t) /\ Section(t)
    BY MQAssumption DEF QueueInv, ThreadInv, TypeOK
  <1>1. PICK h \in SeenHeads(t) : Received(t, buffer[h], {})
    BY DEF Read
  <1>2. /\ Within(t) /\ Receiving(t) /\ Leaves(t) /\ lock' = Unlocked(lock)
        /\ UNCHANGED <<head, tail, buffer, canBeUsed, slot>>
    BY DEF Read, At, Within, Section, ring
  <1>3. /\ lock.owner = t /\ slot[t] = NULL /\ call[t].op \in AllReceiveOps
        /\ lock'.owner = (IF Trying(t) THEN t ELSE NoThread)
        /\ lock'.depth = (IF Trying(t) THEN 1 ELSE 0)
    BY <1>2, InsideIsLocked DEF Free, Role, Receiving
  <1>4. InsideOK' /\ ~Within(t)' /\ \A u \in Threads \ {t} : inside'[u] = inside[u]
    <2>1. Outside \in [point : SectionPoints \cup {"out"}, seen : Slots, old : Slots]
      BY MQAssumption DEF Outside, Slots
    <2>2. InsideOK' /\ inside'[t] = Outside /\ \A u \in Threads \ {t} : inside'[u] = inside[u]
      BY <1>2, <2>1, PointsMove DEF Leaves
    <2>. QED
      BY <2>2 DEF Within, Outside
  <1>5. lock' \in [owner : Threads \cup {NoThread}, depth : Nat] /\ buffer[h] \in Values
    BY <1>2, TypeLock DEF TypeOK, SeenHeads, InsideOK
  <1>6. CASE call[t].op = "receive"
    <2>1. Return(t, buffer[h], {}) /\ ~Trying(t)
      BY <1>1, <1>6 DEF Received, Trying
    <2>2. TypeOK'
      BY <1>2, <1>5, <2>1, TypeReturn DEF TypeOK
    <2>. QED
      BY <1>2, <1>3, <1>4, <2>1, <2>2, QueueReturn
  <1>7. CASE call[t].op # "receive"
    <2>1. /\ Moves(t, "tryUnlock", {}) /\ UNCHANGED call /\ Trying(t) /\ call[t].op = "tryReceive"
          /\ result' = [result EXCEPT ![t] = buffer[h]]
      BY <1>1, <1>3, <1>7 DEF Received, Trying, AllReceiveOps
    <2>2. TypeOK'
      <3>1. "tryUnlock" \in Labels
        BY DEF Labels
      <3>2. pc' \in [Threads -> Labels]
        BY <2>1, <3>1, MovesType
      <3>. QED
        BY <1>2, <1>5, <2>1, <3>2 DEF TypeOK
    <2>3. pc'[t] = "tryUnlock" => Role(t)' /\ Holds(t)' /\ Section(t)'
      BY <1>2, <1>3, <1>4, <2>1 DEF Role, Holds, Section, At, Within, Trying, Reserving
    <2>. QED
      BY <1>2, <1>3, <1>4, <2>1, <2>2, <2>3, QueueContinue
  <1>. QED
    BY <1>6, <1>7

-----------------------------------------------------------------------------
\* What a signal does to the queue.

\* sig_term wakes threads and moves none.
LEMMA SigTermWakes ==
    ASSUME TypeOK, NEW woken, pc' = [u \in Threads |-> IF u \in woken THEN Retry(u) ELSE pc[u]]
    PROVE  /\ pc' \in [Threads -> Labels]
           /\ \A u \in Threads : \/ pc'[u] = pc[u]
                                 \/ pc[u] = "notFull" /\ pc'[u] = "reserve"
                                 \/ pc[u] = "notEmpty" /\ pc'[u] = "receive"
           /\ \A u \in Threads : pc'[u] \in {"notFull", "notEmpty"}
                                 => pc'[u] = pc[u] /\ u \notin woken
  BY DEF Retry, TypeOK, Labels

\* A queue that holds one message has room for another, if it has two slots.
LEMMA OneOfTwo ==
    ASSUME NEW h \in Slots
    PROVE  Prev_(Prev_(h)) = h <=> MaxSize = 1
  BY MQAssumption DEF Slots, Prev_

LEMMA QueueSigTerm ==
    ASSUME QueueInv, NEW t \in Threads, alive, SigTerm(t) PROVE QueueInv'
  <1>1. PICK woken : pc' = [u \in Threads |-> IF u \in woken THEN Retry(u) ELSE pc[u]]
    BY DEF SigTerm
  <1>2. /\ TypeOK /\ InsideOK /\ head \in Slots /\ tail \in Slots
        /\ UNCHANGED <<canBeUsed, lock, call, slot, result, tail, inside>>
        /\ head' = Prev_(tail) /\ buffer' = [buffer EXCEPT ![tail] = Default]
        /\ lock.owner \in {NoThread, t} /\ t # NoThread
        /\ hit' = IF HasRoom(t) THEN hit \cup {t} ELSE hit
    BY MQAssumption DEF SigTerm, QueueInv, TypeOK, ExitMessageOnly, CanLock
  <1>3. head' # tail' /\ head' \in Slots
    BY <1>2, NextPrev, SlotsStayInside
  <1>4. TypeOK'
    BY <1>1, <1>2, <1>3, SigTermWakes DEF TypeOK, Values
  <1>5. ASSUME NEW u \in Threads PROVE ThreadInv(u)'
    <2>1. Role(u) /\ Holds(u) /\ Slot(u) /\ Section(u)
      BY DEF QueueInv, ThreadInv
    <2>2. \/ pc'[u] = pc[u]
          \/ pc[u] = "notFull" /\ pc'[u] = "reserve"
          \/ pc[u] = "notEmpty" /\ pc'[u] = "receive"
      BY <1>1, <1>2, SigTermWakes
    <2>3. (Within(u)' <=> Within(u)) /\ (Trying(u)' <=> Trying(u)) /\ inside'[u] = inside[u]
      BY <1>2 DEF Within, Trying
    <2>4. Role(u)' /\ Holds(u)'
      BY <1>2, <2>1, <2>2, <2>3 DEF Role, Holds
    <2>5. slot[u] # NULL \/ Within(u) => u = t
      <3>1. u # NoThread
        BY MQAssumption
      <3>. QED
        BY <1>2, <3>1, OthersAreOut
    <2>6. Slot(u)'
      <3>1. slot[u] # NULL => u \in hit'
        BY <1>2, <2>5 DEF HasRoom
      <3>. QED
        BY <1>2, <1>3, <2>1, <2>2, <3>1 DEF Slot, IsEmpty
    <2>7. Section(u)'
      <3>1. ASSUME Reserving(u)', inside'[u].point \in {"look", "signal", "move"}
            PROVE  u \in hit' /\ (MaxSize > 1 => ~IsFull')
        <4>1. Within(u) /\ Reserving(u)
          BY <2>1, <2>2, <2>3, <3>1 DEF Section, Within, Reserving
        <4>2. u \in hit'
          BY <1>2, <2>3, <2>5, <3>1, <4>1 DEF HasRoom
        <4>3. IsFull' <=> Prev_(Prev_(tail)) = tail
          BY <1>2 DEF IsFull, Prev_
        <4>. QED
          BY <1>2, <4>2, <4>3, OneOfTwo
      <3>. QED
        BY <2>1, <2>2, <2>3, <3>1 DEF Section, Harmless, At, Within, Reserving, Receiving
    <2>. QED
      BY <2>4, <2>6, <2>7 DEF ThreadInv
  <1>6. (\A u \in Threads : ThreadInv(u))'
    BY <1>5
  <1>7. InsideOK'
    BY <1>2 DEF InsideOK
  <1>. QED
    BY <1>2, <1>4, <1>6, <1>7 DEF QueueInv

LEMMA KindOfStep ==
    ASSUME [SignalsNext]_allVars
    PROVE  \/ UNCHANGED queueVars
           \/ \E t \in Threads : QueueStep(t) \/ (alive /\ SigTerm(t))
  <1>1. CASE UNCHANGED allVars
    BY <1>1 DEF allVars
  <1>2. CASE MainStep
    BY <1>2 DEF MainStep
  <1>3. ASSUME NEW t \in Threads, HandlerCalls(t)
        PROVE  UNCHANGED queueVars \/ (alive /\ SigTerm(t))
    BY <1>3 DEF HandlerCalls, SigTerm
  <1>4. ASSUME NEW t \in Threads, HandlerReturns(t) PROVE UNCHANGED queueVars
    BY <1>4 DEF HandlerReturns
  <1>5. ASSUME NEW t \in Threads, NEW s \in Sigs, Deliver(t, s) PROVE UNCHANGED queueVars
    BY <1>5 DEF Deliver
  <1>. QED
    BY <1>1, <1>2, <1>3, <1>4, <1>5 DEF SignalsNext

LEMMA QueueNext == QueueInv /\ [SignalsNext]_allVars => QueueInv'
  <1>. SUFFICES ASSUME QueueInv, [SignalsNext]_allVars PROVE QueueInv'
    OBVIOUS
  <1>1. CASE UNCHANGED queueVars
    BY <1>1
    DEF queueVars, vars, QueueInv, TypeOK, InsideOK, ThreadInv, Role, Holds, Slot, Section, Harmless,
        Trying, Within, At, Reserving, Receiving, IsEmpty, IsFull, Next_, Prev_
  <1>2. ASSUME NEW t \in Threads, QueueStep(t) PROVE QueueInv'
    <2>1. SectionStep(t) /\ \A u \in hit : HasRoom(u)' => u \in hit'
      BY <1>2 DEF QueueStep
    <2>2. CASE WholeStep(t)
      <3>1. UNCHANGED inside
        BY <2>2 DEF WholeStep
      <3>. QED
        BY <2>1, <2>2, <3>1, QueueCall, QueueSpurious, QueueWhole DEF WholeStep
    <2>. QED
      BY <2>1, <2>2, QueueTest, QueueWait, QueueLook, QueueGive, QueueAdvance, QueueRead
      DEF SectionStep
  <1>. QED
    BY <1>1, <1>2, QueueSigTerm, KindOfStep

\* The slot that reserve() gave stays at its end of the queue, wherever sig_term ran in
\* its owner since the test for room; but for a priority message, or a queue of
\* one slot.
THEOREM SlotOutlivesSigTerm == SignalsSpec => []SlotSurvives
  <1>1. QueueInv => SlotSurvives
    BY DEF QueueInv, ThreadInv, Holds, Slot, Harmless, SlotSurvives, SlotIsAtTheEnd
  <1>. QED
    BY <1>1, QueueInit, QueueNext, PTL DEF SignalsSpec

-----------------------------------------------------------------------------
\* Who is woken.

\* Not all of them are asleep, or one may sleep too long.
SendersCared == missed \cap Senders # {} \/ \E s \in Senders : pc[s] # "notFull"
ReceiversCared == missed \cap Receivers # {} \/ \E r \in Receivers : pc[r] # "notEmpty"

\* What a thread in a section has seen, and done, for those who wait.
Wakes(t) ==
    /\ At(t, "wait") /\ t \notin missed => IF Reserving(t) THEN IsFull ELSE IsEmpty
    /\ At(t, "look") => /\ inside[t].seen = head \/ head = Prev_(tail)
                        /\ Receiving(t) => inside[t].seen # tail /\ ~IsEmpty
    /\ At(t, "move") \/ At(t, "read") => IF Reserving(t) THEN ReceiversCared ELSE SendersCared

WakeInv ==
    /\ ReceiversCared \/ IsEmpty
    /\ SendersCared \/ IsFull
    /\ \A t \in Threads : Wakes(t)

LEMMA WakeInvSuffices == WakeInv => WakeUpsSurvive
  BY DEF WakeInv, WakeUpsSurvive, ReceiversCared, SendersCared,
         ReceiversAsleepOnlyIfEmpty, SendersAsleepOnlyIfFull

LEMMA WakeInit == SignalsInit => WakeInv
  <1>. SUFFICES ASSUME Init, inside = [t \in Threads |-> Outside] PROVE WakeInv
    BY DEF SignalsInit
  <1>1. \A t \in Threads : pc[t] = "idle" /\ inside[t].point = "out"
    BY DEF Init, Outside
  <1>. QED
    BY <1>1, MQAssumption DEF WakeInv, Wakes, At, ReceiversCared, SendersCared, Threads

LEMMA Waiters == QueueInv => WaitersAgree
  BY DEF QueueInv, ThreadInv, Role, WaitersAgree

\* A step that puts none of them to sleep, and loses none that may sleep too long.
LEMMA SendersStayCared ==
    ASSUME SendersCared,
           \A s \in Senders : pc'[s] = "notFull" => pc[s] = "notFull" /\ (s \in missed => s \in missed')
    PROVE  SendersCared'
  BY DEF SendersCared

LEMMA ReceiversStayCared ==
    ASSUME ReceiversCared,
           \A r \in Receivers : pc'[r] = "notEmpty" => pc[r] = "notEmpty" /\ (r \in missed => r \in missed')
    PROVE  ReceiversCared'
  BY DEF ReceiversCared

\* A signal reaches one of them, or finds them awake.
LEMMA SignalReachesSender ==
    ASSUME QueueInv, NEW woken \in Signalled(WaitNotFull),
           \A u \in Threads : pc'[u] = "notFull" => pc[u] = "notFull" /\ u \notin woken
    PROVE  SendersCared'
  <1>. SUFFICES ASSUME \A s \in Senders : pc'[s] = "notFull" PROVE FALSE
    BY DEF SendersCared
  <1>1. Senders # {} /\ Senders \subseteq Threads
    BY MQAssumption DEF Threads
  <1>2. WaitNotFull # {} /\ WaitNotFull \subseteq Senders
    BY <1>1, Waiters DEF WaitNotFull, WaitersAgree
  <1>3. PICK w \in WaitNotFull : woken = {w}
    BY <1>2 DEF Signalled
  <1>. QED
    BY <1>1, <1>2, <1>3

LEMMA SignalReachesReceiver ==
    ASSUME QueueInv, NEW woken \in Signalled(WaitNotEmpty),
           \A u \in Threads : pc'[u] = "notEmpty" => pc[u] = "notEmpty" /\ u \notin woken
    PROVE  ReceiversCared'
  <1>. SUFFICES ASSUME \A r \in Receivers : pc'[r] = "notEmpty" PROVE FALSE
    BY DEF ReceiversCared
  <1>1. Receivers # {} /\ Receivers \subseteq Threads
    BY MQAssumption DEF Threads
  <1>2. WaitNotEmpty # {} /\ WaitNotEmpty \subseteq Receivers
    BY <1>1, Waiters DEF WaitNotEmpty, WaitersAgree
  <1>3. PICK w \in WaitNotEmpty : woken = {w}
    BY <1>2 DEF Signalled
  <1>. QED
    BY <1>1, <1>2, <1>3

\* A step that moves no index and puts nobody to sleep.
LEMMA WakeKept ==
    ASSUME QueueInv, WakeInv, UNCHANGED <<head, tail>>,
           \A u \in Threads : pc'[u] \in {"notFull", "notEmpty"}
                             => pc'[u] = pc[u] /\ (u \in missed => u \in missed'),
           \A u \in Threads : Wakes(u)'
    PROVE  WakeInv'
  <1>1. IsEmpty' = IsEmpty /\ IsFull' = IsFull
    BY DEF IsEmpty, IsFull, Prev_
  <1>2. Senders \subseteq Threads /\ Receivers \subseteq Threads
    BY DEF Threads
  <1>3. ReceiversCared => ReceiversCared'
    BY <1>2, ReceiversStayCared
  <1>4. SendersCared => SendersCared'
    BY <1>2, SendersStayCared
  <1>. QED
    BY <1>1, <1>3, <1>4 DEF WakeInv

\* A step in which t holds the lock, or takes it.
LEMMA WakesOfOthers ==
    ASSUME QueueInv, NEW t \in Threads, lock.owner \in {NoThread, t},
           \A u \in Threads \ {t} : inside'[u] = inside[u]
    PROVE  \A u \in Threads \ {t} : Wakes(u)'
  <1>. SUFFICES ASSUME NEW u \in Threads \ {t} PROVE Wakes(u)'
    OBVIOUS
  <1>1. lock.owner # u
    BY MQAssumption
  <1>2. ~Within(u)
    BY <1>1, OthersAreOut
  <1>3. inside'[u].point = "out"
    BY <1>2 DEF Within
  <1>. QED
    BY <1>3 DEF Wakes, At

\* A thread in a section goes on claiming what it did, if nobody falls asleep.
LEMMA WakesKept ==
    ASSUME QueueInv, NEW u \in Threads, Wakes(u), UNCHANGED <<head, tail>>,
           inside'[u] = inside[u], Within(u) => pc'[u] = pc[u],
           u \in missed /\ At(u, "wait") => u \in missed',
           ReceiversCared => ReceiversCared', SendersCared => SendersCared'
    PROVE  Wakes(u)'
  <1>1. CASE ~Within(u)
    BY <1>1 DEF Wakes, Within, At
  <1>2. CASE Within(u)
    BY <1>2 DEF Wakes, At, Reserving, Receiving, IsEmpty, IsFull, Prev_
  <1>. QED
    BY <1>1, <1>2

\* Steps outside of the sections.
LEMMA WakeWhole ==
    ASSUME QueueInv, WakeInv, NEW t \in Threads, WholeStep(t),
           missed' = {u \in missed : Asleep(u)' \/ inside'[u].point = "wait"}
    PROVE  WakeInv'
  <1>. TypeOK
    BY DEF QueueInv
  <1>. DEFINE Awake == {"idle", "tryReserve", "reserve", "tryReceive", "receive", "control",
                        "tryUnlock", "filling"}
  <1>1. PICK label \in Awake : Moves(t, label, {})
    <2>1. CASE Call(t)
      <3>1. PICK op \in AllOps : Moves(t, Entry(op), {})
        BY <2>1 DEF Call
      <3>2. Entry(op) \in Awake
        BY DEF Entry
      <3>. QED
        BY <3>1, <3>2
    <2>2. CASE SpuriousWake(t)
      <3>1. Moves(t, Retry(t), {}) /\ Retry(t) \in Awake
        BY <2>2 DEF SpuriousWake, Moves, Retry, TypeOK
      <3>. QED
        BY <3>1
    <2>3. CASE \/ TryReserve(t) \/ TryReserveUnlock(t) \/ Confirm(t)
               \/ TryReceive(t) \/ TryReceiveUnlock(t)
      BY <2>3 DEF TryReserve, TryReserveUnlock, Confirm, TryReceive, TryReceiveUnlock, Return, Continue
    <2>. QED
      BY <2>1, <2>2, <2>3 DEF WholeStep
  <1>2. UNCHANGED <<head, tail, inside>>
    BY DEF WholeStep, Call, SpuriousWake, TryReserve, TryReserveUnlock, Confirm,
           TryReceive, TryReceiveUnlock, ring
  <1>3. \A u \in Threads : pc'[u] \in {"notFull", "notEmpty"}
                          => pc'[u] = pc[u] /\ (u \in missed => u \in missed')
    BY <1>1, MovesLabels DEF Asleep
  <1>4. Senders \subseteq Threads /\ Receivers \subseteq Threads
    BY DEF Threads
  <1>5. (ReceiversCared => ReceiversCared') /\ (SendersCared => SendersCared')
    BY <1>3, <1>4, ReceiversStayCared, SendersStayCared
  <1>6. ASSUME NEW u \in Threads PROVE Wakes(u)'
    <2>1. Wakes(u) /\ inside'[u] = inside[u]
      BY <1>2 DEF WakeInv
    <2>2. u \in missed /\ At(u, "wait") => u \in missed'
      BY <2>1 DEF At
    <2>3. CASE u # t
      <3>1. Within(u) => pc[u] \in {"reserve", "receive"}
        BY DEF QueueInv, ThreadInv, Section
      <3>2. Within(u) => pc'[u] = pc[u]
        BY <1>1, <2>3, <3>1, MovesLabels
      <3>. QED
        BY <1>2, <1>5, <2>1, <2>2, <3>2, WakesKept
    <2>4. CASE u = t
      <3>1. pc[t] \notin {"reserve", "receive"}
        BY DEF WholeStep, Call, SpuriousWake, TryReserve, TryReserveUnlock, Confirm,
               TryReceive, TryReceiveUnlock
      <3>2. ~Within(t)
        BY <3>1 DEF QueueInv, ThreadInv, Section
      <3>. QED
        BY <1>2, <1>5, <2>1, <2>2, <2>4, <3>2, WakesKept
    <2>. QED
      BY <2>3, <2>4
  <1>. QED
    BY <1>2, <1>3, <1>6, WakeKept

\* A thread takes the lock, and tests.
LEMMA WakeTest ==
    ASSUME QueueInv, WakeInv, NEW t \in Threads, Test(t),
           missed' = {u \in missed : Asleep(u)' \/ inside'[u].point = "wait"}
    PROVE  WakeInv'
  <1>. DEFINE p == IF IF Reserving(t) THEN IsFull ELSE IsEmpty THEN "wait" ELSE "look"
  <1>1. /\ UNCHANGED <<head, tail, pc>> /\ lock.owner \in {NoThread, t}
        /\ Reserving(t) \/ Receiving(t)
        /\ Goes(t, p, head, head)
    BY DEF Test, CanLock, ring
  <1>2. /\ inside'[t] = [point |-> p, seen |-> head, old |-> head]
        /\ \A u \in Threads \ {t} : inside'[u] = inside[u]
    BY <1>1 DEF Goes, QueueInv, InsideOK
  <1>3. Wakes(t)'
    <2>1. p \in {"wait", "look"} /\ (Receiving(t) => ~Reserving(t))
          /\ (p = "wait" => IF Reserving(t) THEN IsFull ELSE IsEmpty)
          /\ (p = "look" => IF Reserving(t) THEN ~IsFull ELSE ~IsEmpty)
      BY DEF Receiving, Reserving
    <2>. HIDE DEF p
    <2>2. /\ IsEmpty' = IsEmpty /\ IsFull' = IsFull
          /\ Reserving(t)' = Reserving(t) /\ Receiving(t)' = Receiving(t)
      BY <1>1 DEF IsEmpty, IsFull, Prev_, Reserving, Receiving
    <2>3. Receiving(t) /\ ~IsEmpty => head # tail
      BY DEF IsEmpty
    <2>. QED
      BY <1>1, <1>2, <2>1, <2>2, <2>3 DEF Wakes, At
  <1>4. \A u \in Threads : Wakes(u)'
    BY <1>1, <1>2, <1>3, WakesOfOthers
  <1>5. \A u \in Threads : pc'[u] \in {"notFull", "notEmpty"}
                          => pc'[u] = pc[u] /\ (u \in missed => u \in missed')
    BY <1>1 DEF Asleep
  <1>. QED
    BY <1>1, <1>4, <1>5, WakeKept

\* A thread falls asleep: there is no room, or no message, or it missed a change.
LEMMA WakeWait ==
    ASSUME QueueInv, WakeInv, NEW t \in Threads, Wait(t),
           missed' = {u \in missed : Asleep(u)' \/ inside'[u].point = "wait"}
    PROVE  WakeInv'
  <1>. DEFINE label == IF Reserving(t) THEN "notFull" ELSE "notEmpty"
  <1>1. /\ UNCHANGED <<head, tail>> /\ Within(t) /\ At(t, "wait")
        /\ Moves(t, label, {}) /\ Leaves(t)
    BY DEF Wait, ring, Continue, At, Within
  <1>2. /\ lock.owner = t /\ pc[t] \in {"reserve", "receive"} /\ t # NoThread
        /\ Reserving(t) => t \in Senders
        /\ ~Reserving(t) => t \in Receivers
    BY <1>1, InsideIsLocked, MQAssumption DEF QueueInv, ThreadInv, Role, Reserving
  <1>3. /\ pc'[t] = label
        /\ \A u \in Threads \ {t} : pc'[u] \in {"notFull", "notEmpty"} => pc'[u] = pc[u]
        /\ inside'[t].point = "out"
        /\ \A u \in Threads \ {t} : inside'[u] = inside[u]
    BY <1>1, MovesLabels DEF Leaves, Outside, QueueInv, InsideOK
  <1>4. IsEmpty' = IsEmpty /\ IsFull' = IsFull
    BY <1>1 DEF IsEmpty, IsFull, Prev_
  <1>5. Senders \subseteq Threads /\ Receivers \subseteq Threads /\ Senders \cap Receivers = {}
    BY MQAssumption DEF Threads
  <1>6. \A u \in Threads : pc'[u] \in {"notFull", "notEmpty"} /\ u \in missed => u \in missed'
    BY DEF Asleep
  <1>7. t \notin missed => IF Reserving(t) THEN IsFull ELSE IsEmpty
    BY <1>1 DEF WakeInv, Wakes
  <1>8. t \in missed => t \in missed'
    BY <1>3, <1>6
  <1>9. SendersCared' \/ IsFull'
    <2>1. CASE Reserving(t)
      BY <1>2, <1>4, <1>7, <1>8, <2>1 DEF SendersCared
    <2>2. CASE ~Reserving(t)
      <3>1. \A s \in Senders : pc'[s] = "notFull" => pc[s] = "notFull" /\ (s \in missed => s \in missed')
        BY <1>2, <1>3, <1>5, <1>6, <2>2
      <3>. QED
        BY <1>4, <3>1, SendersStayCared DEF WakeInv
    <2>. QED
      BY <2>1, <2>2
  <1>10. ReceiversCared' \/ IsEmpty'
    <2>1. CASE ~Reserving(t)
      BY <1>2, <1>4, <1>7, <1>8, <2>1 DEF ReceiversCared
    <2>2. CASE Reserving(t)
      <3>1. \A r \in Receivers : pc'[r] = "notEmpty" => pc[r] = "notEmpty" /\ (r \in missed => r \in missed')
        BY <1>2, <1>3, <1>5, <1>6, <2>2
      <3>. QED
        BY <1>4, <3>1, ReceiversStayCared DEF WakeInv
    <2>. QED
      BY <2>1, <2>2
  <1>11. Wakes(t)'
    BY <1>3 DEF Wakes, At
  <1>. QED
    BY <1>2, <1>3, <1>9, <1>10, <1>11, WakesOfOthers DEF WakeInv


\* A thread that goes on in its section sleeps neither before nor after.
LEMMA WakeInside ==
    ASSUME QueueInv, NEW t \in Threads, NEW label, NEW woken, Moves(t, label, woken),
           label \notin {"notFull", "notEmpty"},
           missed' = {u \in missed : Asleep(u)' \/ inside'[u].point = "wait"}
    PROVE  /\ \A u \in Threads : pc'[u] \in {"notFull", "notEmpty"}
                                 => pc'[u] = pc[u] /\ (u \in missed => u \in missed')
           /\ ReceiversCared => ReceiversCared'
           /\ SendersCared => SendersCared'
  <1>1. \A u \in Threads : pc'[u] \in {"notFull", "notEmpty"}
                           => pc'[u] = pc[u] /\ (u \in missed => u \in missed')
    BY MovesLabels DEF Asleep
  <1>2. Senders \subseteq Threads /\ Receivers \subseteq Threads
    BY DEF Threads
  <1>. QED
    BY <1>1, <1>2, ReceiversStayCared, SendersStayCared

\* A thread that finds nothing to signal finds the others cared for.
LEMMA NothingToSignal ==
    ASSUME QueueInv, WakeInv, NEW t \in Threads, At(t, "look"),
           NEW h \in SeenHeads(t), ~IsEdge(t, h)
    PROVE  IF Reserving(t) THEN ReceiversCared ELSE SendersCared
  <1>1. /\ Reserving(t) \/ Receiving(t)
        /\ inside[t].seen = head \/ head = Prev_(tail)
        /\ Receiving(t) => inside[t].seen # tail /\ ~IsEmpty
        /\ h \in {head, inside[t].seen}
    BY DEF WakeInv, Wakes, QueueInv, ThreadInv, Section, Within, At, Reserving, Receiving, SeenHeads
  <1>2. head \in Slots /\ tail \in Slots /\ inside[t].seen \in Slots
    BY DEF QueueInv, TypeOK, InsideOK
  <1>3. CASE Reserving(t)
    <2>1. h # tail
      BY <1>3 DEF IsEdge
    <2>2. ~IsEmpty
      BY <1>1, <1>2, <2>1, NextPrev DEF IsEmpty
    <2>. QED
      BY <1>3, <2>2 DEF WakeInv
  <1>4. CASE ~Reserving(t)
    <2>1. Prev_(h) # tail
      BY <1>4 DEF IsEdge
    <2>2. ASSUME h # head PROVE ~IsFull
      <3>1. h # tail /\ head = Prev_(tail) /\ head # tail
        BY <1>1, <1>2, <1>4, <2>2, NextPrev
      <3>2. MaxSize # 1
        BY <1>1, <1>2, <2>2, <3>1 DEF Slots
      <3>. QED
        BY <1>2, <3>1, <3>2, OneOfTwo DEF IsFull
    <2>3. ~IsFull
      BY <2>1, <2>2 DEF IsFull
    <2>. QED
      BY <1>4, <2>3 DEF WakeInv
  <1>. QED
    BY <1>3, <1>4

LEMMA WakeLook ==
    ASSUME QueueInv, WakeInv, NEW t \in Threads, Look(t),
           missed' = {u \in missed : Asleep(u)' \/ inside'[u].point = "wait"}
    PROVE  WakeInv'
  <1>1. PICK h \in SeenHeads(t), old \in SeenHeads(t) :
          Goes(t, IF IsEdge(t, h) THEN "signal" ELSE "move", inside[t].seen, old)
    BY DEF Look
  <1>2. /\ At(t, "look") /\ Within(t) /\ UNCHANGED <<head, tail, pc>>
    BY DEF Look, At, Within, vars, ring
  <1>3. lock.owner = t /\ pc[t] \in {"reserve", "receive"}
    BY <1>2, InsideIsLocked
  <1>4. Moves(t, pc[t], {})
    BY <1>2 DEF Moves, QueueInv, TypeOK
  <1>5. /\ \A u \in Threads : pc'[u] \in {"notFull", "notEmpty"}
                             => pc'[u] = pc[u] /\ (u \in missed => u \in missed')
        /\ ReceiversCared => ReceiversCared'
        /\ SendersCared => SendersCared'
    BY <1>3, <1>4, WakeInside
  <1>6. /\ inside'[t].point = IF IsEdge(t, h) THEN "signal" ELSE "move"
        /\ \A u \in Threads \ {t} : inside'[u] = inside[u]
    BY <1>1 DEF Goes, QueueInv, InsideOK
  <1>7. Wakes(t)'
    <2>1. ~IsEdge(t, h) => IF Reserving(t) THEN ReceiversCared ELSE SendersCared
      BY <1>2, NothingToSignal
    <2>. QED
      BY <1>2, <1>5, <1>6, <2>1 DEF Wakes, At, Reserving
  <1>8. \A u \in Threads : Wakes(u)'
    BY <1>3, <1>6, <1>7, WakesOfOthers
  <1>. QED
    BY <1>2, <1>5, <1>8, WakeKept

LEMMA WakeSignal ==
    ASSUME QueueInv, WakeInv, NEW t \in Threads, Signal(t),
           missed' = {u \in missed : Asleep(u)' \/ inside'[u].point = "wait"}
    PROVE  WakeInv'
  <1>1. PICK woken \in Signalled(IF Reserving(t) THEN WaitNotEmpty ELSE WaitNotFull) :
          Moves(t, pc[t], woken)
    BY DEF Signal, Continue
  <1>2. /\ At(t, "signal") /\ Within(t) /\ UNCHANGED <<head, tail>>
        /\ Goes(t, "move", head, inside[t].old)
    BY DEF Signal, At, Within, ring
  <1>3. lock.owner = t /\ pc[t] \in {"reserve", "receive"}
    BY <1>2, InsideIsLocked
  <1>4. \A u \in Threads : pc'[u] \in {"notFull", "notEmpty"}
                          => pc'[u] = pc[u] /\ (u \in missed => u \in missed')
    BY <1>1, <1>3, WakeInside
  <1>5. /\ inside'[t].point = "move"
        /\ \A u \in Threads \ {t} : inside'[u] = inside[u]
    BY <1>2 DEF Goes, QueueInv, InsideOK
  <1>6. \A u \in Threads : pc'[u] \in {"notFull", "notEmpty"} => u \notin woken
    BY <1>1, <1>3 DEF Moves, Retry
  <1>7. Wakes(t)'
    <2>1. pc'[t] = pc[t]
      BY <1>1, MovesLabels
    <2>2. CASE Reserving(t)
      <3>1. ReceiversCared'
        BY <1>1, <1>4, <1>6, <2>2, SignalReachesReceiver
      <3>. QED
        BY <1>5, <2>1, <2>2, <3>1 DEF Wakes, At, Reserving
    <2>3. CASE ~Reserving(t)
      <3>1. SendersCared'
        BY <1>1, <1>4, <1>6, <2>3, SignalReachesSender
      <3>. QED
        BY <1>5, <2>1, <2>3, <3>1 DEF Wakes, At, Reserving
    <2>. QED
      BY <2>2, <2>3
  <1>8. \A u \in Threads : Wakes(u)'
    BY <1>3, <1>5, <1>7, WakesOfOthers
  <1>. QED
    BY <1>2, <1>4, <1>8, WakeKept

\* The slot is given: a receiver is awake for it, and the sender is this one.
LEMMA WakeGive ==
    ASSUME QueueInv, WakeInv, NEW t \in Threads, Give(t),
           missed' = {u \in missed : Asleep(u)' \/ inside'[u].point = "wait"}
    PROVE  WakeInv'
  <1>. DEFINE label == IF call[t].op = "trySend" THEN "tryUnlock" ELSE "filling"
  <1>1. /\ At(t, "move") /\ Within(t) /\ Reserving(t) /\ Moves(t, label, {}) /\ Leaves(t)
        /\ label \notin {"notFull", "notEmpty"}
    BY DEF Give, At, Within, Continue
  <1>2. lock.owner = t /\ t \in Senders
    BY <1>1, InsideIsLocked DEF QueueInv, ThreadInv, Role, Reserving
  <1>3. pc'[t] = label
    BY <1>1, MovesLabels
  <1>4. ReceiversCared'
    <2>1. ReceiversCared
      BY <1>1 DEF WakeInv, Wakes
    <2>. QED
      BY <1>1, <2>1, WakeInside
  <1>5. SendersCared'
    BY <1>1, <1>2, <1>3 DEF SendersCared
  <1>6. /\ inside'[t].point = "out"
        /\ \A u \in Threads \ {t} : inside'[u] = inside[u]
    BY <1>1 DEF Leaves, Outside, QueueInv, InsideOK
  <1>7. \A u \in Threads : Wakes(u)'
    <2>1. Wakes(t)'
      BY <1>6 DEF Wakes, At
    <2>. QED
      BY <1>2, <1>6, <2>1, WakesOfOthers
  <1>. QED
    BY <1>4, <1>5, <1>7 DEF WakeInv

\* The message is taken: a sender is awake for its slot, and the receiver is this one.
LEMMA WakeAdvance ==
    ASSUME QueueInv, WakeInv, NEW t \in Threads, Advance(t),
           missed' = {u \in missed : Asleep(u)' \/ inside'[u].point = "wait"}
    PROVE  WakeInv'
  <1>1. PICK h \in SeenHeads(t) : Goes(t, "read", Next_(h), inside[t].old)
    BY DEF Advance
  <1>2. At(t, "move") /\ Within(t) /\ Receiving(t) /\ ~Reserving(t) /\ UNCHANGED pc
    BY DEF Advance, At, Within, Receiving, Reserving
  <1>3. lock.owner = t /\ t \in Receivers /\ pc[t] = "receive"
    BY <1>2, InsideIsLocked DEF QueueInv, ThreadInv, Role, Receiving
  <1>4. Moves(t, pc[t], {})
    BY <1>2 DEF Moves, QueueInv, TypeOK
  <1>5. SendersCared'
    <2>1. SendersCared
      BY <1>2 DEF WakeInv, Wakes
    <2>. QED
      BY <1>3, <1>4, <2>1, WakeInside
  <1>6. ReceiversCared'
    BY <1>2, <1>3 DEF ReceiversCared
  <1>7. /\ inside'[t].point = "read"
        /\ \A u \in Threads \ {t} : inside'[u] = inside[u]
    BY <1>1 DEF Goes, QueueInv, InsideOK
  <1>8. \A u \in Threads : Wakes(u)'
    <2>1. Wakes(t)'
      BY <1>2, <1>5, <1>7 DEF Wakes, At, Reserving
    <2>. QED
      BY <1>3, <1>7, <2>1, WakesOfOthers
  <1>. QED
    BY <1>5, <1>6, <1>8 DEF WakeInv

LEMMA WakeRead ==
    ASSUME QueueInv, WakeInv, NEW t \in Threads, Read(t),
           missed' = {u \in missed : Asleep(u)' \/ inside'[u].point = "wait"}
    PROVE  WakeInv'
  <1>1. /\ Within(t) /\ Leaves(t) /\ UNCHANGED <<head, tail>>
    BY DEF Read, At, Within, ring
  <1>2. PICK label \in {"idle", "tryUnlock"} : Moves(t, label, {})
    BY DEF Read, Received, Return
  <1>3. lock.owner = t
    BY <1>1, InsideIsLocked
  <1>4. \A u \in Threads : pc'[u] \in {"notFull", "notEmpty"}
                          => pc'[u] = pc[u] /\ (u \in missed => u \in missed')
    BY <1>2, WakeInside
  <1>5. /\ inside'[t].point = "out"
        /\ \A u \in Threads \ {t} : inside'[u] = inside[u]
    BY <1>1 DEF Leaves, Outside, QueueInv, InsideOK
  <1>6. \A u \in Threads : Wakes(u)'
    <2>1. Wakes(t)'
      BY <1>5 DEF Wakes, At
    <2>. QED
      BY <1>3, <1>5, <2>1, WakesOfOthers
  <1>. QED
    BY <1>1, <1>4, <1>6, WakeKept

\* sig_term leaves one message, and wakes whom it must; the thread it interrupts
\* between its test and its wait is noted.
LEMMA WakeSigTerm ==
    ASSUME QueueInv, WakeInv, NEW t \in Threads, alive, SigTerm(t) PROVE WakeInv'
  <1>1. PICK woken \in ClearWoken : pc' = [u \in Threads |-> IF u \in woken THEN Retry(u) ELSE pc[u]]
    BY DEF SigTerm
  <1>2. /\ TypeOK /\ InsideOK /\ head \in Slots /\ tail \in Slots
        /\ UNCHANGED <<inside, tail>> /\ head' = Prev_(tail)
        /\ lock.owner \in {NoThread, t}
        /\ missed' = {u \in missed : Asleep(u) => Asleep(u)'} \cup (IF At(t, "wait") THEN {t} ELSE {})
    BY DEF SigTerm, QueueInv, TypeOK, ExitMessageOnly, CanLock
  <1>3. head' # tail /\ ~IsEmpty'
    BY <1>2, NextPrev DEF IsEmpty
  <1>4. \A u \in Threads : pc'[u] \in {"notFull", "notEmpty"}
                          => pc'[u] = pc[u] /\ u \notin woken /\ (u \in missed => u \in missed')
    BY <1>1, <1>2, SigTermWakes DEF Asleep
  <1>5. Senders \subseteq Threads /\ Receivers \subseteq Threads
    BY DEF Threads
  <1>6. SendersCared'
    <2>1. CASE IsFull
      BY <1>1, <1>4, <2>1, SignalReachesSender DEF ClearWoken, WokenByRoom
    <2>2. CASE ~IsFull
      <3>1. SendersCared
        BY <2>2 DEF WakeInv
      <3>. QED
        BY <1>4, <1>5, <3>1, SendersStayCared
    <2>. QED
      BY <2>1, <2>2
  <1>7. ReceiversCared'
    <2>1. CASE IsEmpty
      <3>1. ~IsFull
        BY <1>2, <2>1, EmptyIsNotFull
      <3>. QED
        BY <1>1, <1>4, <2>1, <3>1, SignalReachesReceiver DEF ClearWoken, WokenByFirst
    <2>2. CASE ~IsEmpty
      <3>1. ReceiversCared
        BY <2>2 DEF WakeInv
      <3>. QED
        BY <1>4, <1>5, <3>1, ReceiversStayCared
    <2>. QED
      BY <2>1, <2>2
  <1>8. Wakes(t)'
    <2>1. CASE ~Within(t)
      BY <1>2, <2>1 DEF Wakes, Within, At
    <2>2. CASE Within(t)
      <3>1. pc'[t] = pc[t] /\ pc[t] \in {"reserve", "receive"}
        BY <1>1, <1>2, <2>2, InsideIsLocked, SigTermWakes
      <3>2. At(t, "wait")' => t \in missed'
        BY <1>2 DEF At
      <3>3. Receiving(t) /\ At(t, "look") => inside[t].seen # tail
        BY DEF WakeInv, Wakes
      <3>. QED
        BY <1>2, <1>3, <1>6, <1>7, <3>1, <3>2, <3>3 DEF Wakes, At, Reserving, Receiving, Prev_
    <2>. QED
      BY <2>1, <2>2
  <1>9. \A u \in Threads : Wakes(u)'
    BY <1>2, <1>8, WakesOfOthers
  <1>. QED
    BY <1>6, <1>7, <1>9 DEF WakeInv

LEMMA WakeNext == QueueInv /\ WakeInv /\ [SignalsNext]_allVars => WakeInv'
  <1>. SUFFICES ASSUME QueueInv, WakeInv, [SignalsNext]_allVars PROVE WakeInv'
    OBVIOUS
  <1>1. CASE UNCHANGED queueVars
    BY <1>1
    DEF queueVars, vars, WakeInv, Wakes, ReceiversCared, SendersCared, At, Reserving, Receiving,
        IsEmpty, IsFull, Prev_
  <1>2. ASSUME NEW t \in Threads, QueueStep(t) PROVE WakeInv'
    <2>1. SectionStep(t) /\ missed' = {u \in missed : Asleep(u)' \/ inside'[u].point = "wait"}
      BY <1>2 DEF QueueStep
    <2>. QED
      BY <2>1, WakeWhole, WakeTest, WakeWait, WakeLook, WakeSignal, WakeGive, WakeAdvance, WakeRead
      DEF SectionStep
  <1>. QED
    BY <1>1, <1>2, WakeSigTerm, KindOfStep

\* Neither do all receivers sleep beside a message, nor all senders beside a free
\* slot, whatever signals come to whatever threads; unless sig_term ran in one of
\* them between its test and its wait.
THEOREM SigTermWakesWhomItMust == SignalsSpec => []WakeUpsSurvive
  BY QueueInit, QueueNext, WakeInit, WakeNext, WakeInvSuffices, PTL DEF SignalsSpec

-----------------------------------------------------------------------------
(***************************************************************************)
(* The table of signals.  Main extends it, a handler reads it and sets a   *)
(* flag in it: an entry never goes, and a function in it stays.            *)
(***************************************************************************)
Actions == Funcs \cup {SIG_DFL, G}

Entries == [flag : BOOLEAN, actions : Seq(Actions)]

Frames == [sig : Sigs, byG : BOOLEAN, known : BOOLEAN, todo : Seq(Actions),
           early : BOOLEAN, wanted : SUBSET Funcs, called : Seq(Actions)]

Registrations == [point : {"install", "insert", "push"}, sig : Sigs, func : Funcs,
                  found : BOOLEAN, old : Actions]

TableTypeOK ==
    /\ kernel \in [Sigs -> Actions]
    /\ DOMAIN signalsMap \subseteq Sigs
    /\ \A s \in DOMAIN signalsMap : signalsMap[s] \in Entries
    /\ reg = NoReg \/ reg \in Registrations
    /\ frames \in [Threads -> Seq(Frames)]
    /\ proper \in [Sigs -> SUBSET Funcs]

\* How often a sequence holds a function.
Occurs(g, q) == \E i \in DOMAIN q : q[i] = g
AtMostOnce(g, q) == \A i, j \in DOMAIN q : q[i] = g /\ q[j] = g => i = j

\* g_signal_handle is installed for the signals in the table, and for the one
\* whose entry is about to be inserted.
RegAgrees ==
    /\ reg # NoReg /\ reg.point \in {"install", "insert"} => ~Known(reg.sig)
    /\ reg # NoReg /\ reg.found => Known(reg.sig)
    /\ \A s \in Sigs : kernel[s] = G /\ ~Known(s)
                      => reg # NoReg /\ reg.point = "insert" /\ reg.sig = s

\* An entry holds a function once, and those that were registered properly.
EntriesAgree ==
    /\ \A s \in DOMAIN signalsMap : \A g \in Funcs : AtMostOnce(g, signalsMap[s].actions)
    /\ \A s \in Sigs : \A g \in proper[s] : Known(s) /\ Occurs(g, signalsMap[s].actions)

\* A handler has called, or will call, each function it must call, once.
CallsOnce(f, g) ==
    \/ Occurs(g, f.called) /\ AtMostOnce(g, f.called) /\ ~Occurs(g, f.todo)
    \/ ~Occurs(g, f.called) /\ Occurs(g, f.todo) /\ AtMostOnce(g, f.todo)

FrameAgrees(f, knownSigs) ==
    /\ f.known => f.sig \in knownSigs
    /\ f.byG /\ ~f.early => f.known
    /\ f.byG => \A g \in f.wanted : CallsOnce(f, g)

FramesAgree ==
    \A t \in Threads : \A i \in DOMAIN frames[t] :
        FrameAgrees(frames[t][i], DOMAIN signalsMap)

TableInv == TableTypeOK /\ RegAgrees /\ EntriesAgree /\ FramesAgree

-----------------------------------------------------------------------------
\* Lemmas about sequences of functions.

LEMMA AddedKeeps ==
    ASSUME NEW q \in Seq(Actions), NEW func \in Funcs
    PROVE  /\ Added(q, func) \in Seq(Actions)
           /\ Occurs(func, Added(q, func))
           /\ \A g \in Funcs : AtMostOnce(g, q) => AtMostOnce(g, Added(q, func))
           /\ \A g \in Funcs : Occurs(g, q) => Occurs(g, Added(q, func))
  <1>1. CASE func \in ToSet(q)
    BY <1>1 DEF Added, ToSet, Occurs
  <1>2. CASE func \notin ToSet(q)
    <2>. DEFINE r == Append(q, func)
    <2>1. Added(q, func) = r /\ \A i \in DOMAIN q : q[i] # func
      BY <1>2 DEF Added, ToSet
    <2>2. /\ r \in Seq(Actions) /\ Len(r) = Len(q) + 1 /\ r[Len(q) + 1] = func
          /\ \A i \in 1 .. Len(q) : r[i] = q[i]
      BY AppendProperties DEF Actions
    <2>3. Len(q) \in Nat /\ DOMAIN q = 1 .. Len(q) /\ DOMAIN r = 1 .. Len(q) + 1
      BY <2>2, LenProperties
    <2>. HIDE DEF r
    <2>4. Occurs(func, r)
      BY <2>2, <2>3 DEF Occurs
    <2>5. ASSUME NEW g \in Funcs, Occurs(g, q) PROVE Occurs(g, r)
      BY <2>2, <2>3, <2>5 DEF Occurs
    <2>6. ASSUME NEW g \in Funcs, AtMostOnce(g, q) PROVE AtMostOnce(g, r)
      <3>1. SUFFICES ASSUME NEW i \in 1 .. Len(q) + 1, NEW j \in 1 .. Len(q) + 1,
                            r[i] = g, r[j] = g
                     PROVE  i = j
        BY <2>3 DEF AtMostOnce
      <3>2. i \in 1 .. Len(q) \/ i = Len(q) + 1
        BY <2>3
      <3>3. j \in 1 .. Len(q) \/ j = Len(q) + 1
        BY <2>3
      <3>. QED
        BY <2>1, <2>2, <2>3, <2>6, <3>1, <3>2, <3>3 DEF AtMostOnce
    <2>. QED
      BY <2>1, <2>2, <2>4, <2>5, <2>6
  <1>. QED
    BY <1>1, <1>2

\* What becomes of a function when the first of todo is called.
LEMMA FirstIsCalled ==
    ASSUME NEW called \in Seq(Actions), NEW todo \in Seq(Actions), todo # <<>>,
           NEW g \in Funcs
    PROVE  /\ Head(todo) \in Actions /\ Tail(todo) \in Seq(Actions)
           /\ Append(called, Head(todo)) \in Seq(Actions)
           /\ Head(todo) # g => /\ Occurs(g, Append(called, Head(todo))) <=> Occurs(g, called)
                                /\ AtMostOnce(g, called)
                                    => AtMostOnce(g, Append(called, Head(todo)))
                                /\ Occurs(g, Tail(todo)) <=> Occurs(g, todo)
                                /\ AtMostOnce(g, todo) => AtMostOnce(g, Tail(todo))
           /\ Head(todo) = g => /\ Occurs(g, todo)
                                /\ Occurs(g, Append(called, g))
                                /\ ~Occurs(g, called) => AtMostOnce(g, Append(called, g))
                                /\ AtMostOnce(g, todo) => ~Occurs(g, Tail(todo))
  <1>. DEFINE h == Head(todo)
              rest == Tail(todo)
              more == Append(called, h)
              m == Len(todo)
              n == Len(called)
  <1>1. /\ m \in Nat \ {0} /\ n \in Nat /\ DOMAIN todo = 1 .. m /\ DOMAIN called = 1 .. n
        /\ h = todo[1] /\ h \in Actions
    BY LenProperties, EmptySeq, ElementOfSeq, HeadTailProperties
  <1>2. /\ rest \in Seq(Actions) /\ Len(rest) = m - 1 /\ DOMAIN rest = 1 .. m - 1
        /\ \A i \in 1 .. m - 1 : rest[i] = todo[i + 1]
    BY HeadTailProperties, LenProperties
  <1>3. /\ more \in Seq(Actions) /\ DOMAIN more = 1 .. n + 1 /\ more[n + 1] = h
        /\ \A i \in 1 .. n : more[i] = called[i]
    BY <1>1, AppendProperties, LenProperties
  <1>. HIDE DEF h, rest, more, m, n
  <1>4. /\ \A i \in 1 .. m : i = 1 \/ (i - 1 \in 1 .. m - 1 /\ todo[i] = rest[i - 1])
        /\ \A i \in 1 .. m - 1 : i + 1 \in 1 .. m /\ i + 1 # 1
        /\ 1 \in 1 .. m
    <2>1. \A i \in 1 .. m : i = 1 \/ (i - 1 \in 1 .. m - 1 /\ i = (i - 1) + 1)
      BY <1>1
    <2>2. (\A i \in 1 .. m - 1 : i + 1 \in 1 .. m /\ i + 1 # 1) /\ 1 \in 1 .. m
      BY <1>1
    <2>. QED
      BY <1>2, <2>1, <2>2
  <1>5. /\ \A i \in 1 .. n + 1 : i \in 1 .. n \/ i = n + 1
        /\ \A i \in 1 .. n : i \in 1 .. n + 1
        /\ n + 1 \in 1 .. n + 1
    BY <1>1
  <1>6. CASE h # g
    <2>1. Occurs(g, more) <=> Occurs(g, called)
      BY <1>1, <1>3, <1>5, <1>6 DEF Occurs
    <2>2. AtMostOnce(g, called) => AtMostOnce(g, more)
      BY <1>1, <1>3, <1>5, <1>6 DEF AtMostOnce
    <2>3. Occurs(g, rest) <=> Occurs(g, todo)
      <3>1. Occurs(g, rest) => Occurs(g, todo)
        BY <1>1, <1>2, <1>4, <1>6 DEF Occurs
      <3>2. Occurs(g, todo) => Occurs(g, rest)
        <4>1. SUFFICES ASSUME NEW i \in 1 .. m, todo[i] = g PROVE Occurs(g, rest)
          BY <1>1 DEF Occurs
        <4>2. i # 1
          BY <1>1, <1>6, <4>1
        <4>3. i - 1 \in 1 .. m - 1 /\ todo[i] = rest[i - 1]
          BY <1>4, <4>2
        <4>. QED
          BY <1>2, <4>1, <4>3 DEF Occurs
      <3>. QED
        BY <3>1, <3>2
    <2>4. AtMostOnce(g, todo) => AtMostOnce(g, rest)
      <3>1. SUFFICES ASSUME AtMostOnce(g, todo), NEW i \in 1 .. m - 1, NEW j \in 1 .. m - 1,
                            rest[i] = g, rest[j] = g
                     PROVE  i = j
        BY <1>2 DEF AtMostOnce
      <3>2. i + 1 = j + 1
        BY <1>1, <1>2, <1>4, <3>1 DEF AtMostOnce
      <3>. QED
        BY <1>1, <3>2
    <2>. QED
      BY <1>1, <1>2, <1>3, <1>6, <2>1, <2>2, <2>3, <2>4 DEF h, rest, more
  <1>7. CASE h = g
    <2>1. Occurs(g, todo) /\ Occurs(g, more)
      BY <1>1, <1>3, <1>4, <1>5, <1>7 DEF Occurs
    <2>2. ~Occurs(g, called) => AtMostOnce(g, more)
      BY <1>1, <1>3, <1>5, <1>7 DEF Occurs, AtMostOnce
    <2>3. AtMostOnce(g, todo) => ~Occurs(g, rest)
      BY <1>1, <1>2, <1>4, <1>7 DEF Occurs, AtMostOnce
    <2>. QED
      BY <1>1, <1>2, <1>3, <1>7, <2>1, <2>2, <2>3 DEF h, rest, more
  <1>. QED
    BY <1>6, <1>7

-----------------------------------------------------------------------------
\* The invariant of the table.

LEMMA NamesDiffer ==
    /\ SIG_DFL \in Actions /\ G \in Actions /\ SIG_DFL # G
    /\ \A g \in Funcs : g \in Actions /\ g # SIG_DFL /\ g # G
  BY SignalsAssumption DEF Actions, SIG_DFL, G

LEMMA TableInit == SignalsInit => TableInv
  <1>. SUFFICES ASSUME SignalsInit PROVE TableInv
    OBVIOUS
  <1>1. /\ kernel = [s \in Sigs |-> SIG_DFL] /\ DOMAIN signalsMap = {}
        /\ reg = NoReg /\ frames = [t \in Threads |-> <<>>]
        /\ proper = [s \in Sigs |-> {}]
    BY DEF SignalsInit
  <1>2. TableTypeOK
    BY <1>1, NamesDiffer DEF TableTypeOK
  <1>3. RegAgrees
    BY <1>1, NamesDiffer DEF RegAgrees
  <1>4. EntriesAgree
    BY <1>1 DEF EntriesAgree
  <1>5. FramesAgree
    BY <1>1 DEF FramesAgree
  <1>. QED
    BY <1>2, <1>3, <1>4, <1>5 DEF TableInv

\* Signals that become known do not disturb the handlers that run.
LEMMA FramesKept ==
    ASSUME TableInv, UNCHANGED frames, DOMAIN signalsMap \subseteq DOMAIN signalsMap'
    PROVE  FramesAgree'
  BY DEF TableInv, FramesAgree, FrameAgrees

\* A registration under way is a record of the type that RegSig gives it.
LEMMA RegType ==
    ASSUME TableInv, reg.point \in {"install", "insert", "push"}
    PROVE  reg \in Registrations /\ reg # NoReg
  BY DEF TableInv, TableTypeOK, NoReg

LEMMA NoRegPoint == NoReg.point = "none" /\ \A r \in Registrations : r # NoReg
  BY DEF NoReg, Registrations

LEMMA TableInstall == TableInv /\ Install => TableInv'
  <1>. SUFFICES ASSUME TableInv, Install PROVE TableInv'
    OBVIOUS
  <1>. TableTypeOK /\ RegAgrees /\ EntriesAgree
    BY DEF TableInv
  <1>1. reg \in Registrations /\ reg # NoReg /\ reg.point = "install"
    BY RegType DEF Install
  <1>2. UNCHANGED <<signalsMap, frames, proper>>
    BY DEF Install
  <1>3. CASE kernel' = [kernel EXCEPT ![reg.sig] = G]
             /\ reg' = [reg EXCEPT !.point = "insert", !.old = kernel[reg.sig]]
    <2>1. /\ reg' \in Registrations /\ reg'.point = "insert"
          /\ reg'.sig = reg.sig /\ reg'.found = reg.found
      BY <1>1, <1>3 DEF Registrations, TableTypeOK
    <2>2. TableTypeOK'
      BY <1>2, <1>3, <2>1, NamesDiffer DEF TableTypeOK
    <2>3. RegAgrees'
      BY <1>1, <1>2, <1>3, <2>1, NoRegPoint DEF RegAgrees, Known, TableTypeOK
    <2>. QED
      BY <1>2, <2>2, <2>3, FramesKept DEF TableInv, EntriesAgree, Known
  <1>4. CASE UNCHANGED kernel /\ reg' = [reg EXCEPT !.point = "push"]
    <2>1. /\ reg' \in Registrations /\ reg'.point = "push"
          /\ reg'.sig = reg.sig /\ reg'.found = reg.found
      BY <1>1, <1>4 DEF Registrations
    <2>2. TableTypeOK'
      BY <1>2, <1>4, <2>1 DEF TableTypeOK
    <2>3. RegAgrees'
      BY <1>1, <1>2, <1>4, <2>1 DEF RegAgrees, Known
    <2>. QED
      BY <1>2, <2>2, <2>3, FramesKept DEF TableInv, EntriesAgree, Known
  <1>. QED
    BY <1>3, <1>4 DEF Install

LEMMA TableInsert == TableInv /\ Insert => TableInv'
  <1>. SUFFICES ASSUME TableInv, Insert PROVE TableInv'
    OBVIOUS
  <1>. TableTypeOK /\ RegAgrees /\ EntriesAgree
    BY DEF TableInv
  <1>1. reg \in Registrations /\ reg # NoReg /\ reg.point = "insert"
    BY RegType DEF Insert
  <1>2. UNCHANGED <<kernel, frames, proper>> /\ reg' = [reg EXCEPT !.point = "push"]
    BY DEF Insert
  <1>. DEFINE former == IF reg.old \in Skipped THEN <<>> ELSE <<reg.old>>
              entry == [flag |-> FALSE, actions |-> former]
  <1>3. /\ reg' \in Registrations /\ reg'.point = "push"
        /\ reg'.sig = reg.sig /\ reg'.found = reg.found
    BY <1>1, <1>2 DEF Registrations
  <1>4. former \in Seq(Actions) /\ \A g \in Funcs : AtMostOnce(g, former)
    <2>1. reg.old \in Actions
      BY <1>1 DEF Registrations
    <2>2. \A i \in DOMAIN former : i = 1
      OBVIOUS
    <2>. QED
      BY <2>1, <2>2 DEF AtMostOnce
  <1>5. entry \in Entries /\ entry.actions = former
    BY <1>4 DEF Entries
  <1>6. /\ DOMAIN signalsMap' = DOMAIN signalsMap \cup {reg.sig}
        /\ signalsMap'[reg.sig] = entry /\ reg.sig \in Sigs /\ ~Known(reg.sig)
        /\ \A s \in DOMAIN signalsMap : s # reg.sig /\ signalsMap'[s] = signalsMap[s]
    BY <1>1 DEF Insert, Registrations, RegAgrees, Known
  <1>. HIDE DEF former, entry
  <1>7. TableTypeOK'
    BY <1>2, <1>3, <1>5, <1>6 DEF TableTypeOK
  <1>8. RegAgrees'
    BY <1>1, <1>2, <1>3, <1>6 DEF RegAgrees, Known
  <1>9. EntriesAgree'
    BY <1>2, <1>4, <1>5, <1>6 DEF EntriesAgree, Known
  <1>. QED
    BY <1>2, <1>6, <1>7, <1>8, <1>9, FramesKept DEF TableInv

LEMMA TablePush == TableInv /\ Push => TableInv'
  <1>. SUFFICES ASSUME TableInv, Push PROVE TableInv'
    OBVIOUS
  <1>. TableTypeOK /\ RegAgrees /\ EntriesAgree
    BY DEF TableInv
  <1>1. /\ reg \in Registrations /\ reg # NoReg /\ reg.point = "push"
        /\ reg.sig \in Sigs /\ reg.func \in Funcs
    BY RegType DEF Push, Registrations
  <1>2. UNCHANGED <<kernel, frames>> /\ reg' = NoReg
    BY DEF Push
  <1>3. \A s \in Sigs : kernel[s] = G => Known(s)
    BY <1>1 DEF RegAgrees
  <1>4. CASE ~reg.found
    <2>1. UNCHANGED <<signalsMap, proper>>
      BY <1>4 DEF Push
    <2>2. TableTypeOK' /\ RegAgrees'
      BY <1>2, <1>3, <2>1 DEF TableTypeOK, RegAgrees, Known
    <2>. QED
      BY <1>2, <2>1, <2>2, FramesKept DEF TableInv, EntriesAgree, Known
  <1>5. CASE reg.found
    <2>. DEFINE old == signalsMap[reg.sig].actions
                new == Added(old, reg.func)
    <2>1. Known(reg.sig) /\ signalsMap[reg.sig] \in Entries /\ old \in Seq(Actions)
      BY <1>1, <1>5 DEF RegAgrees, Known, TableTypeOK, Entries
    <2>2. /\ new \in Seq(Actions) /\ Occurs(reg.func, new)
          /\ \A g \in Funcs : AtMostOnce(g, old) => AtMostOnce(g, new)
          /\ \A g \in Funcs : Occurs(g, old) => Occurs(g, new)
      BY <1>1, <2>1, AddedKeeps
    <2>3. signalsMap' = [signalsMap EXCEPT ![reg.sig] =
                            [signalsMap[reg.sig] EXCEPT !.actions = new]]
      BY <1>5 DEF Push
    <2>. HIDE DEF new
    <2>4. /\ DOMAIN signalsMap' = DOMAIN signalsMap
          /\ signalsMap'[reg.sig] \in Entries /\ signalsMap'[reg.sig].actions = new
          /\ \A s \in DOMAIN signalsMap : s # reg.sig => signalsMap'[s] = signalsMap[s]
      BY <2>1, <2>2, <2>3 DEF Known, Entries
    <2>5. /\ proper' \in [Sigs -> SUBSET Funcs]
          /\ proper'[reg.sig] = proper[reg.sig] \cup {reg.func}
          /\ \A s \in Sigs : s # reg.sig => proper'[s] = proper[s]
      BY <1>1, <1>5 DEF Push, TableTypeOK
    <2>6. TableTypeOK'
      BY <1>2, <2>4, <2>5 DEF TableTypeOK
    <2>7. RegAgrees'
      BY <1>2, <1>3, <2>4 DEF RegAgrees, Known
    <2>8. ASSUME NEW s \in DOMAIN signalsMap', NEW g \in Funcs
          PROVE  AtMostOnce(g, signalsMap'[s].actions)
      BY <2>1, <2>2, <2>4, <2>8 DEF EntriesAgree, Known
    <2>9. ASSUME NEW s \in Sigs, NEW g \in proper'[s]
          PROVE  s \in DOMAIN signalsMap' /\ Occurs(g, signalsMap'[s].actions)
      <3>1. CASE s # reg.sig
        BY <2>4, <2>5, <2>9, <3>1 DEF EntriesAgree, Known
      <3>2. CASE s = reg.sig
        <4>1. g \in Funcs
          BY <2>5, <2>9
        <4>. QED
          BY <2>1, <2>2, <2>4, <2>5, <2>9, <3>2, <4>1 DEF EntriesAgree, Known
      <3>. QED
        BY <3>1, <3>2
    <2>10. EntriesAgree'
      BY <2>8, <2>9 DEF EntriesAgree, Known
    <2>. QED
      BY <1>2, <2>4, <2>6, <2>7, <2>10, FramesKept DEF TableInv
  <1>. QED
    BY <1>4, <1>5

LEMMA TableMain == TableInv /\ MainStep => TableInv'
  <1>. SUFFICES ASSUME TableInv, MainStep PROVE TableInv'
    OBVIOUS
  <1>. TableTypeOK /\ RegAgrees /\ EntriesAgree
    BY DEF TableInv
  <1>1. ASSUME NEW s \in Sigs, NEW func \in Funcs, RegSig(s, func) PROVE TableInv'
    <2>1. /\ UNCHANGED <<kernel, signalsMap, frames, proper>> /\ reg = NoReg
          /\ reg' \in Registrations /\ reg'.sig = s /\ reg'.found = Known(s)
          /\ reg'.point = IF Known(s) THEN "push" ELSE "install"
      BY <1>1, NamesDiffer DEF RegSig, Registrations, Known
    <2>2. TableTypeOK' /\ RegAgrees'
      BY <2>1 DEF TableTypeOK, RegAgrees, Known
    <2>. QED
      BY <2>1, <2>2, FramesKept DEF TableInv, EntriesAgree, Known
  <1>2. ASSUME NEW s \in Sigs, NEW func \in Funcs, Sigaction(s, func) PROVE TableInv'
    <2>1. /\ UNCHANGED <<signalsMap, reg, frames, proper>>
          /\ kernel' = [kernel EXCEPT ![s] = func]
      BY <1>2 DEF Sigaction
    <2>2. TableTypeOK' /\ RegAgrees'
      BY <2>1, NamesDiffer DEF TableTypeOK, RegAgrees, Known
    <2>. QED
      BY <2>1, <2>2, FramesKept DEF TableInv, EntriesAgree, Known
  <1>3. ASSUME NEW s \in Sigs, ResetFlag(s) PROVE TableInv'
    <2>1. /\ UNCHANGED <<kernel, reg, frames, proper>> /\ Known(s)
          /\ signalsMap' = [signalsMap EXCEPT ![s].flag = FALSE]
      BY <1>3 DEF ResetFlag
    <2>2. /\ DOMAIN signalsMap' = DOMAIN signalsMap
          /\ \A r \in DOMAIN signalsMap : /\ signalsMap'[r] \in Entries
                                           /\ signalsMap'[r].actions = signalsMap[r].actions
      BY <2>1 DEF TableTypeOK, Entries
    <2>3. TableTypeOK'
      BY <2>1, <2>2 DEF TableTypeOK
    <2>4. RegAgrees' /\ EntriesAgree'
      BY <2>1, <2>2 DEF RegAgrees, EntriesAgree, Known
    <2>. QED
      BY <2>1, <2>2, <2>3, <2>4, FramesKept DEF TableInv
  <1>4. CASE Release
    BY <1>4, FramesKept DEF Release, TableInv, TableTypeOK, RegAgrees, EntriesAgree, Known
  <1>. QED
    BY <1>1, <1>2, <1>3, <1>4, TableInstall, TableInsert, TablePush DEF MainStep

LEMMA TableDeliver ==
    ASSUME TableInv, NEW t \in Threads, NEW s \in Sigs, Deliver(t, s)
    PROVE  TableInv'
  <1>. TableTypeOK /\ RegAgrees /\ EntriesAgree /\ FramesAgree
    BY DEF TableInv
  <1>. DEFINE byG == kernel[s] = G
              known == byG /\ Known(s)
              todo == IF kernel[s] # G THEN <<kernel[s]>>
                      ELSE IF Known(s) THEN signalsMap[s].actions ELSE <<>>
              early == reg.point = "insert" /\ reg.sig = s
              f == [sig |-> s, byG |-> byG, known |-> known, todo |-> todo,
                    early |-> early, wanted |-> proper[s], called |-> <<>>]
              new == <<f>> \o frames[t]
  <1>1. UNCHANGED <<kernel, signalsMap, reg, proper>> /\ frames' = [frames EXCEPT ![t] = new]
    BY DEF Deliver
  <1>2. todo \in Seq(Actions)
    <2>1. kernel[s] \in Actions
      BY DEF TableTypeOK
    <2>2. Known(s) => signalsMap[s].actions \in Seq(Actions)
      BY DEF TableTypeOK, Entries, Known
    <2>. QED
      BY <2>1, <2>2
  <1>3. byG /\ ~early => known
    BY DEF RegAgrees
  <1>4. ASSUME byG, NEW g \in proper[s] PROVE CallsOnce(f, g)
    <2>1. Known(s) /\ Occurs(g, signalsMap[s].actions) /\ g \in Funcs
      BY <1>4 DEF EntriesAgree, TableTypeOK
    <2>2. AtMostOnce(g, signalsMap[s].actions) /\ todo = signalsMap[s].actions
      BY <1>4, <2>1 DEF EntriesAgree, Known
    <2>3. f.called = <<>> /\ f.todo = todo
      OBVIOUS
    <2>. HIDE DEF f, todo
    <2>4. ~Occurs(g, f.called)
      BY <2>3 DEF Occurs
    <2>. QED
      BY <2>1, <2>2, <2>3, <2>4 DEF CallsOnce
  <1>. HIDE DEF todo
  <1>5. f \in Frames /\ FrameAgrees(f, DOMAIN signalsMap)
    <2>1. f \in Frames
      BY <1>2 DEF Frames, TableTypeOK
    <2>2. known => s \in DOMAIN signalsMap
      BY DEF Known
    <2>. QED
      BY <1>3, <1>4, <2>1, <2>2 DEF FrameAgrees
  <1>. HIDE DEF f
  <1>6. /\ frames[t] \in Seq(Frames) /\ new \in Seq(Frames)
        /\ \A i \in DOMAIN new : new[i] = f \/ \E j \in DOMAIN frames[t] : new[i] = frames[t][j]
    <2>1. frames[t] \in Seq(Frames) /\ <<f>> \in Seq(Frames) /\ Len(<<f>>) = 1 /\ <<f>>[1] = f
      BY <1>5 DEF TableTypeOK
    <2>2. /\ new \in Seq(Frames) /\ Len(new) = 1 + Len(frames[t]) /\ new[1] = f
          /\ \A i \in 2 .. Len(new) : new[i] = frames[t][i - 1]
      BY <2>1, ConcatProperties
    <2>3. /\ Len(frames[t]) \in Nat /\ DOMAIN frames[t] = 1 .. Len(frames[t])
          /\ DOMAIN new = 1 .. Len(new)
      BY <2>1, <2>2, LenProperties
    <2>4. ASSUME NEW i \in DOMAIN new, i # 1
          PROVE  i \in 2 .. Len(new) /\ i - 1 \in DOMAIN frames[t]
      BY <2>2, <2>3, <2>4
    <2>. QED
      BY <2>1, <2>2, <2>4
  <1>. HIDE DEF new
  <1>7. TableTypeOK'
    BY <1>1, <1>6 DEF TableTypeOK
  <1>8. FramesAgree'
    BY <1>1, <1>5, <1>6 DEF FramesAgree, TableTypeOK
  <1>9. RegAgrees' /\ EntriesAgree'
    BY <1>1 DEF RegAgrees, EntriesAgree, Known
  <1>. QED
    BY <1>7, <1>8, <1>9 DEF TableInv

\* The innermost handler of a thread is the first of its sequence.
LEMMA InnermostFrame ==
    ASSUME TableInv, NEW t \in Threads, InHandler(t)
    PROVE  /\ frames[t] \in Seq(Frames) /\ 1 \in DOMAIN frames[t]
           /\ Head(frames[t]) = frames[t][1] /\ frames[t][1] \in Frames
           /\ FrameAgrees(frames[t][1], DOMAIN signalsMap)
           /\ Tail(frames[t]) \in Seq(Frames) /\ Len(frames[t]) \in Nat
           /\ Len(Tail(frames[t])) = Len(frames[t]) - 1
           /\ \A i \in DOMAIN Tail(frames[t]) :
                i + 1 \in DOMAIN frames[t] /\ Tail(frames[t])[i] = frames[t][i + 1]
  <1>1. frames[t] \in Seq(Frames) /\ frames[t] # <<>>
    BY DEF TableInv, TableTypeOK, InHandler
  <1>2. /\ Len(frames[t]) \in Nat \ {0} /\ DOMAIN frames[t] = 1 .. Len(frames[t])
    BY <1>1, LenProperties, EmptySeq
  <1>3. /\ Head(frames[t]) = frames[t][1] /\ Tail(frames[t]) \in Seq(Frames)
        /\ Len(Tail(frames[t])) = Len(frames[t]) - 1
        /\ \A i \in 1 .. Len(Tail(frames[t])) : Tail(frames[t])[i] = frames[t][i + 1]
    BY <1>1, HeadTailProperties
  <1>4. DOMAIN Tail(frames[t]) = 1 .. Len(frames[t]) - 1
    BY <1>3, LenProperties
  <1>5. 1 \in DOMAIN frames[t] /\ frames[t][1] \in Frames
    BY <1>1, <1>2, ElementOfSeq
  <1>6. \A i \in DOMAIN Tail(frames[t]) : i + 1 \in DOMAIN frames[t]
    BY <1>2, <1>4
  <1>. QED
    BY <1>1, <1>2, <1>3, <1>4, <1>5, <1>6 DEF TableInv, FramesAgree

LEMMA TableCalls ==
    ASSUME TableInv, NEW t \in Threads, HandlerCalls(t) PROVE TableInv'
  <1>. DEFINE f == frames[t][1]
              func == Head(f.todo)
              n == [f EXCEPT !.todo = Tail(@), !.called = Append(@, func)]
              new == [frames[t] EXCEPT ![1] = n]
  <1>. TableTypeOK /\ RegAgrees /\ EntriesAgree /\ FramesAgree
    BY DEF TableInv
  <1>1. /\ frames[t] \in Seq(Frames) /\ 1 \in DOMAIN frames[t] /\ f = Head(frames[t])
        /\ f \in Frames /\ FrameAgrees(f, DOMAIN signalsMap)
    BY InnermostFrame DEF HandlerCalls
  <1>2. /\ UNCHANGED <<kernel, signalsMap, reg, proper>> /\ f.todo # <<>>
        /\ frames' = [frames EXCEPT ![t] = new]
    BY <1>1 DEF HandlerCalls
  <1>3. /\ f.called \in Seq(Actions) /\ f.todo \in Seq(Actions) /\ f.wanted \subseteq Funcs
        /\ func \in Actions /\ Tail(f.todo) \in Seq(Actions)
        /\ Append(f.called, func) \in Seq(Actions)
    <2>1. f.called \in Seq(Actions) /\ f.todo \in Seq(Actions) /\ f.wanted \subseteq Funcs
      BY <1>1 DEF Frames
    <2>. QED
      BY <1>2, <2>1, HeadTailProperties, AppendProperties
  <1>4. /\ n \in Frames /\ n.sig = f.sig /\ n.byG = f.byG /\ n.known = f.known
        /\ n.early = f.early /\ n.wanted = f.wanted /\ n.todo = Tail(f.todo)
        /\ n.called = Append(f.called, func)
    BY <1>1, <1>3 DEF Frames
  <1>. HIDE DEF n, f
  <1>5. ASSUME NEW g \in f.wanted, CallsOnce(f, g) PROVE CallsOnce(n, g)
    <2>1. g \in Funcs
      BY <1>3
    <2>2. CASE func # g
      BY <1>2, <1>3, <1>4, <1>5, <2>1, <2>2, FirstIsCalled DEF CallsOnce
    <2>3. CASE func = g
      BY <1>2, <1>3, <1>4, <1>5, <2>1, <2>3, FirstIsCalled DEF CallsOnce
    <2>. QED
      BY <2>2, <2>3
  <1>6. FrameAgrees(n, DOMAIN signalsMap)
    BY <1>1, <1>4, <1>5 DEF FrameAgrees
  <1>7. /\ new \in Seq(Frames) /\ DOMAIN new = DOMAIN frames[t] /\ new[1] = n
        /\ \A i \in DOMAIN frames[t] : i # 1 => new[i] = frames[t][i]
    BY <1>1, <1>4, ExceptSeq
  <1>. HIDE DEF new
  <1>8. TableTypeOK'
    BY <1>2, <1>7 DEF TableTypeOK
  <1>9. FramesAgree'
    BY <1>2, <1>6, <1>7 DEF FramesAgree, TableTypeOK
  <1>10. RegAgrees' /\ EntriesAgree'
    BY <1>2 DEF RegAgrees, EntriesAgree, Known
  <1>. QED
    BY <1>8, <1>9, <1>10 DEF TableInv

LEMMA TableReturns ==
    ASSUME TableInv, NEW t \in Threads, HandlerReturns(t) PROVE TableInv'
  <1>. DEFINE f == frames[t][1]
              rest == Tail(frames[t])
  <1>. TableTypeOK /\ RegAgrees /\ EntriesAgree /\ FramesAgree
    BY DEF TableInv
  <1>1. /\ f = Head(frames[t]) /\ FrameAgrees(f, DOMAIN signalsMap)
        /\ rest \in Seq(Frames)
        /\ \A i \in DOMAIN rest : i + 1 \in DOMAIN frames[t] /\ rest[i] = frames[t][i + 1]
    BY InnermostFrame DEF HandlerReturns
  <1>2. /\ UNCHANGED <<kernel, reg, proper>> /\ frames' = [frames EXCEPT ![t] = rest]
        /\ signalsMap' = IF f.known THEN [signalsMap EXCEPT ![f.sig].flag = TRUE] ELSE signalsMap
    BY <1>1 DEF HandlerReturns, Notes
  <1>. HIDE DEF f, rest
  <1>3. /\ DOMAIN signalsMap' = DOMAIN signalsMap
        /\ \A s \in DOMAIN signalsMap : /\ signalsMap'[s] \in Entries
                                         /\ signalsMap'[s].actions = signalsMap[s].actions
    BY <1>2 DEF TableTypeOK, Entries
  <1>4. TableTypeOK'
    BY <1>1, <1>2, <1>3 DEF TableTypeOK
  <1>5. FramesAgree'
    BY <1>1, <1>2, <1>3 DEF FramesAgree, TableTypeOK
  <1>6. RegAgrees' /\ EntriesAgree'
    BY <1>2, <1>3 DEF RegAgrees, EntriesAgree, Known
  <1>. QED
    BY <1>4, <1>5, <1>6 DEF TableInv

LEMMA TableNext == TableInv /\ [SignalsNext]_allVars => TableInv'
  <1>. SUFFICES ASSUME TableInv, [SignalsNext]_allVars PROVE TableInv'
    OBVIOUS
  <1>1. CASE UNCHANGED <<kernel, signalsMap, reg, frames, proper>>
    BY <1>1, FramesKept DEF TableInv, TableTypeOK, RegAgrees, EntriesAgree, Known
  <1>2. CASE UNCHANGED allVars
    BY <1>1, <1>2 DEF allVars, signalVars
  <1>3. ASSUME NEW t \in Threads, QueueStep(t) PROVE TableInv'
    BY <1>1, <1>3 DEF QueueStep, signalVars
  <1>. QED
    BY <1>2, <1>3, TableMain, TableDeliver, TableCalls, TableReturns DEF SignalsNext

\* A thread has fewer handlers after a step only if one of them returned in it.
LEMMA WhoReturns ==
    ASSUME TableInv, [SignalsNext]_allVars, NEW t \in Threads, Returned(t)
    PROVE  HandlerReturns(t)
  <1>1. /\ frames \in [Threads -> Seq(Frames)] /\ frames[t] \in Seq(Frames)
        /\ Len(frames[t]) \in Nat /\ frames'[t] # frames[t]
    BY LenProperties DEF TableInv, TableTypeOK, Returned
  <1>2. ASSUME UNCHANGED frames PROVE FALSE
    BY <1>1, <1>2
  <1>3. ASSUME NEW u \in Threads, NEW s \in Sigs, Deliver(u, s) PROVE FALSE
    <2>1. PICK f : frames' = [frames EXCEPT ![u] = <<f>> \o @]
      BY <1>3 DEF Deliver
    <2>2. u = t /\ frames'[t] = <<f>> \o frames[t]
      BY <1>1, <2>1
    <2>. DEFINE S == Frames \cup {f}
    <2>3. frames[t] \in Seq(S) /\ <<f>> \in Seq(S) /\ Len(<<f>>) = 1
      BY <1>1, SeqMonotonic
    <2>. HIDE DEF S
    <2>4. Len(frames'[t]) = 1 + Len(frames[t])
      BY <2>2, <2>3, ConcatProperties
    <2>. QED
      BY <1>1, <2>4 DEF Returned
  <1>4. ASSUME NEW u \in Threads, HandlerCalls(u) PROVE FALSE
    <2>1. PICK n : frames' = [frames EXCEPT ![u] = [@ EXCEPT ![1] = n]]
      BY <1>4 DEF HandlerCalls
    <2>2. u = t /\ frames'[t] = [frames[t] EXCEPT ![1] = n]
      BY <1>1, <2>1
    <2>. DEFINE S == Frames \cup {n}
    <2>3. frames[t] \in Seq(S) /\ n \in S /\ 1 \in 1 .. Len(frames[t])
      BY <1>1, <1>4, <2>2, SeqMonotonic, LenProperties, InnermostFrame DEF HandlerCalls
    <2>. HIDE DEF S
    <2>4. Len(frames'[t]) = Len(frames[t])
      BY <2>2, <2>3, ExceptSeq
    <2>. QED
      BY <1>1, <2>4 DEF Returned
  <1>5. ASSUME NEW u \in Threads, HandlerReturns(u) PROVE u = t
    BY <1>1, <1>5 DEF HandlerReturns
  <1>6. CASE MainStep
    BY <1>2, <1>6
    DEF MainStep, RegSig, Sigaction, ResetFlag, Install, Insert, Push, Release
  <1>7. ASSUME NEW u \in Threads, QueueStep(u) PROVE FALSE
    BY <1>2, <1>7 DEF QueueStep, signalVars
  <1>. QED
    BY <1>2, <1>3, <1>4, <1>5, <1>6, <1>7 DEF SignalsNext, allVars, signalVars

\* When g_signal_handle returns, the flag of its signal is set, unless the
\* signal came before its entry was in the table.
THEOREM SignalsAreNoted == SignalsSpec => SignalIsNoted
  <1>1. ASSUME TableInv, [SignalsNext]_allVars, NEW t \in Threads, Returned(t),
               Head(frames[t]).byG, ~Head(frames[t]).early
        PROVE  LET f == Head(frames[t])
               IN f.sig \in DOMAIN signalsMap' /\ signalsMap'[f.sig].flag
    <2>1. HandlerReturns(t)
      BY <1>1, WhoReturns
    <2>. DEFINE f == Head(frames[t])
    <2>2. FrameAgrees(f, DOMAIN signalsMap)
      BY <1>1, <2>1, InnermostFrame DEF HandlerReturns
    <2>3. f.known /\ f.sig \in DOMAIN signalsMap
      BY <1>1, <2>2 DEF FrameAgrees
    <2>4. signalsMap' = [signalsMap EXCEPT ![f.sig].flag = TRUE]
      BY <2>1, <2>3 DEF HandlerReturns, Notes
    <2>5. signalsMap[f.sig] \in Entries
      BY <1>1, <2>3 DEF TableInv, TableTypeOK
    <2>. HIDE DEF f
    <2>6. f.sig \in DOMAIN signalsMap' /\ signalsMap'[f.sig].flag
      BY <2>3, <2>4, <2>5 DEF Entries
    <2>. QED
      BY <2>6 DEF f
  <1>2. TableInv /\ [SignalsNext]_allVars =>
            [\A t \in Threads : Returned(t) =>
                LET f == Head(frames[t])
                IN f.byG /\ ~f.early => f.sig \in DOMAIN signalsMap' /\ signalsMap'[f.sig].flag
            ]_allVars
    BY <1>1
  <1>. QED
    BY <1>2, TableInit, TableNext, PTL DEF SignalsSpec, SignalIsNoted

\* Each function that was registered where its signal was known is called once
\* by each handling of the signal.
THEOREM RegisteredFuncsAreCalled == SignalsSpec => FuncsAreCalled
  <1>1. ASSUME TableInv, [SignalsNext]_allVars, NEW t \in Threads, Returned(t),
               Head(frames[t]).byG, NEW g \in Head(frames[t]).wanted
        PROVE  LET f == Head(frames[t])
               IN Cardinality({i \in DOMAIN f.called : f.called[i] = g}) = 1
    <2>1. HandlerReturns(t)
      BY <1>1, WhoReturns
    <2>. DEFINE f == Head(frames[t])
                places == {i \in DOMAIN f.called : f.called[i] = g}
    <2>2. FrameAgrees(f, DOMAIN signalsMap) /\ f.todo = <<>>
      BY <1>1, <2>1, InnermostFrame DEF HandlerReturns
    <2>3. CallsOnce(f, g) /\ DOMAIN f.todo = {}
      BY <1>1, <2>2 DEF FrameAgrees
    <2>. HIDE DEF f
    <2>4. Occurs(g, f.called) /\ AtMostOnce(g, f.called)
      BY <2>3 DEF CallsOnce, Occurs
    <2>5. PICK i \in DOMAIN f.called : places = {i}
      BY <2>4 DEF Occurs, AtMostOnce
    <2>6. Cardinality(places) = 1
      BY <2>5, FS_Singleton
    <2>. QED
      BY <2>6 DEF f
  <1>2. TableInv /\ [SignalsNext]_allVars =>
            [\A t \in Threads : Returned(t) =>
                LET f == Head(frames[t])
                IN f.byG => \A g \in f.wanted :
                        Cardinality({i \in DOMAIN f.called : f.called[i] = g}) = 1
            ]_allVars
    BY <1>1
  <1>. QED
    BY <1>2, TableInit, TableNext, PTL DEF SignalsSpec, FuncsAreCalled
=============================================================================
