-------------------------------- MODULE Timer --------------------------------
(***************************************************************************)
(* timer.h, timer.cpp: Timer, a Thread whose run() calls action(id) when   *)
(* the alarm of a subscription comes.  The thread's own steps are those of *)
(* Thread; here run() is split where other threads can see it: it holds    *)
(* _lock from its beginning to its end, also while it calls action(),      *)
(* except in the timed wait for the next alarm.                            *)
(*                                                                         *)
(* Time is a discrete clock.  _begin_time is never set, so the keys of     *)
(* _delays are the alarms themselves.                                      *)
(***************************************************************************)
EXTENDS Thread, Sequences

Seqs == INSTANCE SequencesExt

CONSTANTS
    Ids,            \* the subscription ids
    Delays,         \* the delays clients ask for
    MaxTime,        \* the clock stops here: no later alarm is asked for
    ActionOps,      \* what action(id) may call: "add", "remove"
    JoinsFirst,     \* the derived class calls join() in its destructor
    RunLock,        \* the owner of _lock when run() holds it
    NoLock,
    End, Lost       \* an iterator at the end; one whose element is gone

ASSUME TimerAssumption ==
    /\ Delays \subseteq Nat /\ MaxTime \in Nat
    /\ ActionOps \subseteq {"add", "remove"}
    /\ JoinsFirst \in BOOLEAN
    /\ StartsPaused = {TRUE}
    /\ RunLock \notin Clients /\ NoLock \notin Clients \cup {RunLock}
    /\ End \notin Ids /\ Lost \notin Ids \cup {End}

VARIABLES
    clock,
    delays,         \* _delays: alarms and ids, in the order of the multimap
    subs,           \* _sub_ids: the alarm of each subscribed id
    lock,           \* who holds _lock between two steps
    task,           \* where run() is
    now, iter,      \* its local variables; iter is the id of the element
    until,          \* what its timed wait waits for
    acting,         \* the id action() was called with
    maps,           \* the maps are not yet destroyed
    leaving         \* how far the destructors are

timerVars == <<clock, delays, subs, lock, task, now, iter, until, acting, maps, leaving>>
runVars == <<now, iter, until, acting>>
allVars == <<vars, timerVars>>

Tasks == {"none", "scan", "action", "timedWait", "woken", "spin", "undefined"}

TimerTypeOK ==
    /\ clock \in 0 .. MaxTime
    /\ delays \in Seq([at : 0 .. MaxTime, id : Ids])
    /\ DOMAIN subs \subseteq Ids /\ \A i \in DOMAIN subs : subs[i] \in 0 .. MaxTime
    /\ lock \in Clients \cup {RunLock, NoLock}
    /\ task \in Tasks
    /\ now \in 0 .. MaxTime /\ until \in 0 .. MaxTime
    /\ iter \in Ids \cup {End, Lost} /\ acting \in Ids \cup {End}
    /\ maps \in BOOLEAN
    /\ leaving \in {"no", "derived", "timer", "thread"}
    /\ lock = RunLock <=> task \in {"scan", "action", "spin", "undefined"}

TimerInit ==
    /\ Init
    /\ clock = 0
    /\ delays = <<>> /\ subs = <<>>
    /\ lock = NoLock
    /\ task = "none"
    /\ now = 0 /\ until = 0 /\ iter = End /\ acting = End
    /\ maps = TRUE /\ leaving = "no"

-----------------------------------------------------------------------------
\* The maps.

\* Fault: the order of the alarms is not kept.
InsertedLast(e) == Append(delays, e)

\* multimap::insert: after the elements with the same key.
PlaceFor(at) ==
    CHOOSE p \in 1 .. Len(delays) + 1 :
        /\ \A i \in 1 .. p - 1 : delays[i].at <= at
        /\ \A i \in p .. Len(delays) : delays[i].at > at

Inserted(e) == Seqs!InsertAt(delays, PlaceFor(e.at), e)

Position(id) == CHOOSE i \in DOMAIN delays : delays[i].id = id

\* Fault: the element stays in the multimap.
WithoutNone(id) == delays

Without(id) == Seqs!RemoveAt(delays, Position(id))

\* Fault: the first element is taken for the one with the key.
FoundFirst(at) == delays[1]

\* multimap::find: the first element with the key.
Found(at) ==
    delays[CHOOSE k \in DOMAIN delays :
               delays[k].at = at /\ \A j \in 1 .. k - 1 : delays[j].at # at]

First == IF delays = <<>> THEN End ELSE delays[1].id

\* Fault: the iterator is not moved on.
AfterNot(id) == id

After(id) == IF Position(id) = Len(delays) THEN End ELSE delays[Position(id) + 1].id

Subscribed(id) == id \in DOMAIN subs

\* Thread::start(), called with _lock held.
StartBody ==
    IF state = "PAUSED"
    THEN /\ state' = "RUNNING" /\ worker' = Woken
         /\ begun' = 0 /\ started' = TRUE
         /\ careful' = (careful /\ callback # NULL /\ NobodySets)
         /\ UNCHANGED <<threadId, callback, param, destroyed, locals, clients, stopAsked, saidEnd>>
    ELSE UNCHANGED vars

\* Fault: the first record is not an earlier one.
NeedSetTimeLater(alarm) == delays # <<>> /\ alarm < delays[1].at

NeedSetTime(alarm) == delays = <<>> \/ alarm < delays[1].at

\* add() from its lock to its unlock.
AddBody(delay, id) ==
    LET alarm == clock + delay
    IN  IF Subscribed(id) THEN UNCHANGED <<vars, delays, subs>>
        ELSE /\ IF NeedSetTime(alarm) THEN StartBody ELSE UNCHANGED vars
             /\ delays' = Inserted([at |-> alarm, id |-> id])
             /\ subs' = [i \in DOMAIN subs \cup {id} |-> IF i = id THEN alarm ELSE subs[i]]

\* remove() looks for the id at its alarm, and looks again at the same place
\* as long as it finds another id there.
Spins(id) == Subscribed(id) /\ Found(subs[id]).id # id

RemoveBody(id) ==
    IF Subscribed(id)
    THEN /\ delays' = Without(id)
         /\ subs' = [i \in DOMAIN subs \ {id} |-> subs[i]]
    ELSE UNCHANGED <<delays, subs>>

-----------------------------------------------------------------------------
\* run(), in the worker.

\* Fault: the lock is not taken.
LockIgnored == TRUE

LockFree == lock = NoLock

\* run() returns to realThreadProc and gives the lock back.
RunReturns(goOn) ==
    /\ task' = "none" /\ lock' = NoLock
    /\ worker' = IF goOn THEN "check" ELSE "exiting"
    /\ saidEnd' = (saidEnd \/ ~goOn)
    /\ now' = 0 /\ iter' = End /\ until' = 0 /\ acting' = End
    /\ UNCHANGED <<threadId, callback, param, destroyed, locals, clients, stopAsked,
                   started, careful, clock, delays, subs, maps, leaving>>

\* Without subscriptions the thread pauses itself.
RunPauses ==
    /\ worker = "calling" /\ task = "none" /\ LockFree
    /\ delays = <<>>
    /\ IF state = "RUNNING" THEN state' = "PAUSED" /\ begun' = 0
       ELSE UNCHANGED <<state, begun>>
    /\ RunReturns(TRUE)

RunBegins ==
    /\ worker = "calling" /\ task = "none" /\ LockFree
    /\ delays # <<>>
    /\ task' = "scan" /\ lock' = RunLock
    /\ now' = clock /\ iter' = First
    /\ UNCHANGED <<vars, clock, delays, subs, until, acting, maps, leaving>>

\* The iterator has moved on when the element is removed and action() called.
RunFires ==
    /\ task = "scan" /\ iter \in Ids
    /\ delays[Position(iter)].at <= now
    /\ iter' = After(iter)
    /\ IF Spins(iter) THEN task' = "spin" /\ UNCHANGED <<delays, subs, acting>>
       ELSE RemoveBody(iter) /\ task' = "action" /\ acting' = iter
    /\ UNCHANGED <<vars, clock, lock, now, until, maps, leaving>>

RunWaits ==
    /\ task = "scan" /\ iter \in Ids
    /\ delays[Position(iter)].at > now
    /\ until' = delays[Position(iter)].at /\ iter' = End
    /\ task' = "timedWait" /\ lock' = NoLock
    /\ UNCHANGED <<vars, clock, delays, subs, now, acting, maps, leaving>>

RunEnds ==
    /\ task = "scan" /\ iter = End
    /\ UNCHANGED <<state, begun>>
    /\ RunReturns(TRUE)

\* The element the iterator points to is gone: whatever follows is undefined.
RunIsLost ==
    /\ task = "scan" /\ iter = Lost
    /\ task' = "undefined"
    /\ UNCHANGED <<vars, clock, delays, subs, lock, runVars, maps, leaving>>

\* The timed wait ends by its time, or spuriously; stop() ends it too.
TimedWaitEnds ==
    /\ task = "timedWait"
    /\ clock >= until \/ SpuriousWakes
    /\ task' = "woken"
    /\ UNCHANGED <<vars, clock, delays, subs, lock, runVars, maps, leaving>>

RunWakes ==
    /\ task = "woken" /\ LockFree
    /\ UNCHANGED <<state, begun>>
    /\ RunReturns(state # "STOPPED")

ActionReturns ==
    /\ task = "action"
    /\ task' = "scan" /\ acting' = End
    /\ UNCHANGED <<vars, clock, delays, subs, lock, now, iter, until, maps, leaving>>

ActionAdds(delay, id) ==
    /\ task = "action" /\ "add" \in ActionOps
    /\ delay > 0 /\ clock + delay <= MaxTime
    /\ AddBody(delay, id)
    /\ UNCHANGED <<clock, lock, task, runVars, maps, leaving>>

ActionRemoves(id) ==
    /\ task = "action" /\ "remove" \in ActionOps
    /\ IF Spins(id) THEN task' = "spin" /\ UNCHANGED <<delays, subs, iter>>
       ELSE /\ RemoveBody(id) /\ UNCHANGED task
            /\ iter' = IF id = iter THEN Lost ELSE iter
    /\ UNCHANGED <<vars, clock, lock, now, until, acting, maps, leaving>>

-----------------------------------------------------------------------------
\* The clients.

MayUse(c) == MayCall(c) /\ leaving = "no" /\ LockFree

\* A null delay is refused before the lock; MaxTime bounds the alarms.
Add(c, delay, id) ==
    /\ MayUse(c)
    /\ delay > 0 /\ clock + delay <= MaxTime
    /\ AddBody(delay, id)
    /\ UNCHANGED <<clock, lock, task, runVars, maps, leaving>>

Remove(c, id) ==
    /\ MayUse(c)
    /\ IF Spins(id) THEN lock' = c /\ UNCHANGED <<delays, subs>>
       ELSE RemoveBody(id) /\ UNCHANGED lock
    /\ UNCHANGED <<vars, clock, task, runVars, maps, leaving>>

\* Thread::join() for the destructors of the derived class and of Thread.
JoinAnd(next) ==
    /\ LockFree
    /\ Join(Owner) /\ client'[Owner] = next
    /\ task' = IF task = "timedWait" THEN "woken" ELSE task
    /\ UNCHANGED <<clock, delays, subs, lock, runVars, maps>>

DestroyDerived ==
    /\ JoinsFirst /\ leaving = "no"
    /\ JoinAnd("joining")
    /\ leaving' = "derived"

\* ~Timer() takes the lock and gives it back; then the maps are destroyed.
DestroyTimer ==
    /\ MayCall(Owner) /\ LockFree
    /\ leaving = IF JoinsFirst THEN "derived" ELSE "no"
    /\ leaving' = "timer" /\ maps' = FALSE
    /\ UNCHANGED <<vars, clock, delays, subs, lock, task, runVars>>

DestroyThread ==
    /\ leaving = "timer"
    /\ JoinAnd("destroying")
    /\ leaving' = "thread"

-----------------------------------------------------------------------------
\* The steps of the thread around run(), which need the lock.
ThreadStep ==
    /\ \/ LockFree /\ (WorkerEnters \/ WorkerSnapshots \/ WorkerChecks
                       \/ WorkerRefreshes \/ WorkerExits)
       \/ WorkerLoops
    /\ UNCHANGED timerVars

RunStep ==
    \/ RunPauses \/ RunBegins \/ RunFires \/ RunWaits \/ RunEnds \/ RunWakes
    \/ ActionReturns \/ RunIsLost

Tick ==
    /\ clock < MaxTime
    /\ clock' = clock + 1
    /\ UNCHANGED <<vars, delays, subs, lock, task, runVars, maps, leaving>>

TimerNext ==
    \/ (Construct(TRUE) \/ ConstructFails \/ SpuriousWake) /\ UNCHANGED timerVars
    \/ ThreadStep
    \/ RunStep
    \/ TimedWaitEnds
    \/ \E delay \in Delays, id \in Ids : ActionAdds(delay, id)
    \/ \E id \in Ids : ActionRemoves(id)
    \/ \E c \in Clients, delay \in Delays, id \in Ids : Add(c, delay, id)
    \/ \E c \in Clients, id \in Ids : Remove(c, id)
    \/ DestroyDerived \/ DestroyTimer \/ DestroyThread
    \/ JoinReturns(Owner) /\ UNCHANGED timerVars
    \/ Tick

TimerSpec == TimerInit /\ [][TimerNext]_allVars

\* The worker runs, action() returns, time passes and a timed wait that is
\* over ends.
FairTimerSpec ==
    /\ TimerSpec
    /\ WF_allVars(ThreadStep) /\ WF_allVars(RunStep) /\ WF_allVars(Tick)
    /\ WF_allVars(TimedWaitEnds /\ clock >= until)
    /\ WF_allVars(JoinReturns(Owner) /\ UNCHANGED timerVars)

-----------------------------------------------------------------------------
(***************************************************************************)
(* Properties.                                                             *)
(***************************************************************************)

\* The two maps tell the same story: every subscribed id is in _delays once,
\* at its alarm, in the order of the alarms, and nothing else is there.
MapsAgree ==
    /\ {delays[i] : i \in DOMAIN delays} = {[at |-> subs[id], id |-> id] : id \in DOMAIN subs}
    /\ \A i, j \in DOMAIN delays : i < j => delays[i].id # delays[j].id
                                            /\ delays[i].at <= delays[j].at

\* The thread is paused only while nothing is subscribed: add() never leaves an
\* alarm behind that nobody waits for (timer.cpp:19-22, 94-120).
PausedOnlyWhenIdle == state = "PAUSED" => delays = <<>>

\* A timed wait ends at the first alarm or before it (timer.cpp:81, 106: the
\* moment to ring is to be kept without delay).
WaitsForTheFirstAlarm ==
    task = "timedWait" /\ delays # <<>> => until <= delays[1].at

\* A subscription is taken out by remove(), or rings, and it rings only when
\* its time has come, as the earliest of all.
RingsInTime ==
    [][\A id \in Ids : acting' = id /\ acting # id =>
            /\ Subscribed(id) /\ ~Subscribed(id)'
            /\ subs[id] <= clock
            /\ \A other \in DOMAIN subs \ {id} : subs[id] <= subs[other]]_allVars

\* remove() hangs, with the lock, only for an id whose alarm is exactly that of
\* an id that was there before it; run()'s own remove() never does.
HangsOnlyOnTie ==
    lock \in Clients \/ task = "spin" =>
        \E i, j \in DOMAIN delays : i < j /\ delays[i].at = delays[j].at

\* Each subscription rings or is removed, unless the timer goes away, has no
\* thread, or is lost: in remove() (HangsOnlyOnTie) or by its iterator
\* (OnlyActionTakesNext).
EachRings ==
    \A id \in Ids : Subscribed(id) ~>
        (\/ ~Subscribed(id) \/ leaving # "no" \/ state = "UNINITED"
         \/ lock \in Clients \/ task \in {"spin", "undefined"})

\* If the derived class joins first, run() never sees the maps destroyed.
MapsOutliveRun == worker = "calling" => maps

\* The element that run()'s iterator points to is only ever taken away by what
\* action() itself removes: run() has moved on from the element it removes
\* (timer.cpp:37-39), and no other thread gets in.
IterIsValid == iter = End \/ \E i \in DOMAIN delays : delays[i].id = iter

OnlyActionTakesNext ==
    [][IterIsValid /\ ~IterIsValid' =>
           task = "action" /\ iter \in DOMAIN subs \ DOMAIN subs']_allVars
=============================================================================
