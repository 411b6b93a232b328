------------------------------- MODULE Thread -------------------------------
(***************************************************************************)
(* thread.h, thread.cpp: Thread, a worker that calls a callback again and  *)
(* again, and that clients start, pause, stop and join.                    *)
(*                                                                         *)
(* Every section under _lock is one action: no section blocks except in    *)
(* pthread_cond_wait, which gives the lock up.  The clients are threads of *)
(* the program; the owner is the one that builds, joins and destroys the   *)
(* object.                                                                 *)
(***************************************************************************)
EXTENDS Integers

CONSTANTS
    Clients, Owner,
    Callbacks,          \* the functions a client may set; each has its _param
    NULL,               \* no callback, no param
    StartsPaused,       \* the constructor's isPaused, as a set of choices
    SpuriousWakes       \* condition waits may return without a signal

ASSUME ThreadAssumption ==
    /\ Owner \in Clients
    /\ NULL \notin Callbacks
    /\ StartsPaused \subseteq BOOLEAN
    /\ SpuriousWakes \in BOOLEAN

States == {"UNINITED", "INITED", "RUNNING", "PAUSED", "STOPPED", "DEAD"}

WorkerLabels ==
    {"none", "spawned", "startWait", "snapshot", "loop", "calling", "check",
     "pauseWait", "refresh", "exiting", "done"}

VARIABLES
    state,          \* _state
    threadId,       \* _thread_id is not 0
    callback, param,            \* _callback, _param
    worker,         \* where realThreadProc is
    seen, useCallback, useParam,    \* its local variables
    client,         \* what each client is doing
    setting,        \* the callback a client is setting
    destroyed,      \* the destructor has returned
    (* History, for the properties: *)
    begun,          \* callbacks begun since the last request to cease
    stopAsked,      \* stop() was called
    saidEnd,        \* a callback returned other than 0
    started,        \* start() took effect
    careful         \* so far the object was used as meant: built paused, given
                    \* its callback by one client and before start() only; and
                    \* the wait for start() did not return spuriously

object == <<state, threadId, callback, param, destroyed>>
locals == <<seen, useCallback, useParam>>
clients == <<client, setting>>
history == <<begun, stopAsked, saidEnd, started, careful>>
vars == <<object, worker, locals, clients, history>>

MaxBegun == 2       \* begun is not counted further

TypeOK ==
    /\ state \in States
    /\ threadId \in BOOLEAN /\ destroyed \in BOOLEAN
    /\ callback \in Callbacks \cup {NULL} /\ param \in Callbacks \cup {NULL}
    /\ worker \in WorkerLabels
    /\ seen \in States
    /\ useCallback \in Callbacks \cup {NULL} /\ useParam \in Callbacks \cup {NULL}
    /\ client \in [Clients -> {"unbuilt", "idle", "settingParam", "joining", "destroying"}]
    /\ setting \in [Clients -> Callbacks \cup {NULL}]
    /\ begun \in 0 .. MaxBegun
    /\ stopAsked \in BOOLEAN /\ saidEnd \in BOOLEAN /\ started \in BOOLEAN
    /\ careful \in BOOLEAN

Init ==
    /\ state = "UNINITED" /\ threadId = FALSE /\ destroyed = FALSE
    /\ callback = NULL /\ param = NULL
    /\ worker = "none"
    /\ seen = "UNINITED" /\ useCallback = NULL /\ useParam = NULL
    /\ client = [c \in Clients |-> "unbuilt"]
    /\ setting = [c \in Clients |-> NULL]
    /\ begun = 0 /\ stopAsked = FALSE /\ saidEnd = FALSE /\ started = FALSE
    /\ careful = TRUE

-----------------------------------------------------------------------------
\* The constructor.  It holds _lock over pthread_create, so that the worker
\* finds the final state, and nobody else knows the object yet.

Construct(isPaused) ==
    /\ client[Owner] = "unbuilt"
    /\ client' = [c \in Clients |-> "idle"]
    /\ state' = IF isPaused THEN "PAUSED" ELSE "INITED"
    /\ threadId' = TRUE
    /\ worker' = "spawned"
    /\ careful' = isPaused
    /\ UNCHANGED <<callback, param, destroyed, locals, setting, begun, stopAsked, saidEnd,
                   started>>

\* pthread_create fails: _thread_id has no defined value.
ConstructFails ==
    /\ client[Owner] = "unbuilt"
    /\ client' = [c \in Clients |-> "idle"]
    /\ threadId' \in BOOLEAN
    /\ UNCHANGED <<state, callback, param, destroyed, worker, locals, setting, history>>

-----------------------------------------------------------------------------
\* realThreadProc.

Waiting == worker \in {"startWait", "pauseWait"}

\* Fault: the condition is not signalled.
NotWoken == worker

\* Where the worker goes on when it is woken: neither wait tests _state again.
Woken == CASE worker = "startWait" -> "snapshot"
           [] worker = "pauseWait" -> "refresh"
           [] OTHER -> worker

\* Fault: the param is not read.
SnapshotNoParam ==
    /\ worker' = "loop"
    /\ seen' = state /\ useCallback' = callback /\ UNCHANGED useParam

Snapshot ==
    /\ worker' = "loop"
    /\ seen' = state /\ useCallback' = callback /\ useParam' = param

\* Fault: the worker does not test for PAUSED.
NeverWaits == FALSE

MustWait == state = "PAUSED"

\* From the first lock to its unlock, or to the wait.
WorkerEnters ==
    /\ worker = "spawned"
    /\ CASE state = "UNINITED" -> worker' = "done" /\ UNCHANGED locals
         [] MustWait -> worker' = "startWait" /\ UNCHANGED locals
         [] OTHER -> Snapshot
    /\ UNCHANGED <<object, clients, history>>

WorkerSnapshots ==
    /\ worker = "snapshot"
    /\ Snapshot
    /\ UNCHANGED <<object, clients, history>>

\* The loop's test, outside the lock; then the callback, or run() without one.
WorkerLoops ==
    /\ worker = "loop"
    /\ IF seen = "STOPPED" THEN worker' = "exiting" /\ UNCHANGED begun
       ELSE /\ worker' = "calling"
            /\ begun' = IF state \in {"PAUSED", "STOPPED"} /\ begun < MaxBegun
                        THEN begun + 1 ELSE begun
    /\ UNCHANGED <<object, locals, clients, stopAsked, saidEnd, started, careful>>

\* The callback returns 0 to be called again; Thread::run() returns false.
CallbackReturns(zero) ==
    /\ worker = "calling"
    /\ useCallback = NULL => ~zero
    /\ worker' = IF zero THEN "check" ELSE "exiting"
    /\ saidEnd' = (saidEnd \/ (useCallback # NULL /\ ~zero))
    /\ UNCHANGED <<object, locals, clients, begun, stopAsked, started, careful>>

WorkerChecks ==
    /\ worker = "check"
    /\ worker' = IF MustWait THEN "pauseWait" ELSE "refresh"
    /\ UNCHANGED <<object, locals, clients, history>>

WorkerRefreshes ==
    /\ worker = "refresh"
    /\ seen' = state
    /\ worker' = "loop"
    /\ UNCHANGED <<object, useCallback, useParam, clients, history>>

WorkerExits ==
    /\ worker = "exiting"
    /\ state' = "DEAD"
    /\ worker' = "done"
    /\ UNCHANGED <<threadId, callback, param, destroyed, locals, clients, history>>

\* A condition wait may return without a signal.
SpuriousWake ==
    /\ SpuriousWakes /\ Waiting
    /\ worker' = Woken
    /\ begun' = 0
    /\ careful' = (careful /\ worker # "startWait")
    /\ UNCHANGED <<object, locals, clients, stopAsked, saidEnd, started>>

-----------------------------------------------------------------------------
\* The clients.

MayCall(c) == client[c] = "idle" /\ ~destroyed

NobodySets == \A c \in Clients : client[c] # "settingParam"

Start(c) ==
    /\ MayCall(c)
    /\ state = "PAUSED"
    /\ state' = "RUNNING"
    /\ worker' = Woken
    /\ begun' = 0
    /\ started' = TRUE
    /\ careful' = (careful /\ callback # NULL /\ NobodySets)
    /\ UNCHANGED <<threadId, callback, param, destroyed, locals, clients, stopAsked, saidEnd>>

Pause(c) ==
    /\ MayCall(c)
    /\ IF state = "RUNNING" THEN state' = "PAUSED" /\ begun' = 0
       ELSE UNCHANGED <<state, begun>>
    /\ UNCHANGED <<threadId, callback, param, destroyed, worker, locals, clients,
                   stopAsked, saidEnd, started, careful>>

\* Fault: a dead thread is not told from a live one.
UnstoppableButDead == {"STOPPED", "UNINITED"}

Unstoppable == {"STOPPED", "UNINITED", "DEAD"}

\* The body of stop(), which join() and the destructor run too.
StopBody ==
    /\ IF state \in Unstoppable THEN UNCHANGED <<state, begun>>
       ELSE state' = "STOPPED" /\ begun' = 0
    /\ worker' = Woken
    /\ stopAsked' = TRUE
    /\ UNCHANGED <<threadId, callback, param, destroyed, locals, saidEnd, started, careful>>

Stop(c) == MayCall(c) /\ StopBody /\ UNCHANGED clients

\* join(), and the destructor, which begins with it.
Join(c) ==
    /\ MayCall(c) /\ c = Owner
    /\ StopBody
    /\ \E next \in {"joining", "destroying"} : client' = [client EXCEPT ![c] = next]
    /\ UNCHANGED setting

\* Fault: the worker is not waited for.
JoinableAtOnce == TRUE

Joinable == threadId => worker \in {"none", "done"}

\* pthread_join, when there is a thread id; of an id that never named a thread
\* it returns with an error, which join() ignores.
JoinReturns(c) ==
    /\ client[c] \in {"joining", "destroying"}
    /\ Joinable
    /\ threadId' = FALSE
    /\ destroyed' = (client[c] = "destroying")
    /\ client' = [client EXCEPT ![c] = "idle"]
    /\ UNCHANGED <<state, callback, param, worker, locals, setting, history>>

\* setCallback() takes no lock: _callback is written, then _param.
SetCallback(c) ==
    /\ MayCall(c)
    /\ \E f \in Callbacks :
        /\ callback' = f
        /\ setting' = [setting EXCEPT ![c] = f]
    /\ client' = [client EXCEPT ![c] = "settingParam"]
    /\ careful' = (careful /\ ~started /\ NobodySets)
    /\ UNCHANGED <<state, threadId, param, destroyed, worker, locals, begun, stopAsked,
                   saidEnd, started>>

SetParam(c) ==
    /\ client[c] = "settingParam"
    /\ param' = setting[c]
    /\ setting' = [setting EXCEPT ![c] = NULL]
    /\ client' = [client EXCEPT ![c] = "idle"]
    /\ UNCHANGED <<state, threadId, callback, destroyed, worker, locals, history>>

-----------------------------------------------------------------------------
Worker ==
    \/ WorkerEnters \/ WorkerSnapshots \/ WorkerLoops
    \/ \E zero \in BOOLEAN : CallbackReturns(zero)
    \/ WorkerChecks \/ WorkerRefreshes \/ WorkerExits

Client(c) ==
    \/ Start(c) \/ Pause(c) \/ Stop(c) \/ Join(c) \/ JoinReturns(c)
    \/ SetCallback(c) \/ SetParam(c)

Next ==
    \/ \E isPaused \in StartsPaused : Construct(isPaused)
    \/ ConstructFails
    \/ Worker
    \/ SpuriousWake
    \/ \E c \in Clients : Client(c)

Spec == Init /\ [][Next]_vars

\* The worker runs, its callback returns, and a join() that can return does.
FairSpec == Spec /\ WF_vars(Worker) /\ \A c \in Clients : WF_vars(JoinReturns(c))

-----------------------------------------------------------------------------
(***************************************************************************)
(* Properties.                                                             *)
(***************************************************************************)

\* The worker sleeps only while the thread is paused: start(), stop() and
\* join() never change _state without waking it, and it never goes to sleep on
\* a state they have already changed (thread.cpp:29-31, 54-56, 118-120, 145).
SleepsOnlyWhilePaused == Waiting => state = "PAUSED"

\* After a pause() or a stop() that took effect at most one more callback
\* begins: the worker tests the state after each callback.
\* (A spurious wake-up lets one more through.)
AtMostOneMoreCallback == begun <= 1

\* When the destructor returns, and whenever a joined thread has no id left,
\* the worker is not running any more: it never uses a destroyed object.
WorkerEndsBeforeObject ==
    /\ destroyed => worker \in {"none", "done"}
    /\ ~threadId => worker \in {"none", "done"}
    /\ worker = "done" => state = "DEAD"

\* A stopped thread never works again whatever start() and pause() do, a dead
\* one stays dead, and nothing revives an object whose thread was not created.
LifeCycle ==
    [][/\ state = "DEAD" => state' = "DEAD"
       /\ state = "STOPPED" => state' \in {"STOPPED", "DEAD"}
       /\ state' \in {"RUNNING", "PAUSED"} /\ state # state'
              => (state = "UNINITED" /\ ~threadId) \/ state \in {"RUNNING", "PAUSED"}
       /\ (state = "UNINITED" /\ client[Owner] # "unbuilt") => state' = "UNINITED"]_vars

\* stop() ends the thread, wherever it finds the worker.
StopEndsThread == state = "STOPPED" ~> state = "DEAD"

\* join() and the destructor return.
JoinTerminates ==
    \A c \in Clients : client[c] \in {"joining", "destroying"} ~> client[c] = "idle"

\* start() gets a paused worker going: the wake-up is not lost.
StartRuns == state = "RUNNING" ~> worker = "calling" \/ state # "RUNNING"

\* The worker dies only when it was asked to, by stop(), join() or the
\* callback's result.  thread.h:31-32 says that a callback that returns 0 is
\* called in an endless loop.
DiesOnlyAsAsked == state = "DEAD" /\ callback # NULL => stopAsked \/ saidEnd

\* A thread that was built paused calls nothing before it is started
\* (thread.h:17: PAUSED is "已暂停").
PausedUntilStarted == worker = "calling" => started

\* Used as meant, the thread calls its callback, with the param that was set
\* with it although setCallback() writes them one after the other and without
\* the lock, never before start(), and until it is told to end.
CarefulUseIsSafe ==
    careful =>
        /\ DiesOnlyAsAsked
        /\ PausedUntilStarted
        /\ worker = "calling" => useCallback # NULL /\ useParam = useCallback
=============================================================================
