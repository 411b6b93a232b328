---------------------------- MODULE ThreadProofs ----------------------------
(***************************************************************************)
(* Proofs about Thread, for any clients and callbacks, with and without    *)
(* spurious wake-ups, whatever the constructor is told.                    *)
(***************************************************************************)
EXTENDS Thread, TLAPS

\* The object is built once, and a worker exists only for a built one.
BuiltOnce ==
    /\ client[Owner] = "unbuilt" =>
           worker = "none" /\ state = "UNINITED" /\ ~destroyed /\ ~threadId
    /\ state = "UNINITED" <=> worker = "none"
    /\ \A c \in Clients : client[c] \in {"joining", "destroying"} => c = Owner

\* Where the worker can be when a callback has begun since the last request:
\* after a pause() it comes to its test next, after a stop() it has tested, or
\* will test, and find STOPPED.
OneMoreInv ==
    /\ begun <= 1
    /\ begun = 1 =>
         \/ state = "PAUSED" /\ worker \in {"calling", "check", "pauseWait", "exiting"}
         \/ state = "STOPPED" /\ worker \in {"calling", "check", "refresh", "exiting"}
         \/ state = "STOPPED" /\ worker = "loop" /\ seen = "STOPPED"
         \/ state = "DEAD"

Inv ==
    /\ TypeOK
    /\ BuiltOnce
    /\ SleepsOnlyWhilePaused
    /\ WorkerEndsBeforeObject
    /\ worker = "done" <=> state = "DEAD"
    /\ OneMoreInv

USE ThreadAssumption DEF MaxBegun

LEMMA InvInit == Init => Inv
  <1>. SUFFICES ASSUME Init PROVE Inv
    OBVIOUS
  <1>1. TypeOK
    <2>1. /\ threadId \in BOOLEAN /\ destroyed \in BOOLEAN
          /\ stopAsked \in BOOLEAN /\ saidEnd \in BOOLEAN /\ started \in BOOLEAN
          /\ careful \in BOOLEAN
      BY DEF Init
    <2>2. /\ client \in [Clients -> {"unbuilt", "idle", "settingParam", "joining", "destroying"}]
          /\ setting \in [Clients -> Callbacks \cup {NULL}]
      BY DEF Init
    <2>. QED
      BY <2>1, <2>2 DEF Init, TypeOK, States, WorkerLabels
  <1>. QED
    BY <1>1 DEF Init, Inv, BuiltOnce, SleepsOnlyWhilePaused, Waiting,
                WorkerEndsBeforeObject, OneMoreInv

\* The parts of the invariant that are about the object and its worker.
LEMMA WorkerKeepsInv == Inv /\ Worker => Inv'
  <1>. SUFFICES ASSUME Inv, Worker PROVE Inv'
    OBVIOUS
  <1>. USE DEF Inv, TypeOK, States, WorkerLabels, BuiltOnce, SleepsOnlyWhilePaused,
               Waiting, WorkerEndsBeforeObject, OneMoreInv, object, locals, clients,
               history
  <1>1. CASE WorkerEnters
    BY <1>1 DEF WorkerEnters, Snapshot, MustWait
  <1>2. CASE WorkerSnapshots
    BY <1>2 DEF WorkerSnapshots, Snapshot
  <1>3. CASE WorkerLoops
    BY <1>3 DEF WorkerLoops
  <1>4. ASSUME NEW zero \in BOOLEAN, CallbackReturns(zero) PROVE Inv'
    BY <1>4 DEF CallbackReturns
  <1>5. CASE WorkerChecks
    BY <1>5 DEF WorkerChecks, MustWait
  <1>6. CASE WorkerRefreshes
    BY <1>6 DEF WorkerRefreshes
  <1>7. CASE WorkerExits
    BY <1>7 DEF WorkerExits
  <1>. QED
    BY <1>1, <1>2, <1>3, <1>4, <1>5, <1>6, <1>7 DEF Worker

LEMMA ClientKeepsInv == ASSUME Inv, NEW c \in Clients, Client(c) PROVE Inv'
  <1>. USE DEF Inv, TypeOK, States, WorkerLabels, BuiltOnce, SleepsOnlyWhilePaused,
               Waiting, WorkerEndsBeforeObject, OneMoreInv, object, locals, clients,
               history
  <1>1. CASE Start(c)
    BY <1>1 DEF Start, MayCall, Woken
  <1>2. CASE Pause(c)
    BY <1>2 DEF Pause, MayCall
  <1>3. CASE Stop(c)
    BY <1>3 DEF Stop, StopBody, MayCall, Woken, Unstoppable
  <1>4. CASE Join(c)
    BY <1>4 DEF Join, StopBody, MayCall, Woken, Unstoppable
  <1>5. CASE JoinReturns(c)
    <2>1. /\ threadId' = FALSE /\ threadId' \in BOOLEAN /\ destroyed' \in BOOLEAN
          /\ c = Owner /\ worker \in {"none", "done"}
      BY <1>5 DEF JoinReturns, Joinable
    <2>2. client' = [client EXCEPT ![c] = "idle"]
          /\ UNCHANGED <<state, callback, param, worker, locals, setting, history>>
      BY <1>5 DEF JoinReturns
    <2>3. TypeOK' /\ BuiltOnce'
      BY <2>1, <2>2
    <2>. QED
      BY <2>1, <2>2, <2>3
  <1>6. CASE SetCallback(c)
    BY <1>6 DEF SetCallback, MayCall
  <1>7. CASE SetParam(c)
    BY <1>7 DEF SetParam
  <1>. QED
    BY <1>1, <1>2, <1>3, <1>4, <1>5, <1>6, <1>7 DEF Client

LEMMA InvNext == Inv /\ [Next]_vars => Inv'
  <1>. SUFFICES ASSUME Inv, [Next]_vars PROVE Inv'
    OBVIOUS
  <1>. USE DEF Inv, TypeOK, States, WorkerLabels, BuiltOnce, SleepsOnlyWhilePaused,
               Waiting, WorkerEndsBeforeObject, OneMoreInv, object, locals, clients,
               history
  <1>1. CASE UNCHANGED vars
    BY <1>1 DEF vars
  <1>2. ASSUME NEW isPaused \in StartsPaused, Construct(isPaused) PROVE Inv'
    BY <1>2 DEF Construct
  <1>3. CASE ConstructFails
    BY <1>3 DEF ConstructFails
  <1>4. CASE SpuriousWake
    BY <1>4 DEF SpuriousWake, Woken
  <1>. QED
    BY <1>1, <1>2, <1>3, <1>4, WorkerKeepsInv, ClientKeepsInv DEF Next

THEOREM InvHolds == Spec => []Inv
  BY InvInit, InvNext, PTL DEF Spec

\* The worker never sleeps on a state that has already been changed.
THEOREM NoMissedWakeUp == Spec => []SleepsOnlyWhilePaused
  <1>1. Inv => SleepsOnlyWhilePaused
    BY DEF Inv
  <1>. QED
    BY <1>1, InvHolds, PTL

\* The object outlives its worker.
THEOREM ObjectOutlivesWorker == Spec => []WorkerEndsBeforeObject
  <1>1. Inv => WorkerEndsBeforeObject
    BY DEF Inv
  <1>. QED
    BY <1>1, InvHolds, PTL

\* At most one callback begins after a pause() or a stop().
THEOREM OneMoreCallback == Spec => []AtMostOneMoreCallback
  <1>1. Inv => AtMostOneMoreCallback
    BY DEF Inv, OneMoreInv, AtMostOneMoreCallback
  <1>. QED
    BY <1>1, InvHolds, PTL

\* Stopped and dead threads do not come back.
THEOREM LifeCycleHolds == Spec => LifeCycle
  <1>. DEFINE A == /\ state = "DEAD" => state' = "DEAD"
                   /\ state = "STOPPED" => state' \in {"STOPPED", "DEAD"}
                   /\ state' \in {"RUNNING", "PAUSED"} /\ state # state'
                        => (state = "UNINITED" /\ ~threadId) \/ state \in {"RUNNING", "PAUSED"}
                   /\ (state = "UNINITED" /\ client[Owner] # "unbuilt") => state' = "UNINITED"
  <1>1. Inv /\ [Next]_vars => [A]_vars
    <2>. SUFFICES ASSUME Inv, Next PROVE A
      OBVIOUS
    <2>. USE DEF object, locals, clients, history
    <2>1. ASSUME NEW isPaused \in StartsPaused, Construct(isPaused) PROVE A
      BY <2>1 DEF Construct, Inv, BuiltOnce
    <2>2. CASE ConstructFails \/ SpuriousWake
      BY <2>2 DEF ConstructFails, SpuriousWake
    <2>3. CASE Worker
      BY <2>3 DEF Inv, BuiltOnce, Worker, WorkerEnters, WorkerSnapshots, WorkerLoops,
                  CallbackReturns, WorkerChecks, WorkerRefreshes, WorkerExits
    <2>4. ASSUME NEW c \in Clients, Client(c) PROVE A
      BY <2>4 DEF Client, Start, Pause, Stop, Join, StopBody, Unstoppable,
                  JoinReturns, SetCallback, SetParam
    <2>. QED
      BY <2>1, <2>2, <2>3, <2>4 DEF Next
  <1>. QED
    BY <1>1, InvHolds, PTL DEF Spec, LifeCycle
-----------------------------------------------------------------------------
(***************************************************************************)
(* Careful use.  Before start() took effect the worker is kept back, or    *)
(* has been stopped, and at most one client is inside setCallback();       *)
(* afterwards the callback and its param belong together for good.         *)
(***************************************************************************)
KeptBack ==
    /\ state # "RUNNING"
    /\ \/ worker \in {"none", "spawned", "startWait", "snapshot", "exiting", "done"}
       \/ worker = "loop" /\ seen = "STOPPED"
    /\ state = "PAUSED" => worker \in {"spawned", "startWait"}
    /\ worker = "snapshot" => state = "STOPPED"
    /\ NobodySets => param = callback
    /\ \A c \in Clients : client[c] = "settingParam" =>
           /\ setting[c] = callback
           /\ \A d \in Clients \ {c} : client[d] # "settingParam"

LetLoose ==
    /\ callback # NULL /\ param = callback
    /\ NobodySets
    /\ worker \in {"loop", "calling", "check", "pauseWait", "refresh"} =>
           useCallback = callback /\ useParam = callback

CarefulInv ==
    /\ client[Owner] = "unbuilt" =>
           careful /\ ~started /\ \A c \in Clients : client[c] = "unbuilt"
    /\ state = "STOPPED" \/ seen = "STOPPED" => stopAsked
    /\ careful =>
        /\ state # "INITED"
        /\ worker \in {"exiting", "done"} => stopAsked \/ saidEnd
        /\ ~started => KeptBack
        /\ started => LetLoose

LEMMA CarefulInit == Init => CarefulInv
  <1>. SUFFICES ASSUME Init PROVE CarefulInv
    OBVIOUS
  <1>1. \A c \in Clients : client[c] = "unbuilt"
    BY DEF Init
  <1>2. careful /\ ~started
    BY DEF Init
  <1>3. state = "UNINITED" /\ seen = "UNINITED" /\ worker = "none" /\ param = callback
    BY DEF Init
  <1>. QED
    BY <1>1, <1>2, <1>3 DEF CarefulInv, KeptBack, NobodySets

LEMMA WorkerKeepsCareful == Inv /\ CarefulInv /\ (Worker \/ SpuriousWake) => CarefulInv'
  <1>. SUFFICES ASSUME Inv, CarefulInv, Worker \/ SpuriousWake PROVE CarefulInv'
    OBVIOUS
  <1>. USE DEF Inv, TypeOK, States, WorkerLabels, BuiltOnce, CarefulInv, KeptBack,
               LetLoose, NobodySets, object, locals, clients, history
  <1>1. CASE WorkerEnters
    BY <1>1 DEF WorkerEnters, Snapshot, MustWait
  <1>2. CASE WorkerSnapshots
    BY <1>2 DEF WorkerSnapshots, Snapshot
  <1>3. CASE WorkerLoops
    BY <1>3 DEF WorkerLoops
  <1>4. ASSUME NEW zero \in BOOLEAN, CallbackReturns(zero) PROVE CarefulInv'
    BY <1>4 DEF CallbackReturns
  <1>5. CASE WorkerChecks
    BY <1>5 DEF WorkerChecks, MustWait
  <1>6. CASE WorkerRefreshes
    BY <1>6 DEF WorkerRefreshes
  <1>7. CASE WorkerExits
    BY <1>7 DEF WorkerExits
  <1>8. CASE SpuriousWake
    BY <1>8 DEF SpuriousWake, Woken, Waiting
  <1>. QED
    BY <1>1, <1>2, <1>3, <1>4, <1>5, <1>6, <1>7, <1>8 DEF Worker

LEMMA ClientKeepsCareful ==
    ASSUME Inv, CarefulInv, NEW c \in Clients, Client(c) PROVE CarefulInv'
  <1>. USE DEF Inv, TypeOK, States, WorkerLabels, BuiltOnce, CarefulInv, KeptBack,
               LetLoose, NobodySets, SleepsOnlyWhilePaused, Waiting, object, locals,
               clients, history
  <1>1. CASE Start(c)
    BY <1>1 DEF Start, MayCall, Woken
  <1>2. CASE Pause(c)
    BY <1>2 DEF Pause, MayCall
  <1>3. CASE Stop(c)
    BY <1>3 DEF Stop, StopBody, MayCall, Woken, Unstoppable
  <1>4. CASE Join(c)
    BY <1>4 DEF Join, StopBody, MayCall, Woken, Unstoppable
  <1>5. CASE JoinReturns(c)
    BY <1>5 DEF JoinReturns
  <1>6. CASE SetCallback(c)
    BY <1>6 DEF SetCallback, MayCall
  <1>7. CASE SetParam(c)
    BY <1>7 DEF SetParam
  <1>. QED
    BY <1>1, <1>2, <1>3, <1>4, <1>5, <1>6, <1>7 DEF Client

LEMMA CarefulNext == Inv /\ CarefulInv /\ [Next]_vars => CarefulInv'
  <1>. SUFFICES ASSUME Inv, CarefulInv, [Next]_vars PROVE CarefulInv'
    OBVIOUS
  <1>. USE DEF Inv, TypeOK, BuiltOnce, CarefulInv, KeptBack, LetLoose, NobodySets,
               object, locals, clients, history
  <1>1. CASE UNCHANGED vars
    BY <1>1 DEF vars
  <1>2. ASSUME NEW isPaused \in StartsPaused, Construct(isPaused) PROVE CarefulInv'
    <2>1. /\ worker' = "spawned" /\ param' = param /\ callback' = callback
          /\ seen' = seen /\ started' = started /\ stopAsked' = stopAsked
          /\ careful' => state' = "PAUSED"
          /\ state' # "STOPPED"
      BY <1>2 DEF Construct
    <2>2. \A c \in Clients : client'[c] = "idle"
      BY <1>2 DEF Construct
    <2>3. ~started /\ client[Owner] = "unbuilt" /\ \A c \in Clients : client[c] = "unbuilt"
      BY <1>2 DEF Construct
    <2>4. careful /\ ~started' /\ (seen' = "STOPPED" => stopAsked')
      BY <2>1, <2>3
    <2>. QED
      BY <2>1, <2>2, <2>3, <2>4
  <1>3. CASE ConstructFails
    BY <1>3 DEF ConstructFails
  <1>. QED
    BY <1>1, <1>2, <1>3, WorkerKeepsCareful, ClientKeepsCareful DEF Next

\* A thread used as meant runs its callback, with its param, after start(), and
\* until it is told to end.
THEOREM CarefulUse == Spec => []CarefulUseIsSafe
  <1>1. Inv /\ CarefulInv => CarefulUseIsSafe
    BY DEF Inv, CarefulInv, KeptBack, LetLoose, CarefulUseIsSafe, DiesOnlyAsAsked,
           PausedUntilStarted
  <1>2. Spec => []CarefulInv
    BY InvHolds, CarefulInit, CarefulNext, PTL DEF Spec
  <1>. QED
    BY <1>1, <1>2, InvHolds, PTL
=============================================================================
