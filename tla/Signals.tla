------------------------------ MODULE Signals ------------------------------
(***************************************************************************)
(* application.h, application.cpp: the table of signals with their flags   *)
(* and functions, filled by reg_sig() and read by g_signal_handle, which   *)
(* interrupts a thread between two of its steps; and MQ (mq.h:39-54): its  *)
(* constructor registers sig_term, which empties the queue in the middle   *)
(* of whatever the interrupted thread was doing with it.                   *)
(*                                                                         *)
(* A signal comes between two steps of a thread of Main or of MQ, whose    *)
(* locked sections are cut into theirs by Sections; not inside a call of   *)
(* the pthread library.  The queue exists from the beginning, and is in    *)
(* use; Main makes its constructor's calls of reg_sig(), and the program's.*)
(***************************************************************************)
EXTENDS Sections, FiniteSets, SequencesExt

CONSTANTS
    Main,           \* the thread that registers
    Sigs,           \* signal numbers
    Funcs,          \* functions the program registers; it also has sig_term
    MaxSignals,     \* bound: signals that are delivered
    MaxRegs         \* bound: calls of reg_sig()

SigTermFunc == "sig_term"
SIG_DFL == "SIG_DFL"
G == "g_signal_handle"

ASSUME SignalsAssumption ==
    /\ Controllers = {Main} /\ ControlOps = {}
    /\ SigTermFunc \in Funcs /\ Funcs \cap {SIG_DFL, G} = {}
    /\ MaxSignals \in Nat /\ MaxRegs \in Nat

VARIABLES
    kernel,         \* the handler the system calls for each signal
    signalsMap,     \* _SignalsMap: signal -> flag and functions
    reg,            \* where Main is in reg_sig()
    frames,         \* the handlers running in each thread, innermost first
    alive,          \* the queue is not released
    undefined,      \* the program did something C++ gives no meaning to
    delivered, regs,    \* counters for the bounds
    proper,         \* history: functions registered where their signal was known
    hit,            \* history: threads that ran sig_term since reserve() saw room
    missed          \* history: threads that ran it between their test and their wait

queueVars == <<vars, inside, hit, missed>>
signalVars == <<kernel, signalsMap, reg, frames, alive, undefined,
                delivered, regs, proper>>
allVars == <<queueVars, signalVars>>

NoReg == [point |-> "none"]

SignalsInit ==
    /\ Init /\ inside = [t \in Threads |-> Outside]
    /\ kernel = [s \in Sigs |-> SIG_DFL]
    /\ signalsMap = <<>>
    /\ reg = NoReg
    /\ frames = [t \in Threads |-> <<>>]
    /\ alive = TRUE /\ undefined = FALSE
    /\ delivered = 0 /\ regs = 0
    /\ proper = [s \in Sigs |-> {}] /\ hit = {} /\ missed = {}

Known(s) == s \in DOMAIN signalsMap
InHandler(t) == frames[t] # <<>>

-----------------------------------------------------------------------------
\* Registration, in Main.

\* reg_sig(sig, func): iter is what find() gives now, also later.
RegSig(s, func) ==
    /\ reg = NoReg /\ regs < MaxRegs
    /\ reg' = [point |-> IF Known(s) THEN "push" ELSE "install", sig |-> s,
               func |-> func, found |-> Known(s), old |-> SIG_DFL]
    /\ regs' = regs + 1
    /\ UNCHANGED <<kernel, signalsMap, frames, alive, undefined, delivered, proper>>

\* register_signal_flag(): sigaction() may fail.
Install ==
    /\ reg.point = "install"
    /\ \/ /\ kernel' = [kernel EXCEPT ![reg.sig] = G]
          /\ reg' = [reg EXCEPT !.point = "insert", !.old = kernel[reg.sig]]
       \/ /\ reg' = [reg EXCEPT !.point = "push"]
          /\ UNCHANGED kernel
    /\ UNCHANGED <<signalsMap, frames, alive, undefined, delivered, regs, proper>>

\* The former handler and g_signal_handle are the first functions of an entry.  A
\* handler skips these two: they are left out.
Skipped == {SIG_DFL, G}

Insert ==
    /\ reg.point = "insert"
    /\ signalsMap' = [s \in DOMAIN signalsMap \cup {reg.sig} |->
            IF s = reg.sig THEN [flag |-> FALSE, actions |-> IF reg.old \in Skipped THEN <<>> ELSE <<reg.old>>]
            ELSE signalsMap[s]]
    /\ reg' = [reg EXCEPT !.point = "push"]
    /\ UNCHANGED <<kernel, frames, alive, undefined, delivered, regs, proper>>

\* Fault: a function that is already there is added again.
AddedTwice(actions, func) == Append(actions, func)

Added(actions, func) ==
    IF func \in ToSet(actions) THEN actions ELSE Append(actions, func)

\* The function goes to the entry iter points to: that of the signal or, if the
\* signal was not known, none.  What lies behind end() passes for a vector, which
\* nothing reads, or the program crashes.
Push ==
    /\ reg.point = "push"
    /\ reg' = NoReg
    /\ IF reg.found
       THEN /\ signalsMap' = [signalsMap EXCEPT ![reg.sig].actions = Added(@, reg.func)]
            /\ proper' = [proper EXCEPT ![reg.sig] = @ \cup {reg.func}]
            /\ UNCHANGED undefined
       ELSE undefined' \in BOOLEAN /\ UNCHANGED <<signalsMap, proper>>
    /\ UNCHANGED <<kernel, frames, alive, delivered, regs>>

\* reg_sig(sig, act): the program's own handler takes the place of the present.
Sigaction(s, func) ==
    /\ reg = NoReg /\ regs < MaxRegs
    /\ kernel' = [kernel EXCEPT ![s] = func]
    /\ regs' = regs + 1
    /\ UNCHANGED <<signalsMap, reg, frames, alive, undefined, delivered, proper>>

ResetFlag(s) ==
    /\ reg = NoReg /\ Known(s)
    /\ signalsMap' = [signalsMap EXCEPT ![s].flag = FALSE]
    /\ UNCHANGED <<kernel, reg, frames, alive, undefined, delivered, regs, proper>>

\* ~MQ: the queue and its lock go, its pointer stays in _AllPointers.
Release ==
    /\ alive /\ reg = NoReg
    /\ \A t \in Threads : pc[t] = "idle" /\ ~InHandler(t)
    /\ alive' = FALSE
    /\ UNCHANGED <<kernel, signalsMap, reg, frames, undefined, delivered, regs, proper>>

MainStep ==
    /\ ~InHandler(Main)
    /\ \/ \E s \in Sigs : \/ \E func \in Funcs : RegSig(s, func) \/ Sigaction(s, func)
                          \/ ResetFlag(s)
       \/ Install \/ Insert \/ Push \/ Release
    /\ UNCHANGED queueVars

-----------------------------------------------------------------------------
\* Delivery.  A handler of a signal keeps the same signal off its own thread.

\* The number of functions is read once; those there are do not change.
Deliver(t, s) ==
    /\ delivered < MaxSignals
    /\ kernel[s] # SIG_DFL
    /\ \A i \in DOMAIN frames[t] : frames[t][i].sig # s
    /\ frames' = [frames EXCEPT ![t] = <<
            [sig |-> s, byG |-> kernel[s] = G, known |-> kernel[s] = G /\ Known(s),
             todo |-> IF kernel[s] # G THEN <<kernel[s]>>
                      ELSE IF Known(s) THEN signalsMap[s].actions ELSE <<>>,
             early |-> reg.point = "insert" /\ reg.sig = s,
             wanted |-> proper[s], called |-> <<>>]>> \o @]
    /\ delivered' = delivered + 1
    /\ UNCHANGED <<queueVars, kernel, signalsMap, reg, alive, undefined, regs, proper>>

\* Fault: the queue is emptied, but an empty queue wakes nobody.
ClearWokenFull == IF IsFull THEN WokenByRoom ELSE {{}}

ClearWoken == IF IsFull THEN WokenByRoom ELSE WokenByFirst

\* Fault: the message is put at the end of the queue.
ExitMessageAdded ==
    /\ buffer' = [buffer EXCEPT ![Next_(tail)] = Default]
    /\ tail' = Next_(tail)
    /\ UNCHANGED head

\* clearExcept(Message_T()).
ExitMessageOnly ==
    /\ buffer' = [buffer EXCEPT ![tail] = Default]
    /\ head' = Prev_(tail)
    /\ UNCHANGED tail

\* A thread that has seen room for its message, and has not yet confirmed it.
HasRoom(t) == slot[t] # NULL \/ (Reserving(t) /\ inside[t].point \in {"look", "signal", "move"})

Asleep(t) == pc[t] \in {"notFull", "notEmpty"}

\* sig_term(): clearExcept(Message_T()) for every queue there ever was.  Another
\* one in the middle of it would only do the same.
SigTerm(t) ==
    IF alive
    THEN /\ CanLock(lock, t)
         /\ ExitMessageOnly
         /\ \E woken \in ClearWoken : pc' = [u \in Threads |-> IF u \in woken THEN Retry(u) ELSE pc[u]]
         /\ hit' = IF HasRoom(t) THEN hit \cup {t} ELSE hit
         /\ missed' = {u \in missed : Asleep(u) => Asleep(u)'} \cup (IF At(t, "wait") THEN {t} ELSE {})
         /\ UNCHANGED <<canBeUsed, lock, call, slot, result, inside, undefined>>
    ELSE /\ undefined' = TRUE
         /\ UNCHANGED queueVars

\* The innermost handler of t calls its next function.
HandlerCalls(t) ==
    /\ InHandler(t)
    /\ LET f == Head(frames[t])
           func == Head(f.todo)
       IN /\ f.todo # <<>>
          /\ frames' = [frames EXCEPT ![t][1] = [f EXCEPT !.todo = Tail(@), !.called = Append(@, func)]]
          /\ IF func = SigTermFunc THEN SigTerm(t)
             ELSE UNCHANGED <<queueVars, undefined>>
    /\ UNCHANGED <<kernel, signalsMap, reg, alive, delivered, regs, proper>>

\* Fault: the flag is set only if a function was called.
NotesIfCalled(f) == f.known /\ f.called # <<>>

Notes(f) == f.known

\* Then it sets the flag.  If repeat, it registers itself again, which it is.
HandlerReturns(t) ==
    /\ InHandler(t)
    /\ LET f == Head(frames[t])
       IN /\ f.todo = <<>>
          /\ signalsMap' = IF Notes(f) THEN [signalsMap EXCEPT ![f.sig].flag = TRUE] ELSE signalsMap
    /\ frames' = [frames EXCEPT ![t] = Tail(@)]
    /\ UNCHANGED <<queueVars, kernel, reg, alive, undefined, delivered, regs, proper>>

\* A thread of the queue goes on when no handler runs in it.
QueueStep(t) ==
    /\ alive /\ ~InHandler(t)
    /\ SectionStep(t)
    /\ hit' = {u \in hit : HasRoom(u)'}
    /\ missed' = {u \in missed : Asleep(u)' \/ inside'[u].point = "wait"}
    /\ UNCHANGED signalVars

SignalsNext ==
    /\ ~undefined
    /\ \/ MainStep
       \/ \E t \in Threads :
            \/ QueueStep(t) \/ HandlerCalls(t) \/ HandlerReturns(t)
            \/ \E s \in Sigs : Deliver(t, s)

SignalsSpec == SignalsInit /\ [][SignalsNext]_allVars

-----------------------------------------------------------------------------
(***************************************************************************)
(* Properties.                                                             *)
(***************************************************************************)

Returned(t) == Len(frames'[t]) < Len(frames[t])

\* A signal that came to g_signal_handle has its flag set when the handler
\* returns, whatever was registered, nested or handled by other threads
\* meanwhile; only one that came between sigaction() and the insertion of its
\* entry is forgotten (application.cpp:211-221).
SignalIsNoted ==
    [][\A t \in Threads : Returned(t) =>
        LET f == Head(frames[t])
        IN f.byG /\ ~f.early => f.sig \in DOMAIN signalsMap' /\ signalsMap'[f.sig].flag]_allVars

\* A function registered for a signal that was already known is called exactly
\* once by each handling of a later signal (application.h:39-40 promises it of
\* every function; the one whose registration made the signal known is stored
\* outside of the table, application.cpp:118-137).
FuncsAreCalled ==
    [][\A t \in Threads : Returned(t) =>
        LET f == Head(frames[t])
        IN f.byG => \A g \in f.wanted : Cardinality({i \in DOMAIN f.called : f.called[i] = g}) = 1
    ]_allVars

\* sig_term inside reserve() ... reserveConfirm() gets past the recursive lock
\* and clears the queue, but the slot that is given at the end stays the last
\* one.  It loses its place if it is that of a priority message (mq.h:48, 150), or
\* if the queue has one slot, which sig_term fills between the test and line 82.
SlotSurvives ==
    \A t \in Threads :
        slot[t] # NULL /\ (t \in hit => call[t].op # "sendPriority" /\ MaxSize > 1)
        => SlotIsAtTheEnd(t)

\* The signals that sig_term gives make up for what it does to the queue: with
\* handlers running in any thread, blocked ones included, the receivers are
\* never all asleep beside a message, nor the senders beside a free slot; unless
\* sig_term ran in one of them between its test and its wait (mq.h:70-71, 137-138,
\* 173-174), when nobody could signal it yet.
WakeUpsSurvive ==
    /\ missed \cap Receivers = {} => ReceiversAsleepOnlyIfEmpty
    /\ missed \cap Senders = {} => SendersAsleepOnlyIfFull
=============================================================================
