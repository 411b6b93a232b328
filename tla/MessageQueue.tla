---------------------------- MODULE MessageQueue ----------------------------
(***************************************************************************)
(* What an MQ<T> promises to the threads that share it: a bounded queue    *)
(* with two ways in (the end, and the front for priority messages), one    *)
(* way out, and a switch that makes it refuse both.  Every call takes      *)
(* effect in one step, at which its result is fixed.                       *)
(***************************************************************************)
EXTENDS Integers, Sequences

CONSTANTS Threads, MaxSize, Messages, Default, Uninit, Void

Values == Messages \cup {Default}

VARIABLES queue,      \* the messages, oldest first
          usable,     \* _can_be_used
          result      \* what the last call of each thread returned

vars == <<queue, usable, result>>

TypeOK ==
    /\ queue \in Seq(Values)
    /\ Len(queue) <= MaxSize
    /\ usable \in BOOLEAN
    /\ result \in [Threads -> Values \cup BOOLEAN \cup {Void}]

Init ==
    /\ queue = <<>>
    /\ usable = TRUE
    /\ result = [t \in Threads |-> Void]

Returns(t, v) == result' = [result EXCEPT ![t] = v]

\* The caller is done with the result of its last call.
Forget(t) == Returns(t, Void) /\ UNCHANGED <<queue, usable>>

\* send, trySend: accepted only when there is room and the queue is usable.
Send(t, m) ==
    /\ usable /\ Len(queue) < MaxSize
    /\ queue' = Append(queue, m)
    /\ Returns(t, TRUE)
    /\ UNCHANGED usable

\* sendPriority: the message will be the next one received; it returns nothing.
SendPriority(t, m) ==
    /\ usable /\ Len(queue) < MaxSize
    /\ queue' = <<m>> \o queue
    /\ Returns(t, Void)
    /\ UNCHANGED usable

\* A send is refused only when the queue is full or out of use.
Refuse(t) ==
    /\ ~usable \/ Len(queue) = MaxSize
    /\ \E v \in {FALSE, Void} : Returns(t, v)
    /\ UNCHANGED <<queue, usable>>

Receive(t) ==
    /\ usable /\ queue # <<>>
    /\ Returns(t, Head(queue))
    /\ queue' = Tail(queue)
    /\ UNCHANGED usable

\* tryReceive on an empty queue.
NothingToReceive(t) ==
    /\ queue = <<>>
    /\ Returns(t, FALSE)
    /\ UNCHANGED <<queue, usable>>

\* Out of use, a receive takes no message: its result means nothing.
ReceiveNothing(t) ==
    /\ ~usable
    /\ \E v \in Uninit : Returns(t, v)
    /\ UNCHANGED <<queue, usable>>

Clear(t) == queue' = <<>> /\ Returns(t, Void) /\ UNCHANGED usable

ClearExcept(t, m) == queue' = <<m>> /\ Returns(t, Void) /\ UNCHANGED usable

SetUsable(t) ==
    /\ usable' \in BOOLEAN
    /\ Returns(t, Void)
    /\ UNCHANGED queue

GetUsable(t) == Returns(t, usable) /\ UNCHANGED <<queue, usable>>

Next ==
    \E t \in Threads :
        \/ Forget(t) \/ Refuse(t) \/ Receive(t) \/ NothingToReceive(t)
        \/ ReceiveNothing(t) \/ Clear(t) \/ SetUsable(t) \/ GetUsable(t)
        \/ \E m \in Values : Send(t, m) \/ SendPriority(t, m) \/ ClearExcept(t, m)

Spec == Init /\ [][Next]_vars
=============================================================================
