----------------------------- MODULE MQShutdown -----------------------------
(***************************************************************************)
(* The use _can_be_used is meant for (mq.h:227): to let producers and      *)
(* consumers leave safely.  A producer sends until send() fails.  A        *)
(* consumer asks canBeUsed() after each receive(), because receive() alone *)
(* cannot tell a message from the nothing it returns when the queue is out *)
(* of use.  The owner turns the queue off, then wakes the blocked threads. *)
(* The methods are those of MQ; this module adds the loops of the callers, *)
(* whose code belongs to the programs that use the library.                *)
(***************************************************************************)
EXTENDS MQ

CONSTANT Owner

ASSUME ShutdownAssumption ==
    /\ Owner \notin Senders \cup Receivers
    /\ Controllers = Receivers \cup {Owner}
    /\ SendOps = {"send"} /\ ReceiveOps = {"receive"}
    /\ ControlOps = {"stopUse", "weakUpSender", "weakUpReceiver", "canBeUsed"}

VARIABLES at,       \* the point each thread has reached in its own loop
          got       \* what the consumer's last receive() returned

shutdownVars == <<vars, at, got>>

\* The method called at each point of the loops; the others call nothing.
Program == [send |-> "send", receive |-> "receive", check |-> "canBeUsed",
            stop |-> "stopUse", wakeSender |-> "weakUpSender",
            wakeReceiver |-> "weakUpReceiver"]

ShutdownInit ==
    /\ Init
    /\ at = [t \in Threads |-> IF t \in Senders THEN "send"
                               ELSE IF t \in Receivers THEN "receive" ELSE "stop"]
    /\ got = [t \in Receivers |-> Default]

\* The point after a call that returned v.
After(t, v) ==
    CASE at[t] = "send" -> IF v THEN "send" ELSE "quit"
      [] at[t] = "receive" -> "check"
      [] at[t] = "check" -> IF v THEN "receive" ELSE "quit"
      [] at[t] = "stop" -> "wakeSender"
      [] at[t] = "wakeSender" -> "wakeReceiver"
      [] at[t] = "wakeReceiver" -> "quit"

Calls(t) ==
    /\ at[t] # "quit"
    /\ Call(t)
    /\ call'[t].op = Program[at[t]]
    /\ UNCHANGED <<at, got>>

\* A step of a method; when it returns, the caller's loop goes on.
Steps(t) ==
    /\ Step(t)
    /\ IF pc'[t] = "idle"
       THEN /\ at' = [at EXCEPT ![t] = After(t, result'[t])]
            /\ got' = IF at[t] = "receive" THEN [got EXCEPT ![t] = result'[t]] ELSE got
       ELSE UNCHANGED <<at, got>>

ShutdownNext ==
    \E t \in Threads :
        Calls(t) \/ Steps(t) \/ (SpuriousWake(t) /\ UNCHANGED <<at, got>>)

\* Every thread goes on with its loop, except that nobody has to begin the
\* shutdown.
ShutdownSpec ==
    /\ ShutdownInit /\ [][ShutdownNext]_shutdownVars
    /\ \A t \in Threads : WF_shutdownVars(Steps(t))
                          /\ WF_shutdownVars(Calls(t) /\ at[t] # "stop")

-----------------------------------------------------------------------------
\* Once the queue is turned off every producer and every consumer leaves, the
\* blocked ones included: none is missed by the broadcasts, and none blocks
\* again after it was woken (mq.h:70-76, 173-179).
EveryoneQuits == ~canBeUsed ~> \A t \in Threads : at[t] = "quit"

\* A consumer that was told canBeUsed() after a receive() holds a message, not
\* the nothing receive() returns when it is refused.
OnlyMessagesAreProcessed ==
    [][\A t \in Receivers :
        (at[t] = "check" /\ at'[t] = "receive") => got[t] \in Messages]_shutdownVars

\* As long as the queue is in use, blocked producers do not stay blocked all
\* together: a signal of receive() is never lost (mq.h:180-181).
SomeSenderProceeds ==
    (\A t \in Senders : pc[t] = "notFull")
        ~> (~canBeUsed \/ \E t \in Senders : pc[t] = "filling")

\* As long as it is in use, a message that was sent is received although nothing
\* else is sent: a signal of reserve() is never lost (mq.h:79-80).
QueueDrains ==
    \A s \in Slots : (~IsEmpty /\ head = s) ~> (~canBeUsed \/ head # s)
=============================================================================
