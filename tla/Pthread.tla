------------------------------ MODULE Pthread ------------------------------
(***************************************************************************)
(* What the library uses of POSIX threads (external code): a recursive     *)
(* mutex, and condition variables.  A mutex is a record of its owner and   *)
(* the number of times the owner has locked it.  A condition variable has  *)
(* no state of its own: its waiters are the threads whose label says that  *)
(* they are blocked on it.  A woken thread goes back to a label where it   *)
(* needs the mutex again before it can continue.                           *)
(***************************************************************************)
EXTENDS Integers

CONSTANT NoThread   \* the owner of a free mutex

Free == [owner |-> NoThread, depth |-> 0]

\* Fault: the lock excludes nobody.
CanLockAlways(mutex, t) == TRUE

CanLock(mutex, t) == mutex.owner \in {NoThread, t}

Locked(mutex, t) == [owner |-> t, depth |-> mutex.depth + 1]

\* Fault: one unlock gives up all levels.
UnlockedAtOnce(mutex) == Free

\* One unlock: the mutex becomes free with the last one.
Unlocked(mutex) == IF mutex.depth <= 1 THEN Free
                   ELSE [mutex EXCEPT !.depth = @ - 1]

(***************************************************************************)
(* pthread_cond_signal wakes one waiter, if there is one; which one is the *)
(* scheduler's choice.  The operator is the set of the possible choices.   *)
(* A wake-up without a signal is an action of the modules that wait.       *)
(***************************************************************************)
Signalled(waiters) == IF waiters = {} THEN {{}} ELSE {{w} : w \in waiters}

\* pthread_cond_broadcast wakes them all.
Broadcast(waiters) == {waiters}
=============================================================================
