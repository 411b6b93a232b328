# difoss_cppbase: specifications, model checks and proofs

`difoss_cppbase` is a C++ base library for Linux servers: threads, message
queues, timers, logging, and value and file helpers. It has no program and no
tests of its own. This directory holds TLA+ models of its concurrent core, the
TLC configurations that check them on small instances, and proofs that TLAPS
checks. `PROJECT.json` ties every definition to the lines it translates, every
property to the run that checks it, and every hazard of the code to the
properties that watch it.

## 1. Inventory of the system

### Components

| Component (files) | State | Operations | Interacts with |
|---|---|---|---|
| `MQ<T>` (`mq.h`) | `_buffer`, `_head`, `_tail`, `_can_be_used`, recursive `_lock`, `_not_full`, `_not_empty`; static `_AllPointers` | `reserve`, `reservePriority`, `tryReserve`, `reserveConfirm`, `send`, `trySend`, `sendPriority`, `receive`, `tryReceive`, `clear`, `clearExcept`, `canBeUsed`, `weakUpSender`, `weakUpReveiver`, `count`, `sig_term`, `release` | any number of threads; the signals of `Application` |
| `Thread` (`thread.h/.cpp`) | `_state`, `_thread_id`, `_callback`, `_param`, `_lock`, `_cond`; the worker's copies of them | constructor, `realThreadProc`, `start`, `pause`, `stop`, `join`, destructor, `setCallback`, `getState` | the callback or the derived class's `run()` |
| `Timer` (`timer.h/.cpp`) | `_delays` (multimap alarm → id), `_sub_ids` (map id → alarm), the `Thread` it is | `add`, `remove`, `run`, `action` (pure virtual) | `Thread` (holds its `_lock`), `CondVar::Helper::Wait`, the derived class |
| `CondVar` (`cond_var.h/.cpp`) | none | `Wait` until a moment, `WaitIn` an interval | `Moment` |
| `Moment` (`moment.h/.cpp`) | `_sec`, `_usec` | `+ - += -= < ==`, `divide_by`, `convertToMilliSeccond`, `max`, `now` | `CTime` |
| `Application` (`application.h/.cpp`) | static `_SignalsMap` (signal → flag, repeat, handlers), `_IsSigOutput` | `reg_sig` (two), `register_signal_flag`, `check_/reset_signal_flag`, `g_signal_handle`, `daemon` | signal handlers; every `MQ` registers one |
| `MyLog` (`my_log.h/.cpp`) | level, line and file of the record being written; thresholds; open file, its count of records, count of files, date, directory, prefix | `setConditional`, `log1`, `log2`, `logOpen`, `logClose`, setters, checks | all threads (singleton), the file system |
| `Mutex` (`mutex.h/.cpp`) | a pthread mutex of a chosen type | `lock`, `unlock`, `tryLock`, scoped `EASY_LOCK` | `MyLog` |
| `BitVector` (`bit_vector.h/.cpp`, `helpers.h`) | `bit_size_`, `array_` | set, reset, test, `Serialize`, `DeSerialize` | files |
| `IniFile` (`ini_file.h/.cpp`) | multimap of sections, each a multimap of keys; two duplicate policies | `open`, `read`, `count`, `get` | `StrUtil` |
| `FileUtil`, `DirUtil` | none | `Move`, `Rename`, `IsSame`, names, sizes, listings | the file system |
| `CTime` (`ctime.h/.cpp`) | `m_time` | fields, packing in 64 bits, zero clock | libc |
| `fixed_length_class.h` | two buffer pointers, a table of positions | `get_field`, `set_field`, `print` | `StrUtil`, `enum_util.h` |
| `StrUtil`, `Ipv4Address`, `hton`, `bit_util`, `math_util`, `mem_util`, `process`, `RuntimeException`, macros | none or one value | conversions | |

### Where it is hard

- **MQ**: several threads in blocking calls under a *recursive* mutex, whose
  condition wait gives up one level only; `reserve()` returns with the lock
  held; signals are sent only on the edges empty → not empty and full → not
  full; a refused `receive()` returns an arbitrary message; shutting down needs
  three calls in order. Correct means: the queue is a bounded FIFO with a
  priority end, the lock is balanced on every path, no wake-up is lost as a
  whole, and a shutdown ends everybody.
- **Thread**: the state is copied, tested outside the lock, and changed by
  clients at any time; neither condition wait is in a loop; `setCallback` takes
  no lock; `pthread_create` may fail. Correct means: stop and join end the
  thread, a pause or stop lets at most one more callback begin, the object
  outlives its worker, and a thread calls its own callback, with its param, and
  only after `start()`.
- **Timer**: `run()` iterates over the map that its own callback changes; the
  thread pauses itself when the map is empty and `add()` has to restart it; a
  timed wait is not shortened by an earlier alarm; destructors run in the wrong
  order. Correct means: each subscription rings or is removed, in order, never
  early, and the two maps agree.
- **Application**: handlers run in the middle of whatever a thread does, also
  inside each other, while the table they read is being filled. Correct means: a
  delivered signal is noted, a registered function is called once, and the queue
  that `sig_term` empties stays usable.
- **MyLog**: the level and the record are two locked sections; names are made of
  directory, prefix, process, day and count, and given when a file is closed.
  Correct means: a record is in exactly one file, of its day, with its level, and
  no file is too long, also after crashes.
- **FileUtil::Move**: a chain of system calls of which any may fail, through a
  buffer that threads share. Correct means: the file is whole under one of its
  names at every moment; where the code cannot promise it, that is named.
- **Values and texts** (`Moment`, `CTime`, `BitVector`, fixed-length fields,
  `StrUtil`, `IniFile`, `DirUtil`): carry and borrow, signed extremes, widths,
  bounds, offsets, policies. Correct means: they agree with a short definition of
  what they are for, and every exception is known.

## 2. The modules

| Module | Models | Role |
|---|---|---|
| `Pthread` | POSIX mutex and condition operations | external, from how `src/` uses them |
| `MessageQueue` | what the comments of `mq.h` promise | abstract specification |
| `MQ` | `mq.h` | detailed specification, refines `MessageQueue` |
| `MCMQ` | | symmetry for TLC |
| `MQShutdown` | `MQ` with the loops of its callers | composition |
| `MQProofs` | | proofs about `MQ`, that it implements `MessageQueue`, and about `MQShutdown` |
| `Thread` | `thread.h`, `thread.cpp` | detailed specification |
| `ThreadProofs` | | proofs about `Thread` |
| `Timer` | `timer.h`, `timer.cpp`, on the steps of `Thread` | composition |
| `TimerProofs` | | proofs about `Timer` |
| `Sections` | `reserve`, `reservePriority`, `receive` of `mq.h` again, cut where a signal can tell the difference | detailed specification |
| `Signals` | `application.h`, `application.cpp`, `sig_term` and `release` of `mq.h`, on the steps of `MQ` and `Sections` | composition |
| `MCSignals` | | symmetry for TLC |
| `SignalsProofs` | | proofs about `Signals` |
| `Log` | `my_log.h`, `my_log.cpp` | detailed specification |
| `LogProofs` | | proofs about `Log` |
| `FileUtil` | `Move` and `IsSame` of `file_util.cpp` | detailed specification |
| `Moment`, `CTime`, `BitVector`, `FixedLength`, `StrUtil`, `IniFile`, `DirUtil` | the files of those names, `ipv4_address.cpp` in `StrUtil` | operators, each module with its reference definition |
| `Library` | a client of each of the eight modules above | composition |
| `Parts` | `Library` and `Log` side by side, one of which moves | composition |
| `MCParts` | | instance and symmetry for TLC |
| `Promises` | what comments say of the parts and the code does not do | properties of `Parts` |
| `MCPromises` | | instance for TLC |
| `DataProofs` | | induction, recursion and division; proofs about `CTime`, `IniFile`, `DirUtil` and `BitVector` |
| `TextProofs` | | proofs about `StrUtil` and `FixedLength` |
| `LibraryProofs` | | proofs about `Library`: `Move()`, the arithmetic of moments, and what the two modules before it say of the values of a client |

A definition whose comment begins with "Fault:" is a plausible bug in the
definition that follows it. No specification uses it: replacing the definition
by its fault must make a run report a violation, which shows that the run's
property watches that code (`mutants` in `PROJECT.json`).

### MQ

*State.* `head`, `tail`, `buffer`, `canBeUsed` are the class's fields; the array
has `MaxSize + 1` slots of which one stays free. `lock` is the recursive mutex:
an owner and a depth. Per thread: `pc`, the point where it waits or leaves the
queue locked; `call`, the method and its argument; `slot`, what `reserve()` gave
it; `result`, what its last call returned.

*Steps.* A section under `_lock` that neither blocks nor returns with the lock
held is one action. The others are split where other threads can act:
`TryReserve` (own lock level, test) → `ReserveSlot`/`ReserveRefused`/
`ReserveBlocks` (second level) → `TryReserveUnlock` → `Confirm` (write, unlock);
`TryReceive` → `ReceiveTakes`/… → `TryReceiveUnlock`. `ReserveBlocks` and
`ReceiveBlocks` are `pthread_cond_wait`; a woken thread tests again, so it is
back at the method's entry. `Signalled` wakes one waiter, any one. `SpuriousWake`
wakes without a signal. An uninitialised `Message_T msg;` (`mq.h:166`) is any
value of `Uninit`.

*Abstraction.* `MessageQueue` knows a sequence, a switch and the callers. A
message takes its place when its `reserveConfirm()` returns and leaves by
`receive`, `clear` or `clearExcept`. The refinement mapping `Queue` is the ring
without the slot that is reserved and not yet written.

### MQShutdown

Adds what the library leaves to its callers: a producer sends until `send()`
fails, a consumer asks `canBeUsed()` after each `receive()`, and the owner calls
`canBeUsed(false)`, `weakUpSender()`, `weakUpReveiver()`, in this order.

### Thread

*State.* The fields of the object; `worker`, where `realThreadProc` is; its local
copies `seen`, `useCallback`, `useParam`; what each client is doing (`setCallback`
is two steps, `join` waits). History variables, read by properties only: `begun`
(callbacks begun since the last pause or stop that took effect, cut off at
`MaxBegun` = 2), `stopAsked`, `saidEnd`, `started`, and `careful` (so far the
object was used as meant).

*Details kept.* After a wait the worker does not test the state again (`Woken`
leads on). It gives the lock up between its wait and its copy of the state
(`refresh`). `Snapshot` is taken once, so a callback set later is never called.
The constructor holds the lock over `pthread_create`; that the worker finds
`UNINITED` (`thread.cpp:24`) is therefore unreachable, though modelled. If
`pthread_create` fails `_thread_id` is undefined: `ConstructFails` takes any
value, and `join` of an id that names no thread returns.

*Left out.* `getState()`; printing; two clients in `join()` at once (undefined in
POSIX): only the owner joins and destroys.

### Timer

Extends `Thread` and reuses its actions. `run()` holds the thread's `_lock` from
beginning to end, also while it calls `action()`, except in its timed wait; its
points are `task`: `scan` (the loop's head), `action` (inside the callback, which
may call `add` and `remove` — the lock is recursive), `timedWait`, `woken`, and two
that it never leaves: `spin` (the endless loop of `remove()`) and `undefined` (an
iterator to a removed element is used). `iter` is the id of the element the
iterator points to, or `Lost` once that element has been removed under it: an id
that is added again is another element. `delays` is the multimap as a sequence
ordered by alarm, later insertions after earlier ones with the same key.
`_begin_time` is never set, so keys are the alarms. The `itimerspec` values that
`add` and `remove` fill in are never used and are left out. Moments are points of
a clock that `Tick` moves; they come from `Delays` and stay below `MaxTime`.
Destruction has three steps: the derived class (which joins first if
`JoinsFirst`), `~Timer`, which destroys the maps, and `~Thread`, which joins.

### Signals

Extends `Sections`, which extends `MQ`. `Main`, the one controller, registers; a
signal comes to any thread between two of its steps, also while it waits on a
condition, and its handler (`frames`, innermost first) must return before the
thread goes on. The same signal does not interrupt its own handler in a thread;
another one does.

Between two threads a locked section of `mq.h` is one step, and in `MQ` it is. A
handler of the thread itself gets past the recursive lock, so `Sections` cuts
`reserve`, `reservePriority` and `receive` into what a handler can come between:
`Test` (take the lock, test for room or a message), `Wait` (whatever happened since),
`Look` (is a signal due; the head whose slot is given), `Signal`, then `Give` or
`Advance` (move an index), and `Read`. `inside` has the point and the heads the
thread has read: between two calls of functions it knows nothing of the compiled
program may read `_head` again or go on with what it has, and each step takes
either (`SeenHeads`). The test of `tryReserve`, `tryReceive`, the confirmation and
the unlocking are still one step each: a handler in the middle of them does what it
would do before or after.

`reg_sig` is the steps that another thread or a handler can tell apart: find
(`RegSig`), `sigaction` (`Install`, which may fail), `Insert`, `Push`. Whatever
`old_act` was is kept as the first function. A handler's frame holds the functions
it has yet to call, all those of the entry when it begins; the two that it passes
over (`SIG_DFL`, `g_signal_handle` itself) are not put in the table. `Push` with an
iterator that is `_SignalsMap.end()` writes where nothing is read, or ends the
behaviour (`undefined`).
`wanted`, `early`, `proper`, `hit` and `missed` are history: `hit` has the threads that
ran `sig_term` since they saw room for their message, `missed` those that ran it
between their test and their wait, for as long as they sleep.
*Left out*: a handler in the middle of a pthread call, of `push_back` or of `insert`
(undefined in C++); `repeat`, which has no effect as the handler it registers again
is always there; `daemon()`.

### Log

`log` holds the members, `disk` the files from name to records, `at` where each
thread is in `MY_LOG`. Every method holds the lock throughout and is one action;
what the file has at most in its buffer, `flushed` tells, and `LogCrash` loses any
end of it. The limit of a file is `MY_LOG_SIZE` until a setter changes it.
`log1()` reads the clock and `logOpen()` reads it again, so midnight may
pass inside `Log1`. After `Exit` or `LogCrash` another process begins, perhaps with
the same id. A name is a tuple; a record is its number and its day. `kept` (the
records that must be in a file) and `reused` (the count began again in a process
that had opened a file, or the id of a process whose files are there came again) are
history. That the level of a record is that of its own statement is not so
(`Promises`).
*Left out*: colours, the size of the buffer, a `rename()` that fails.

### Library

One client for each part, chosen at the start; only that part moves. The client
makes legal calls, the object is `obj`, and the module's reference definition is
evaluated on every object reached:

* `Moment` against microseconds as integers; `CTime` with a zone that has
  summer time, whose conversions by the C library are external;
* `BitVector`: a word is a set of bits, a file a sequence of words, against a
  history of what was put in each bit (`told`); `FixedLength`: a buffer of
  characters, against a history of what was put in each field;
* `StrUtil`: all texts up to a length over the characters that matter: a space,
  a sign, a digit, the delimiter, the wild card of `Ipv4Address`;
* `IniFile`: lines and further files, against a definition of what `read()` should
  find in the lines so far. A line is the name between its brackets, its key, its
  value;
* `DirUtil`: directories of entries that may be gone when `stat()` asks;
* `FileUtil`: two threads in `Move()`, one system call a step. Any of them may
  fail, also the flush of the last chunk in `fclose()`, which nobody looks at, and a
  crash takes what is in the buffers. History: `old`, the target that was there;
  `unseen`, an error that nobody looked at; `mixed`, a chunk that is not the
  thread's own. A file that is created gets any free inode, which may have the
  number of its source on the other device. A chunk written while another thread
  copies may be its own, the other's or torn.

A reference definition says what the code is for and leaves out, by name, the cases
where the code does not do it; it never asserts what the code does wrong. Where a
comment promises such a case, `Promises` has the promise.

### Parts and Promises

`Parts` puts `Library` and `Log` side by side: in a behaviour either the client of one
part moves and the log rests, or the log moves. So `PartsSpec` implies `LogSpec`, and a
behaviour of it that has no log is one of `LibrarySpec`.

`Promises` has eight sentences of the comments, each with its line. They are tried in
order: the part of the present promise makes its calls until a state breaks it, then the
next one's turn comes. `SomePromiseIsKept` says that not all of them are broken.

## 3. The runs

| Run | Instance | Shows |
|---|---|---|
| `mq_safety` | 2 messages, 2 senders, 2 receivers, 1 controller, every method that changes state | the receivers are never all asleep beside a message (`ReceiversAsleepOnlyIfEmpty`) nor the senders beside a free slot; nobody waits on a condition with a level of the lock; lock depth fits the method on every path; a reserved slot stays at its end and locked |
| `mq_refines` | 2 messages of 2 values, every method, uninitialised results | `MQ` implements `MessageQueue`, results of the methods included |
| `mq_shutdown` | 2 messages, 1 producer, 2 consumers, owner | in use: blocked producers go on, messages are received; turned off: everybody leaves; no consumer processes what a refused `receive()` returned |
| `mq_stranded` (violated) | 2 consumers | a consumer may wait for ever while the queue is not empty |
| `thread_free` | 2 clients, 2 callbacks, anything at any time, spurious wake-ups, failing creation | no missed wake-up, one more callback at most, object outlives worker, life cycle, stop ends, join returns, start runs, careful use is safe |
| `thread_spurious` (violated) | built paused | a spurious wake-up runs a thread that was never started |
| `thread_unpaused` (violated) | built running, no spurious wake-ups | the thread can die before its callback is set |
| `timer_rings` | 2 threads, 3 ids, 2 delays, 4 instants, `action` adds and removes | maps agree, paused only when idle, `remove()` hangs on ties only, alarms in order and not early, maps outlive `run()`, only `action()` takes the iterator's element, each subscription rings |
| `timer_late` (violated) | 2 ids | an alarm earlier than the one waited for rings late |
| `signals` | 2 signals, 1 sender, 1 receiver, `Main`, 3 registrations, 2 deliveries | `SignalIsNoted`, `FuncsAreCalled`; a slot given by `reserve()` survives `sig_term` (`SlotSurvives`), and so do the wake-ups (`WakeUpsSurvive`), but for the windows they name |
| `parts` | one small object per part; 2 movers; 2 logging threads, 2 processes, 2 records, 1 setter | the arithmetic of moments (`MomentsExact`); bits and fields (`StoredKept`); dates and texts (`ConversionsExact`); ini files and listings (`ReadingsExact`); `Move()` (`FilesKept`); the log (`NothingLost`, `DayOfFile`, `SizeRespected`) |
| `promises` (violated) | the objects of `parts` | eight promises of comments are broken, one after the other |

**Bounds.** Two threads of a kind are the smallest number for which a signal
can wake the "wrong" one and a lock can be taken in between. A capacity of two
has three slots: indices wrap from both ends, and "empty", "neither" and "full"
are distinct, so an edge-triggered signal can be missed. Two message values show
order and duplication in `mq_refines`; `mq_safety` needs one, because its
properties do not look at contents. Three subscriptions give a first, a middle and
a last element of the multimap; two delays give ties and reorderings. `begun` is
cut off at 2 because the property is about more than 1. The clock's end only
limits which alarms are asked for: nothing is left waiting when it stops.
Symmetry is used in `mq_safety`, `signals` and `parts` only, which have no liveness.
`signals`: two deliveries are one handler inside another, or two threads at once;
the queue holds two messages, so that `sig_term` finds it full, empty, in between and
with a reserved slot, and a head that was overtaken differs from the present one; what a
message says matters to none of its properties, so there is one. `parts`: a base of 3
instead of 1000, words of 4 bits and bytes of 2, integers of 6 bits and ports of 3 make
carries, aliases and overflows happen with small numbers; moments reach 17
seconds, more than `MAX_UL` = 15, the largest number of milliseconds; the
sizes 0, 3, 4, 6 are below, at and above a word; five characters are two pieces with a
delimiter of two and something around them; five lines are two blocks, repeated, of two
pairs. The file of one mover has two chunks, one that is full and one that is not, that
of the other has one; three inode numbers are those of the sources and a free one. Of
the log, two records are what it takes to tell their files apart, and the second
process meets the files of the first.

**Deadlock** is checked in the MQ runs without termination. `MQShutdown`, `Thread`
and `Timer` really end (everybody has quit, the object is destroyed), so their
configurations switch the check off and liveness properties take its place;
`Signals` and `Parts` end at their bounds (and at undefined behaviour).

**Fairness.** `MQ`: a thread inside a method that can take its next step
eventually does (weak fairness per thread). Nothing is assumed of competition for
the mutex, which pthread does not make fair, nor of the callers; `MQShutdown`
adds that its loops go on, except that nobody has to begin the shutdown.
`Thread`: the worker runs, its callback returns, a join that can return does;
clients owe nothing. `Timer`: also time passes, `action()` returns, and a timed
wait whose time has come ends. Spurious wake-ups are possible but never assumed.

## 4. What is proved

Every invariant and every action property that a passing run checks is a theorem
of its specification, and so is the refinement; liveness is not (section 5). A
theorem holds for all values of the constants that satisfy the named assumptions
of the modules (`MQAssumption`, `ShutdownAssumption`, `ThreadAssumption`,
`TimerAssumption`, `SignalsAssumption`, `LogAssumption`, `FileUtilAssumption`,
`MomentAssumption`, `CTimeAssumption`, `BitVectorAssumption`, `StrUtilAssumption`,
`FixedLengthAssumption`, `IniFileAssumption`, `LibraryAssumption`): any number of
threads, any capacity, any widths and lengths, any bounds. What these ask is of
three kinds. Kinds of values are told apart (a sender is no receiver, the mark of
what is absent is no name). Layouts are what a program can declare: the fields of a
record lie one after the other from position 1 on, a word is one to eight bytes, a
size fits in a word. And the times a client looks at, from two days before the summer
to two days after it, lie in one year of the local zone and of UTC, as `CTime`
leaves out the year. Only `JoinedTimerIsSafe` has a hypothesis of its own,
`JoinsFirst`, without which it is false. Each inductive invariant was checked by
TLC first.

*MQProofs.* `TypeCorrect`, `LockIsHeldByItsUser`, `NobodyBlocksWithLock`,
`SlotIsReserved`, `SomeReceiverIsAwake`, `SomeSenderIsAwake`: every invariant of
`mq_safety`. They rest on `LockInv`,
which adds to the invariants themselves what each thread relies on between two of
its steps: that it calls methods of its role, that what `tryReserve()` and
`tryReceive()` tested under the lock still holds when the blocking method tests it
again, and that a slot is given exactly to the threads that have yet to write it.
`LockHeldByItsUser` and `ReservedSlotIsMine` alone are not inductive:
that `tryUnlock` finds the depth it needs depends on whether a slot was given, and
that nobody moves `tail` before `reserveConfirm()` follows from who owns the lock.
`AwakeInv` adds the two wake-up properties. Its step lemma (`AwakeStep`) says why
signalling on the edges only is enough: whoever fills an empty queue wakes a
receiver, and a step on a queue that already holds a message puts no receiver to
sleep.

Its second part is `QueueIsImplemented`: `MQ` implements `MessageQueue`. The
lemmas `BetweenAppend`, `BetweenPrepend`, `BetweenTail`, `BetweenFront` say what
moving an end of the circular array does to the sequence of its content. By
`LockInv` at most one thread has a slot, so the queue is the content between two
slots, `Front` and `Back`, which a reservation does not move: `ReserveSlot` is a
stutter, `Confirm` is the abstract `Send` or `SendPriority`. `RefineInv` adds
what the results need: a slot is given, and `trySend` is refused after it found
room, only in a queue that is, or is not, in use, because `_lock` is held meanwhile.

Its third part is `MessagesAreProcessed`. `ShutdownInv` follows a message from
`send()` to the consumer: the loops call what they should, only messages are in the
queue, and what a consumer holds before it asks `canBeUsed()` is a message as long
as the queue is in use. The steps of the queue are those of the refinement
(`RefineConfirm`, `RefineTakes`); that nobody turns the queue on again
(`NeverTurnedOn`) is what makes asking *after* the `receive()` safe.

*ThreadProofs.* `NoMissedWakeUp`, `ObjectOutlivesWorker`, `OneMoreCallback`,
`LifeCycleHolds` from `Inv`: types; that the object is built once; where the
worker can be when a callback has already begun after a request (`OneMoreInv`).
`CarefulUse` needs `CarefulInv` besides: before `start()` took effect the worker is
kept back or has been stopped, and at most one client is half through
`setCallback()`; afterwards callback and param belong together for good.

*TimerProofs.* `TimerTypes`, `TwoMapsAgree`, `PausesOnlyWhenIdle`,
`HangsOnTieOnly`, `RunNeverHangs`, `JoinedTimerIsSafe`, `AlarmsRingInTime`,
`IteratorIsLostOnlyInAction`. The steps of the thread keep `Inv` of `ThreadProofs`,
and so do those of the timer. The lemmas on the maps say where an insertion goes
(`PlaceExists`, by the least element of a set of places) and that insertion and
removal keep the two maps in agreement (`Agree`). A pause follows only from an empty
map because `run()` tests it under the lock it then pauses with, and `add()`
restarts the thread before it inserts. `RunNeverHangs` says more than
`HangsOnlyOnTie`: `run()` removes the first element, and that is always found.

*SignalsProofs.* `SlotOutlivesSigTerm`, `SigTermWakesWhomItMust`,
`SignalsAreNoted`, `RegisteredFuncsAreCalled`. `LockInv` does not hold here:
`sig_term` may run between the test of `tryReserve()` and the `reserve()` it calls,
fill a queue of one slot with its message, and `trySend()` then blocks *with* the
lock. `QueueInv` is what remains: a blocked thread owns the lock only in the two
"try" methods; a thread inside a section has it once more than outside; while it has
room that nobody took (`Section`), what it read of `_head` is still so unless it is
in `hit`; and a slot is at its end of the queue, but for the two cases of
`SlotSurvives` (`Slot`, `Harmless`). `WakeInv` adds to the two wake-up claims what a
thread knows at each point of its section (`Wakes`): before it waits, that the queue is
full, or empty, unless `sig_term` came; once it has passed the signal, that somebody is
awake for what it is about to give. The heads a thread may have read are the present one,
or one that `sig_term` overtook, after which the queue holds one message
(`NothingToSignal`). `TableInv` says of the table of signals and of
`reg_sig()` what the handlers rely on: `g_signal_handle` is installed only for signals
in the table, or for the one about to be inserted; an entry stays, and holds what was
registered for it once; and a handler either has called a function it must call,
once, or has yet to call it, once.

*LogProofs.* `RecordsAreKept`, `RecordsAreInTheirDay`, `FilesKeepTheirSize`. That a record is in *exactly* one file needs that no name is
given twice: `NamesLeft` says that every file of this process is of an earlier day
than `_date`, or of a lower count; `FinalLeft` that closing the open file
overwrites nothing; `Once` that no two places hold the same record. `OpenInv` bounds
the open file by `_log_size`, which is kept apart from it.

*LibraryProofs.* `FilesAreKept`: `FileInv` has for each mover that its source is
untouched until `unlink` (`SourceKept`), that its target is a file of the other
device or its own source under another name (`TargetApart`), what chunks the copy has
at each point if no error went unseen (`CopyInv`), and that they are some of the
file's, in order, if one did; it needs that the targets of two movers
differ, and that movers have their paths for themselves (`FileUtilAssumption`).
`MomentArithmeticIsExact`: a moment is a number in base `USEC_PER_SEC`, and the
operators that `OperatorsExact` speaks of carry and borrow as they should, for every
base, every divisor and every width of the result in milliseconds.

The other three theorems each rest on two things: an
invariant of the object along the calls, and a lemma that whatever satisfies it is
what the reference definition says. The lemmas are in `DataProofs` and `TextProofs`.

* `ConversionsAreExact` (`ConversionInv`: times of the year, texts).
  `TimesAreExact`: taking decimal digits apart gives the fields back
  (`DigitsOfFields`), and a time differs from what is computed of it by the offset
  before and after. `CutsAreExact`, `TrimsAreExact`, `ReplacesAreExact`,
  `NumbersAreExact`, `AddressesAreExact`: for texts of every length over any
  characters. The loops of `Split()` and `ReplaceAll()` have an invariant of their
  own, by the number of turns: the pieces so far, put together, are what was in
  front of `beg` (`CutInv`); what is in front of `pos` is replaced, what follows
  is as it was (`ReplaceInv`). A text says a number exactly if that number is read
  of it (`SaidIsRead`, `ReadIsSaid`).
* `StoredAreKept` (`StoredInv`). `BitsInv`: a vector has the words its size needs,
  its size is one that a word can hold, and up to a word of bits the first word is
  what was told; `WordOfNumber`, that a size written as a word is read back, is an
  induction over the bits. `FieldsInv`: each field of the buffer holds what it was
  told. The setters write their field and nothing else (`NumberWritten`,
  `TextWritten`, `RawWritten`), and as the fields lie apart that keeps the others
  (`WrittenKeeps`). That digits read back as their number needs the number to fit;
  for a layout with longer fields it is no promise of the code, and the
  property has it as a condition.
* `ReadingsAreExact` (`ReadingInv`). `IniInv`: for each section, the map has as many
  blocks as the lines so far ask for, and the first of them has for each key the
  value that `read()` should find, under either policy; and `do_open()` is inside
  the section's block exactly when no line has ended it. `ListsAreExact`: what is
  listed of the first k entries is a sequence of those with the mode, by induction
  over k.

Functions defined by recursion over numbers are brought in by
`NaturalsByInduction`, which comes from the library's `WFMin` (a well-founded
relation has minimal elements; it takes a set and no operator, which is why the
provers can use it), and by lemmas that state what each recursion says
(`JoinedIsRecursive`, `SplitIsRecursive`, `NumberIsRecursive` and the like).

## 5. What is only model-checked, and what is left out

*TLC only*: the liveness properties (`EveryoneQuits`, `SomeSenderProceeds`,
`QueueDrains`, `StopEndsThread`, `JoinTerminates`, `StartRuns`, `EachRings`), as
fairness and `ENABLED` are outside TLAPS's reach. The violated runs are
counterexamples that TLC finds.

*Disagreements between code and comments* (the violated runs, `findings`):
`mq.h:79` strands a second consumer; `thread.cpp:29` runs an unstarted thread on a
spurious wake-up; `thread.cpp:49` lets an unpaused thread die before its
callback is set; `timer.cpp:119` does not shorten a running wait. And those of
`Promises`: `Moment::max()` is less than every moment, and `+=` takes every sum for an
overflow, so that `WaitIn` returns at once; `ZeroClock()` is an hour off on the days of
change; a summer time comes back from `ToUint64()` an hour late; `GetUTCSecond()`
gives minutes; bits beyond the first word alias it; `DeSerialize()` does not read what
`Serialize()` wrote; a record of the log may have another thread's level.

*What properties that hold leave out*: each says what the code really guarantees.
`HangsOnlyOnTie`: `remove()` of the later of two subscriptions with the same alarm
loops for ever. `OnlyActionTakesNext`: `action()` must not remove the next one.
`FuncsAreCalled`: the function whose registration makes a signal known is stored
at `end()` and not called, or the program crashes (`application.cpp:118`, against
`application.h:39`); so the first `MQ` of a program does not react to the signals.
`SignalIsNoted`: not between `sigaction` and the insertion. `NothingLost`: not after
`setLogDir` and its like, which open old names again, nor with a reused process id.
`ConversionsExact`: `setUTC()` called in the summer, as it takes the offset of the
moment it is called; "1-1" is 1, `:80` is a host, and `set()` of any text returns true.
`StoredKept`: the last field of a record cannot be read, and a raw value goes to the
first. `ReadingsExact`: sockets are listed as files and directories, hard links once.
`FilesKept`: unseen errors of `fread`, `fwrite` and `fclose`, after which the source
is removed all the same; the shared buffer; equal inode numbers on two devices; and
with `cover`, the old target, which goes before it is known that the move succeeds.
`SlotSurvives`: `sig_term` takes the place of a priority message not yet written, and
fills a queue of one slot between a sender's test and its slot. `WakeUpsSurvive`: a
`sig_term` between a thread's test and its wait (`mq.h:70-71`, `137-138`, `173-174`) is a
lost wake-up for that thread.

*Seen while reading, outside of the models*: `file_util.cpp:128` defines a
global `DirName(const string&)` that calls itself for ever; `my_log.cpp:214` reads
`_term_colorful`, which the constructor does not set.

*Assumed of the callers*: one owner joins and destroys; nobody uses an object
after destroying it; the derived timer joins first (otherwise `~Timer` destroys
the maps under `run()`); ids may be subscribed again after they rang.

*Not modelled* (reasons in `PROJECT.json`): `Mutex` (forwards), `RuntimeException`,
byte order and hexadecimal dumps, process, random numbers, scoped pointers, macros,
printing and the build — single calls and text without a state; and in
the modelled parts what section 2 names as left out.

## 6. Plan

Done, in this order: `Pthread`, `MessageQueue`, `MQ`, `MQProofs`, `MQShutdown`,
`Thread`, `ThreadProofs`, `Timer`, `Log`, `Signals`, the modules of `Library`,
`Parts`, `Promises`, `Sections`;
then the proofs: `LogProofs`, `TimerProofs`, `SignalsProofs`, the refinement and
the shutdown in `MQProofs`, `LibraryProofs`, `DataProofs`, `TextProofs`.

Every safety property of the runs is proved. What could follow is more of the code: the
year and leap years in `CTime`, fractions and letters in `StrUtil`.
