# TLA+ verification of CppELib

CppELib (`mechanism/`, `platform/`) is a C++ library for embedded software:
containers of fixed capacity, and OSWrapper, an interface of threads, mutexes,
event flags, message queues, memory pools, timers and thread pools, with the
classes that implement it on several platforms. This directory holds TLA+
modules of its concurrent core, the TLC configurations that check them, and
proofs that TLAPS checks.

## 1. Inventory

| component | state it keeps | operations | used by | what is hard |
|---|---|---|---|---|
| `MessageQueue<T>` (mechanism) | ring buffer, `m_mtxRB`, `m_mtxSend`, `m_mtxRecv`, `m_event` | send, receive, their try and timed forms | application, ThreadPool | lost wakeups between a look at the buffer and the reset of the event; push and pop do not check; copies may throw |
| `ThreadPool` (mechanism) | queue of free TaskRunners; per runner a task, an event, `m_needsWaiting`; a Thread each | start, tryStart, timedStart, WaitGuard, destroy | application | a runner is free again before its thread is idle; two ways back to the queue; destroy races with the last tasks; tasks that use the pool |
| `OneShotTimer` (StdCpp) | `m_isActive`, `m_started`, `m_stopped`, `m_endThreadRequested`, `m_timeInMillis`, three condition variables | start, stop, destroy, thread loop, timerMain | application | handshake of callers and thread; the timer fires while it is stopped; the Runnable calls its own timer |
| `PeriodicTimer` (StdCpp) | the same, without the time | the same | application | stop and start between two periods, two stops |
| `Thread` (StdCpp) and its factory | `m_isActive`, `m_endThreadRequested`; map of thread ids | start, wait, timedWait, destroy, getCurrentThread | ThreadPool, timers | endThread() waits, unlocks and locks again; ids reused before they leave the map |
| thread priorities (Posix, Windows) | a range, a map to native priorities | setPriorityRange, setPriority | Thread | ranges that run downwards or are replaced |
| `EventFlag` (StdCpp) | bit pattern, auto-reset | set, reset, wait for one, any, all | MessageQueue, ThreadPool | auto-reset with many waiters |
| `Mutex` (StdCpp) | recursive mutex and a lock count | lock, tryLock, timedLock, unlock | MessageQueue, application | the count does not say who locked |
| `FixedMemoryPool` (StdCpp) | free list, used list | allocateMemory and its forms, allocate, deallocate | MessageQueue, ThreadPool | waiting for a block, blocks and `malloc()` memory given back by one call, sizes that wrap |
| `VariableMemoryPool` (StdCpp) | none (malloc) | allocate, deallocate | application | - |
| creation of composed objects | what has been acquired | create, destroy | application | a `create()` that fails at any of a dozen resources |
| Deque and Vector, Fixed and Preallocated | slots, indices | those of the STL | application | wrap-around, insert and erase in the middle, copies that throw |
| `IntrusiveList` | circular links in the nodes | push, insert, erase, splice, swap | FixedMemoryPool, application | links shared by lists |
| Itron `Thread`, `Mutex` | kernel task, flag and mutex; count | the same interfaces | application | every kernel call is a step of its own |
| Itron memory pool factories | array of pools, a mutex | create, destroy | application | two factories' calls at once, ids reused |
| Itron `EventFlag`, `PeriodicTimer` | the kernel's | the same interfaces | application | creation that fails |
| Windows timers | `m_started`, `m_evFinished`, the event of the multimedia timer | start, stop, destroy, callback | application | destructor against callback |
| `Array`, `BitPattern`, `Assertion`, `Timeout`, `TypeTraits` | elements, a word, a handler, values | - | all | - |
| TestDouble platform | - | the same interfaces | unit tests | - |

How they interact: a ThreadPool owns a MessageQueue of free runners, an EventFlag
and a Thread for each runner; a MessageQueue owns three Mutexes and an EventFlag;
a timer owns a Thread. Below them are `std::mutex`, `std::condition_variable` and
`std::thread`. The Itron classes stand on a kernel's tasks, flags, mutexes, pools and
cyclic handlers instead, and the Windows timers on the multimedia timer.
Application code is called back as `Runnable::run()`, by pool threads and by timers.

Correctness, per component:

* MessageQueue: a bounded FIFO queue whatever the interleaving; no thread sleeps
  while there is something to do; no raw slot is read, also when a copy throws.
* ThreadPool: every runner has exactly one owner until it is destroyed; a task
  given to the pool runs; a WaitGuard is released by its own task; destroy()
  returns after all tasks.
* Timers: the Runnable is called for a start that was not stopped, with the time
  of that start, once or periodically; start(), stop() and destroy() return.
* Thread: an accepted start() leads to one run(), a wait that succeeds has seen it
  end, destroy() returns; a thread finds its own object. Its priority is the one
  set last, and the order of priorities survives the map to native ones.
* EventFlag: one set() lets one waiter of an auto-reset flag pass; no waiter sleeps
  while its condition holds. Mutex: a recursive lock, which is to refuse an unlock() by
  another than its owner (`Mutex.h:85`); that of Itron does, that of StdCpp does not
  (finding 5).
* Windows timers: when the destructor has returned, nothing calls the Runnable any more;
  a callback that has just begun still may (finding 6).
* Memory pools: every block is free or one thread's; what is given back goes where it came from.
* Creation: a failed create() and a destroy() release all, and in an order in which
  nothing is released before what depends on it.
* Containers: sequences of bounded length, also in between two moves of an element and
  after one that throws. Lists: rings that are tied in both directions.

`PROJECT.json` lists the hazards, each at its line, with the properties that
cover it.

## 2. Plan

1. Done: `MessageQueue` against `BoundedQueue`, with proofs; `ThreadPool` on top of
   that queue's promise; `OneShotTimer` and `PeriodicTimer` against `AbstractTimer`.
2. Done: the StdCpp building blocks: `Thread` and its factory, `EventFlag`, `Mutex`,
   `FixedMemoryPool`; creation with failures; the priorities of Posix and Windows; the
   Windows timers; the Itron thread, mutex and pool factories.
3. Done: the containers: deque and vector as a refinement of a sequence, the intrusive
   list.
4. Proofs. Done: every safety invariant of the passing runs, and the refinements of the
   queue, the timers, both threads, both mutexes and the containers.
5. Left of the models: a composition of `ThreadPool` with `StdCppThread` as a whole
   (the pool has the part of it that it relies on), the Itron event flag and cyclic
   handler, a `timeSetEvent()` that fails.

## 3. Modules

| module | models | from |
|---|---|---|
| `BoundedQueue` | what a message queue promises: operations begin, take effect once, return | interface of `MessageQueue.h` |
| `MessageQueue` | `MessageQueue.h`, one step per lock, wait, buffer change and event change | `MessageQueue.h` |
| `MessageQueueProofs` | theorems about the two | |
| `ThreadPool` | `ThreadPool.cpp`, with the part of `StdCppThread` that it relies on | `ThreadPool.cpp`, `StdCppThreadFactory.cpp` |
| `ThreadPoolProofs` | theorems about it | |
| `AbstractTimer` | what a timer promises, one-shot or periodic | `OneShotTimer.h`, `PeriodicTimer.h` |
| `OneShotTimer` | `StdCppOneShotTimer` | `StdCppOneShotTimerFactory.cpp`, `OneShotTimer.cpp` |
| `PeriodicTimer` | `StdCppPeriodicTimer` | `StdCppPeriodicTimerFactory.cpp`, `PeriodicTimer.cpp` |
| `OneShotTimerProofs` | theorems about `OneShotTimer` | |
| `OSWrapper` | constants that the modules below share | |
| `AbstractThread`, `AbstractMutex` | what a thread and a mutex promise, on any platform | `Thread.h`, `Mutex.h` |
| `StdCppThread` | `StdCppThread`: loop, start, waits, endThread | `StdCppThreadFactory.cpp` |
| `StdCppThreadFactory` | its factory with the map of ids | `StdCppThreadFactory.cpp` |
| `StdCppEventFlag`, `StdCppMutex`, `StdCppFixedMemoryPool` | the classes of these names | their factories' files |
| `ObjectCreation` | create() that fails anywhere, and destroy(), of eight classes | `MessageQueue.h`, `ThreadPool.cpp`, factories of StdCpp and Itron |
| `Priorities` | ranges, maps and setting of priorities | `Thread.h`, `PosixThreadFactory.cpp`, `WindowsThreadFactory.cpp` |
| `WindowsTimer` | both Windows timers | `WindowsOneShotTimerFactory.cpp`, `WindowsPeriodicTimerFactory.cpp` |
| `ItronThread`, `ItronMutex`, `ItronPools` | the Itron classes and factories, one step per kernel call | `ItronOSWrapper/` |
| `ThreadProofs` | theorems about `StdCppThread`, `StdCppThreadFactory`, `ItronThread`, `Priorities` | |
| `SynchronizationProofs` | theorems about `StdCppMutex`, `ItronMutex`, `StdCppEventFlag`, `WindowsTimer`, `PeriodicTimer` | |
| `ResourceProofs` | theorems about `StdCppFixedMemoryPool`, `ItronPools` and `ObjectCreation` | |
| `BoundedSequence` | what a container of fixed capacity promises | interface of `PreallocatedDeque.h` |
| `Containers` | the two deques and the two vectors | `Container/` |
| `IntrusiveList` | lists that share nodes | `IntrusiveList.h` |
| `ContainerProofs` | theorems about `Containers` and `IntrusiveList` | |
| `BoundedSequenceProofs` | that `Containers` implements `BoundedSequence` | |
| `MC...` | instances for TLC | |

**MessageQueue.** A thread is at a location of `pc`: `s_lock`, `s_isFull`,
`s_wait`, `s_push`, `s_set`, `s_return` in `timedSend()` and the same for
`timedReceive()`. A step ends where another thread can interfere: `push()` changes the buffer under `m_mtxRB`, and
sets the event in a second step that still holds it. The ring buffer has the code's
`m_begin`, `m_end` and one spare slot; a slot without an object is `Raw`. A copy that throws leaves by
`SendPushThrows` or `RecvPopThrows`, as an `Assertion::Failure` (thrown on) or
as `OtherError`. Timeouts are POLLING, TIMED and FOREVER: a call with a limit may
give up whenever the lock is held or the condition is false, so TIMED is as
general as POLLING.

**ThreadPool.** The actors are clients and the tasks themselves, which may call the
pool. `free` is `m_freeRunnerQueue` as the sequence that `BoundedQueue` says
it is (`OneOwner` implies that it never holds more than `maxThreads` runners, so
that `send()` never waits); `TakeTimeout` keeps one thing the detailed queue does, giving up
while another thread is receiving. A runner's thread is at a location of
`wpc`; `active` is `m_isActive` of its `StdCppThread`. `destroy()` may be called
when no client is in a call and every WaitGuard is released; tasks may go on. That a
caller has one WaitGuard and releases it before it starts another task (`MayCall`) is an
assumption about the users of the pool, who must release it (`ThreadPool.h:68`), and no
check of the code. `destroyRunners()` is `DestroyTake`, which receives a runner, and
`DestroyRunner`, which waits for its thread and ends it.
After `DestroyMembers` a thread that is still alive would use freed memory:
the model says nothing more of it than that it is there (`freed`).
The priority `INHERIT_PRIORITY` is one of the priorities a caller may pass.

**Timers.** A step is one critical section of `m_mutex`. Waiting for a condition
variable puts a thread at a `_wait` location; `notify_all()` moves it to `_woken`,
where it tests its predicate again. `wait_for()` may time out
at any moment (`Elapse`); when it does and the predicate is true by then, the
code takes the other branch, as the guards say. The Runnable runs without the mutex and may call `start()` and
`stop()` of its timer; `handleException()` is such a `stop()`.
`AbstractTimer` has two variables: `armed`, the time of the start in force, and
`running`, the time of the call in progress. The mapping reads `armed` from
`m_isActive` and `m_timeInMillis`, and `running` from the thread's location.

**Thread.** A step is one critical section of `m_mutex`. `NotifyLoop` and
`NotifyFinished` move sleepers to where they look at their predicate again. destroy() is
called when no other call is in progress. `AbstractThread` has the thread's state and,
of each caller, how far its last wait is; the mapping reads the state from
`m_isActive`, `m_endThreadRequested` and the place of the loop. `ItronThread`
implements the same abstract thread with `EV_FINISHED`, but there the flag is set while
the task is still on its way out: a wait has then "seen" the end and returns once
the task is dormant, even if the flag has been cleared for another start().
`StdCppThreadFactory` takes of a thread only whether its id is still in use.

**Mutex.** `StdCppMutex` splits each call where it touches `m_mutex` and where it
touches the count. `AbstractMutex` is what `Mutex.h` says, without an exception: an
unlock() by a thread that has not locked the mutex returns `NotLocked`. The code looks at
the count only, so that the constant `Trespass` tells two kinds of programs apart: without
it no thread calls unlock() while another has locked the mutex, and `StdCppMutex` implements
`AbstractMutex`; with it threads do, and it does not (finding 5). What
`std::recursive_timed_mutex::unlock()` does for another than the owner is undefined: in the
model it takes the lock down or does nothing. `ItronMutex` needs no such constant: its
kernel is asked who the owner is.

**Event flag, memory pool.** A waiter sleeps, looks or is idle; the wait with a limit may
end in either state. Block addresses are offsets in the pool's memory, so that
alignment and overlap are arithmetic, with sizes that wrap at `SizeLimit`;
`malloc()` returns addresses that are no offsets. Where `create()` divides by a size
that wrapped to 0, the state is `crashed`.

**Creation.** `Creates` lists what each class acquires, in order, and `Undoes` and
`Destroys` what its code releases; `fail` may happen at any resource. The StdCpp timers
use a null `m_thread` when there is no thread to be had: a `crash`, at
which the model stops.

**Platforms.** `Priorities` has one map per platform and the arithmetic of ranges with C's
division. A thread's priority is `Unset` at the system until it is set in the present range.
`WindowsTimer` has a step for every place of the callback, which goes on also when the
destructor has returned, as nothing in the code holds it back: what it then takes for the
timer's flags is memory that has been freed, of which the model has one of the outcomes. A step of `ItronThread`,
`ItronMutex` and `ItronPools` is a call of the kernel, which the repository does not
contain; what such a call does is taken from how the code uses its return values.

**Containers.** A call is the list of what it does to elements (`todo`), worked off by
`Step`; `Throw` may leave it before any copy. The slots are those of the ring: a value or
`Raw`. A vector is such a ring that never turns. `InsertAtEndSide` to `EraseAtBeginSide`
are the code's branches of insert and erase with the order of their moves, and
`BoundedSequence` says what must come out. The links of `IntrusiveList` are functions from node to
node, its operations act on both at once as the code does on one node after the
other, and `contents` is what the STL says the lists hold.

`MCPrimitives`, `MCContainers` and `MCWaits` put components that have nothing to do with each
other in one run: each behaviour is about one `subject`, so that the states add up and do not
multiply. `MCWaits` has the one-shot timer and, for the liveness of its waits, the message queue;
the periodic timer is one of the subjects of `MCPrimitives`.

Spurious wakeups are left out everywhere: every wait has a
predicate, so that they only test it again.

An operator whose comment describes a plausible mistake in a function stands
above that function's definition and is used by nothing in the modules. It shows
that a property can tell the two apart: `PROJECT.json` lists, for every property
of a passing run, the definition that such an operator replaces, and TLC then
finds the property violated.

## 4. Runs

| run | bounds | shows |
|---|---|---|
| `mq` | 3 threads, 2 messages, MaxSize 2, all timeouts and exceptions, symmetry | `RingSafe`, `NoLostWakeup`, `LiveSlots`, `NoGridlock`, and refinement of `BoundedQueue` |
| `pool` | 1 client, 2 threads with tasks that call the pool, 2 priorities, all timeouts | one owner per runner, no swallowed start, sound WaitGuards, priorities |
| `pool_forever` | 2 clients, 2 threads, blocking calls, fairness | no runner is lost, destroy() and WaitGuards complete |
| `pool_try` | 2 clients, tryStart only | finding 1 |
| `pool_nested` | 1 client, tasks that call the pool | finding 2 |
| `waits` | one-shot timer: 2 clients, Runnable that calls its timer, 2 times; queue: 3 threads, 1 message, MaxSize 1; fairness | refinement of `AbstractTimer`, `Handshake`, `Fires`, `DestroyReturns`; `WaiterWakes`: a thread waiting for the queue is woken |
| `oneshot_start` | 1 client, fairness | finding 3 |
| `containers` | MaxSize 6, 2 values, ranges of up to 4; 4 nodes in 2 lists | `IsBoundedSequence`, `SlotsSafe`; `LinksFollow` |
| `primitives` | 3 callers, 2 waiters, 3 objects and ids, see below; periodic timer: 2 clients, Runnable that may stop it; fairness | thread, mutex without `Trespass`, event flag, pools, creation, priorities, Windows timers, Itron classes; of the periodic timer what `waits` shows of the other, `KeepsFiring`, `StartWakes`, `StopWakes` |
| `thread_map` | 3 threads, 3 ids | finding 4 |
| `mutex_unlock` | 2 callers, depth 2, `Trespass` | finding 5 |
| `windows_destroy` | both timers, any number of starts | finding 6 |

Why these bounds: three threads are the fewest where one waits, one works and one
contends for its lock; a queue of two wraps around and has a state that is neither full
nor empty. Two pool threads let a runner be reused by another caller while its own
thread is still on the way out, and give destroy() one thread that it has passed.
Two times tell a start from the one before; two clients make two
starts or two stops meet. A deque of six erases near its beginning with two elements
before the erased ones, the least that can be moved in a wrong order; ranges of up to four
make both an insertion that is longer than what it moves and one that is
shorter. Three callers are two that wait or hold something and one that
disturbs them. A `SizeLimit` of 64 stands for 2^w: block sizes of 5 and 9 need
alignment, 60 wraps, and pools of 8 and 24 bytes have no block, one, or up to three. Two Itron pools
and two element counts (0 makes the kernel refuse) let a factory be full. Three
runners fail first, last and in between. Ranges of priorities begin and end at -3, 0, 1 or 6:
upwards, downwards, below zero, of two numbers and of one. Counters are bounded by the code itself, but for two that are named
(`MaxDepth`, how deep the standard library lets a thread lock; `MaxRecursion`, a bound of the model). `NoGridlock` needs MaxSize > 0: with 0 every send
waits forever.

The configurations turn TLC's own deadlock check off, because each of these systems may stop: a
destroyed pool or timer does, and so do threads that all wait in receive() of a
queue that no one fills. What may not stop is said by properties instead: `NoGridlock`
and the liveness properties.

**Fairness.** Weak fairness of each thread's steps within a call: a thread that can run
is scheduled, and who wants a mutex that is free again gets it. No thread is forced to
begin a call or to destroy an object. For the timers also strong fairness of the
return of the Runnable, which may make any finite number of calls first. For the
pool tasks return and a WaitGuard is released, as `ThreadPool.h:68` demands.
`MCSpec` of `primitives` has, for its threads, tasks and waiters, weak fairness of
the steps within a call, each for the behaviours of which it is the subject: who is woken looks. It is
the fairness that each module states itself.

## 5. Findings

1. `tryStart()` may take a runner whose thread is still on its way out and loses it
   (`ThreadPool.cpp:194`).
2. `ThreadPool::destroy()` waits thread by thread, so that a task started by another task
   can outlive the pool (`ThreadPool.cpp:124`).
3. A one-shot timer that fires while it is stopped does not notify `m_condStopped`:
   the next `start()` blocks (`StdCppOneShotTimerFactory.cpp:69`).
4. The factory of StdCpp threads joins a thread before it erases its id: a thread made
   in between may get that id and lose its entry, so that `getCurrentThread()` returns null or
   another's object to it (`StdCppThreadFactory.cpp:216`).
5. `unlock()` of a StdCpp mutex asks whether the mutex is locked and not by whom
   (`StdCppMutexFactory.cpp:83`): a thread that has not locked it takes the owner's count down
   and returns OK, and the owner's own `unlock()` may then be refused.
6. A callback of a Windows timer that has begun but not reset `m_evFinished` yet is not waited
   for: it calls the Runnable of a timer that is destroyed
   (`WindowsOneShotTimerFactory.cpp:50`; the periodic timer likewise).

The passing runs state what remains true beside them: `pool_forever` leaves out calls with a
limit and calls by tasks, `StopWakes` and `StartWakes` of the periodic timer leave
a call that another one overtook, `DestroyReturns` of the one-shot timer a
Runnable that waits in a start() of its own timer after a stop() of its own or of a client,
and so waits for itself, `NoDangling` holds although entries are lost: what the map has is alive,
`IsMutex` is checked of threads that do not unlock what another has locked, and
`AtMostOneLateCall` says what the destructor of a Windows timer does ensure: it does not return
while the Runnable runs, and after it no callback enters, so that the one that had entered is the
last.

Other limits of the code that the models have and no run reports: a try or timed call of
a message queue fails when another thread merely holds the lock, a size near the
greatest `size_t` makes a pool divide by 0, a StdCpp timer whose thread cannot be made uses a null
pointer, the callback of a Windows timer unlocks a mutex of the timer after the
flag that its destructor waits for is set, and a container's constructor that throws leaves the elements it had made. `PROJECT.json` lists them
as hazards or the modules' comments name them.

## 6. Proofs

The theorems hold for every value of the constants that satisfies the modules' assumptions.
An invariant that a run checks is seldom inductive; each module's inductive invariant is a
conjunction of named parts, which stand in the module they are about (or, where they only
serve a proof, in the proof module). TLC has checked each of them before it was proved.

**Message queue.** `MessageQueueProofs`, for all threads, messages, sizes, timeouts and
exceptions:

* `TypeCorrect`, `Invariance`: `IInv` is invariant. It is the conjunction of
  `TypeOK`, `MutexInv` (who is at which location holds which mutex), `FlagInv` (what
  each location knows of the event and of the buffer) and `LiveSlots`.
* `RingSafety`, `NoWakeupIsLost`, `SlotsLive`: the safety properties, from `IInv`.
* `NoGridlockEver`: someone can step as long as one thread sends and one receives. `CanStep`
  is the guard of each location, written out; that it is ENABLED of the thread's steps is
  beyond the prover, so TLC compared the two. The proof follows the chain of holders: whoever is blocked by a mutex is
  blocked by a thread that is not, unless that one waits for its event, and both waits at once
  would need a buffer that is full and empty.
* `Refinement`: `Spec => IsBoundedQueue`, by the contents of the ring as a sequence,
  with lemmas on what push and pop do to it.

`RingSafe` says that the buffer is not full when a thread
pushes. That holds because nobody else pushes in between (`MutexInv`) and because
the event bit is set only when there was room and reset only under `m_mtxRB` when
there is none (`FlagInv`); neither is inductive without the other.

**Thread pool.** `ThreadPoolProofs` proves, for every number of threads and clients and whatever
the tasks call, that `IInv` is invariant (`Invariance`), and from it
`TypeCorrect`, `StartNeverSwallowed`, `RunnerHasOneOwner`, `WaitGuardsSound` and
`PrioritiesKept`. The argument: `Uses(a, r)` says that a call or a WaitGuard of
actor a works with runner r. A queued runner is queued once and used by nobody
(`QueueInv`), a used one has one user (`UserInv`), and a thread that will put
its runner back itself has no user (`ThreadInv`); each of the three needs the
others, since a runner passes from one kind of owner to the next. `WaitInv` carries
through the life of a WaitGuard how far its task is, so that `GiveBack` is known
to return a runner whose task is over; `TakenInv` says that nobody works with the runner that
destroy() has received, and `DoneInv` that destroy() ends it all.
`StartNotSwallowed` is needed for the step that starts the thread: only an idle
thread takes the task. `OneOwner` itself is not inductive: it does not say
which users a runner may have at which location of its thread.

Three more theorems hold under a hypothesis on how the pool is used, which a run shows to be
necessary. `RunnersKept` takes `BlockingOnly`, calls without a limit: with `tryStart()` a
runner is lost (finding 1, `pool_try`). `DestroyIsComplete` and `NoRunnerIsLost` also take
`NestedTimeouts = {}`, tasks that do not call the pool: otherwise a task may outlive it
(finding 2, `pool_nested`). `KeptInv` says where a runner is whenever it is not in the
queue, and `QuietInv` that a thread which destroy() has passed stays idle.

**Timers.** `OneShotTimerProofs` proves for any clients and times
`TypeCorrect`, `HandshakeHolds` and `Refinement` (of `AbstractTimer`), and
`SynchronizationProofs` the same of the periodic timer: `PeriodicTypeCorrect`,
`PeriodicHandshake`, `PeriodicTimerRefinement`. `IInv` is
`TypeOK`, `Handshake` (how the flags agree with the thread's location: in the one-shot
timer, that the time it waits for is the one in `m_timeInMillis`) and `CallInv`.
`Handshake` alone is not inductive, because a `start()` or `stop()` that went on after
destroy() began, or a call by the Runnable outside of `fire`, would break it:
`CallInv` says that there is none. The refinement needs both: `Fire` of the abstract timer
takes the time of the start in force, which is the deadline only by `Handshake`.

**Threads.** `ThreadProofs`, for any callers, objects, tasks and ids:

* `NobodyForgotten` (nobody sleeps through what it waits for) and `ThreadRefinement`
  (`IsThread`), from `ThreadIInv`. `NoSleeperForgotten` alone is not inductive: between the look of
  endThread() and its request nothing but `EndsAlone` keeps another start() out, and
  `RunsActive` says that a run is never taken for finished.
* `NothingDangles`, from `FactoryIInv`: with `NoDangling`
  every entry's object still has the id under which it is found, so that destroy()
  erases the one entry of its object if it has any; with `EntriesLive` an entry's
  object is past create(), so that a create() that fails leaves no entry behind.
* `PriorityIsFollowed`, `DeletesDormant` and `ItronThreadRefinement` (`IsItronThread`), from
  `ItronThreadIInv`. Here each call of the kernel is a step, and the parts say what a task
  may still rely on after such a step: `FlagsFollowTask` that the finished flag and
  the kernel's state of the task agree but for the calls on their way, `SeenStays` that a
  wait which has seen the flag need not look again, `PriorityOnItsWay` that a priority which has not reached the
  kernel yet has a call that will bring it there.
* `PriorityOrderKept`: the maps of Posix and Windows keep the order for every range, from
  `MapFollowed` and lemmas on the division of the code, which rounds towards zero.

**Mutexes, event flag, Windows timers.** `SynchronizationProofs`:

* `MutexRefinement` and `ItronMutexRefinement` (of `AbstractMutex`) for any callers and depths;
  the former, like `CountRight`, under the hypothesis `~Trespass`, which `mutex_unlock` shows to
  be necessary. `MutexIInv` relates the count to the depth
  through the owner's place in its call (`CountRight`), and `LockedIsOK` carries a call's result;
  `OwnerStays` says that the kernel's answer about the owner is still true when the count is used.
* `OnePassPerSet`: one set() lets one waiter pass, for any waiters and bits. `PassResets` is
  what makes it inductive: who passed has reset the pattern, so that the next one finds nothing.
* `OneLateCallAtMost` (`AtMostOneLateCall`, of each step). It needs `EventKillable`, that an event of the
  multimedia timer which is set can be killed by the destructor, since `m_started` says so, and
  `CallbackSeen`, that a callback past its reset keeps `m_evFinished` down until its end.

**Memory pools.** `ResourceProofs`: `BlocksAreSound` for every block size, memory and width of the
integers, from the layout (`LayoutKept`: how many blocks of the aligned size fit) and from
the accounting of the two lists; `KernelPoolsAreKept` for any ids and numbers of elements,
from who holds the factory's mutex (`WorkerHolds`), who is the only one to create or to destroy an
element's pool, and how old an id may be (`StaleLeaving`, `GetsOfCreated`). `PoolsAreSound` is
both as the run has them.

**Creation.** `ResourceProofs`: `ObjectsAreReleased`, for every class and any number of runners of a
thread pool. `CreationSound` only looks at the next resource to be released; `CreationIInv` says of
all that is left to release that it `Clears` what exists: each resource occurs once, after all that is
within it, and none is missing. `Clears` holds of two releases one after the other if it holds of each,
so that `destroyMembers()` and the destructors are taken apart call by call. That it holds when
a `create()` fails at its n-th resource needs to know which resources those are (`SoFar`): of
a thread pool, which runners are whole and queued, and which one was being made
(`Complete`, `Coming`).

**Containers.** `ContainerProofs` and `BoundedSequenceProofs`:

* `SlotsAreSafe`, for every capacity and value type, from `ContainerIInv`: types, `LiveSlots` and `PlanSafe`. The
  last says of what a call has still to do that each step of it will find its slot as it needs it, counted
  from where the indices will be by then; without it a single step could not be known to be safe. It is
  established for each branch of insert and erase with lemmas on indices that wrap.
* `ContainerRefinement` (`IsBoundedSequence`), for every capacity, value type, call and throw. `PlanSafe` says which
  slots a plan touches and not what it leaves in them; `CallRight`, inductive with
  `ContainerIInv` (`CallInvariance`), ties what is left of a plan to the values that the call
  is to leave. Its core is `Leads`: no step has overwritten what a later one reads, which
  is what the direction of a move must ensure, and every slot of the result holds its
  value already or will be given it by the last step that writes it. One lemma (`LeadsOn`)
  shows that a step keeps this; another one for each branch of insert and erase, by the places
  counted from the first slot, that the plan has it when the call begins. What a throw may
  leave (`AfterThrow`) follows from the same: while constructions are left, the elements
  are a part of the wanted ones. An insert or erase left by an exception has moved the elements
  on one side of its place only (`OneSided`, `Worked`): those on the other are as they were
  (`InsertSpares`, `EraseSpares`). What an insert() of one of the container's own
  elements puts into its place is left open, as in `BoundedSequence`; the elements that assign() and the
  constructors take come from elsewhere, since assign() clears the container before it reads them
  and the STL excludes its own elements there.
* `LinksAreTied`, for any lists and nodes, from `ListIInv`: types, `OnePlace` (no node occurs twice)
  and `LinksFollow`. The latter alone is not inductive: a node in two places could not be
  tied to the neighbours of both. The proofs cut each list into the pieces that the operation leaves
  alone and show that the links inside a piece are not written and that those between two pieces are.

The types (`TypeOK`, `ThreadTypeOK`, ...) are parts of the invariants that are proved; no run repeats
them where a theorem states them. Induction, where a proof needs it (the least element of a
set of numbers, the sum over a range), is by a smallest counterexample, which
the library's theorems on well-founded relations give.

**Checked by TLC only.** Liveness (`WaiterWakes`, `Fires`, `KeepsFiring`, `StartWakes`, `StopWakes`,
`GuardReleased`, `DestroyReturns`, `WaitsEnd`, `DestroysEnd`), since the prover has neither fairness
nor ENABLED; `DestroysEnd` has its safety part proved (`DeletesDormant`).

## 7. Not modelled

* Thread stacks, names and native handles; handlers of uncaught exceptions; what
  happens in memory after it is freed.
* Of Itron: the methods of the event flag and of the cyclic handler, each of which is one
  kernel call; the blocks of a variable pool. Of Windows: a `timeSetEvent()` that fails.
* `Array`, `BitPattern`, `Assertion`, `Timeout` and `TypeTraits`, which keep no state of
  their own, and the StdCpp `VariableMemoryPool`, which is `malloc()`.
* Comparison of containers and iterators over const elements; constructors of elements other than by
  default and by copy.
* The TestDouble platform, which only serves unit tests of applications.

`PROJECT.json` says for each component what is modelled and why the rest is not.
