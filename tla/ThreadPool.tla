----------------------------- MODULE ThreadPool -----------------------------
(***************************************************************************)
(* OSWrapper::ThreadPool (mechanism/OSWrapper/ThreadPool.cpp).  A pool has *)
(* one TaskRunner per thread.  The runners of the idle threads are in      *)
(* m_freeRunnerQueue; start() takes one, waits until its thread is really  *)
(* idle, gives it the task and starts it.  After the task the runner goes  *)
(* back to the queue: by its own thread, or by the owner of the WaitGuard  *)
(* when start() was given one.                                             *)
(*                                                                         *)
(* m_freeRunnerQueue is a MessageQueue, used here as what BoundedQueue     *)
(* says of it.  Of a Thread the pool uses start(), which does nothing when *)
(* the thread is active, and wait(), which returns when it is not.         *)
(* Tasks may themselves use the pool.  A step is what a thread does up to  *)
(* the next point where it meets another one.                              *)
(***************************************************************************)
EXTENDS Naturals, Sequences

CONSTANTS Clients,        \* threads outside of the pool that start tasks
          N,              \* maxThreads of create()
          Priorities,     \* the priorities that tasks are started with
          Default,        \* m_defaultPriority
          Timeouts,       \* the timeouts of start(), tryStart(), timedStart()
          NestedTimeouts, \* the same for calls made by tasks; {} for none
          None            \* no runner, no caller

Runners == 1..N
Actors  == Clients \cup Runners

ASSUME TPAssumption ==
    /\ N \in Nat \ {0}
    /\ Clients \cap Runners = {}
    /\ None \notin Clients \cup Runners
    /\ Default \in Priorities
    /\ Timeouts \cup NestedTimeouts \subseteq {"POLLING", "FOREVER"}

VARIABLES free,         \* m_freeRunnerQueue
          by,           \* m_task of each runner, as the caller that passed it
          wanted,       \* the priority that caller asked for
          needsWaiting, \* m_needsWaiting of each runner
          ev,           \* whether m_ev of each runner is set
          priority,     \* the priority of each runner's thread
          active,       \* whether each thread is active
          wpc,          \* where each thread of the pool is
          cpc,          \* where each caller of start() or release() is
          hand,         \* the runner that call works on
          req,          \* its arguments
          guard,        \* m_runner of the caller's WaitGuard
          dpc,          \* where destroy() is
          next          \* the thread that waitThreads() waits for, or the runner that
                        \* destroyRunners() has received

runnerVars == <<by, wanted, needsWaiting, ev, priority>>
callVars   == <<cpc, hand, req, guard>>
vars == <<free, by, wanted, needsWaiting, ev, priority, active, wpc,
          cpc, hand, req, guard, dpc, next>>

NoCall == [waiter |-> FALSE, prio |-> Default, tmout |-> "FOREVER"]

\* constructMembers(): every runner is queued in the order of its creation.
Init ==
    /\ free = [i \in 1..N |-> i]
    /\ by = [r \in Runners |-> None]
    /\ wanted = [r \in Runners |-> Default]
    /\ needsWaiting = [r \in Runners |-> FALSE]
    /\ ev = [r \in Runners |-> FALSE]
    /\ priority = [r \in Runners |-> Default]
    /\ active = [r \in Runners |-> FALSE]
    /\ wpc = [r \in Runners |-> "wait"]
    /\ cpc = [a \in Actors |-> "idle"]
    /\ hand = [a \in Actors |-> None]
    /\ req = [a \in Actors |-> NoCall]
    /\ guard = [a \in Actors |-> None]
    /\ dpc = "none"
    /\ next = 1

CallGoTo(a, l) == cpc' = [cpc EXCEPT ![a] = l]
ThreadGoTo(r, l) == wpc' = [wpc EXCEPT ![r] = l]

\* The call returns: its local variables and its arguments are gone.
Return(a) ==
    /\ CallGoTo(a, "idle")
    /\ hand' = [hand EXCEPT ![a] = None]
    /\ req' = [req EXCEPT ![a] = NoCall]

\* A client uses the pool until it is destroyed, a task while it runs. This is what the
\* users of the pool do, not a check of the code; likewise that a caller has a single
\* WaitGuard and releases it before it starts another task: ThreadPool.h:68 "the thread
\* that owns this WaitGuard must wait() until the started asynchronous task finished
\* and must release() the WaitGuard".
MayCall(a) ==
    /\ IF a \in Clients THEN dpc = "none" ELSE wpc[a] = "run"
    /\ guard[a] = None
TimeoutsOf(a) == IF a \in Clients THEN Timeouts ELSE NestedTimeouts

-----------------------------------------------------------------------------
(* timedStart().                                                           *)

Call(a) ==
    /\ cpc[a] = "idle"
    /\ MayCall(a)
    /\ \E w \in BOOLEAN, p \in Priorities, to \in TimeoutsOf(a) :
          req' = [req EXCEPT ![a] = [waiter |-> w, prio |-> p, tmout |-> to]]
    /\ CallGoTo(a, "take")
    /\ UNCHANGED <<free, runnerVars, active, wpc, hand, guard, dpc, next>>

TakeRunner(a) ==
    /\ cpc[a] = "take"
    /\ free # <<>>
    /\ hand' = [hand EXCEPT ![a] = Head(free)]
    /\ free' = Tail(free)
    /\ CallGoTo(a, "join")
    /\ UNCHANGED <<runnerVars, active, wpc, req, guard, dpc, next>>

\* timedReceive() fails on an empty queue, and also while another thread is
\* receiving.
TakeTimeout(a) ==
    /\ cpc[a] = "take"
    /\ req[a].tmout = "POLLING"
    /\ free = <<>> \/ \E b \in Actors \ {a} : cpc[b] = "take"
    /\ Return(a)
    /\ UNCHANGED <<free, runnerVars, active, wpc, guard, dpc, next>>

\* timedStart() that starts the thread without waiting for it.
JoinThreadNot(a) ==
    /\ cpc[a] = "join"
    /\ CallGoTo(a, "setup")
    /\ UNCHANGED <<free, runnerVars, active, wpc, hand, req, guard, dpc, next>>

JoinThread(a) ==
    /\ cpc[a] = "join"
    /\ ~active[hand[a]]
    /\ CallGoTo(a, "setup")
    /\ UNCHANGED <<free, runnerVars, active, wpc, hand, req, guard, dpc, next>>

\* The runner is not put back.
JoinTimeout(a) ==
    /\ cpc[a] = "join"
    /\ active[hand[a]]
    /\ req[a].tmout = "POLLING"
    /\ Return(a)
    /\ UNCHANGED <<free, runnerVars, active, wpc, guard, dpc, next>>

\* startThread() that leaves the m_needsWaiting of the task before.
SetUpStale(a) ==
    LET r == hand[a] IN
    /\ cpc[a] = "setup"
    /\ by' = [by EXCEPT ![r] = a]
    /\ wanted' = [wanted EXCEPT ![r] = req[a].prio]
    /\ priority' = [priority EXCEPT ![r] = req[a].prio]
    /\ CallGoTo(a, "start")
    /\ UNCHANGED <<free, needsWaiting, ev, active, wpc, hand, req, guard, dpc, next>>

SetUp(a) ==
    LET r == hand[a] IN
    /\ cpc[a] = "setup"
    /\ by' = [by EXCEPT ![r] = a]
    /\ wanted' = [wanted EXCEPT ![r] = req[a].prio]
    /\ needsWaiting' = [needsWaiting EXCEPT ![r] = req[a].waiter]
    /\ priority' = [priority EXCEPT ![r] = req[a].prio]
    /\ CallGoTo(a, "start")
    /\ UNCHANGED <<free, ev, active, wpc, hand, req, guard, dpc, next>>

\* Thread::start() is a no-op on an active thread.
StartThread(a) ==
    /\ cpc[a] = "start"
    /\ active' = [active EXCEPT ![hand[a]] = TRUE]
    /\ CallGoTo(a, "bind")
    /\ UNCHANGED <<free, runnerVars, wpc, hand, req, guard, dpc, next>>

BindGuard(a) ==
    /\ cpc[a] = "bind"
    /\ guard' = [guard EXCEPT ![a] = IF req[a].waiter THEN hand[a] ELSE None]
    /\ Return(a)
    /\ UNCHANGED <<free, runnerVars, active, wpc, dpc, next>>

-----------------------------------------------------------------------------
(* WaitGuard::release(), which the destructor of a WaitGuard calls too.    *)

Release(a) ==
    /\ cpc[a] = "idle"
    /\ guard[a] # None
    /\ CallGoTo(a, "rel_wait")
    /\ UNCHANGED <<free, runnerVars, active, wpc, hand, req, guard, dpc, next>>

WaitFinished(a) ==
    /\ cpc[a] = "rel_wait"
    /\ ev[guard[a]]
    /\ CallGoTo(a, "rel_reset")
    /\ UNCHANGED <<free, runnerVars, active, wpc, hand, req, guard, dpc, next>>

\* release() that forgets resetAll().
ResetEventNot(a) ==
    /\ cpc[a] = "rel_reset"
    /\ CallGoTo(a, "rel_send")
    /\ UNCHANGED <<free, runnerVars, active, wpc, hand, req, guard, dpc, next>>

ResetEvent(a) ==
    /\ cpc[a] = "rel_reset"
    /\ ev' = [ev EXCEPT ![guard[a]] = FALSE]
    /\ CallGoTo(a, "rel_send")
    /\ UNCHANGED <<free, by, wanted, needsWaiting, priority, active, wpc,
                   hand, req, guard, dpc, next>>

\* release() that forgets releaseRunner().
GiveBackNot(a) ==
    /\ cpc[a] = "rel_send"
    /\ guard' = [guard EXCEPT ![a] = None]
    /\ CallGoTo(a, "idle")
    /\ UNCHANGED <<free, runnerVars, active, wpc, hand, req, dpc, next>>

\* A guard that is cleared before release() reads it.
GiveBackCleared(a) ==
    /\ cpc[a] = "rel_send"
    /\ free' = Append(free, None)
    /\ guard' = [guard EXCEPT ![a] = None]
    /\ CallGoTo(a, "idle")
    /\ UNCHANGED <<runnerVars, active, wpc, hand, req, dpc, next>>

GiveBack(a) ==
    /\ cpc[a] = "rel_send"
    /\ free' = Append(free, guard[a])
    /\ guard' = [guard EXCEPT ![a] = None]
    /\ CallGoTo(a, "idle")
    /\ UNCHANGED <<runnerVars, active, wpc, hand, req, dpc, next>>

-----------------------------------------------------------------------------
(* The threads of the pool: TaskRunner::run() between the waits of the     *)
(* thread for its next start.                                              *)

BeginTask(r) ==
    /\ wpc[r] = "wait"
    /\ active[r]
    /\ ThreadGoTo(r, "run")
    /\ UNCHANGED <<free, runnerVars, active, callVars, dpc, next>>

\* The task returns, or throws what run() catches and throws again after
\* afterInvoke(); its WaitGuard, if it had one, is destructed.
EndTask(r) ==
    /\ wpc[r] = "run"
    /\ cpc[r] = "idle"
    /\ guard[r] = None
    /\ ThreadGoTo(r, "after")
    /\ UNCHANGED <<free, runnerVars, active, callVars, dpc, next>>

\* afterInvoke() without setPriority().
AfterInvokeKeepsPriority(r) ==
    /\ wpc[r] = "after"
    /\ ThreadGoTo(r, IF needsWaiting[r] THEN "notify" ELSE "reset")
    /\ UNCHANGED <<free, runnerVars, active, callVars, dpc, next>>

AfterInvoke(r) ==
    /\ wpc[r] = "after"
    /\ priority' = [priority EXCEPT ![r] = Default]
    /\ ThreadGoTo(r, IF needsWaiting[r] THEN "notify" ELSE "reset")
    /\ UNCHANGED <<free, by, wanted, needsWaiting, ev, active, callVars, dpc, next>>

NotifyFinished(r) ==
    /\ wpc[r] = "notify"
    /\ ev' = [ev EXCEPT ![r] = TRUE]
    /\ ThreadGoTo(r, "finish")
    /\ UNCHANGED <<free, by, wanted, needsWaiting, priority, active, callVars, dpc, next>>

ResetOwn(r) ==
    /\ wpc[r] = "reset"
    /\ ev' = [ev EXCEPT ![r] = FALSE]
    /\ ThreadGoTo(r, "send")
    /\ UNCHANGED <<free, by, wanted, needsWaiting, priority, active, callVars, dpc, next>>

ReleaseOwn(r) ==
    /\ wpc[r] = "send"
    /\ free' = Append(free, r)
    /\ ThreadGoTo(r, "finish")
    /\ UNCHANGED <<runnerVars, active, callVars, dpc, next>>

\* A thread that never becomes inactive again.
FinishNot(r) ==
    /\ wpc[r] = "finish"
    /\ ThreadGoTo(r, "wait")
    /\ UNCHANGED <<free, runnerVars, active, callVars, dpc, next>>

Finish(r) ==
    /\ wpc[r] = "finish"
    /\ active' = [active EXCEPT ![r] = FALSE]
    /\ ThreadGoTo(r, "wait")
    /\ UNCHANGED <<free, runnerVars, callVars, dpc, next>>

-----------------------------------------------------------------------------
(* destroy(), called once no client uses the pool any more.                *)

Destroy ==
    /\ dpc = "none"
    /\ \A a \in Clients : cpc[a] = "idle" /\ guard[a] = None
    /\ dpc' = "wait"
    /\ UNCHANGED <<free, runnerVars, active, wpc, callVars, next>>

\* waitThreads() with a loop one thread short.
WaitThreadsShort ==
    /\ dpc = "wait"
    /\ IF next < N
       THEN ~active[next] /\ next' = next + 1 /\ UNCHANGED dpc
       ELSE dpc' = "drain" /\ UNCHANGED next
    /\ UNCHANGED <<free, runnerVars, active, wpc, callVars>>

WaitThreads ==
    /\ dpc = "wait"
    /\ IF next <= N
       THEN ~active[next] /\ next' = next + 1 /\ UNCHANGED dpc
       ELSE dpc' = "drain" /\ UNCHANGED next
    /\ UNCHANGED <<free, runnerVars, active, wpc, callVars>>

\* destroyRunners(): a runner is received, and its event flag destroyed.
DestroyTake ==
    /\ dpc = "drain"
    /\ free # <<>>
    /\ next' = Head(free)
    /\ free' = Tail(free)
    /\ dpc' = "taken"
    /\ UNCHANGED <<runnerVars, active, wpc, callVars>>

\* Thread::destroy() waits for its thread and ends it.
DestroyRunner ==
    /\ dpc = "taken"
    /\ ~active[next]
    /\ ThreadGoTo(next, "ended")
    /\ dpc' = "drain"
    /\ UNCHANGED <<free, runnerVars, active, callVars, next>>

\* tryReceive() fails: the pools and the queue are destroyed.  Of a thread
\* that has not ended by then nothing is said any more: its runner is freed.
DestroyMembers ==
    /\ dpc = "drain"
    /\ free = <<>> \/ \E a \in Actors : cpc[a] = "take"
    /\ dpc' = "done"
    /\ wpc' = [r \in Runners |-> IF wpc[r] = "ended" THEN "ended" ELSE "freed"]
    /\ cpc' = [a \in Actors |-> "idle"]
    /\ hand' = [a \in Actors |-> None]
    /\ req' = [a \in Actors |-> NoCall]
    /\ guard' = [a \in Actors |-> None]
    /\ UNCHANGED <<free, runnerVars, active, next>>

-----------------------------------------------------------------------------

CallStep(a) ==
    \/ TakeRunner(a) \/ TakeTimeout(a) \/ JoinThread(a) \/ JoinTimeout(a)
    \/ SetUp(a) \/ StartThread(a) \/ BindGuard(a)
    \/ WaitFinished(a) \/ ResetEvent(a) \/ GiveBack(a)

ThreadStep(r) ==
    \/ BeginTask(r) \/ EndTask(r) \/ AfterInvoke(r) \/ NotifyFinished(r)
    \/ ResetOwn(r) \/ ReleaseOwn(r) \/ Finish(r)

DestroyStep == WaitThreads \/ DestroyTake \/ DestroyRunner \/ DestroyMembers

Next ==
    \/ \E a \in Actors : Call(a) \/ Release(a) \/ CallStep(a)
    \/ \E r \in Runners : ThreadStep(r)
    \/ Destroy
    \/ DestroyStep

Spec == Init /\ [][Next]_vars

(* Every thread that can run does, every task returns, and the owner of a  *)
(* WaitGuard releases it, as it must.  Whether tasks are started and the   *)
(* pool is destroyed is left open.                                         *)
FairSpec ==
    /\ Spec
    /\ \A a \in Actors : WF_vars(CallStep(a) \/ Release(a))
    /\ \A r \in Runners : WF_vars(ThreadStep(r))
    /\ WF_vars(DestroyStep)

-----------------------------------------------------------------------------
(* Properties.                                                             *)

\* Type invariant.
TypeOK ==
    /\ free \in Seq(Runners)
    /\ by \in [Runners -> Actors \cup {None}]
    /\ wanted \in [Runners -> Priorities]
    /\ needsWaiting \in [Runners -> BOOLEAN]
    /\ ev \in [Runners -> BOOLEAN]
    /\ priority \in [Runners -> Priorities]
    /\ active \in [Runners -> BOOLEAN]
    /\ wpc \in [Runners -> {"wait", "run", "after", "notify", "reset", "send",
                            "finish", "ended", "freed"}]
    /\ cpc \in [Actors -> {"idle", "take", "join", "setup", "start", "bind",
                           "rel_wait", "rel_reset", "rel_send"}]
    /\ hand \in [Actors -> Runners \cup {None}]
    /\ \A a \in Actors : hand[a] \in Runners <=> cpc[a] \in {"join", "setup", "start", "bind"}
    /\ req \in [Actors -> [waiter : BOOLEAN, prio : Priorities,
                           tmout : {"POLLING", "FOREVER"}]]
    /\ guard \in [Actors -> Runners \cup {None}]
    /\ dpc \in {"none", "wait", "drain", "taken", "done"}
    /\ next \in 1..N + 1

\* The thread has a task it was started with and has not finished.
Busy(r) == (active[r] /\ wpc[r] = "wait") \/ wpc[r] \in {"run", "after", "notify", "reset", "send"}

\* Who is responsible for runner r: the queue, or who is to put it back there - a call
\* that works on it, a WaitGuard, its own thread - or destroy().
Places(r) ==
    {<<"queue", i>> : i \in {i \in 1..Len(free) : free[i] = r}}
    \cup {<<"call", a>> : a \in {a \in Actors :
             hand[a] = r /\ (cpc[a] = "bind" => req[a].waiter)}}
    \cup {<<"guard", a>> : a \in {a \in Actors : guard[a] = r}}
    \cup {<<"thread", b>> : b \in {b \in {r} : Busy(r) /\ ~needsWaiting[r]}}
    \cup {<<"destroy", b>> : b \in {b \in {r} : dpc = "taken" /\ next = r}}

\* No runner is in two places: it is never queued twice, never given to two
\* callers, never put back while a WaitGuard or a call still uses it.
OneOwner == \A r \in Runners : \A p, q \in Places(r) : p = q

\* No runner is lost: until destroy() ends its thread it will be put back,
\* so that the pool keeps all of its threads (ThreadPool.h:19 "used threads
\* are reused later instead of destroyed").
NoRunnerLost == \A r \in Runners : Places(r) # {} \/ wpc[r] = "ended"

\* A task is never handed to a thread that is still active: Thread::start()
\* would ignore it, while start() returns OK.
StartNotSwallowed ==
    \A a \in Actors : cpc[a] \in {"setup", "start"} => ~active[hand[a]] /\ wpc[hand[a]] = "wait"

\* The event that a WaitGuard waits for is set only by the task that was
\* started with it, after that task has returned, and not by the user
\* of the runner before.
WaitGuardSound ==
    \A a \in Actors :
        guard[a] # None =>
            /\ by[guard[a]] = a
            /\ ev[guard[a]] => ~Busy(guard[a])

\* While a task runs its thread has the priority that start() asked for;
\* a runner in the queue has the default priority, its event reset and its
\* thread on the way out of the last task.
PriorityKept ==
    /\ \A r \in Runners : wpc[r] = "run" => priority[r] = wanted[r]
    /\ \A i \in 1..Len(free) :
          /\ priority[free[i]] = Default
          /\ ~ev[free[i]]
          /\ ~Busy(free[i])

(* What makes the safety properties inductive.                             *)

\* Actor a works with runner r, in a call or by its WaitGuard.
Uses(a, r) == guard[a] = r \/ (hand[a] = r /\ (cpc[a] = "bind" => req[a].waiter))

\* A queued runner is queued once, nobody uses it, and it is as it was created.
QueueInv ==
    /\ \A i, j \in 1..Len(free) : free[i] = free[j] => i = j
    /\ \A i \in 1..Len(free) :
          /\ \A a \in Actors : ~Uses(a, free[i])
          /\ ~Busy(free[i])
          /\ ~ev[free[i]]
          /\ priority[free[i]] = Default
          /\ wpc[free[i]] # "ended"

\* What a thread's location says of its runner.
ThreadInv ==
    \A r \in Runners :
        /\ wpc[r] \in {"run", "after", "notify", "reset", "send", "finish"} => active[r]
        /\ wpc[r] = "notify" => needsWaiting[r]
        /\ wpc[r] \in {"reset", "send"} => ~needsWaiting[r]
        /\ (Busy(r) /\ ~needsWaiting[r]) => (~ev[r] /\ \A a \in Actors : ~Uses(a, r))
        /\ (Busy(r) /\ wpc[r] \in {"wait", "run"}) => priority[r] = wanted[r]
        /\ wpc[r] \in {"notify", "reset", "send"} => priority[r] = Default

\* A runner has one user at most, and that user's location says how far the
\* task is that was started with it.
UserInv ==
    /\ \A a, b \in Actors, r \in Runners : (Uses(a, r) /\ Uses(b, r)) => a = b
    /\ \A a \in Actors, r \in Runners : Uses(a, r) => wpc[r] # "ended"
    /\ \A a \in Actors :
          /\ guard[a] # None => cpc[a] \in {"idle", "rel_wait", "rel_reset", "rel_send"}
          /\ cpc[a] \in {"rel_wait", "rel_reset", "rel_send"} => guard[a] # None
          /\ (a \in Runners /\ (cpc[a] # "idle" \/ guard[a] # None)) => wpc[a] = "run"
          /\ cpc[a] \in {"join", "setup", "start"} => (~Busy(hand[a]) /\ ~ev[hand[a]])
          /\ cpc[a] = "start" =>
                /\ needsWaiting[hand[a]] = req[a].waiter
                /\ by[hand[a]] = a
                /\ priority[hand[a]] = wanted[hand[a]]

\* The same for a runner that is waited for.
WaitInv ==
    \A a \in Actors, r \in Runners :
        (guard[a] = r \/ (hand[a] = r /\ cpc[a] = "bind" /\ req[a].waiter)) =>
            /\ needsWaiting[r]
            /\ by[r] = a
            /\ ev[r] => ~Busy(r)
            /\ ~Busy(r) => priority[r] = Default
            /\ (cpc[a] \in {"rel_reset", "rel_send"}) => ~Busy(r)
            /\ cpc[a] = "rel_send" => ~ev[r]

\* Nobody works with the runner that destroy() has received.
TakenInv ==
    dpc = "taken" =>
        /\ next \in Runners
        /\ ~Busy(next)
        /\ \A a \in Actors : ~Uses(a, next)
        /\ \A i \in 1..Len(free) : free[i] # next

\* Nothing moves once the pool is destroyed.
DoneInv ==
    /\ \A r \in Runners : wpc[r] = "freed" => dpc = "done"
    /\ dpc = "done" =>
          /\ \A r \in Runners : wpc[r] \in {"ended", "freed"}
          /\ \A a \in Actors : cpc[a] = "idle" /\ guard[a] = None

IInv ==
    /\ TypeOK
    /\ StartNotSwallowed
    /\ QueueInv
    /\ ThreadInv
    /\ UserInv
    /\ WaitInv
    /\ TakenInv
    /\ DoneInv

\* Where callers only ever block, no call gives up a runner it has taken.
Blocking == \A a \in Actors : req[a].tmout = "FOREVER"
Kept(r) ==
    \/ wpc[r] = "ended"
    \/ \E i \in 1..Len(free) : free[i] = r
    \/ \E a \in Actors : Uses(a, r)
    \/ Busy(r) /\ ~needsWaiting[r]
    \/ dpc = "taken" /\ next = r
KeptInv == Blocking /\ (dpc # "done" => \A r \in Runners : Kept(r))

\* Where tasks do not use the pool either, nothing becomes active behind destroy().
QuietInv ==
    /\ \A a \in Actors : a \in Runners \/ dpc # "none" => cpc[a] = "idle" /\ guard[a] = None
    /\ dpc = "none" => next = 1
    /\ dpc = "wait" => \A r \in Runners : r < next => ~active[r]
    /\ dpc \in {"drain", "taken", "done"} => \A r \in Runners : ~active[r]

\* ThreadPool.h:157 "This method waits for all of the asynchronous tasks
\* finished and destroys all of the threads."
DestroyComplete == dpc = "done" => \A r \in Runners : wpc[r] = "ended"

\* destroy() returns.
DestroyReturns == (dpc = "wait") ~> (dpc = "done")

\* A WaitGuard that is waited for is released.
GuardReleased == \A a \in Actors : (guard[a] # None) ~> (guard[a] = None)

=============================================================================
