---------------------------- MODULE OneShotTimer ----------------------------
(***************************************************************************)
(* StdCppOneShotTimer (StdCppOneShotTimerFactory.cpp): callers of start()  *)
(* and stop() meet the timer's own thread through m_mutex and three        *)
(* condition variables.  A step is one critical section of m_mutex, from   *)
(* the locking, or the waking of a wait, to the unlocking or the next      *)
(* wait; or the call of the Runnable, which runs without m_mutex and may   *)
(* itself stop or start the timer (OneShotTimer.cpp stops it when the      *)
(* Runnable throws).                                                       *)
(*                                                                         *)
(* A thread that waits for a condition variable is at a location that ends *)
(* in "_wait", and one that was notified at one that ends in "_woken".     *)
(* Spurious wakeups are left out: all they do is to test a condition again.*)
(***************************************************************************)
CONSTANTS Clients,        \* the threads that use the timer
          Timer,          \* the timer's own thread
          Times,          \* the arguments of start()
          NoTime,         \* no time
          CallbackCalls   \* what the Runnable calls: "start", "stop"

ASSUME OSAssumption ==
    /\ Timer \notin Clients
    /\ NoTime \notin Times
    /\ CallbackCalls \subseteq {"start", "stop"}

Actors == Clients \cup {Timer}

VARIABLES timeInMillis,        \* m_timeInMillis
          isActive,            \* m_isActive
          started,             \* m_started
          stopped,             \* m_stopped
          endThreadRequested,  \* m_endThreadRequested
          deadline,            \* what wait_for() was given
          tpc,                 \* where the timer's thread is
          cpc,                 \* where each caller of start() or stop() is
          arg                  \* the argument of start()

flags == <<isActive, started, stopped>>
vars == <<timeInMillis, isActive, started, stopped, endThreadRequested,
          deadline, tpc, cpc, arg>>

Init ==
    /\ timeInMillis = NoTime
    /\ isActive = FALSE
    /\ started = FALSE
    /\ stopped = TRUE
    /\ endThreadRequested = FALSE
    /\ deadline = NoTime
    /\ tpc = "top"
    /\ cpc = [a \in Actors |-> "idle"]
    /\ arg = [a \in Actors |-> NoTime]

CallGoTo(a, l) == cpc' = [cpc EXCEPT ![a] = l]

\* notify_all() on m_condActive, m_condStarted and m_condStopped.
NotifyActive ==
    tpc' = IF tpc = "top_wait" THEN "top_woken"
           ELSE IF tpc = "armed_wait" THEN "armed_woken" ELSE tpc
NotifyStarted ==
    cpc' = [a \in Actors |-> IF cpc[a] = "stop_wait" THEN "stop_woken" ELSE cpc[a]]
NotifyStopped ==
    cpc' = [a \in Actors |-> IF cpc[a] = "start_wait" THEN "start_woken" ELSE cpc[a]]

-----------------------------------------------------------------------------
(* start() and stop().                                                     *)

\* The Runnable calls while it runs; no client calls once destroy() began.
MayCall(a, f) ==
    /\ cpc[a] = "idle"
    /\ IF a = Timer THEN tpc = "fire" /\ f \in CallbackCalls
       ELSE ~endThreadRequested

CallStart(a, t) ==
    /\ MayCall(a, "start")
    /\ CallGoTo(a, "start")
    /\ arg' = [arg EXCEPT ![a] = t]
    /\ UNCHANGED <<timeInMillis, flags, endThreadRequested, deadline, tpc>>

CallStop(a) ==
    /\ MayCall(a, "stop")
    /\ CallGoTo(a, "stop")
    /\ UNCHANGED <<timeInMillis, flags, endThreadRequested, deadline, tpc, arg>>

StartIgnored(a) ==
    /\ cpc[a] = "start"
    /\ isActive
    /\ CallGoTo(a, "idle")
    /\ arg' = [arg EXCEPT ![a] = NoTime]
    /\ UNCHANGED <<timeInMillis, flags, endThreadRequested, deadline, tpc>>

\* start() and a woken start() test m_stopped; only the former m_isActive.
AtStart(a) == cpc[a] = "start_woken" \/ (cpc[a] = "start" /\ ~isActive)

StartWait(a) ==
    /\ AtStart(a)
    /\ ~stopped
    /\ CallGoTo(a, "start_wait")
    /\ UNCHANGED <<timeInMillis, flags, endThreadRequested, deadline, tpc, arg>>

\* start() that does not wait for the thread to notice the last stop().
StartAtOnce(a) ==
    /\ AtStart(a)
    /\ timeInMillis' = arg[a]
    /\ stopped' = FALSE
    /\ isActive' = TRUE
    /\ NotifyActive
    /\ CallGoTo(a, "idle")
    /\ arg' = [arg EXCEPT ![a] = NoTime]
    /\ UNCHANGED <<started, endThreadRequested, deadline>>

\* start() that notifies no one.
StartSilent(a) ==
    /\ AtStart(a)
    /\ stopped
    /\ timeInMillis' = arg[a]
    /\ stopped' = FALSE
    /\ isActive' = TRUE
    /\ CallGoTo(a, "idle")
    /\ arg' = [arg EXCEPT ![a] = NoTime]
    /\ UNCHANGED <<started, endThreadRequested, deadline, tpc>>

Start(a) ==
    /\ AtStart(a)
    /\ stopped
    /\ timeInMillis' = arg[a]
    /\ stopped' = FALSE
    /\ isActive' = TRUE
    /\ NotifyActive
    /\ CallGoTo(a, "idle")
    /\ arg' = [arg EXCEPT ![a] = NoTime]
    /\ UNCHANGED <<started, endThreadRequested, deadline>>

StopIgnored(a) ==
    /\ cpc[a] = "stop"
    /\ ~isActive
    /\ CallGoTo(a, "idle")
    /\ UNCHANGED <<timeInMillis, flags, endThreadRequested, deadline, tpc, arg>>

AtStop(a) == cpc[a] = "stop_woken" \/ (cpc[a] = "stop" /\ isActive)

StopWait(a) ==
    /\ AtStop(a)
    /\ ~started
    /\ CallGoTo(a, "stop_wait")
    /\ UNCHANGED <<timeInMillis, flags, endThreadRequested, deadline, tpc, arg>>

Stop(a) ==
    /\ AtStop(a)
    /\ started
    /\ started' = FALSE
    /\ isActive' = FALSE
    /\ NotifyActive
    /\ CallGoTo(a, "idle")
    /\ UNCHANGED <<timeInMillis, stopped, endThreadRequested, deadline, arg>>

-----------------------------------------------------------------------------
(* threadLoop().                                                           *)

AtTop == tpc \in {"top", "top_woken"}

AwaitStart ==
    /\ AtTop
    /\ ~isActive /\ ~endThreadRequested
    /\ tpc' = "top_wait"
    /\ UNCHANGED <<timeInMillis, flags, endThreadRequested, deadline, cpc, arg>>

\* m_condActive.wait() without its predicate: any wakeup will do.
BeginWaitAnyhow ==
    /\ AtTop
    /\ started' = TRUE
    /\ NotifyStarted
    /\ IF endThreadRequested
       THEN tpc' = "ended" /\ UNCHANGED deadline
       ELSE tpc' = "armed_wait" /\ deadline' = timeInMillis
    /\ UNCHANGED <<timeInMillis, isActive, stopped, endThreadRequested, arg>>

\* The thread goes on to wait_for() in the same critical section.
BeginWait ==
    /\ AtTop
    /\ isActive \/ endThreadRequested
    /\ started' = TRUE
    /\ NotifyStarted
    /\ IF endThreadRequested
       THEN tpc' = "ended" /\ UNCHANGED deadline
       ELSE tpc' = "armed_wait" /\ deadline' = timeInMillis
    /\ UNCHANGED <<timeInMillis, isActive, stopped, endThreadRequested, arg>>

\* A notification reaches the waiting thread only from stop() or destroy(),
\* and no start() gets in between, so that the predicate is true by now.
WaitStopped ==
    /\ tpc = "armed_woken"
    /\ ~isActive \/ endThreadRequested
    /\ stopped' = TRUE
    /\ NotifyStopped
    /\ deadline' = NoTime
    /\ tpc' = IF endThreadRequested THEN "ended" ELSE "top"
    /\ UNCHANGED <<timeInMillis, isActive, started, endThreadRequested, arg>>

\* The time has elapsed and the timer is still started.
Elapse ==
    /\ tpc \in {"armed_wait", "armed_woken"}
    /\ isActive /\ ~endThreadRequested
    /\ tpc' = "fire"
    /\ UNCHANGED <<timeInMillis, flags, endThreadRequested, deadline, cpc, arg>>

\* timerMain() returns; it has caught what the Runnable threw.
TimerMain ==
    /\ tpc = "fire"
    /\ cpc[Timer] = "idle"
    /\ tpc' = "after"
    /\ UNCHANGED <<timeInMillis, flags, endThreadRequested, deadline, cpc, arg>>

\* The end of the loop without m_isActive = false.
AfterFireStaysActive ==
    /\ tpc = "after"
    /\ started' = FALSE
    /\ stopped' = TRUE
    /\ deadline' = NoTime
    /\ tpc' = "top"
    /\ UNCHANGED <<timeInMillis, isActive, endThreadRequested, cpc, arg>>

AfterFire ==
    /\ tpc = "after"
    /\ started' = FALSE
    /\ stopped' = TRUE
    /\ isActive' = FALSE
    /\ deadline' = NoTime
    /\ tpc' = "top"
    /\ UNCHANGED <<timeInMillis, endThreadRequested, cpc, arg>>

\* endThread() that waits for the thread without a word to it.
DestroySilent ==
    /\ ~endThreadRequested
    /\ \A c \in Clients : cpc[c] = "idle"
    /\ endThreadRequested' = TRUE
    /\ UNCHANGED <<timeInMillis, flags, deadline, tpc, cpc, arg>>

\* destroy() calls endThread(), which then waits for the thread to end.
Destroy ==
    /\ ~endThreadRequested
    /\ \A c \in Clients : cpc[c] = "idle"
    /\ endThreadRequested' = TRUE
    /\ NotifyActive
    /\ UNCHANGED <<timeInMillis, flags, deadline, cpc, arg>>

-----------------------------------------------------------------------------

CallStep(a) ==
    \/ StartIgnored(a) \/ StartWait(a) \/ Start(a)
    \/ StopIgnored(a) \/ StopWait(a) \/ Stop(a)

ThreadStep ==
    \/ AwaitStart \/ BeginWait \/ WaitStopped
    \/ Elapse \/ TimerMain \/ AfterFire

Next ==
    \/ \E a \in Actors : (\E t \in Times : CallStart(a, t)) \/ CallStop(a) \/ CallStep(a)
    \/ ThreadStep
    \/ Destroy

Spec == Init /\ [][Next]_vars

(* Threads that can run do: the time elapses, whoever is notified or wants  *)
(* the mutex gets it at last, and the Runnable returns, whatever calls it   *)
(* makes before.  Calls are not forced.                                     *)
FairSpec ==
    /\ Spec
    /\ WF_vars(ThreadStep) /\ SF_vars(TimerMain)
    /\ \A a \in Actors : WF_vars(CallStep(a))

-----------------------------------------------------------------------------
(* Properties.                                                             *)

Armed == tpc \in {"armed_wait", "armed_woken", "fire", "after"}

\* Type invariant: among the rest, the thread waits only for a time that
\* some start() gave.
TypeOK ==
    /\ timeInMillis \in Times \cup {NoTime}
    /\ isActive \in BOOLEAN /\ started \in BOOLEAN /\ stopped \in BOOLEAN
    /\ endThreadRequested \in BOOLEAN
    /\ deadline \in Times \cup {NoTime}
    /\ tpc \in {"top", "top_wait", "top_woken", "armed_wait", "armed_woken",
                "fire", "after", "ended"}
    /\ cpc \in [Actors -> {"idle", "start", "start_wait", "start_woken",
                           "stop", "stop_wait", "stop_woken"}]
    /\ arg \in [Actors -> Times \cup {NoTime}]
    /\ deadline \in Times <=> Armed
    /\ tpc = "ended" => endThreadRequested
    /\ \A a \in Actors : arg[a] \in Times <=> cpc[a] \in {"start", "start_wait", "start_woken"}

\* m_stopped says that the thread has done with the last start, so that
\* start() may change m_timeInMillis: while the thread waits, calls the
\* Runnable or cleans up it is false, and then the time the thread waits
\* for is the one of the last start().
Handshake ==
    /\ Armed => (~stopped /\ deadline = timeInMillis)
    /\ (isActive /\ tpc # "ended") => (~stopped /\ timeInMillis \in Times)

\* What makes the two above inductive: once destroy() has begun only the
\* timer's own thread is in a call, and that only while the Runnable runs.
CallInv ==
    /\ endThreadRequested => \A c \in Clients : cpc[c] = "idle"
    /\ cpc[Timer] # "idle" => tpc = "fire"

IInv == TypeOK /\ Handshake /\ CallInv

Promise == INSTANCE AbstractTimer WITH
    Periodic <- FALSE,
    armed <- IF isActive THEN timeInMillis ELSE NoTime,
    running <- IF tpc \in {"fire", "after"} THEN deadline ELSE NoTime

\* The timer is a one-shot timer: the Runnable is called at most once for
\* each start(), after the time of that start() and not an earlier one, and
\* never when stop() came first.
IsOneShotTimer == Promise!Spec

\* A started timer fires, unless it is stopped or destroyed.
Fires == isActive ~> (tpc = "fire" \/ ~isActive \/ endThreadRequested)

\* destroy() returns, unless the Runnable waits in a start() of its own timer, after a
\* stop() of its own or of a client: start() then waits for the thread that it runs on.
DestroyReturns == endThreadRequested ~> (tpc = "ended" \/ cpc[Timer] = "start_wait")

\* OneShotTimer.h:86 "@note If the timer is stopped, you can start() again.":
\* start() returns to the thread that calls it.
StartReturns ==
    \A c \in Clients :
        (cpc[c] \in {"start", "start_wait", "start_woken"}) ~> (cpc[c] = "idle")

=============================================================================
