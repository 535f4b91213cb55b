--------------------------- MODULE PeriodicTimer ---------------------------
(***************************************************************************)
(* StdCppPeriodicTimer (StdCppPeriodicTimerFactory.cpp).  start(), stop()  *)
(* and the three condition variables are those of OneShotTimer, but the    *)
(* thread goes on to wait for the next period in a loop of its own, and    *)
(* m_started and m_isActive are reset by stop() alone.  The steps and the  *)
(* locations are those of OneShotTimer too; at "loop" the thread is about  *)
(* to lock m_mutex for the next wait_for().                                *)
(***************************************************************************)
CONSTANTS Clients,        \* the threads that use the timer
          Timer,          \* the timer's own thread
          Period,         \* m_periodInMillis
          NoTime,         \* no time
          CallbackCalls   \* what the Runnable calls: "start", "stop"

ASSUME PTAssumption ==
    /\ Timer \notin Clients
    /\ NoTime # Period
    /\ CallbackCalls \subseteq {"start", "stop"}

Actors == Clients \cup {Timer}

VARIABLES isActive,            \* m_isActive
          started,             \* m_started
          stopped,             \* m_stopped
          endThreadRequested,  \* m_endThreadRequested
          tpc,                 \* where the timer's thread is
          cpc                  \* where each caller of start() or stop() is

vars == <<isActive, started, stopped, endThreadRequested, tpc, cpc>>

Init ==
    /\ isActive = FALSE
    /\ started = FALSE
    /\ stopped = TRUE
    /\ endThreadRequested = FALSE
    /\ tpc = "top"
    /\ cpc = [a \in Actors |-> "idle"]

CallGoTo(a, l) == cpc' = [cpc EXCEPT ![a] = l]

\* notify_all() on m_condActive, m_condStarted and m_condStopped.
NotifyActive ==
    tpc' = IF tpc = "top_wait" THEN "top_woken"
           ELSE IF tpc = "loop_wait" THEN "loop_woken" ELSE tpc
NotifyStarted ==
    cpc' = [a \in Actors |-> IF cpc[a] = "stop_wait" THEN "stop_woken" ELSE cpc[a]]
NotifyStopped ==
    cpc' = [a \in Actors |-> IF cpc[a] = "start_wait" THEN "start_woken" ELSE cpc[a]]

-----------------------------------------------------------------------------
(* start() and stop().                                                     *)

\* The Runnable calls while it runs; no client calls once destroy() began.
MayCall(a, f) ==
    /\ cpc[a] = "idle"
    /\ IF a = Timer THEN tpc = "fire" /\ f \in CallbackCalls
       ELSE ~endThreadRequested

Call(a, f) ==
    /\ MayCall(a, f)
    /\ CallGoTo(a, f)
    /\ UNCHANGED <<isActive, started, stopped, endThreadRequested, tpc>>

StartIgnored(a) ==
    /\ cpc[a] = "start"
    /\ isActive
    /\ CallGoTo(a, "idle")
    /\ UNCHANGED <<isActive, started, stopped, endThreadRequested, tpc>>

\* start() and a woken start() test m_stopped; only the former m_isActive.
AtStart(a) == cpc[a] = "start_woken" \/ (cpc[a] = "start" /\ ~isActive)

StartWait(a) ==
    /\ AtStart(a)
    /\ ~stopped
    /\ CallGoTo(a, "start_wait")
    /\ UNCHANGED <<isActive, started, stopped, endThreadRequested, tpc>>

\* start() that does not wait for the thread to notice the last stop().
StartAtOnce(a) ==
    /\ AtStart(a)
    /\ stopped' = FALSE
    /\ isActive' = TRUE
    /\ NotifyActive
    /\ CallGoTo(a, "idle")
    /\ UNCHANGED <<started, endThreadRequested>>

\* start() that notifies no one.
StartSilent(a) ==
    /\ AtStart(a)
    /\ stopped
    /\ stopped' = FALSE
    /\ isActive' = TRUE
    /\ CallGoTo(a, "idle")
    /\ UNCHANGED <<started, endThreadRequested, tpc>>

Start(a) ==
    /\ AtStart(a)
    /\ stopped
    /\ stopped' = FALSE
    /\ isActive' = TRUE
    /\ NotifyActive
    /\ CallGoTo(a, "idle")
    /\ UNCHANGED <<started, endThreadRequested>>

StopIgnored(a) ==
    /\ cpc[a] = "stop"
    /\ ~isActive
    /\ CallGoTo(a, "idle")
    /\ UNCHANGED <<isActive, started, stopped, endThreadRequested, tpc>>

AtStop(a) == cpc[a] = "stop_woken" \/ (cpc[a] = "stop" /\ isActive)

StopWait(a) ==
    /\ AtStop(a)
    /\ ~started
    /\ CallGoTo(a, "stop_wait")
    /\ UNCHANGED <<isActive, started, stopped, endThreadRequested, tpc>>

Stop(a) ==
    /\ AtStop(a)
    /\ started
    /\ started' = FALSE
    /\ isActive' = FALSE
    /\ NotifyActive
    /\ CallGoTo(a, "idle")
    /\ UNCHANGED <<stopped, endThreadRequested>>

-----------------------------------------------------------------------------
(* threadLoop().                                                           *)

AtTop == tpc \in {"top", "top_woken"}
AtLoop == tpc \in {"loop", "loop_woken"}

AwaitStart ==
    /\ AtTop
    /\ ~isActive /\ ~endThreadRequested
    /\ tpc' = "top_wait"
    /\ UNCHANGED <<isActive, started, stopped, endThreadRequested, cpc>>

\* A thread that enters its inner loop without telling stop().
BeginLoopSilent ==
    /\ AtTop
    /\ isActive \/ endThreadRequested
    /\ started' = TRUE
    /\ tpc' = IF endThreadRequested THEN "ended" ELSE "loop"
    /\ UNCHANGED <<isActive, stopped, endThreadRequested, cpc>>

BeginLoop ==
    /\ AtTop
    /\ isActive \/ endThreadRequested
    /\ started' = TRUE
    /\ NotifyStarted
    /\ tpc' = IF endThreadRequested THEN "ended" ELSE "loop"
    /\ UNCHANGED <<isActive, stopped, endThreadRequested>>

\* The first wait_for() of a period, or one that was notified in vain.
WaitPeriod ==
    /\ AtLoop
    /\ isActive /\ ~endThreadRequested
    /\ tpc' = "loop_wait"
    /\ UNCHANGED <<isActive, started, stopped, endThreadRequested, cpc>>

\* The loop is left by "return" also when the timer is merely stopped.
LeaveLoopForGood ==
    /\ AtLoop
    /\ ~isActive \/ endThreadRequested
    /\ stopped' = TRUE
    /\ NotifyStopped
    /\ tpc' = "ended"
    /\ UNCHANGED <<isActive, started, endThreadRequested>>

\* The loop is left without a word to start().
LeaveLoopSilent ==
    /\ AtLoop
    /\ ~isActive \/ endThreadRequested
    /\ stopped' = TRUE
    /\ tpc' = IF endThreadRequested THEN "ended" ELSE "top"
    /\ UNCHANGED <<isActive, started, endThreadRequested, cpc>>

LeaveLoop ==
    /\ AtLoop
    /\ ~isActive \/ endThreadRequested
    /\ stopped' = TRUE
    /\ NotifyStopped
    /\ tpc' = IF endThreadRequested THEN "ended" ELSE "top"
    /\ UNCHANGED <<isActive, started, endThreadRequested>>

\* The period has elapsed and the timer is still started.
Elapse ==
    /\ tpc \in {"loop_wait", "loop_woken"}
    /\ isActive /\ ~endThreadRequested
    /\ tpc' = "fire"
    /\ UNCHANGED <<isActive, started, stopped, endThreadRequested, cpc>>

\* timerMain() returns; it has caught what the Runnable threw.
TimerMain ==
    /\ tpc = "fire"
    /\ cpc[Timer] = "idle"
    /\ tpc' = "loop"
    /\ UNCHANGED <<isActive, started, stopped, endThreadRequested, cpc>>

\* endThread() that waits for the thread without a word to it.
DestroySilent ==
    /\ ~endThreadRequested
    /\ \A c \in Clients : cpc[c] = "idle"
    /\ endThreadRequested' = TRUE
    /\ UNCHANGED <<isActive, started, stopped, tpc, cpc>>

\* destroy() calls endThread(), which then waits for the thread to end.
Destroy ==
    /\ ~endThreadRequested
    /\ \A c \in Clients : cpc[c] = "idle"
    /\ endThreadRequested' = TRUE
    /\ NotifyActive
    /\ UNCHANGED <<isActive, started, stopped, cpc>>

-----------------------------------------------------------------------------

CallStep(a) ==
    \/ StartIgnored(a) \/ StartWait(a) \/ Start(a)
    \/ StopIgnored(a) \/ StopWait(a) \/ Stop(a)

ThreadStep ==
    AwaitStart \/ BeginLoop \/ WaitPeriod \/ LeaveLoop \/ Elapse \/ TimerMain

Next ==
    \/ \E a \in Actors : (\E f \in {"start", "stop"} : Call(a, f)) \/ CallStep(a)
    \/ ThreadStep
    \/ Destroy

Spec == Init /\ [][Next]_vars

(* Threads that can run do: the time elapses, whoever is notified or wants  *)
(* the mutex gets it at last, and the Runnable returns, whatever calls it   *)
(* makes before.  Calls are not forced.                                     *)
FairSpec ==
    /\ Spec
    /\ WF_vars(ThreadStep) /\ SF_vars(TimerMain)
    /\ \A a \in Actors : WF_vars(CallStep(a))

-----------------------------------------------------------------------------
(* Properties.                                                             *)

\* Type invariant; the thread ends only when it is told to.
TypeOK ==
    /\ isActive \in BOOLEAN /\ started \in BOOLEAN /\ stopped \in BOOLEAN
    /\ endThreadRequested \in BOOLEAN
    /\ tpc \in {"top", "top_wait", "top_woken", "loop", "loop_wait",
                "loop_woken", "fire", "ended"}
    /\ cpc \in [Actors -> {"idle", "start", "start_wait", "start_woken",
                           "stop", "stop_wait", "stop_woken"}]
    /\ tpc = "ended" => endThreadRequested

\* The flags and the place of the thread agree: an active timer is not
\* stopped; while the thread is in its inner loop it has not acknowledged a
\* stop(), and m_started has been reset just when stop() was called.
Handshake ==
    /\ (isActive /\ tpc # "ended") => ~stopped
    /\ (AtLoop \/ tpc \in {"loop_wait", "fire"}) =>
          (~stopped /\ (started <=> isActive))

\* What makes the two above inductive: once destroy() has begun only the
\* timer's own thread is in a call, and that only while the Runnable runs.
CallInv ==
    /\ endThreadRequested => \A c \in Clients : cpc[c] = "idle"
    /\ cpc[Timer] # "idle" => tpc = "fire"

IInv == TypeOK /\ Handshake /\ CallInv

Promise == INSTANCE AbstractTimer WITH
    Times <- {Period},
    Periodic <- TRUE,
    armed <- IF isActive THEN Period ELSE NoTime,
    running <- IF tpc = "fire" THEN Period ELSE NoTime

\* The timer is a periodic timer: the Runnable is called only while the timer
\* is started, and a timer that was stopped is not started again before a
\* call in progress is over.
IsPeriodicTimer == Promise!Spec

\* A started timer fires again and again, unless it is stopped or destroyed.
KeepsFiring ==
    (isActive /\ tpc # "fire") ~> (tpc = "fire" \/ ~isActive \/ endThreadRequested)

\* start() that waits for the last stop() to be noticed is woken, unless
\* another start() takes its place or the Runnable blocks in a start().
StartWakes ==
    \A c \in Clients :
        (cpc[c] = "start_wait" /\ ~isActive) ~>
            (cpc[c] # "start_wait" \/ isActive \/ cpc[Timer] # "idle")

\* stop() of a timer that is started is woken, unless another stop() takes
\* its place.
StopWakes ==
    \A c \in Clients :
        (cpc[c] = "stop_wait" /\ isActive) ~> (cpc[c] # "stop_wait" \/ ~isActive)

\* destroy() returns.
DestroyReturns == endThreadRequested ~> (tpc = "ended")

=============================================================================
