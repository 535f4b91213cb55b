----------------------------- MODULE WindowsTimer -----------------------------
(***************************************************************************)
(* One WindowsOneShotTimer or WindowsPeriodicTimer.  The system calls its  *)
(* callback from a thread of its own, one call after the other; a one-shot *)
(* event whose callback has begun can not be killed any more.              *)
(***************************************************************************)

VARIABLES
    timerClass,     \* "OneShot" or "Periodic"
    m_started,
    timeEvent,      \* the event of timeSetEvent() is to come
    callback,       \* "none", "entered", in timerMain() "main", past it "over"; with
                    \* m_mutex locked "finish"; after setAll() "leave"
    m_evFinished,
    destructor      \* "none", in "waitAny", or "deleted"

timerVars == <<timerClass, m_started, timeEvent, callback, m_evFinished, destructor>>

\* Past this point the memory is not the timer's any more. A callback that goes on
\* regardless takes it for the timer's: one of the outcomes it may have.
Deleted == destructor = "deleted"
MutexFree == timerClass = "OneShot" => callback \notin {"finish", "leave"}

timer_enter ==
    /\ timeEvent /\ callback = "none"
    /\ timeEvent' = (timerClass = "Periodic")
    /\ callback' = "entered"
    /\ UNCHANGED <<timerClass, m_started, m_evFinished, destructor>>

\* A plausible mistake: the flag is left as it is.
timerFunc_no_reset ==
    /\ callback = "entered"
    /\ callback' = "main"
    /\ UNCHANGED <<timerClass, m_started, timeEvent, m_evFinished, destructor>>

timerFunc_reset ==
    /\ callback = "entered"
    /\ callback' = "main" /\ m_evFinished' = FALSE
    /\ UNCHANGED <<timerClass, m_started, timeEvent, destructor>>

timerFunc_main ==
    /\ callback = "main" /\ callback' = "over"
    /\ UNCHANGED <<timerClass, m_started, timeEvent, m_evFinished, destructor>>

timerFunc_finish ==
    /\ callback = "over" /\ callback' = "finish"
    /\ m_started' = (m_started /\ timerClass = "Periodic")
    /\ UNCHANGED <<timerClass, timeEvent, m_evFinished, destructor>>

timerFunc_set ==
    /\ callback = "finish" /\ callback' = "leave"
    /\ m_evFinished' = TRUE
    /\ UNCHANGED <<timerClass, m_started, timeEvent, destructor>>

timerFunc_leave ==
    /\ callback = "leave" /\ callback' = "none"
    /\ UNCHANGED <<timerClass, m_started, timeEvent, m_evFinished, destructor>>

\* timeSetEvent() may fail.
timer_start ==
    /\ destructor = "none" /\ MutexFree
    /\ ~m_started
    /\ m_started' = TRUE /\ timeEvent' = TRUE
    /\ UNCHANGED <<timerClass, callback, m_evFinished, destructor>>

\* timeKillEvent() fails when there is nothing to kill.
Stops ==
    IF m_started /\ timeEvent THEN m_started' = FALSE /\ timeEvent' = FALSE
    ELSE UNCHANGED <<m_started, timeEvent>>

timer_stop ==
    /\ destructor = "none" /\ MutexFree
    /\ Stops
    /\ UNCHANGED <<timerClass, callback, m_evFinished, destructor>>

\* The Runnable does not destroy its own timer.
timer_destroy ==
    /\ destructor = "none" /\ MutexFree /\ Stops /\ destructor' = "waitAny"
    /\ UNCHANGED <<timerClass, callback, m_evFinished>>

timer_delete ==
    /\ destructor = "waitAny" /\ m_evFinished
    /\ destructor' = "deleted"
    /\ UNCHANGED <<timerClass, m_started, timeEvent, callback, m_evFinished>>

TimerInit ==
    /\ timerClass \in {"OneShot", "Periodic"}
    /\ m_started = FALSE /\ timeEvent = FALSE
    /\ callback = "none" /\ m_evFinished = TRUE /\ destructor = "none"

TimerNext ==
    \/ timer_enter \/ timerFunc_reset \/ timerFunc_main \/ timerFunc_finish
    \/ timerFunc_set \/ timerFunc_leave
    \/ timer_start \/ timer_stop \/ timer_destroy \/ timer_delete

TimerSpec == TimerInit /\ [][TimerNext]_timerVars

-----------------------------------------------------------------------------
(* Properties.                                                             *)

TimerTypeOK ==
    /\ timerClass \in {"OneShot", "Periodic"}
    /\ m_started \in BOOLEAN /\ timeEvent \in BOOLEAN /\ m_evFinished \in BOOLEAN
    /\ callback \in {"none", "entered", "main", "over", "finish", "leave"}
    /\ destructor \in {"none", "waitAny", "deleted"}

\* platform/test/PlatformOSWrapperTest/PlatformPeriodicTimerTest.cpp:260
\* "PeriodicTimer::destroy(timer);" and, after a sleep, :264
\* "LONGS_EQUAL(0, runnable.getRunCount());": once destroy() has returned the Runnable is
\* not called.
QuietAfterDestroy == Deleted => callback # "main"

\* What the destructor's wait does give: it does not return while the Runnable runs or
\* the callback still needs the timer's flags, and after it no callback enters, though
\* stop() does not say whether it killed the event. So the Runnable is called late at
\* most once, by a callback that had entered but not reset m_evFinished yet.
AtMostOneLateCall ==
    [][/\ ~Deleted /\ Deleted' => callback \notin {"main", "over", "finish"}
       /\ Deleted' => ~timeEvent' /\ (callback' = "entered" => callback = "entered")
      ]_timerVars

\* The conjuncts that make it inductive: an event that is to come can be killed, the
\* event of a one-shot timer has come when its callback runs, which counts as started
\* up to its end, and m_evFinished tells a destructor of every callback that has reset it.
EventKillable ==
    /\ timeEvent => m_started
    /\ timerClass = "OneShot" /\ callback # "none" =>
        ~timeEvent /\ (callback \in {"entered", "main", "over"} => m_started)
    /\ destructor # "none" => ~timeEvent
CallbackSeen == callback \in {"main", "over", "finish"} => ~m_evFinished
TimerIInv == TimerTypeOK /\ EventKillable /\ CallbackSeen
=============================================================================
