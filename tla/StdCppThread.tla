---------------------------- MODULE StdCppThread ----------------------------
(***************************************************************************)
(* One StdCppThread: its loop, and the threads that start it, wait for it  *)
(* and at last destroy it. A step is one critical section of m_mutex.      *)
(***************************************************************************)
EXTENDS OSWrapper

VARIABLES
    m_isActive,
    m_endThreadRequested,
    loop,       \* where its thread is: "asleep" in m_condStarted.wait(), "look" at the
                \* predicate, "run", "ran" (run() has returned or thrown), "over"
    caller      \* where each caller is: "none", or after a wait "OK" or "TimedOut";
                \* in timedWait() "asleep" or "look", without a limit or with one
                \* ("timed_asleep", "timed_look"); in endThread() "end_asleep",
                \* "end_look", "end_set", "end_join", "ended"

threadVars == <<m_isActive, m_endThreadRequested, loop, caller>>

Resting == {"none", "OK", "TimedOut"}
Ending == {"end_asleep", "end_look", "end_set", "end_join", "ended"}

\* m_condStarted.notify_all(), m_condFinished.notify_all()
NotifyLoop == loop' = IF loop = "asleep" THEN "look" ELSE loop

WokenBy == [asleep |-> "look", timed_asleep |-> "timed_look", end_asleep |-> "end_look"]
\* A plausible mistake: m_condFinished is not notified.
NotifyFinished_none == UNCHANGED caller

NotifyFinished ==
    caller' = [c \in Callers |->
        IF caller[c] \in DOMAIN WokenBy THEN WokenBy[caller[c]] ELSE caller[c]]

-----------------------------------------------------------------------------
(* The thread's loop.                                                      *)

threadLoop_look ==
    /\ loop = "look"
    /\ loop' = IF ~m_isActive THEN "asleep" ELSE IF m_endThreadRequested THEN "over" ELSE "run"
    /\ UNCHANGED <<m_isActive, m_endThreadRequested, caller>>

\* threadMain(): run() returns, or throws what is caught and handled.
threadMain ==
    /\ loop = "run"
    /\ loop' = "ran"
    /\ UNCHANGED <<m_isActive, m_endThreadRequested, caller>>

threadLoop_finish ==
    /\ loop = "ran"
    /\ m_isActive' = FALSE
    /\ NotifyFinished
    /\ loop' = "look"
    /\ UNCHANGED m_endThreadRequested

-----------------------------------------------------------------------------
(* Its callers. Nobody calls a thread once its destruction has begun.      *)

Usable == \A c \in Callers : caller[c] \notin Ending

Thread_start(c) ==
    /\ caller[c] \in Resting /\ Usable
    /\ ~m_isActive                  \* otherwise it returns
    /\ m_isActive' = TRUE
    /\ NotifyLoop
    /\ UNCHANGED <<m_endThreadRequested, caller>>

\* m_condFinished.wait() or wait_for() of timedWait(), first and when notified.
Thread_wait(c, from, asleep, then) ==
    /\ caller[c] \in from
    /\ caller' = [caller EXCEPT ![c] = IF m_isActive THEN asleep ELSE then]
    /\ UNCHANGED <<m_isActive, m_endThreadRequested, loop>>

Thread_timeout(c) ==
    /\ caller[c] \in {"timed_asleep", "timed_look"}
    /\ caller' = [caller EXCEPT ![c] = IF m_isActive THEN "TimedOut" ELSE "OK"]
    /\ UNCHANGED <<m_isActive, m_endThreadRequested, loop>>

timedWait(c) ==
    \/ Usable /\ Thread_wait(c, Resting, "asleep", "OK")
    \/ Usable /\ Thread_wait(c, Resting, "timed_asleep", "OK")
    \/ Thread_wait(c, {"look"}, "asleep", "OK")
    \/ Thread_wait(c, {"timed_look"}, "timed_asleep", "OK")
    \/ Thread_timeout(c)

\* A plausible mistake: the thread is ended without waiting for it.
endThread_at_once(c) ==
    /\ \A d \in Callers : caller[d] \in Resting
    /\ caller' = [caller EXCEPT ![c] = "end_set"]
    /\ UNCHANGED <<m_isActive, m_endThreadRequested, loop>>

endThread_wait(c) ==
    \/ /\ \A d \in Callers : caller[d] \in Resting
       /\ Thread_wait(c, Resting, "end_asleep", "end_set")
    \/ Thread_wait(c, {"end_look"}, "end_asleep", "end_set")

endThread_set(c) ==
    /\ caller[c] = "end_set"
    /\ m_endThreadRequested' = TRUE
    /\ m_isActive' = TRUE
    /\ NotifyLoop
    /\ caller' = [caller EXCEPT ![c] = "end_join"]

endThread_join(c) ==
    /\ caller[c] = "end_join" /\ loop = "over"
    /\ caller' = [caller EXCEPT ![c] = "ended"]
    /\ UNCHANGED <<m_isActive, m_endThreadRequested, loop>>

endThread(c) == endThread_wait(c) \/ endThread_set(c) \/ endThread_join(c)

-----------------------------------------------------------------------------

ThreadInit ==
    /\ m_isActive = FALSE
    /\ m_endThreadRequested = FALSE
    /\ loop = "look"
    /\ caller = [c \in Callers |-> "none"]

threadLoop == threadLoop_look \/ threadMain \/ threadLoop_finish

ThreadNext ==
    \/ threadLoop
    \/ \E c \in Callers : Thread_start(c) \/ timedWait(c) \/ endThread(c)

\* A caller that can go on with its call.
InCall(c) == caller[c] \notin Resting /\ (timedWait(c) \/ endThread(c))

\* The thread and the calls that have begun go on; the Runnable returns.
ThreadFairness ==
    /\ WF_threadVars(threadLoop)
    /\ \A c \in Callers : WF_threadVars(InCall(c))

ThreadSpec == ThreadInit /\ [][ThreadNext]_threadVars /\ ThreadFairness

-----------------------------------------------------------------------------
(* Properties.                                                             *)

ThreadTypeOK ==
    /\ m_isActive \in BOOLEAN
    /\ m_endThreadRequested \in BOOLEAN
    /\ loop \in {"asleep", "look", "run", "ran", "over"}
    /\ caller \in [Callers -> Resting \cup Ending
                    \cup {"asleep", "look", "timed_asleep", "timed_look"}]

\* Nobody sleeps through what he waits for: while the thread sleeps it is not
\* started, while a caller sleeps it is not finished (threadLoop(), timedWait()).
NoSleeperForgotten ==
    /\ loop = "asleep" => ~m_isActive
    /\ \A c \in Callers : caller[c] \in DOMAIN WokenBy => m_isActive

\* The conjuncts that make an inductive invariant: a Runnable runs only in a thread
\* that is active; who ends the thread is alone with it, from the look that finds it
\* finished to the request (start(), endThread()).
RunsActive == loop \in {"run", "ran"} => m_isActive /\ ~m_endThreadRequested
EndsAlone ==
    /\ \A c \in Callers : caller[c] = "end_set" => ~m_isActive /\ ~m_endThreadRequested
    /\ m_endThreadRequested => \E c \in Callers : caller[c] \in {"end_join", "ended"}
    /\ \A c, d \in Callers : caller[c] \in Ending /\ c # d => caller[d] \in Resting
ThreadIInv == ThreadTypeOK /\ NoSleeperForgotten /\ RunsActive /\ EndsAlone

\* The thread is what Thread.h says, also while it is ended: no accepted start()
\* is lost, no wait succeeds before run() has returned.
AThread == INSTANCE AbstractThread WITH
    state <- IF m_endThreadRequested THEN "ENDED"
             ELSE IF ~m_isActive THEN "FINISHED"
             ELSE IF loop \in {"run", "ran"} THEN "RUNNING" ELSE "READY",
    waiter <- [c \in Callers |->
                IF caller[c] \in Resting THEN caller[c]
                ELSE IF caller[c] \in {"end_set", "end_join", "ended"} THEN "OK" ELSE "waiting"]
IsThread == AThread!Spec

\* A destroy() that has begun returns: the thread is in no wait that endThread() does
\* not end (endThread(), threadLoop()).
EndThreadReturns == \A c \in Callers : caller[c] \in Ending ~> caller[c] = "ended"
=============================================================================
