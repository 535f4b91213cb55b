--------------------------- MODULE AbstractTimer ---------------------------
(***************************************************************************)
(* What OneShotTimer.h and PeriodicTimer.h promise, and StdCppOneShotTimer *)
(* and StdCppPeriodicTimer do: a stopped timer can be started, a started   *)
(* timer calls its Runnable when the time it was started with has elapsed, *)
(* and unless it is periodic it is stopped after that one call.  stop()    *)
(* keeps a call from beginning, but does not wait for one that has begun.  *)
(***************************************************************************)
CONSTANTS Times,     \* the times that start() is given
          NoTime,    \* not a time: the timer is stopped
          Periodic   \* whether the timer goes on after a call

VARIABLES armed,    \* the time the timer was started with, or NoTime
          running   \* the time that had elapsed when the call of the Runnable
                    \* in progress began, NoTime if there is none

vars == <<armed, running>>

Init == armed = NoTime /\ running = NoTime

Start ==
    /\ armed = NoTime
    /\ running = NoTime
    /\ armed' \in Times
    /\ UNCHANGED running

Stop ==
    /\ armed # NoTime
    /\ armed' = NoTime
    /\ UNCHANGED running

Fire ==
    /\ armed # NoTime
    /\ running = NoTime
    /\ running' = armed
    /\ UNCHANGED armed

Done ==
    /\ running # NoTime
    /\ running' = NoTime
    /\ armed' = IF Periodic THEN armed ELSE NoTime

Next == Start \/ Stop \/ Fire \/ Done

Spec == Init /\ [][Next]_vars

=============================================================================
