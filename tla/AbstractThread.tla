--------------------------- MODULE AbstractThread ---------------------------
(***************************************************************************)
(* What OSWrapper::Thread promises (Thread.h): an accepted start() leads   *)
(* to one run() of the Runnable; a wait that returns OK has seen the       *)
(* thread finished, then or before, one that returns TimedOut has seen it  *)
(* not finished; the thread is ended only when it is finished.             *)
(***************************************************************************)
CONSTANT Callers

VARIABLES
    state,      \* "FINISHED", "READY", "RUNNING" or, when it is destroyed, "ENDED"
    waiter      \* the last wait of each caller: "none", "waiting", "seen" (finished), "OK"
                \* or "TimedOut"

vars == <<state, waiter>>

Init == state = "FINISHED" /\ waiter = [c \in Callers |-> "none"]

Go(from, to) == state = from /\ state' = to /\ UNCHANGED waiter

Start == Go("FINISHED", "READY")
Run == Go("READY", "RUNNING")
Finish == Go("RUNNING", "FINISHED")
End == Go("FINISHED", "ENDED")

Waits(c, to) == waiter' = [waiter EXCEPT ![c] = to] /\ UNCHANGED state

Wait(c) == waiter[c] \notin {"waiting", "seen"} /\ Waits(c, "waiting")

See(c) == state = "FINISHED" /\ Waits(c, "seen")

ReturnOK(c) == (waiter[c] = "seen" \/ state = "FINISHED") /\ Waits(c, "OK")

TimeOut(c) == waiter[c] = "waiting" /\ state # "FINISHED" /\ Waits(c, "TimedOut")

\* The caller has looked at the result.
Forget(c) == waiter[c] \notin {"waiting", "seen"} /\ Waits(c, "none")

Next ==
    \/ Start \/ Run \/ Finish \/ End
    \/ \E c \in Callers : Wait(c) \/ See(c) \/ ReturnOK(c) \/ TimeOut(c) \/ Forget(c)

Spec == Init /\ [][Next]_vars
=============================================================================
