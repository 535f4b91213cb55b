---------------------------- MODULE AbstractMutex ----------------------------
(***************************************************************************)
(* What OSWrapper::Mutex promises (Mutex.h): a lock that one thread holds  *)
(* at a time, as often as it has locked it.                                *)
(***************************************************************************)
EXTENDS Integers

CONSTANTS Callers, Nobody

VARIABLES
    owner,
    depth,      \* how often its owner has locked it
    result      \* what the last call of each caller returned

vars == <<owner, depth, result>>

Init ==
    /\ owner = Nobody /\ depth = 0
    /\ result = [c \in Callers |-> "none"]

Returns(c, error) == result' = [result EXCEPT ![c] = error]

Lock(c) ==
    /\ owner \in {Nobody, c}
    /\ owner' = c /\ depth' = depth + 1
    /\ Returns(c, "OK")

\* The time is up, or the mutex is locked too deep.
LockFails(c) ==
    /\ \E error \in {"TimedOut", "OtherError"} : Returns(c, error)
    /\ UNCHANGED <<owner, depth>>

Unlock(c) ==
    /\ owner = c
    /\ depth' = depth - 1
    /\ owner' = IF depth = 1 THEN Nobody ELSE c
    /\ Returns(c, "OK")

UnlockFails(c) ==
    /\ owner # c
    /\ Returns(c, "NotLocked")
    /\ UNCHANGED <<owner, depth>>

\* The caller has looked at the result.
Forget(c) == Returns(c, "none") /\ UNCHANGED <<owner, depth>>

Next ==
    \E c \in Callers : Lock(c) \/ LockFails(c) \/ Unlock(c) \/ UnlockFails(c) \/ Forget(c)

Spec == Init /\ [][Next]_vars
=============================================================================
