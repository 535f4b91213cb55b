----------------------------- MODULE StdCppMutex -----------------------------
(***************************************************************************)
(* One StdCppMutex: a std::recursive_timed_mutex and a count beside it.    *)
(* The count is changed after the mutex is locked and before it is         *)
(* unlocked, and unlock() reads it without holding the mutex.              *)
(***************************************************************************)
EXTENDS Integers, OSWrapper

CONSTANTS
    MaxDepth,   \* how deep the standard library lets a thread lock
    Trespass    \* whether threads unlock the mutex while another has locked it

ASSUME MutexAssumption == MaxDepth \in Nat \ {0} /\ Trespass \in BOOLEAN

VARIABLES
    m_mutex_owner,      \* m_mutex, the std::recursive_timed_mutex
    m_mutex_depth,
    m_lockingCount,
    mutexCall,          \* where each caller is: "none"; waiting for m_mutex in "lock"
                        \* or "timedLock"; it has "locked" or is to "unlock" m_mutex
    mutexResult

mutexVars == <<m_mutex_owner, m_mutex_depth, m_lockingCount, mutexCall, mutexResult>>

MutexGoes(c, to, error) ==
    /\ mutexCall' = [mutexCall EXCEPT ![c] = to]
    /\ mutexResult' = [mutexResult EXCEPT ![c] = error]

\* lock(), timedLock(), and tryLock(), which does not wait.
mutex_call(c) ==
    /\ mutexCall[c] = "none"
    /\ \E op \in {"lock", "timedLock"} : MutexGoes(c, op, "none")
    /\ UNCHANGED <<m_mutex_owner, m_mutex_depth, m_lockingCount>>

mutex_take(c) ==
    /\ mutexCall[c] \in {"lock", "timedLock"}
    /\ m_mutex_owner \in {Nobody, c} /\ m_mutex_depth < MaxDepth
    /\ m_mutex_owner' = c /\ m_mutex_depth' = m_mutex_depth + 1
    /\ MutexGoes(c, "locked", "OK")
    /\ UNCHANGED m_lockingCount

\* A plausible mistake: the count only says that m_mutex is locked.
mutex_count_once(c) ==
    /\ mutexCall[c] = "locked"
    /\ m_lockingCount' = 1
    /\ MutexGoes(c, "none", "OK")
    /\ UNCHANGED <<m_mutex_owner, m_mutex_depth>>

mutex_count(c) ==
    /\ mutexCall[c] = "locked"
    /\ m_lockingCount' = m_lockingCount + 1
    /\ MutexGoes(c, "none", "OK")
    /\ UNCHANGED <<m_mutex_owner, m_mutex_depth>>

\* The time is up; or lock() of a mutex that is as deep as can be throws.
mutex_fail(c) ==
    /\ \/ mutexCall[c] = "timedLock" /\ MutexGoes(c, "none", "TimedOut")
       \/ /\ mutexCall[c] = "lock" /\ m_mutex_owner = c /\ m_mutex_depth = MaxDepth
          /\ MutexGoes(c, "none", "OtherError")
    /\ UNCHANGED <<m_mutex_owner, m_mutex_depth, m_lockingCount>>

\* The count says whether m_mutex is locked, but not by whom. (It is looked at and
\* taken down in one step: only a trespasser could be told from the owner by two.)
unlock_count(c) ==
    /\ mutexCall[c] = "none"
    /\ m_mutex_owner \in {Nobody, c} \/ Trespass
    /\ IF m_lockingCount = 0
       THEN MutexGoes(c, "none", "NotLocked") /\ UNCHANGED m_lockingCount
       ELSE m_lockingCount' = m_lockingCount - 1 /\ MutexGoes(c, "unlock", mutexResult[c])
    /\ UNCHANGED <<m_mutex_owner, m_mutex_depth>>

\* What the call does for another than the owner the standard library leaves
\* undefined: the same, or nothing. unlock() returns OK in either case.
unlock_mutex(c) ==
    /\ mutexCall[c] = "unlock"
    /\ \E depth \in {m_mutex_depth - 1, IF m_mutex_owner = c THEN -1 ELSE m_mutex_depth} :
        /\ depth >= 0
        /\ m_mutex_depth' = depth
        /\ m_mutex_owner' = IF depth = 0 THEN Nobody ELSE m_mutex_owner
    /\ MutexGoes(c, "none", "OK")
    /\ UNCHANGED m_lockingCount

MutexInit ==
    /\ m_mutex_owner = Nobody /\ m_mutex_depth = 0
    /\ m_lockingCount = 0
    /\ mutexCall = [c \in Callers |-> "none"]
    /\ mutexResult = [c \in Callers |-> "none"]

MutexNext ==
    \E c \in Callers :
        \/ mutex_call(c) \/ mutex_take(c) \/ mutex_count(c) \/ mutex_fail(c)
        \/ unlock_count(c) \/ unlock_mutex(c)

MutexSpec == MutexInit /\ [][MutexNext]_mutexVars

-----------------------------------------------------------------------------
(* Properties.                                                             *)

Calls == {"none", "lock", "timedLock", "locked", "unlock"}

MutexTypeOK ==
    /\ m_mutex_owner \in Callers \cup {Nobody}
    /\ m_mutex_depth \in 0 .. MaxDepth
    /\ m_lockingCount \in Nat
    /\ mutexCall \in [Callers -> Calls]
    /\ mutexResult \in [Callers -> {"none", "OK", "TimedOut", "OtherError", "NotLocked"}]

\* The count is how often m_mutex is locked, but for the owner's call in progress;
\* so the owner's unlock() always finds it above 0 - as long as nobody trespasses.
CountFollows ==
    /\ m_mutex_owner = Nobody <=> m_mutex_depth = 0
    /\ \A c \in Callers : mutexCall[c] \in {"locked", "unlock"} => m_mutex_owner = c
    /\ m_lockingCount =
        IF m_mutex_owner # Nobody /\ mutexCall[m_mutex_owner] \in {"locked", "unlock"}
        THEN m_mutex_depth - 1 ELSE m_mutex_depth

\* With it and the types, inductive: who has locked m_mutex is to be told so.
LockedIsOK == \A c \in Callers : mutexCall[c] = "locked" => mutexResult[c] = "OK"
MutexIInv == MutexTypeOK /\ CountFollows /\ LockedIsOK

\* The mutex is a recursive lock: one owner, who unlocks it as often as he locked it,
\* and Mutex.h:85 "@retval NotLocked The current thread has not locked this mutex".
\* It holds of threads that do not trespass, and fails of those that do.
AMutex == INSTANCE AbstractMutex WITH
    owner <- m_mutex_owner, depth <- m_mutex_depth, result <- mutexResult
IsMutex == AMutex!Spec
=============================================================================
