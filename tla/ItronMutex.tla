----------------------------- MODULE ItronMutex ------------------------------
(***************************************************************************)
(* One ItronMutex: a mutex of the kernel, which refuses its owner a second *)
(* lock, and the count that makes it recursive. A step is a call of the    *)
(* kernel.                                                                 *)
(***************************************************************************)
EXTENDS Integers, OSWrapper

CONSTANT
    MaxRecursion    \* bound: how often a task locks the mutex anew

ASSUME ItronMutexAssumption == MaxRecursion \in Nat

VARIABLES
    htskid,             \* the kernel's mutex: the task that holds it
    m_recursiveCount,
    kernelCall,         \* where each caller is: "none", "tloc" or "timed_tloc" in
                        \* tloc_mtx(), "relock" or "unlock" about to ask who holds the
                        \* mutex, "unl" in unl_mtx()
    kernelResult

itronMutexVars == <<htskid, m_recursiveCount, kernelCall, kernelResult>>

KernelGoes(c, to, error) ==
    /\ kernelCall' = [kernelCall EXCEPT ![c] = to]
    /\ kernelResult' = [kernelResult EXCEPT ![c] = error]

isLockedByThisThread(c) == htskid = c

\* lock(), timedLock(), tryLock(); unlock().
itron_mutex_call(c) ==
    /\ kernelCall[c] = "none"
    /\ \E op \in {"tloc", "timed_tloc", "unlock"} : KernelGoes(c, op, "none")
    /\ UNCHANGED <<htskid, m_recursiveCount>>

\* E_OK, E_TMOUT, or E_ILUSE to the task that holds the mutex.
tloc_mtx(c) ==
    /\ kernelCall[c] \in {"tloc", "timed_tloc"}
    /\ \/ htskid = Nobody /\ htskid' = c /\ KernelGoes(c, "none", "OK")
       \/ /\ kernelCall[c] = "timed_tloc" /\ htskid \notin {Nobody, c}
          /\ KernelGoes(c, "none", "TimedOut") /\ UNCHANGED htskid
       \/ htskid = c /\ KernelGoes(c, "relock", "none") /\ UNCHANGED htskid
    /\ UNCHANGED m_recursiveCount

itron_relock(c) ==
    /\ kernelCall[c] = "relock"
    /\ m_recursiveCount < MaxRecursion
    /\ IF isLockedByThisThread(c)
       THEN m_recursiveCount' = m_recursiveCount + 1 /\ KernelGoes(c, "none", "OK")
       ELSE KernelGoes(c, "none", "OtherError") /\ UNCHANGED m_recursiveCount
    /\ UNCHANGED htskid

\* A plausible mistake: the count is taken down by whoever unlocks.
itron_unlock_by_anyone(c) ==
    /\ kernelCall[c] = "unlock"
    /\ IF m_recursiveCount > 0
       THEN m_recursiveCount' = m_recursiveCount - 1 /\ KernelGoes(c, "none", "OK")
       ELSE KernelGoes(c, "unl", "none") /\ UNCHANGED m_recursiveCount
    /\ UNCHANGED htskid

itron_unlock(c) ==
    /\ kernelCall[c] = "unlock"
    /\ IF isLockedByThisThread(c) /\ m_recursiveCount > 0
       THEN m_recursiveCount' = m_recursiveCount - 1 /\ KernelGoes(c, "none", "OK")
       ELSE KernelGoes(c, "unl", "none") /\ UNCHANGED m_recursiveCount
    /\ UNCHANGED htskid

unl_mtx(c) ==
    /\ kernelCall[c] = "unl"
    /\ IF htskid = c THEN htskid' = Nobody /\ KernelGoes(c, "none", "OK")
       ELSE KernelGoes(c, "none", "NotLocked") /\ UNCHANGED htskid
    /\ UNCHANGED m_recursiveCount

ItronMutexInit ==
    /\ htskid = Nobody /\ m_recursiveCount = 0
    /\ kernelCall = [c \in Callers |-> "none"]
    /\ kernelResult = [c \in Callers |-> "none"]

ItronMutexNext ==
    \E c \in Callers :
        itron_mutex_call(c) \/ tloc_mtx(c) \/ itron_relock(c) \/ itron_unlock(c) \/ unl_mtx(c)

ItronMutexSpec == ItronMutexInit /\ [][ItronMutexNext]_itronMutexVars

-----------------------------------------------------------------------------
(* Properties.                                                             *)

ItronMutexTypeOK ==
    /\ htskid \in Callers \cup {Nobody}
    /\ m_recursiveCount \in 0 .. MaxRecursion
    /\ kernelCall \in [Callers -> {"none", "tloc", "timed_tloc", "relock", "unlock", "unl"}]
    /\ kernelResult \in [Callers -> {"none", "OK", "TimedOut", "OtherError", "NotLocked"}]

\* A task that the kernel told that it holds the mutex still does, and the count is
\* above 0 only while a task holds it.
OwnerKept ==
    /\ \A c \in Callers : kernelCall[c] = "relock" => htskid = c
    /\ \A c \in Callers : kernelCall[c] = "unl" /\ htskid = c => m_recursiveCount = 0
    /\ htskid = Nobody => m_recursiveCount = 0

ItronMutexIInv == ItronMutexTypeOK /\ OwnerKept

\* The mutex is a recursive lock, and an unlock() by another than its owner is
\* refused, although the count does not say whose it is (unlock()).
AItronMutex == INSTANCE AbstractMutex WITH
    owner <- htskid,
    depth <- IF htskid = Nobody THEN 0 ELSE m_recursiveCount + 1,
    result <- kernelResult
IsItronMutex == AItronMutex!Spec
=============================================================================
