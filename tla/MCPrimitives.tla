--------------------------- MODULE MCPrimitives ----------------------------
(***************************************************************************)
(* One instance of each of the small components.  They have nothing to do  *)
(* with each other: a behaviour is about one of them, its subject, while   *)
(* the others stay as they begin.                                          *)
(***************************************************************************)
EXTENDS StdCppThread, StdCppThreadFactory,
        StdCppEventFlag, StdCppMutex, StdCppFixedMemoryPool,
        ItronThread, ItronMutex, ObjectCreation,
        Priorities, WindowsTimer, ItronPools, PeriodicTimer

VARIABLE subject     \* the component that a behaviour is about

components == <<threadVars, factoryVars, flagVars,
                mutexVars, poolVars, itronVars, itronMutexVars,
                creationVars, prioVars, timerVars, itronPoolsVars, vars>>
mcVars == <<subject, components>>

MCInit ==
    /\ subject \in {"thread", "factory", "flag",
                   "mutex", "pool", "itronThread", "itronMutex",
                   "creation", "priorities", "windowsTimer",
                   "itronPools", "periodicTimer"}
    /\ ThreadInit
    /\ FactoryInit
    /\ FlagInit
    /\ MutexInit
    /\ PoolInit
    /\ ItronThreadInit
    /\ ItronMutexInit
    /\ CreationInit
    /\ PrioInit
    /\ TimerInit
    /\ ItronPoolsInit
    /\ Init
    \* Of the others, one of the states in which they may begin will do.
    /\ subject # "flag" => ~m_autoReset
    /\ subject # "creation" => class = "MessageQueue"
    /\ subject # "priorities" => /\ osPlatform = "Posix"
                                /\ m_lowestPriority = 0 /\ m_highestPriority = 1
    /\ subject # "windowsTimer" => timerClass = "OneShot"

ThreadSteps ==
    /\ subject = "thread" /\ ThreadNext
    /\ UNCHANGED <<subject, factoryVars, flagVars, mutexVars, poolVars,
                     itronVars, itronMutexVars, creationVars, prioVars, timerVars, itronPoolsVars,
                     vars>>
FactorySteps ==
    /\ subject = "factory" /\ FactoryNext
    /\ UNCHANGED <<subject, threadVars, flagVars, mutexVars, poolVars,
                     itronVars, itronMutexVars, creationVars, prioVars, timerVars, itronPoolsVars,
                     vars>>
FlagSteps ==
    /\ subject = "flag" /\ FlagNext
    /\ UNCHANGED <<subject, threadVars, factoryVars, mutexVars, poolVars,
                     itronVars, itronMutexVars, creationVars, prioVars, timerVars, itronPoolsVars,
                     vars>>
MutexSteps ==
    /\ subject = "mutex" /\ MutexNext
    /\ UNCHANGED <<subject, threadVars, factoryVars, flagVars, poolVars,
                     itronVars, itronMutexVars, creationVars, prioVars, timerVars, itronPoolsVars,
                     vars>>
PoolSteps ==
    /\ subject = "pool" /\ PoolNext
    /\ UNCHANGED <<subject, threadVars, factoryVars, flagVars, mutexVars,
                     itronVars, itronMutexVars, creationVars, prioVars, timerVars, itronPoolsVars,
                     vars>>
ItronThreadSteps ==
    /\ subject = "itronThread" /\ ItronThreadNext
    /\ UNCHANGED <<subject, threadVars, factoryVars, flagVars, mutexVars,
                     poolVars, itronMutexVars, creationVars, prioVars, timerVars, itronPoolsVars,
                     vars>>
ItronMutexSteps ==
    /\ subject = "itronMutex" /\ ItronMutexNext
    /\ UNCHANGED <<subject, threadVars, factoryVars, flagVars, mutexVars,
                     poolVars, itronVars, creationVars, prioVars, timerVars, itronPoolsVars,
                     vars>>
CreationSteps ==
    /\ subject = "creation" /\ CreationNext
    /\ UNCHANGED <<subject, threadVars, factoryVars, flagVars, mutexVars,
                     poolVars, itronVars, itronMutexVars, prioVars, timerVars, itronPoolsVars,
                     vars>>
PrioSteps ==
    /\ subject = "priorities" /\ PrioNext
    /\ UNCHANGED <<subject, threadVars, factoryVars, flagVars, mutexVars,
                     poolVars, itronVars, itronMutexVars, creationVars, timerVars, itronPoolsVars,
                     vars>>
TimerSteps ==
    /\ subject = "windowsTimer" /\ TimerNext
    /\ UNCHANGED <<subject, threadVars, factoryVars, flagVars, mutexVars,
                     poolVars, itronVars, itronMutexVars, creationVars, prioVars, itronPoolsVars,
                     vars>>
ItronPoolsSteps ==
    /\ subject = "itronPools" /\ ItronPoolsNext
    /\ UNCHANGED <<subject, threadVars, factoryVars, flagVars, mutexVars,
                     poolVars, itronVars, itronMutexVars, creationVars, prioVars, timerVars, vars>>
PeriodicSteps ==
    /\ subject = "periodicTimer" /\ Next
    /\ UNCHANGED <<subject, threadVars, factoryVars, flagVars, mutexVars,
                     poolVars, itronVars, itronMutexVars, creationVars, prioVars, timerVars,
                     itronPoolsVars>>

MCNext ==
    \/ ThreadSteps
    \/ FactorySteps
    \/ FlagSteps
    \/ MutexSteps
    \/ PoolSteps
    \/ ItronThreadSteps
    \/ ItronMutexSteps
    \/ CreationSteps
    \/ PrioSteps
    \/ TimerSteps
    \/ ItronPoolsSteps
    \/ PeriodicSteps

\* The fairness of the components, of each for its own behaviours.
MCSpec ==
    /\ MCInit /\ [][MCNext]_mcVars
    /\ WF_threadVars(subject = "thread" /\ threadLoop)
    /\ WF_itronVars(subject = "itronThread" /\ ItronThreadMain)
    /\ \A c \in Callers :
        /\ WF_threadVars(subject = "thread" /\ InCall(c))
        /\ WF_poolVars(subject = "pool" /\ allocateMemory_look(c))
    /\ \A c \in Waiters : WF_flagVars(subject = "flag" /\ timedWait_look(c))
    /\ \A c \in Tasks : WF_itronVars(subject = "itronThread" /\ InItronCall(c))
    /\ WF_vars(subject = "periodicTimer" /\ ThreadStep)
    /\ SF_vars(subject = "periodicTimer" /\ TimerMain)
    /\ \A a \in Actors : WF_vars(subject = "periodicTimer" /\ CallStep(a))

-----------------------------------------------------------------------------
(* Properties of two components at once.                                   *)

\* The blocks of a StdCpp pool are accounted for, and the factories of the Itron
\* platform confuse no two pools (timedAllocateMemory(), deallocate(), create()).
PoolsSound == BlocksSound /\ KernelPoolsKept

\* Nobody waits for ever for bits or for a block that have come to stay
\* (EventFlag and FixedMemoryPool of the StdCpp platform).
WaitsEnd == FlagWaitEnds /\ AllocationEnds

\* A destroy() of a thread returns, on the StdCpp and on the Itron platform.
DestroysEnd == EndThreadReturns /\ DestroyEnds

-----------------------------------------------------------------------------
(* Constants.                                                              *)

MCRangeEnds == {-3, 0, 1, 6}
MCRoundRobin == [min |-> 1, max |-> 3]
=============================================================================
