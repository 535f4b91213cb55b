------------------------------ MODULE Priorities ------------------------------
(***************************************************************************)
(* Thread priorities: a range of numbers, whose highest priority may be    *)
(* its greatest or its least, and the map to priorities of Windows or      *)
(* Posix, which threads look their priority up in.                         *)
(***************************************************************************)
EXTENDS Integers

CONSTANTS
    RangeEnds,          \* what setPriorityRange() is called with
    RoundRobin,         \* [min, max], the range of SCHED_RR
    m_defaultPriority,  \* of the thread that made the factory, below any real-time one
    PrioThreads,
    Unset

ASSUME PrioritiesAssumption ==
    /\ RangeEnds \subseteq Int
    /\ RoundRobin \in [min : Int, max : Int] /\ RoundRobin.min <= RoundRobin.max
    /\ m_defaultPriority \in Int /\ m_defaultPriority <= RoundRobin.min
    /\ Unset \notin Int

VARIABLES
    osPlatform,         \* "Windows" or "Posix"
    m_lowestPriority,
    m_highestPriority,
    m_prioMap,
    thread_m_priority,  \* of each thread
    nativePriority      \* what the operating system was told of it, Unset before and,
                        \* as it may be of another range, after setPriorityRange()

prioVars == <<osPlatform, m_lowestPriority, m_highestPriority, m_prioMap, thread_m_priority,
              nativePriority>>

Least(m, n) == IF m < n THEN m ELSE n
Greatest(m, n) == IF m < n THEN n ELSE m

getMinPriority(low, high) == Least(low, high)
getMaxPriority(low, high) == Greatest(low, high)

\* An int is divided towards zero.
Half(n) == IF n >= 0 THEN n \div 2 ELSE -((-n) \div 2)
getNormalPriority(low, high) == Half(low + high)

\* A plausible mistake: the highest priority is taken to be the greatest.
Above_upwards(p, low, high) == p - getNormalPriority(low, high)

\* How much higher than the normal priority p is.
Above(p, low, high) ==
    IF low < high THEN p - getNormalPriority(low, high) ELSE getNormalPriority(low, high) - p

getPriorityHigherThan(basePriority, d, low, high) ==
    LET ret == IF low < high THEN basePriority + d ELSE basePriority - d
    IN  Greatest(getMinPriority(low, high), Least(getMaxPriority(low, high), ret))

\* THREAD_PRIORITY_TIME_CRITICAL, IDLE, and LOWEST to HIGHEST around NORMAL, 0.
WindowsPriority(p, low, high) ==
    IF p = high THEN 15 ELSE IF p = low THEN -15
    ELSE Greatest(-2, Least(2, Above(p, low, high)))

PosixPriority(p, low, high) ==
    IF Above(p, low, high) > 0
    THEN Least(RoundRobin.max, RoundRobin.min + Above(p, low, high) - 1)
    ELSE m_defaultPriority

PrioMap(low, high) ==
    [p \in getMinPriority(low, high) .. getMaxPriority(low, high) |->
        IF osPlatform = "Windows" THEN WindowsPriority(p, low, high)
        ELSE PosixPriority(p, low, high)]

setPriorityRange(low, high) ==
    /\ m_lowestPriority' = low /\ m_highestPriority' = high
    /\ m_prioMap' = PrioMap(low, high)
    /\ nativePriority' = [t \in PrioThreads |-> Unset]
    /\ UNCHANGED <<osPlatform, thread_m_priority>>

\* m_priority is set, then looked up: at() of what is not in the map throws.
SetsPriority(t, p) ==
    /\ thread_m_priority' = [thread_m_priority EXCEPT ![t] = p]
    /\ nativePriority' = IF p \in DOMAIN m_prioMap
                         THEN [nativePriority EXCEPT ![t] = m_prioMap[p]] ELSE nativePriority
    /\ UNCHANGED <<osPlatform, m_lowestPriority, m_highestPriority, m_prioMap>>

thread_setPriority(t, priority) == priority \in DOMAIN m_prioMap /\ SetsPriority(t, priority)

\* From a thread of OSWrapper, or from another.
setPriority_inherit(t) ==
    \/ \E u \in PrioThreads : SetsPriority(t, thread_m_priority[u])
    \/ SetsPriority(t, getNormalPriority(m_lowestPriority, m_highestPriority))

PrioInit ==
    /\ osPlatform \in {"Windows", "Posix"}
    /\ \E low, high \in RangeEnds :
        /\ m_lowestPriority = low /\ m_highestPriority = high
        /\ m_prioMap = PrioMap(low, high)
        /\ thread_m_priority = [t \in PrioThreads |-> getNormalPriority(low, high)]
    /\ nativePriority = [t \in PrioThreads |-> Unset]

PrioNext ==
    \/ \E low, high \in RangeEnds : setPriorityRange(low, high)
    \/ \E t \in PrioThreads :
        setPriority_inherit(t) \/ \E p \in DOMAIN m_prioMap : thread_setPriority(t, p)

PrioSpec == PrioInit /\ [][PrioNext]_prioVars

-----------------------------------------------------------------------------
(* Properties.                                                             *)

Placed(t) == nativePriority[t] # Unset /\ thread_m_priority[t] \in DOMAIN m_prioMap
Height(p) == IF m_lowestPriority < m_highestPriority THEN p ELSE -p

PrioTypeOK ==
    /\ osPlatform \in {"Windows", "Posix"}
    /\ m_lowestPriority \in Int /\ m_highestPriority \in Int
    /\ thread_m_priority \in [PrioThreads -> Int]
    /\ nativePriority \in [PrioThreads -> Int \cup {Unset}]

\* The map is that of the range, and a thread whose priority was set in it has the
\* native one that the map says.
MapFollowed ==
    /\ m_prioMap = PrioMap(m_lowestPriority, m_highestPriority)
    /\ \A t \in PrioThreads :
        Placed(t) => nativePriority[t] = m_prioMap[thread_m_priority[t]]
PrioIInv == PrioTypeOK /\ MapFollowed

\* Wherever the range lies and whichever way it runs, no thread gets a lower
\* priority of the system than one whose own priority is lower, and going up by
\* getPriorityHigherThan() never goes down (setPriorityRange(), setPriority()).
PriorityOrder ==
    /\ \A t, u \in PrioThreads :
        Placed(t) /\ Placed(u) /\ Height(thread_m_priority[t]) >= Height(thread_m_priority[u]) =>
            nativePriority[t] >= nativePriority[u]
    /\ \A p \in DOMAIN m_prioMap : \A d \in 0 .. 2 :
        m_prioMap[getPriorityHigherThan(p, d, m_lowestPriority, m_highestPriority)] >= m_prioMap[p]
=============================================================================
