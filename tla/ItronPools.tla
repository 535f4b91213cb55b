----------------------------- MODULE ItronPools ------------------------------
(***************************************************************************)
(* ItronFixedMemoryPoolFactory and ItronVariableMemoryPoolFactory: an      *)
(* array of pool objects, each of which is free or has a pool of the       *)
(* kernel. The kernel gives an id again once its pool is deleted. A step   *)
(* is a call of the kernel or a change of the array.                       *)
(***************************************************************************)
EXTENDS Integers, FiniteSetsExt, OSWrapper

CONSTANTS
    MaxPools,       \* MAX_FIXED_MEMORY_POOLS, MAX_VARIABLE_MEMORY_POOLS
    KernelIds,
    NoPool,
    BlockCounts     \* memoryPoolSize / oneBlockMemorySize, as create() is called

ASSUME ItronPoolsAssumption ==
    /\ MaxPools \in Nat \ {0} /\ BlockCounts \subseteq Nat
    /\ NoPool \notin KernelIds /\ NoPool \notin Nat

VARIABLES
    fblkcnt,        \* of each pool of the kernel: its free blocks, or NoPool
    m_mpfId,        \* of each element of m_pools
    m_maxBlocksOf,
    poolsMutex,     \* who holds m_mutexId of the factory
    created,        \* the elements that a user has: of create(), not given to destroy()
    poolUser        \* of each caller: where it is, the element and the id it works on

itronPoolsVars == <<fblkcnt, m_mpfId, m_maxBlocksOf, poolsMutex, created, poolUser>>
memory == <<fblkcnt, m_mpfId, m_maxBlocksOf>>

m_pools == 1 .. MaxPools
isCreated(it) == m_mpfId[it] # NoPool
PoolUserAt(c, at) == poolUser[c].at = at
PoolUserGoes(c, at, it, id) ==
    poolUser' = [poolUser EXCEPT ![c] = [at |-> at, it |-> it, id |-> id]]
PoolUserLeaves(c) == PoolUserGoes(c, "none", 0, NoPool)

\* A plausible mistake: the factory's mutex, which could not be made, keeps nobody out.
pools_no_lock(c, from, to) ==
    /\ PoolUserAt(c, from)
    /\ poolsMutex' = c /\ PoolUserGoes(c, to, poolUser[c].it, NoPool)
    /\ UNCHANGED <<memory, created>>

\* Lock lk(m_mutexId); its destructor.
pools_lock(c, from, to) ==
    /\ PoolUserAt(c, from) /\ poolsMutex = Nobody
    /\ poolsMutex' = c /\ PoolUserGoes(c, to, poolUser[c].it, NoPool)
    /\ UNCHANGED <<memory, created>>

pools_return(c) == poolsMutex' = Nobody /\ PoolUserLeaves(c)

pools_call(c) ==
    /\ PoolUserAt(c, "none")
    /\ \/ PoolUserGoes(c, "create_lock", 0, NoPool) /\ UNCHANGED created
       \/ \E it \in created :
            \* Its user has given everything back, and nobody waits for a block of it.
            /\ fblkcnt[m_mpfId[it]] = m_maxBlocksOf[it]
            /\ \A d \in Callers : poolUser[d].it # it
            /\ created' = created \ {it} /\ PoolUserGoes(c, "destroy_lock", it, NoPool)
       \/ \E it \in created : PoolUserGoes(c, "get", it, m_mpfId[it]) /\ UNCHANGED created
    /\ UNCHANGED <<memory, poolsMutex>>

\* create(): the first element that is free, if any.
create_find(c) ==
    /\ PoolUserAt(c, "create_find")
    /\ LET free == { it \in m_pools : ~isCreated(it) }
       IN  IF free = {} THEN pools_return(c)
           ELSE PoolUserGoes(c, "init", Min(free), NoPool) /\ UNCHANGED poolsMutex
    /\ UNCHANGED <<memory, created>>

\* acre_mpf(), which may fail, as it does for a memory of no blocks.
init_acre(c) ==
    /\ PoolUserAt(c, "init")
    /\ \/ pools_return(c) /\ UNCHANGED memory
       \/ \E id \in KernelIds, n \in BlockCounts \ {0} :
            /\ fblkcnt[id] = NoPool
            /\ fblkcnt' = [fblkcnt EXCEPT ![id] = n]
            /\ m_maxBlocksOf' = [m_maxBlocksOf EXCEPT ![poolUser[c].it] = n]
            /\ PoolUserGoes(c, "init_id", poolUser[c].it, id)
            /\ UNCHANGED <<m_mpfId, poolsMutex>>
    /\ UNCHANGED created

init_id(c) ==
    /\ PoolUserAt(c, "init_id")
    /\ m_mpfId' = [m_mpfId EXCEPT ![poolUser[c].it] = poolUser[c].id]
    /\ created' = created \cup {poolUser[c].it}
    /\ pools_return(c)
    /\ UNCHANGED <<fblkcnt, m_maxBlocksOf>>

\* del_mpf(); then the element is free.
deinit(c) ==
    /\ \/ /\ PoolUserAt(c, "deinit")
          /\ fblkcnt' = [fblkcnt EXCEPT ![m_mpfId[poolUser[c].it]] = NoPool]
          /\ PoolUserGoes(c, "deinit_id", poolUser[c].it, NoPool)
          /\ UNCHANGED <<m_mpfId, poolsMutex>>
       \/ /\ PoolUserAt(c, "deinit_id")
          /\ m_mpfId' = [m_mpfId EXCEPT ![poolUser[c].it] = NoPool]
          /\ pools_return(c)
          /\ UNCHANGED fblkcnt
    /\ UNCHANGED <<m_maxBlocksOf, created>>

\* pget_mpf(), tget_mpf(): a block, or E_TMOUT.
pool_get(c) ==
    /\ PoolUserAt(c, "get")
    /\ \/ fblkcnt[poolUser[c].id] > 0 /\ fblkcnt' = [fblkcnt EXCEPT ![poolUser[c].id] = @ - 1]
       \/ fblkcnt[poolUser[c].id] = 0 /\ UNCHANGED fblkcnt
    /\ PoolUserLeaves(c)
    /\ UNCHANGED <<m_mpfId, m_maxBlocksOf, poolsMutex, created>>

\* rel_mpf() of a block that was got.
pool_release(c, it) ==
    /\ PoolUserAt(c, "none") /\ it \in created
    /\ fblkcnt[m_mpfId[it]] < m_maxBlocksOf[it]
    /\ fblkcnt' = [fblkcnt EXCEPT ![m_mpfId[it]] = @ + 1]
    /\ UNCHANGED <<m_mpfId, m_maxBlocksOf, poolsMutex, created, poolUser>>

ItronPoolsInit ==
    /\ fblkcnt = [id \in KernelIds |-> NoPool]
    /\ m_mpfId = [it \in m_pools |-> NoPool]
    /\ m_maxBlocksOf = [it \in m_pools |-> 0]
    /\ poolsMutex = Nobody /\ created = {}
    /\ poolUser = [c \in Callers |-> [at |-> "none", it |-> 0, id |-> NoPool]]

ItronPoolsNext ==
    \E c \in Callers :
        \/ pools_call(c)
        \/ pools_lock(c, "create_lock", "create_find") \/ pools_lock(c, "destroy_lock", "deinit")
        \/ create_find(c) \/ init_acre(c) \/ init_id(c) \/ deinit(c)
        \/ pool_get(c) \/ \E it \in m_pools : pool_release(c, it)

ItronPoolsSpec == ItronPoolsInit /\ [][ItronPoolsNext]_itronPoolsVars

-----------------------------------------------------------------------------
(* Properties.                                                             *)

\* No two users are given one element, or elements with one pool of the kernel; a
\* pool that a user has exists and is the one it got; and no pool of the kernel is
\* forgotten: it is some element's, or about to be (create(), init(), deinit()).
KernelPoolsKept ==
    /\ \A it \in created : isCreated(it) /\ fblkcnt[m_mpfId[it]] # NoPool
    /\ \A i, j \in m_pools : isCreated(i) /\ m_mpfId[i] = m_mpfId[j] => i = j
    /\ \A id \in KernelIds : fblkcnt[id] # NoPool =>
        \/ \E it \in m_pools : m_mpfId[it] = id
        \/ \E c \in Callers : PoolUserAt(c, "init_id") /\ poolUser[c].id = id
    /\ \A c \in Callers : PoolUserAt(c, "get") => fblkcnt[poolUser[c].id] # NoPool

\* The conjuncts that make it inductive. Who works on the array holds the mutex.
InFactory == {"create_find", "init", "init_id", "deinit", "deinit_id"}
Leaving == {"destroy_lock", "deinit", "deinit_id"}

ItronPoolsTypeOK ==
    /\ fblkcnt \in [KernelIds -> Nat \cup {NoPool}]
    /\ m_mpfId \in [m_pools -> KernelIds \cup {NoPool}]
    /\ m_maxBlocksOf \in [m_pools -> Nat]
    /\ poolsMutex \in Callers \cup {Nobody}
    /\ created \subseteq m_pools
    /\ poolUser \in [Callers -> [at : InFactory \cup Leaving \cup {"none", "create_lock", "get"},
                                 it : m_pools \cup {0}, id : KernelIds \cup {NoPool}]]

WorkerHolds == \A c \in Callers : poolsMutex = c <=> poolUser[c].at \in InFactory

\* The element that is being made is free, and the id it is to have is nobody's.
CreateAlone ==
    \A c \in Callers :
        /\ poolUser[c].at \in {"init", "init_id"} =>
            poolUser[c].it \in m_pools /\ ~isCreated(poolUser[c].it)
        /\ PoolUserAt(c, "init_id") =>
            /\ poolUser[c].id \in KernelIds /\ fblkcnt[poolUser[c].id] # NoPool
            /\ \A it \in m_pools : m_mpfId[it] # poolUser[c].id

\* An element that is given up is still one user's, and keeps its id a while after
\* the kernel has deleted the pool.
DestroyAlone ==
    /\ \A c \in Callers : poolUser[c].at \in Leaving =>
        /\ poolUser[c].it \in m_pools \ created /\ isCreated(poolUser[c].it)
        /\ PoolUserAt(c, "deinit_id") <=> fblkcnt[m_mpfId[poolUser[c].it]] = NoPool
    /\ \A c, d \in Callers :
        /\ poolUser[c].at \in Leaving /\ poolUser[d].at \in Leaving
        /\ poolUser[c].it = poolUser[d].it
        => c = d

\* What has an id of a pool that is no more is being given up.
StaleLeaving ==
    \A it \in m_pools : isCreated(it) /\ fblkcnt[m_mpfId[it]] = NoPool =>
        \E c \in Callers : PoolUserAt(c, "deinit_id") /\ poolUser[c].it = it

GetsOfCreated ==
    \A c \in Callers : PoolUserAt(c, "get") =>
        poolUser[c].it \in created /\ poolUser[c].id = m_mpfId[poolUser[c].it]

ItronPoolsIInv ==
    /\ ItronPoolsTypeOK /\ KernelPoolsKept /\ WorkerHolds /\ CreateAlone /\ DestroyAlone
    /\ StaleLeaving /\ GetsOfCreated
=============================================================================
