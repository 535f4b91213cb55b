------------------------ MODULE StdCppFixedMemoryPool ------------------------
(***************************************************************************)
(* One StdCppFixedMemoryPool: the layout of its blocks, the lists of the   *)
(* free and the used ones, and the threads that wait for a block. Sizes    *)
(* are of a type of SizeLimit values, and wrap.                            *)
(***************************************************************************)
EXTENDS Integers, Sequences, SequencesExt, OSWrapper

CONSTANTS
    SizeLimit,      \* 2^w of std::size_t
    BlockSizes,     \* the sizes with which a pool is created
    PoolSizes,
    Heap            \* the addresses that std::malloc() returns

ASSUME PoolAssumption ==
    /\ SizeLimit \in Nat \ {0} /\ SizeLimit % 8 = 0
    /\ BlockSizes \subseteq 1 .. SizeLimit - 1
    /\ PoolSizes \subseteq 1 .. SizeLimit - 1
    /\ Heap \cap Nat = {}

VARIABLES
    poolState,      \* "none", "live", or "crashed" by a division by zero
    m_blockSize,
    memoryPoolSize,
    m_maxBlocks,
    m_freeList,     \* blocks; a block is the offset of its data in the memory
    m_usedList,
    heap,           \* what is allocated of Heap
    holds,          \* the memory that each caller has got
    poolCall        \* of each caller: "none"; in timedAllocateMemory() "asleep" or
                    \* "look", with a limit "timed_asleep" or "timed_look"

poolVars == <<poolState, m_blockSize, memoryPoolSize, m_maxBlocks, m_freeList, m_usedList,
              heap, holds, poolCall>>
layout == <<poolState, m_blockSize, memoryPoolSize, m_maxBlocks>>

RoundDown8(n) == (n \div 8) * 8
\* A plausible mistake: the size is rounded down.
getAlignedSize_down(size) == RoundDown8(size)

getAlignedSize(size) == RoundDown8((size + 7) % SizeLimit)
getRequiredMemorySize(blockSize, numBlocks) == (getAlignedSize(blockSize) * numBlocks) % SizeLimit

\* The factory's create() and the constructor; it may fail for want of memory.
pool_create(blockSize, poolSize) ==
    /\ poolState = "none"
    /\ m_blockSize' = blockSize /\ memoryPoolSize' = poolSize
    /\ LET aligned == getAlignedSize(blockSize)
       IN  IF aligned = 0
           THEN poolState' = "crashed" /\ UNCHANGED <<m_maxBlocks, m_freeList>>
           ELSE /\ poolSize \div aligned > 0
                /\ m_maxBlocks' = poolSize \div aligned
                /\ m_freeList' = [i \in 1 .. m_maxBlocks' |-> (i - 1) * aligned]
                /\ poolState' = "live"
    /\ UNCHANGED <<m_usedList, heap, holds, poolCall>>

\* Its user has given everything back.
pool_destroy ==
    /\ poolState = "live"
    /\ \A c \in Callers : holds[c] = {} /\ poolCall[c] = "none"
    /\ poolState' = "none" /\ m_freeList' = <<>>
    /\ UNCHANGED <<m_blockSize, memoryPoolSize, m_maxBlocks, m_usedList, heap, holds, poolCall>>

Gets(c, p) == holds' = [holds EXCEPT ![c] = @ \cup {p}]

allocate(c) ==
    /\ poolState = "live" /\ poolCall[c] = "none"
    /\ \E p \in Heap \ heap : heap' = heap \cup {p} /\ Gets(c, p)
    /\ UNCHANGED <<layout, m_freeList, m_usedList, poolCall>>

\* A block of the used list goes to the end of the free list; all who wait wake up.
WakeAll ==
    poolCall' = [c \in Callers |->
        CASE poolCall[c] = "asleep" -> "look"
          [] poolCall[c] = "timed_asleep" -> "timed_look"
          [] OTHER -> poolCall[c]]

ReleaseBlock(p) ==
    /\ m_usedList' = m_usedList \ {p}
    /\ m_freeList' = Append(m_freeList, p)
    /\ WakeAll
    /\ UNCHANGED heap

deallocate(c, p) ==
    /\ poolCall[c] = "none" /\ p \in holds[c]
    /\ holds' = [holds EXCEPT ![c] = @ \ {p}]
    /\ IF p \in m_usedList THEN ReleaseBlock(p)
       ELSE heap' = heap \ {p} /\ UNCHANGED <<m_freeList, m_usedList, poolCall>>
    /\ UNCHANGED layout

\* A thread gives another what it holds.
hand_over(c, d, p) ==
    /\ poolCall[c] = "none" /\ p \in holds[c] /\ d # c
    /\ holds' = [holds EXCEPT ![c] = @ \ {p}, ![d] = @ \cup {p}]
    /\ UNCHANGED <<layout, m_freeList, m_usedList, heap, poolCall>>

TakeBlock(c) ==
    /\ m_freeList # <<>>
    /\ m_usedList' = m_usedList \cup {Head(m_freeList)}
    /\ m_freeList' = Tail(m_freeList)
    /\ Gets(c, Head(m_freeList))
    /\ poolCall' = [poolCall EXCEPT ![c] = "none"]
    /\ UNCHANGED <<layout, heap>>

PoolLeave(c, to) ==
    /\ m_freeList = <<>>
    /\ poolCall' = [poolCall EXCEPT ![c] = to]
    /\ UNCHANGED <<layout, m_freeList, m_usedList, heap, holds>>

\* timedAllocateMemory(): the first look at the free list and, when woken, the next.
allocateMemory_begin(c) ==
    /\ poolState = "live" /\ poolCall[c] = "none"
    /\ TakeBlock(c) \/ PoolLeave(c, "asleep") \/ PoolLeave(c, "timed_asleep")

allocateMemory_look(c) ==
    \/ poolCall[c] = "look" /\ (TakeBlock(c) \/ PoolLeave(c, "asleep"))
    \/ poolCall[c] = "timed_look" /\ (TakeBlock(c) \/ PoolLeave(c, "timed_asleep"))

allocateMemory_timeout(c) ==
    poolCall[c] \in {"timed_asleep", "timed_look"} /\ (TakeBlock(c) \/ PoolLeave(c, "none"))

PoolInit ==
    /\ poolState = "none"
    /\ m_blockSize = 0 /\ memoryPoolSize = 0 /\ m_maxBlocks = 0
    /\ m_freeList = <<>> /\ m_usedList = {} /\ heap = {}
    /\ holds = [c \in Callers |-> {}]
    /\ poolCall = [c \in Callers |-> "none"]

PoolNext ==
    \/ \E b \in BlockSizes, s \in PoolSizes : pool_create(b, s)
    \/ pool_destroy
    \/ \E c \in Callers :
        \/ allocate(c)
        \/ allocateMemory_begin(c) \/ allocateMemory_look(c) \/ allocateMemory_timeout(c)
        \/ \E p \in holds[c] : deallocate(c, p) \/ \E d \in Callers : hand_over(c, d, p)

\* A thread that is woken gets to look.
PoolFairness == \A c \in Callers : WF_poolVars(allocateMemory_look(c))

PoolSpec == PoolInit /\ [][PoolNext]_poolVars /\ PoolFairness

-----------------------------------------------------------------------------
(* Properties.                                                             *)

PoolTypeOK ==
    /\ poolState \in {"none", "live", "crashed"}
    /\ m_blockSize \in 0 .. SizeLimit - 1
    /\ memoryPoolSize \in 0 .. SizeLimit - 1
    /\ m_maxBlocks \in 0 .. SizeLimit - 1
    /\ m_freeList \in Seq(Nat)
    /\ m_usedList \subseteq Nat
    /\ heap \subseteq Heap
    /\ holds \in [Callers -> SUBSET (Nat \cup Heap)]
    /\ poolCall \in [Callers -> {"none", "asleep", "look", "timed_asleep", "timed_look"}]

Blocks == { i * getAlignedSize(m_blockSize) : i \in 0 .. m_maxBlocks - 1 }

\* Every block is free or in the hands of one thread, and what a thread holds is a
\* block of the used list or memory of std::malloc(): so deallocate() gives nothing
\* else to std::free().
BlocksAccounted ==
    /\ \A c, d \in Callers : c # d => holds[c] \cap holds[d] = {}
    /\ UNION { holds[c] : c \in Callers } = m_usedList \cup heap
    /\ IsInjective(m_freeList)
    /\ poolState = "live" => /\ ToSet(m_freeList) \cap m_usedList = {}
                             /\ ToSet(m_freeList) \cup m_usedList = Blocks

\* The blocks lie in the memory of the pool and do not overlap (the constructor,
\* getAlignedSize()).
BlocksFit ==
    poolState = "live" =>
        /\ \A p \in Blocks : p + m_blockSize <= memoryPoolSize
        /\ \A p, q \in Blocks : p < q => p + m_blockSize <= q

\* A thread sleeps only while there is no block for it, so that it gets one when one
\* has come to stay (timedAllocateMemory(), deallocate()).
PoolSleepersRight ==
    \A c \in Callers : poolCall[c] \in {"asleep", "timed_asleep"} => m_freeList = <<>>
AllocationEnds == \A c \in Callers : []<>(poolCall[c] = "none" \/ m_freeList = <<>>)

BlocksSound == BlocksAccounted /\ BlocksFit

\* With the types, inductive: the layout is as the constructor made it, and of a pool
\* that is not there nobody has anything.
LayoutKept ==
    /\ poolState = "live" =>
        /\ m_blockSize > 0
        /\ getAlignedSize(m_blockSize) > 0
        /\ m_maxBlocks = memoryPoolSize \div getAlignedSize(m_blockSize)
    /\ poolState # "live" =>
        /\ m_freeList = <<>> /\ m_usedList = {} /\ heap = {}
        /\ \A c \in Callers : poolCall[c] = "none"
PoolIInv == PoolTypeOK /\ BlocksSound /\ LayoutKept
=============================================================================
