--------------------------- MODULE ResourceProofs ---------------------------
(***************************************************************************)
(* The memory pools of the StdCpp and of the Itron platform, for every     *)
(* size of a block and of a pool and for every number of pools, and how    *)
(* the composed objects come and go, for every number of runners.          *)
(***************************************************************************)
EXTENDS MCPrimitives, SequenceTheorems, FiniteSetTheorems, WellFoundedInduction, TLAPS

-----------------------------------------------------------------------------
(* The layout of a pool.                                                   *)

\* A block has room for its data: the aligned size is not less, unless it wraps to 0.
LEMMA AlignedHolds ==
    ASSUME NEW size \in 1 .. SizeLimit - 1, getAlignedSize(size) # 0
    PROVE  getAlignedSize(size) \in Nat /\ getAlignedSize(size) >= size
  <1>1. SizeLimit \in Nat /\ SizeLimit >= 8
    BY PoolAssumption
  <1>2. CASE size + 7 < SizeLimit
    <2>1. (size + 7) % SizeLimit = size + 7
      BY <1>1, <1>2
    <2>2. QED
      BY <2>1 DEF getAlignedSize, RoundDown8
  <1>3. CASE size + 7 >= SizeLimit
    <2>1. (size + 7) % SizeLimit = size + 7 - SizeLimit
      BY <1>1, <1>3
    <2>2. getAlignedSize(size) = 0
      BY <1>1, <1>3, <2>1 DEF getAlignedSize, RoundDown8
    <2>3. QED
      BY <2>2
  <1>4. QED
    BY <1>1, <1>2, <1>3

LEMMA Times ==
    ASSUME NEW a \in Nat, NEW i \in Nat, NEW j \in Nat, i < j
    PROVE  i * a \in Nat /\ i * a + a <= j * a
  <1> DEFINE k == j - i - 1
  <1>1. k \in Nat /\ j = i + 1 + k
    OBVIOUS
  <1>2. k * a >= 0
    BY <1>1
  <1> HIDE DEF k
  <1>3. j * a = i * a + a + k * a
    BY <1>1
  <1>4. i * a \in Nat
    OBVIOUS
  <1>5. QED
    BY <1>1, <1>2, <1>3, <1>4

LEMMA Quotient ==
    ASSUME NEW n \in Nat, NEW a \in Nat, a > 0
    PROVE  n \div a \in Nat /\ (n \div a) * a <= n /\ n \div a <= n
  OBVIOUS

\* The blocks of a pool whose layout is right lie in it, apart from one another.
LEMMA LayoutFits ==
    ASSUME PoolTypeOK, LayoutKept PROVE BlocksFit
  <1> SUFFICES ASSUME poolState = "live" PROVE BlocksFit
    BY DEF BlocksFit
  <1> DEFINE a == getAlignedSize(m_blockSize)
  <1>1. /\ m_blockSize \in 1 .. SizeLimit - 1 /\ memoryPoolSize \in Nat
        /\ a # 0 /\ m_maxBlocks = memoryPoolSize \div a
    BY PoolAssumption DEF PoolTypeOK, LayoutKept
  <1>2. a \in Nat /\ a >= m_blockSize /\ a > 0
    BY <1>1, AlignedHolds
  <1>3. m_maxBlocks \in Nat /\ m_maxBlocks * a <= memoryPoolSize
    BY <1>1, <1>2, Quotient
  <1>4. \A p \in Blocks : \E i \in Nat : i < m_maxBlocks /\ p = i * a
    BY <1>3 DEF Blocks
  <1> HIDE DEF a
  <1>5. ASSUME NEW p \in Blocks PROVE p + m_blockSize <= memoryPoolSize
    <2>1. PICK i \in Nat : i < m_maxBlocks /\ p = i * a
      BY <1>4
    <2>2. p \in Nat /\ p + a <= m_maxBlocks * a
      BY <1>2, <1>3, <2>1, Times
    <2>3. m_maxBlocks * a \in Nat
      BY <1>2, <1>3
    <2>4. QED
      BY <1>1, <1>2, <1>3, <2>2, <2>3
  <1>6. ASSUME NEW p \in Blocks, NEW q \in Blocks, p < q PROVE p + m_blockSize <= q
    <2>1. PICK i \in Nat : i < m_maxBlocks /\ p = i * a
      BY <1>4
    <2>2. PICK j \in Nat : j < m_maxBlocks /\ q = j * a
      BY <1>4
    <2>3. CASE i < j
      <3>1. p \in Nat /\ p + a <= q /\ q \in Nat
        BY <1>2, <2>1, <2>2, <2>3, Times
      <3>2. QED
        BY <1>1, <1>2, <3>1
    <2>4. CASE j < i
      <3>1. q \in Nat /\ q + a <= p /\ p \in Nat
        BY <1>2, <2>1, <2>2, <2>4, Times
      <3>2. QED
        BY <1>2, <1>6, <3>1
    <2>5. CASE i = j
      <3>1. p = q /\ p \in Nat
        BY <1>2, <2>1, <2>2, <2>5
      <3>2. QED
        BY <1>6, <3>1
    <2>6. QED
      BY <2>3, <2>4, <2>5
  <1>7. QED
    BY <1>5, <1>6 DEF BlocksFit

-----------------------------------------------------------------------------
(* The free list.                                                          *)

LEMMA TakenHead ==
    ASSUME NEW s \in Seq(Nat), IsInjective(s), s # <<>>
    PROVE  /\ Head(s) \in Nat /\ Head(s) \in ToSet(s)
           /\ Tail(s) \in Seq(Nat) /\ IsInjective(Tail(s))
           /\ ToSet(Tail(s)) = ToSet(s) \ {Head(s)}
  <1> DEFINE t == Tail(s)
  <1>1. /\ Len(s) \in Nat /\ Len(s) > 0 /\ DOMAIN s = 1 .. Len(s)
        /\ Head(s) = s[1] /\ Head(s) \in Nat
        /\ t \in Seq(Nat) /\ Len(t) = Len(s) - 1 /\ DOMAIN t = 1 .. Len(t)
        /\ \A i \in 1 .. Len(t) : t[i] = s[i + 1]
    BY HeadTailProperties, EmptySeq, LenProperties
  <1>2. \A i, j \in 1 .. Len(s) : s[i] = s[j] => i = j
    BY <1>1 DEF IsInjective
  <1> HIDE DEF t
  <1>3. ASSUME NEW i \in 1 .. Len(t) PROVE i + 1 \in 1 .. Len(s) /\ t[i] = s[i + 1]
    BY <1>1
  <1>4. IsInjective(t)
    <2> SUFFICES ASSUME NEW i \in 1 .. Len(t), NEW j \in 1 .. Len(t), t[i] = t[j] PROVE i = j
      BY <1>1 DEF IsInjective
    <2>1. i + 1 = j + 1
      BY <1>2, <1>3
    <2>2. QED
      BY <2>1
  <1>5. ASSUME NEW x \in ToSet(t) PROVE x \in ToSet(s) \ {Head(s)}
    <2>1. PICK i \in 1 .. Len(t) : x = t[i]
      BY <1>1 DEF ToSet
    <2>2. i + 1 \in 1 .. Len(s) /\ x = s[i + 1] /\ 1 \in 1 .. Len(s) /\ i + 1 # 1
      BY <1>1, <1>3, <2>1
    <2>3. QED
      BY <1>1, <1>2, <2>2 DEF ToSet
  <1>6. ASSUME NEW x \in ToSet(s), x # Head(s) PROVE x \in ToSet(t)
    <2>1. PICK i \in 1 .. Len(s) : x = s[i]
      BY <1>1 DEF ToSet
    <2>2. i - 1 \in 1 .. Len(t) /\ t[i - 1] = x
      BY <1>1, <1>6, <2>1
    <2>3. QED
      BY <1>1, <2>2 DEF ToSet
  <1>7. Head(s) \in ToSet(s)
    <2>1. 1 \in 1 .. Len(s)
      BY <1>1
    <2>2. QED
      BY <1>1, <2>1 DEF ToSet
  <1>8. QED
    BY <1>1, <1>4, <1>5, <1>6, <1>7 DEF t

LEMMA GivenBack ==
    ASSUME NEW s \in Seq(Nat), IsInjective(s), NEW p \in Nat, p \notin ToSet(s)
    PROVE  /\ Append(s, p) \in Seq(Nat) /\ IsInjective(Append(s, p))
           /\ ToSet(Append(s, p)) = ToSet(s) \cup {p}
  <1> DEFINE t == Append(s, p)
  <1>1. /\ Len(s) \in Nat /\ DOMAIN s = 1 .. Len(s)
        /\ t \in Seq(Nat) /\ Len(t) = Len(s) + 1 /\ DOMAIN t = 1 .. Len(t)
        /\ t[Len(s) + 1] = p
        /\ \A i \in 1 .. Len(s) : t[i] = s[i]
    BY AppendProperties, LenProperties
  <1> HIDE DEF t
  <1>2. \A i \in 1 .. Len(t) : i \in 1 .. Len(s) \/ i = Len(s) + 1
    BY <1>1
  <1>3. IsInjective(t)
    <2> SUFFICES ASSUME NEW i \in 1 .. Len(t), NEW j \in 1 .. Len(t), t[i] = t[j] PROVE i = j
      BY <1>1 DEF IsInjective
    <2>1. \A k \in 1 .. Len(s) : t[k] # p
      BY <1>1 DEF ToSet
    <2>2. CASE i \in 1 .. Len(s) /\ j \in 1 .. Len(s)
      BY <1>1, <2>2 DEF IsInjective
    <2>3. QED
      BY <1>1, <1>2, <2>1, <2>2
  <1>4. ASSUME NEW x \in ToSet(t) PROVE x \in ToSet(s) \cup {p}
    <2>1. PICK i \in 1 .. Len(t) : x = t[i]
      BY <1>1 DEF ToSet
    <2>2. QED
      BY <1>1, <1>2, <2>1 DEF ToSet
  <1>5. ASSUME NEW x \in ToSet(s) PROVE x \in ToSet(t)
    <2>1. PICK i \in 1 .. Len(s) : x = s[i]
      BY <1>1 DEF ToSet
    <2>2. i \in 1 .. Len(t) /\ x = t[i]
      BY <1>1, <2>1
    <2>3. QED
      BY <1>1, <2>2 DEF ToSet
  <1>6. p \in ToSet(t)
    <2>1. Len(s) + 1 \in 1 .. Len(t)
      BY <1>1
    <2>2. QED
      BY <1>1, <2>1 DEF ToSet
  <1>7. QED
    BY <1>1, <1>3, <1>4, <1>5, <1>6 DEF t

\* The list that the constructor makes.
LEMMA FirstList ==
    ASSUME NEW n \in Nat, NEW a \in Nat \ {0}, NEW s, s = [i \in 1 .. n |-> (i - 1) * a]
    PROVE  /\ s \in Seq(Nat) /\ IsInjective(s)
           /\ ToSet(s) = { i * a : i \in 0 .. n - 1 }
  <1>1. s \in Seq(Nat)
    <2>1. \A i \in 1 .. n : (i - 1) * a \in Nat
      OBVIOUS
    <2>2. QED
      BY <2>1
  <1>2. IsInjective(s)
    <2> SUFFICES ASSUME NEW i \in 1 .. n, NEW j \in 1 .. n, (i - 1) * a = (j - 1) * a, i < j
                 PROVE  FALSE
      <3>1. ASSUME NEW i \in 1 .. n, NEW j \in 1 .. n, s[i] = s[j] PROVE i = j
        <4>1. (i - 1) * a = (j - 1) * a
          BY <3>1
        <4>2. QED
          BY <4>1
      <3>2. QED
        BY <3>1 DEF IsInjective
    <2>1. i - 1 \in Nat /\ j - 1 \in Nat /\ i - 1 < j - 1
      OBVIOUS
    <2>2. (i - 1) * a \in Nat /\ (i - 1) * a + a <= (j - 1) * a
      BY <2>1, Times
    <2>3. QED
      BY <2>2
  <1>3. ToSet(s) = { i * a : i \in 0 .. n - 1 }
    <2>1. ASSUME NEW x \in ToSet(s) PROVE x \in { i * a : i \in 0 .. n - 1 }
      <3>1. PICK i \in 1 .. n : x = (i - 1) * a
        BY <2>1 DEF ToSet
      <3>2. i - 1 \in 0 .. n - 1
        OBVIOUS
      <3>3. QED
        BY <3>1, <3>2
    <2>2. ASSUME NEW i \in 0 .. n - 1 PROVE i * a \in ToSet(s)
      <3>1. i + 1 \in 1 .. n /\ s[i + 1] = i * a
        OBVIOUS
      <3>2. QED
        BY <3>1 DEF ToSet
    <2>3. QED
      BY <2>1, <2>2
  <1>4. QED
    BY <1>1, <1>2, <1>3

-----------------------------------------------------------------------------
(* What the callers hold.                                                  *)

Memory == Nat \cup Heap
Apart(h) == \A c, d \in Callers : c # d => h[c] \cap h[d] = {}
Held(h) == UNION { h[c] : c \in Callers }

LEMMA HoldMore ==
    ASSUME NEW h \in [Callers -> SUBSET Memory], Apart(h), NEW c \in Callers,
           NEW p \in Memory, p \notin Held(h), NEW g, g = [h EXCEPT ![c] = @ \cup {p}]
    PROVE  g \in [Callers -> SUBSET Memory] /\ Apart(g) /\ Held(g) = Held(h) \cup {p}
  <1>1. \A d \in Callers : g[d] = IF d = c THEN h[d] \cup {p} ELSE h[d]
    OBVIOUS
  <1>2. g \in [Callers -> SUBSET Memory]
    OBVIOUS
  <1>3. \A d \in Callers : p \notin h[d]
    BY DEF Held
  <1>4. Apart(g)
    BY <1>1, <1>3 DEF Apart
  <1>5. \A x : x \in Held(g) <=> \E d \in Callers : x \in g[d]
    BY DEF Held
  <1>6. \A x : x \in Held(h) <=> \E d \in Callers : x \in h[d]
    BY DEF Held
  <1>7. Held(g) = Held(h) \cup {p}
    BY <1>1, <1>5, <1>6
  <1>8. QED
    BY <1>2, <1>4, <1>7

LEMMA HoldLess ==
    ASSUME NEW h \in [Callers -> SUBSET Memory], Apart(h), NEW c \in Callers,
           NEW p \in h[c], NEW g, g = [h EXCEPT ![c] = @ \ {p}]
    PROVE  /\ g \in [Callers -> SUBSET Memory] /\ Apart(g)
           /\ Held(g) = Held(h) \ {p} /\ p \in Held(h) /\ p \in Memory
  <1>1. \A d \in Callers : g[d] = IF d = c THEN h[d] \ {p} ELSE h[d]
    OBVIOUS
  <1>2. g \in [Callers -> SUBSET Memory]
    OBVIOUS
  <1>3. \A d \in Callers : p \in h[d] => d = c
    BY DEF Apart
  <1>4. Apart(g)
    BY <1>1 DEF Apart
  <1>5. \A x : x \in Held(g) <=> \E d \in Callers : x \in g[d]
    BY DEF Held
  <1>6. \A x : x \in Held(h) <=> \E d \in Callers : x \in h[d]
    BY DEF Held
  <1>7. Held(g) = Held(h) \ {p}
    BY <1>1, <1>3, <1>5, <1>6
  <1>8. QED
    BY <1>2, <1>4, <1>6, <1>7

-----------------------------------------------------------------------------
(* BlocksSound.                                                            *)

\* PoolIInv without what follows from the rest of it.
PoolKept ==
    /\ PoolTypeOK /\ LayoutKept
    /\ Apart(holds) /\ Held(holds) = m_usedList \cup heap
    /\ IsInjective(m_freeList)
    /\ poolState = "live" => /\ ToSet(m_freeList) \cap m_usedList = {}
                             /\ ToSet(m_freeList) \cup m_usedList = Blocks

LEMMA KeptIsIInv == PoolKept <=> PoolIInv
  BY LayoutFits DEF PoolKept, PoolIInv, BlocksSound, BlocksAccounted, Apart, Held

LEMMA PoolBegins == PoolInit => PoolKept
  <1> SUFFICES ASSUME PoolInit PROVE PoolKept
    OBVIOUS
  <1>1. SizeLimit - 1 \in Nat
    BY PoolAssumption
  <1>2. PoolTypeOK
    BY <1>1 DEF PoolInit, PoolTypeOK
  <1>3. LayoutKept
    BY DEF PoolInit, LayoutKept
  <1>4. \A c \in Callers : holds[c] = {}
    BY DEF PoolInit
  <1>5. Apart(holds) /\ Held(holds) = m_usedList \cup heap
    BY <1>4 DEF PoolInit, Apart, Held
  <1>6. IsInjective(m_freeList)
    BY DEF PoolInit, IsInjective
  <1>7. QED
    BY <1>2, <1>3, <1>5, <1>6 DEF PoolInit, PoolKept

LEMMA CreateKeeps ==
    ASSUME PoolKept, NEW b \in BlockSizes, NEW s \in PoolSizes, pool_create(b, s)
    PROVE  PoolKept'
  <1> DEFINE a == getAlignedSize(b)
  <1>1. /\ b \in 1 .. SizeLimit - 1 /\ s \in 1 .. SizeLimit - 1
        /\ SizeLimit \in Nat /\ SizeLimit >= 8
    BY PoolAssumption
  <1>2. getAlignedSize(b)' = a
    BY DEF getAlignedSize, RoundDown8
  <1>3. /\ poolState = "none" /\ m_freeList = <<>> /\ m_usedList = {} /\ heap = {}
        /\ \A c \in Callers : poolCall[c] = "none"
    BY DEF PoolKept, LayoutKept, pool_create
  <1>4. /\ m_blockSize' = b /\ memoryPoolSize' = s
        /\ m_usedList' = m_usedList /\ heap' = heap /\ holds' = holds /\ poolCall' = poolCall
    BY DEF pool_create
  <1>5. Apart(holds)' /\ (Held(holds) = m_usedList \cup heap)'
    BY <1>4 DEF PoolKept, Apart, Held
  <1>6. getAlignedSize(m_blockSize)' = a
    BY <1>4 DEF getAlignedSize, RoundDown8
  <1>7. CASE a = 0
    <2>1. poolState' = "crashed" /\ m_maxBlocks' = m_maxBlocks /\ m_freeList' = m_freeList
      BY <1>7 DEF pool_create
    <2>2. PoolTypeOK'
      BY <1>1, <1>4, <2>1 DEF PoolKept, PoolTypeOK
    <2>3. LayoutKept'
      BY <1>3, <1>4, <2>1 DEF LayoutKept
    <2>4. QED
      BY <1>5, <2>1, <2>2, <2>3 DEF PoolKept
  <1>8. CASE a # 0
    <2>1. a \in Nat /\ a >= b
      BY <1>1, <1>8, AlignedHolds
    <2>2. /\ poolState' = "live" /\ s \div a > 0 /\ m_maxBlocks' = s \div a
          /\ m_freeList' = [i \in 1 .. s \div a |-> (i - 1) * a]
      BY <1>8 DEF pool_create
    <2> HIDE DEF a
    <2>3. s \div a \in Nat /\ s \div a <= s
      BY <1>1, <1>8, <2>1, Quotient
    <2>4. /\ m_freeList' \in Seq(Nat) /\ IsInjective(m_freeList')
          /\ ToSet(m_freeList') = { i * a : i \in 0 .. (s \div a) - 1 }
      BY <1>8, <2>1, <2>2, <2>3, FirstList
    <2>5. PoolTypeOK'
      BY <1>1, <1>4, <2>2, <2>3, <2>4 DEF PoolKept, PoolTypeOK
    <2>6. LayoutKept'
      BY <1>1, <1>4, <1>6, <1>8, <2>1, <2>2 DEF LayoutKept
    <2>7. Blocks' = { i * a : i \in 0 .. (s \div a) - 1 }
      BY <1>6, <2>2 DEF Blocks
    <2>8. QED
      BY <1>3, <1>4, <1>5, <2>4, <2>5, <2>6, <2>7 DEF PoolKept
  <1>9. QED
    BY <1>7, <1>8

LEMMA TakeKeeps ==
    ASSUME PoolKept, NEW c \in Callers, TakeBlock(c) PROVE PoolKept'
  <1> DEFINE p == Head(m_freeList)
  <1>1. /\ m_freeList \in Seq(Nat) /\ IsInjective(m_freeList) /\ m_freeList # <<>>
        /\ holds \in [Callers -> SUBSET Memory] /\ Apart(holds)
    BY DEF PoolKept, PoolTypeOK, TakeBlock, Memory
  <1>2. /\ p \in Nat /\ p \in ToSet(m_freeList)
        /\ m_freeList' \in Seq(Nat) /\ IsInjective(m_freeList')
        /\ ToSet(m_freeList') = ToSet(m_freeList) \ {p}
    BY <1>1, TakenHead DEF TakeBlock
  <1>3. /\ holds' = [holds EXCEPT ![c] = @ \cup {p}] /\ m_usedList' = m_usedList \cup {p}
        /\ poolCall' = [poolCall EXCEPT ![c] = "none"] /\ heap' = heap
        /\ poolState' = poolState /\ m_blockSize' = m_blockSize
        /\ memoryPoolSize' = memoryPoolSize /\ m_maxBlocks' = m_maxBlocks
    BY DEF TakeBlock, Gets, layout
  <1>4. poolState = "live"
    BY <1>1 DEF PoolKept, LayoutKept
  <1>5. p \notin m_usedList /\ p \notin heap
    BY <1>2, <1>4, PoolAssumption DEF PoolKept, PoolTypeOK
  <1> HIDE DEF p
  <1>6. p \notin Held(holds) /\ p \in Memory
    BY <1>2, <1>5 DEF PoolKept, Memory
  <1>7. /\ holds' \in [Callers -> SUBSET Memory] /\ Apart(holds')
        /\ Held(holds') = Held(holds) \cup {p}
    BY <1>1, <1>2, <1>3, <1>6, HoldMore
  <1>8. PoolTypeOK'
    BY <1>2, <1>3, <1>7 DEF PoolKept, PoolTypeOK, Memory
  <1>9. LayoutKept'
    BY <1>3, <1>4 DEF PoolKept, LayoutKept, getAlignedSize, RoundDown8
  <1>10. Blocks' = Blocks
    BY <1>3 DEF Blocks, getAlignedSize, RoundDown8
  <1>11. ToSet(m_freeList') \cap m_usedList' = {} /\ ToSet(m_freeList') \cup m_usedList' = Blocks
    BY <1>2, <1>3, <1>4 DEF PoolKept
  <1>12. QED
    BY <1>2, <1>3, <1>7, <1>8, <1>9, <1>10, <1>11 DEF PoolKept

LEMMA LeaveKeeps ==
    ASSUME PoolKept, NEW c \in Callers, poolState = "live",
           NEW to \in {"none", "asleep", "timed_asleep"}, PoolLeave(c, to)
    PROVE  PoolKept'
  <1>1. /\ poolCall' = [poolCall EXCEPT ![c] = to]
        /\ m_freeList' = m_freeList /\ m_usedList' = m_usedList /\ heap' = heap
        /\ holds' = holds /\ poolState' = poolState /\ m_blockSize' = m_blockSize
        /\ memoryPoolSize' = memoryPoolSize /\ m_maxBlocks' = m_maxBlocks
    BY DEF PoolLeave, layout
  <1>2. PoolTypeOK'
    BY <1>1 DEF PoolKept, PoolTypeOK
  <1>3. LayoutKept'
    BY <1>1 DEF PoolKept, LayoutKept, getAlignedSize, RoundDown8
  <1>4. Blocks' = Blocks
    BY <1>1 DEF Blocks, getAlignedSize, RoundDown8
  <1>5. QED
    BY <1>1, <1>2, <1>3, <1>4 DEF PoolKept

LEMMA AllocateKeeps ==
    ASSUME PoolKept, NEW c \in Callers, allocate(c) PROVE PoolKept'
  <1>1. PICK p \in Heap \ heap : heap' = heap \cup {p} /\ holds' = [holds EXCEPT ![c] = @ \cup {p}]
    BY DEF allocate, Gets
  <1>2. /\ poolState = "live"
        /\ m_freeList' = m_freeList /\ m_usedList' = m_usedList /\ poolCall' = poolCall
        /\ poolState' = poolState /\ m_blockSize' = m_blockSize
        /\ memoryPoolSize' = memoryPoolSize /\ m_maxBlocks' = m_maxBlocks
    BY DEF allocate, layout
  <1>3. /\ p \notin Held(holds) /\ p \in Memory
        /\ holds \in [Callers -> SUBSET Memory] /\ Apart(holds)
    BY PoolAssumption DEF PoolKept, PoolTypeOK, Memory
  <1>4. /\ holds' \in [Callers -> SUBSET Memory] /\ Apart(holds')
        /\ Held(holds') = Held(holds) \cup {p}
    BY <1>1, <1>3, HoldMore
  <1>5. PoolTypeOK'
    BY <1>1, <1>2, <1>4 DEF PoolKept, PoolTypeOK, Memory
  <1>6. LayoutKept'
    BY <1>2 DEF PoolKept, LayoutKept, getAlignedSize, RoundDown8
  <1>7. Blocks' = Blocks
    BY <1>2 DEF Blocks, getAlignedSize, RoundDown8
  <1>8. QED
    BY <1>1, <1>2, <1>4, <1>5, <1>6, <1>7 DEF PoolKept

LEMMA DeallocateKeeps ==
    ASSUME PoolKept, NEW c \in Callers, NEW p \in holds[c], deallocate(c, p) PROVE PoolKept'
  <1>1. /\ holds' = [holds EXCEPT ![c] = @ \ {p}]
        /\ poolState' = poolState /\ m_blockSize' = m_blockSize
        /\ memoryPoolSize' = memoryPoolSize /\ m_maxBlocks' = m_maxBlocks
        /\ holds \in [Callers -> SUBSET Memory] /\ Apart(holds)
    BY DEF deallocate, layout, PoolKept, PoolTypeOK, Memory
  <1>2. /\ holds' \in [Callers -> SUBSET Memory] /\ Apart(holds')
        /\ Held(holds') = Held(holds) \ {p} /\ p \in Held(holds)
    <2> DEFINE g == [holds EXCEPT ![c] = @ \ {p}]
    <2>1. /\ g \in [Callers -> SUBSET Memory] /\ Apart(g)
          /\ Held(g) = Held(holds) \ {p} /\ p \in Held(holds) /\ p \in Memory
      BY <1>1, HoldLess
    <2>2. QED
      BY <1>1, <2>1
  <1>3. p \in m_usedList \cup heap
    BY <1>2 DEF PoolKept
  <1>4. poolState = "live"
    BY <1>3 DEF PoolKept, LayoutKept
  <1>5. Blocks' = Blocks
    BY <1>1 DEF Blocks, getAlignedSize, RoundDown8
  <1>6. CASE p \in m_usedList
    <2>1. /\ m_usedList' = m_usedList \ {p} /\ m_freeList' = Append(m_freeList, p)
          /\ heap' = heap
      BY <1>6 DEF deallocate, ReleaseBlock
    <2>2. p \in Nat /\ p \notin ToSet(m_freeList) /\ p \notin heap
      BY <1>4, <1>6, PoolAssumption DEF PoolKept, PoolTypeOK
    <2>3. /\ m_freeList' \in Seq(Nat) /\ IsInjective(m_freeList')
          /\ ToSet(m_freeList') = ToSet(m_freeList) \cup {p}
      BY <2>1, <2>2, GivenBack DEF PoolKept, PoolTypeOK
    <2>4. poolCall' \in [Callers -> {"none", "asleep", "look", "timed_asleep", "timed_look"}]
      <3>1. poolCall' = [d \in Callers |-> CASE poolCall[d] = "asleep" -> "look"
                            [] poolCall[d] = "timed_asleep" -> "timed_look"
                            [] OTHER -> poolCall[d]]
        BY <1>6 DEF deallocate, ReleaseBlock, WakeAll
      <3>2. poolCall \in [Callers -> {"none", "asleep", "look", "timed_asleep", "timed_look"}]
        BY DEF PoolKept, PoolTypeOK
      <3>3. QED
        BY <3>1, <3>2
    <2>5. PoolTypeOK'
      BY <1>1, <1>2, <2>1, <2>3, <2>4 DEF PoolKept, PoolTypeOK, Memory
    <2>6. LayoutKept'
      BY <1>1, <1>4 DEF PoolKept, LayoutKept, getAlignedSize, RoundDown8
    <2>7. /\ ToSet(m_freeList') \cap m_usedList' = {}
          /\ ToSet(m_freeList') \cup m_usedList' = Blocks
      BY <1>4, <1>6, <2>1, <2>3 DEF PoolKept
    <2>8. Held(holds') = m_usedList' \cup heap'
      BY <1>2, <2>1, <2>2 DEF PoolKept
    <2>9. QED
      BY <1>1, <1>2, <1>5, <2>3, <2>5, <2>6, <2>7, <2>8 DEF PoolKept
  <1>7. CASE p \notin m_usedList
    <2>1. /\ m_usedList' = m_usedList /\ m_freeList' = m_freeList /\ heap' = heap \ {p}
          /\ poolCall' = poolCall
      BY <1>7 DEF deallocate
    <2>2. PoolTypeOK'
      BY <1>1, <1>2, <2>1 DEF PoolKept, PoolTypeOK, Memory
    <2>3. LayoutKept'
      BY <1>1, <1>4 DEF PoolKept, LayoutKept, getAlignedSize, RoundDown8
    <2>4. QED
      BY <1>1, <1>2, <1>5, <1>7, <2>1, <2>2, <2>3 DEF PoolKept
  <1>8. QED
    BY <1>6, <1>7

LEMMA HandOverKeeps ==
    ASSUME PoolKept, NEW c \in Callers, NEW d \in Callers, NEW p \in holds[c],
           hand_over(c, d, p)
    PROVE  PoolKept'
  <1> DEFINE g == [holds EXCEPT ![c] = @ \ {p}]
  <1>1. /\ d # c /\ holds' = [holds EXCEPT ![c] = @ \ {p}, ![d] = @ \cup {p}]
        /\ m_freeList' = m_freeList /\ m_usedList' = m_usedList /\ poolCall' = poolCall
        /\ heap' = heap /\ poolState' = poolState /\ m_blockSize' = m_blockSize
        /\ memoryPoolSize' = memoryPoolSize /\ m_maxBlocks' = m_maxBlocks
    BY DEF hand_over, layout
  <1>2. holds \in [Callers -> SUBSET Memory] /\ Apart(holds)
    BY DEF PoolKept, PoolTypeOK, Memory
  <1>3. /\ g \in [Callers -> SUBSET Memory] /\ Apart(g)
        /\ Held(g) = Held(holds) \ {p} /\ p \in Held(holds) /\ p \in Memory
    BY <1>2, HoldLess
  <1>4. holds' = [g EXCEPT ![d] = @ \cup {p}]
    BY <1>1, <1>2
  <1> HIDE DEF g
  <1>5. /\ holds' \in [Callers -> SUBSET Memory] /\ Apart(holds')
        /\ Held(holds') = Held(g) \cup {p}
    BY <1>3, <1>4, HoldMore
  <1>6. Held(holds') = Held(holds)
    BY <1>3, <1>5
  <1>7. PoolTypeOK'
    BY <1>1, <1>5 DEF PoolKept, PoolTypeOK, Memory
  <1>8. LayoutKept'
    BY <1>1 DEF PoolKept, LayoutKept, getAlignedSize, RoundDown8
  <1>9. Blocks' = Blocks
    BY <1>1 DEF Blocks, getAlignedSize, RoundDown8
  <1>10. QED
    BY <1>1, <1>5, <1>6, <1>7, <1>8, <1>9 DEF PoolKept

LEMMA PoolDestroyKeeps == PoolKept /\ pool_destroy => PoolKept'
  <1> SUFFICES ASSUME PoolKept, pool_destroy PROVE PoolKept'
    OBVIOUS
  <1>1. /\ \A c \in Callers : holds[c] = {} /\ poolCall[c] = "none"
        /\ poolState' = "none" /\ m_freeList' = <<>> /\ m_usedList' = m_usedList
        /\ poolCall' = poolCall /\ heap' = heap /\ holds' = holds
        /\ m_blockSize' = m_blockSize
        /\ memoryPoolSize' = memoryPoolSize /\ m_maxBlocks' = m_maxBlocks
    BY DEF pool_destroy
  <1>2. Held(holds) = {}
    BY <1>1 DEF Held
  <1>3. m_usedList = {} /\ heap = {}
    BY <1>2 DEF PoolKept
  <1>4. PoolTypeOK'
    BY <1>1 DEF PoolKept, PoolTypeOK
  <1>5. LayoutKept'
    BY <1>1, <1>3 DEF LayoutKept
  <1>6. IsInjective(m_freeList')
    BY <1>1 DEF IsInjective
  <1>7. QED
    BY <1>1, <1>4, <1>5, <1>6 DEF PoolKept

LEMMA PoolStep == PoolKept /\ [PoolNext]_poolVars => PoolKept'
  <1> SUFFICES ASSUME PoolKept, [PoolNext]_poolVars PROVE PoolKept'
    OBVIOUS
  <1>1. ASSUME NEW b \in BlockSizes, NEW s \in PoolSizes, pool_create(b, s) PROVE PoolKept'
    BY <1>1, CreateKeeps
  <1>2. CASE pool_destroy
    BY <1>2, PoolDestroyKeeps
  <1>3. ASSUME NEW c \in Callers,
               allocateMemory_begin(c) \/ allocateMemory_look(c) \/ allocateMemory_timeout(c)
        PROVE  PoolKept'
    <2>1. poolState = "live"
      BY <1>3 DEF PoolKept, LayoutKept, allocateMemory_begin, allocateMemory_look,
                  allocateMemory_timeout
    <2>2. \/ TakeBlock(c) \/ PoolLeave(c, "none")
          \/ PoolLeave(c, "asleep") \/ PoolLeave(c, "timed_asleep")
      BY <1>3 DEF allocateMemory_begin, allocateMemory_look, allocateMemory_timeout
    <2>3. QED
      BY <2>1, <2>2, TakeKeeps, LeaveKeeps
  <1>4. ASSUME NEW c \in Callers, allocate(c) PROVE PoolKept'
    BY <1>4, AllocateKeeps
  <1>5. ASSUME NEW c \in Callers, NEW p \in holds[c], deallocate(c, p) PROVE PoolKept'
    BY <1>5, DeallocateKeeps
  <1>6. ASSUME NEW c \in Callers, NEW p \in holds[c], NEW d \in Callers, hand_over(c, d, p)
        PROVE  PoolKept'
    BY <1>6, HandOverKeeps
  <1>7. CASE UNCHANGED poolVars
    <2>1. /\ m_freeList' = m_freeList /\ m_usedList' = m_usedList /\ poolCall' = poolCall
          /\ heap' = heap /\ holds' = holds
          /\ poolState' = poolState /\ m_blockSize' = m_blockSize
          /\ memoryPoolSize' = memoryPoolSize /\ m_maxBlocks' = m_maxBlocks
      BY <1>7 DEF poolVars
    <2>2. PoolTypeOK'
      BY <2>1 DEF PoolKept, PoolTypeOK
    <2>3. LayoutKept'
      BY <2>1 DEF PoolKept, LayoutKept, getAlignedSize, RoundDown8
    <2>4. Blocks' = Blocks
      BY <2>1 DEF Blocks, getAlignedSize, RoundDown8
    <2>5. QED
      BY <2>1, <2>2, <2>3, <2>4 DEF PoolKept
  <1>8. QED
    BY <1>1, <1>2, <1>3, <1>4, <1>5, <1>6, <1>7 DEF PoolNext

\* The blocks of a pool are accounted for and lie apart in its memory, whatever the
\* sizes and however many threads take, hand over and give back.
THEOREM BlocksAreSound == PoolSpec => []BlocksSound
  <1>1. PoolKept => BlocksSound
    BY KeptIsIInv DEF PoolIInv
  <1>2. QED
    BY PoolBegins, PoolStep, <1>1, PTL DEF PoolSpec

-----------------------------------------------------------------------------
(* KernelPoolsKept.                                                        *)

LEMMA LeastElement ==
    ASSUME NEW S \in SUBSET Nat, S # {} PROVE Min(S) \in S
  <1> DEFINE Less == { ss \in Nat \X Nat : ss[1] < ss[2] }
  <1>1. IsWellFoundedOn(Less, Nat)
    BY NatLessThanWellFounded DEF OpToRel
  <1> HIDE DEF Less
  <1>2. PICK x \in S : \A y \in S : ~(<<y, x>> \in Less)
    BY <1>1, WFMin
  <1>3. \A y \in S : x <= y
    <2>1. ASSUME NEW y \in S, y < x PROVE FALSE
      <3>1. <<y, x>> \in Nat \X Nat /\ <<y, x>>[1] = y /\ <<y, x>>[2] = x
        BY <2>1
      <3>2. <<y, x>> \in Less
        BY <2>1, <3>1, SMTT(20) DEF Less
      <3>3. QED
        BY <1>2, <3>2
    <2>2. QED
      BY <2>1
  <1>4. QED
    BY <1>3 DEF Min

UserPlaces == InFactory \cup Leaving \cup {"none", "create_lock", "get"}

LEMMA UserGoes ==
    ASSUME ItronPoolsTypeOK, NEW c \in Callers, NEW at \in UserPlaces,
           NEW it \in m_pools \cup {0}, NEW id \in KernelIds \cup {NoPool},
           PoolUserGoes(c, at, it, id)
    PROVE  /\ poolUser'[c].at = at /\ poolUser'[c].it = it /\ poolUser'[c].id = id
           /\ \A d \in Callers : d # c => poolUser'[d] = poolUser[d]
           /\ poolUser' \in [Callers -> [at : UserPlaces, it : m_pools \cup {0},
                                         id : KernelIds \cup {NoPool}]]
  BY DEF PoolUserGoes, ItronPoolsTypeOK, UserPlaces

LEMMA UserLeaves ==
    ASSUME ItronPoolsTypeOK, NEW c \in Callers, PoolUserLeaves(c)
    PROVE  /\ poolUser'[c].at = "none" /\ poolUser'[c].it = 0 /\ poolUser'[c].id = NoPool
           /\ \A d \in Callers : d # c => poolUser'[d] = poolUser[d]
           /\ poolUser' \in [Callers -> [at : UserPlaces, it : m_pools \cup {0},
                                         id : KernelIds \cup {NoPool}]]
  BY DEF PoolUserLeaves, PoolUserGoes, ItronPoolsTypeOK, UserPlaces

LEMMA UserTypes ==
    ASSUME ItronPoolsTypeOK, NEW c \in Callers
    PROVE  /\ poolUser[c].at \in UserPlaces /\ poolUser[c].it \in m_pools \cup {0}
           /\ poolUser[c].id \in KernelIds \cup {NoPool}
  BY DEF ItronPoolsTypeOK, UserPlaces

LEMMA ItronPoolsBegin == ItronPoolsInit => ItronPoolsIInv
  <1> SUFFICES ASSUME ItronPoolsInit PROVE ItronPoolsIInv
    OBVIOUS
  <1>1. \A c \in Callers : poolUser[c] = [at |-> "none", it |-> 0, id |-> NoPool]
    BY DEF ItronPoolsInit
  <1>2. \A it \in m_pools : m_mpfId[it] = NoPool
    BY DEF ItronPoolsInit
  <1>3. \A id \in KernelIds : fblkcnt[id] = NoPool
    BY DEF ItronPoolsInit
  <1>4. ItronPoolsTypeOK
    BY DEF ItronPoolsInit, ItronPoolsTypeOK, InFactory, Leaving
  <1>5. KernelPoolsKept
    BY <1>1, <1>2, <1>3 DEF ItronPoolsInit, KernelPoolsKept, isCreated, PoolUserAt
  <1>6. WorkerHolds
    BY <1>1, OSWrapperAssumption DEF ItronPoolsInit, WorkerHolds, InFactory
  <1>7. CreateAlone /\ DestroyAlone /\ StaleLeaving /\ GetsOfCreated
    BY <1>1, <1>2 DEF CreateAlone, DestroyAlone, StaleLeaving, GetsOfCreated, isCreated,
                      PoolUserAt, Leaving
  <1>8. QED
    BY <1>4, <1>5, <1>6, <1>7 DEF ItronPoolsIInv

\* Nobody works on the array but who holds the mutex.
LEMMA OneWorker ==
    ASSUME ItronPoolsIInv, NEW c \in Callers, poolUser[c].at \in InFactory
    PROVE  /\ poolsMutex = c
           /\ \A d \in Callers : poolUser[d].at \in InFactory => d = c
  BY DEF ItronPoolsIInv, WorkerHolds

LEMMA CallsKeep ==
    ASSUME ItronPoolsIInv, NEW c \in Callers, pools_call(c) PROVE ItronPoolsIInv'
  <1>1. /\ poolUser[c].at = "none" /\ fblkcnt' = fblkcnt /\ m_mpfId' = m_mpfId
        /\ m_maxBlocksOf' = m_maxBlocksOf /\ poolsMutex' = poolsMutex
    BY DEF pools_call, PoolUserAt, memory
  <1>2. ItronPoolsTypeOK
    BY DEF ItronPoolsIInv
  <1>3. CASE PoolUserGoes(c, "create_lock", 0, NoPool) /\ created' = created
    <2>1. /\ poolUser'[c].at = "create_lock" /\ poolUser'[c].it = 0 /\ poolUser'[c].id = NoPool
          /\ \A d \in Callers : d # c => poolUser'[d] = poolUser[d]
          /\ poolUser' \in [Callers -> [at : UserPlaces, it : m_pools \cup {0},
                                         id : KernelIds \cup {NoPool}]]
      BY <1>2, <1>3, UserGoes DEF UserPlaces
    <2>2. ItronPoolsTypeOK'
      BY <1>1, <1>2, <1>3, <2>1 DEF ItronPoolsTypeOK, UserPlaces, m_pools
    <2>3. KernelPoolsKept'
      BY <1>1, <1>3, <2>1 DEF ItronPoolsIInv, KernelPoolsKept, isCreated, PoolUserAt, m_pools
    <2>4. WorkerHolds'
      BY <1>1, <2>1 DEF ItronPoolsIInv, WorkerHolds, InFactory
    <2>5. CreateAlone'
      BY <1>1, <2>1 DEF ItronPoolsIInv, CreateAlone, isCreated, PoolUserAt, m_pools
    <2>6. DestroyAlone'
      BY <1>1, <1>3, <2>1 DEF ItronPoolsIInv, DestroyAlone, isCreated, PoolUserAt, Leaving,
         m_pools
    <2>7. StaleLeaving' /\ GetsOfCreated'
      BY <1>1, <1>3, <2>1 DEF ItronPoolsIInv, StaleLeaving, GetsOfCreated, isCreated,
         PoolUserAt, m_pools
    <2>8. QED
      BY <2>2, <2>3, <2>4, <2>5, <2>6, <2>7 DEF ItronPoolsIInv
  <1>4. ASSUME NEW it \in created, created' = created \ {it},
               \A d \in Callers : poolUser[d].it # it,
               PoolUserGoes(c, "destroy_lock", it, NoPool)
        PROVE  ItronPoolsIInv'
    <2>0. it \in m_pools
      BY <1>2 DEF ItronPoolsTypeOK
    <2>1. /\ poolUser'[c].at = "destroy_lock" /\ poolUser'[c].it = it /\ poolUser'[c].id = NoPool
          /\ \A d \in Callers : d # c => poolUser'[d] = poolUser[d]
          /\ poolUser' \in [Callers -> [at : UserPlaces, it : m_pools \cup {0},
                                         id : KernelIds \cup {NoPool}]]
      BY <1>2, <1>4, <2>0, UserGoes DEF UserPlaces, Leaving
    <2>2. ItronPoolsTypeOK'
      BY <1>1, <1>2, <1>4, <2>1 DEF ItronPoolsTypeOK, UserPlaces, m_pools
    <2>3. KernelPoolsKept'
      BY <1>1, <1>4, <2>1 DEF ItronPoolsIInv, KernelPoolsKept, isCreated, PoolUserAt, m_pools
    <2>4. WorkerHolds'
      BY <1>1, <2>1 DEF ItronPoolsIInv, WorkerHolds, InFactory
    <2>5. CreateAlone'
      BY <1>1, <2>1 DEF ItronPoolsIInv, CreateAlone, isCreated, PoolUserAt, m_pools
    <2>6. DestroyAlone'
      <3>1. isCreated(it) /\ fblkcnt[m_mpfId[it]] # NoPool
        BY <1>4 DEF ItronPoolsIInv, KernelPoolsKept
      <3>2. QED
        BY <1>1, <1>4, <2>0, <2>1, <3>1 DEF ItronPoolsIInv, DestroyAlone, isCreated, PoolUserAt,
                                            Leaving, m_pools
    <2>7. StaleLeaving' /\ GetsOfCreated'
      BY <1>1, <1>4, <2>1 DEF ItronPoolsIInv, StaleLeaving, GetsOfCreated, isCreated,
         PoolUserAt, m_pools
    <2>8. QED
      BY <2>2, <2>3, <2>4, <2>5, <2>6, <2>7 DEF ItronPoolsIInv
  <1>5. ASSUME NEW it \in created, PoolUserGoes(c, "get", it, m_mpfId[it]), created' = created
        PROVE  ItronPoolsIInv'
    <2>0. it \in m_pools /\ m_mpfId[it] \in KernelIds \cup {NoPool}
      BY <1>2 DEF ItronPoolsTypeOK
    <2>1. /\ poolUser'[c].at = "get" /\ poolUser'[c].it = it /\ poolUser'[c].id = m_mpfId[it]
          /\ \A d \in Callers : d # c => poolUser'[d] = poolUser[d]
          /\ poolUser' \in [Callers -> [at : UserPlaces, it : m_pools \cup {0},
                                         id : KernelIds \cup {NoPool}]]
      BY <1>2, <1>5, <2>0, UserGoes DEF UserPlaces
    <2>2. ItronPoolsTypeOK'
      BY <1>1, <1>2, <1>5, <2>1 DEF ItronPoolsTypeOK, UserPlaces, m_pools
    <2>3. KernelPoolsKept'
      BY <1>1, <1>5, <2>1 DEF ItronPoolsIInv, KernelPoolsKept, isCreated, PoolUserAt, m_pools
    <2>4. WorkerHolds'
      BY <1>1, <2>1 DEF ItronPoolsIInv, WorkerHolds, InFactory
    <2>5. CreateAlone'
      BY <1>1, <2>1 DEF ItronPoolsIInv, CreateAlone, isCreated, PoolUserAt, m_pools
    <2>6. DestroyAlone'
      BY <1>1, <1>5, <2>1 DEF ItronPoolsIInv, DestroyAlone, isCreated, PoolUserAt, Leaving,
         m_pools
    <2>7. StaleLeaving' /\ GetsOfCreated'
      BY <1>1, <1>5, <2>1 DEF ItronPoolsIInv, StaleLeaving, GetsOfCreated, isCreated,
         PoolUserAt, m_pools
    <2>8. QED
      BY <2>2, <2>3, <2>4, <2>5, <2>6, <2>7 DEF ItronPoolsIInv
  <1>6. QED
    BY <1>3, <1>4, <1>5 DEF pools_call

LEMMA LocksKeep ==
    ASSUME ItronPoolsIInv, NEW c \in Callers, NEW from, NEW to,
           <<from, to>> \in {<<"create_lock", "create_find">>, <<"destroy_lock", "deinit">>},
           pools_lock(c, from, to)
    PROVE  ItronPoolsIInv'
  <1>1. /\ poolUser[c].at = from /\ poolsMutex = Nobody /\ poolsMutex' = c
        /\ fblkcnt' = fblkcnt /\ m_mpfId' = m_mpfId
        /\ m_maxBlocksOf' = m_maxBlocksOf /\ created' = created
        /\ PoolUserGoes(c, to, poolUser[c].it, NoPool)
    BY DEF pools_lock, PoolUserAt, memory
  <1>2. ItronPoolsTypeOK
    BY DEF ItronPoolsIInv
  <1>3. \/ from = "create_lock" /\ to = "create_find"
        \/ from = "destroy_lock" /\ to = "deinit"
    OBVIOUS
  <1>4. /\ poolUser'[c].at = to /\ poolUser'[c].it = poolUser[c].it /\ poolUser'[c].id = NoPool
        /\ \A d \in Callers : d # c => poolUser'[d] = poolUser[d]
        /\ poolUser' \in [Callers -> [at : UserPlaces, it : m_pools \cup {0},
                                       id : KernelIds \cup {NoPool}]]
    BY <1>1, <1>2, <1>3, UserGoes, UserTypes DEF UserPlaces, InFactory
  <1>5. ItronPoolsTypeOK'
    BY <1>1, <1>2, <1>4 DEF ItronPoolsTypeOK, UserPlaces, m_pools
  <1>6. KernelPoolsKept'
    BY <1>1, <1>3, <1>4 DEF ItronPoolsIInv, KernelPoolsKept, isCreated, PoolUserAt, m_pools
  <1>7. WorkerHolds'
    BY <1>1, <1>3, <1>4, OSWrapperAssumption DEF ItronPoolsIInv, WorkerHolds, InFactory
  <1>8. CreateAlone'
    BY <1>1, <1>3, <1>4 DEF ItronPoolsIInv, CreateAlone, isCreated, PoolUserAt, m_pools
  <1>9. DestroyAlone'
    BY <1>1, <1>3, <1>4 DEF ItronPoolsIInv, DestroyAlone, isCreated, PoolUserAt, Leaving, m_pools
  <1>10. StaleLeaving' /\ GetsOfCreated'
    BY <1>1, <1>3, <1>4 DEF ItronPoolsIInv, StaleLeaving, GetsOfCreated, isCreated, PoolUserAt,
                            m_pools
  <1>11. QED
    BY <1>5, <1>6, <1>7, <1>8, <1>9, <1>10 DEF ItronPoolsIInv

\* A caller that returns from create() without an element.
LEMMA ReturnKeeps ==
    ASSUME ItronPoolsIInv, NEW c \in Callers, poolUser[c].at \in {"create_find", "init"},
           UNCHANGED <<memory, created>>, pools_return(c)
    PROVE  ItronPoolsIInv'
  <1>1. /\ fblkcnt' = fblkcnt /\ m_mpfId' = m_mpfId
        /\ m_maxBlocksOf' = m_maxBlocksOf /\ created' = created
        /\ poolsMutex' = Nobody /\ PoolUserLeaves(c)
    BY DEF pools_return, memory
  <1>2. ItronPoolsTypeOK
    BY DEF ItronPoolsIInv
  <1>3. /\ poolUser'[c].at = "none" /\ poolUser'[c].it = 0 /\ poolUser'[c].id = NoPool
        /\ \A d \in Callers : d # c => poolUser'[d] = poolUser[d]
        /\ poolUser' \in [Callers -> [at : UserPlaces, it : m_pools \cup {0},
                                       id : KernelIds \cup {NoPool}]]
    BY <1>1, <1>2, UserLeaves
  <1>4. \A d \in Callers : poolUser[d].at \in InFactory => d = c
    BY OneWorker DEF InFactory
  <1>5. ItronPoolsTypeOK'
    BY <1>1, <1>2, <1>3 DEF ItronPoolsTypeOK, UserPlaces, m_pools
  <1>6. KernelPoolsKept'
    BY <1>1, <1>3 DEF ItronPoolsIInv, KernelPoolsKept, isCreated, PoolUserAt, m_pools
  <1>7. WorkerHolds'
    BY <1>1, <1>3, <1>4, OSWrapperAssumption DEF WorkerHolds, InFactory
  <1>8. CreateAlone'
    BY <1>1, <1>3 DEF ItronPoolsIInv, CreateAlone, isCreated, PoolUserAt, m_pools
  <1>9. DestroyAlone'
    BY <1>1, <1>3 DEF ItronPoolsIInv, DestroyAlone, isCreated, PoolUserAt, Leaving, m_pools
  <1>10. StaleLeaving' /\ GetsOfCreated'
    BY <1>1, <1>3 DEF ItronPoolsIInv, StaleLeaving, GetsOfCreated, isCreated, PoolUserAt, m_pools
  <1>11. QED
    BY <1>5, <1>6, <1>7, <1>8, <1>9, <1>10 DEF ItronPoolsIInv

LEMMA FindKeeps ==
    ASSUME ItronPoolsIInv, NEW c \in Callers, create_find(c) PROVE ItronPoolsIInv'
  <1> DEFINE free == { it \in m_pools : ~isCreated(it) }
  <1>1. /\ poolUser[c].at = "create_find" /\ fblkcnt' = fblkcnt /\ m_mpfId' = m_mpfId
        /\ m_maxBlocksOf' = m_maxBlocksOf /\ created' = created
    BY DEF create_find, PoolUserAt, memory
  <1>2. ItronPoolsTypeOK
    BY DEF ItronPoolsIInv
  <1>3. CASE free = {}
    BY <1>1, <1>3, ReturnKeeps DEF create_find, memory
  <1>4. CASE free # {}
    <2> DEFINE it == Min(free)
    <2>1. it \in free
      <3>1. free \in SUBSET Nat
        BY ItronPoolsAssumption DEF m_pools
      <3>2. QED
        BY <1>4, <3>1, LeastElement
    <2>2. PoolUserGoes(c, "init", it, NoPool) /\ poolsMutex' = poolsMutex
      BY <1>4 DEF create_find
    <2>3. it \in m_pools /\ ~isCreated(it)
      BY <2>1
    <2> HIDE DEF it, free
    <2>4. /\ poolUser'[c].at = "init" /\ poolUser'[c].it = it /\ poolUser'[c].id = NoPool
          /\ \A d \in Callers : d # c => poolUser'[d] = poolUser[d]
          /\ poolUser' \in [Callers -> [at : UserPlaces, it : m_pools \cup {0},
                                         id : KernelIds \cup {NoPool}]]
      BY <1>2, <2>2, <2>3, UserGoes DEF UserPlaces, InFactory
    <2>5. ItronPoolsTypeOK'
      BY <1>1, <1>2, <2>2, <2>4 DEF ItronPoolsTypeOK, UserPlaces, m_pools
    <2>6. KernelPoolsKept'
      BY <1>1, <2>4 DEF ItronPoolsIInv, KernelPoolsKept, isCreated, PoolUserAt, m_pools
    <2>7. WorkerHolds'
      BY <1>1, <2>2, <2>4 DEF ItronPoolsIInv, WorkerHolds, InFactory
    <2>8. CreateAlone'
      BY <1>1, <2>3, <2>4 DEF ItronPoolsIInv, CreateAlone, isCreated, PoolUserAt, m_pools
    <2>9. DestroyAlone'
      BY <1>1, <2>4 DEF ItronPoolsIInv, DestroyAlone, isCreated, PoolUserAt, Leaving, m_pools
    <2>10. StaleLeaving' /\ GetsOfCreated'
      BY <1>1, <2>4 DEF ItronPoolsIInv, StaleLeaving, GetsOfCreated, isCreated, PoolUserAt,
                        m_pools
    <2>11. QED
      BY <2>5, <2>6, <2>7, <2>8, <2>9, <2>10 DEF ItronPoolsIInv
  <1>5. QED
    BY <1>3, <1>4

LEMMA AcreKeeps ==
    ASSUME ItronPoolsIInv, NEW c \in Callers, init_acre(c) PROVE ItronPoolsIInv'
  <1>1. poolUser[c].at = "init" /\ created' = created
    BY DEF init_acre, PoolUserAt
  <1>2. ItronPoolsTypeOK
    BY DEF ItronPoolsIInv
  <1>3. CASE pools_return(c) /\ UNCHANGED memory
    BY <1>1, <1>3, ReturnKeeps
  <1>4. ASSUME NEW id \in KernelIds, NEW n \in BlockCounts \ {0},
               fblkcnt[id] = NoPool, fblkcnt' = [fblkcnt EXCEPT ![id] = n],
               m_maxBlocksOf' = [m_maxBlocksOf EXCEPT ![poolUser[c].it] = n],
               PoolUserGoes(c, "init_id", poolUser[c].it, id),
               m_mpfId' = m_mpfId, poolsMutex' = poolsMutex
        PROVE  ItronPoolsIInv'
    <2>1. /\ poolUser'[c].at = "init_id" /\ poolUser'[c].it = poolUser[c].it
          /\ poolUser'[c].id = id
          /\ \A d \in Callers : d # c => poolUser'[d] = poolUser[d]
          /\ poolUser' \in [Callers -> [at : UserPlaces, it : m_pools \cup {0},
                                         id : KernelIds \cup {NoPool}]]
      BY <1>2, <1>4, UserGoes, UserTypes DEF UserPlaces, InFactory
    <2>2. n \in Nat /\ n # NoPool
      BY ItronPoolsAssumption
    <2>3. /\ fblkcnt' \in [KernelIds -> Nat \cup {NoPool}] /\ fblkcnt'[id] # NoPool
          /\ \A k \in KernelIds : k # id => fblkcnt'[k] = fblkcnt[k]
      BY <1>2, <1>4, <2>2 DEF ItronPoolsTypeOK
    <2>4. \A d \in Callers : poolUser[d].at \in InFactory => d = c
      BY <1>1, OneWorker DEF InFactory
    \* No element has the new id: one that still had it would be of a pool that is no
    \* more, and so in the hands of another who works on the array.
    <2>5. \A it \in m_pools : m_mpfId[it] # id
      <3> SUFFICES ASSUME NEW it \in m_pools, m_mpfId[it] = id PROVE FALSE
        OBVIOUS
      <3>1. isCreated(it) /\ fblkcnt[m_mpfId[it]] = NoPool
        BY <1>4, ItronPoolsAssumption DEF isCreated
      <3>2. PICK d \in Callers : poolUser[d].at = "deinit_id"
        BY <3>1 DEF ItronPoolsIInv, StaleLeaving, PoolUserAt
      <3>3. QED
        BY <1>1, <2>4, <3>2 DEF InFactory
    <2>6. ItronPoolsTypeOK'
      BY <1>1, <1>2, <1>4, <2>1, <2>2, <2>3 DEF ItronPoolsTypeOK, UserPlaces, m_pools
    <2>7. KernelPoolsKept'
      <3>1. \A it \in created' : isCreated(it)' /\ fblkcnt'[m_mpfId'[it]] # NoPool
        BY <1>1, <1>2, <1>4, <2>3 DEF ItronPoolsIInv, KernelPoolsKept, isCreated, ItronPoolsTypeOK
      <3>2. \A i, j \in m_pools' : isCreated(i)' /\ m_mpfId'[i] = m_mpfId'[j] => i = j
        BY <1>4 DEF ItronPoolsIInv, KernelPoolsKept, isCreated, m_pools
      <3>3. \A k \in KernelIds : fblkcnt'[k] # NoPool =>
                \/ \E it \in m_pools' : m_mpfId'[it] = k
                \/ \E d \in Callers : PoolUserAt(d, "init_id")' /\ poolUser'[d].id = k
        BY <1>1, <1>4, <2>1, <2>3 DEF ItronPoolsIInv, KernelPoolsKept, PoolUserAt, m_pools
      <3>4. \A d \in Callers : PoolUserAt(d, "get")' => fblkcnt'[poolUser'[d].id] # NoPool
        <4> SUFFICES ASSUME NEW d \in Callers, poolUser'[d].at = "get"
                     PROVE  fblkcnt'[poolUser'[d].id] # NoPool
          BY DEF PoolUserAt
        <4>1. d # c /\ poolUser'[d] = poolUser[d]
          BY <2>1
        <4>2. fblkcnt[poolUser[d].id] # NoPool /\ poolUser[d].it \in created
              /\ poolUser[d].id = m_mpfId[poolUser[d].it]
          BY <4>1 DEF ItronPoolsIInv, KernelPoolsKept, GetsOfCreated, PoolUserAt
        <4>3. poolUser[d].id \in KernelIds
          BY <1>2, <4>2 DEF ItronPoolsIInv, KernelPoolsKept, isCreated, ItronPoolsTypeOK
        <4>4. QED
          BY <2>3, <4>1, <4>2, <4>3
      <3>5. QED
        BY <3>1, <3>2, <3>3, <3>4 DEF KernelPoolsKept
    <2>8. WorkerHolds'
      BY <1>1, <1>4, <2>1 DEF ItronPoolsIInv, WorkerHolds, InFactory
    <2>9. CreateAlone'
      BY <1>1, <1>4, <2>1, <2>3, <2>4, <2>5
         DEF ItronPoolsIInv, CreateAlone, isCreated, PoolUserAt, m_pools, InFactory
    <2>10. DestroyAlone'
      <3>1. \A d \in Callers : poolUser[d].at \in Leaving =>
                /\ poolUser[d].it \in m_pools /\ m_mpfId[poolUser[d].it] \in KernelIds
        BY <1>2 DEF ItronPoolsIInv, DestroyAlone, isCreated, ItronPoolsTypeOK
      <3>2. QED
        BY <1>1, <1>4, <2>1, <2>3, <2>5, <3>1
           DEF ItronPoolsIInv, DestroyAlone, isCreated, PoolUserAt, Leaving, m_pools
    <2>11. StaleLeaving'
      <3>1. \A it \in m_pools : isCreated(it) => m_mpfId[it] \in KernelIds
        BY <1>2 DEF ItronPoolsTypeOK, isCreated
      <3>2. QED
        BY <1>1, <1>4, <2>1, <2>3, <2>5, <3>1
           DEF ItronPoolsIInv, StaleLeaving, isCreated, PoolUserAt, m_pools
    <2>12. GetsOfCreated'
      BY <1>1, <1>4, <2>1 DEF ItronPoolsIInv, GetsOfCreated, PoolUserAt, m_pools
    <2>13. QED
      BY <2>6, <2>7, <2>8, <2>9, <2>10, <2>11, <2>12 DEF ItronPoolsIInv
  <1>5. QED
    BY <1>3, <1>4 DEF init_acre

LEMMA InitIdKeeps ==
    ASSUME ItronPoolsIInv, NEW c \in Callers, init_id(c) PROVE ItronPoolsIInv'
  <1> DEFINE it == poolUser[c].it  id == poolUser[c].id
  <1>1. /\ poolUser[c].at = "init_id" /\ poolsMutex' = Nobody /\ PoolUserLeaves(c)
        /\ m_mpfId' = [m_mpfId EXCEPT ![it] = id] /\ created' = created \cup {it}
        /\ fblkcnt' = fblkcnt /\ m_maxBlocksOf' = m_maxBlocksOf
    BY DEF init_id, PoolUserAt, pools_return
  <1>2. ItronPoolsTypeOK
    BY DEF ItronPoolsIInv
  <1>3. /\ it \in m_pools /\ m_mpfId[it] = NoPool /\ id \in KernelIds /\ fblkcnt[id] # NoPool
        /\ \A i \in m_pools : m_mpfId[i] # id
    BY <1>1 DEF ItronPoolsIInv, CreateAlone, isCreated, PoolUserAt
  <1>4. /\ poolUser'[c].at = "none" /\ poolUser'[c].it = 0 /\ poolUser'[c].id = NoPool
        /\ \A d \in Callers : d # c => poolUser'[d] = poolUser[d]
        /\ poolUser' \in [Callers -> [at : UserPlaces, it : m_pools \cup {0},
                                       id : KernelIds \cup {NoPool}]]
    BY <1>1, <1>2, UserLeaves
  <1>5. \A d \in Callers : poolUser[d].at \in InFactory => d = c
    BY <1>1, OneWorker DEF InFactory
  <1> HIDE DEF it, id
  <1>6. /\ m_mpfId' \in [m_pools -> KernelIds \cup {NoPool}] /\ m_mpfId'[it] = id /\ id # NoPool
        /\ \A i \in m_pools : i # it => m_mpfId'[i] = m_mpfId[i]
    BY <1>1, <1>2, <1>3, ItronPoolsAssumption DEF ItronPoolsTypeOK
  <1>7. ItronPoolsTypeOK'
    BY <1>1, <1>2, <1>3, <1>4, <1>6 DEF ItronPoolsTypeOK, UserPlaces, m_pools
  <1>8. KernelPoolsKept'
    <2>1. \A i \in created' : isCreated(i)' /\ fblkcnt'[m_mpfId'[i]] # NoPool
      BY <1>1, <1>2, <1>3, <1>6 DEF ItronPoolsIInv, KernelPoolsKept, isCreated, ItronPoolsTypeOK
    <2>2. \A i, j \in m_pools : isCreated(i)' /\ m_mpfId'[i] = m_mpfId'[j] => i = j
      BY <1>3, <1>6 DEF ItronPoolsIInv, KernelPoolsKept, isCreated
    <2>3. \A k \in KernelIds : fblkcnt'[k] # NoPool => \E i \in m_pools : m_mpfId'[i] = k
      <3> SUFFICES ASSUME NEW k \in KernelIds, fblkcnt[k] # NoPool, k # id
                   PROVE  \E i \in m_pools : m_mpfId'[i] = k
        BY <1>1, <1>3, <1>6
      <3>1. PICK i \in m_pools : m_mpfId[i] = k
        BY <1>1, <1>5 DEF ItronPoolsIInv, KernelPoolsKept, PoolUserAt, InFactory, id
      <3>2. i # it
        BY <1>3, <3>1, ItronPoolsAssumption
      <3>3. QED
        BY <1>6, <3>1, <3>2
    <2>4. \A d \in Callers : PoolUserAt(d, "get")' => fblkcnt'[poolUser'[d].id] # NoPool
      BY <1>1, <1>4 DEF ItronPoolsIInv, KernelPoolsKept, PoolUserAt
    <2>5. QED
      BY <2>1, <2>2, <2>3, <2>4 DEF KernelPoolsKept, m_pools
  <1>9. WorkerHolds'
    BY <1>1, <1>4, <1>5, OSWrapperAssumption DEF WorkerHolds, InFactory
  <1>10. CreateAlone'
    BY <1>4, <1>5 DEF CreateAlone, PoolUserAt, InFactory
  <1>11. DestroyAlone'
    <2>1. \A d \in Callers : poolUser[d].at \in Leaving =>
              /\ poolUser[d].it \in m_pools \ created /\ poolUser[d].it # it
              /\ isCreated(poolUser[d].it)
      BY <1>3 DEF ItronPoolsIInv, DestroyAlone, isCreated
    <2>2. QED
      BY <1>1, <1>4, <1>6, <2>1 DEF ItronPoolsIInv, DestroyAlone, isCreated, PoolUserAt, Leaving,
                                    m_pools
  <1>12. StaleLeaving'
    BY <1>1, <1>3, <1>4, <1>6 DEF ItronPoolsIInv, StaleLeaving, isCreated, PoolUserAt, m_pools
  <1>13. GetsOfCreated'
    <2>1. it \notin created
      BY <1>3 DEF ItronPoolsIInv, KernelPoolsKept, isCreated
    <2>2. created \subseteq m_pools
      BY <1>2 DEF ItronPoolsTypeOK
    <2>3. QED
      BY <1>1, <1>4, <1>6, <2>1, <2>2 DEF ItronPoolsIInv, GetsOfCreated, PoolUserAt, m_pools
  <1>14. QED
    BY <1>7, <1>8, <1>9, <1>10, <1>11, <1>12, <1>13 DEF ItronPoolsIInv

\* What is given up: the element is nobody's, and of another pool than any other is.
LEMMA GivenUp ==
    ASSUME ItronPoolsIInv, NEW c \in Callers, poolUser[c].at \in {"deinit", "deinit_id"}
    PROVE  LET it == poolUser[c].it
           IN  /\ it \in m_pools /\ it \notin created /\ m_mpfId[it] \in KernelIds
               /\ poolUser[c].at = "deinit_id" <=> fblkcnt[m_mpfId[it]] = NoPool
               /\ \A i \in m_pools : i # it => m_mpfId[i] # m_mpfId[it]
               /\ \A d \in Callers : poolUser[d].at \in Leaving /\ d # c => poolUser[d].it # it
               /\ \A d \in Callers : poolUser[d].at \in InFactory => d = c
  <1> DEFINE it == poolUser[c].it
  <1>1. it \in m_pools \ created /\ isCreated(it)
    BY DEF ItronPoolsIInv, DestroyAlone, Leaving
  <1>2. poolUser[c].at = "deinit_id" <=> fblkcnt[m_mpfId[it]] = NoPool
    BY DEF ItronPoolsIInv, DestroyAlone, Leaving, PoolUserAt
  <1>3. m_mpfId[it] \in KernelIds
    BY <1>1 DEF ItronPoolsIInv, ItronPoolsTypeOK, isCreated
  <1>4. \A i \in m_pools : i # it => m_mpfId[i] # m_mpfId[it]
    BY <1>1 DEF ItronPoolsIInv, KernelPoolsKept, isCreated
  <1>5. \A d \in Callers : poolUser[d].at \in Leaving /\ d # c => poolUser[d].it # it
    BY DEF ItronPoolsIInv, DestroyAlone, Leaving
  <1>6. \A d \in Callers : poolUser[d].at \in InFactory => d = c
    BY OneWorker DEF InFactory
  <1>7. QED
    BY <1>1, <1>2, <1>3, <1>4, <1>5, <1>6

LEMMA DeinitKeeps ==
    ASSUME ItronPoolsIInv, NEW c \in Callers, poolUser[c].at = "deinit", deinit(c)
    PROVE  ItronPoolsIInv'
  <1> DEFINE it == poolUser[c].it  id == m_mpfId[it]
  <1>1. /\ fblkcnt' = [fblkcnt EXCEPT ![id] = NoPool] /\ PoolUserGoes(c, "deinit_id", it, NoPool)
        /\ m_mpfId' = m_mpfId /\ poolsMutex' = poolsMutex /\ m_maxBlocksOf' = m_maxBlocksOf
        /\ created' = created
    BY DEF deinit, PoolUserAt
  <1>2. ItronPoolsTypeOK
    BY DEF ItronPoolsIInv
  <1>3. /\ it \in m_pools /\ it \notin created /\ id \in KernelIds /\ fblkcnt[id] # NoPool
        /\ \A i \in m_pools : i # it => m_mpfId[i] # id
        /\ \A d \in Callers : poolUser[d].at \in Leaving /\ d # c => poolUser[d].it # it
        /\ \A d \in Callers : poolUser[d].at \in InFactory => d = c
    BY GivenUp
  <1>4. /\ poolUser'[c].at = "deinit_id" /\ poolUser'[c].it = it /\ poolUser'[c].id = NoPool
        /\ \A d \in Callers : d # c => poolUser'[d] = poolUser[d]
        /\ poolUser' \in [Callers -> [at : UserPlaces, it : m_pools \cup {0},
                                       id : KernelIds \cup {NoPool}]]
    BY <1>1, <1>2, <1>3, UserGoes DEF UserPlaces, InFactory
  <1> HIDE DEF it, id
  <1>5. /\ fblkcnt' \in [KernelIds -> Nat \cup {NoPool}] /\ fblkcnt'[id] = NoPool
        /\ \A k \in KernelIds : k # id => fblkcnt'[k] = fblkcnt[k]
    BY <1>1, <1>2, <1>3 DEF ItronPoolsTypeOK
  <1>6. \A i \in m_pools : isCreated(i) => m_mpfId[i] \in KernelIds
    BY <1>2 DEF ItronPoolsTypeOK, isCreated
  <1>7. created \subseteq m_pools /\ \A i \in created : i # it
    BY <1>2, <1>3 DEF ItronPoolsTypeOK
  <1>8. ItronPoolsTypeOK'
    BY <1>1, <1>2, <1>4, <1>5 DEF ItronPoolsTypeOK, UserPlaces, m_pools
  <1>9. KernelPoolsKept'
    <2>1. \A i \in created' : isCreated(i)' /\ fblkcnt'[m_mpfId'[i]] # NoPool
      BY <1>1, <1>3, <1>5, <1>6, <1>7 DEF ItronPoolsIInv, KernelPoolsKept, isCreated
    <2>2. \A i, j \in m_pools : isCreated(i)' /\ m_mpfId'[i] = m_mpfId'[j] => i = j
      BY <1>1 DEF ItronPoolsIInv, KernelPoolsKept, isCreated
    <2>3. \A k \in KernelIds : fblkcnt'[k] # NoPool => \E i \in m_pools : m_mpfId'[i] = k
      <3> SUFFICES ASSUME NEW k \in KernelIds, fblkcnt[k] # NoPool
                   PROVE  \E i \in m_pools : m_mpfId[i] = k
        BY <1>1, <1>5
      <3>1. QED
        BY <1>3 DEF ItronPoolsIInv, KernelPoolsKept, PoolUserAt, InFactory
    <2>4. \A d \in Callers : PoolUserAt(d, "get")' => fblkcnt'[poolUser'[d].id] # NoPool
      <3> SUFFICES ASSUME NEW d \in Callers, poolUser'[d].at = "get"
                   PROVE  fblkcnt'[poolUser'[d].id] # NoPool
        BY DEF PoolUserAt
      <3>1. poolUser'[d] = poolUser[d] /\ poolUser[d].at = "get"
        BY <1>4
      <3>2. poolUser[d].it \in created /\ poolUser[d].id = m_mpfId[poolUser[d].it]
        BY <3>1 DEF ItronPoolsIInv, GetsOfCreated, PoolUserAt
      <3>3. QED
        BY <1>1, <2>1, <3>1, <3>2
    <2>5. QED
      BY <2>1, <2>2, <2>3, <2>4 DEF KernelPoolsKept, m_pools
  <1>10. WorkerHolds'
    BY <1>1, <1>3, <1>4 DEF ItronPoolsIInv, WorkerHolds, InFactory
  <1>11. CreateAlone'
    BY <1>3, <1>4 DEF CreateAlone, PoolUserAt, InFactory
  <1>12. DestroyAlone'
    <2>1. \A d \in Callers : poolUser[d].at \in Leaving =>
              /\ poolUser[d].it \in m_pools \ created /\ isCreated(poolUser[d].it)
              /\ d # c => poolUser[d].it # it
      BY <1>3 DEF ItronPoolsIInv, DestroyAlone, isCreated
    <2>2. poolUser[c].it = it /\ poolUser[c].at \in Leaving /\ isCreated(it)
      BY <1>3, ItronPoolsAssumption DEF it, id, Leaving, isCreated
    <2>3. QED
      BY <1>1, <1>3, <1>4, <1>5, <1>6, <2>1, <2>2
         DEF ItronPoolsIInv, DestroyAlone, isCreated, PoolUserAt, Leaving, m_pools, id
  <1>13. StaleLeaving'
    BY <1>1, <1>3, <1>4, <1>5, <1>6 DEF ItronPoolsIInv, StaleLeaving, isCreated, PoolUserAt,
       m_pools
  <1>14. GetsOfCreated'
    BY <1>1, <1>4 DEF ItronPoolsIInv, GetsOfCreated, PoolUserAt
  <1>15. QED
    BY <1>8, <1>9, <1>10, <1>11, <1>12, <1>13, <1>14 DEF ItronPoolsIInv

LEMMA DeinitIdKeeps ==
    ASSUME ItronPoolsIInv, NEW c \in Callers, poolUser[c].at = "deinit_id", deinit(c)
    PROVE  ItronPoolsIInv'
  <1> DEFINE it == poolUser[c].it  id == m_mpfId[it]
  <1>1. /\ m_mpfId' = [m_mpfId EXCEPT ![it] = NoPool]
        /\ poolsMutex' = Nobody /\ PoolUserLeaves(c)
        /\ fblkcnt' = fblkcnt /\ m_maxBlocksOf' = m_maxBlocksOf /\ created' = created
    BY DEF deinit, PoolUserAt, pools_return
  <1>2. ItronPoolsTypeOK
    BY DEF ItronPoolsIInv
  <1>3. /\ it \in m_pools /\ it \notin created /\ id \in KernelIds /\ fblkcnt[id] = NoPool
        /\ \A i \in m_pools : i # it => m_mpfId[i] # id
        /\ \A d \in Callers : poolUser[d].at \in Leaving /\ d # c => poolUser[d].it # it
        /\ \A d \in Callers : poolUser[d].at \in InFactory => d = c
    BY GivenUp
  <1>4. /\ poolUser'[c].at = "none" /\ poolUser'[c].it = 0 /\ poolUser'[c].id = NoPool
        /\ \A d \in Callers : d # c => poolUser'[d] = poolUser[d]
        /\ poolUser' \in [Callers -> [at : UserPlaces, it : m_pools \cup {0},
                                       id : KernelIds \cup {NoPool}]]
    BY <1>1, <1>2, UserLeaves
  <1>5. poolUser[c].it = it /\ m_mpfId[it] = id
    OBVIOUS
  <1> HIDE DEF it, id
  <1>6. /\ m_mpfId' \in [m_pools -> KernelIds \cup {NoPool}] /\ m_mpfId'[it] = NoPool
        /\ \A i \in m_pools : i # it => m_mpfId'[i] = m_mpfId[i]
    BY <1>1, <1>2, <1>3 DEF ItronPoolsTypeOK
  <1>7. created \subseteq m_pools /\ \A i \in created : i # it
    BY <1>2, <1>3 DEF ItronPoolsTypeOK
  <1>8. ItronPoolsTypeOK'
    BY <1>1, <1>2, <1>4, <1>6 DEF ItronPoolsTypeOK, UserPlaces, m_pools
  <1>9. KernelPoolsKept'
    <2>1. \A i \in created' : isCreated(i)' /\ fblkcnt'[m_mpfId'[i]] # NoPool
      BY <1>1, <1>6, <1>7 DEF ItronPoolsIInv, KernelPoolsKept, isCreated
    <2>2. \A i, j \in m_pools : isCreated(i)' /\ m_mpfId'[i] = m_mpfId'[j] => i = j
      BY <1>6 DEF ItronPoolsIInv, KernelPoolsKept, isCreated
    <2>3. \A k \in KernelIds : fblkcnt'[k] # NoPool => \E i \in m_pools : m_mpfId'[i] = k
      <3> SUFFICES ASSUME NEW k \in KernelIds, fblkcnt[k] # NoPool
                   PROVE  \E i \in m_pools : m_mpfId'[i] = k
        BY <1>1
      <3>1. PICK i \in m_pools : m_mpfId[i] = k
        BY <1>3 DEF ItronPoolsIInv, KernelPoolsKept, PoolUserAt, InFactory
      <3>2. QED
        BY <1>3, <1>5, <1>6, <3>1
    <2>4. \A d \in Callers : PoolUserAt(d, "get")' => fblkcnt'[poolUser'[d].id] # NoPool
      BY <1>1, <1>4 DEF ItronPoolsIInv, KernelPoolsKept, PoolUserAt
    <2>5. QED
      BY <2>1, <2>2, <2>3, <2>4 DEF KernelPoolsKept, m_pools
  <1>10. WorkerHolds'
    BY <1>1, <1>3, <1>4, OSWrapperAssumption DEF WorkerHolds, InFactory
  <1>11. CreateAlone'
    BY <1>3, <1>4 DEF CreateAlone, PoolUserAt, InFactory
  <1>12. DestroyAlone'
    <2>1. \A d \in Callers : poolUser'[d].at \in Leaving =>
              /\ poolUser'[d] = poolUser[d] /\ d # c
              /\ poolUser[d].it \in m_pools \ created /\ poolUser[d].it # it
      BY <1>3, <1>4 DEF ItronPoolsIInv, DestroyAlone, Leaving
    <2>2. QED
      BY <1>1, <1>6, <2>1 DEF ItronPoolsIInv, DestroyAlone, isCreated, PoolUserAt, Leaving,
         m_pools
  <1>13. StaleLeaving'
    BY <1>1, <1>4, <1>5, <1>6 DEF ItronPoolsIInv, StaleLeaving, isCreated, PoolUserAt, m_pools
  <1>14. GetsOfCreated'
    BY <1>1, <1>4, <1>6, <1>7 DEF ItronPoolsIInv, GetsOfCreated, PoolUserAt
  <1>15. QED
    BY <1>8, <1>9, <1>10, <1>11, <1>12, <1>13, <1>14 DEF ItronPoolsIInv

\* A step of the kernel that leaves the pools what they are: only a count changes.
LEMMA CountKeeps ==
    ASSUME ItronPoolsIInv, NEW id \in KernelIds, NEW n \in Nat, fblkcnt[id] # NoPool,
           fblkcnt' = [fblkcnt EXCEPT ![id] = n],
           UNCHANGED <<m_mpfId, m_maxBlocksOf, poolsMutex, created, poolUser>>
    PROVE  ItronPoolsIInv'
  <1>1. /\ fblkcnt' \in [KernelIds -> Nat \cup {NoPool}]
        /\ \A k \in KernelIds : fblkcnt'[k] = NoPool <=> fblkcnt[k] = NoPool
    BY ItronPoolsAssumption DEF ItronPoolsIInv, ItronPoolsTypeOK
  <1>2. \A i \in m_pools : isCreated(i) => m_mpfId[i] \in KernelIds
    BY DEF ItronPoolsIInv, ItronPoolsTypeOK, isCreated
  <1>3. \A c \in Callers : PoolUserAt(c, "get") => poolUser[c].id \in KernelIds
    BY <1>2 DEF ItronPoolsIInv, ItronPoolsTypeOK, KernelPoolsKept, GetsOfCreated
  <1>4. created \subseteq m_pools
    BY DEF ItronPoolsIInv, ItronPoolsTypeOK
  <1>5. ItronPoolsTypeOK'
    BY <1>1 DEF ItronPoolsIInv, ItronPoolsTypeOK, m_pools
  <1>6. KernelPoolsKept'
    BY <1>1, <1>2, <1>3, <1>4 DEF ItronPoolsIInv, KernelPoolsKept, isCreated, PoolUserAt, m_pools
  <1>7. WorkerHolds' /\ GetsOfCreated'
    BY DEF ItronPoolsIInv, WorkerHolds, GetsOfCreated, PoolUserAt
  <1>8. CreateAlone'
    BY <1>1 DEF ItronPoolsIInv, CreateAlone, isCreated, PoolUserAt, m_pools
  <1>9. DestroyAlone'
    BY <1>1, <1>2 DEF ItronPoolsIInv, DestroyAlone, isCreated, PoolUserAt, Leaving, m_pools
  <1>10. StaleLeaving'
    BY <1>1, <1>2 DEF ItronPoolsIInv, StaleLeaving, isCreated, PoolUserAt, m_pools
  <1>11. QED
    BY <1>5, <1>6, <1>7, <1>8, <1>9, <1>10 DEF ItronPoolsIInv

LEMMA GetKeeps ==
    ASSUME ItronPoolsIInv, NEW c \in Callers, pool_get(c) PROVE ItronPoolsIInv'
  <1> DEFINE id == poolUser[c].id
  <1>1. /\ poolUser[c].at = "get" /\ PoolUserLeaves(c)
        /\ m_mpfId' = m_mpfId /\ m_maxBlocksOf' = m_maxBlocksOf
        /\ poolsMutex' = poolsMutex /\ created' = created
    BY DEF pool_get, PoolUserAt
  <1>2. ItronPoolsTypeOK
    BY DEF ItronPoolsIInv
  <1>3. id \in KernelIds /\ fblkcnt[id] \in Nat
    <2>1. isCreated(poolUser[c].it) /\ poolUser[c].it \in m_pools
          /\ id = m_mpfId[poolUser[c].it] /\ fblkcnt[id] # NoPool
      BY <1>1, <1>2 DEF ItronPoolsIInv, ItronPoolsTypeOK, KernelPoolsKept, GetsOfCreated,
                        PoolUserAt
    <2>2. id \in KernelIds
      BY <1>2, <2>1 DEF ItronPoolsTypeOK, isCreated
    <2>3. QED
      BY <1>2, <2>1, <2>2 DEF ItronPoolsTypeOK
  <1>4. \/ fblkcnt[id] > 0 /\ fblkcnt' = [fblkcnt EXCEPT ![id] = @ - 1]
        \/ fblkcnt' = fblkcnt
    BY DEF pool_get
  <1>5. /\ poolUser'[c].at = "none" /\ poolUser'[c].it = 0 /\ poolUser'[c].id = NoPool
        /\ \A d \in Callers : d # c => poolUser'[d] = poolUser[d]
        /\ poolUser' \in [Callers -> [at : UserPlaces, it : m_pools \cup {0},
                                       id : KernelIds \cup {NoPool}]]
    BY <1>1, <1>2, UserLeaves
  <1> HIDE DEF id
  <1>6. /\ fblkcnt' \in [KernelIds -> Nat \cup {NoPool}]
        /\ \A k \in KernelIds : fblkcnt'[k] = NoPool <=> fblkcnt[k] = NoPool
    BY <1>2, <1>3, <1>4, ItronPoolsAssumption DEF ItronPoolsTypeOK
  <1>7. \A i \in m_pools : isCreated(i) => m_mpfId[i] \in KernelIds
    BY <1>2 DEF ItronPoolsTypeOK, isCreated
  <1>8. created \subseteq m_pools
    BY <1>2 DEF ItronPoolsTypeOK
  <1>9. \A d \in Callers : PoolUserAt(d, "get") => poolUser[d].id \in KernelIds
    BY <1>7, <1>8 DEF ItronPoolsIInv, KernelPoolsKept, GetsOfCreated
  <1>10. ItronPoolsTypeOK'
    BY <1>1, <1>2, <1>5, <1>6 DEF ItronPoolsTypeOK, UserPlaces, m_pools
  <1>11. KernelPoolsKept'
    <2>1. \A i \in created' : isCreated(i)' /\ fblkcnt'[m_mpfId'[i]] # NoPool
      BY <1>1, <1>6, <1>7, <1>8 DEF ItronPoolsIInv, KernelPoolsKept, isCreated
    <2>2. \A i, j \in m_pools : isCreated(i)' /\ m_mpfId'[i] = m_mpfId'[j] => i = j
      BY <1>1 DEF ItronPoolsIInv, KernelPoolsKept, isCreated
    <2>3. \A k \in KernelIds : fblkcnt'[k] # NoPool =>
              \/ \E i \in m_pools : m_mpfId'[i] = k
              \/ \E d \in Callers : PoolUserAt(d, "init_id")' /\ poolUser'[d].id = k
      BY <1>1, <1>5, <1>6 DEF ItronPoolsIInv, KernelPoolsKept, PoolUserAt
    <2>4. \A d \in Callers : PoolUserAt(d, "get")' => fblkcnt'[poolUser'[d].id] # NoPool
      BY <1>1, <1>5, <1>6, <1>9 DEF ItronPoolsIInv, KernelPoolsKept, PoolUserAt
    <2>5. QED
      BY <2>1, <2>2, <2>3, <2>4 DEF KernelPoolsKept, m_pools
  <1>12. WorkerHolds'
    BY <1>1, <1>5 DEF ItronPoolsIInv, WorkerHolds, InFactory
  <1>13. CreateAlone'
    BY <1>1, <1>5, <1>6 DEF ItronPoolsIInv, CreateAlone, isCreated, PoolUserAt, m_pools
  <1>14. DestroyAlone'
    BY <1>1, <1>5, <1>6, <1>7 DEF ItronPoolsIInv, DestroyAlone, isCreated, PoolUserAt, Leaving,
                                  m_pools
  <1>15. StaleLeaving'
    BY <1>1, <1>5, <1>6, <1>7 DEF ItronPoolsIInv, StaleLeaving, isCreated, PoolUserAt, m_pools
  <1>16. GetsOfCreated'
    BY <1>1, <1>5 DEF ItronPoolsIInv, GetsOfCreated, PoolUserAt
  <1>17. QED
    BY <1>10, <1>11, <1>12, <1>13, <1>14, <1>15, <1>16 DEF ItronPoolsIInv

LEMMA ReleaseKeeps ==
    ASSUME ItronPoolsIInv, NEW c \in Callers, NEW it \in m_pools, pool_release(c, it)
    PROVE  ItronPoolsIInv'
  <1>1. it \in created /\ fblkcnt' = [fblkcnt EXCEPT ![m_mpfId[it]] = @ + 1]
    BY DEF pool_release
  <1>2. isCreated(it) /\ fblkcnt[m_mpfId[it]] # NoPool
    BY <1>1 DEF ItronPoolsIInv, KernelPoolsKept
  <1>3. m_mpfId[it] \in KernelIds
    BY <1>2 DEF ItronPoolsIInv, ItronPoolsTypeOK, isCreated
  <1>4. fblkcnt[m_mpfId[it]] \in Nat
    BY <1>2, <1>3 DEF ItronPoolsIInv, ItronPoolsTypeOK
  <1> DEFINE id == m_mpfId[it]  n == fblkcnt[id] + 1
  <1>5. n \in Nat /\ fblkcnt' = [fblkcnt EXCEPT ![id] = n]
    BY <1>1, <1>4
  <1>6. UNCHANGED <<m_mpfId, m_maxBlocksOf, poolsMutex, created, poolUser>>
    BY DEF pool_release
  <1> HIDE DEF id, n
  <1>7. id \in KernelIds /\ fblkcnt[id] # NoPool
    BY <1>2, <1>3 DEF id
  <1>8. QED
    BY <1>5, <1>6, <1>7, CountKeeps

LEMMA ItronPoolsStep == ItronPoolsIInv /\ [ItronPoolsNext]_itronPoolsVars => ItronPoolsIInv'
  <1> SUFFICES ASSUME ItronPoolsIInv, [ItronPoolsNext]_itronPoolsVars PROVE ItronPoolsIInv'
    OBVIOUS
  <1>1. ASSUME NEW c \in Callers, pools_call(c) PROVE ItronPoolsIInv'
    BY <1>1, CallsKeep
  <1>2. ASSUME NEW c \in Callers,
               \/ pools_lock(c, "create_lock", "create_find")
               \/ pools_lock(c, "destroy_lock", "deinit")
        PROVE  ItronPoolsIInv'
    BY <1>2, LocksKeep
  <1>3. ASSUME NEW c \in Callers, create_find(c) PROVE ItronPoolsIInv'
    BY <1>3, FindKeeps
  <1>4. ASSUME NEW c \in Callers, init_acre(c) PROVE ItronPoolsIInv'
    BY <1>4, AcreKeeps
  <1>5. ASSUME NEW c \in Callers, init_id(c) PROVE ItronPoolsIInv'
    BY <1>5, InitIdKeeps
  <1>6. ASSUME NEW c \in Callers, deinit(c) PROVE ItronPoolsIInv'
    BY <1>6, DeinitKeeps, DeinitIdKeeps DEF deinit, PoolUserAt
  <1>7. ASSUME NEW c \in Callers, pool_get(c) PROVE ItronPoolsIInv'
    BY <1>7, GetKeeps
  <1>8. ASSUME NEW c \in Callers, NEW it \in m_pools, pool_release(c, it) PROVE ItronPoolsIInv'
    BY <1>8, ReleaseKeeps
  <1>9. CASE UNCHANGED itronPoolsVars
    BY <1>9 DEF itronPoolsVars, ItronPoolsIInv, ItronPoolsTypeOK, KernelPoolsKept, WorkerHolds,
                CreateAlone, DestroyAlone, StaleLeaving, GetsOfCreated, isCreated, PoolUserAt,
                m_pools
  <1>10. QED
    BY <1>1, <1>2, <1>3, <1>4, <1>5, <1>6, <1>7, <1>8, <1>9 DEF ItronPoolsNext

\* The factories of the Itron platform confuse no two pools, however many there are.
THEOREM KernelPoolsAreKept == ItronPoolsSpec => []KernelPoolsKept
  <1>1. ItronPoolsIInv => KernelPoolsKept
    BY DEF ItronPoolsIInv
  <1>2. QED
    BY ItronPoolsBegin, ItronPoolsStep, <1>1, PTL DEF ItronPoolsSpec

-----------------------------------------------------------------------------
(* Both at once, as the run has them.                                      *)

\* The pools of the StdCpp and of the Itron platform stay sound (PoolsSound).
THEOREM PoolsAreSound == MCSpec => []PoolsSound
  <1> DEFINE BothIInv == PoolKept /\ ItronPoolsIInv
  <1>1. MCInit => BothIInv
    BY PoolBegins, ItronPoolsBegin DEF MCInit
  <1>2. [MCNext]_mcVars => [PoolNext]_poolVars /\ [ItronPoolsNext]_itronPoolsVars
    BY DEF MCNext, mcVars, components, ThreadSteps, FactorySteps, FlagSteps, MutexSteps,
           PoolSteps, ItronThreadSteps, ItronMutexSteps, CreationSteps, PrioSteps, TimerSteps,
           ItronPoolsSteps, PeriodicSteps
  <1>3. BothIInv /\ [MCNext]_mcVars => BothIInv'
    BY <1>2, PoolStep, ItronPoolsStep
  <1>4. BothIInv => PoolsSound
    BY KeptIsIInv DEF PoolIInv, ItronPoolsIInv, PoolsSound
  <1>5. QED
    BY <1>1, <1>3, <1>4, PTL DEF MCSpec

-----------------------------------------------------------------------------
(* Creation of composed objects: what a sequence of releases does.         *)

\* The sequence s releases of the resources L all but M, each once, and none
\* before what is in it.
Clears(s, L, M) ==
    /\ s \in Seq(L) /\ M \subseteq L /\ ToSet(s) = L \ M
    /\ \A i, j \in DOMAIN s : s[i] = s[j] => i = j
    /\ \A i \in DOMAIN s : \A x \in L : Within(x, s[i]) => \E j \in 1 .. i - 1 : s[j] = x

\* A release of nothing.
LEMMA ClearsNothing ==
    ASSUME NEW L PROVE Clears(<<>>, L, L)
  BY DEF Clears, ToSet

\* A release of one resource that has nothing within it.
LEMMA ClearsOne ==
    ASSUME NEW L, NEW r \in L, \A x \in L : ~Within(x, r)
    PROVE  Clears(<<r>>, L, L \ {r})
  <1>1. <<r>> \in Seq(L) /\ DOMAIN <<r>> = {1} /\ <<r>>[1] = r
    OBVIOUS
  <1>2. QED
    BY <1>1 DEF Clears, ToSet

\* A destroy() of what may be a null pointer.
LEMMA ClearsNonNull ==
    ASSUME NEW L, NEW r, r \in L <=> r \in live, \A x \in L : ~Within(x, r)
    PROVE  Clears(NonNull(r), L, L \ {r})
  <1>1. CASE r \in L
    BY <1>1, ClearsOne DEF NonNull
  <1>2. CASE r \notin L
    <2>1. L \ {r} = L
      BY <1>2
    <2>2. QED
      BY <1>2, <2>1, ClearsNothing DEF NonNull
  <1>3. QED
    BY <1>1, <1>2

\* One release after the other.
LEMMA ClearsBoth ==
    ASSUME NEW L, NEW M, NEW K, NEW s, NEW t, Clears(s, L, M), Clears(t, M, K)
    PROVE  Clears(s \o t, L, K)
  <1>1. PICK m, n, u : m = Len(s) /\ n = Len(t) /\ u = s \o t
    OBVIOUS
  <1>2. s \in Seq(L) /\ t \in Seq(L) /\ M \subseteq L /\ K \subseteq M
    BY DEF Clears
  <1>3. /\ m \in Nat /\ n \in Nat /\ DOMAIN s = 1 .. m /\ DOMAIN t = 1 .. n
    BY <1>1, <1>2, LenProperties
  <1>4. /\ u \in Seq(L) /\ Len(u) = m + n
        /\ \A i \in 1 .. m + n : u[i] = IF i <= m THEN s[i] ELSE t[i - m]
    BY <1>1, <1>2, ConcatProperties
  <1>5. DOMAIN u = 1 .. m + n
    BY <1>3, <1>4, LenProperties
  <1>6. ToSet(s) = L \ M /\ ToSet(t) = M \ K
    BY DEF Clears
  <1>7. /\ \A i \in 1 .. m : s[i] \in L \ M
        /\ \A i \in 1 .. n : t[i] \in M \ K
        /\ \A x \in L \ M : \E i \in 1 .. m : s[i] = x
        /\ \A x \in M \ K : \E i \in 1 .. n : t[i] = x
    BY <1>3, <1>6 DEF ToSet
  <1>8. \A i \in 1 .. m : i \in 1 .. m + n /\ u[i] = s[i]
    BY <1>3, <1>4
  <1>9. \A i \in 1 .. n : m + i \in 1 .. m + n /\ u[m + i] = t[i]
    BY <1>3, <1>4
  <1>10. \A k \in 1 .. m + n : k \in 1 .. m \/ \E i \in 1 .. n : k = m + i
    <2>1. ASSUME NEW k \in 1 .. m + n, k \notin 1 .. m PROVE k - m \in 1 .. n /\ k = m + (k - m)
      BY <1>3, <2>1
    <2>2. QED
      BY <2>1
  <1>11. ToSet(u) = L \ K
    <2>1. ASSUME NEW x \in L \ K PROVE \E k \in 1 .. m + n : u[k] = x
      BY <1>7, <1>8, <1>9
    <2>2. ASSUME NEW k \in 1 .. m + n PROVE u[k] \in L \ K
      <3>1. CASE k \in 1 .. m
        BY <1>2, <1>7, <1>8, <3>1
      <3>2. CASE \E i \in 1 .. n : k = m + i
        BY <1>2, <1>7, <1>9, <3>2
      <3>3. QED
        BY <1>10, <3>1, <3>2
    <2>3. QED
      BY <1>5, <2>1, <2>2 DEF ToSet
  <1>12. ASSUME NEW i \in DOMAIN u, NEW j \in DOMAIN u, u[i] = u[j] PROVE i = j
    <2>1. \A a, b \in 1 .. m : s[a] = s[b] => a = b
      BY <1>3 DEF Clears
    <2>2. \A a, b \in 1 .. n : t[a] = t[b] => a = b
      BY <1>3 DEF Clears
    <2>3. \A a \in 1 .. m, b \in 1 .. n : s[a] # t[b]
      BY <1>7
    <2>4. CASE i \in 1 .. m /\ j \in 1 .. m
      BY <1>8, <1>12, <2>1, <2>4
    <2>5. CASE \E a \in 1 .. n : i = m + a /\ j \in 1 .. m
      BY <1>8, <1>9, <1>12, <2>3, <2>5
    <2>6. CASE \E a \in 1 .. n : j = m + a /\ i \in 1 .. m
      BY <1>8, <1>9, <1>12, <2>3, <2>6
    <2>7. CASE \E a, b \in 1 .. n : i = m + a /\ j = m + b
      BY <1>9, <1>12, <2>2, <2>7
    <2>8. QED
      BY <1>5, <1>10, <2>4, <2>5, <2>6, <2>7
  <1>13. ASSUME NEW k \in DOMAIN u, NEW x \in L, Within(x, u[k])
         PROVE  \E j \in 1 .. k - 1 : u[j] = x
    <2>1. CASE k \in 1 .. m
      <3>1. PICK j \in 1 .. k - 1 : s[j] = x
        BY <1>3, <1>8, <1>13, <2>1 DEF Clears
      <3>2. j \in 1 .. m
        BY <1>3, <2>1
      <3>3. QED
        BY <1>8, <3>1, <3>2
    <2>2. CASE \E i \in 1 .. n : k = m + i
      <3>1. PICK i \in 1 .. n : k = m + i
        BY <2>2
      <3>2. CASE x \in M
        <4>1. PICK j \in 1 .. i - 1 : t[j] = x
          BY <1>3, <1>9, <1>13, <3>1, <3>2 DEF Clears
        <4>2. j \in 1 .. n /\ m + j \in 1 .. k - 1
          BY <1>3, <3>1
        <4>3. QED
          BY <1>9, <4>1, <4>2
      <3>3. CASE x \notin M
        <4>1. PICK j \in 1 .. m : s[j] = x
          BY <1>7, <3>3
        <4>2. j \in 1 .. k - 1
          BY <1>3, <3>1
        <4>3. QED
          BY <1>8, <4>1, <4>2
      <3>4. QED
        BY <3>2, <3>3
    <2>3. QED
      BY <1>5, <1>10, <2>1, <2>2
  <1>14. K \subseteq L
    BY <1>2
  <1>15. Clears(u, L, K)
    BY <1>4, <1>11, <1>12, <1>13, <1>14 DEF Clears
  <1>16. QED
    BY <1>1, <1>15

-----------------------------------------------------------------------------
(* The runners of a thread pool.                                           *)

\* The sequence t has the resources a, b and c of each number up to n.
TurnsOf(t, n, a, b, c) ==
    /\ t \in Seq({a, b, c} \X (1 .. n)) /\ DOMAIN t = 1 .. 3 * n /\ Len(t) = 3 * n
    /\ \A i \in 1 .. n : t[3 * i - 2] = <<a, i>> /\ t[3 * i - 1] = <<b, i>> /\ t[3 * i] = <<c, i>>
    /\ \A k \in 1 .. 3 * n : \E i \in 1 .. n : k \in {3 * i - 2, 3 * i - 1, 3 * i}

\* The runners' resources, one after the other.
LEMMA InTurnIs ==
    ASSUME NEW n \in Nat, NEW a, NEW b, NEW c, NEW t, t = InTurn(n, <<a, b, c>>)
    PROVE  TurnsOf(t, n, a, b, c)
  <1>1. t = [k \in 1 .. 3 * n |-> <<<<a, b, c>>[1 + ((k - 1) % 3)], 1 + ((k - 1) \div 3)>>]
    BY DEF InTurn
  <1>2. DOMAIN t = 1 .. 3 * n
    BY <1>1
  <1>3. ASSUME NEW i \in 1 .. n
        PROVE  /\ t[3 * i - 2] = <<a, i>> /\ t[3 * i - 1] = <<b, i>> /\ t[3 * i] = <<c, i>>
    <2>1. /\ 3 * i - 2 \in 1 .. 3 * n /\ 3 * i - 1 \in 1 .. 3 * n /\ 3 * i \in 1 .. 3 * n
      OBVIOUS
    <2>2. /\ (3 * i - 2 - 1) % 3 = 0 /\ (3 * i - 2 - 1) \div 3 = i - 1
          /\ (3 * i - 1 - 1) % 3 = 1 /\ (3 * i - 1 - 1) \div 3 = i - 1
          /\ (3 * i - 1) % 3 = 2 /\ (3 * i - 1) \div 3 = i - 1
      OBVIOUS
    <2>3. 1 + (i - 1) = i
      OBVIOUS
    <2>4. t[3 * i - 2] = <<a, i>>
      <3>1. t[3 * i - 2] = <<<<a, b, c>>[1 + ((3 * i - 2 - 1) % 3)], 1 + ((3 * i - 2 - 1) \div 3)>>
        BY <1>1, <2>1
      <3>2. QED
        BY <2>2, <2>3, <3>1
    <2>5. t[3 * i - 1] = <<b, i>>
      <3>1. t[3 * i - 1] = <<<<a, b, c>>[1 + ((3 * i - 1 - 1) % 3)], 1 + ((3 * i - 1 - 1) \div 3)>>
        BY <1>1, <2>1
      <3>2. QED
        BY <2>2, <2>3, <3>1
    <2>6. t[3 * i] = <<c, i>>
      <3>1. t[3 * i] = <<<<a, b, c>>[1 + ((3 * i - 1) % 3)], 1 + ((3 * i - 1) \div 3)>>
        BY <1>1, <2>1
      <3>2. QED
        BY <2>2, <2>3, <3>1
    <2>7. QED
      BY <2>4, <2>5, <2>6
  <1>4. ASSUME NEW k \in 1 .. 3 * n
        PROVE  \E i \in 1 .. n : k \in {3 * i - 2, 3 * i - 1, 3 * i}
    <2>1. PICK i \in Int : i = (k + 2) \div 3
      OBVIOUS
    <2>2. i \in 1 .. n /\ k \in {3 * i - 2, 3 * i - 1, 3 * i}
      BY <2>1
    <2>3. QED
      BY <2>2
  <1>5. \A k \in 1 .. 3 * n : t[k] \in {a, b, c} \X (1 .. n)
    <2>1. ASSUME NEW k \in 1 .. 3 * n PROVE t[k] \in {a, b, c} \X (1 .. n)
      <3>1. PICK i \in 1 .. n : k \in {3 * i - 2, 3 * i - 1, 3 * i}
        BY <1>4
      <3>2. t[k] \in {<<a, i>>, <<b, i>>, <<c, i>>}
        BY <1>3, <3>1
      <3>3. QED
        BY <3>2
    <2>2. QED
      BY <2>1
  <1>6. 3 * n \in Nat
    OBVIOUS
  <1>7. t \in [1 .. 3 * n -> {a, b, c} \X (1 .. n)]
    BY <1>1, <1>5
  <1>8. t \in Seq({a, b, c} \X (1 .. n)) /\ Len(t) = 3 * n
    <2>1. PICK S, m : S = {a, b, c} \X (1 .. n) /\ m = 3 * n
      OBVIOUS
    <2>2. m \in Nat /\ t \in [1 .. m -> S]
      BY <1>6, <1>7, <2>1
    <2>3. t \in Seq(S)
      BY <2>2, SeqDef
    <2>4. Len(t) = m
      BY <2>2, <2>3, LenProperties
    <2>5. QED
      BY <2>1, <2>3, <2>4
  <1>9. QED
    BY <1>2, <1>3, <1>4, <1>8 DEF TurnsOf

\* destroyRunners() of the first q runners.
LEMMA RunnersClear ==
    ASSUME NEW q \in Nat, NEW L,
           \A i \in 1 .. q : <<"runner", i>> \in L /\ <<"runner_event", i>> \in L
                             /\ <<"thread", i>> \in L,
           \A x \in L : x[1] \in {"runner_event", "thread", "runner"} =>
                           \E i \in 1 .. q : x = <<x[1], i>>
    PROVE  Clears(InTurn(q, <<"runner_event", "thread", "runner">>), L,
                  { x \in L : x[1] \notin {"runner_event", "thread", "runner"} })
  <1>1. PICK t, M : /\ t = InTurn(q, <<"runner_event", "thread", "runner">>)
                    /\ M = { x \in L : x[1] \notin {"runner_event", "thread", "runner"} }
    OBVIOUS
  <1>2. /\ DOMAIN t = 1 .. 3 * q /\ Len(t) = 3 * q
        /\ t \in Seq({"runner_event", "thread", "runner"} \X (1 .. q))
        /\ \A i \in 1 .. q : /\ t[3 * i - 2] = <<"runner_event", i>>
                             /\ t[3 * i - 1] = <<"thread", i>> /\ t[3 * i] = <<"runner", i>>
        /\ \A k \in 1 .. 3 * q : \E i \in 1 .. q : k \in {3 * i - 2, 3 * i - 1, 3 * i}
    <2>1. t = InTurn(q, <<"runner_event", "thread", "runner">>)
      BY <1>1
    <2>2. TurnsOf(t, q, "runner_event", "thread", "runner")
      BY <2>1, InTurnIs
    <2>3. QED
      BY <2>2 DEF TurnsOf
  <1>3. \A k \in 1 .. 3 * q : t[k] \in L \ M
    <2>1. ASSUME NEW k \in 1 .. 3 * q PROVE t[k] \in L \ M
      <3>1. PICK i \in 1 .. q : k \in {3 * i - 2, 3 * i - 1, 3 * i}
        BY <1>2
      <3>2. t[k] \in {<<"runner_event", i>>, <<"thread", i>>, <<"runner", i>>}
        BY <1>2, <3>1
      <3>3. QED
        BY <1>1, <3>2
    <2>2. QED
      BY <2>1
  <1>4. ToSet(t) = L \ M
    <2>1. ASSUME NEW x \in L \ M PROVE \E k \in 1 .. 3 * q : t[k] = x
      <3>1. x[1] \in {"runner_event", "thread", "runner"}
        BY <1>1, <2>1
      <3>2. PICK i \in 1 .. q : x = <<x[1], i>>
        BY <2>1, <3>1
      <3>3. 3 * i - 2 \in 1 .. 3 * q /\ 3 * i - 1 \in 1 .. 3 * q /\ 3 * i \in 1 .. 3 * q
        OBVIOUS
      <3>4. x \in {<<"runner_event", i>>, <<"thread", i>>, <<"runner", i>>}
        BY <3>1, <3>2
      <3>5. QED
        BY <1>2, <3>3, <3>4
    <2>2. QED
      BY <1>2, <1>3, <2>1 DEF ToSet
  <1>5. ASSUME NEW k \in 1 .. 3 * q, NEW l \in 1 .. 3 * q, t[k] = t[l] PROVE k = l
    <2>1. PICK i \in 1 .. q : k \in {3 * i - 2, 3 * i - 1, 3 * i}
      BY <1>2
    <2>2. PICK j \in 1 .. q : l \in {3 * j - 2, 3 * j - 1, 3 * j}
      BY <1>2
    <2>3. /\ t[3 * i - 2] = <<"runner_event", i>> /\ t[3 * i - 1] = <<"thread", i>>
          /\ t[3 * i] = <<"runner", i>>
      BY <1>2
    <2>4. /\ t[3 * j - 2] = <<"runner_event", j>> /\ t[3 * j - 1] = <<"thread", j>>
          /\ t[3 * j] = <<"runner", j>>
      BY <1>2
    <2>5. t[k][2] = i /\ t[l][2] = j
      BY <2>1, <2>2, <2>3, <2>4
    <2>6. i = j
      BY <1>5, <2>5
    <2>7. QED
      BY <1>5, <2>1, <2>2, <2>3, <2>6
  <1>6. ASSUME NEW k \in 1 .. 3 * q, NEW x \in L, Within(x, t[k])
        PROVE  \E j \in 1 .. k - 1 : t[j] = x
    <2>1. PICK i \in 1 .. q : k \in {3 * i - 2, 3 * i - 1, 3 * i}
      BY <1>2
    <2>2. t[k] \in {<<"runner_event", i>>, <<"thread", i>>, <<"runner", i>>}
      BY <1>2, <2>1
    <2>3. t[k] = <<"runner", i>>
      BY <1>6, <2>2 DEF Within
    <2>4. k = 3 * i
      <3>1. t[3 * i - 2] # <<"runner", i>> /\ t[3 * i - 1] # <<"runner", i>>
        BY <1>2
      <3>2. QED
        BY <2>1, <2>3, <3>1
    <2>5. x[1] \in {"thread", "runner_event"} /\ x[2] = i
      BY <1>6, <2>3 DEF Within
    <2>6. PICK h \in 1 .. q : x = <<x[1], h>>
      BY <2>5
    <2>7. x \in {<<"thread", i>>, <<"runner_event", i>>}
      BY <2>5, <2>6
    <2>8. 3 * i - 2 \in 1 .. k - 1 /\ 3 * i - 1 \in 1 .. k - 1
      BY <2>4
    <2>9. QED
      BY <1>2, <2>7, <2>8
  <1>7. t \in Seq(L) /\ M \subseteq L
    <2>1. 3 * q \in Nat
      OBVIOUS
    <2>2. t \in [1 .. 3 * q -> L]
      <3>1. t = [k \in 1 .. 3 * q |-> t[k]]
        BY <1>2, SeqDef
      <3>2. QED
        BY <1>3, <3>1
    <2>3. QED
      BY <1>1, <2>1, <2>2, SeqDef
  <1>8. Clears(t, L, M)
    BY <1>2, <1>4, <1>5, <1>6, <1>7 DEF Clears
  <1>9. QED
    BY <1>1, <1>8

-----------------------------------------------------------------------------
(* MessageQueue.                                                           *)

\* What a queue is made of.
QueueNames == {"mq_pool", "mq", "m_mtxRB", "m_mtxSend", "m_mtxRecv", "m_event"}
QueueParts == { One(name) : name \in QueueNames }

\* The resources L, of which the queue's are those that there are.
QueueAlone(L) ==
    /\ \A name \in QueueNames : One(name) \in L <=> Exists(name)
    /\ \A x \in L : x[1] \in QueueNames => x = One(x[1])
    /\ \A x \in L : x[1] \notin {"thread", "runner"}

\* ~MessageQueue() and the rest of destroy() release what the queue has.
LEMMA QueueClears ==
    ASSUME NEW L, QueueAlone(L), Exists("mq"), Exists("mq_pool")
    PROVE  Clears(MessageQueue_destroy, L, L \ QueueParts)
  <1>1. PICK L1, L2, L3, L4, L5, L6 :
            /\ L1 = L \ {One("m_event")} /\ L2 = L1 \ {One("m_mtxRecv")}
            /\ L3 = L2 \ {One("m_mtxSend")} /\ L4 = L3 \ {One("m_mtxRB")}
            /\ L5 = L4 \ {One("mq")} /\ L6 = L5 \ {One("mq_pool")}
    OBVIOUS
  <1>2. /\ One("m_event") \in L <=> One("m_event") \in live
        /\ One("m_mtxRecv") \in L1 <=> One("m_mtxRecv") \in live
        /\ One("m_mtxSend") \in L2 <=> One("m_mtxSend") \in live
        /\ One("m_mtxRB") \in L3 <=> One("m_mtxRB") \in live
        /\ One("mq") \in L4 /\ One("mq_pool") \in L5
    BY <1>1 DEF QueueAlone, QueueNames, Exists, One
  <1>3. /\ \A x : ~Within(x, One("m_event")) /\ ~Within(x, One("m_mtxRecv"))
        /\ \A x : ~Within(x, One("m_mtxSend")) /\ ~Within(x, One("m_mtxRB"))
    BY DEF Within, One
  <1>4. \A x \in L4 : ~Within(x, One("mq"))
    <2>1. ToSet(MessageQueue_members) =
            {One("m_mtxRB"), One("m_mtxSend"), One("m_mtxRecv"), One("m_event")}
      <3>1. /\ DOMAIN MessageQueue_members = 1 .. 4
            /\ MessageQueue_members[1] = One("m_mtxRB")
            /\ MessageQueue_members[2] = One("m_mtxSend")
            /\ MessageQueue_members[3] = One("m_mtxRecv")
            /\ MessageQueue_members[4] = One("m_event")
        BY DEF MessageQueue_members, All
      <3>2. 1 .. 4 = {1, 2, 3, 4}
        OBVIOUS
      <3>3. QED
        BY <3>1, <3>2 DEF ToSet
    <2>2. \A x \in L4 : x \notin ToSet(MessageQueue_members) /\ x[1] \notin {"thread", "runner"}
      BY <1>1, <2>1 DEF QueueAlone
    <2>3. QED
      BY <2>2 DEF Within, One
  <1>5. \A x \in L5 : ~Within(x, One("mq_pool"))
    <2>1. \A x \in L5 : x[1] # "mq"
      BY <1>1 DEF QueueAlone, QueueNames
    <2>2. QED
      BY <2>1 DEF Within, One
  <1>6. /\ Clears(NonNull(One("m_event")), L, L1)
        /\ Clears(NonNull(One("m_mtxRecv")), L1, L2)
        /\ Clears(NonNull(One("m_mtxSend")), L2, L3)
        /\ Clears(NonNull(One("m_mtxRB")), L3, L4)
    <2>1. Clears(NonNull(One("m_event")), L, L1)
      BY <1>1, <1>2, <1>3, ClearsNonNull
    <2>2. Clears(NonNull(One("m_mtxRecv")), L1, L2)
      BY <1>1, <1>2, <1>3, ClearsNonNull
    <2>3. Clears(NonNull(One("m_mtxSend")), L2, L3)
      BY <1>1, <1>2, <1>3, ClearsNonNull
    <2>4. Clears(NonNull(One("m_mtxRB")), L3, L4)
      BY <1>1, <1>2, <1>3, ClearsNonNull
    <2>5. QED
      BY <2>1, <2>2, <2>3, <2>4
  <1>7. Clears(All(<<"mq", "mq_pool">>), L4, L6)
    <2>1. Clears(<<One("mq")>>, L4, L5) /\ Clears(<<One("mq_pool")>>, L5, L6)
      BY <1>1, <1>2, <1>4, <1>5, ClearsOne
    <2>2. All(<<"mq", "mq_pool">>) = <<One("mq")>> \o <<One("mq_pool")>>
      BY DEF All
    <2>3. QED
      BY <2>1, <2>2, ClearsBoth
  <1>8. L6 = L \ QueueParts
    BY <1>1 DEF QueueParts, QueueNames
  <1>9. PICK a, b, c, d, e :
            /\ a = NonNull(One("m_event")) /\ b = NonNull(One("m_mtxRecv"))
            /\ c = NonNull(One("m_mtxSend")) /\ d = NonNull(One("m_mtxRB"))
            /\ e = All(<<"mq", "mq_pool">>)
    OBVIOUS
  <1>10. Clears(a \o b, L, L2)
    BY <1>6, <1>9, ClearsBoth
  <1>11. Clears((a \o b) \o c, L, L3)
    BY <1>6, <1>9, <1>10, ClearsBoth
  <1>12. Clears(((a \o b) \o c) \o d, L, L4)
    BY <1>6, <1>9, <1>11, ClearsBoth
  <1>13. Clears((((a \o b) \o c) \o d) \o e, L, L6)
    BY <1>7, <1>9, <1>12, ClearsBoth
  <1>14. MessageQueue_destroy = (((a \o b) \o c) \o d) \o e
    BY <1>9 DEF MessageQueue_destroy
  <1>15. QED
    BY <1>8, <1>13, <1>14

\* create() of a queue that fails undoes what it has done.
LEMMA QueueUndone ==
    ASSUME NEW L, QueueAlone(L),
           ~Exists("mq_pool") => ~Exists("mq"),
           ~Exists("mq") => \A name \in QueueNames \ {"mq_pool"} : ~Exists(name)
    PROVE  Clears(MessageQueue_undo, L, L \ QueueParts)
  <1>1. CASE ~Exists("mq_pool")
    <2>1. \A x \in QueueParts : x \notin L
      BY <1>1 DEF QueueParts, QueueAlone
    <2>2. L \ QueueParts = L
      BY <2>1
    <2>3. QED
      BY <1>1, <2>2, ClearsNothing DEF MessageQueue_undo
  <1>2. CASE Exists("mq_pool") /\ ~Exists("mq")
    <2>1. \A x \in QueueParts : x \notin L \/ x = One("mq_pool")
      BY <1>2 DEF QueueParts, QueueAlone
    <2>2. One("mq_pool") \in L
      BY <1>2 DEF QueueAlone, QueueNames
    <2>3. L \ QueueParts = L \ {One("mq_pool")}
      BY <2>1 DEF QueueParts, QueueNames
    <2>4. \A x \in L : ~Within(x, One("mq_pool"))
      <3>1. \A x \in L : x[1] # "mq"
        BY <1>2 DEF QueueAlone, QueueNames
      <3>2. QED
        BY <3>1 DEF Within, One
    <2>5. All(<<"mq_pool">>) = <<One("mq_pool")>>
      BY DEF All
    <2>6. QED
      BY <1>2, <2>2, <2>3, <2>4, <2>5, ClearsOne DEF MessageQueue_undo
  <1>3. CASE Exists("mq_pool") /\ Exists("mq")
    BY <1>3, QueueClears DEF MessageQueue_undo
  <1>4. QED
    BY <1>1, <1>2, <1>3

-----------------------------------------------------------------------------
(* ThreadPool.                                                             *)

\* What a pool has once, and what it has of each runner.
PoolNames ==
    QueueNames \cup {"objPool", "tp", "m_threadMemoryPool", "m_threadMemory", "m_runnerPool"}
RunnerNames == {"runner", "runner_event", "thread"}

\* The resources L of a thread pool that has all those of the first q runners.
PoolOf(L, q) ==
    /\ \A name \in PoolNames : One(name) \in L <=> Exists(name)
    /\ \A x \in L : (x[1] \in PoolNames /\ x = One(x[1])) \/ x[1] \in RunnerNames
    /\ \A i \in 1 .. q : \A name \in RunnerNames : <<name, i>> \in L
    /\ \A x \in L : x[1] \in RunnerNames => \E i \in 1 .. q : x = <<x[1], i>>

\* destroyMembers() and the rest of destroy() release the pool, however much of it there is.
LEMMA PoolClears ==
    ASSUME NEW L, NEW q \in Nat, PoolOf(L, q), Queued = q, q > 0 => Exists("m_runnerPool"),
           Exists("objPool"), Exists("tp"), Exists("mq"), Exists("mq_pool")
    PROVE  Clears(ThreadPool_destroy, L, {})
  <1>1. PICK L1, L2, L3, L4, L5, L6, L7 :
            /\ L1 = { x \in L : x[1] \notin RunnerNames } /\ L2 = L1 \ {One("m_threadMemory")}
            /\ L3 = L2 \ {One("m_runnerPool")} /\ L4 = L3 \ {One("m_threadMemoryPool")}
            /\ L5 = L4 \ QueueParts /\ L6 = L5 \ {One("tp")} /\ L7 = L6 \ {One("objPool")}
    OBVIOUS
  <1>2. \A x \in L1 : x[1] \in PoolNames /\ x = One(x[1])
    BY <1>1 DEF PoolOf
  <1>3. \A name \in PoolNames : One(name) \in L1 <=> Exists(name)
    <2>1. \A name \in PoolNames : One(name)[1] \notin RunnerNames
      BY DEF One, PoolNames, QueueNames, RunnerNames
    <2>2. QED
      BY <1>1, <2>1 DEF PoolOf
  <1>4. Clears(destroyRunners, L, L1)
    <2>1. CASE Exists("m_runnerPool")
      <3>1. \A i \in 1 .. q : /\ <<"runner", i>> \in L /\ <<"runner_event", i>> \in L
                              /\ <<"thread", i>> \in L
        BY DEF PoolOf, RunnerNames
      <3>2. \A x \in L : x[1] \in {"runner_event", "thread", "runner"} =>
                           \E i \in 1 .. q : x = <<x[1], i>>
        BY DEF PoolOf, RunnerNames
      <3>3. L1 = { x \in L : x[1] \notin {"runner_event", "thread", "runner"} }
        BY <1>1 DEF RunnerNames
      <3>4. Clears(InTurn(q, <<"runner_event", "thread", "runner">>), L, L1)
        BY <3>1, <3>2, <3>3, RunnersClear
      <3>5. QED
        BY <2>1, <3>4 DEF destroyRunners
    <2>2. CASE ~Exists("m_runnerPool")
      <3>1. q = 0
        BY <2>2
      <3>2. L1 = L
        BY <1>1, <3>1 DEF PoolOf
      <3>3. QED
        BY <2>2, <3>2, ClearsNothing DEF destroyRunners
    <2>3. QED
      BY <2>1, <2>2
  <1>5. Clears(destroyThreads, L1, L2)
    <2>1. \A x \in L1 : ~Within(x, One("m_threadMemory"))
      BY DEF Within, One
    <2>2. One("m_threadMemory") \in L1 <=> One("m_threadMemory") \in live
      BY <1>3 DEF PoolNames, Exists
    <2>3. QED
      BY <1>1, <2>1, <2>2, ClearsNonNull DEF destroyThreads
  <1>6. Clears(NonNull(One("m_runnerPool")), L2, L3)
    <2>1. \A x \in L2 : x[1] # "runner"
      BY <1>1 DEF RunnerNames
    <2>2. \A x \in L2 : ~Within(x, One("m_runnerPool"))
      BY <2>1 DEF Within, One
    <2>3. One("m_runnerPool") \in L2 <=> One("m_runnerPool") \in live
      BY <1>1, <1>3 DEF PoolNames, Exists, One
    <2>4. QED
      BY <1>1, <2>2, <2>3, ClearsNonNull
  <1>7. Clears(NonNull(One("m_threadMemoryPool")), L3, L4)
    <2>1. \A x \in L3 : x[1] # "m_threadMemory"
      BY <1>1, <1>2
    <2>2. \A x \in L3 : ~Within(x, One("m_threadMemoryPool"))
      BY <2>1 DEF Within, One
    <2>3. One("m_threadMemoryPool") \in L3 <=> One("m_threadMemoryPool") \in live
      BY <1>1, <1>3 DEF PoolNames, Exists, One
    <2>4. QED
      BY <1>1, <2>2, <2>3, ClearsNonNull
  <1>8. Clears(MessageQueue_destroy, L4, L5)
    <2>1. \A name \in QueueNames : One(name) \in L4 <=> Exists(name)
      <3>1. \A name \in QueueNames : /\ name \in PoolNames /\ One(name) # One("m_threadMemory")
                                     /\ One(name) # One("m_runnerPool")
                                     /\ One(name) # One("m_threadMemoryPool")
        BY DEF QueueNames, PoolNames, One
      <3>2. QED
        BY <1>1, <1>3, <3>1
    <2>2. \A x \in L4 : x[1] \in QueueNames => x = One(x[1])
      BY <1>1, <1>2
    <2>3. \A x \in L4 : x[1] \notin {"thread", "runner"}
      BY <1>1 DEF RunnerNames
    <2>4. QueueAlone(L4)
      BY <2>1, <2>2, <2>3 DEF QueueAlone
    <2>5. QED
      BY <1>1, <2>4, QueueClears
  <1>9. \A x \in L5 : x = One("tp") \/ x = One("objPool")
    <2>1. ASSUME NEW x \in L5 PROVE x[1] \in {"tp", "objPool"} /\ x = One(x[1])
      <3>1. x \in L1 /\ x \notin QueueParts
        BY <1>1
      <3>2. x = One(x[1]) /\ x[1] \in PoolNames
        BY <1>2, <3>1
      <3>3. x[1] \notin QueueNames
        BY <3>1, <3>2 DEF QueueParts
      <3>4. x[1] \notin {"m_threadMemory", "m_runnerPool", "m_threadMemoryPool"}
        BY <1>1, <3>2
      <3>5. QED
        BY <3>2, <3>3, <3>4 DEF PoolNames
    <2>2. QED
      BY <2>1
  <1>10. Clears(All(<<"tp", "objPool">>), L5, L7)
    <2>1. One("tp") \in L5 /\ One("objPool") \in L6
      <3>1. One("tp") \in L1 /\ One("objPool") \in L1
        BY <1>3 DEF PoolNames
      <3>2. One("tp") \notin QueueParts /\ One("objPool") \notin QueueParts
        BY DEF QueueParts, QueueNames, One
      <3>3. QED
        BY <1>1, <3>1, <3>2 DEF One
    <2>2. \A x \in L5 : ~Within(x, One("tp"))
      BY <1>9 DEF Within, One
    <2>3. \A x \in L6 : ~Within(x, One("objPool"))
      BY <1>1, <1>9 DEF Within, One
    <2>4. Clears(<<One("tp")>>, L5, L6)
      BY <1>1, <2>1, <2>2, ClearsOne
    <2>5. Clears(<<One("objPool")>>, L6, L7)
      BY <1>1, <2>1, <2>3, ClearsOne
    <2>6. All(<<"tp", "objPool">>) = <<One("tp")>> \o <<One("objPool")>>
      BY DEF All
    <2>7. QED
      BY <2>4, <2>5, <2>6, ClearsBoth
  <1>11. L7 = {}
    BY <1>1, <1>9
  <1>12. PICK s, t, u, v, w, y :
            /\ s = destroyRunners /\ t = destroyThreads /\ u = NonNull(One("m_runnerPool"))
            /\ v = NonNull(One("m_threadMemoryPool")) /\ w = MessageQueue_destroy
            /\ y = All(<<"tp", "objPool">>)
    OBVIOUS
  <1>13. Clears(s \o t, L, L2)
    BY <1>4, <1>5, <1>12, ClearsBoth
  <1>14. Clears((s \o t) \o u, L, L3)
    BY <1>6, <1>12, <1>13, ClearsBoth
  <1>15. Clears(((s \o t) \o u) \o v, L, L4)
    BY <1>7, <1>12, <1>14, ClearsBoth
  <1>16. Clears((((s \o t) \o u) \o v) \o w, L, L5)
    BY <1>8, <1>12, <1>15, ClearsBoth
  <1>17. Clears(((((s \o t) \o u) \o v) \o w) \o y, L, L7)
    BY <1>10, <1>12, <1>16, ClearsBoth
  <1>18. ThreadPool_destroy = ((((((s \o t) \o u) \o v) \o w) \o y))
    BY <1>12 DEF ThreadPool_destroy, destroyMembers
  <1>19. QED
    BY <1>11, <1>17, <1>18

\* A create() of a pool that fails undoes what it has done: of the runner that it was at,
\* then of the pool.
LEMMA PoolUndone ==
    ASSUME NEW q \in Nat, NEW next,
           next = { <<name, q + 1>> : name \in {"runner", "runner_event"} },
           PoolOf(live \ next, q), Queued = q,
           q > 0 \/ next \cap live # {} => Exists("m_runnerPool"),
           Exists("m_runnerPool") => Exists("m_event"), Exists("m_event") => Exists("mq"),
           Exists("m_threadMemoryPool") \/ Exists("m_threadMemory") => Exists("m_event"),
           ~Exists("mq") => \A name \in QueueNames \ {"mq_pool"} : ~Exists(name),
           Exists("mq") => Exists("mq_pool"), Exists("mq_pool") => Exists("tp"),
           Exists("tp") => Exists("objPool")
    PROVE  Clears(ThreadPool_undo, live, {})
  <1>1. CASE Exists("m_event")
    <2>1. PICK L1, L2 : /\ L1 = live \ {<<"runner_event", q + 1>>}
                        /\ L2 = L1 \ {<<"runner", q + 1>>}
      OBVIOUS
    <2>2. L2 = live \ next
      BY <2>1
    <2>3. Clears(NonNull(<<"runner_event", q + 1>>), live, L1)
      <3>1. \A x \in live : ~Within(x, <<"runner_event", q + 1>>)
        BY DEF Within
      <3>2. QED
        BY <2>1, <3>1, ClearsNonNull
    <2>4. Clears(NonNull(<<"runner", q + 1>>), L1, L2)
      <3>1. ASSUME NEW x \in L1, Within(x, <<"runner", q + 1>>) PROVE FALSE
        <4>1. x[1] \in {"thread", "runner_event"} /\ x[2] = q + 1
          BY <3>1 DEF Within
        <4>2. x # <<"runner_event", q + 1>> /\ x # <<"runner", q + 1>> /\ x \in live
          BY <2>1, <4>1
        <4>3. x \in live \ next
          BY <4>2
        <4>4. PICK i \in 1 .. q : x = <<x[1], i>>
          BY <4>1, <4>3 DEF PoolOf, RunnerNames
        <4>5. QED
          BY <4>1, <4>4
      <3>2. <<"runner", q + 1>> \in L1 <=> <<"runner", q + 1>> \in live
        BY <2>1
      <3>3. QED
        BY <2>1, <3>1, <3>2, ClearsNonNull
    <2>5. Clears(constructMembers_undo, live, L2)
      BY <2>3, <2>4, ClearsBoth DEF constructMembers_undo
    <2>6. Clears(ThreadPool_destroy, L2, {})
      BY <1>1, <2>2, PoolClears
    <2>7. Exists("objPool") /\ Exists("tp")
      BY <1>1
    <2>8. ThreadPool_undo = constructMembers_undo \o ThreadPool_destroy
      BY <1>1, <2>7 DEF ThreadPool_undo
    <2>9. QED
      BY <2>5, <2>6, <2>8, ClearsBoth
  <1>2. CASE ~Exists("m_event")
    <2>1. q = 0 /\ next \cap live = {} /\ ~Exists("m_runnerPool")
      BY <1>2
    <2>2. live \ next = live
      BY <2>1
    <2>3. \A x \in live : x[1] \in PoolNames /\ x = One(x[1])
      BY <2>1, <2>2 DEF PoolOf
    <2>4. \A x \in live : x[1] \in QueueNames \cup {"objPool", "tp"}
      BY <1>2, <2>3 DEF PoolNames, Exists
    <2>5. CASE ~Exists("objPool")
      <3>1. \A name \in PoolNames : ~Exists(name)
        BY <1>2, <2>1, <2>5 DEF PoolNames, QueueNames
      <3>2. live = {}
        BY <2>3, <3>1 DEF Exists
      <3>3. QED
        BY <2>5, <3>2, ClearsNothing DEF ThreadPool_undo
    <2>6. CASE Exists("objPool") /\ ~Exists("tp")
      <3>1. \A name \in PoolNames \ {"objPool"} : ~Exists(name)
        BY <1>2, <2>1, <2>6 DEF PoolNames, QueueNames
      <3>2. live = {One("objPool")}
        BY <2>3, <2>6, <3>1 DEF Exists
      <3>3. \A x \in live : ~Within(x, One("objPool"))
        BY <3>2 DEF Within, One
      <3>4. All(<<"objPool">>) = <<One("objPool")>>
        BY DEF All
      <3>5. Clears(<<One("objPool")>>, live, live \ {One("objPool")})
        BY <3>2, <3>3, ClearsOne
      <3>6. live \ {One("objPool")} = {}
        BY <3>2
      <3>7. QED
        BY <2>6, <3>4, <3>5, <3>6 DEF ThreadPool_undo
    <2>7. CASE Exists("objPool") /\ Exists("tp")
      <3>1. PICK L1, L2, L3 : /\ L1 = live \ QueueParts /\ L2 = L1 \ {One("tp")}
                              /\ L3 = L2 \ {One("objPool")}
        OBVIOUS
      <3>2. \A x \in live : x[1] \notin {"thread", "runner"}
        BY <2>4 DEF QueueNames
      <3>3. QueueAlone(live)
        BY <2>3, <3>2 DEF QueueAlone, Exists
      <3>4. Clears(MessageQueue_undo, live, L1)
        BY <3>1, <3>3, QueueUndone
      <3>5. \A x \in L1 : x = One("tp") \/ x = One("objPool")
        <4>1. ASSUME NEW x \in L1 PROVE x = One("tp") \/ x = One("objPool")
          <5>1. x = One(x[1]) /\ x[1] \in QueueNames \cup {"objPool", "tp"}
            BY <2>3, <2>4, <3>1
          <5>2. x[1] \notin QueueNames
            BY <3>1, <5>1 DEF QueueParts
          <5>3. QED
            BY <5>1, <5>2
        <4>2. QED
          BY <4>1
      <3>6. One("tp") \in L1 /\ One("objPool") \in L2
        BY <2>7, <3>1 DEF Exists, QueueParts, QueueNames, One
      <3>7. /\ \A x \in L1 : ~Within(x, One("tp"))
            /\ \A x \in L2 : ~Within(x, One("objPool"))
        BY <3>1, <3>5 DEF Within, One
      <3>8. Clears(<<One("tp")>>, L1, L2) /\ Clears(<<One("objPool")>>, L2, L3)
        BY <3>1, <3>6, <3>7, ClearsOne
      <3>9. L3 = {}
        BY <3>1, <3>5
      <3>10. All(<<"tp", "objPool">>) = <<One("tp")>> \o <<One("objPool")>>
        BY DEF All
      <3>11. Clears(All(<<"tp", "objPool">>), L1, {})
        BY <3>8, <3>9, <3>10, ClearsBoth
      <3>12. QED
        BY <1>2, <2>7, <3>4, <3>11, ClearsBoth DEF ThreadPool_undo
    <2>8. QED
      BY <2>5, <2>6, <2>7
  <1>3. QED
    BY <1>1, <1>2

\* The resources of a pool.
Resources == (PoolNames \cup RunnerNames) \X (0 .. Runners)

\* What ThreadPool::create() acquires before the runners, in its order.
PoolOrder == <<"objPool", "tp", "mq_pool", "mq", "m_mtxRB", "m_mtxSend", "m_mtxRecv", "m_event",
               "m_threadMemoryPool", "m_threadMemory", "m_runnerPool">>

\* The order in which a pool is made, and what it is made of.
PoolMaking(t) ==
    /\ t \in Seq(Resources) /\ Len(t) = 11 + 3 * Runners
    /\ \A i \in 1 .. 11 : t[i] = One(PoolOrder[i])
    /\ \A i \in 1 .. Runners :
        /\ t[9 + 3 * i] = <<"runner", i>> /\ t[10 + 3 * i] = <<"runner_event", i>>
        /\ t[11 + 3 * i] = <<"thread", i>>
    /\ \A k \in 12 .. 11 + 3 * Runners :
        \E i \in 1 .. Runners : k \in {9 + 3 * i, 10 + 3 * i, 11 + 3 * i}

\* ThreadPool::create() acquires so.
LEMMA PoolIsMade == PoolMaking(ThreadPool_create)
  <1>1. PICK a, b, c, d, e :
            /\ a = All(<<"objPool", "tp">>) /\ b = All(<<"mq_pool", "mq">>)
            /\ c = MessageQueue_members
            /\ d = All(<<"m_threadMemoryPool", "m_threadMemory", "m_runnerPool">>)
            /\ e = InTurn(Runners, <<"runner", "runner_event", "thread">>)
    OBVIOUS
  <1>2. Runners \in Nat
    BY CreationAssumption
  <1>3. \A name \in PoolNames : One(name) \in Resources
    BY <1>2 DEF One, Resources
  <1>4. /\ One("objPool") \in Resources /\ One("tp") \in Resources
        /\ One("mq_pool") \in Resources /\ One("mq") \in Resources
        /\ One("m_mtxRB") \in Resources /\ One("m_mtxSend") \in Resources
        /\ One("m_mtxRecv") \in Resources /\ One("m_event") \in Resources
        /\ One("m_threadMemoryPool") \in Resources /\ One("m_threadMemory") \in Resources
        /\ One("m_runnerPool") \in Resources
    BY <1>3 DEF PoolNames, QueueNames
  <1>5. /\ a = <<One("objPool"), One("tp")>> /\ b = <<One("mq_pool"), One("mq")>>
        /\ c = <<One("m_mtxRB"), One("m_mtxSend"), One("m_mtxRecv"), One("m_event")>>
        /\ d = <<One("m_threadMemoryPool"), One("m_threadMemory"), One("m_runnerPool")>>
    BY <1>1 DEF All, MessageQueue_members
  <1>6. /\ a \in Seq(Resources) /\ Len(a) = 2 /\ b \in Seq(Resources) /\ Len(b) = 2
        /\ c \in Seq(Resources) /\ Len(c) = 4 /\ d \in Seq(Resources) /\ Len(d) = 3
    BY <1>4, <1>5
  <1>7. TurnsOf(e, Runners, "runner", "runner_event", "thread")
    BY <1>1, <1>2, InTurnIs
  <1>8. e \in Seq(Resources) /\ Len(e) = 3 * Runners
    <2>1. {"runner", "runner_event", "thread"} \X (1 .. Runners) \subseteq Resources
      BY <1>2 DEF Resources, RunnerNames
    <2>2. e \in Seq({"runner", "runner_event", "thread"} \X (1 .. Runners))
      BY <1>7 DEF TurnsOf
    <2>3. Len(e) = 3 * Runners
      BY <1>7 DEF TurnsOf
    <2>4. QED
      BY <2>1, <2>2, <2>3
  <1>9. PICK f, g, h, t : f = b \o c /\ g = a \o f /\ h = g \o d /\ t = h \o e
    OBVIOUS
  <1>10. /\ f \in Seq(Resources) /\ Len(f) = 6
         /\ \A i \in 1 .. 6 : f[i] = IF i <= 2 THEN b[i] ELSE c[i - 2]
    <2>1. f \in Seq(Resources) /\ Len(f) = Len(b) + Len(c)
          /\ \A i \in 1 .. Len(b) + Len(c) : f[i] = IF i <= Len(b) THEN b[i] ELSE c[i - Len(b)]
      BY <1>6, <1>9, ConcatProperties
    <2>2. QED
      BY <1>6, <2>1
  <1>11. /\ g \in Seq(Resources) /\ Len(g) = 8
         /\ \A i \in 1 .. 8 : g[i] = IF i <= 2 THEN a[i] ELSE f[i - 2]
    <2>1. a \in Seq(Resources) /\ f \in Seq(Resources)
      BY <1>6, <1>10
    <2>2. g \in Seq(Resources) /\ Len(g) = Len(a) + Len(f)
          /\ \A i \in 1 .. Len(a) + Len(f) : g[i] = IF i <= Len(a) THEN a[i] ELSE f[i - Len(a)]
      BY <1>9, <2>1, ConcatProperties
    <2>3. QED
      BY <1>6, <1>10, <2>2
  <1>12. /\ h \in Seq(Resources) /\ Len(h) = 11
         /\ \A i \in 1 .. 11 : h[i] = IF i <= 8 THEN g[i] ELSE d[i - 8]
    <2>1. g \in Seq(Resources) /\ d \in Seq(Resources)
      BY <1>6, <1>11
    <2>2. h \in Seq(Resources) /\ Len(h) = Len(g) + Len(d)
          /\ \A i \in 1 .. Len(g) + Len(d) : h[i] = IF i <= Len(g) THEN g[i] ELSE d[i - Len(g)]
      BY <1>9, <2>1, ConcatProperties
    <2>3. QED
      BY <1>6, <1>11, <2>2
  <1>13. /\ t \in Seq(Resources) /\ Len(t) = 11 + 3 * Runners
         /\ \A i \in 1 .. 11 + 3 * Runners : t[i] = IF i <= 11 THEN h[i] ELSE e[i - 11]
    <2>1. h \in Seq(Resources) /\ e \in Seq(Resources)
      BY <1>8, <1>12
    <2>2. t \in Seq(Resources) /\ Len(t) = Len(h) + Len(e)
          /\ \A i \in 1 .. Len(h) + Len(e) : t[i] = IF i <= Len(h) THEN h[i] ELSE e[i - Len(h)]
      BY <1>9, <2>1, ConcatProperties
    <2>3. QED
      BY <1>8, <1>12, <2>2
  <1>14. t = ThreadPool_create
    <2>1. f = MessageQueue_create
      BY <1>1, <1>9 DEF MessageQueue_create
    <2>2. QED
      BY <1>1, <1>9, <2>1 DEF ThreadPool_create
  <1>15. ASSUME NEW i \in 1 .. 11 PROVE t[i] = One(PoolOrder[i])
    <2>1. t[i] = h[i]
      BY <1>2, <1>13
    <2>2. /\ f[1] = b[1] /\ f[2] = b[2] /\ f[3] = c[1] /\ f[4] = c[2] /\ f[5] = c[3] /\ f[6] = c[4]
      BY <1>10
    <2>3. /\ g[1] = a[1] /\ g[2] = a[2] /\ g[3] = f[1] /\ g[4] = f[2] /\ g[5] = f[3] /\ g[6] = f[4]
          /\ g[7] = f[5] /\ g[8] = f[6]
      BY <1>11
    <2>4. /\ \A j \in 1 .. 8 : h[j] = g[j]
          /\ h[9] = d[1] /\ h[10] = d[2] /\ h[11] = d[3]
      BY <1>12
    <2>5. /\ h[1] = One("objPool") /\ h[2] = One("tp") /\ h[3] = One("mq_pool")
          /\ h[4] = One("mq") /\ h[5] = One("m_mtxRB") /\ h[6] = One("m_mtxSend")
          /\ h[7] = One("m_mtxRecv") /\ h[8] = One("m_event")
          /\ h[9] = One("m_threadMemoryPool") /\ h[10] = One("m_threadMemory")
          /\ h[11] = One("m_runnerPool")
      BY <1>5, <2>2, <2>3, <2>4
    <2>6. h[i] = One(PoolOrder[i])
      BY <2>5 DEF PoolOrder
    <2>7. QED
      BY <2>1, <2>6
  <1>16. ASSUME NEW i \in 1 .. Runners
         PROVE  /\ t[9 + 3 * i] = <<"runner", i>> /\ t[10 + 3 * i] = <<"runner_event", i>>
                /\ t[11 + 3 * i] = <<"thread", i>>
    <2>1. /\ t[9 + 3 * i] = e[3 * i - 2] /\ t[10 + 3 * i] = e[3 * i - 1]
          /\ t[11 + 3 * i] = e[3 * i]
      <3>1. /\ 9 + 3 * i \in 12 .. 11 + 3 * Runners /\ 10 + 3 * i \in 12 .. 11 + 3 * Runners
            /\ 11 + 3 * i \in 12 .. 11 + 3 * Runners
            /\ 9 + 3 * i - 11 = 3 * i - 2 /\ 10 + 3 * i - 11 = 3 * i - 1
            /\ 11 + 3 * i - 11 = 3 * i
        BY <1>2
      <3>2. \A k \in 12 .. 11 + 3 * Runners : t[k] = e[k - 11]
        BY <1>2, <1>13
      <3>3. QED
        BY <3>1, <3>2
    <2>2. QED
      BY <1>7, <2>1 DEF TurnsOf
  <1>17. ASSUME NEW k \in 12 .. 11 + 3 * Runners
         PROVE  \E i \in 1 .. Runners : k \in {9 + 3 * i, 10 + 3 * i, 11 + 3 * i}
    <2>1. k - 11 \in 1 .. 3 * Runners
      BY <1>2
    <2>2. PICK i \in 1 .. Runners : k - 11 \in {3 * i - 2, 3 * i - 1, 3 * i}
      BY <1>7, <2>1 DEF TurnsOf
    <2>3. QED
      BY <2>2
  <1>18. PoolMaking(t)
    BY <1>13, <1>15, <1>16, <1>17 DEF PoolMaking
  <1>19. QED
    BY <1>14, <1>18

\* A pool acquires nothing twice.
LEMMA PoolIsDistinct ==
    ASSUME NEW t, PoolMaking(t), NEW j \in 1 .. 11 + 3 * Runners, NEW k \in 1 .. 11 + 3 * Runners,
           t[j] = t[k]
    PROVE  j = k
  <1>1. Runners \in Nat
    BY CreationAssumption
  <1>2. \A i \in 1 .. 11 : t[i][1] = PoolOrder[i] /\ t[i][2] = 0
    BY DEF PoolMaking, One
  <1>3. \A i \in 1 .. Runners :
            /\ t[9 + 3 * i] = <<"runner", i>> /\ t[10 + 3 * i] = <<"runner_event", i>>
            /\ t[11 + 3 * i] = <<"thread", i>>
    BY DEF PoolMaking
  <1>4. \A m \in 12 .. 11 + 3 * Runners :
            \E i \in 1 .. Runners : m \in {9 + 3 * i, 10 + 3 * i, 11 + 3 * i}
    BY DEF PoolMaking
  <1>5. ASSUME NEW m \in 12 .. 11 + 3 * Runners PROVE t[m][2] # 0
    <2>1. PICK i \in 1 .. Runners : m \in {9 + 3 * i, 10 + 3 * i, 11 + 3 * i}
      BY <1>4
    <2>2. t[m] \in {<<"runner", i>>, <<"runner_event", i>>, <<"thread", i>>}
      BY <1>3, <2>1
    <2>3. QED
      BY <2>2
  <1>6. CASE j \in 1 .. 11 /\ k \in 1 .. 11
    <2>1. PoolOrder[j] = PoolOrder[k]
      BY <1>2, <1>6
    <2>2. QED
      BY <1>6, <2>1 DEF PoolOrder
  <1>7. CASE j \in 1 .. 11 /\ k \in 12 .. 11 + 3 * Runners
    BY <1>2, <1>5, <1>7
  <1>8. CASE k \in 1 .. 11 /\ j \in 12 .. 11 + 3 * Runners
    BY <1>2, <1>5, <1>8
  <1>9. CASE j \in 12 .. 11 + 3 * Runners /\ k \in 12 .. 11 + 3 * Runners
    <2>1. PICK a \in 1 .. Runners : j \in {9 + 3 * a, 10 + 3 * a, 11 + 3 * a}
      BY <1>4, <1>9
    <2>2. PICK b \in 1 .. Runners : k \in {9 + 3 * b, 10 + 3 * b, 11 + 3 * b}
      BY <1>4, <1>9
    <2>3. /\ t[9 + 3 * a] = <<"runner", a>> /\ t[10 + 3 * a] = <<"runner_event", a>>
          /\ t[11 + 3 * a] = <<"thread", a>> /\ t[9 + 3 * b] = <<"runner", b>>
          /\ t[10 + 3 * b] = <<"runner_event", b>> /\ t[11 + 3 * b] = <<"thread", b>>
      BY <1>3
    <2>4. t[j][2] = a /\ t[k][2] = b
      BY <2>1, <2>2, <2>3
    <2>5. a = b
      BY <2>4
    <2>6. QED
      BY <2>1, <2>2, <2>3, <2>5
  <1>10. j \in 1 .. 11 \/ j \in 12 .. 11 + 3 * Runners
    BY <1>1
  <1>11. k \in 1 .. 11 \/ k \in 12 .. 11 + 3 * Runners
    BY <1>1
  <1>12. QED
    BY <1>6, <1>7, <1>8, <1>9, <1>10, <1>11

\* What there is of a pool when the first n resources of t have been acquired.
PoolSoFar(t, n) ==
    /\ n \in 0 .. 11 + 3 * Runners
    /\ live = { t[i] : i \in 1 .. n }

\* After n resources there are the first n, and no others.
LEMMA PoolHas ==
    ASSUME NEW t, PoolMaking(t), NEW n, PoolSoFar(t, n)
    PROVE  /\ \A i \in 1 .. 11 : Exists(PoolOrder[i]) <=> i <= n
           /\ \A i \in 1 .. Runners : /\ <<"runner", i>> \in live <=> 9 + 3 * i <= n
                                      /\ <<"runner_event", i>> \in live <=> 10 + 3 * i <= n
                                      /\ <<"thread", i>> \in live <=> 11 + 3 * i <= n
           /\ \A x \in live : \/ \E i \in 1 .. 11 : x = One(PoolOrder[i])
                              \/ \E i \in 1 .. Runners : \E name \in RunnerNames : x = <<name, i>>
  <1>1. Runners \in Nat /\ n \in 0 .. 11 + 3 * Runners
    BY CreationAssumption DEF PoolSoFar
  <1>2. ASSUME NEW k \in 1 .. 11 + 3 * Runners PROVE t[k] \in live <=> k <= n
    <2>1. ASSUME t[k] \in live PROVE k <= n
      <3>1. PICK i \in 1 .. n : t[k] = t[i]
        BY <2>1 DEF PoolSoFar
      <3>2. i \in 1 .. 11 + 3 * Runners
        BY <1>1
      <3>3. k = i
        BY <3>1, <3>2, PoolIsDistinct
      <3>4. QED
        BY <3>3
    <2>2. ASSUME k <= n PROVE t[k] \in live
      <3>1. k \in 1 .. n
        BY <1>1, <2>2
      <3>2. QED
        BY <3>1 DEF PoolSoFar
    <2>3. QED
      BY <2>1, <2>2
  <1>3. ASSUME NEW i \in 1 .. 11 PROVE Exists(PoolOrder[i]) <=> i <= n
    <2>1. i \in 1 .. 11 + 3 * Runners
      BY <1>1
    <2>2. t[i] = One(PoolOrder[i])
      BY DEF PoolMaking
    <2>3. QED
      BY <1>2, <2>1, <2>2 DEF Exists
  <1>4. ASSUME NEW i \in 1 .. Runners
        PROVE  /\ <<"runner", i>> \in live <=> 9 + 3 * i <= n
               /\ <<"runner_event", i>> \in live <=> 10 + 3 * i <= n
               /\ <<"thread", i>> \in live <=> 11 + 3 * i <= n
    <2>1. /\ 9 + 3 * i \in 1 .. 11 + 3 * Runners /\ 10 + 3 * i \in 1 .. 11 + 3 * Runners
          /\ 11 + 3 * i \in 1 .. 11 + 3 * Runners
      BY <1>1
    <2>2. /\ t[9 + 3 * i] = <<"runner", i>> /\ t[10 + 3 * i] = <<"runner_event", i>>
          /\ t[11 + 3 * i] = <<"thread", i>>
      BY DEF PoolMaking
    <2>3. QED
      BY <1>2, <2>1, <2>2
  <1>5. ASSUME NEW x \in live
        PROVE  \/ \E i \in 1 .. 11 : x = One(PoolOrder[i])
               \/ \E i \in 1 .. Runners : \E name \in RunnerNames : x = <<name, i>>
    <2>1. PICK k \in 1 .. n : x = t[k]
      BY DEF PoolSoFar
    <2>2. CASE k \in 1 .. 11
      BY <2>1, <2>2 DEF PoolMaking
    <2>3. CASE k \notin 1 .. 11
      <3>1. k \in 12 .. 11 + 3 * Runners
        BY <1>1, <2>3
      <3>2. PICK i \in 1 .. Runners : k \in {9 + 3 * i, 10 + 3 * i, 11 + 3 * i}
        BY <3>1 DEF PoolMaking
      <3>3. /\ t[9 + 3 * i] = <<"runner", i>> /\ t[10 + 3 * i] = <<"runner_event", i>>
            /\ t[11 + 3 * i] = <<"thread", i>>
        BY DEF PoolMaking
      <3>4. x \in {<<"runner", i>>, <<"runner_event", i>>, <<"thread", i>>}
        BY <2>1, <3>2, <3>3
      <3>5. QED
        BY <3>4 DEF RunnerNames
    <2>4. QED
      BY <2>2, <2>3
  <1>6. QED
    BY <1>3, <1>4, <1>5

\* The runners that are complete when n resources have been acquired, and what is
\* acquired first of the one after q.
Complete(n) == IF n < 11 THEN 0 ELSE (n - 11) \div 3
Coming(q) == { <<name, q + 1>> : name \in {"runner", "runner_event"} }

\* The runners that are complete when n resources have been acquired.
LEMMA PoolRunners ==
    ASSUME NEW t, PoolMaking(t), NEW n, PoolSoFar(t, n)
    PROVE  /\ Complete(n) \in Nat
           /\ Queued = Complete(n)
           /\ PoolOf(live \ Coming(Complete(n)), Complete(n))
           /\ Complete(n) > 0 \/ Coming(Complete(n)) \cap live # {} => 11 <= n
  <1>1. PICK q, next : q = Complete(n) /\ next = Coming(q)
    OBVIOUS
  <1>2. Runners \in Nat /\ n \in 0 .. 11 + 3 * Runners
    BY CreationAssumption DEF PoolSoFar
  <1>3. q \in 0 .. Runners /\ n < 14 + 3 * q /\ (q = 0 \/ 11 + 3 * q <= n)
    <2>1. CASE n < 11
      BY <1>1, <1>2, <2>1 DEF Complete
    <2>2. CASE ~(n < 11)
      <3>1. q \in Int /\ 3 * q <= n - 11 /\ n - 11 < 3 * q + 3
        BY <1>1, <1>2, <2>2 DEF Complete
      <3>2. QED
        BY <1>2, <2>2, <3>1
    <2>3. QED
      BY <2>1, <2>2
  <1>4. \A i \in 1 .. 11 : Exists(PoolOrder[i]) <=> i <= n
    BY PoolHas
  <1>5. \A i \in 1 .. Runners : /\ <<"runner", i>> \in live <=> 9 + 3 * i <= n
                                /\ <<"runner_event", i>> \in live <=> 10 + 3 * i <= n
                                /\ <<"thread", i>> \in live <=> 11 + 3 * i <= n
    BY PoolHas
  <1>6. \A x \in live : \/ \E i \in 1 .. 11 : x = One(PoolOrder[i])
                        \/ \E i \in 1 .. Runners : \E name \in RunnerNames : x = <<name, i>>
    BY PoolHas
  <1>7. Queued = q
    <2>1. \A i \in 1 .. Runners : 11 + 3 * i <= n <=> i <= q
      BY <1>2, <1>3
    <2>2. { i \in 1 .. Runners : <<"thread", i>> \in live } = 1 .. q
      <3>1. \A i \in 1 .. Runners : <<"thread", i>> \in live <=> i <= q
        BY <1>5, <2>1
      <3>2. \A i \in 1 .. q : i \in 1 .. Runners /\ i <= q
        BY <1>2, <1>3
      <3>3. \A i \in 1 .. Runners : i <= q => i \in 1 .. q
        BY <1>2, <1>3
      <3>4. QED
        BY <3>1, <3>2, <3>3
    <2>3. Cardinality(1 .. q) = q
      <3>1. q \in Int /\ 1 \in Int
        BY <1>3
      <3>2. Cardinality(1 .. q) = IF 1 > q THEN 0 ELSE q - 1 + 1
        BY <3>1, FS_Interval
      <3>3. QED
        BY <1>3, <3>2
    <2>4. QED
      BY <2>2, <2>3 DEF Queued
  <1>8. \A name \in PoolNames : One(name) \in live \ next <=> Exists(name)
    <2>1. \A name \in PoolNames : One(name) \notin next
      BY <1>1 DEF Coming, One, PoolNames, QueueNames
    <2>2. QED
      BY <2>1 DEF Exists
  <1>9. \A i \in 1 .. 11 : PoolOrder[i] \in PoolNames
    BY DEF PoolOrder, PoolNames, QueueNames
  <1>10. ASSUME NEW x \in live \ next
         PROVE  (x[1] \in PoolNames /\ x = One(x[1])) \/ x[1] \in RunnerNames
    <2>1. CASE \E i \in 1 .. 11 : x = One(PoolOrder[i])
      BY <1>9, <2>1 DEF One
    <2>2. CASE \E i \in 1 .. Runners : \E name \in RunnerNames : x = <<name, i>>
      BY <2>2
    <2>3. QED
      BY <1>6, <2>1, <2>2
  <1>11. ASSUME NEW i \in 1 .. q, NEW name \in RunnerNames PROVE <<name, i>> \in live \ next
    <2>1. i \in 1 .. Runners /\ 9 + 3 * i <= n /\ 10 + 3 * i <= n /\ 11 + 3 * i <= n
      BY <1>2, <1>3
    <2>2. <<name, i>> \in live
      BY <1>5, <2>1 DEF RunnerNames
    <2>3. i # q + 1
      BY <1>3
    <2>4. QED
      BY <1>1, <2>2, <2>3 DEF Coming
  <1>12. ASSUME NEW x \in live \ next, x[1] \in RunnerNames
         PROVE  \E i \in 1 .. q : x = <<x[1], i>>
    <2>1. \A i \in 1 .. 11 : x # One(PoolOrder[i])
      <3>1. \A i \in 1 .. 11 : PoolOrder[i] \notin RunnerNames
        BY DEF PoolOrder, RunnerNames
      <3>2. QED
        BY <1>12, <3>1 DEF One
    <2>2. PICK i \in 1 .. Runners, name \in RunnerNames : x = <<name, i>>
      BY <1>6, <1>12, <2>1
    <2>3. CASE i <= q
      BY <1>3, <2>2, <2>3
    <2>4. CASE ~(i <= q)
      <3>1. name # "thread"
        <4>1. ~(11 + 3 * i <= n)
          BY <1>2, <1>3, <2>4
        <4>2. QED
          BY <1>5, <1>12, <2>2, <4>1
      <3>2. name \in {"runner", "runner_event"}
        BY <3>1 DEF RunnerNames
      <3>3. 9 + 3 * i <= n \/ 10 + 3 * i <= n
        BY <1>5, <1>12, <2>2, <3>2
      <3>4. i = q + 1
        BY <1>2, <1>3, <2>4, <3>3
      <3>5. x \in next
        BY <1>1, <2>2, <3>2, <3>4 DEF Coming
      <3>6. QED
        BY <1>12, <3>5
    <2>5. QED
      BY <2>3, <2>4
  <1>13. PoolOf(live \ next, q)
    BY <1>8, <1>10, <1>11, <1>12 DEF PoolOf
  <1>14. ASSUME q > 0 \/ next \cap live # {} PROVE 11 <= n
    <2>1. CASE q > 0
      BY <1>2, <1>3, <2>1
    <2>2. CASE next \cap live # {}
      <3>1. PICK name \in {"runner", "runner_event"} : <<name, q + 1>> \in live
        BY <1>1, <2>2 DEF Coming
      <3>2. \A i \in 1 .. 11 : <<name, q + 1>> # One(PoolOrder[i])
        BY <1>3 DEF One
      <3>3. q + 1 \in 1 .. Runners
        BY <1>3, <1>6, <3>1, <3>2
      <3>4. 9 + 3 * (q + 1) <= n \/ 10 + 3 * (q + 1) <= n
        BY <1>5, <3>1, <3>3
      <3>5. QED
        BY <1>2, <1>3, <3>4
    <2>3. QED
      BY <1>14, <2>1, <2>2
  <1>15. QED
    BY <1>1, <1>3, <1>7, <1>13, <1>14

\* Wherever the create() of a pool fails, it undoes what it has done.
LEMMA PoolFails ==
    ASSUME NEW n, PoolSoFar(ThreadPool_create, n)
    PROVE  Clears(ThreadPool_undo, live, {})
  <1>1. PICK t, q, next :
            t = ThreadPool_create /\ q = Complete(n) /\ next = Coming(q)
    OBVIOUS
  <1>2. PoolMaking(t) /\ PoolSoFar(t, n)
    BY <1>1, PoolIsMade
  <1>3. /\ q \in Nat /\ Queued = q /\ PoolOf(live \ next, q)
        /\ q > 0 \/ next \cap live # {} => 11 <= n
    BY <1>1, <1>2, PoolRunners
  <1>4. \A i \in 1 .. 11 : Exists(PoolOrder[i]) <=> i <= n
    BY <1>2, PoolHas
  <1>5. /\ Exists("objPool") <=> 1 <= n
        /\ Exists("tp") <=> 2 <= n
        /\ Exists("mq_pool") <=> 3 <= n
        /\ Exists("mq") <=> 4 <= n
        /\ Exists("m_mtxRB") <=> 5 <= n
        /\ Exists("m_mtxSend") <=> 6 <= n
        /\ Exists("m_mtxRecv") <=> 7 <= n
        /\ Exists("m_event") <=> 8 <= n
        /\ Exists("m_threadMemoryPool") <=> 9 <= n
        /\ Exists("m_threadMemory") <=> 10 <= n
        /\ Exists("m_runnerPool") <=> 11 <= n
    BY <1>4 DEF PoolOrder
  <1>6. n \in Int
    BY <1>2, CreationAssumption DEF PoolSoFar
  <1>7. /\ q > 0 \/ next \cap live # {} => Exists("m_runnerPool")
        /\ Exists("m_runnerPool") => Exists("m_event")
        /\ Exists("m_event") => Exists("mq")
        /\ Exists("m_threadMemoryPool") \/ Exists("m_threadMemory") => Exists("m_event")
        /\ Exists("mq") => Exists("mq_pool")
        /\ Exists("mq_pool") => Exists("tp")
        /\ Exists("tp") => Exists("objPool")
    BY <1>3, <1>5, <1>6
  <1>8. ~Exists("mq") => \A name \in QueueNames \ {"mq_pool"} : ~Exists(name)
    <2>1. ASSUME ~Exists("mq"), NEW name \in QueueNames \ {"mq_pool"} PROVE ~Exists(name)
      <3>1. ~(4 <= n)
        BY <1>5, <2>1
      <3>2. name \in {"mq", "m_mtxRB", "m_mtxSend", "m_mtxRecv", "m_event"}
        BY <2>1 DEF QueueNames
      <3>3. QED
        BY <1>5, <1>6, <3>1, <3>2
    <2>2. QED
      BY <2>1
  <1>9. next = { <<name, q + 1>> : name \in {"runner", "runner_event"} }
    BY <1>1 DEF Coming
  <1>10. QED
    BY <1>3, <1>7, <1>8, <1>9, PoolUndone

\* destroy() of a pool.
LEMMA PoolDestroyed ==
    ASSUME live = ToSet(ThreadPool_create)
    PROVE  Clears(ThreadPool_destroy, live, {})
  <1>1. PICK t, n, q, next :
            /\ t = ThreadPool_create /\ n = 11 + 3 * Runners
            /\ q = Complete(n) /\ next = Coming(q)
    OBVIOUS
  <1>2. Runners \in Nat /\ n \in 0 .. 11 + 3 * Runners /\ n >= 11 /\ n \in Nat
    BY <1>1, CreationAssumption
  <1>3. PoolMaking(t)
    BY <1>1, PoolIsMade
  <1>4. PoolSoFar(t, n)
    <2>1. DOMAIN t = 1 .. n
      BY <1>1, <1>3, LenProperties DEF PoolMaking
    <2>2. QED
      BY <1>1, <1>2, <2>1 DEF PoolSoFar, ToSet
  <1>5. q \in Nat /\ Queued = q /\ PoolOf(live \ next, q)
    BY <1>1, <1>3, <1>4, PoolRunners
  <1>6. \A i \in 1 .. 11 : Exists(PoolOrder[i])
    <2>1. \A i \in 1 .. 11 : Exists(PoolOrder[i]) <=> i <= n
      BY <1>3, <1>4, PoolHas
    <2>2. QED
      BY <1>2, <2>1
  <1>7. /\ Exists("objPool") /\ Exists("tp") /\ Exists("mq_pool") /\ Exists("mq")
        /\ Exists("m_runnerPool")
    BY <1>6 DEF PoolOrder
  <1>8. live \ next = live
    <2>1. q = Runners
      BY <1>1, <1>2 DEF Complete
    <2>2. \A name \in {"runner", "runner_event"} : <<name, q + 1>> \notin live
      <3>1. \A x \in live : \/ \E i \in 1 .. 11 : x = One(PoolOrder[i])
                            \/ \E i \in 1 .. Runners : \E name \in RunnerNames : x = <<name, i>>
        BY <1>3, <1>4, PoolHas
      <3>2. \A name \in {"runner", "runner_event"} : \A i \in 1 .. 11 :
                <<name, q + 1>> # One(PoolOrder[i])
        BY <1>5 DEF One
      <3>3. q + 1 \notin 1 .. Runners
        BY <1>2, <2>1
      <3>4. QED
        BY <3>1, <3>2, <3>3
    <2>3. QED
      BY <1>1, <2>2 DEF Coming
  <1>9. QED
    BY <1>5, <1>7, <1>8, PoolClears

-----------------------------------------------------------------------------
(* Every class: what its create() acquires.                                *)

\* Resources that are acquired one after the other, each once.
OneByOne(t) ==
    /\ Len(t) \in Nat \ {0} /\ DOMAIN t = 1 .. Len(t)
    /\ \A i, j \in DOMAIN t : t[i] = t[j] => i = j
    /\ One("crash") \notin ToSet(t)

\* The first n resources of t exist, and no others.
SoFar(t, n) == n \in 0 .. Len(t) /\ live = { t[i] : i \in 1 .. n }

\* A pool is acquired so, and nothing of it crashes.
LEMMA PoolIsOneByOne == OneByOne(ThreadPool_create)
  <1>1. PICK t, m : t = ThreadPool_create /\ m = 11 + 3 * Runners
    OBVIOUS
  <1>2. PoolMaking(t) /\ m \in Nat \ {0} /\ Runners \in Nat
    BY <1>1, PoolIsMade, CreationAssumption
  <1>3. Len(t) = m /\ DOMAIN t = 1 .. m
    BY <1>1, <1>2, LenProperties DEF PoolMaking
  <1>4. \A i, j \in DOMAIN t : t[i] = t[j] => i = j
    BY <1>1, <1>2, <1>3, PoolIsDistinct
  <1>5. ASSUME NEW k \in 1 .. m PROVE t[k] # One("crash")
    <2>1. CASE k \in 1 .. 11
      <3>1. t[k] = One(PoolOrder[k]) /\ PoolOrder[k] # "crash"
        BY <1>2, <2>1 DEF PoolMaking, PoolOrder
      <3>2. QED
        BY <3>1 DEF One
    <2>2. CASE k \notin 1 .. 11
      <3>1. k \in 12 .. 11 + 3 * Runners
        BY <1>1, <1>2, <2>2
      <3>2. PICK i \in 1 .. Runners : k \in {9 + 3 * i, 10 + 3 * i, 11 + 3 * i}
        BY <1>2, <3>1 DEF PoolMaking
      <3>3. /\ t[9 + 3 * i] = <<"runner", i>> /\ t[10 + 3 * i] = <<"runner_event", i>>
            /\ t[11 + 3 * i] = <<"thread", i>>
        BY <1>2 DEF PoolMaking
      <3>4. t[k] \in {<<"runner", i>>, <<"runner_event", i>>, <<"thread", i>>}
        BY <3>2, <3>3
      <3>5. QED
        BY <3>4 DEF One
    <2>3. QED
      BY <2>1, <2>2
  <1>6. OneByOne(t)
    BY <1>2, <1>3, <1>4, <1>5 DEF OneByOne, ToSet
  <1>7. QED
    BY <1>1, <1>6

\* What MessageQueue::create() acquires, in its order.
LEMMA QueueIsMade ==
    /\ Len(MessageQueue_create) = 6 /\ DOMAIN MessageQueue_create = 1 .. 6
    /\ MessageQueue_create[1] = One("mq_pool")
    /\ MessageQueue_create[2] = One("mq")
    /\ MessageQueue_create[3] = One("m_mtxRB")
    /\ MessageQueue_create[4] = One("m_mtxSend")
    /\ MessageQueue_create[5] = One("m_mtxRecv")
    /\ MessageQueue_create[6] = One("m_event")
  <1>1. PICK b, c, f, S :
            /\ b = All(<<"mq_pool", "mq">>) /\ c = MessageQueue_members /\ f = b \o c
            /\ S = QueueParts
    OBVIOUS
  <1>2. /\ b = <<One("mq_pool"), One("mq")>>
        /\ c = <<One("m_mtxRB"), One("m_mtxSend"), One("m_mtxRecv"), One("m_event")>>
    BY <1>1 DEF All, MessageQueue_members
  <1>3. /\ One("mq_pool") \in S /\ One("mq") \in S /\ One("m_mtxRB") \in S
        /\ One("m_mtxSend") \in S /\ One("m_mtxRecv") \in S /\ One("m_event") \in S
    BY <1>1 DEF QueueParts, QueueNames
  <1>4. b \in Seq(S) /\ Len(b) = 2 /\ c \in Seq(S) /\ Len(c) = 4
    BY <1>2, <1>3
  <1>5. /\ f \in Seq(S) /\ Len(f) = Len(b) + Len(c)
        /\ \A i \in 1 .. Len(b) + Len(c) : f[i] = IF i <= Len(b) THEN b[i] ELSE c[i - Len(b)]
    BY <1>1, <1>4, ConcatProperties
  <1>6. /\ f \in Seq(S) /\ Len(f) = 6
        /\ \A i \in 1 .. 6 : f[i] = IF i <= 2 THEN b[i] ELSE c[i - 2]
    BY <1>4, <1>5
  <1>7. DOMAIN f = 1 .. 6
    BY <1>6, LenProperties
  <1>8. /\ f[1] = b[1] /\ f[2] = b[2] /\ f[3] = c[1] /\ f[4] = c[2] /\ f[5] = c[3] /\ f[6] = c[4]
    BY <1>6
  <1>9. MessageQueue_create = f
    BY <1>1 DEF MessageQueue_create
  <1>10. QED
    BY <1>2, <1>6, <1>7, <1>8, <1>9

\* A queue acquires nothing twice.
LEMMA QueueIsOneByOne == OneByOne(MessageQueue_create)
  <1>1. PICK f : f = MessageQueue_create
    OBVIOUS
  <1>2. /\ Len(f) = 6 /\ DOMAIN f = 1 .. 6
        /\ f[1] = One("mq_pool") /\ f[2] = One("mq") /\ f[3] = One("m_mtxRB")
        /\ f[4] = One("m_mtxSend") /\ f[5] = One("m_mtxRecv") /\ f[6] = One("m_event")
    BY <1>1, QueueIsMade
  <1>3. \A i \in 1 .. 6 : i \in {1, 2, 3, 4, 5, 6}
    OBVIOUS
  <1>4. OneByOne(f)
    BY <1>2, <1>3 DEF OneByOne, One, ToSet
  <1>5. QED
    BY <1>1, <1>4

\* After n resources there are the first n of a queue, and no others.
LEMMA QueueHas ==
    ASSUME NEW n, SoFar(MessageQueue_create, n)
    PROVE  /\ n \in 0 .. 6
           /\ QueueAlone(live)
           /\ live \subseteq QueueParts
           /\ Exists("mq_pool") <=> 1 <= n
           /\ Exists("mq") <=> 2 <= n
           /\ \A name \in QueueNames \ {"mq_pool", "mq"} : Exists(name) => 3 <= n
  <1>1. PICK f : f = MessageQueue_create
    OBVIOUS
  <1>2. /\ Len(f) = 6 /\ DOMAIN f = 1 .. 6
        /\ f[1] = One("mq_pool") /\ f[2] = One("mq") /\ f[3] = One("m_mtxRB")
        /\ f[4] = One("m_mtxSend") /\ f[5] = One("m_mtxRecv") /\ f[6] = One("m_event")
    BY <1>1, QueueIsMade
  <1>3. n \in 0 .. 6 /\ live = { f[i] : i \in 1 .. n }
    BY <1>1, <1>2 DEF SoFar
  <1>4. \A i \in 1 .. n : i \in {1, 2, 3, 4, 5, 6}
    BY <1>3
  <1>5. ASSUME NEW x \in live PROVE \E name \in QueueNames : x = One(name)
    BY <1>2, <1>3, <1>4 DEF QueueNames
  <1>6. \A name \in QueueNames : Exists(name) <=> \E i \in 1 .. n : f[i] = One(name)
    BY <1>3 DEF Exists
  <1>7. Exists("mq_pool") <=> 1 <= n
    BY <1>2, <1>3, <1>4, <1>6 DEF QueueNames, One
  <1>8. Exists("mq") <=> 2 <= n
    BY <1>2, <1>3, <1>4, <1>6 DEF QueueNames, One
  <1>9. \A name \in QueueNames \ {"mq_pool", "mq"} : Exists(name) => 3 <= n
    BY <1>2, <1>3, <1>4, <1>6 DEF QueueNames, One
  <1>10. live \subseteq QueueParts
    BY <1>5 DEF QueueParts
  <1>11. QueueAlone(live)
    <2>1. \A x \in live : x = One(x[1]) /\ x[1] \in QueueNames
      BY <1>5 DEF One
    <2>2. QED
      BY <2>1 DEF QueueAlone, QueueNames, Exists
  <1>12. QED
    BY <1>3, <1>7, <1>8, <1>9, <1>10, <1>11

\* Wherever the create() of a queue fails, it undoes what it has done.
LEMMA QueueFails ==
    ASSUME NEW n, SoFar(MessageQueue_create, n)
    PROVE  Clears(MessageQueue_undo, live, {})
  <1>1. /\ n \in 0 .. 6 /\ QueueAlone(live) /\ live \subseteq QueueParts
    BY QueueHas
  <1>2. ~Exists("mq_pool") => ~Exists("mq")
    BY <1>1, QueueHas
  <1>3. ~Exists("mq") => \A name \in QueueNames \ {"mq_pool"} : ~Exists(name)
    BY <1>1, QueueHas
  <1>4. Clears(MessageQueue_undo, live, live \ QueueParts)
    BY <1>1, <1>2, <1>3, QueueUndone
  <1>5. live \ QueueParts = {}
    BY <1>1
  <1>6. QED
    BY <1>4, <1>5

\* destroy() of a queue.
LEMMA QueueDestroyed ==
    ASSUME SoFar(MessageQueue_create, Len(MessageQueue_create))
    PROVE  Clears(MessageQueue_destroy, live, {})
  <1>1. PICK n : n = Len(MessageQueue_create)
    OBVIOUS
  <1>2. n = 6 /\ SoFar(MessageQueue_create, n)
    BY <1>1, QueueIsMade
  <1>3. /\ QueueAlone(live) /\ live \subseteq QueueParts /\ Exists("mq_pool") /\ Exists("mq")
    BY <1>2, QueueHas
  <1>4. Clears(MessageQueue_destroy, live, live \ QueueParts)
    BY <1>3, QueueClears
  <1>5. live \ QueueParts = {}
    BY <1>3
  <1>6. QED
    BY <1>4, <1>5

-----------------------------------------------------------------------------
(* The smaller objects.                                                    *)

\* An object that is made of two things.
LEMMA PairIsOneByOne ==
    ASSUME NEW a, NEW b, a # b, a # One("crash"), b # One("crash")
    PROVE  OneByOne(<<a, b>>)
  BY DEF OneByOne, ToSet

\* What there is of it when n of its things have been acquired.
LEMMA PairHas ==
    ASSUME NEW a, NEW b, NEW n, SoFar(<<a, b>>, n)
    PROVE  /\ n \in 0 .. 2
           /\ n = 0 => live = {}
           /\ n = 1 => live = {a}
           /\ n = 2 => live = {a, b}
  <1>1. n \in 0 .. 2 /\ live = { <<a, b>>[i] : i \in 1 .. n }
    BY DEF SoFar
  <1>2. n = 0 => live = {}
    BY <1>1
  <1>3. n = 1 => live = {a}
    BY <1>1
  <1>4. n = 2 => live = {a, b}
    <2>1. 1 .. 2 = {1, 2}
      OBVIOUS
    <2>2. QED
      BY <1>1, <2>1
  <1>5. QED
    BY <1>1, <1>2, <1>3, <1>4

\* Its create() fails.
LEMMA PairFails ==
    ASSUME NEW a, NEW b, NEW n, SoFar(<<a, b>>, n), n # 2, ~Within(a, a)
    PROVE  Clears(NonNull(a), live, {})
  <1>1. live = {} \/ live = {a}
    BY PairHas
  <1>2. \A x \in live : ~Within(x, a)
    BY <1>1
  <1>3. live \ {a} = {}
    BY <1>1
  <1>4. QED
    BY <1>2, <1>3, ClearsNonNull

\* It is destroyed.
LEMMA PairDestroyed ==
    ASSUME NEW a, NEW b, a # b, live = {a, b}, ~Within(a, a), ~Within(b, b), ~Within(a, b)
    PROVE  Clears(Reverse(<<a, b>>), live, {})
  <1>1. Reverse(<<a, b>>) = <<b, a>>
    <2>1. Reverse(<<a, b>>) = [i \in 1 .. 2 |-> <<a, b>>[2 - i + 1]]
      BY DEF Reverse
    <2>2. [i \in 1 .. 2 |-> <<a, b>>[2 - i + 1]] = <<b, a>>
      OBVIOUS
    <2>3. QED
      BY <2>1, <2>2
  <1>2. Clears(<<b>>, live, live \ {b})
    BY ClearsOne
  <1>3. live \ {b} = {a} /\ {a} \ {a} = {}
    OBVIOUS
  <1>4. Clears(<<a>>, {a}, {})
    BY <1>3, ClearsOne
  <1>5. Clears(<<b>>, live, {a})
    BY <1>2, <1>3
  <1>6. Clears(<<b>> \o <<a>>, live, {})
    BY <1>4, <1>5, ClearsBoth
  <1>7. <<b, a>> = <<b>> \o <<a>>
    OBVIOUS
  <1>8. QED
    BY <1>1, <1>6, <1>7

\* A task of the Itron platform.
LEMMA TaskIsMade ==
    /\ ItronThread_create =
        <<One("block"), One("tsk"), One("flg"), One("mtx"), One("IDMap")>>
    /\ OneByOne(ItronThread_create)
  <1>1. ItronThread_create =
            <<One("block"), One("tsk"), One("flg"), One("mtx"), One("IDMap")>>
    BY DEF ItronThread_create, All
  <1>2. OneByOne(<<One("block"), One("tsk"), One("flg"), One("mtx"), One("IDMap")>>)
    BY DEF OneByOne, ToSet, One
  <1>3. QED
    BY <1>1, <1>2

\* Its create() fails, before it is in m_threadIdMap.
LEMMA TaskFails ==
    ASSUME NEW n \in 0 .. 3, SoFar(ItronThread_create, n)
    PROVE  Clears(ItronThread_undo, live, {})
  <1>1. live = { <<One("block"), One("tsk"), One("flg"), One("mtx"), One("IDMap")>>[i] :
                    i \in 1 .. n }
    BY TaskIsMade DEF SoFar
  <1>2. \A i \in 1 .. n : i \in {1, 2, 3}
    OBVIOUS
  <1>3. live \subseteq {One("block"), One("tsk"), One("flg")}
    BY <1>1, <1>2
  <1>4. PICK L1, L2, L3 : /\ L1 = live \ {One("flg")} /\ L2 = L1 \ {One("tsk")}
                          /\ L3 = L2 \ {One("block")}
    OBVIOUS
  <1>5. /\ \A x \in live : ~Within(x, One("flg"))
        /\ \A x \in L1 : ~Within(x, One("tsk"))
        /\ \A x \in L2 : ~Within(x, One("block"))
    BY <1>3, <1>4 DEF Within, One
  <1>6. /\ One("tsk") \in L1 <=> One("tsk") \in live
        /\ One("block") \in L2 <=> One("block") \in live
    BY <1>4 DEF One
  <1>7. Clears(NonNull(One("flg")), live, L1)
    BY <1>4, <1>5, ClearsNonNull
  <1>8. Clears(NonNull(One("tsk")), L1, L2)
    BY <1>4, <1>5, <1>6, ClearsNonNull
  <1>9. Clears(NonNull(One("block")), L2, L3)
    BY <1>4, <1>5, <1>6, ClearsNonNull
  <1>10. L3 = {}
    BY <1>3, <1>4
  <1>11. Clears(NonNull(One("flg")) \o NonNull(One("tsk")), live, L2)
    BY <1>7, <1>8, ClearsBoth
  <1>12. Clears((NonNull(One("flg")) \o NonNull(One("tsk"))) \o NonNull(One("block")), live, L3)
    BY <1>9, <1>11, ClearsBoth
  <1>13. QED
    BY <1>10, <1>12 DEF ItronThread_undo

\* It is destroyed.
LEMMA TaskDestroyed ==
    ASSUME SoFar(ItronThread_create, 5)
    PROVE  Clears(ItronThread_destroy, live, {})
  <1>1. live = {One("block"), One("tsk"), One("flg"), One("mtx"), One("IDMap")}
    <2>1. live = { <<One("block"), One("tsk"), One("flg"), One("mtx"), One("IDMap")>>[i] :
                    i \in 1 .. 5 }
      BY TaskIsMade DEF SoFar
    <2>2. 1 .. 5 = {1, 2, 3, 4, 5}
      OBVIOUS
    <2>3. QED
      BY <2>1, <2>2
  <1>2. PICK L1, L2, L3, L4, L5 :
            /\ L1 = live \ {One("IDMap")} /\ L2 = L1 \ {One("tsk")} /\ L3 = L2 \ {One("flg")}
            /\ L4 = L3 \ {One("mtx")} /\ L5 = L4 \ {One("block")}
    OBVIOUS
  <1>3. /\ One("IDMap") \in live /\ One("tsk") \in L1 /\ One("flg") \in L2
        /\ One("mtx") \in L3 /\ One("block") \in L4
    BY <1>1, <1>2 DEF One
  <1>4. /\ \A x \in live : ~Within(x, One("IDMap"))
        /\ \A x \in L1 : ~Within(x, One("tsk"))
        /\ \A x \in L2 : ~Within(x, One("flg"))
        /\ \A x \in L3 : ~Within(x, One("mtx"))
        /\ \A x \in L4 : ~Within(x, One("block"))
    BY <1>1, <1>2 DEF Within, One
  <1>5. /\ Clears(<<One("IDMap")>>, live, L1) /\ Clears(<<One("tsk")>>, L1, L2)
        /\ Clears(<<One("flg")>>, L2, L3) /\ Clears(<<One("mtx")>>, L3, L4)
        /\ Clears(<<One("block")>>, L4, L5)
    BY <1>2, <1>3, <1>4, ClearsOne
  <1>6. Clears(<<One("IDMap")>> \o <<One("tsk")>>, live, L2)
    BY <1>5, ClearsBoth
  <1>7. Clears((<<One("IDMap")>> \o <<One("tsk")>>) \o <<One("flg")>>, live, L3)
    BY <1>5, <1>6, ClearsBoth
  <1>8. Clears(((<<One("IDMap")>> \o <<One("tsk")>>) \o <<One("flg")>>) \o <<One("mtx")>>, live, L4)
    BY <1>5, <1>7, ClearsBoth
  <1>9. Clears((((<<One("IDMap")>> \o <<One("tsk")>>) \o <<One("flg")>>) \o <<One("mtx")>>)
                 \o <<One("block")>>, live, L5)
    BY <1>5, <1>8, ClearsBoth
  <1>10. ItronThread_destroy =
            (((<<One("IDMap")>> \o <<One("tsk")>>) \o <<One("flg")>>) \o <<One("mtx")>>)
                 \o <<One("block")>>
    BY DEF ItronThread_destroy, All
  <1>11. L5 = {}
    BY <1>1, <1>2
  <1>12. QED
    BY <1>9, <1>10, <1>11

-----------------------------------------------------------------------------
(* The invariant of the creation of objects.                               *)

\* create() has the first of its resources, a whole object has all of them, and what is
\* left to release clears what there is, or is the crash of a timer without its thread.
CreationIInv ==
    /\ class \in Classes
    /\ One("crash") \notin live
    /\ phase \in {"none", "creating", "created", "releasing", "crashed"}
    /\ phase = "none" => live = {}
    /\ phase = "creating" => \E n \in 0 .. Len(Creates) - 1 : SoFar(Creates, n)
    /\ phase = "created" => SoFar(Creates, Len(Creates))
    /\ phase = "releasing" => toRelease = <<Crash>> \/ Clears(toRelease, live, {})

\* The pairs that the smaller objects are made of.
LEMMA PairsAre ==
    /\ ItronMutex_create = <<One("block"), One("mtx")>>
    /\ ItronEventFlag_create = <<One("block"), One("flg")>>
    /\ ItronPeriodicTimer_create = <<One("block"), One("cyc")>>
    /\ timer_create = <<One("timer"), One("m_thread")>>
  BY DEF ItronMutex_create, ItronEventFlag_create, ItronPeriodicTimer_create, timer_create, All

\* What create() and destroy() of each class do.
LEMMA ClassesAre ==
    ASSUME class \in Classes
    PROVE  \/ /\ class = "MessageQueue" /\ Creates = MessageQueue_create
              /\ Undoes = MessageQueue_undo /\ Destroys = MessageQueue_destroy
           \/ /\ class = "ThreadPool" /\ Creates = ThreadPool_create
              /\ Undoes = ThreadPool_undo /\ Destroys = ThreadPool_destroy
           \/ /\ class = "ItronThread" /\ Creates = ItronThread_create
              /\ Undoes = ItronThread_undo /\ Destroys = ItronThread_destroy
           \/ \E name \in {"mtx", "flg", "cyc"} :
                /\ Creates = <<One("block"), One(name)>>
                /\ Undoes = NonNull(One("block")) /\ Destroys = Reverse(Creates)
           \/ /\ Creates = <<One("timer"), One("m_thread")>>
              /\ Undoes = timer_undo /\ Destroys = Reverse(Creates)
  <1>1. CASE class = "MessageQueue"
    BY <1>1 DEF Creates, Undoes, Destroys
  <1>2. CASE class = "ThreadPool"
    BY <1>2 DEF Creates, Undoes, Destroys
  <1>3. CASE class = "ItronThread"
    BY <1>3 DEF Creates, Undoes, Destroys
  <1>4. CASE class = "ItronMutex"
    BY <1>4, PairsAre DEF Creates, Undoes, Destroys, block_undo
  <1>5. CASE class = "ItronEventFlag"
    BY <1>5, PairsAre DEF Creates, Undoes, Destroys, block_undo
  <1>6. CASE class = "ItronPeriodicTimer"
    BY <1>6, PairsAre DEF Creates, Undoes, Destroys, block_undo
  <1>7. CASE class = "StdCppOneShotTimer"
    BY <1>7, PairsAre DEF Creates, Undoes, Destroys
  <1>8. CASE class = "StdCppPeriodicTimer"
    BY <1>8, PairsAre DEF Creates, Undoes, Destroys
  <1>9. QED
    BY <1>1, <1>2, <1>3, <1>4, <1>5, <1>6, <1>7, <1>8 DEF Classes

\* No create() acquires a thing twice.
LEMMA CreatesOneByOne ==
    ASSUME class \in Classes
    PROVE  OneByOne(Creates)
  <1>1. CASE \E name \in {"mtx", "flg", "cyc"} : Creates = <<One("block"), One(name)>>
    <2>1. PICK name \in {"mtx", "flg", "cyc"} : Creates = <<One("block"), One(name)>>
      BY <1>1
    <2>2. /\ One("block") # One(name) /\ One("block") # One("crash") /\ One(name) # One("crash")
      BY DEF One
    <2>3. QED
      BY <2>1, <2>2, PairIsOneByOne
  <1>2. CASE Creates = <<One("timer"), One("m_thread")>>
    <2>1. /\ One("timer") # One("m_thread") /\ One("timer") # One("crash")
          /\ One("m_thread") # One("crash")
      BY DEF One
    <2>2. QED
      BY <1>2, <2>1, PairIsOneByOne
  <1>3. QED
    BY <1>1, <1>2, ClassesAre, QueueIsOneByOne, PoolIsOneByOne, TaskIsMade

\* acquire() takes the next resource.
LEMMA MissingIs ==
    ASSUME NEW t, t = Creates, OneByOne(t), NEW n, SoFar(t, n), n # Len(t)
    PROVE  n + 1 \in 1 .. Len(t) /\ Missing = t[n + 1]
  <1>1. PICK m : m = Len(t)
    OBVIOUS
  <1>2. m \in Nat /\ DOMAIN t = 1 .. m /\ n \in 0 .. m /\ n # m
    BY <1>1 DEF OneByOne, SoFar
  <1>3. n + 1 \in 1 .. m
    BY <1>2
  <1>4. \A i \in 1 .. m : t[i] \in live <=> i \in 1 .. n
    <2>1. \A i \in 1 .. n : i \in 1 .. m
      BY <1>2
    <2>2. \A i, j \in 1 .. m : t[i] = t[j] => i = j
      BY <1>2 DEF OneByOne
    <2>3. live = { t[i] : i \in 1 .. n }
      BY DEF SoFar
    <2>4. QED
      BY <2>1, <2>2, <2>3
  <1>5. t[n + 1] \notin live /\ \A j \in 1 .. n + 1 - 1 : t[j] \in live
    BY <1>2, <1>3, <1>4
  <1>6. ASSUME NEW i \in 1 .. m, t[i] \notin live, \A j \in 1 .. i - 1 : t[j] \in live
        PROVE  i = n + 1
    <2>1. ~(i <= n)
      BY <1>2, <1>4, <1>6
    <2>2. ~(n + 1 < i)
      <3>1. ASSUME n + 1 < i PROVE FALSE
        <4>1. n + 1 \in 1 .. i - 1
          BY <1>2, <3>1
        <4>2. QED
          BY <1>5, <1>6, <4>1
      <3>2. QED
        BY <3>1
    <2>3. QED
      BY <1>2, <2>1, <2>2
  <1>7. PICK c : c = CHOOSE i \in DOMAIN t : t[i] \notin live /\ \A j \in 1 .. i - 1 : t[j] \in live
    OBVIOUS
  <1>8. c = n + 1
    <2>1. c \in 1 .. m /\ t[c] \notin live /\ \A j \in 1 .. c - 1 : t[j] \in live
      BY <1>2, <1>3, <1>5, <1>7
    <2>2. QED
      BY <1>6, <2>1
  <1>9. QED
    BY <1>1, <1>3, <1>7, <1>8 DEF Missing

\* Whatever class it is, and wherever its create() fails.
LEMMA CreateUndone ==
    ASSUME class \in Classes, NEW n, SoFar(Creates, n), n # Len(Creates), Missing # One("IDMap")
    PROVE  Undoes = <<Crash>> \/ Clears(Undoes, live, {})
  <1>1. CASE Creates = MessageQueue_create /\ Undoes = MessageQueue_undo
    BY <1>1, QueueFails
  <1>2. CASE Creates = ThreadPool_create /\ Undoes = ThreadPool_undo
    <2>1. PICK t : t = ThreadPool_create
      OBVIOUS
    <2>2. PoolSoFar(t, n)
      BY <1>2, <2>1, PoolIsMade DEF SoFar, PoolSoFar, PoolMaking
    <2>3. QED
      BY <1>2, <2>1, <2>2, PoolFails
  <1>3. CASE Creates = ItronThread_create /\ Undoes = ItronThread_undo
    <2>1. /\ OneByOne(Creates) /\ n + 1 \in 1 .. Len(Creates)
          /\ Missing = Creates[n + 1] /\ n \in 0 .. Len(Creates)
      BY <1>3, CreatesOneByOne, MissingIs DEF SoFar
    <2>2. Len(Creates) = 5 /\ Creates[5] = One("IDMap")
      BY <1>3, TaskIsMade
    <2>3. n \in 0 .. 3
      <3>1. n # 4
        BY <2>1, <2>2
      <3>2. QED
        BY <2>1, <2>2, <3>1
    <2>4. QED
      BY <1>3, <2>3, TaskFails
  <1>4. CASE \E name \in {"mtx", "flg", "cyc"} :
                Creates = <<One("block"), One(name)>> /\ Undoes = NonNull(One("block"))
    <2>1. PICK name \in {"mtx", "flg", "cyc"} :
                Creates = <<One("block"), One(name)>> /\ Undoes = NonNull(One("block"))
      BY <1>4
    <2>2. n # 2 /\ SoFar(<<One("block"), One(name)>>, n)
      BY <2>1
    <2>3. ~Within(One("block"), One("block"))
      BY DEF Within, One
    <2>4. QED
      BY <2>1, <2>2, <2>3, PairFails
  <1>5. CASE Creates = <<One("timer"), One("m_thread")>> /\ Undoes = timer_undo
    <2>1. n # 2 /\ SoFar(<<One("timer"), One("m_thread")>>, n)
      BY <1>5
    <2>2. live = {} \/ live = {One("timer")}
      BY <2>1, PairHas
    <2>3. CASE live = {}
      <3>1. Undoes = <<>>
        BY <1>5, <2>3 DEF timer_undo, Exists
      <3>2. QED
        BY <2>3, <3>1, ClearsNothing
    <2>4. CASE live = {One("timer")}
      BY <1>5, <2>4 DEF timer_undo, Exists
    <2>5. QED
      BY <2>2, <2>3, <2>4
  <1>6. QED
    BY <1>1, <1>2, <1>3, <1>4, <1>5, ClassesAre

\* Whatever class it is.
LEMMA ObjectDestroyed ==
    ASSUME class \in Classes, SoFar(Creates, Len(Creates))
    PROVE  Clears(Destroys, live, {})
  <1>1. CASE Creates = MessageQueue_create /\ Destroys = MessageQueue_destroy
    BY <1>1, QueueDestroyed
  <1>2. CASE Creates = ThreadPool_create /\ Destroys = ThreadPool_destroy
    <2>1. live = ToSet(Creates)
      BY CreatesOneByOne DEF SoFar, OneByOne, ToSet
    <2>2. QED
      BY <1>2, <2>1, PoolDestroyed
  <1>3. CASE Creates = ItronThread_create /\ Destroys = ItronThread_destroy
    <2>1. Len(Creates) = 5
      BY <1>3, TaskIsMade
    <2>2. QED
      BY <1>3, <2>1, TaskDestroyed
  <1>4. CASE \E name \in {"mtx", "flg", "cyc"} :
                Creates = <<One("block"), One(name)>> /\ Destroys = Reverse(Creates)
    <2>1. PICK name \in {"mtx", "flg", "cyc"} :
                Creates = <<One("block"), One(name)>> /\ Destroys = Reverse(Creates)
      BY <1>4
    <2>2. SoFar(<<One("block"), One(name)>>, 2)
      BY <2>1
    <2>3. live = {One("block"), One(name)}
      BY <2>2, PairHas
    <2>4. /\ One("block") # One(name) /\ ~Within(One("block"), One("block"))
          /\ ~Within(One(name), One(name)) /\ ~Within(One("block"), One(name))
      BY DEF Within, One
    <2>5. QED
      BY <2>1, <2>3, <2>4, PairDestroyed
  <1>5. CASE Creates = <<One("timer"), One("m_thread")>> /\ Destroys = Reverse(Creates)
    <2>1. SoFar(<<One("timer"), One("m_thread")>>, 2)
      BY <1>5
    <2>2. live = {One("timer"), One("m_thread")}
      BY <2>1, PairHas
    <2>3. /\ One("timer") # One("m_thread") /\ ~Within(One("timer"), One("timer"))
          /\ ~Within(One("m_thread"), One("m_thread")) /\ ~Within(One("timer"), One("m_thread"))
      BY DEF Within, One
    <2>4. QED
      BY <1>5, <2>2, <2>3, PairDestroyed
  <1>6. QED
    BY <1>1, <1>2, <1>3, <1>4, <1>5, ClassesAre

\* What is left to release when the first has been released.
LEMMA ClearsTail ==
    ASSUME NEW s, NEW L, Clears(s, L, {}), s # <<>>
    PROVE  /\ Head(s) \in L /\ \A x \in L : ~Within(x, Head(s))
           /\ Clears(Tail(s), L \ {Head(s)}, {})
  <1>1. s \in Seq(L) /\ ToSet(s) = L
    BY DEF Clears
  <1>2. PICK n, h, t, M : n = Len(s) /\ h = Head(s) /\ t = Tail(s) /\ M = L \ {h}
    OBVIOUS
  <1>3. n \in Nat \ {0} /\ DOMAIN s = 1 .. n /\ h = s[1]
    BY <1>1, <1>2, LenProperties, EmptySeq
  <1>4. t \in Seq(L) /\ Len(t) = n - 1 /\ \A i \in 1 .. n - 1 : t[i] = s[i + 1]
    BY <1>1, <1>2, HeadTailProperties
  <1>5. n - 1 \in Nat /\ DOMAIN t = 1 .. n - 1
    BY <1>3, <1>4, LenProperties
  <1>6. \A i, j \in 1 .. n : s[i] = s[j] => i = j
    BY <1>3 DEF Clears
  <1>7. \A i \in 1 .. n - 1 : i + 1 \in 1 .. n /\ i + 1 # 1
    BY <1>3
  <1>8. h \in L /\ \A x \in L : ~Within(x, h)
    <2>1. 1 \in 1 .. n
      BY <1>3
    <2>2. h \in L
      BY <1>1, <1>3, <2>1 DEF ToSet
    <2>3. \A x \in L : Within(x, s[1]) => \E j \in 1 .. 1 - 1 : s[j] = x
      BY <1>3, <2>1 DEF Clears
    <2>4. QED
      BY <1>3, <2>2, <2>3
  <1>9. ToSet(t) = M
    <2>1. ASSUME NEW i \in 1 .. n - 1 PROVE t[i] \in M
      <3>1. s[i + 1] \in L
        BY <1>1, <1>3, <1>7 DEF ToSet
      <3>2. s[i + 1] # h
        BY <1>3, <1>6, <1>7
      <3>3. QED
        BY <1>2, <1>4, <3>1, <3>2
    <2>2. ASSUME NEW x \in M PROVE \E i \in 1 .. n - 1 : t[i] = x
      <3>1. PICK k \in 1 .. n : s[k] = x
        BY <1>1, <1>2, <1>3 DEF ToSet
      <3>2. k # 1
        BY <1>2, <1>3, <3>1
      <3>3. k - 1 \in 1 .. n - 1 /\ k - 1 + 1 = k
        BY <1>3, <3>2
      <3>4. QED
        BY <1>4, <3>1, <3>3
    <2>3. QED
      BY <1>5, <2>1, <2>2 DEF ToSet
  <1>10. t \in Seq(M)
    <2>1. \A i \in 1 .. n - 1 : t[i] \in M
      BY <1>5, <1>9 DEF ToSet
    <2>2. t = [i \in 1 .. n - 1 |-> t[i]]
      BY <1>4, <1>5, SeqDef
    <2>3. t \in [1 .. n - 1 -> M]
      BY <2>1, <2>2
    <2>4. QED
      BY <1>5, <2>3, SeqDef
  <1>11. \A i, j \in DOMAIN t : t[i] = t[j] => i = j
    <2>1. ASSUME NEW i \in 1 .. n - 1, NEW j \in 1 .. n - 1, t[i] = t[j] PROVE i = j
      <3>1. s[i + 1] = s[j + 1]
        BY <1>4, <2>1
      <3>2. i + 1 = j + 1
        BY <1>6, <1>7, <3>1
      <3>3. QED
        BY <3>2
    <2>2. QED
      BY <1>5, <2>1
  <1>12. ASSUME NEW i \in DOMAIN t, NEW x \in M, Within(x, t[i])
         PROVE  \E j \in 1 .. i - 1 : t[j] = x
    <2>1. i \in 1 .. n - 1 /\ i + 1 \in 1 .. n
      BY <1>5, <1>7
    <2>2. Within(x, s[i + 1]) /\ x \in L
      BY <1>2, <1>4, <1>12, <2>1
    <2>3. PICK k \in 1 .. i + 1 - 1 : s[k] = x
      BY <1>3, <2>1, <2>2 DEF Clears
    <2>4. k # 1
      BY <1>2, <1>3, <2>3
    <2>5. k - 1 \in 1 .. i - 1 /\ k - 1 \in 1 .. n - 1 /\ k - 1 + 1 = k
      BY <1>3, <2>1, <2>4
    <2>6. QED
      BY <1>4, <2>3, <2>5
  <1>13. Clears(t, M, {})
    BY <1>9, <1>10, <1>11, <1>12 DEF Clears
  <1>14. QED
    BY <1>2, <1>8, <1>13

\* The inductive invariant holds at first ...
LEMMA CreationIInvInit == CreationInit => CreationIInv
  BY DEF CreationInit, CreationIInv, One

\* ... and every step keeps it.
LEMMA CreationIInvNext ==
    ASSUME CreationIInv, [CreationNext]_creationVars
    PROVE  CreationIInv'
  <1>1. class' = class
    BY DEF CreationNext, create_call, acquire, fail, destroy_call, release, creationVars
  <1>2. class \in Classes /\ OneByOne(Creates) /\ Creates' = Creates
    BY <1>1, CreatesOneByOne DEF CreationIInv, Creates
  <1>3. PICK t, m : t = Creates /\ m = Len(t)
    OBVIOUS
  <1>4. m \in Nat \ {0} /\ DOMAIN t = 1 .. m /\ One("crash") \notin ToSet(t)
    BY <1>2, <1>3 DEF OneByOne
  <1>5. CASE UNCHANGED creationVars
    BY <1>2, <1>5 DEF CreationIInv, creationVars, SoFar, Clears, Within, Classes
  <1>6. CASE create_call
    <2>1. live = {} /\ live' = {} /\ phase' = "creating"
      BY <1>6 DEF create_call, CreationIInv
    <2>2. 0 \in 0 .. m - 1 /\ SoFar(t, 0)'
      BY <1>3, <1>4, <2>1 DEF SoFar
    <2>3. QED
      BY <1>1, <1>2, <1>3, <2>1, <2>2 DEF CreationIInv
  <1>7. CASE acquire
    <2>1. PICK n \in 0 .. m - 1 : SoFar(t, n)
      BY <1>3, <1>7 DEF acquire, CreationIInv
    <2>2. n # m /\ n + 1 \in 1 .. m /\ Missing = t[n + 1]
      BY <1>2, <1>3, <1>4, <2>1, MissingIs
    <2>3. live' = { t[i] : i \in 1 .. n + 1 }
      <3>1. live' = live \cup {t[n + 1]} /\ live = { t[i] : i \in 1 .. n }
        BY <1>7, <2>1, <2>2 DEF acquire, SoFar
      <3>2. 1 .. n + 1 = 1 .. n \cup {n + 1}
        BY <2>1
      <3>3. QED
        BY <3>1, <3>2
    <2>4. ToSet(t) = { t[i] : i \in 1 .. m }
      BY <1>4 DEF ToSet
    <2>5. One("crash") \notin live'
      <3>1. \A i \in 1 .. n + 1 : i \in 1 .. m
        BY <1>4, <2>1
      <3>2. QED
        BY <1>4, <2>3, <2>4, <3>1
    <2>6. CASE live' = ToSet(t)
      <3>1. phase' = "created"
        BY <1>3, <1>7, <2>6 DEF acquire
      <3>2. m \in 0 .. m
        BY <1>4
      <3>3. SoFar(t, m)'
        BY <1>3, <2>4, <2>6, <3>2 DEF SoFar
      <3>4. QED
        BY <1>1, <1>2, <1>3, <2>5, <3>1, <3>3 DEF CreationIInv
    <2>7. CASE live' # ToSet(t)
      <3>1. phase' = "creating"
        BY <1>3, <1>7, <2>7 DEF acquire
      <3>2. n + 1 # m
        BY <2>3, <2>4, <2>7
      <3>3. n + 1 \in 0 .. m - 1 /\ n + 1 \in 0 .. m
        BY <1>4, <2>1, <3>2
      <3>4. SoFar(t, n + 1)'
        BY <1>3, <2>3, <3>3 DEF SoFar
      <3>5. QED
        BY <1>1, <1>2, <1>3, <2>5, <3>1, <3>3, <3>4 DEF CreationIInv
    <2>8. QED
      BY <2>6, <2>7
  <1>8. CASE fail
    <2>1. PICK n \in 0 .. m - 1 : SoFar(t, n)
      BY <1>3, <1>8 DEF fail, CreationIInv
    <2>2. n # m
      BY <1>4, <2>1
    <2>3. Undoes = <<Crash>> \/ Clears(Undoes, live, {})
      BY <1>2, <1>3, <1>8, <2>1, <2>2, CreateUndone DEF fail
    <2>4. toRelease' = Undoes /\ phase' = "releasing" /\ live' = live
      BY <1>8 DEF fail
    <2>5. toRelease' = <<Crash>> \/ Clears(toRelease', live', {})
      BY <2>3, <2>4
    <2>6. QED
      BY <1>1, <1>2, <2>4, <2>5 DEF CreationIInv, Clears, Within, Crash
  <1>9. CASE destroy_call
    <2>1. Clears(Destroys, live, {})
      BY <1>2, <1>9, ObjectDestroyed DEF destroy_call, CreationIInv
    <2>2. toRelease' = Destroys /\ phase' = "releasing" /\ live' = live
      BY <1>9 DEF destroy_call
    <2>3. Clears(toRelease', live', {})
      BY <2>1, <2>2
    <2>4. QED
      BY <1>1, <1>2, <2>2, <2>3 DEF CreationIInv, Clears, Within
  <1>10. CASE release
    <2>1. phase = "releasing" /\ (toRelease = <<Crash>> \/ Clears(toRelease, live, {}))
      BY <1>10 DEF release, CreationIInv
    <2>2. CASE toRelease = <<>>
      <3>1. live = {}
        BY <2>1, <2>2 DEF Clears, ToSet
      <3>2. live' = {} /\ phase' = "none"
        BY <1>10, <2>2, <3>1 DEF release
      <3>3. QED
        BY <1>1, <1>2, <3>2 DEF CreationIInv
    <2>3. CASE toRelease # <<>> /\ Head(toRelease) = Crash
      <3>1. phase' = "crashed" /\ live' = live
        BY <1>10, <2>3 DEF release
      <3>2. QED
        BY <1>1, <1>2, <3>1 DEF CreationIInv
    <2>4. CASE toRelease # <<>> /\ Head(toRelease) # Crash
      <3>1. Clears(toRelease, live, {})
        BY <2>1, <2>4
      <3>2. Clears(Tail(toRelease), live \ {Head(toRelease)}, {})
        BY <2>4, <3>1, ClearsTail
      <3>3. /\ live' = live \ {Head(toRelease)} /\ toRelease' = Tail(toRelease)
            /\ phase' = "releasing"
        BY <1>10, <2>1, <2>4 DEF release
      <3>4. Clears(toRelease', live', {})
        BY <3>2, <3>3
      <3>5. One("crash") \notin live'
        BY <3>3 DEF CreationIInv
      <3>6. QED
        BY <1>1, <1>2, <3>3, <3>4, <3>5 DEF CreationIInv, Clears, Within
    <2>5. QED
      BY <2>2, <2>3, <2>4
  <1>11. QED
    BY <1>5, <1>6, <1>7, <1>8, <1>9, <1>10 DEF CreationNext

\* The invariant that the next theorem rests on.
THEOREM CreationInvariance == CreationSpec => []CreationIInv
  <1>1. CreationInit => CreationIInv
    BY CreationIInvInit
  <1>2. CreationIInv /\ [CreationNext]_creationVars => CreationIInv'
    BY CreationIInvNext
  <1>3. QED
    BY <1>1, <1>2, PTL DEF CreationSpec

\* For every number of runners of a thread pool, whatever object it is and wherever its
\* create() fails: it releases only what exists and nothing before what is within it,
\* and leaves nothing behind (ReleasesInOrder, NothingLeaks).
THEOREM ObjectsAreReleased == CreationSpec => []CreationSound
  <1>1. CreationIInv => CreationSound
    <2>1. ASSUME CreationIInv, phase = "releasing", toRelease # <<>>, Head(toRelease) # Crash
          PROVE  Head(toRelease) \in live /\ \A x \in live : ~Within(x, Head(toRelease))
      <3>1. Clears(toRelease, live, {})
        BY <2>1 DEF CreationIInv
      <3>2. QED
        BY <2>1, <3>1, ClearsTail
    <2>2. QED
      BY <2>1 DEF CreationSound, ReleasesInOrder, NothingLeaks, CreationIInv
  <1>2. QED
    BY <1>1, CreationInvariance, PTL
=============================================================================
