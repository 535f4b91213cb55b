--------------------------- MODULE ContainerProofs ---------------------------
(***************************************************************************)
(* The deques and vectors of every capacity, and the intrusive lists of    *)
(* any number of elements.                                                 *)
(***************************************************************************)
EXTENDS Containers, IntrusiveList, SequenceTheorems, TLAPS

-----------------------------------------------------------------------------
(* The indices of slots, which wrap.                                       *)

LEMMA DistanceNext ==
    ASSUME NEW b \in Slots, NEW k \in Slots
    PROVE  /\ distance_idx(b, k) \in Slots /\ next_idx(b, distance_idx(b, k)) = k
           /\ next_idx(b, k) \in Slots /\ distance_idx(b, next_idx(b, k)) = k
           /\ prev_idx(b, k) \in Slots /\ next_idx(prev_idx(b, k), k) = b
  BY ContainersAssumption DEF Slots, BufSize, distance_idx, next_idx, prev_idx

LEMMA DistanceInjective ==
    ASSUME NEW b \in Slots, NEW i \in Slots, NEW j \in Slots,
           distance_idx(b, i) = distance_idx(b, j)
    PROVE  i = j
  BY ContainersAssumption DEF Slots, BufSize, distance_idx

LEMMA GrownAtEnd ==
    ASSUME NEW b \in Slots, NEW e \in Slots, distance_idx(b, e) < MaxSize
    PROVE  next_idx(e, 1) \in Slots /\ distance_idx(b, next_idx(e, 1)) = distance_idx(b, e) + 1
  BY ContainersAssumption DEF Slots, BufSize, distance_idx, next_idx

LEMMA GrownAtBegin ==
    ASSUME NEW b \in Slots, NEW e \in Slots, distance_idx(b, e) < MaxSize, NEW c,
           c = prev_idx(b, 1)
    PROVE  /\ c \in Slots /\ distance_idx(c, e) = distance_idx(b, e) + 1
           /\ distance_idx(c, c) = 0 /\ distance_idx(b, c) = MaxSize
           /\ \A i \in Slots : i # c => distance_idx(c, i) = distance_idx(b, i) + 1
           /\ \A n \in 1 .. MaxSize : prev_idx(c, n - 1) = prev_idx(b, n)
  BY ContainersAssumption DEF Slots, BufSize, distance_idx, prev_idx

LEMMA CutAtEnd ==
    ASSUME NEW b \in Slots, NEW e \in Slots, NEW n \in 0 .. distance_idx(b, e)
    PROVE  /\ prev_idx(e, n) \in Slots
           /\ distance_idx(b, prev_idx(e, n)) = distance_idx(b, e) - n
  BY ContainersAssumption DEF Slots, BufSize, distance_idx, prev_idx

LEMMA CutAtBegin ==
    ASSUME NEW b \in Slots, NEW e \in Slots, NEW n \in 0 .. distance_idx(b, e), NEW c,
           c = next_idx(b, n)
    PROVE  /\ c \in Slots /\ distance_idx(c, e) = distance_idx(b, e) - n
           /\ \A i \in Slots :
                distance_idx(c, i) = IF distance_idx(b, i) < n
                                     THEN distance_idx(b, i) + BufSize - n
                                     ELSE distance_idx(b, i) - n
  BY ContainersAssumption DEF Slots, BufSize, distance_idx, next_idx

\* The arithmetic of iterators, of those that do not leave the container.
LEMMA PlusInside ==
    ASSUME NEW b \in Slots, NEW k \in Slots, NEW n \in Int, k + n \in Slots
    PROVE  plus(next_idx(b, k), n) = next_idx(b, k + n)
  BY ContainersAssumption DEF Slots, BufSize, plus, next_idx, prev_idx

\* ... and of those that get ahead of its first element: of the slots that it is to have.
LEMMA PlusBefore ==
    ASSUME NEW b \in Slots, NEW k \in Slots, NEW m \in Slots, k + m \in Slots
    PROVE  next_idx(b, k) = next_idx(prev_idx(b, m), k + m)
  BY ContainersAssumption DEF Slots, BufSize, next_idx, prev_idx

LEMMA MinusInside ==
    ASSUME m_begin \in Slots, NEW j \in Slots, NEW k \in Slots, k <= j
    PROVE  minus(next_idx(m_begin, j), next_idx(m_begin, k)) = j - k
  BY ContainersAssumption DEF Slots, BufSize, minus, next_idx, distance_idx

LEMMA BeginPlus ==
    ASSUME NEW p \in Nat
    PROVE  begin_plus(p) = next_idx(m_begin, p)
  BY DEF begin_plus, plus

-----------------------------------------------------------------------------
(* A step of a call.                                                       *)

LEMMA FirstStep ==
    ASSUME NEW plan \in Seq(Steps), plan # <<>>
    PROVE  /\ Len(plan) \in Nat /\ Len(plan) >= 1 /\ Head(plan) = plan[1]
           /\ Tail(plan) \in Seq(Steps) /\ Len(Tail(plan)) = Len(plan) - 1
           /\ \A i \in 1 .. Len(plan) - 1 : Tail(plan)[i] = plan[i + 1]
  BY HeadTailProperties, EmptySeq, LenProperties

LEMMA ReadsValue ==
    ASSUME ContainerTypeOK, LiveSlots, life # "failed", NEW src, Readable(src, m_begin, size)
    PROVE  Read(src) \in Values /\ Read(src) # Raw
  <1>1. CASE src[1] = "value" /\ src[2] \in Values
    BY <1>1, ContainersAssumption DEF Read
  <1>2. CASE src[1] = "slot" /\ There(src[2], m_begin, size)
    <2>1. slots[src[2]] # Raw
      BY <1>2 DEF LiveSlots, There
    <2>2. QED
      BY <1>2, <2>1 DEF ContainerTypeOK, Read, There
  <1>3. QED
    BY <1>1, <1>2 DEF Readable

LEMMA SizeType ==
    ASSUME ContainerTypeOK
    PROVE  /\ size \in Slots /\ size \in Nat /\ size <= MaxSize /\ MaxSize \in Nat
           /\ m_end = next_idx(m_begin, size) /\ m_begin \in Slots /\ m_end \in Slots
  <1>1. m_begin \in Slots /\ m_end \in Slots
    BY DEF ContainerTypeOK
  <1>2. size \in Slots /\ m_end = next_idx(m_begin, size)
    BY <1>1, DistanceNext DEF size
  <1>3. QED
    BY <1>1, <1>2, ContainersAssumption DEF Slots

\* A plan that has begun, at its first step.
LEMMA FirstGrows ==
    ASSUME NEW plan \in Seq(Steps), plan # <<>>, NEW b \in Slots, NEW k \in Nat,
           NEW n \in 0 .. Len(plan), NEW side \in {"construct_end", "construct_begin"},
           Grows(plan, n, side, b, k)
    PROVE  \/ n >= 1 /\ Head(plan).do = side /\ Readable(Head(plan).src, b, k) /\ k < MaxSize
           \/ /\ n = 0 /\ Head(plan).do = "assign" /\ Readable(Head(plan).src, b, k)
              /\ There(Head(plan).at, b, k)
  <1>1. Len(plan) \in Nat /\ Len(plan) >= 1 /\ Head(plan) = plan[1] /\ MaxSize \in Nat
    BY FirstStep, ContainersAssumption
  <1>2. CASE n >= 1
    BY <1>1, <1>2 DEF Grows
  <1>3. CASE n = 0
    <2>1. 1 \in n + 1 .. Len(plan) /\ k + 0 = k
      BY <1>1, <1>3
    <2>2. prev_idx(b, 0) = b
      BY <1>1 DEF prev_idx, Slots
    <2>3. QED
      BY <1>1, <1>3, <2>1, <2>2 DEF Grows, ThereAfter
  <1>4. QED
    BY <1>1, <1>2, <1>3

LEMMA FirstCuts ==
    ASSUME NEW plan \in Seq(Steps), plan # <<>>, NEW b \in Slots, NEW k \in Nat,
           AssignsThenCuts(plan, b, k)
    PROVE  \/ /\ Len(plan) > 1 /\ Head(plan).do = "assign"
              /\ Readable(Head(plan).src, b, k) /\ There(Head(plan).at, b, k)
           \/ /\ Len(plan) = 1 /\ Head(plan).do \in {"cut_end", "cut_begin"}
              /\ Head(plan).n \in 0 .. k
  <1>1. Len(plan) \in Nat /\ Len(plan) >= 1 /\ Head(plan) = plan[1]
    BY FirstStep
  <1>2. CASE Len(plan) = 1
    BY <1>1, <1>2 DEF AssignsThenCuts
  <1>3. CASE Len(plan) > 1
    BY <1>1, <1>3 DEF AssignsThenCuts
  <1>4. Len(plan) = 1 \/ Len(plan) > 1
    <2>1. \A x \in Nat : x >= 1 => x = 1 \/ x > 1
      OBVIOUS
    <2>2. QED
      BY <1>1, <2>1, Zenon
  <1>5. QED
    BY <1>2, <1>3, <1>4

\* What the first step of a safe plan is.
LEMMA FirstSafe ==
    ASSUME NEW plan \in Seq(Steps), plan # <<>>, NEW b \in Slots, NEW k \in Nat,
           PlanSafe(plan, b, k)
    PROVE  LET s == Head(plan)
           IN  \/ plan = <<Refused>> /\ s.do = "BadAlloc"
               \/ /\ s.do \in {"construct_end", "construct_begin"}
                  /\ Readable(s.src, b, k) /\ k < MaxSize
                  /\ \E n \in 1 .. Len(plan) : Grows(plan, n, s.do, b, k)
               \/ /\ s.do = "assign" /\ Readable(s.src, b, k) /\ There(s.at, b, k)
                  /\ \/ \E side \in {"construct_end", "construct_begin"} :
                            Grows(plan, 0, side, b, k)
                     \/ AssignsThenCuts(plan, b, k) /\ Len(plan) > 1
               \/ /\ s.do \in {"cut_end", "cut_begin"} /\ s.n \in 0 .. k
                  /\ \/ Len(plan) = 1
                     \/ s.do = "cut_end" /\ CutsThenGrows(plan, k)
  <1> DEFINE s == Head(plan)
  <1>1. Len(plan) \in Nat /\ Len(plan) >= 1 /\ s = plan[1]
    BY FirstStep
  <1>2. CASE plan = <<Refused>>
    BY <1>2 DEF Refused
  <1>3. CASE GrowsThenAssigns(plan, b, k)
    <2>1. PICK n \in 0 .. Len(plan), side \in {"construct_end", "construct_begin"} :
            Grows(plan, n, side, b, k)
      BY <1>3 DEF GrowsThenAssigns
    <2>2. CASE n >= 1 /\ s.do = side /\ Readable(s.src, b, k) /\ k < MaxSize
      <3>1. n \in 1 .. Len(plan) /\ Grows(plan, n, s.do, b, k)
        BY <1>1, <2>1, <2>2
      <3>2. QED
        BY <2>2, <3>1
    <2>3. CASE n = 0 /\ s.do = "assign" /\ Readable(s.src, b, k) /\ There(s.at, b, k)
      BY <2>1, <2>3
    <2>4. QED
      BY <2>1, <2>2, <2>3, FirstGrows
  <1>4. CASE AssignsThenCuts(plan, b, k)
    <2>1. CASE /\ Len(plan) > 1 /\ s.do = "assign"
               /\ Readable(s.src, b, k) /\ There(s.at, b, k)
      BY <1>4, <2>1
    <2>2. CASE Len(plan) = 1 /\ s.do \in {"cut_end", "cut_begin"} /\ s.n \in 0 .. k
      BY <2>2
    <2>3. QED
      BY <1>4, <2>1, <2>2, FirstCuts
  <1>5. CASE CutsThenGrows(plan, k)
    <2>1. s.do = "cut_end" /\ s.n = k /\ k \in 0 .. k
      BY <1>1, <1>5 DEF CutsThenGrows
    <2>2. QED
      BY <1>5, <2>1
  <1>6. QED
    BY <1>2, <1>3, <1>4, <1>5 DEF PlanSafe

\* The invariant says what the steps of a call want to be true.
LEMMA SafeElements == ContainerIInv => SlotsSafe
  <1> SUFFICES ASSUME ContainerIInv, todo # <<>> PROVE ElementSafe
    BY DEF ContainerIInv, SlotsSafe, ElementSafe
  <1> DEFINE s == Head(todo)
  <1>1. /\ ContainerTypeOK /\ LiveSlots /\ life # "failed"
        /\ todo \in Seq(Steps) /\ PlanSafe(todo, m_begin, size)
    BY DEF ContainerIInv, ContainerTypeOK
  <1>2. size \in Nat /\ m_begin \in Slots
    BY <1>1, SizeType
  <1>3. kind = "vector" => m_begin = 0
    BY <1>1 DEF ContainerTypeOK
  <1>4. \/ s.do = "BadAlloc"
        \/ /\ s.do \in {"construct_end", "construct_begin"}
           /\ Readable(s.src, m_begin, size) /\ size < MaxSize
        \/ /\ s.do = "assign" /\ Readable(s.src, m_begin, size) /\ There(s.at, m_begin, size)
        \/ s.do \in {"cut_end", "cut_begin"} /\ s.n \in 0 .. size
    BY <1>1, <1>2, FirstSafe
  <1>5. \A src : Readable(src, m_begin, size) => Read(src) # Raw
    BY <1>1, ReadsValue
  <1>6. \A i : There(i, m_begin, size) => slots[i] # Raw
    BY <1>1 DEF LiveSlots, There
  <1> HIDE DEF s
  <1>7. QED
    BY <1>2, <1>3, <1>4, <1>5, <1>6 DEF ElementSafe, s

\* The rest of a plan, when its first step has made the container one larger.
LEMMA RestGrows ==
    ASSUME NEW plan \in Seq(Steps), plan # <<>>, NEW b \in Slots, NEW c \in Slots, NEW k \in Nat,
           NEW n \in 1 .. Len(plan), NEW side \in {"construct_end", "construct_begin"},
           Grows(plan, n, side, b, k),
           \A i : There(i, b, k) => There(i, c, k + 1),
           \A i : ThereAfter(i, n, side, b, k) => ThereAfter(i, n - 1, side, c, k + 1)
    PROVE  GrowsThenAssigns(Tail(plan), c, k + 1)
  <1> DEFINE t == Tail(plan)
  <1>1. /\ Len(plan) \in Nat /\ t \in Seq(Steps) /\ Len(t) = Len(plan) - 1
        /\ \A i \in 1 .. Len(plan) - 1 : t[i] = plan[i + 1]
    BY FirstStep
  <1> HIDE DEF t
  <1>2. \A src : Readable(src, b, k) => Readable(src, c, k + 1)
    BY DEF Readable
  <1>3. MaxSize \in Nat /\ k + n <= MaxSize
    BY ContainersAssumption DEF Grows
  <1>4. n - 1 \in 0 .. Len(t) /\ k + 1 + (n - 1) <= MaxSize
    BY <1>1, <1>3
  <1>5. ASSUME NEW i \in 1 .. n - 1 PROVE t[i].do = side /\ Readable(t[i].src, c, k + 1)
    <2>1. i + 1 \in 1 .. n /\ t[i] = plan[i + 1]
      BY <1>1
    <2>2. QED
      BY <1>2, <2>1 DEF Grows
  <1>6. ASSUME NEW i \in (n - 1) + 1 .. Len(t)
        PROVE  /\ t[i].do = "assign" /\ Readable(t[i].src, c, k + 1)
               /\ ThereAfter(t[i].at, n - 1, side, c, k + 1)
    <2>1. i + 1 \in n + 1 .. Len(plan) /\ t[i] = plan[i + 1]
      BY <1>1
    <2>2. QED
      BY <1>2, <2>1 DEF Grows
  <1>7. Grows(t, n - 1, side, c, k + 1)
    BY <1>4, <1>5, <1>6 DEF Grows
  <1>8. QED
    BY <1>4, <1>7 DEF GrowsThenAssigns, t

LEMMA ConstructEndKeeps ==
    ASSUME ContainerIInv, Step, Head(todo).do = "construct_end" PROVE ContainerIInv'
  <1> DEFINE v == Read(Head(todo).src)
  <1>1. /\ ContainerTypeOK /\ LiveSlots /\ life # "failed"
        /\ todo \in Seq(Steps) /\ PlanSafe(todo, m_begin, size)
    BY DEF ContainerIInv, ContainerTypeOK, Step
  <1>2. /\ todo # <<>> /\ todo' = Tail(todo)
        /\ slots' = [slots EXCEPT ![m_end] = v] /\ m_end' = next_idx(m_end, 1)
        /\ m_begin' = m_begin /\ kind' = kind /\ life' = life /\ call' = call
    BY DEF Step
  <1>3. /\ size \in Nat /\ m_begin \in Slots /\ m_end \in Slots
        /\ size <= MaxSize /\ MaxSize \in Nat
    BY <1>1, SizeType
  <1>4. /\ Readable(Head(todo).src, m_begin, size) /\ size < MaxSize
        /\ \E n \in 1 .. Len(todo) : Grows(todo, n, "construct_end", m_begin, size)
    BY <1>1, <1>2, <1>3, FirstSafe
  <1>5. v \in Values /\ v # Raw
    BY <1>1, <1>4, ReadsValue
  <1> HIDE DEF v
  <1>6. m_end' \in Slots /\ size' = size + 1
    BY <1>2, <1>3, <1>4, GrownAtEnd DEF size
  <1>7. slots \in [Slots -> Values \cup {Raw}]
    BY <1>1 DEF ContainerTypeOK
  <1>8. ContainerTypeOK'
    <2>1. slots' \in [Slots -> Values \cup {Raw}]
      BY <1>2, <1>5, <1>7
    <2>2. /\ todo' \in Seq(Steps) /\ Len(todo') = Len(todo) - 1 /\ Len(todo) \in Nat
          /\ \A i \in 1 .. Len(todo) - 1 : todo'[i] = todo[i + 1]
      BY <1>1, <1>2, FirstStep
    <2>3. AtEndOnly(todo) => AtEndOnly(todo')
      BY <2>2 DEF AtEndOnly
    <2>4. QED
      BY <1>1, <1>2, <1>6, <2>1, <2>2, <2>3 DEF ContainerTypeOK
  <1>9. ASSUME NEW i \in Slots PROVE slots'[i] # Raw <=> distance_idx(m_begin, i) < size + 1
    <2>1. distance_idx(m_begin, i) \in Slots
      BY <1>3, DistanceNext
    <2>2. distance_idx(m_begin, i) \in Nat
      BY <1>3, <2>1 DEF Slots
    <2>3. CASE i = m_end
      BY <1>2, <1>3, <1>5, <1>7, <2>3 DEF size
    <2>4. CASE i # m_end
      <3>1. distance_idx(m_begin, i) # size
        BY <1>3, <2>4, DistanceInjective DEF size
      <3>2. slots'[i] = slots[i]
        BY <1>2, <1>7, <2>4
      <3>3. slots[i] # Raw <=> distance_idx(m_begin, i) < size
        BY <1>1 DEF LiveSlots
      <3>4. QED
        BY <1>3, <2>2, <3>1, <3>2, <3>3
    <2>5. QED
      BY <2>3, <2>4
  <1>10. LiveSlots'
    BY <1>2, <1>6, <1>9 DEF LiveSlots
  <1>11. GrowsThenAssigns(todo', m_begin, size + 1)
    <2>1. PICK n \in 1 .. Len(todo) : Grows(todo, n, "construct_end", m_begin, size)
      BY <1>4
    <2>2. n \in Nat
      BY <1>1, LenProperties
    <2>3. ASSUME NEW i, There(i, m_begin, size) PROVE There(i, m_begin, size + 1)
      <3>1. i \in Slots /\ distance_idx(m_begin, i) \in Slots
        BY <1>3, <2>3, DistanceNext DEF There
      <3>2. distance_idx(m_begin, i) \in Nat
        BY <1>3, <3>1 DEF Slots
      <3>3. QED
        BY <1>3, <2>3, <3>1, <3>2 DEF There
    <2>4. size + n = size + 1 + (n - 1)
      BY <1>3, <2>2
    <2>5. \A i : ThereAfter(i, n, "construct_end", m_begin, size)
                    => ThereAfter(i, n - 1, "construct_end", m_begin, size + 1)
      BY <2>4 DEF ThereAfter
    <2>6. QED
      BY <1>1, <1>2, <1>3, <2>1, <2>3, <2>5, RestGrows
  <1>12. QED
    BY <1>2, <1>6, <1>8, <1>10, <1>11 DEF ContainerIInv, PlanSafe

\* The rest of a plan is a sequence of steps, and a vector's is still at its end.
LEMMA RestTypes ==
    ASSUME ContainerTypeOK, todo # <<>>, todo' = Tail(todo)
    PROVE  /\ todo' \in Seq(Steps) /\ Len(todo') = Len(todo) - 1 /\ Len(todo) \in Nat
           /\ \A i \in 1 .. Len(todo) - 1 : todo'[i] = todo[i + 1]
           /\ AtEndOnly(todo) =>
                AtEndOnly(todo') /\ Head(todo).do \notin {"construct_begin", "cut_begin"}
  <1>1. todo \in Seq(Steps)
    BY DEF ContainerTypeOK
  <1>2. /\ todo' \in Seq(Steps) /\ Len(todo') = Len(todo) - 1 /\ Len(todo) \in Nat
        /\ Len(todo) >= 1 /\ Head(todo) = todo[1]
        /\ \A i \in 1 .. Len(todo) - 1 : todo'[i] = todo[i + 1]
    BY <1>1, FirstStep
  <1>3. QED
    BY <1>2 DEF AtEndOnly

LEMMA ConstructBeginKeeps ==
    ASSUME ContainerIInv, Step, Head(todo).do = "construct_begin" PROVE ContainerIInv'
  <1> DEFINE v == Read(Head(todo).src)  c == prev_idx(m_begin, 1)
  <1>1. /\ ContainerTypeOK /\ LiveSlots /\ life # "failed"
        /\ todo \in Seq(Steps) /\ PlanSafe(todo, m_begin, size)
    BY DEF ContainerIInv, ContainerTypeOK, Step
  <1>2. /\ todo # <<>> /\ todo' = Tail(todo)
        /\ slots' = [slots EXCEPT ![c] = v] /\ m_begin' = c
        /\ m_end' = m_end /\ kind' = kind /\ life' = life /\ call' = call
    BY DEF Step
  <1>3. /\ size \in Nat /\ m_begin \in Slots /\ m_end \in Slots
        /\ size <= MaxSize /\ MaxSize \in Nat
    BY <1>1, SizeType
  <1>4. /\ Readable(Head(todo).src, m_begin, size) /\ size < MaxSize
        /\ \E n \in 1 .. Len(todo) : Grows(todo, n, "construct_begin", m_begin, size)
    BY <1>1, <1>2, <1>3, FirstSafe
  <1>5. v \in Values /\ v # Raw
    BY <1>1, <1>4, ReadsValue
  <1>6. /\ c \in Slots /\ distance_idx(c, m_end) = size + 1
        /\ distance_idx(c, c) = 0 /\ distance_idx(m_begin, c) = MaxSize
        /\ \A i \in Slots : i # c => distance_idx(c, i) = distance_idx(m_begin, i) + 1
        /\ \A n \in 1 .. MaxSize : prev_idx(c, n - 1) = prev_idx(m_begin, n)
    BY <1>3, <1>4, GrownAtBegin DEF size
  <1> HIDE DEF v, c
  <1>7. slots \in [Slots -> Values \cup {Raw}]
    BY <1>1 DEF ContainerTypeOK
  <1>8. size' = size + 1
    BY <1>2, <1>6 DEF size
  <1>9. \A i \in Slots : distance_idx(m_begin, i) \in Nat
    <2>1. \A i \in Slots : distance_idx(m_begin, i) \in Slots
      BY <1>3, DistanceNext
    <2>2. QED
      BY <1>3, <2>1 DEF Slots
  <1>10. ContainerTypeOK'
    <2>1. slots' \in [Slots -> Values \cup {Raw}]
      BY <1>2, <1>5, <1>7
    <2>2. todo' \in Seq(Steps) /\ kind # "vector"
      BY <1>1, <1>2, RestTypes DEF ContainerTypeOK
    <2>3. QED
      BY <1>1, <1>2, <1>6, <2>1, <2>2 DEF ContainerTypeOK
  <1>11. ASSUME NEW i \in Slots PROVE slots'[i] # Raw <=> distance_idx(c, i) < size + 1
    <2>1. CASE i = c
      BY <1>2, <1>3, <1>5, <1>6, <1>7, <2>1
    <2>2. CASE i # c
      <3>1. slots'[i] = slots[i] /\ distance_idx(c, i) = distance_idx(m_begin, i) + 1
        BY <1>2, <1>6, <1>7, <2>2
      <3>2. slots[i] # Raw <=> distance_idx(m_begin, i) < size
        BY <1>1 DEF LiveSlots
      <3>3. QED
        BY <1>3, <1>9, <3>1, <3>2
    <2>3. QED
      BY <2>1, <2>2
  <1>12. LiveSlots'
    BY <1>2, <1>8, <1>11 DEF LiveSlots
  <1>13. GrowsThenAssigns(todo', c, size + 1)
    <2>1. PICK n \in 1 .. Len(todo) : Grows(todo, n, "construct_begin", m_begin, size)
      BY <1>4
    <2>2. n \in 1 .. MaxSize
      <3>1. size + n <= MaxSize /\ n \in Nat /\ n >= 1
        BY <1>1, <2>1, LenProperties DEF Grows
      <3>2. QED
        BY <1>3, <3>1
    <2>3. ASSUME NEW i, There(i, m_begin, size) PROVE There(i, c, size + 1)
      <3>1. i \in Slots /\ distance_idx(m_begin, i) < size
        BY <2>3 DEF There
      <3>2. i # c
        BY <1>3, <1>4, <1>6, <3>1
      <3>3. distance_idx(c, i) = distance_idx(m_begin, i) + 1 /\ distance_idx(m_begin, i) \in Nat
        BY <1>6, <1>9, <3>1, <3>2
      <3>4. QED
        BY <1>3, <3>1, <3>3 DEF There
    <2>4. size + n = size + 1 + (n - 1) /\ prev_idx(c, n - 1) = prev_idx(m_begin, n)
      BY <1>3, <1>6, <2>2
    <2>5. \A i : ThereAfter(i, n, "construct_begin", m_begin, size)
                    => ThereAfter(i, n - 1, "construct_begin", c, size + 1)
      BY <2>4 DEF ThereAfter
    <2>6. QED
      BY <1>1, <1>2, <1>3, <1>6, <2>1, <2>3, <2>5, RestGrows
  <1>14. QED
    BY <1>2, <1>8, <1>10, <1>12, <1>13 DEF ContainerIInv, PlanSafe

LEMMA AssignKeeps ==
    ASSUME ContainerIInv, Step, Head(todo).do = "assign" PROVE ContainerIInv'
  <1> DEFINE v == Read(Head(todo).src)  at == Head(todo).at
  <1>1. /\ ContainerTypeOK /\ LiveSlots /\ life # "failed"
        /\ todo \in Seq(Steps) /\ PlanSafe(todo, m_begin, size)
    BY DEF ContainerIInv, ContainerTypeOK, Step
  <1>2. /\ todo # <<>> /\ todo' = Tail(todo)
        /\ slots' = [slots EXCEPT ![at] = v] /\ m_begin' = m_begin
        /\ m_end' = m_end /\ kind' = kind /\ life' = life /\ call' = call
    BY DEF Step
  <1>3. size \in Nat /\ m_begin \in Slots /\ MaxSize \in Nat /\ size <= MaxSize
    BY <1>1, SizeType
  <1>4. /\ Readable(Head(todo).src, m_begin, size) /\ There(at, m_begin, size)
        /\ \/ \E side \in {"construct_end", "construct_begin"} :
                Grows(todo, 0, side, m_begin, size)
           \/ AssignsThenCuts(todo, m_begin, size) /\ Len(todo) > 1
    BY <1>1, <1>2, <1>3, FirstSafe
  <1>5. v \in Values /\ v # Raw
    BY <1>1, <1>4, ReadsValue
  <1> HIDE DEF v, at
  <1>6. slots \in [Slots -> Values \cup {Raw}]
    BY <1>1 DEF ContainerTypeOK
  <1>7. size' = size
    BY <1>2 DEF size
  <1>8. /\ todo' \in Seq(Steps) /\ Len(todo') = Len(todo) - 1 /\ Len(todo) \in Nat
        /\ \A i \in 1 .. Len(todo) - 1 : todo'[i] = todo[i + 1]
        /\ AtEndOnly(todo) => AtEndOnly(todo')
    BY <1>1, <1>2, RestTypes
  <1>9. ContainerTypeOK'
    <2>1. slots' \in [Slots -> Values \cup {Raw}]
      BY <1>2, <1>5, <1>6
    <2>2. QED
      BY <1>1, <1>2, <1>8, <2>1 DEF ContainerTypeOK
  <1>10. LiveSlots'
    <2>1. \A i \in Slots : slots'[i] # Raw <=> slots[i] # Raw
      BY <1>1, <1>2, <1>4, <1>5, <1>6 DEF LiveSlots, There
    <2>2. QED
      BY <1>1, <1>2, <1>7, <2>1 DEF LiveSlots
  <1>11. PlanSafe(todo', m_begin, size)
    <2>1. ASSUME NEW side \in {"construct_end", "construct_begin"},
                 Grows(todo, 0, side, m_begin, size)
          PROVE  Grows(todo', 0, side, m_begin, size)
      <3>1. ASSUME NEW i \in 0 + 1 .. Len(todo')
            PROVE  /\ todo'[i].do = "assign" /\ Readable(todo'[i].src, m_begin, size)
                   /\ ThereAfter(todo'[i].at, 0, side, m_begin, size)
        <4>1. i + 1 \in 0 + 1 .. Len(todo) /\ todo'[i] = todo[i + 1]
          BY <1>8
        <4>2. QED
          BY <2>1, <4>1 DEF Grows
      <3>2. QED
        BY <2>1, <3>1 DEF Grows
    <2>2. CASE AssignsThenCuts(todo, m_begin, size) /\ Len(todo) > 1
      <3>1. todo'[Len(todo')] = todo[Len(todo)] /\ Len(todo') >= 1
        BY <1>8, <2>2
      <3>2. ASSUME NEW i \in 1 .. Len(todo') - 1
            PROVE  /\ todo'[i].do = "assign" /\ Readable(todo'[i].src, m_begin, size)
                   /\ There(todo'[i].at, m_begin, size)
        <4>1. i + 1 \in 1 .. Len(todo) - 1 /\ todo'[i] = todo[i + 1]
          BY <1>8
        <4>2. QED
          BY <2>2, <4>1 DEF AssignsThenCuts
      <3>3. todo' # <<>>
        BY <1>8, <3>1, EmptySeq
      <3>4. AssignsThenCuts(todo', m_begin, size)
        BY <2>2, <3>1, <3>2, <3>3 DEF AssignsThenCuts
      <3>5. QED
        BY <3>4 DEF PlanSafe
    <2>3. 0 \in 0 .. Len(todo')
      BY <1>8, LenProperties
    <2>4. QED
      BY <1>4, <2>1, <2>2, <2>3 DEF PlanSafe, GrowsThenAssigns
  <1>12. QED
    BY <1>2, <1>7, <1>9, <1>10, <1>11 DEF ContainerIInv

\* Nothing is left to be done but, perhaps, to construct values at the end.
LEMMA RestSafe ==
    ASSUME NEW plan \in Seq(Steps), plan # <<>>, NEW b, NEW k \in Nat, NEW j \in Nat,
           j <= MaxSize,
           Len(plan) = 1 \/ (CutsThenGrows(plan, k) /\ j = 0)
    PROVE  PlanSafe(Tail(plan), b, j)
  <1> DEFINE t == Tail(plan)
  <1>1. /\ t \in Seq(Steps) /\ Len(t) = Len(plan) - 1 /\ Len(plan) \in Nat /\ Len(plan) >= 1
        /\ \A i \in 1 .. Len(plan) - 1 : t[i] = plan[i + 1] /\ MaxSize \in Nat
    BY FirstStep, ContainersAssumption
  <1> HIDE DEF t
  <1>2. MaxSize \in Nat
    BY ContainersAssumption
  <1>3. Len(t) \in 0 .. Len(t) /\ Len(t) \in Nat /\ j + Len(t) <= MaxSize
    <2>1. CASE Len(plan) = 1
      BY <1>1, <1>2, <2>1
    <2>2. CASE CutsThenGrows(plan, k) /\ j = 0
      BY <1>1, <1>2, <2>2 DEF CutsThenGrows
    <2>3. QED
      BY <2>1, <2>2
  <1>4. ASSUME NEW i \in 1 .. Len(t) PROVE t[i].do = "construct_end" /\ Readable(t[i].src, b, j)
    <2>1. i + 1 \in 2 .. Len(plan) /\ t[i] = plan[i + 1] /\ Len(plan) # 1
      BY <1>1
    <2>2. QED
      BY <2>1 DEF CutsThenGrows, Readable
  <1>5. Len(t) + 1 .. Len(t) = {}
    BY <1>3
  <1>6. Grows(t, Len(t), "construct_end", b, j)
    BY <1>3, <1>4, <1>5 DEF Grows
  <1>7. QED
    BY <1>3, <1>6 DEF PlanSafe, GrowsThenAssigns, t

LEMMA CutEndKeeps ==
    ASSUME ContainerIInv, Step, Head(todo).do = "cut_end" PROVE ContainerIInv'
  <1> DEFINE n == Head(todo).n
  <1>1. /\ ContainerTypeOK /\ LiveSlots /\ life # "failed"
        /\ todo \in Seq(Steps) /\ PlanSafe(todo, m_begin, size)
    BY DEF ContainerIInv, ContainerTypeOK, Step
  <1>2. /\ todo # <<>> /\ todo' = Tail(todo)
        /\ slots' = [i \in Slots |-> IF distance_idx(m_begin, i) \in size - n .. size - 1
                                     THEN Raw ELSE slots[i]]
        /\ m_end' = prev_idx(m_end, n)
        /\ m_begin' = m_begin /\ kind' = kind /\ life' = life /\ call' = call
    BY DEF Step
  <1>3. /\ size \in Nat /\ m_begin \in Slots /\ m_end \in Slots
        /\ size <= MaxSize /\ MaxSize \in Nat
    BY <1>1, SizeType
  <1>4. n \in 0 .. size /\ (Len(todo) = 1 \/ CutsThenGrows(todo, size))
    BY <1>1, <1>2, <1>3, FirstSafe
  <1>5. CutsThenGrows(todo, size) => n = size
    BY <1>1, <1>2, FirstStep DEF CutsThenGrows
  <1> HIDE DEF n
  <1>6. m_end' \in Slots /\ size' = size - n /\ size - n \in Nat /\ size - n <= MaxSize
    <2>1. n \in 0 .. distance_idx(m_begin, m_end)
      BY <1>4 DEF size
    <2>2. QED
      BY <1>2, <1>3, <1>4, <2>1, CutAtEnd DEF size
  <1>7. slots \in [Slots -> Values \cup {Raw}]
    BY <1>1 DEF ContainerTypeOK
  <1>8. ContainerTypeOK'
    <2>1. slots' \in [Slots -> Values \cup {Raw}]
      BY <1>2, <1>7
    <2>2. todo' \in Seq(Steps) /\ (AtEndOnly(todo) => AtEndOnly(todo'))
      BY <1>1, <1>2, RestTypes
    <2>3. call # Idle
      BY <1>1, <1>2 DEF ContainerTypeOK
    <2>4. QED
      BY <1>1, <1>2, <1>6, <2>1, <2>2, <2>3 DEF ContainerTypeOK
  <1>9. LiveSlots'
    <2> SUFFICES ASSUME NEW i \in Slots
                 PROVE  slots'[i] # Raw <=> distance_idx(m_begin, i) < size - n
      BY <1>2, <1>6 DEF LiveSlots
    <2>1. distance_idx(m_begin, i) \in Slots
      BY <1>3, DistanceNext
    <2>2. distance_idx(m_begin, i) \in Nat
      BY <1>3, <2>1 DEF Slots
    <2>3. slots[i] # Raw <=> distance_idx(m_begin, i) < size
      BY <1>1 DEF LiveSlots
    <2>4. QED
      BY <1>2, <1>3, <1>4, <2>2, <2>3
  <1>10. PlanSafe(todo', m_begin, size - n)
    <2>1. Len(todo) = 1 \/ (CutsThenGrows(todo, size) /\ size - n = 0)
      BY <1>3, <1>4, <1>5
    <2>2. QED
      BY <1>1, <1>2, <1>3, <1>6, <2>1, RestSafe
  <1>11. QED
    BY <1>2, <1>6, <1>8, <1>9, <1>10 DEF ContainerIInv

LEMMA CutBeginKeeps ==
    ASSUME ContainerIInv, Step, Head(todo).do = "cut_begin" PROVE ContainerIInv'
  <1> DEFINE n == Head(todo).n  c == next_idx(m_begin, n)
  <1>1. /\ ContainerTypeOK /\ LiveSlots /\ life # "failed"
        /\ todo \in Seq(Steps) /\ PlanSafe(todo, m_begin, size)
    BY DEF ContainerIInv, ContainerTypeOK, Step
  <1>2. /\ todo # <<>> /\ todo' = Tail(todo)
        /\ slots' = [i \in Slots |-> IF distance_idx(m_begin, i) < n THEN Raw ELSE slots[i]]
        /\ m_begin' = c
        /\ m_end' = m_end /\ kind' = kind /\ life' = life /\ call' = call
    BY DEF Step
  <1>3. /\ size \in Nat /\ m_begin \in Slots /\ m_end \in Slots
        /\ size <= MaxSize /\ MaxSize \in Nat
    BY <1>1, SizeType
  <1>4. n \in 0 .. size /\ Len(todo) = 1
    BY <1>1, <1>2, <1>3, FirstSafe
  <1>5. /\ c \in Slots /\ distance_idx(c, m_end) = size - n
        /\ \A i \in Slots :
             distance_idx(c, i) = IF distance_idx(m_begin, i) < n
                                  THEN distance_idx(m_begin, i) + BufSize - n
                                  ELSE distance_idx(m_begin, i) - n
    <2>1. n \in 0 .. distance_idx(m_begin, m_end)
      BY <1>4 DEF size
    <2> HIDE DEF n
    <2>2. QED
      BY <1>3, <2>1, CutAtBegin DEF size
  <1> HIDE DEF n, c
  <1>6. size' = size - n /\ size - n \in Nat /\ size - n <= MaxSize
    BY <1>2, <1>3, <1>4, <1>5 DEF size
  <1>7. slots \in [Slots -> Values \cup {Raw}]
    BY <1>1 DEF ContainerTypeOK
  <1>8. ContainerTypeOK'
    <2>1. slots' \in [Slots -> Values \cup {Raw}]
      BY <1>2, <1>7
    <2>2. todo' \in Seq(Steps) /\ kind # "vector"
      BY <1>1, <1>2, RestTypes DEF ContainerTypeOK
    <2>3. call # Idle
      BY <1>1, <1>2 DEF ContainerTypeOK
    <2>4. QED
      BY <1>1, <1>2, <1>5, <2>1, <2>2, <2>3 DEF ContainerTypeOK
  <1>9. LiveSlots'
    <2> SUFFICES ASSUME NEW i \in Slots
                 PROVE  slots'[i] # Raw <=> distance_idx(c, i) < size - n
      BY <1>2, <1>6 DEF LiveSlots
    <2>1. distance_idx(m_begin, i) \in Slots
      BY <1>3, DistanceNext
    <2>2. distance_idx(m_begin, i) \in Nat
      BY <1>3, <2>1 DEF Slots
    <2>3. slots[i] # Raw <=> distance_idx(m_begin, i) < size
      BY <1>1 DEF LiveSlots
    <2>4. distance_idx(c, i) = IF distance_idx(m_begin, i) < n
                               THEN distance_idx(m_begin, i) + BufSize - n
                               ELSE distance_idx(m_begin, i) - n
      BY <1>5
    <2>5. QED
      BY <1>2, <1>3, <1>4, <2>2, <2>3, <2>4 DEF BufSize
  <1>10. PlanSafe(todo', c, size - n)
    BY <1>1, <1>2, <1>3, <1>4, <1>6, RestSafe
  <1>11. QED
    BY <1>2, <1>6, <1>8, <1>9, <1>10 DEF ContainerIInv

-----------------------------------------------------------------------------
(* The plans of the calls.                                                 *)

Constructs(part, side, b, k) ==
    \A i \in 1 .. Len(part) : part[i].do = side /\ Readable(part[i].src, b, k)
Assigns(part, n, side, b, k) ==
    \A i \in 1 .. Len(part) : /\ part[i].do = "assign" /\ Readable(part[i].src, b, k)
                              /\ ThereAfter(part[i].at, n, side, b, k)

\* The steps, and lists of them.
LEMMA StepTypes ==
    /\ \A src \in ReadFrom : ConstructEnd(src) \in Steps /\ ConstructBegin(src) \in Steps
    /\ \A i \in Slots, src \in ReadFrom : Assign(i, src) \in Steps
    /\ \A n \in Slots : CutEnd(n) \in Steps /\ CutBegin(n) \in Steps
    /\ Refused \in Steps
  BY DEF Steps, ConstructEnd, ConstructBegin, Assign, CutEnd, CutBegin

LEMMA ListOf ==
    ASSUME NEW n \in Nat, NEW X, X = [i \in 1 .. n |-> X[i]], \A i \in 1 .. n : X[i] \in Steps
    PROVE  X \in Seq(Steps) /\ Len(X) = n
  OBVIOUS

LEMMA ValueSource ==
    ASSUME NEW v \in Values, NEW b, NEW k
    PROVE  Val(v) \in ReadFrom /\ Readable(Val(v), b, k)
  BY DEF Val, ReadFrom, Readable

LEMMA SlotSource ==
    ASSUME NEW b \in Slots, NEW k \in Nat, NEW j \in Slots, j < k
    PROVE  LET i == next_idx(b, j)
           IN  There(i, b, k) /\ i \in Slots /\ At(i) \in ReadFrom /\ Readable(At(i), b, k)
  <1> DEFINE i == next_idx(b, j)
  <1>1. i \in Slots /\ distance_idx(b, i) = j
    BY DistanceNext
  <1> HIDE DEF i
  <1>2. There(i, b, k)
    BY <1>1 DEF There
  <1>3. QED
    BY <1>1, <1>2 DEF At, ReadFrom, Readable, i

\* The parts of a plan, put together.
LEMMA MoreConstructs ==
    ASSUME NEW X \in Seq(Steps), NEW Y \in Seq(Steps), NEW side, NEW b, NEW k,
           Constructs(X, side, b, k), Constructs(Y, side, b, k)
    PROVE  Constructs(X \o Y, side, b, k)
  <1>1. /\ Len(X) \in Nat /\ Len(Y) \in Nat /\ Len(X \o Y) = Len(X) + Len(Y)
        /\ \A i \in 1 .. Len(X) + Len(Y) :
            (X \o Y)[i] = IF i <= Len(X) THEN X[i] ELSE Y[i - Len(X)]
    BY ConcatProperties, LenProperties
  <1>2. ASSUME NEW i \in 1 .. Len(X \o Y)
        PROVE  (X \o Y)[i].do = side /\ Readable((X \o Y)[i].src, b, k)
    <2>1. CASE i <= Len(X)
      BY <1>1, <2>1 DEF Constructs
    <2>2. CASE i > Len(X)
      <3>1. i - Len(X) \in 1 .. Len(Y) /\ (X \o Y)[i] = Y[i - Len(X)]
        BY <1>1, <2>2
      <3>2. QED
        BY <3>1 DEF Constructs
    <2>3. QED
      BY <1>1, <2>1, <2>2
  <1>3. QED
    BY <1>2 DEF Constructs

LEMMA MoreAssigns ==
    ASSUME NEW X \in Seq(Steps), NEW Y \in Seq(Steps), NEW n, NEW side, NEW b, NEW k,
           Assigns(X, n, side, b, k), Assigns(Y, n, side, b, k)
    PROVE  Assigns(X \o Y, n, side, b, k)
  <1>1. /\ Len(X) \in Nat /\ Len(Y) \in Nat /\ Len(X \o Y) = Len(X) + Len(Y)
        /\ \A i \in 1 .. Len(X) + Len(Y) :
            (X \o Y)[i] = IF i <= Len(X) THEN X[i] ELSE Y[i - Len(X)]
    BY ConcatProperties, LenProperties
  <1>2. ASSUME NEW i \in 1 .. Len(X \o Y)
        PROVE  /\ (X \o Y)[i].do = "assign" /\ Readable((X \o Y)[i].src, b, k)
               /\ ThereAfter((X \o Y)[i].at, n, side, b, k)
    <2>1. CASE i <= Len(X)
      BY <1>1, <2>1 DEF Assigns
    <2>2. CASE i > Len(X)
      <3>1. i - Len(X) \in 1 .. Len(Y) /\ (X \o Y)[i] = Y[i - Len(X)]
        BY <1>1, <2>2
      <3>2. QED
        BY <3>1 DEF Assigns
    <2>3. QED
      BY <1>1, <2>1, <2>2
  <1>3. QED
    BY <1>2 DEF Assigns

LEMMA ConstructsThenAssigns ==
    ASSUME NEW X \in Seq(Steps), NEW Y \in Seq(Steps), NEW b, NEW k \in Nat,
           NEW side \in {"construct_end", "construct_begin"}, k + Len(X) <= MaxSize,
           Constructs(X, side, b, k), Assigns(Y, Len(X), side, b, k)
    PROVE  /\ X \o Y \in Seq(Steps) /\ PlanSafe(X \o Y, b, k)
           /\ side = "construct_end" => AtEndOnly(X \o Y)
  <1>1. /\ Len(X) \in Nat /\ Len(Y) \in Nat /\ Len(X \o Y) = Len(X) + Len(Y)
        /\ X \o Y \in Seq(Steps)
        /\ \A i \in 1 .. Len(X) + Len(Y) :
            (X \o Y)[i] = IF i <= Len(X) THEN X[i] ELSE Y[i - Len(X)]
    BY ConcatProperties, LenProperties
  <1>2. ASSUME NEW i \in 1 .. Len(X)
        PROVE  (X \o Y)[i].do = side /\ Readable((X \o Y)[i].src, b, k)
    BY <1>1 DEF Constructs
  <1>3. ASSUME NEW i \in Len(X) + 1 .. Len(X \o Y)
        PROVE  /\ (X \o Y)[i].do = "assign" /\ Readable((X \o Y)[i].src, b, k)
               /\ ThereAfter((X \o Y)[i].at, Len(X), side, b, k)
    <2>1. i - Len(X) \in 1 .. Len(Y) /\ (X \o Y)[i] = Y[i - Len(X)]
      BY <1>1
    <2>2. QED
      BY <2>1 DEF Assigns
  <1>4. Grows(X \o Y, Len(X), side, b, k)
    BY <1>2, <1>3 DEF Grows
  <1>5. Len(X) \in 0 .. Len(X \o Y)
    BY <1>1
  <1>6. PlanSafe(X \o Y, b, k)
    BY <1>4, <1>5 DEF PlanSafe, GrowsThenAssigns
  <1>7. ASSUME side = "construct_end", NEW i \in 1 .. Len(X \o Y)
        PROVE  (X \o Y)[i].do \notin {"construct_begin", "cut_begin"}
    <2>1. i \in 1 .. Len(X) \/ i \in Len(X) + 1 .. Len(X \o Y)
      BY <1>1
    <2>2. QED
      BY <1>2, <1>3, <1>7, <2>1
  <1>8. QED
    BY <1>1, <1>6, <1>7 DEF AtEndOnly

LEMMA AssignsThenCut ==
    ASSUME NEW X \in Seq(Steps), NEW cut \in Steps, NEW b, NEW k \in Nat,
           \A i \in 1 .. Len(X) : /\ X[i].do = "assign" /\ Readable(X[i].src, b, k)
                                  /\ There(X[i].at, b, k),
           cut.do \in {"cut_end", "cut_begin"}, cut.n \in 0 .. k
    PROVE  /\ X \o <<cut>> \in Seq(Steps) /\ PlanSafe(X \o <<cut>>, b, k)
           /\ cut.do = "cut_end" => AtEndOnly(X \o <<cut>>)
  <1> DEFINE plan == X \o <<cut>>
  <1>1. <<cut>> \in Seq(Steps) /\ Len(<<cut>>) = 1 /\ <<cut>>[1] = cut
    OBVIOUS
  <1>2. /\ Len(X) \in Nat /\ Len(plan) = Len(X) + 1 /\ plan \in Seq(Steps)
        /\ \A i \in 1 .. Len(X) + 1 :
            plan[i] = IF i <= Len(X) THEN X[i] ELSE <<cut>>[i - Len(X)]
    BY <1>1, ConcatProperties, LenProperties
  <1>3. /\ \A i \in 1 .. Len(X) : plan[i] = X[i]
        /\ plan[Len(X) + 1] = cut
    <2>1. Len(X) + 1 \in 1 .. Len(X) + 1 /\ ~(Len(X) + 1 <= Len(X)) /\ Len(X) + 1 - Len(X) = 1
      BY <1>2
    <2>2. plan[Len(X) + 1] = cut
      BY <1>1, <1>2, <2>1
    <2>3. QED
      BY <1>2, <2>2
  <1> HIDE DEF plan
  <1>4. plan # <<>> /\ Len(plan) - 1 = Len(X)
    BY <1>2, EmptySeq
  <1>5. AssignsThenCuts(plan, b, k)
    BY <1>2, <1>3, <1>4 DEF AssignsThenCuts
  <1>6. ASSUME cut.do = "cut_end", NEW i \in 1 .. Len(plan)
        PROVE  plan[i].do \notin {"construct_begin", "cut_begin"}
    <2>1. i \in 1 .. Len(X) \/ i = Len(X) + 1
      BY <1>2
    <2>2. QED
      BY <1>3, <1>6, <2>1
  <1>7. QED
    BY <1>2, <1>5, <1>6 DEF PlanSafe, AtEndOnly, plan

\* Parts of a plan, step by step.
LEMMA ConstructList ==
    ASSUME NEW m \in Nat, NEW X, X = [i \in 1 .. m |-> X[i]], NEW b, NEW k,
           NEW side \in {"construct_end", "construct_begin"},
           \A i \in 1 .. m : \E src \in ReadFrom :
                X[i] = [do |-> side, src |-> src] /\ Readable(src, b, k)
    PROVE  X \in Seq(Steps) /\ Len(X) = m /\ Constructs(X, side, b, k)
  <1>1. ASSUME NEW i \in 1 .. m
        PROVE  X[i] \in Steps /\ X[i].do = side /\ Readable(X[i].src, b, k)
    <2>1. PICK src \in ReadFrom : X[i] = [do |-> side, src |-> src] /\ Readable(src, b, k)
      OBVIOUS
    <2>2. QED
      BY <2>1 DEF Steps
  <1>2. X \in Seq(Steps) /\ Len(X) = m
    BY <1>1, ListOf
  <1>3. QED
    BY <1>1, <1>2 DEF Constructs

LEMMA AssignList ==
    ASSUME NEW m \in Nat, NEW X, X = [i \in 1 .. m |-> X[i]],
           NEW b, NEW k, NEW n, NEW side,
           \A i \in 1 .. m : \E at, src :
                /\ X[i] = Assign(at, src) /\ src \in ReadFrom /\ Readable(src, b, k)
                /\ ThereAfter(at, n, side, b, k)
    PROVE  X \in Seq(Steps) /\ Len(X) = m /\ Assigns(X, n, side, b, k)
  <1>1. ASSUME NEW i \in 1 .. m
        PROVE  /\ X[i] \in Steps /\ X[i].do = "assign" /\ Readable(X[i].src, b, k)
               /\ ThereAfter(X[i].at, n, side, b, k)
    <2>1. PICK at, src : /\ X[i] = Assign(at, src) /\ src \in ReadFrom /\ Readable(src, b, k)
                         /\ ThereAfter(at, n, side, b, k)
      OBVIOUS
    <2>2. at \in Slots
      BY <2>1 DEF ThereAfter, There
    <2>3. QED
      BY <2>1, <2>2 DEF Steps, Assign
  <1>2. X \in Seq(Steps) /\ Len(X) = m
    BY <1>1, ListOf
  <1>3. QED
    BY <1>1, <1>2 DEF Assigns

\* A plan that works at the end, or at the beginning, of two parts that assign.
LEMMA ThreeParts ==
    ASSUME NEW X \in Seq(Steps), NEW Y \in Seq(Steps), NEW Z \in Seq(Steps),
           NEW b, NEW k \in Nat, NEW side \in {"construct_end", "construct_begin"},
           k + Len(X) <= MaxSize, Constructs(X, side, b, k),
           Assigns(Y, Len(X), side, b, k), Assigns(Z, Len(X), side, b, k)
    PROVE  /\ X \o Y \o Z \in Seq(Steps) /\ PlanSafe(X \o Y \o Z, b, k)
           /\ side = "construct_end" => AtEndOnly(X \o Y \o Z)
  <1>1. Y \o Z \in Seq(Steps) /\ Assigns(Y \o Z, Len(X), side, b, k)
    BY MoreAssigns, ConcatProperties
  <1>2. X \o Y \o Z = X \o (Y \o Z)
    BY ConcatAssociative
  <1> DEFINE V == Y \o Z
  <1>3. V \in Seq(Steps) /\ Assigns(V, Len(X), side, b, k)
    BY <1>1
  <1> HIDE DEF V
  <1>4. /\ X \o V \in Seq(Steps) /\ PlanSafe(X \o V, b, k)
        /\ side = "construct_end" => AtEndOnly(X \o V)
    BY <1>3, ConstructsThenAssigns
  <1>5. QED
    BY <1>2, <1>4 DEF V

\* Slots that are elements when a plan has made the container n larger at its end.
LEMMA InsideGrown ==
    ASSUME NEW b \in Slots, NEW k \in Nat, NEW n \in Nat, k + n <= MaxSize,
           NEW j \in Nat, j < k + n
    PROVE  /\ next_idx(b, j) \in Slots
           /\ ThereAfter(next_idx(b, j), n, "construct_end", b, k)
  <1>1. j \in Slots
    BY ContainersAssumption DEF Slots
  <1>2. next_idx(b, j) \in Slots /\ distance_idx(b, next_idx(b, j)) = j
    BY <1>1, DistanceNext
  <1>3. QED
    BY <1>2 DEF ThereAfter, There

\* ... and at its beginning.
LEMMA InsideGrownBack ==
    ASSUME NEW b \in Slots, NEW k \in Nat, NEW n \in Nat, k + n <= MaxSize,
           NEW j \in Nat, j < k + n
    PROVE  ThereAfter(next_idx(prev_idx(b, n), j), n, "construct_begin", b, k)
  <1>1. j \in Slots /\ n \in Slots
    BY ContainersAssumption DEF Slots
  <1>2. prev_idx(b, n) \in Slots
    BY <1>1, DistanceNext
  <1>3. /\ next_idx(prev_idx(b, n), j) \in Slots
        /\ distance_idx(prev_idx(b, n), next_idx(prev_idx(b, n), j)) = j
    BY <1>1, <1>2, DistanceNext
  <1>4. QED
    BY <1>3 DEF ThereAfter, There

\* The elements given to a call: values, or elements of the container.
Given(src) == src \in Seq(ReadFrom) /\ \A i \in 1 .. Len(src) : Readable(src[i], m_begin, size)

\* The iterators of insert(), as places of the container: at its end side, ...
LEMMA EndPlaces ==
    ASSUME ContainerTypeOK, NEW n \in Nat, size + n <= MaxSize, NEW p \in 0 .. size
    PROVE  /\ minus(m_end, next_idx(m_begin, p)) = size - p
           /\ \A i \in 1 .. size - p :
                /\ plus(m_end, -i) = next_idx(m_begin, size - i)
                /\ plus(next_idx(m_begin, size - i), n) = next_idx(m_begin, size - i + n)
           /\ \A i \in Nat : i >= 1 /\ p + i - 1 <= MaxSize =>
                plus(next_idx(m_begin, p), i - 1) = next_idx(m_begin, p + i - 1)
  <1>1. /\ size \in Slots /\ size \in Nat /\ size <= MaxSize /\ MaxSize \in Nat
        /\ m_end = next_idx(m_begin, size) /\ m_begin \in Slots /\ m_end \in Slots
    BY SizeType
  <1>2. p \in Slots /\ p \in Nat /\ p <= size
    BY <1>1 DEF Slots
  <1>3. minus(m_end, next_idx(m_begin, p)) = size - p
    BY <1>1, <1>2, MinusInside
  <1>4. \A j \in Nat : j <= MaxSize => j \in Slots
    BY <1>1 DEF Slots
  <1>5. ASSUME NEW i \in 1 .. size - p
        PROVE  /\ plus(m_end, -i) = next_idx(m_begin, size - i)
               /\ plus(next_idx(m_begin, size - i), n) = next_idx(m_begin, size - i + n)
    <2>1. /\ size - i \in Nat /\ size - i <= MaxSize /\ -i \in Int /\ n \in Int
          /\ size - i + n \in Nat /\ size - i + n <= MaxSize /\ size + (-i) = size - i
      BY <1>1, <1>2
    <2>2. size - i \in Slots /\ size - i + n \in Slots
      BY <1>4, <2>1
    <2>3. QED
      BY <1>1, <2>1, <2>2, PlusInside
  <1>6. ASSUME NEW i \in Nat, i >= 1, p + i - 1 <= MaxSize
        PROVE  plus(next_idx(m_begin, p), i - 1) = next_idx(m_begin, p + i - 1)
    <2>1. i - 1 \in Int /\ p + (i - 1) = p + i - 1 /\ p + i - 1 \in Nat
      BY <1>2, <1>6
    <2>2. p + i - 1 \in Slots
      BY <1>4, <1>6, <2>1
    <2>3. QED
      BY <1>1, <1>2, <2>1, <2>2, PlusInside
  <1>7. QED
    BY <1>3, <1>5, <1>6

\* ... of which k > n follow the position: they move n on, ...
MovedAtEnd(X, Y, Z, p, src, n, k) ==
    /\ InsertAtEndSide(next_idx(m_begin, p), src) = X \o Y \o Z
    /\ Len(X) = n /\ Constructs(X, "construct_end", m_begin, size)
    /\ Len(Y) = k /\ Assigns(Y, n, "construct_end", m_begin, size)
    /\ Len(Z) = n /\ Assigns(Z, n, "construct_end", m_begin, size)
    /\ \A i \in 1 .. n : X[i] = ConstructEnd(Val(Default))
    /\ \A i \in 1 .. k : Y[i] = Assign(next_idx(m_begin, size - i + n),
                                       At(next_idx(m_begin, size - i)))
    /\ \A i \in 1 .. n : Z[i] = Assign(next_idx(m_begin, p + i - 1), src[i])

LEMMA EndMoves ==
    ASSUME ContainerTypeOK, NEW src, Given(src), NEW n, n = Len(src), size + n <= MaxSize,
           NEW p \in 0 .. size, NEW k, k = size - p, k > n
    PROVE  \E X, Y, Z \in Seq(Steps) : MovedAtEnd(X, Y, Z, p, src, n, k)
  <1> DEFINE pos == next_idx(m_begin, p)
             X == Times(n, ConstructEnd(Val(Default)))
             Y == [i \in 1 .. k |-> Assign(plus(plus(m_end, -i), n), At(plus(m_end, -i)))]
             Z == [i \in 1 .. n |-> Assign(plus(pos, i - 1), src[i])]
  <1>1. /\ size \in Slots /\ size \in Nat /\ size <= MaxSize /\ MaxSize \in Nat
        /\ m_end = next_idx(m_begin, size) /\ m_begin \in Slots /\ m_end \in Slots
    BY SizeType
  <1>2. n \in Nat /\ \A i \in 1 .. n : src[i] \in ReadFrom /\ Readable(src[i], m_begin, size)
    BY DEF Given
  <1>3. p \in Slots /\ p \in Nat /\ p <= size /\ k \in Nat /\ minus(m_end, pos) = k
    BY <1>1, <1>2, EndPlaces DEF Slots
  <1>4. \A j \in Nat : j <= MaxSize => j \in Slots
    BY <1>1 DEF Slots
  <1>5. \A i \in 1 .. n : X[i] = ConstructEnd(Val(Default))
    BY DEF Times
  <1>6. X \in Seq(Steps) /\ Len(X) = n /\ Constructs(X, "construct_end", m_begin, size)
    <2>1. \A i \in 1 .. n :
            /\ X[i] = [do |-> "construct_end", src |-> Val(Default)]
            /\ Val(Default) \in ReadFrom /\ Readable(Val(Default), m_begin, size)
      BY <1>5, ContainersAssumption, ValueSource DEF ConstructEnd
    <2>2. X = [i \in 1 .. n |-> X[i]]
      BY DEF Times
    <2> HIDE DEF X
    <2>3. QED
      BY <1>2, <2>1, <2>2, ConstructList
  <1>7. \A i \in 1 .. k : Y[i] = Assign(next_idx(m_begin, size - i + n),
                                        At(next_idx(m_begin, size - i)))
    BY <1>2, EndPlaces
  <1>8. Y \in Seq(Steps) /\ Len(Y) = k /\ Assigns(Y, n, "construct_end", m_begin, size)
    <2>1. ASSUME NEW i \in 1 .. k
          PROVE  /\ Y[i] = Assign(next_idx(m_begin, size - i + n),
                                  At(next_idx(m_begin, size - i)))
                 /\ At(next_idx(m_begin, size - i)) \in ReadFrom
                 /\ Readable(At(next_idx(m_begin, size - i)), m_begin, size)
                 /\ ThereAfter(next_idx(m_begin, size - i + n), n, "construct_end",
                               m_begin, size)
      <3>1. /\ size - i \in Nat /\ size - i <= MaxSize /\ size - i < size
            /\ size - i + n \in Nat /\ size - i + n < size + n
        BY <1>1, <1>2, <1>3
      <3>2. size - i \in Slots
        BY <1>4, <3>1
      <3>3. QED
        BY <1>1, <1>2, <1>7, <3>1, <3>2, SlotSource, InsideGrown
    <2>2. Y = [i \in 1 .. k |-> Y[i]]
      OBVIOUS
    <2> HIDE DEF Y
    <2>3. QED
      BY <1>3, <2>1, <2>2, AssignList
  <1>9. \A i \in 1 .. n : p + i - 1 \in Nat /\ p + i - 1 < size + n /\ p + i - 1 <= MaxSize
    BY <1>1, <1>2, <1>3
  <1>10. \A i \in 1 .. n : Z[i] = Assign(next_idx(m_begin, p + i - 1), src[i])
    BY <1>2, <1>9, EndPlaces
  <1>11. Z \in Seq(Steps) /\ Len(Z) = n /\ Assigns(Z, n, "construct_end", m_begin, size)
    <2>1. ASSUME NEW i \in 1 .. n
          PROVE  /\ Z[i] = Assign(next_idx(m_begin, p + i - 1), src[i])
                 /\ src[i] \in ReadFrom /\ Readable(src[i], m_begin, size)
                 /\ ThereAfter(next_idx(m_begin, p + i - 1), n, "construct_end",
                               m_begin, size)
      BY <1>1, <1>2, <1>9, <1>10, InsideGrown
    <2>2. Z = [i \in 1 .. n |-> Z[i]]
      OBVIOUS
    <2> HIDE DEF Z
    <2>3. ASSUME NEW i \in 1 .. n
          PROVE  \E at, from :
                   /\ Z[i] = Assign(at, from) /\ from \in ReadFrom
                   /\ Readable(from, m_begin, size)
                   /\ ThereAfter(at, n, "construct_end", m_begin, size)
      BY <2>1
    <2>4. QED
      BY <1>2, <2>2, <2>3, AssignList
  <1>12. InsertAtEndSide(pos, src) = X \o Y \o Z
    BY <1>3 DEF InsertAtEndSide
  <1> HIDE DEF X, Y, Z
  <1>13. QED
    BY <1>5, <1>6, <1>7, <1>8, <1>10, <1>11, <1>12 DEF MovedAtEnd

\* ... or at most n, which are made at the end of the larger container.
CopiedAtEnd(X, Y, Z, p, src, n, k) ==
    /\ InsertAtEndSide(next_idx(m_begin, p), src) = X \o Y \o Z
    /\ Len(X) = n - k /\ Constructs(X, "construct_end", m_begin, size)
    /\ Len(Y) = k /\ Constructs(Y, "construct_end", m_begin, size)
    /\ Len(Z) = k /\ Assigns(Z, n, "construct_end", m_begin, size)
    /\ \A i \in 1 .. n - k : X[i] = ConstructEnd(src[k + i])
    /\ \A i \in 1 .. k : Y[i] = ConstructEnd(At(next_idx(m_begin, p + i - 1)))
    /\ \A i \in 1 .. k : Z[i] = Assign(next_idx(m_begin, p + i - 1), src[i])

LEMMA EndCopies ==
    ASSUME ContainerTypeOK, NEW src, Given(src), NEW n, n = Len(src), size + n <= MaxSize,
           NEW p \in 0 .. size, NEW k, k = size - p, ~(k > n)
    PROVE  \E X, Y, Z \in Seq(Steps) : CopiedAtEnd(X, Y, Z, p, src, n, k)
  <1> DEFINE pos == next_idx(m_begin, p)
             X == [i \in 1 .. n - k |-> ConstructEnd(src[k + i])]
             Y == [i \in 1 .. k |-> ConstructEnd(At(plus(pos, i - 1)))]
             Z == [i \in 1 .. k |-> Assign(plus(pos, i - 1), src[i])]
  <1>1. /\ size \in Slots /\ size \in Nat /\ size <= MaxSize /\ MaxSize \in Nat
        /\ m_begin \in Slots /\ m_end \in Slots
    BY SizeType
  <1>2. n \in Nat /\ \A i \in 1 .. n : src[i] \in ReadFrom /\ Readable(src[i], m_begin, size)
    BY DEF Given
  <1>3. /\ p \in Slots /\ p \in Nat /\ p <= size /\ k \in Nat /\ n - k \in Nat
        /\ minus(m_end, pos) = k
    BY <1>1, <1>2, EndPlaces DEF Slots
  <1>4. \A j \in Nat : j <= MaxSize => j \in Slots
    BY <1>1 DEF Slots
  <1>5. ASSUME NEW i \in 1 .. n - k
        PROVE  /\ X[i] = ConstructEnd(src[k + i])
               /\ src[k + i] \in ReadFrom /\ Readable(src[k + i], m_begin, size)
    <2>1. k + i \in 1 .. n
      BY <1>2, <1>3
    <2>2. QED
      BY <1>2, <2>1
  <1>6. X \in Seq(Steps) /\ Len(X) = n - k /\ Constructs(X, "construct_end", m_begin, size)
    <2>1. X = [i \in 1 .. n - k |-> X[i]]
      OBVIOUS
    <2> HIDE DEF X
    <2>2. QED
      BY <1>3, <1>5, <2>1, ConstructList DEF ConstructEnd
  <1>7. ASSUME NEW i \in 1 .. k
        PROVE  /\ p + i - 1 \in Nat /\ p + i - 1 < size /\ p + i - 1 < size + n
               /\ p + i - 1 <= MaxSize /\ p + i - 1 \in Slots /\ i \in 1 .. n
               /\ plus(pos, i - 1) = next_idx(m_begin, p + i - 1)
    <2>1. /\ p + i - 1 \in Nat /\ p + i - 1 < size /\ p + i - 1 < size + n
          /\ p + i - 1 <= MaxSize /\ i \in 1 .. n /\ i \in Nat /\ i >= 1
      BY <1>1, <1>2, <1>3
    <2>2. QED
      BY <1>2, <1>4, <2>1, EndPlaces
  <1>8. \A i \in 1 .. k : Y[i] = ConstructEnd(At(next_idx(m_begin, p + i - 1)))
    BY <1>7
  <1>9. Y \in Seq(Steps) /\ Len(Y) = k /\ Constructs(Y, "construct_end", m_begin, size)
    <2>1. ASSUME NEW i \in 1 .. k
          PROVE  \E from \in ReadFrom :
                    /\ Y[i] = [do |-> "construct_end", src |-> from]
                    /\ Readable(from, m_begin, size)
      BY <1>1, <1>7, <1>8, SlotSource DEF ConstructEnd
    <2>2. Y = [i \in 1 .. k |-> Y[i]]
      OBVIOUS
    <2> HIDE DEF Y
    <2>3. QED
      BY <1>3, <2>1, <2>2, ConstructList
  <1>10. \A i \in 1 .. k : Z[i] = Assign(next_idx(m_begin, p + i - 1), src[i])
    BY <1>7
  <1>11. Z \in Seq(Steps) /\ Len(Z) = k /\ Assigns(Z, n, "construct_end", m_begin, size)
    <2>1. ASSUME NEW i \in 1 .. k
          PROVE  /\ Z[i] = Assign(next_idx(m_begin, p + i - 1), src[i])
                 /\ src[i] \in ReadFrom /\ Readable(src[i], m_begin, size)
                 /\ ThereAfter(next_idx(m_begin, p + i - 1), n, "construct_end",
                               m_begin, size)
      BY <1>1, <1>2, <1>7, <1>10, InsideGrown
    <2>2. Z = [i \in 1 .. k |-> Z[i]]
      OBVIOUS
    <2> HIDE DEF Z
    <2>3. ASSUME NEW i \in 1 .. k
          PROVE  \E at, from :
                   /\ Z[i] = Assign(at, from) /\ from \in ReadFrom
                   /\ Readable(from, m_begin, size)
                   /\ ThereAfter(at, n, "construct_end", m_begin, size)
      BY <2>1
    <2>4. QED
      BY <1>3, <2>2, <2>3, AssignList
  <1>12. InsertAtEndSide(pos, src) = X \o Y \o Z
    BY <1>3 DEF InsertAtEndSide
  <1> HIDE DEF X, Y, Z
  <1>13. QED
    BY <1>5, <1>6, <1>8, <1>9, <1>10, <1>11, <1>12 DEF CopiedAtEnd

LEMMA InsertsAtEndSide ==
    ASSUME ContainerTypeOK, NEW src, Given(src), size + Len(src) <= MaxSize,
           NEW p \in 0 .. size
    PROVE  LET plan == InsertAtEndSide(next_idx(m_begin, p), src)
           IN  plan \in Seq(Steps) /\ PlanSafe(plan, m_begin, size) /\ AtEndOnly(plan)
  <1> DEFINE plan == InsertAtEndSide(next_idx(m_begin, p), src)
  <1>0. PICK n, k : n = Len(src) /\ k = size - p
    OBVIOUS
  <1>1. /\ size \in Nat /\ n \in Nat /\ k \in Nat /\ size + n <= MaxSize
    BY <1>0, SizeType, LenProperties DEF Given
  <1>2. CASE k > n
    <2>1. PICK X, Y, Z \in Seq(Steps) : MovedAtEnd(X, Y, Z, p, src, n, k)
      BY <1>0, <1>1, <1>2, EndMoves
    <2>2. /\ plan = X \o Y \o Z
          /\ Len(X) = n /\ Constructs(X, "construct_end", m_begin, size)
          /\ Assigns(Y, n, "construct_end", m_begin, size)
          /\ Assigns(Z, n, "construct_end", m_begin, size)
      BY <2>1 DEF MovedAtEnd
    <2> HIDE DEF plan
    <2>3. plan \in Seq(Steps) /\ PlanSafe(plan, m_begin, size) /\ AtEndOnly(plan)
      BY <1>1, <2>2, ThreeParts
    <2>4. QED
      BY <2>3 DEF plan
  <1>3. CASE ~(k > n)
    <2>1. PICK X, Y, Z \in Seq(Steps) : CopiedAtEnd(X, Y, Z, p, src, n, k)
      BY <1>0, <1>1, <1>3, EndCopies
    <2>2. /\ plan = X \o Y \o Z
          /\ Len(X) = n - k /\ Constructs(X, "construct_end", m_begin, size)
          /\ Len(Y) = k /\ Constructs(Y, "construct_end", m_begin, size)
          /\ Assigns(Z, n, "construct_end", m_begin, size)
      BY <2>1 DEF CopiedAtEnd
    <2> HIDE DEF plan
    <2>3. /\ X \o Y \in Seq(Steps) /\ Len(X \o Y) = n
          /\ Constructs(X \o Y, "construct_end", m_begin, size)
      <3>1. Len(X \o Y) = (n - k) + k
        BY <2>2, ConcatProperties
      <3>2. QED
        BY <1>1, <2>2, <3>1, MoreConstructs, ConcatProperties
    <2>4. PICK V \in Seq(Steps) : /\ plan = V \o Z /\ Len(V) = n
                                  /\ Constructs(V, "construct_end", m_begin, size)
      BY <2>2, <2>3
    <2>5. /\ V \o Z \in Seq(Steps) /\ PlanSafe(V \o Z, m_begin, size) /\ AtEndOnly(V \o Z)
      <3>1. Assigns(Z, Len(V), "construct_end", m_begin, size) /\ size + Len(V) <= MaxSize
        BY <1>1, <2>2, <2>4
      <3>2. QED
        BY <1>1, <2>4, <3>1, ConstructsThenAssigns
    <2>6. QED
      BY <2>4, <2>5 DEF plan
  <1>4. QED
    BY <1>2, <1>3

\* ... and at its beginning, where the container is to begin at c.
LEMMA BeginPlaces ==
    ASSUME ContainerTypeOK, NEW n \in Nat, size + n <= MaxSize, NEW p \in 0 .. size,
           NEW c, c = prev_idx(m_begin, n)
    PROVE  /\ minus(next_idx(m_begin, p), m_begin) = p
           /\ c \in Slots
           /\ \A j \in 0 .. size :
                /\ begin_plus(j) = next_idx(m_begin, j)
                /\ next_idx(m_begin, j) = next_idx(c, j + n)
                /\ plus(next_idx(m_begin, j), -n) = next_idx(c, j)
           /\ \A i \in 1 .. p : plus(next_idx(m_begin, p), -i) = next_idx(m_begin, p - i)
           /\ \A i \in 1 .. n : plus(next_idx(c, p), i - 1) = next_idx(c, p + i - 1)
  <1>1. size \in Slots /\ size \in Nat /\ size <= MaxSize /\ MaxSize \in Nat /\ m_begin \in Slots
    BY SizeType
  <1>2. \A j \in Nat : j <= MaxSize => j \in Slots
    BY <1>1 DEF Slots
  <1>3. p \in Slots /\ p \in Nat /\ p <= size /\ size + n <= MaxSize
    BY <1>1 DEF Slots
  <1>4. minus(next_idx(m_begin, p), m_begin) = p
    <2>1. 0 \in Slots /\ next_idx(m_begin, 0) = m_begin
      BY <1>1 DEF Slots, next_idx, BufSize
    <2>2. minus(next_idx(m_begin, p), next_idx(m_begin, 0)) = p - 0
      BY <1>1, <1>3, <2>1, MinusInside
    <2>3. QED
      BY <1>3, <2>1, <2>2
  <1>5. c \in Slots /\ n \in Slots
    <2>1. n \in Slots
      BY <1>1, <1>2, <1>3
    <2>2. QED
      BY <1>1, <2>1, DistanceNext
  <1>6. ASSUME NEW j \in 0 .. size
        PROVE  /\ begin_plus(j) = next_idx(m_begin, j)
               /\ next_idx(m_begin, j) = next_idx(c, j + n)
               /\ plus(next_idx(m_begin, j), -n) = next_idx(c, j)
    <2>1. /\ j \in Nat /\ j <= MaxSize /\ j + n \in Nat /\ j + n <= MaxSize
          /\ -n \in Int /\ j + n + (-n) = j
      BY <1>1, <1>3
    <2>2. j \in Slots /\ j + n \in Slots
      BY <1>2, <2>1
    <2>3. next_idx(m_begin, j) = next_idx(c, j + n)
      BY <1>1, <1>5, <2>2, PlusBefore
    <2>4. plus(next_idx(c, j + n), -n) = next_idx(c, j)
      BY <1>5, <2>1, <2>2, PlusInside
    <2>5. QED
      BY <2>1, <2>3, <2>4, BeginPlus
  <1>7. ASSUME NEW i \in 1 .. p
        PROVE  plus(next_idx(m_begin, p), -i) = next_idx(m_begin, p - i)
    <2>1. -i \in Int /\ p + (-i) = p - i /\ p - i \in Nat /\ p - i <= MaxSize
      BY <1>1, <1>3
    <2>2. p - i \in Slots
      BY <1>2, <2>1
    <2>3. QED
      BY <1>1, <1>3, <2>1, <2>2, PlusInside
  <1>8. ASSUME NEW i \in 1 .. n PROVE plus(next_idx(c, p), i - 1) = next_idx(c, p + i - 1)
    <2>1. i - 1 \in Int /\ p + (i - 1) = p + i - 1 /\ p + i - 1 \in Nat /\ p + i - 1 <= MaxSize
      BY <1>1, <1>3
    <2>2. p + i - 1 \in Slots
      BY <1>2, <2>1
    <2>3. QED
      BY <1>3, <1>5, <2>1, <2>2, PlusInside
  <1>9. QED
    BY <1>4, <1>5, <1>6, <1>7, <1>8

\* ... of which k > n precede the position: they move n to the front, ...
MovedAtBegin(X, Y, Z, p, src, n) ==
    /\ InsertAtBeginSide(next_idx(m_begin, p), src) = X \o Y \o Z
    /\ Len(X) = n /\ Constructs(X, "construct_begin", m_begin, size)
    /\ Len(Y) = p /\ Assigns(Y, n, "construct_begin", m_begin, size)
    /\ Len(Z) = n /\ Assigns(Z, n, "construct_begin", m_begin, size)
    /\ \A i \in 1 .. n : X[i] = ConstructBegin(Val(Default))
    /\ \A i \in 1 .. p : Y[i] = Assign(next_idx(prev_idx(m_begin, n), i - 1),
                                       At(next_idx(m_begin, i - 1)))
    /\ \A i \in 1 .. n : Z[i] = Assign(next_idx(prev_idx(m_begin, n), p + i - 1), src[i])

LEMMA BeginMoves ==
    ASSUME ContainerTypeOK, NEW src, Given(src), NEW n, n = Len(src), size + n <= MaxSize,
           NEW p \in 0 .. size, p > n
    PROVE  \E X, Y, Z \in Seq(Steps) : MovedAtBegin(X, Y, Z, p, src, n)
  <1>0. PICK c : c = prev_idx(m_begin, n)
    OBVIOUS
  <1> DEFINE pos == next_idx(m_begin, p)
             X == Times(n, ConstructBegin(Val(Default)))
             Y == [i \in 1 .. p |-> Assign(plus(begin_plus(i - 1), -n), At(begin_plus(i - 1)))]
             Z == [i \in 1 .. n |-> Assign(plus(plus(pos, -n), i - 1), src[i])]
  <1>1. size \in Slots /\ size \in Nat /\ size <= MaxSize /\ MaxSize \in Nat /\ m_begin \in Slots
    BY SizeType
  <1>2. n \in Nat /\ \A i \in 1 .. n : src[i] \in ReadFrom /\ Readable(src[i], m_begin, size)
    BY DEF Given
  <1>3. p \in Slots /\ p \in Nat /\ p <= size /\ minus(pos, m_begin) = p
    BY <1>1, <1>2, BeginPlaces DEF Slots
  <1>4. \A j \in Nat : j <= MaxSize => j \in Slots
    BY <1>1 DEF Slots
  <1>5. \A i \in 1 .. n : X[i] = ConstructBegin(Val(Default))
    BY DEF Times
  <1>6. X \in Seq(Steps) /\ Len(X) = n /\ Constructs(X, "construct_begin", m_begin, size)
    <2>1. \A i \in 1 .. n :
            /\ X[i] = [do |-> "construct_begin", src |-> Val(Default)]
            /\ Val(Default) \in ReadFrom /\ Readable(Val(Default), m_begin, size)
      BY <1>5, ContainersAssumption, ValueSource DEF ConstructBegin
    <2>2. X = [i \in 1 .. n |-> X[i]]
      BY DEF Times
    <2> HIDE DEF X
    <2>3. QED
      BY <1>2, <2>1, <2>2, ConstructList
  <1>7. ASSUME NEW i \in 1 .. p
        PROVE  /\ i - 1 \in Nat /\ i - 1 \in 0 .. size /\ i - 1 < size /\ i - 1 \in Slots
               /\ i - 1 < size + n
               /\ Y[i] = Assign(next_idx(c, i - 1), At(next_idx(m_begin, i - 1)))
    <2>1. i - 1 \in Nat /\ i - 1 \in 0 .. size /\ i - 1 < size /\ i - 1 < size + n
      BY <1>1, <1>2, <1>3
    <2>2. QED
      BY <1>0, <1>1, <1>2, <1>4, <2>1, BeginPlaces
  <1>8. Y \in Seq(Steps) /\ Len(Y) = p /\ Assigns(Y, n, "construct_begin", m_begin, size)
    <2>1. ASSUME NEW i \in 1 .. p
          PROVE  \E at, from :
                   /\ Y[i] = Assign(at, from) /\ from \in ReadFrom
                   /\ Readable(from, m_begin, size)
                   /\ ThereAfter(at, n, "construct_begin", m_begin, size)
      <3>1. ThereAfter(next_idx(c, i - 1), n, "construct_begin", m_begin, size)
        BY <1>0, <1>1, <1>2, <1>7, InsideGrownBack
      <3>2. /\ At(next_idx(m_begin, i - 1)) \in ReadFrom
            /\ Readable(At(next_idx(m_begin, i - 1)), m_begin, size)
        BY <1>1, <1>7, SlotSource
      <3>3. Y[i] = Assign(next_idx(c, i - 1), At(next_idx(m_begin, i - 1)))
        BY <1>7
      <3> HIDE DEF Y
      <3>4. QED
        BY <3>1, <3>2, <3>3
    <2>2. Y = [i \in 1 .. p |-> Y[i]]
      OBVIOUS
    <2> HIDE DEF Y
    <2>3. QED
      BY <1>3, <2>1, <2>2, AssignList
  <1>9. ASSUME NEW i \in 1 .. n
        PROVE  /\ p + i - 1 \in Nat /\ p + i - 1 < size + n
               /\ Z[i] = Assign(next_idx(c, p + i - 1), src[i])
    <2>1. p + i - 1 \in Nat /\ p + i - 1 < size + n /\ p \in 0 .. size
      BY <1>1, <1>2, <1>3
    <2>2. QED
      BY <1>0, <1>2, <2>1, BeginPlaces
  <1>10. Z \in Seq(Steps) /\ Len(Z) = n /\ Assigns(Z, n, "construct_begin", m_begin, size)
    <2>1. ASSUME NEW i \in 1 .. n
          PROVE  \E at, from :
                   /\ Z[i] = Assign(at, from) /\ from \in ReadFrom
                   /\ Readable(from, m_begin, size)
                   /\ ThereAfter(at, n, "construct_begin", m_begin, size)
      <3>1. ThereAfter(next_idx(c, p + i - 1), n, "construct_begin", m_begin, size)
        BY <1>0, <1>1, <1>2, <1>9, InsideGrownBack
      <3>2. Z[i] = Assign(next_idx(c, p + i - 1), src[i])
        BY <1>9
      <3> HIDE DEF Z
      <3>3. QED
        BY <1>2, <3>1, <3>2
    <2>2. Z = [i \in 1 .. n |-> Z[i]]
      OBVIOUS
    <2> HIDE DEF Z
    <2>3. QED
      BY <1>2, <2>1, <2>2, AssignList
  <1>11. InsertAtBeginSide(pos, src) = X \o Y \o Z
    BY <1>3 DEF InsertAtBeginSide
  <1> HIDE DEF X, Y, Z
  <1>12. MovedAtBegin(X, Y, Z, p, src, n)
    BY <1>0, <1>5, <1>6, <1>7, <1>8, <1>9, <1>10, <1>11 DEF MovedAtBegin
  <1>13. QED
    BY <1>6, <1>8, <1>10, <1>12

\* ... or at most n, which are made at the beginning of the larger container.
CopiedAtBegin(X, Y, Z, p, src, n) ==
    /\ InsertAtBeginSide(next_idx(m_begin, p), src) = X \o Y \o Z
    /\ Len(X) = n - p /\ Constructs(X, "construct_begin", m_begin, size)
    /\ Len(Y) = p /\ Constructs(Y, "construct_begin", m_begin, size)
    /\ Len(Z) = p /\ Assigns(Z, n, "construct_begin", m_begin, size)
    /\ \A i \in 1 .. n - p : X[i] = ConstructBegin(src[n - p + 1 - i])
    /\ \A i \in 1 .. p : Y[i] = ConstructBegin(At(next_idx(m_begin, p - i)))
    /\ \A i \in 1 .. p : Z[i] = Assign(next_idx(prev_idx(m_begin, n), i - 1 + n), src[n - p + i])

LEMMA BeginCopies ==
    ASSUME ContainerTypeOK, NEW src, Given(src), NEW n, n = Len(src), size + n <= MaxSize,
           NEW p \in 0 .. size, ~(p > n)
    PROVE  \E X, Y, Z \in Seq(Steps) : CopiedAtBegin(X, Y, Z, p, src, n)
  <1>0. PICK c : c = prev_idx(m_begin, n)
    OBVIOUS
  <1> DEFINE pos == next_idx(m_begin, p)
             X == [i \in 1 .. n - p |-> ConstructBegin(src[n - p + 1 - i])]
             Y == [i \in 1 .. p |-> ConstructBegin(At(plus(pos, -i)))]
             Z == [i \in 1 .. p |-> Assign(begin_plus(i - 1), src[n - p + i])]
  <1>1. size \in Slots /\ size \in Nat /\ size <= MaxSize /\ MaxSize \in Nat /\ m_begin \in Slots
    BY SizeType
  <1>2. n \in Nat /\ \A i \in 1 .. n : src[i] \in ReadFrom /\ Readable(src[i], m_begin, size)
    BY DEF Given
  <1>3. /\ p \in Slots /\ p \in Nat /\ p <= size /\ n - p \in Nat
        /\ minus(pos, m_begin) = p
    BY <1>1, <1>2, BeginPlaces DEF Slots
  <1>4. \A j \in Nat : j <= MaxSize => j \in Slots
    BY <1>1 DEF Slots
  <1>5. ASSUME NEW i \in 1 .. n - p
        PROVE  /\ X[i] = ConstructBegin(src[n - p + 1 - i])
               /\ src[n - p + 1 - i] \in ReadFrom
               /\ Readable(src[n - p + 1 - i], m_begin, size)
    <2>1. n - p + 1 - i \in 1 .. n
      BY <1>2, <1>3
    <2>2. QED
      BY <1>2, <2>1
  <1>6. X \in Seq(Steps) /\ Len(X) = n - p /\ Constructs(X, "construct_begin", m_begin, size)
    <2>1. X = [i \in 1 .. n - p |-> X[i]]
      OBVIOUS
    <2> HIDE DEF X
    <2>2. ASSUME NEW i \in 1 .. n - p
          PROVE  \E from \in ReadFrom :
                    /\ X[i] = [do |-> "construct_begin", src |-> from]
                    /\ Readable(from, m_begin, size)
      BY <1>5 DEF ConstructBegin
    <2>3. QED
      BY <1>3, <2>1, <2>2, ConstructList
  <1>7. ASSUME NEW i \in 1 .. p
        PROVE  /\ p - i \in Nat /\ p - i < size /\ p - i \in Slots
               /\ Y[i] = ConstructBegin(At(next_idx(m_begin, p - i)))
    <2>1. p - i \in Nat /\ p - i < size /\ p - i <= MaxSize
      BY <1>1, <1>3
    <2>2. QED
      BY <1>2, <1>4, <2>1, BeginPlaces
  <1>8. Y \in Seq(Steps) /\ Len(Y) = p /\ Constructs(Y, "construct_begin", m_begin, size)
    <2>1. ASSUME NEW i \in 1 .. p
          PROVE  \E from \in ReadFrom :
                    /\ Y[i] = [do |-> "construct_begin", src |-> from]
                    /\ Readable(from, m_begin, size)
      <3>1. /\ At(next_idx(m_begin, p - i)) \in ReadFrom
            /\ Readable(At(next_idx(m_begin, p - i)), m_begin, size)
        BY <1>1, <1>7, SlotSource
      <3>2. Y[i] = [do |-> "construct_begin", src |-> At(next_idx(m_begin, p - i))]
        BY <1>7 DEF ConstructBegin
      <3> HIDE DEF Y
      <3>3. QED
        BY <3>1, <3>2
    <2>2. Y = [i \in 1 .. p |-> Y[i]]
      OBVIOUS
    <2> HIDE DEF Y
    <2>3. QED
      BY <1>3, <2>1, <2>2, ConstructList
  <1>9. ASSUME NEW i \in 1 .. p
        PROVE  /\ i - 1 + n \in Nat /\ i - 1 + n < size + n /\ n - p + i \in 1 .. n
               /\ Z[i] = Assign(next_idx(c, i - 1 + n), src[n - p + i])
    <2>1. /\ i - 1 + n \in Nat /\ i - 1 + n < size + n /\ n - p + i \in 1 .. n
          /\ i - 1 \in 0 .. size
      BY <1>1, <1>2, <1>3
    <2>2. QED
      BY <1>0, <1>2, <2>1, BeginPlaces
  <1>10. Z \in Seq(Steps) /\ Len(Z) = p /\ Assigns(Z, n, "construct_begin", m_begin, size)
    <2>1. ASSUME NEW i \in 1 .. p
          PROVE  \E at, from :
                   /\ Z[i] = Assign(at, from) /\ from \in ReadFrom
                   /\ Readable(from, m_begin, size)
                   /\ ThereAfter(at, n, "construct_begin", m_begin, size)
      <3>1. ThereAfter(next_idx(c, i - 1 + n), n, "construct_begin", m_begin, size)
        BY <1>0, <1>1, <1>2, <1>9, InsideGrownBack
      <3>2. Z[i] = Assign(next_idx(c, i - 1 + n), src[n - p + i])
        BY <1>9
      <3> HIDE DEF Z
      <3>3. QED
        BY <1>2, <1>9, <3>1, <3>2
    <2>2. Z = [i \in 1 .. p |-> Z[i]]
      OBVIOUS
    <2> HIDE DEF Z
    <2>3. QED
      BY <1>3, <2>1, <2>2, AssignList
  <1>11. InsertAtBeginSide(pos, src) = X \o Y \o Z
    BY <1>3 DEF InsertAtBeginSide
  <1> HIDE DEF X, Y, Z
  <1>12. CopiedAtBegin(X, Y, Z, p, src, n)
    BY <1>0, <1>5, <1>6, <1>7, <1>8, <1>9, <1>10, <1>11 DEF CopiedAtBegin
  <1>13. QED
    BY <1>6, <1>8, <1>10, <1>12

LEMMA InsertsAtBeginSide ==
    ASSUME ContainerTypeOK, NEW src, Given(src), size + Len(src) <= MaxSize,
           NEW p \in 0 .. size
    PROVE  LET plan == InsertAtBeginSide(next_idx(m_begin, p), src)
           IN  plan \in Seq(Steps) /\ PlanSafe(plan, m_begin, size)
  <1> DEFINE plan == InsertAtBeginSide(next_idx(m_begin, p), src)
  <1>0. PICK n : n = Len(src)
    OBVIOUS
  <1>1. /\ size \in Nat /\ n \in Nat /\ p \in Nat /\ size + n <= MaxSize
    BY <1>0, SizeType, LenProperties DEF Given
  <1>2. CASE p > n
    <2>1. PICK X, Y, Z \in Seq(Steps) : MovedAtBegin(X, Y, Z, p, src, n)
      BY <1>0, <1>1, <1>2, BeginMoves
    <2>2. /\ plan = X \o Y \o Z
          /\ Len(X) = n /\ Constructs(X, "construct_begin", m_begin, size)
          /\ Assigns(Y, n, "construct_begin", m_begin, size)
          /\ Assigns(Z, n, "construct_begin", m_begin, size)
      BY <2>1 DEF MovedAtBegin
    <2> HIDE DEF plan
    <2>3. plan \in Seq(Steps) /\ PlanSafe(plan, m_begin, size)
      BY <1>1, <2>2, ThreeParts
    <2>4. QED
      BY <2>3 DEF plan
  <1>3. CASE ~(p > n)
    <2>1. PICK X, Y, Z \in Seq(Steps) : CopiedAtBegin(X, Y, Z, p, src, n)
      BY <1>0, <1>1, <1>3, BeginCopies
    <2>2. /\ plan = X \o Y \o Z
          /\ Len(X) = n - p /\ Constructs(X, "construct_begin", m_begin, size)
          /\ Len(Y) = p /\ Constructs(Y, "construct_begin", m_begin, size)
          /\ Assigns(Z, n, "construct_begin", m_begin, size)
      BY <2>1 DEF CopiedAtBegin
    <2> HIDE DEF plan
    <2>3. /\ X \o Y \in Seq(Steps) /\ Len(X \o Y) = n
          /\ Constructs(X \o Y, "construct_begin", m_begin, size)
      <3>1. Len(X \o Y) = (n - p) + p
        BY <2>2, ConcatProperties
      <3>2. QED
        BY <1>1, <2>2, <3>1, MoreConstructs, ConcatProperties
    <2>4. PICK V \in Seq(Steps) : /\ plan = V \o Z /\ Len(V) = n
                                  /\ Constructs(V, "construct_begin", m_begin, size)
      BY <2>2, <2>3
    <2>5. V \o Z \in Seq(Steps) /\ PlanSafe(V \o Z, m_begin, size)
      <3>1. Assigns(Z, Len(V), "construct_begin", m_begin, size) /\ size + Len(V) <= MaxSize
        BY <1>1, <2>2, <2>4
      <3>2. QED
        BY <1>1, <2>4, <3>1, ConstructsThenAssigns
    <2>6. QED
      BY <2>4, <2>5 DEF plan
  <1>4. QED
    BY <1>2, <1>3

\* Parts that move elements within the container, before a cut.
LEMMA MoveList ==
    ASSUME NEW m \in Nat, NEW X, X = [i \in 1 .. m |-> X[i]], NEW b \in Slots, NEW k \in Nat,
           \A i \in 1 .. m : \E to \in Slots, from \in Slots :
                /\ to < k /\ from < k
                /\ X[i] = Assign(next_idx(b, to), At(next_idx(b, from)))
    PROVE  /\ X \in Seq(Steps) /\ Len(X) = m
           /\ \A i \in 1 .. m : /\ X[i].do = "assign" /\ Readable(X[i].src, b, k)
                                /\ There(X[i].at, b, k)
  <1>1. ASSUME NEW i \in 1 .. m
        PROVE  /\ X[i] \in Steps /\ X[i].do = "assign" /\ Readable(X[i].src, b, k)
               /\ There(X[i].at, b, k)
    <2>1. PICK to \in Slots, from \in Slots :
                /\ to < k /\ from < k
                /\ X[i] = Assign(next_idx(b, to), At(next_idx(b, from)))
      OBVIOUS
    <2>2. There(next_idx(b, to), b, k) /\ next_idx(b, to) \in Slots
      BY <2>1, SlotSource
    <2>3. At(next_idx(b, from)) \in ReadFrom /\ Readable(At(next_idx(b, from)), b, k)
      BY <2>1, SlotSource
    <2>4. X[i] \in Steps
      BY <2>1, <2>2, <2>3, StepTypes
    <2>5. QED
      BY <2>1, <2>2, <2>3, <2>4 DEF Assign
  <1>2. X \in Seq(Steps) /\ Len(X) = m
    BY <1>1, ListOf
  <1>3. QED
    BY <1>1, <1>2

ErasedAtEnd(X, p, q) ==
    /\ EraseAtEndSide(next_idx(m_begin, p), next_idx(m_begin, q)) = X \o <<CutEnd(q - p)>>
    /\ Len(X) = size - q
    /\ \A i \in 1 .. size - q :
        /\ X[i] = Assign(next_idx(m_begin, p + i - 1), At(next_idx(m_begin, q + i - 1)))
        /\ X[i].do = "assign" /\ Readable(X[i].src, m_begin, size)
        /\ There(X[i].at, m_begin, size)

LEMMA EraseEndMoves ==
    ASSUME ContainerTypeOK, NEW p \in 0 .. size - 1, NEW q \in 1 .. size, p < q
    PROVE  \E X \in Seq(Steps) : ErasedAtEnd(X, p, q)
  <1> DEFINE first == next_idx(m_begin, p)  last == next_idx(m_begin, q)
             n == minus(last, first)  m == minus(m_end, last)
             X == [i \in 1 .. m |->
                    Assign(plus(plus(last, i - 1), -n), At(plus(last, i - 1)))]
  <1>1. /\ size \in Slots /\ size \in Nat /\ size <= MaxSize /\ MaxSize \in Nat
        /\ m_begin \in Slots /\ m_end = next_idx(m_begin, size)
    BY SizeType
  <1>2. p \in Slots /\ p \in Nat /\ q \in Slots /\ q \in Nat /\ p < q /\ q <= size
    BY <1>1 DEF Slots
  <1>3. n = q - p /\ m = size - q
    <2>1. minus(next_idx(m_begin, q), next_idx(m_begin, p)) = q - p
      BY <1>1, <1>2, MinusInside
    <2>2. minus(next_idx(m_begin, size), next_idx(m_begin, q)) = size - q
      BY <1>1, <1>2, MinusInside
    <2>3. QED
      BY <1>1, <2>1, <2>2
  <1>4. \A j \in Nat : j <= MaxSize => j \in Slots
    BY <1>1 DEF Slots
  <1>5. EraseAtEndSide(first, last) = X \o <<CutEnd(n)>>
    BY DEF EraseAtEndSide
  <1> HIDE DEF first, n, m
  <1>6. ASSUME NEW i \in 1 .. m
        PROVE  /\ X[i] = Assign(next_idx(m_begin, p + i - 1), At(next_idx(m_begin, q + i - 1)))
               /\ p + i - 1 \in Slots /\ q + i - 1 \in Slots
               /\ p + i - 1 < size /\ q + i - 1 < size
    <2>1. /\ i - 1 \in Int /\ q + (i - 1) = q + i - 1 /\ q + i - 1 \in Nat
          /\ q + i - 1 < size /\ q + i - 1 <= MaxSize
          /\ -n \in Int /\ q + i - 1 + (-n) = p + i - 1 /\ p + i - 1 \in Nat
          /\ p + i - 1 < size /\ p + i - 1 <= MaxSize
      BY <1>1, <1>2, <1>3
    <2>2. q + i - 1 \in Slots /\ p + i - 1 \in Slots
      BY <1>4, <2>1
    <2>3. plus(last, i - 1) = next_idx(m_begin, q + i - 1)
      BY <1>1, <1>2, <2>1, <2>2, PlusInside
    <2>4. plus(next_idx(m_begin, q + i - 1), -n) = next_idx(m_begin, p + i - 1)
      BY <1>1, <1>2, <2>1, <2>2, PlusInside
    <2>5. X[i] = Assign(next_idx(m_begin, p + i - 1), At(next_idx(m_begin, q + i - 1)))
      BY <2>3, <2>4
    <2>6. QED
      BY <2>1, <2>2, <2>5
  <1>7. X = [i \in 1 .. m |-> X[i]]
    OBVIOUS
  <1>8. m \in Nat /\ n \in Nat /\ n <= size /\ n \in Slots
    <2>1. m \in Nat /\ n \in Nat /\ n <= size /\ n <= MaxSize
      BY <1>1, <1>2, <1>3
    <2>2. QED
      BY <1>4, <2>1
  <1> HIDE DEF X
  <1>9. /\ X \in Seq(Steps) /\ Len(X) = m
        /\ \A i \in 1 .. m : /\ X[i].do = "assign" /\ Readable(X[i].src, m_begin, size)
                             /\ There(X[i].at, m_begin, size)
    <2>1. ASSUME NEW i \in 1 .. m
          PROVE  \E to \in Slots, from \in Slots :
                    /\ to < size /\ from < size
                    /\ X[i] = Assign(next_idx(m_begin, to), At(next_idx(m_begin, from)))
      BY <1>6
    <2>2. QED
      BY <1>1, <1>7, <1>8, <2>1, MoveList
  <1>10. EraseAtEndSide(first, last) = X \o <<CutEnd(q - p)>>
    BY <1>3, <1>5
  <1>11. ErasedAtEnd(X, p, q)
    <2>1. ASSUME NEW i \in 1 .. size - q
          PROVE  /\ X[i] = Assign(next_idx(m_begin, p + i - 1), At(next_idx(m_begin, q + i - 1)))
                 /\ X[i].do = "assign" /\ Readable(X[i].src, m_begin, size)
                 /\ There(X[i].at, m_begin, size)
      <3>1. i \in 1 .. m
        BY <1>3
      <3>2. QED
        BY <1>6, <1>9, <3>1
    <2>2. /\ EraseAtEndSide(next_idx(m_begin, p), next_idx(m_begin, q))
                = X \o <<CutEnd(q - p)>>
          /\ Len(X) = size - q
      BY <1>3, <1>9, <1>10 DEF first, last
    <2>3. QED
      BY <2>1, <2>2 DEF ErasedAtEnd
  <1>12. QED
    BY <1>9, <1>11

LEMMA ErasesAtEndSide ==
    ASSUME ContainerTypeOK, NEW p \in 0 .. size - 1, NEW q \in 1 .. size, p < q
    PROVE  LET plan == EraseAtEndSide(next_idx(m_begin, p), next_idx(m_begin, q))
           IN  plan \in Seq(Steps) /\ PlanSafe(plan, m_begin, size) /\ AtEndOnly(plan)
  <1>1. PICK X \in Seq(Steps) : ErasedAtEnd(X, p, q)
    BY EraseEndMoves
  <1>2. PICK n, m : n = q - p /\ m = size - q
    OBVIOUS
  <1>3. size \in Nat /\ size <= MaxSize /\ MaxSize \in Nat /\ p \in Nat /\ q \in Nat /\ q <= size
    BY SizeType
  <1>4. n \in 0 .. size /\ n \in Slots
    BY <1>2, <1>3 DEF Slots
  <1>5. CutEnd(n) \in Steps /\ CutEnd(n).do = "cut_end" /\ CutEnd(n).n = n
    BY <1>4, StepTypes DEF CutEnd
  <1>6. /\ EraseAtEndSide(next_idx(m_begin, p), next_idx(m_begin, q)) = X \o <<CutEnd(n)>>
        /\ Len(X) = m
        /\ \A i \in 1 .. m : /\ X[i].do = "assign" /\ Readable(X[i].src, m_begin, size)
                             /\ There(X[i].at, m_begin, size)
    BY <1>1, <1>2 DEF ErasedAtEnd
  <1>7. /\ X \o <<CutEnd(n)>> \in Seq(Steps) /\ PlanSafe(X \o <<CutEnd(n)>>, m_begin, size)
         /\ AtEndOnly(X \o <<CutEnd(n)>>)
    BY <1>3, <1>4, <1>5, <1>6, AssignsThenCut
  <1>8. QED
    BY <1>6, <1>7

ErasedAtBegin(X, p, q) ==
    /\ EraseAtBeginSide(next_idx(m_begin, p), next_idx(m_begin, q)) = X \o <<CutBegin(q - p)>>
    /\ Len(X) = p
    /\ \A i \in 1 .. p :
        /\ X[i] = Assign(next_idx(m_begin, q - i), At(next_idx(m_begin, p - i)))
        /\ X[i].do = "assign" /\ Readable(X[i].src, m_begin, size)
        /\ There(X[i].at, m_begin, size)

LEMMA EraseBeginMoves ==
    ASSUME ContainerTypeOK, NEW p \in 0 .. size - 1, NEW q \in 1 .. size, p < q
    PROVE  \E X \in Seq(Steps) : ErasedAtBegin(X, p, q)
  <1> DEFINE first == next_idx(m_begin, p)  last == next_idx(m_begin, q)
             n == minus(last, first)  m == minus(first, m_begin)
             X == [i \in 1 .. m |-> Assign(plus(plus(first, -i), n), At(plus(first, -i)))]
  <1>1. /\ size \in Slots /\ size \in Nat /\ size <= MaxSize /\ MaxSize \in Nat
        /\ m_begin \in Slots
    BY SizeType
  <1>2. p \in Slots /\ p \in Nat /\ q \in Slots /\ q \in Nat /\ p < q /\ q <= size
    BY <1>1 DEF Slots
  <1>3. n = q - p /\ m = p
    <2>1. minus(next_idx(m_begin, q), next_idx(m_begin, p)) = q - p
      BY <1>1, <1>2, MinusInside
    <2>2. 0 \in Slots /\ next_idx(m_begin, 0) = m_begin
      BY <1>1 DEF Slots, next_idx, BufSize
    <2>3. minus(next_idx(m_begin, p), next_idx(m_begin, 0)) = p - 0
      BY <1>1, <1>2, <2>2, MinusInside
    <2>4. QED
      BY <1>2, <2>1, <2>2, <2>3
  <1>4. \A j \in Nat : j <= MaxSize => j \in Slots
    BY <1>1 DEF Slots
  <1>5. EraseAtBeginSide(first, last) = X \o <<CutBegin(n)>>
    BY DEF EraseAtBeginSide
  <1> HIDE DEF last, n, m
  <1>6. ASSUME NEW i \in 1 .. m
        PROVE  /\ X[i] = Assign(next_idx(m_begin, q - i), At(next_idx(m_begin, p - i)))
               /\ q - i \in Slots /\ p - i \in Slots
               /\ q - i < size /\ p - i < size
    <2>1. /\ -i \in Int /\ p + (-i) = p - i /\ p - i \in Nat
          /\ p - i < size /\ p - i <= MaxSize
          /\ n \in Int /\ p - i + n = q - i /\ q - i \in Nat
          /\ q - i < size /\ q - i <= MaxSize
      BY <1>1, <1>2, <1>3
    <2>2. p - i \in Slots /\ q - i \in Slots
      BY <1>4, <2>1
    <2>3. plus(first, -i) = next_idx(m_begin, p - i)
      BY <1>1, <1>2, <2>1, <2>2, PlusInside
    <2>4. plus(next_idx(m_begin, p - i), n) = next_idx(m_begin, q - i)
      <3>1. \A j \in Slots :
                j + n \in Slots => plus(next_idx(m_begin, j), n) = next_idx(m_begin, j + n)
        BY <1>1, <2>1, PlusInside
      <3>2. p - i + n \in Slots
        BY <2>1, <2>2
      <3>3. QED
        BY <2>1, <2>2, <3>1, <3>2
    <2>5. X[i] = Assign(next_idx(m_begin, q - i), At(next_idx(m_begin, p - i)))
      BY <2>3, <2>4
    <2>6. QED
      BY <2>1, <2>2, <2>5
  <1>7. X = [i \in 1 .. m |-> X[i]]
    OBVIOUS
  <1>8. m \in Nat /\ n \in Nat /\ n <= size /\ n \in Slots
    <2>1. m \in Nat /\ n \in Nat /\ n <= size /\ n <= MaxSize
      BY <1>1, <1>2, <1>3
    <2>2. QED
      BY <1>4, <2>1
  <1> HIDE DEF X
  <1>9. /\ X \in Seq(Steps) /\ Len(X) = m
        /\ \A i \in 1 .. m : /\ X[i].do = "assign" /\ Readable(X[i].src, m_begin, size)
                             /\ There(X[i].at, m_begin, size)
    <2>1. ASSUME NEW i \in 1 .. m
          PROVE  \E to \in Slots, from \in Slots :
                    /\ to < size /\ from < size
                    /\ X[i] = Assign(next_idx(m_begin, to), At(next_idx(m_begin, from)))
      BY <1>6
    <2>2. QED
      BY <1>1, <1>7, <1>8, <2>1, MoveList
  <1>10. EraseAtBeginSide(first, last) = X \o <<CutBegin(q - p)>>
    BY <1>3, <1>5
  <1>11. ErasedAtBegin(X, p, q)
    <2>1. ASSUME NEW i \in 1 .. p
          PROVE  /\ X[i] = Assign(next_idx(m_begin, q - i), At(next_idx(m_begin, p - i)))
                 /\ X[i].do = "assign" /\ Readable(X[i].src, m_begin, size)
                 /\ There(X[i].at, m_begin, size)
      <3>1. i \in 1 .. m
        BY <1>3
      <3>2. QED
        BY <1>6, <1>9, <3>1
    <2>2. /\ EraseAtBeginSide(next_idx(m_begin, p), next_idx(m_begin, q))
                = X \o <<CutBegin(q - p)>>
          /\ Len(X) = p
      BY <1>3, <1>9, <1>10 DEF first, last
    <2>3. QED
      BY <2>1, <2>2 DEF ErasedAtBegin
  <1>12. QED
    BY <1>9, <1>11

LEMMA ErasesAtBeginSide ==
    ASSUME ContainerTypeOK, NEW p \in 0 .. size - 1, NEW q \in 1 .. size, p < q
    PROVE  LET plan == EraseAtBeginSide(next_idx(m_begin, p), next_idx(m_begin, q))
           IN  plan \in Seq(Steps) /\ PlanSafe(plan, m_begin, size)
  <1>1. PICK X \in Seq(Steps) : ErasedAtBegin(X, p, q)
    BY EraseBeginMoves
  <1>2. PICK n, m : n = q - p /\ m = p
    OBVIOUS
  <1>3. size \in Nat /\ size <= MaxSize /\ MaxSize \in Nat /\ p \in Nat /\ q \in Nat /\ q <= size
    BY SizeType
  <1>4. n \in 0 .. size /\ n \in Slots
    BY <1>2, <1>3 DEF Slots
  <1>5. CutBegin(n) \in Steps /\ CutBegin(n).do = "cut_begin" /\ CutBegin(n).n = n
    BY <1>4, StepTypes DEF CutBegin
  <1>6. /\ EraseAtBeginSide(next_idx(m_begin, p), next_idx(m_begin, q)) = X \o <<CutBegin(n)>>
        /\ Len(X) = m
        /\ \A i \in 1 .. m : /\ X[i].do = "assign" /\ Readable(X[i].src, m_begin, size)
                             /\ There(X[i].at, m_begin, size)
    BY <1>1, <1>2 DEF ErasedAtBegin
  <1>7. /\ X \o <<CutBegin(n)>> \in Seq(Steps) /\ PlanSafe(X \o <<CutBegin(n)>>, m_begin, size)
    BY <1>3, <1>4, <1>5, <1>6, AssignsThenCut
  <1>8. QED
    BY <1>6, <1>7

\* The shorter plans: a call that is refused, a cut, and constructions alone.
LEMMA RefusedSafe ==
    ASSUME NEW b, NEW k
    PROVE  <<Refused>> \in Seq(Steps) /\ PlanSafe(<<Refused>>, b, k) /\ AtEndOnly(<<Refused>>)
  <1>1. <<Refused>> \in Seq(Steps)
    BY StepTypes
  <1>2. QED
    BY <1>1 DEF PlanSafe, AtEndOnly, Refused

LEMMA CutSafe ==
    ASSUME NEW b, NEW k \in Nat, k <= MaxSize, NEW n \in 0 .. k
    PROVE  /\ <<CutEnd(n)>> \in Seq(Steps) /\ PlanSafe(<<CutEnd(n)>>, b, k)
           /\ AtEndOnly(<<CutEnd(n)>>)
           /\ <<CutBegin(n)>> \in Seq(Steps) /\ PlanSafe(<<CutBegin(n)>>, b, k)
  <1>1. n \in Slots /\ n \in 0 .. k
    BY ContainersAssumption DEF Slots
  <1>2. /\ CutEnd(n) \in Steps /\ CutEnd(n).do = "cut_end" /\ CutEnd(n).n = n
        /\ CutBegin(n) \in Steps /\ CutBegin(n).do = "cut_begin" /\ CutBegin(n).n = n
    BY <1>1, StepTypes DEF CutEnd, CutBegin
  <1>3. /\ <<>> \in Seq(Steps) /\ Len(<<>>) = 0
        /\ <<>> \o <<CutEnd(n)>> = <<CutEnd(n)>> /\ <<>> \o <<CutBegin(n)>> = <<CutBegin(n)>>
    BY <1>2
  <1>4. QED
    <2> DEFINE none == <<>>
    <2>1. /\ none \in Seq(Steps) /\ Len(none) = 0
          /\ none \o <<CutEnd(n)>> = <<CutEnd(n)>> /\ none \o <<CutBegin(n)>> = <<CutBegin(n)>>
      BY <1>3
    <2>2. \A i \in 1 .. Len(none) :
            none[i].do = "assign" /\ Readable(none[i].src, b, k) /\ There(none[i].at, b, k)
      BY <2>1
    <2> HIDE DEF none
    <2>3. /\ none \o <<CutEnd(n)>> \in Seq(Steps) /\ PlanSafe(none \o <<CutEnd(n)>>, b, k)
          /\ AtEndOnly(none \o <<CutEnd(n)>>)
      BY <1>1, <1>2, <2>1, <2>2, AssignsThenCut
    <2>4. /\ none \o <<CutBegin(n)>> \in Seq(Steps)
          /\ PlanSafe(none \o <<CutBegin(n)>>, b, k)
      BY <1>1, <1>2, <2>1, <2>2, AssignsThenCut
    <2>5. QED
      BY <2>1, <2>3, <2>4

LEMMA ConstructsSafe ==
    ASSUME NEW X \in Seq(Steps), NEW b, NEW k \in Nat,
           NEW side \in {"construct_end", "construct_begin"}, k + Len(X) <= MaxSize,
           Constructs(X, side, b, k)
    PROVE  PlanSafe(X, b, k) /\ (side = "construct_end" => AtEndOnly(X))
  <1> DEFINE none == <<>>
  <1>1. none \in Seq(Steps) /\ Assigns(none, Len(X), side, b, k)
    BY DEF Assigns
  <1>2. X \o none = X
    BY ConcatEmptySeq
  <1> HIDE DEF none
  <1>3. /\ PlanSafe(X \o none, b, k)
        /\ side = "construct_end" => AtEndOnly(X \o none)
    BY <1>1, ConstructsThenAssigns
  <1>4. QED
    BY <1>2, <1>3

\* One element, or copies of one.
LEMMA CopiesSafe ==
    ASSUME NEW m \in Nat, NEW src \in ReadFrom, NEW b, NEW k \in Nat, k + m <= MaxSize,
           Readable(src, b, k)
    PROVE  /\ Times(m, ConstructEnd(src)) \in Seq(Steps)
           /\ PlanSafe(Times(m, ConstructEnd(src)), b, k)
           /\ AtEndOnly(Times(m, ConstructEnd(src)))
           /\ Times(m, ConstructBegin(src)) \in Seq(Steps)
           /\ PlanSafe(Times(m, ConstructBegin(src)), b, k)
  <1> DEFINE X == Times(m, ConstructEnd(src))  Y == Times(m, ConstructBegin(src))
  <1>1. /\ \A i \in 1 .. m : X[i] = [do |-> "construct_end", src |-> src]
        /\ \A i \in 1 .. m : Y[i] = [do |-> "construct_begin", src |-> src]
        /\ X = [i \in 1 .. m |-> X[i]] /\ Y = [i \in 1 .. m |-> Y[i]]
    BY DEF Times, ConstructEnd, ConstructBegin
  <1> HIDE DEF X, Y
  <1>2. X \in Seq(Steps) /\ Len(X) = m /\ Constructs(X, "construct_end", b, k)
    BY <1>1, ConstructList
  <1>3. Y \in Seq(Steps) /\ Len(Y) = m /\ Constructs(Y, "construct_begin", b, k)
    BY <1>1, ConstructList
  <1>4. QED
    BY <1>2, <1>3, ConstructsSafe DEF X, Y

LEMMA AssignsSafe ==
    ASSUME NEW b, NEW k \in Nat, k <= MaxSize, NEW data \in Seq(Values), Len(data) <= MaxSize
    PROVE  LET plan == <<CutEnd(k)>> \o [i \in DOMAIN data |-> ConstructEnd(Val(data[i]))]
           IN  plan \in Seq(Steps) /\ PlanSafe(plan, b, k) /\ AtEndOnly(plan)
  <1> DEFINE X == [i \in DOMAIN data |-> ConstructEnd(Val(data[i]))]
             plan == <<CutEnd(k)>> \o X
  <1>1. /\ Len(data) \in Nat /\ DOMAIN data = 1 .. Len(data)
        /\ \A i \in 1 .. Len(data) : data[i] \in Values
    BY LenProperties, ElementOfSeq
  <1>2. k \in Slots /\ CutEnd(k) \in Steps /\ CutEnd(k).do = "cut_end" /\ CutEnd(k).n = k
    <2>1. k \in Slots
      BY ContainersAssumption DEF Slots
    <2>2. QED
      BY <2>1, StepTypes DEF CutEnd
  <1>3. ASSUME NEW i \in 1 .. Len(data)
        PROVE  /\ X[i] \in Steps /\ X[i].do = "construct_end"
               /\ X[i].src[1] = "value" /\ X[i].src[2] \in Values
    <2>1. X[i] = ConstructEnd(Val(data[i])) /\ Val(data[i]) \in ReadFrom /\ data[i] \in Values
      BY <1>1, ValueSource
    <2> HIDE DEF X
    <2>2. QED
      BY <2>1, StepTypes DEF ConstructEnd, Val
  <1>4. X = [i \in 1 .. Len(data) |-> X[i]]
    BY <1>1
  <1> HIDE DEF X
  <1>5. X \in Seq(Steps) /\ Len(X) = Len(data)
    BY <1>1, <1>3, <1>4, ListOf
  <1>6. <<CutEnd(k)>> \in Seq(Steps) /\ Len(<<CutEnd(k)>>) = 1 /\ <<CutEnd(k)>>[1] = CutEnd(k)
    BY <1>2
  <1>7. /\ plan \in Seq(Steps) /\ Len(plan) = 1 + Len(data)
        /\ \A i \in 1 .. 1 + Len(data) :
            plan[i] = IF i <= 1 THEN <<CutEnd(k)>>[i] ELSE X[i - 1]
    BY <1>5, <1>6, ConcatProperties
  <1> HIDE DEF plan
  <1>8. plan[1] = CutEnd(k)
    BY <1>1, <1>6, <1>7
  <1>9. ASSUME NEW i \in 2 .. Len(plan)
        PROVE  /\ plan[i].do = "construct_end"
               /\ plan[i].src[1] = "value" /\ plan[i].src[2] \in Values
    <2>1. i - 1 \in 1 .. Len(data) /\ plan[i] = X[i - 1]
      BY <1>1, <1>7
    <2>2. QED
      BY <1>3, <2>1
  <1>10. plan # <<>> /\ Len(plan) <= MaxSize + 1
    BY <1>1, <1>7, EmptySeq, ContainersAssumption
  <1>11. CutsThenGrows(plan, k)
    BY <1>2, <1>8, <1>9, <1>10 DEF CutsThenGrows
  <1>12. AtEndOnly(plan)
    <2> SUFFICES ASSUME NEW i \in 1 .. Len(plan)
                 PROVE  plan[i].do \notin {"construct_begin", "cut_begin"}
      BY DEF AtEndOnly
    <2>1. i = 1 \/ i \in 2 .. Len(plan)
      BY <1>1, <1>7
    <2>2. QED
      BY <1>2, <1>8, <1>9, <2>1
  <1>13. QED
    BY <1>7, <1>11, <1>12 DEF PlanSafe, plan, X

-----------------------------------------------------------------------------
(* The calls.                                                              *)

LEMMA CallKeeps ==
    ASSUME ContainerIInv, NEW c, NEW steps \in Seq(Steps), NEW it, Begin(c, steps, it),
           c # Idle, PlanSafe(steps, m_begin, size), kind = "vector" => AtEndOnly(steps),
           (life = "live" /\ life' = "live") \/ (life = "none" /\ life' = "building")
    PROVE  ContainerIInv'
  <1>1. ContainerTypeOK /\ LiveSlots
    BY DEF ContainerIInv
  <1>2. /\ call' = c /\ todo' = steps
        /\ kind' = kind /\ slots' = slots /\ m_begin' = m_begin /\ m_end' = m_end
    BY DEF Begin
  <1>3. size' = size
    BY <1>2 DEF size
  <1>4. ContainerTypeOK'
    BY <1>1, <1>2 DEF ContainerTypeOK
  <1>5. LiveSlots'
    BY <1>1, <1>2, <1>3 DEF LiveSlots
  <1>6. QED
    BY <1>2, <1>3, <1>4, <1>5 DEF ContainerIInv

LEMMA SourceTypes ==
    ASSUME ContainerTypeOK, NEW src \in Sources
    PROVE  src \in ReadFrom /\ Readable(src, m_begin, size)
  <1>1. m_begin \in Slots /\ size \in Nat /\ size <= MaxSize /\ MaxSize \in Nat
    BY SizeType
  <1>2. CASE src \in { Val(v) : v \in Values }
    BY <1>2, ValueSource
  <1>3. CASE src \in { At(begin_plus(p)) : p \in 0 .. size - 1 }
    <2>1. PICK p \in 0 .. size - 1 : src = At(begin_plus(p))
      BY <1>3
    <2>2. p \in Slots /\ p < size /\ ~(p < 0)
      BY <1>1 DEF Slots
    <2>3. begin_plus(p) = next_idx(m_begin, p)
      BY <2>2 DEF begin_plus, plus
    <2>4. QED
      BY <1>1, <2>1, <2>2, <2>3, SlotSource
  <1>4. QED
    BY <1>2, <1>3 DEF Sources

LEMMA push_backKeeps ==
    ASSUME ContainerIInv, NEW src \in Sources, push_back(src) PROVE ContainerIInv'
  <1> DEFINE steps == IfRoom(1, <<ConstructEnd(src)>>)  c == Puts("push", size, <<src>>)
  <1>1. life = "live" /\ life' = "live" /\ Begin(c, steps, NoIter)
    BY DEF push_back, Live
  <1>2. c # Idle
    BY DEF Puts, Idle
  <1> HIDE DEF c
  <1>3. size \in Nat /\ size <= MaxSize /\ MaxSize \in Nat
    BY SizeType DEF ContainerIInv
  <1>4. src \in ReadFrom /\ Readable(src, m_begin, size)
    BY SourceTypes DEF ContainerIInv
  <1>5. steps \in Seq(Steps) /\ PlanSafe(steps, m_begin, size) /\ AtEndOnly(steps)
    <2>1. CASE MaxSize - size < 1
      BY <2>1, RefusedSafe DEF IfRoom
    <2>2. CASE ~(MaxSize - size < 1)
      <3>1. size + 1 <= MaxSize /\ steps = Times(1, ConstructEnd(src))
        BY <1>3, <2>2 DEF IfRoom, Times
      <3>2. QED
        BY <1>3, <1>4, <3>1, CopiesSafe
    <2>3. QED
      BY <2>1, <2>2
  <1> HIDE DEF steps
  <1>6. QED
    BY <1>1, <1>2, <1>5, CallKeeps

LEMMA push_frontKeeps ==
    ASSUME ContainerIInv, NEW src \in Sources, push_front(src) PROVE ContainerIInv'
  <1> DEFINE steps == IfRoom(1, <<ConstructBegin(src)>>)  c == Puts("push", 0, <<src>>)
  <1>1. /\ life = "live" /\ life' = "live" /\ Begin(c, steps, NoIter) /\ kind # "vector"
    BY DEF push_front, Live
  <1>2. c # Idle
    BY DEF Puts, Idle
  <1> HIDE DEF c
  <1>3. size \in Nat /\ size <= MaxSize /\ MaxSize \in Nat
    BY SizeType DEF ContainerIInv
  <1>4. src \in ReadFrom /\ Readable(src, m_begin, size)
    BY SourceTypes DEF ContainerIInv
  <1>5. steps \in Seq(Steps) /\ PlanSafe(steps, m_begin, size)
    <2>1. CASE MaxSize - size < 1
      BY <2>1, RefusedSafe DEF IfRoom
    <2>2. CASE ~(MaxSize - size < 1)
      <3>1. size + 1 <= MaxSize /\ steps = Times(1, ConstructBegin(src))
        BY <1>3, <2>2 DEF IfRoom, Times
      <3>2. QED
        BY <1>3, <1>4, <3>1, CopiesSafe
    <2>3. QED
      BY <2>1, <2>2
  <1> HIDE DEF steps
  <1>6. QED
    BY <1>1, <1>2, <1>5, CallKeeps

LEMMA CutsKeep ==
    ASSUME ContainerIInv, pop_back \/ pop_front \/ clear PROVE ContainerIInv'
  <1>1. size \in Nat /\ size <= MaxSize /\ MaxSize \in Nat
    BY SizeType DEF ContainerIInv
  <1>2. ASSUME NEW p, NEW q PROVE Erases("pop", p, q) # Idle
    BY DEF Erases, Idle
  <1>3. CASE pop_back
    <2>1. /\ life = "live" /\ life' = "live" /\ 1 \in 0 .. size
          /\ Begin(Erases("pop", size - 1, size), <<CutEnd(1)>>, NoIter)
      BY <1>1, <1>3 DEF pop_back, Live
    <2>2. QED
      BY <1>1, <1>2, <2>1, CutSafe, CallKeeps
  <1>4. CASE pop_front
    <2>1. /\ life = "live" /\ life' = "live" /\ 1 \in 0 .. size /\ kind # "vector"
          /\ Begin(Erases("pop", 0, 1), <<CutBegin(1)>>, NoIter)
      BY <1>1, <1>4 DEF pop_front, Live
    <2>2. QED
      BY <1>1, <1>2, <2>1, CutSafe, CallKeeps
  <1>5. CASE clear
    <2>1. /\ life = "live" /\ life' = "live" /\ size \in 0 .. size
          /\ Begin(Erases("pop", 0, size), <<CutEnd(size)>>, NoIter)
      BY <1>1, <1>5 DEF clear, Live
    <2>2. QED
      BY <1>1, <1>2, <2>1, CutSafe, CallKeeps
  <1>6. QED
    BY <1>3, <1>4, <1>5

LEMMA resizeKeeps ==
    ASSUME ContainerIInv, NEW n \in 0 .. MaxSize + 1, NEW src \in Sources, resize(n, src)
    PROVE  ContainerIInv'
  <1>1. size \in Nat /\ size <= MaxSize /\ MaxSize \in Nat /\ n \in Nat
    BY SizeType DEF ContainerIInv
  <1>2. life = "live" /\ life' = "live"
    BY DEF resize, Live
  <1>3. CASE size >= n
    <2>1. Begin(Erases("pop", n, size), <<CutEnd(size - n)>>, NoIter) /\ size - n \in 0 .. size
      BY <1>1, <1>3 DEF resize, Live
    <2>2. Erases("pop", n, size) # Idle
      BY DEF Erases, Idle
    <2>3. QED
      BY <1>1, <1>2, <2>1, <2>2, CutSafe, CallKeeps
  <1>4. CASE ~(size >= n)
    <2> DEFINE steps == IF MaxSize < n THEN <<Refused>> ELSE Times(n - size, ConstructEnd(src))
               c == Puts("resize", size, Times(n - size, src))
    <2>1. Begin(c, steps, NoIter)
      BY <1>4 DEF resize, Live
    <2>2. c # Idle
      BY DEF Puts, Idle
    <2> HIDE DEF c
    <2>3. src \in ReadFrom /\ Readable(src, m_begin, size)
      BY SourceTypes DEF ContainerIInv
    <2>4. steps \in Seq(Steps) /\ PlanSafe(steps, m_begin, size) /\ AtEndOnly(steps)
      <3>1. CASE MaxSize < n
        BY <3>1, RefusedSafe
      <3>2. CASE ~(MaxSize < n)
        <4>1. /\ n - size \in Nat /\ size + (n - size) <= MaxSize
              /\ steps = Times(n - size, ConstructEnd(src))
          BY <1>1, <1>4, <3>2
        <4> HIDE DEF steps
        <4>2. QED
          BY <1>1, <2>3, <4>1, CopiesSafe
      <3>3. QED
        BY <3>1, <3>2
    <2> HIDE DEF steps
    <2>5. QED
      BY <1>2, <2>1, <2>2, <2>4, CallKeeps
  <1>5. QED
    BY <1>3, <1>4

LEMMA assignKeeps ==
    ASSUME ContainerIInv, NEW data \in Ranges \cup { Times(n, v) : n \in 0 .. MaxSize + 1,
                                                                    v \in Values },
           construct(data) \/ Live(assign(data))
    PROVE  ContainerIInv'
  <1> DEFINE steps == IF MaxSize < Len(data) THEN <<Refused>>
                      ELSE <<CutEnd(size)>>
                           \o [i \in DOMAIN data |-> ConstructEnd(Val(data[i]))]
             c == [op |-> "assign", data |-> data]
  <1>1. /\ (life = "live" /\ life' = "live") \/ (life = "none" /\ life' = "building")
        /\ Begin(c, steps, NoIter)
    BY DEF construct, Live, assign
  <1>2. c # Idle
    BY DEF Idle
  <1> HIDE DEF c
  <1>3. size \in Nat /\ size <= MaxSize /\ MaxSize \in Nat
    BY SizeType DEF ContainerIInv
  <1>4. data \in Seq(Values) /\ Len(data) \in Nat
    <2>1. ASSUME NEW n \in 0 .. MaxSize + 1, NEW v \in Values
          PROVE  Times(n, v) \in Seq(Values)
      BY <1>3 DEF Times
    <2>2. data \in Seq(Values)
      BY <2>1, ContainersAssumption
    <2>3. QED
      BY <2>2, LenProperties
  <1>5. steps \in Seq(Steps) /\ PlanSafe(steps, m_begin, size) /\ AtEndOnly(steps)
    <2>1. CASE MaxSize < Len(data)
      BY <2>1, RefusedSafe
    <2>2. CASE ~(MaxSize < Len(data))
      <3>1. Len(data) <= MaxSize
        BY <1>3, <1>4, <2>2
      <3>2. QED
        BY <1>3, <1>4, <2>2, <3>1, AssignsSafe
    <2>3. QED
      BY <2>1, <2>2
  <1> HIDE DEF steps
  <1>6. QED
    BY <1>1, <1>2, <1>5, CallKeeps

LEMMA insertKeeps ==
    ASSUME ContainerIInv, NEW p \in 0 .. size, NEW src, Given(src), insert(p, src)
    PROVE  ContainerIInv'
  <1> DEFINE pos == begin_plus(p)
             steps == IfRoom(Len(src), IF MovesEndSide(pos) THEN InsertAtEndSide(pos, src)
                                       ELSE InsertAtBeginSide(pos, src))
             c == Puts("insert", p, src)
             it == IF MovesEndSide(pos) THEN pos ELSE plus(pos, -Len(src))
  <1>1. life = "live" /\ life' = "live" /\ Begin(c, steps, it)
    BY DEF insert, Live
  <1>2. c # Idle
    BY DEF Puts, Idle
  <1> HIDE DEF c, it
  <1>3. ContainerTypeOK /\ size \in Nat /\ size <= MaxSize /\ MaxSize \in Nat /\ p \in Nat
    BY SizeType DEF ContainerIInv
  <1>4. pos = next_idx(m_begin, p)
    BY <1>3, BeginPlus
  <1>5. Len(src) \in Nat
    BY LenProperties DEF Given
  <1> HIDE DEF pos
  <1>6. CASE MaxSize - size < Len(src)
    <2>1. steps = <<Refused>>
      BY <1>6 DEF IfRoom
    <2> HIDE DEF steps
    <2>2. QED
      BY <1>1, <1>2, <2>1, RefusedSafe, CallKeeps
  <1>7. CASE ~(MaxSize - size < Len(src)) /\ MovesEndSide(pos)
    <2>1. steps = InsertAtEndSide(next_idx(m_begin, p), src) /\ size + Len(src) <= MaxSize
      BY <1>3, <1>4, <1>5, <1>7 DEF IfRoom
    <2> HIDE DEF steps
    <2>2. steps \in Seq(Steps) /\ PlanSafe(steps, m_begin, size) /\ AtEndOnly(steps)
      BY <1>3, <2>1, InsertsAtEndSide
    <2>3. QED
      BY <1>1, <1>2, <2>2, CallKeeps
  <1>8. CASE ~(MaxSize - size < Len(src)) /\ ~MovesEndSide(pos)
    <2>1. steps = InsertAtBeginSide(next_idx(m_begin, p), src) /\ size + Len(src) <= MaxSize
      BY <1>3, <1>4, <1>5, <1>8 DEF IfRoom
    <2> HIDE DEF steps
    <2>2. steps \in Seq(Steps) /\ PlanSafe(steps, m_begin, size)
      BY <1>3, <2>1, InsertsAtBeginSide
    <2>3. kind # "vector"
      BY <1>8 DEF MovesEndSide
    <2>4. QED
      BY <1>1, <1>2, <2>2, <2>3, CallKeeps
  <1>9. QED
    BY <1>6, <1>7, <1>8

LEMMA eraseKeeps ==
    ASSUME ContainerIInv, NEW p \in 0 .. size - 1, NEW q \in 1 .. size, p < q, erase(p, q)
    PROVE  ContainerIInv'
  <1> DEFINE first == begin_plus(p)  last == begin_plus(q)  c == Erases("erase", p, q)
  <1>1. life = "live" /\ life' = "live"
    BY DEF erase, Live
  <1>2. c # Idle
    BY DEF Erases, Idle
  <1>3. ContainerTypeOK /\ size \in Nat /\ size <= MaxSize /\ p \in Nat /\ q \in Nat
    BY SizeType DEF ContainerIInv
  <1>4. first = next_idx(m_begin, p) /\ last = next_idx(m_begin, q)
    BY <1>3, BeginPlus
  <1>5. /\ ErasesEndSide(first, last) => Begin(c, EraseAtEndSide(first, last), first)
        /\ ~ErasesEndSide(first, last) => Begin(c, EraseAtBeginSide(first, last), last)
    BY DEF erase, Live
  <1> HIDE DEF c, first, last
  <1>6. CASE ErasesEndSide(first, last)
    <2> DEFINE steps == EraseAtEndSide(first, last)
    <2>1. steps \in Seq(Steps) /\ PlanSafe(steps, m_begin, size) /\ AtEndOnly(steps)
      BY <1>3, <1>4, ErasesAtEndSide
    <2>2. Begin(c, steps, first)
      BY <1>5, <1>6
    <2> HIDE DEF steps
    <2>3. QED
      BY <1>1, <1>2, <2>1, <2>2, CallKeeps
  <1>7. CASE ~ErasesEndSide(first, last)
    <2> DEFINE steps == EraseAtBeginSide(first, last)
    <2>1. steps \in Seq(Steps) /\ PlanSafe(steps, m_begin, size)
      BY <1>3, <1>4, ErasesAtBeginSide
    <2>2. Begin(c, steps, last) /\ kind # "vector"
      BY <1>5, <1>7 DEF ErasesEndSide
    <2> HIDE DEF steps
    <2>3. QED
      BY <1>1, <1>2, <2>1, <2>2, CallKeeps
  <1>8. QED
    BY <1>6, <1>7

\* What the calls that insert are given.
LEMMA CopiesGiven ==
    ASSUME ContainerTypeOK, NEW n \in Nat, NEW src \in Sources
    PROVE  Given(Times(n, src))
  <1>1. src \in ReadFrom /\ Readable(src, m_begin, size)
    BY SourceTypes
  <1>2. /\ Times(n, src) \in Seq(ReadFrom) /\ Len(Times(n, src)) = n
        /\ \A i \in 1 .. n : Times(n, src)[i] = src
    BY <1>1 DEF Times
  <1>3. QED
    BY <1>1, <1>2 DEF Given

LEMMA RangeGiven ==
    ASSUME NEW data \in Seq(Values)
    PROVE  Given([i \in DOMAIN data |-> Val(data[i])])
  <1> DEFINE src == [i \in DOMAIN data |-> Val(data[i])]
  <1>1. /\ Len(data) \in Nat /\ DOMAIN data = 1 .. Len(data)
        /\ \A i \in 1 .. Len(data) : data[i] \in Values
    BY LenProperties, ElementOfSeq
  <1>2. ASSUME NEW i \in 1 .. Len(data)
        PROVE  src[i] \in ReadFrom /\ Readable(src[i], m_begin, size)
    <2>1. data[i] \in Values /\ src[i] = Val(data[i])
      BY <1>1
    <2> HIDE DEF src
    <2>2. QED
      BY <2>1, ValueSource
  <1>3. src = [i \in 1 .. Len(data) |-> src[i]]
    BY <1>1
  <1> HIDE DEF src
  <1>4. src \in Seq(ReadFrom) /\ Len(src) = Len(data)
    BY <1>1, <1>2, <1>3
  <1>5. QED
    BY <1>2, <1>4 DEF Given, src

LEMMA VectorCallsKeep ==
    ASSUME ContainerIInv, VectorCalls PROVE ContainerIInv'
  <1>1. ContainerTypeOK /\ size \in Nat /\ size <= MaxSize /\ MaxSize \in Nat
    BY SizeType DEF ContainerIInv
  <1>2. CASE \E data \in Ranges \cup { Times(n, v) : n \in 0 .. MaxSize + 1, v \in Values } :
                construct(data) \/ Live(assign(data))
    BY <1>2, assignKeeps
  <1>3. CASE \E src \in Sources : push_back(src)
    BY <1>3, push_backKeeps
  <1>4. CASE pop_back \/ clear
    BY <1>4, CutsKeep
  <1>5. CASE \E n \in 0 .. MaxSize + 1, src \in Sources : resize(n, src)
    BY <1>5, resizeKeeps
  <1>6. CASE \E p \in 0 .. size :
        \/ \E n \in 0 .. MaxSize - size + 1, src \in Sources : insert(p, Times(n, src))
        \/ \E data \in Ranges : insert(p, [i \in DOMAIN data |-> Val(data[i])])
    <2>1. PICK p \in 0 .. size :
        \/ \E n \in 0 .. MaxSize - size + 1, src \in Sources : insert(p, Times(n, src))
        \/ \E data \in Ranges : insert(p, [i \in DOMAIN data |-> Val(data[i])])
      BY <1>6
    <2>2. CASE \E n \in 0 .. MaxSize - size + 1, src \in Sources : insert(p, Times(n, src))
      <3>1. PICK n \in 0 .. MaxSize - size + 1, src \in Sources : insert(p, Times(n, src))
        BY <2>2
      <3>2. n \in Nat
        BY <1>1
      <3>3. Given(Times(n, src))
        BY <1>1, <3>2, CopiesGiven
      <3>4. QED
        BY <3>1, <3>3, insertKeeps
    <2>3. CASE \E data \in Ranges : insert(p, [i \in DOMAIN data |-> Val(data[i])])
      <3>1. PICK data \in Ranges : insert(p, [i \in DOMAIN data |-> Val(data[i])])
        BY <2>3
      <3>2. Given([i \in DOMAIN data |-> Val(data[i])])
        BY RangeGiven, ContainersAssumption
      <3>3. QED
        BY <3>1, <3>2, insertKeeps
    <2>4. QED
      BY <2>1, <2>2, <2>3
  <1>7. CASE \E p \in 0 .. size - 1, q \in 1 .. size : p < q /\ erase(p, q)
    BY <1>7, eraseKeeps
  <1>8. QED
    BY <1>2, <1>3, <1>4, <1>5, <1>6, <1>7 DEF VectorCalls

-----------------------------------------------------------------------------
(* The life of a container.                                                *)

\* When no call is in progress nothing is left to be done.
LEMMA NothingToDo ==
    ASSUME NEW b, NEW k \in Nat, k <= MaxSize
    PROVE  PlanSafe(<<>>, b, k) /\ AtEndOnly(<<>>) /\ <<>> \in Seq(Steps)
  <1> DEFINE none == <<>>
  <1>1. none \in Seq(Steps) /\ Len(none) = 0
    OBVIOUS
  <1>2. Constructs(none, "construct_end", b, k)
    BY DEF Constructs
  <1>3. k + Len(none) <= MaxSize
    BY <1>1
  <1> HIDE DEF none
  <1>4. PlanSafe(none, b, k) /\ AtEndOnly(none)
    BY <1>1, <1>2, <1>3, ConstructsSafe
  <1>5. QED
    BY <1>1, <1>4 DEF none

LEMMA EmptySlots ==
    /\ 0 \in Slots /\ distance_idx(0, 0) = 0 /\ MaxSize \in Nat
    /\ \A i \in Slots : distance_idx(0, i) = i /\ ~(i < 0)
  BY ContainersAssumption DEF Slots, distance_idx

LEMMA InitKeeps == Init => ContainerIInv
  <1> SUFFICES ASSUME Init PROVE ContainerIInv
    OBVIOUS
  <1>1. m_begin = 0 /\ m_end = 0 /\ size = 0 /\ todo = <<>> /\ call = Idle
    BY EmptySlots DEF Init, size
  <1>2. PlanSafe(<<>>, m_begin, size) /\ AtEndOnly(<<>>) /\ <<>> \in Seq(Steps)
    BY <1>1, EmptySlots, NothingToDo
  <1>3. ContainerTypeOK
    BY <1>1, <1>2, EmptySlots DEF Init, ContainerTypeOK
  <1>4. LiveSlots
    BY <1>1, EmptySlots DEF Init, LiveSlots
  <1>5. QED
    BY <1>1, <1>2, <1>3, <1>4 DEF ContainerIInv

LEMMA createKeeps ==
    ASSUME ContainerIInv, create PROVE ContainerIInv'
  <1>1. /\ life' = "live" /\ m_begin' = 0 /\ m_end' = 0 /\ kind' = kind
        /\ todo' = todo /\ call' = call /\ call = Idle /\ life \in {"none", "failed"}
        /\ slots' = IF life = "failed" THEN [i \in Slots |-> Raw] ELSE slots
    BY DEF create
  <1>2. ContainerTypeOK /\ LiveSlots /\ todo = <<>>
    BY <1>1 DEF ContainerIInv, ContainerTypeOK
  <1>3. size' = 0
    BY <1>1, EmptySlots DEF size
  <1>4. PlanSafe(<<>>, 0, 0) /\ AtEndOnly(<<>>) /\ <<>> \in Seq(Steps)
    BY EmptySlots, NothingToDo
  <1>5. ContainerTypeOK'
    BY <1>1, <1>2, <1>4, EmptySlots DEF ContainerTypeOK
  <1>6. ASSUME NEW i \in Slots PROVE slots'[i] = Raw
    <2>1. CASE life = "failed"
      BY <1>1, <2>1
    <2>2. CASE life = "none"
      <3>1. m_begin = 0 /\ m_end = 0
        BY <1>2, <2>2 DEF ContainerTypeOK
      <3>2. size = 0
        BY <3>1, EmptySlots DEF size
      <3>3. QED
        BY <1>1, <1>2, <2>2, <3>1, <3>2, EmptySlots DEF LiveSlots
    <2>3. QED
      BY <1>1, <2>1, <2>2
  <1>7. LiveSlots'
    BY <1>1, <1>3, <1>6, EmptySlots DEF LiveSlots
  <1>8. QED
    BY <1>1, <1>2, <1>3, <1>4, <1>5, <1>7 DEF ContainerIInv

LEMMA destroyKeeps ==
    ASSUME ContainerIInv, destroy PROVE ContainerIInv'
  <1>1. /\ life' = "none" /\ m_begin' = 0 /\ m_end' = 0 /\ kind' = kind
        /\ todo' = todo /\ call' = call /\ call = Idle /\ life = "live"
        /\ slots' = [i \in Slots |->
                        IF distance_idx(m_begin, i) < size THEN Raw ELSE slots[i]]
    BY DEF destroy
  <1>2. ContainerTypeOK /\ LiveSlots /\ todo = <<>>
    BY <1>1 DEF ContainerIInv, ContainerTypeOK
  <1>3. size' = 0
    BY <1>1, EmptySlots DEF size
  <1>4. PlanSafe(<<>>, 0, 0) /\ AtEndOnly(<<>>) /\ <<>> \in Seq(Steps)
    BY EmptySlots, NothingToDo
  <1>5. slots' \in [Slots -> Values \cup {Raw}]
    BY <1>1, <1>2 DEF ContainerTypeOK
  <1>6. ContainerTypeOK'
    BY <1>1, <1>2, <1>4, <1>5, EmptySlots DEF ContainerTypeOK
  <1>7. ASSUME NEW i \in Slots PROVE slots'[i] = Raw
    BY <1>1, <1>2 DEF LiveSlots
  <1>8. LiveSlots'
    BY <1>1, <1>3, <1>7, EmptySlots DEF LiveSlots
  <1>9. QED
    BY <1>1, <1>2, <1>3, <1>4, <1>6, <1>8 DEF ContainerIInv

LEMMA StepKeeps ==
    ASSUME ContainerIInv, Step PROVE ContainerIInv'
  <1>1. Head(todo).do \in {"construct_end", "construct_begin", "assign", "cut_end", "cut_begin"}
    BY DEF Step
  <1>2. QED
    BY <1>1, ConstructEndKeeps, ConstructBeginKeeps, AssignKeeps, CutEndKeeps, CutBeginKeeps

\* However a call ends, by a return or by an exception.
LEMMA EndKeeps ==
    ASSUME ContainerIInv, call # Idle, NEW how, NEW it, NEW alive \in {"live", "failed"},
           End(how, it, alive)
    PROVE  ContainerIInv'
  <1>1. /\ life' = (IF life = "building" THEN alive ELSE life)
        /\ call' = Idle /\ todo' = <<>>
        /\ kind' = kind /\ slots' = slots /\ m_begin' = m_begin /\ m_end' = m_end
    BY DEF End
  <1>2. ContainerTypeOK /\ LiveSlots /\ life \in {"building", "live"}
    BY DEF ContainerIInv, ContainerTypeOK
  <1>3. size' = size
    BY <1>1 DEF size
  <1>4. PlanSafe(<<>>, m_begin, size) /\ AtEndOnly(<<>>) /\ <<>> \in Seq(Steps)
    BY <1>2, SizeType, NothingToDo
  <1>5. life' \in {"live", "failed"}
    BY <1>1, <1>2
  <1>6. ContainerTypeOK'
    BY <1>1, <1>2, <1>4, <1>5 DEF ContainerTypeOK
  <1>7. LiveSlots'
    BY <1>1, <1>2, <1>3 DEF LiveSlots
  <1>8. QED
    BY <1>1, <1>3, <1>4, <1>6, <1>7 DEF ContainerIInv

LEMMA EndsKeep ==
    ASSUME ContainerIInv, Return \/ Refuse \/ Throw PROVE ContainerIInv'
  <1>1. call = Idle => todo = <<>>
    BY DEF ContainerIInv, ContainerTypeOK
  <1>2. CASE Return
    BY <1>2, EndKeeps DEF Return
  <1>3. CASE Refuse
    <2>1. call # Idle
      BY <1>1, <1>3 DEF Refuse
    <2>2. QED
      BY <1>3, <2>1, EndKeeps DEF Refuse
  <1>4. CASE Throw
    <2>1. call # Idle
      BY <1>1, <1>4 DEF Throw
    <2>2. QED
      BY <1>4, <2>1, EndKeeps DEF Throw
  <1>5. QED
    BY <1>2, <1>3, <1>4

LEMMA IdleKeeps ==
    ASSUME ContainerIInv, Forget \/ UNCHANGED vars PROVE ContainerIInv'
  <1>1. UNCHANGED <<kind, life, slots, m_begin, m_end, todo, call>>
    BY DEF Forget, vars
  <1>2. size' = size
    BY <1>1 DEF size
  <1>3. QED
    BY <1>1, <1>2 DEF ContainerIInv, ContainerTypeOK, LiveSlots

\* The containers of any capacity, with elements of any values, have their types,
\* their memory as LiveSlots says, and only safe things left to do.
THEOREM ContainerInvariance == Spec => []ContainerIInv
  <1>1. Init => ContainerIInv
    BY InitKeeps
  <1>2. ASSUME ContainerIInv, [Next]_vars PROVE ContainerIInv'
    <2>1. CASE create \/ destroy
      BY <1>2, <2>1, createKeeps, destroyKeeps
    <2>2. CASE VectorCalls
      BY <1>2, <2>2, VectorCallsKeep
    <2>3. CASE pop_front
      BY <1>2, <2>3, CutsKeep
    <2>4. CASE \E src \in Sources : push_front(src)
      BY <1>2, <2>4, push_frontKeeps
    <2>5. CASE Step
      BY <1>2, <2>5, StepKeeps
    <2>6. CASE Return \/ Refuse \/ Throw
      BY <1>2, <2>6, EndsKeep
    <2>7. CASE Forget \/ UNCHANGED vars
      BY <1>2, <2>7, IdleKeeps
    <2>8. QED
      BY <1>2, <2>1, <2>2, <2>3, <2>4, <2>5, <2>6, <2>7 DEF Next
  <1>3. QED
    BY <1>1, <1>2, PTL DEF Spec

\* Whatever the capacity, wherever the indices wrap and whichever copy throws, no call
\* constructs an element over another, assigns to or reads one that is not there, cuts
\* more than there is, or uses the spare slot; and the memory of the container holds
\* elements exactly from m_begin to m_end.
THEOREM SlotsAreSafe == Spec => []SlotsSafe
  BY ContainerInvariance, SafeElements, PTL

-----------------------------------------------------------------------------
(* The rings of lists: position 0 and that behind the last are the         *)
(* terminator.                                                             *)

Node(c, t, i) == IF i \in 1 .. Len(c[t]) THEN c[t][i] ELSE t
Once(L, c) ==
    \A t, u \in L : \A i \in 1 .. Len(c[t]), j \in 1 .. Len(c[u]) :
        c[t][i] = c[u][j] => t = u /\ i = j
Rings(L, c) == c \in [L -> Seq(Nodes)] /\ Once(L, c)
Tied(l, L, c) ==
    \A t \in L : \A i \in 0 .. Len(c[t]) :
        l.next[Node(c, t, i)] = Node(c, t, i + 1) /\ l.prev[Node(c, t, i + 1)] = Node(c, t, i)
LinkTypes(l) ==
    /\ l.next \in [ListNodes -> ListNodes \cup {"null"}]
    /\ l.prev \in [ListNodes -> ListNodes \cup {"null"}]

LEMMA RingTypes ==
    ASSUME NEW L, L \subseteq Lists \cup {Tmp}, NEW c, Rings(L, c), NEW t \in L
    PROVE  /\ c[t] \in Seq(Nodes) /\ Len(c[t]) \in Nat
           /\ \A i \in 1 .. Len(c[t]) : c[t][i] \in Nodes
           /\ \A i \in Nat : Node(c, t, i) \in ListNodes
           /\ t \in ListNodes /\ t \notin Nodes
  <1>1. c[t] \in Seq(Nodes)
    BY DEF Rings
  <1>2. Len(c[t]) \in Nat /\ \A i \in 1 .. Len(c[t]) : c[t][i] \in Nodes
    BY <1>1, LenProperties, ElementOfSeq
  <1>3. t \in ListNodes /\ t \notin Nodes
    BY ListAssumption DEF ListNodes
  <1>4. QED
    BY <1>1, <1>2, <1>3 DEF Node, ListNodes

LEMMA NodeIs ==
    ASSUME NEW c, NEW t, Len(c[t]) \in Nat, NEW m \in Nat
    PROVE  /\ 0 < m /\ m <= Len(c[t]) => m \in 1 .. Len(c[t]) /\ Node(c, t, m) = c[t][m]
           /\ m = 0 \/ Len(c[t]) < m => Node(c, t, m) = t
  BY DEF Node

LEMMA NodeOnce ==
    ASSUME NEW L, L \subseteq Lists \cup {Tmp}, NEW c, Rings(L, c), NEW t \in L, NEW u \in L,
           NEW i \in Nat, NEW j \in Nat, Node(c, t, i) = Node(c, u, j),
           \/ i <= Len(c[t]) /\ j <= Len(c[u])
           \/ i \in 1 .. Len(c[t]) + 1 /\ j \in 1 .. Len(c[u]) + 1
    PROVE  t = u /\ i = j
  <1>1. /\ Len(c[t]) \in Nat /\ Len(c[u]) \in Nat
        /\ \A k \in 1 .. Len(c[t]) : c[t][k] \in Nodes
        /\ \A k \in 1 .. Len(c[u]) : c[u][k] \in Nodes
        /\ t \notin Nodes /\ u \notin Nodes
    BY RingTypes
  <1>2. CASE i \in 1 .. Len(c[t]) /\ j \in 1 .. Len(c[u])
    <2>1. c[t][i] = c[u][j]
      BY <1>2 DEF Node
    <2>2. QED
      BY <1>2, <2>1 DEF Rings, Once
  <1>3. CASE i \notin 1 .. Len(c[t]) /\ j \notin 1 .. Len(c[u])
    <2>1. t = u
      BY <1>3 DEF Node
    <2>2. i = j
      BY <1>1, <1>3, <2>1
    <2>3. QED
      BY <2>1, <2>2
  <1>4. CASE i \in 1 .. Len(c[t]) /\ j \notin 1 .. Len(c[u])
    BY <1>1, <1>4 DEF Node
  <1>5. CASE i \notin 1 .. Len(c[t]) /\ j \in 1 .. Len(c[u])
    BY <1>1, <1>5 DEF Node
  <1>6. QED
    BY <1>2, <1>3, <1>4, <1>5

\* Two neighbours of d that are still the neighbours k and k + 1 of v, as in c.
Still(c, v, k, d, u, m) ==
    v \in DOMAIN c /\ k \in 0 .. Len(c[v])
    /\ Node(d, u, m) = Node(c, v, k) /\ Node(d, u, m + 1) = Node(c, v, k + 1)

\* The neighbours of d are those of c, but for three that were parted and met others.
Retied(L, c, d, t, p, x, i, j) ==
    \A u \in L : \A m \in 0 .. Len(d[u]) :
        \/ \E v \in L, k \in Nat : /\ Still(c, v, k, d, u, m)
                                   /\ v = t => k # p - 1
                                   /\ v = x => k # i - 1 /\ k # j - 1
        \/ Node(d, u, m) = Node(c, t, p - 1) /\ Node(d, u, m + 1) = Node(c, x, i)
        \/ Node(d, u, m) = Node(c, x, i - 1) /\ Node(d, u, m + 1) = Node(c, x, j)
        \/ Node(d, u, m) = Node(c, x, j - 1) /\ Node(d, u, m + 1) = Node(c, t, p)

LEMMA SplicedTied ==
    ASSUME NEW L, L \subseteq Lists \cup {Tmp}, NEW c, Rings(L, c), NEW d,
           NEW l, LinkTypes(l), Tied(l, L, c), NEW t \in L, NEW x \in L,
           NEW p \in 1 .. Len(c[t]) + 1, NEW i \in 1 .. Len(c[x]),
           NEW j \in i + 1 .. Len(c[x]) + 1, t = x => p \notin i .. j,
           Retied(L, c, d, t, p, x, i, j)
    PROVE  LET n == Spliced(l, Node(c, t, p), Node(c, x, i), Node(c, x, j))
           IN  LinkTypes(n) /\ Tied(n, L, d)
  <1> DEFINE P == Node(c, t, p)  I == Node(c, x, i)  J == Node(c, x, j)
             PP == Node(c, t, p - 1)  II == Node(c, x, i - 1)  JJ == Node(c, x, j - 1)
             n == Spliced(l, P, I, J)
  <1>1. /\ Len(c[t]) \in Nat /\ Len(c[x]) \in Nat
        /\ i \in Nat /\ i - 1 \in Nat /\ j \in Nat /\ j - 1 \in Nat /\ p \in Nat /\ p - 1 \in Nat
        /\ i < j /\ i <= Len(c[x]) /\ p - 1 <= Len(c[t]) /\ j - 1 <= Len(c[x])
        /\ p - 1 + 1 = p /\ i - 1 + 1 = i /\ j - 1 + 1 = j
    <2>1. Len(c[t]) \in Nat /\ Len(c[x]) \in Nat
      BY RingTypes
    <2>2. QED
      BY <2>1
  <1>2. /\ P \in ListNodes /\ I \in ListNodes /\ J \in ListNodes
        /\ PP \in ListNodes /\ II \in ListNodes /\ JJ \in ListNodes
    BY <1>1, RingTypes
  <1>3. l.prev[P] = PP /\ l.prev[I] = II /\ l.prev[J] = JJ
    <2>1. p - 1 \in 0 .. Len(c[t]) /\ i - 1 \in 0 .. Len(c[x]) /\ j - 1 \in 0 .. Len(c[x])
      BY <1>1
    <2>2. /\ l.prev[Node(c, t, p - 1 + 1)] = PP
          /\ l.prev[Node(c, x, i - 1 + 1)] = II /\ l.prev[Node(c, x, j - 1 + 1)] = JJ
      BY <2>1 DEF Tied
    <2>3. QED
      BY <1>1, <2>2
  <1>4. P # I /\ P # J /\ I # J
    <2>1. ASSUME P = I PROVE FALSE
      <3>1. t = x /\ p = i
        BY <1>1, <2>1, NodeOnce
      <3>2. QED
        BY <1>1, <3>1
    <2>2. ASSUME P = J PROVE FALSE
      <3>1. t = x /\ p = j
        BY <1>1, <2>2, NodeOnce
      <3>2. QED
        BY <1>1, <3>1
    <2>3. ASSUME I = J PROVE FALSE
      <3>1. i = j
        BY <1>1, <2>3, NodeOnce
      <3>2. QED
        BY <1>1, <3>1
    <2>4. QED
      BY <2>1, <2>2, <2>3
  <1>5. PP # II /\ PP # JJ /\ II # JJ
    <2>1. ASSUME PP = II PROVE FALSE
      <3>1. t = x /\ p - 1 = i - 1
        BY <1>1, <2>1, NodeOnce
      <3>2. QED
        BY <1>1, <3>1
    <2>2. ASSUME PP = JJ PROVE FALSE
      <3>1. t = x /\ p - 1 = j - 1
        BY <1>1, <2>2, NodeOnce
      <3>2. QED
        BY <1>1, <3>1
    <2>3. ASSUME II = JJ PROVE FALSE
      <3>1. i - 1 = j - 1
        BY <1>1, <2>3, NodeOnce
      <3>2. QED
        BY <1>1, <3>1
    <2>4. QED
      BY <2>1, <2>2, <2>3
  <1>6. ASSUME NEW v \in L, NEW k \in Nat, k <= Len(c[v]),
               v = t => k # p - 1, v = x => k # i - 1 /\ k # j - 1
        PROVE  /\ Node(c, v, k) \notin {PP, II, JJ} /\ Node(c, v, k + 1) \notin {P, I, J}
               /\ Node(c, v, k) \in ListNodes /\ Node(c, v, k + 1) \in ListNodes
               /\ l.next[Node(c, v, k)] = Node(c, v, k + 1)
               /\ l.prev[Node(c, v, k + 1)] = Node(c, v, k)
    <2>1. ASSUME Node(c, v, k) = PP PROVE FALSE
      <3>1. v = t /\ k = p - 1
        BY <1>1, <1>6, <2>1, NodeOnce
      <3>2. QED
        BY <1>6, <3>1
    <2>2. ASSUME Node(c, v, k) = II PROVE FALSE
      <3>1. v = x /\ k = i - 1
        BY <1>1, <1>6, <2>2, NodeOnce
      <3>2. QED
        BY <1>6, <3>1
    <2>3. ASSUME Node(c, v, k) = JJ PROVE FALSE
      <3>1. v = x /\ k = j - 1
        BY <1>1, <1>6, <2>3, NodeOnce
      <3>2. QED
        BY <1>6, <3>1
    <2>4. k + 1 \in Nat /\ k + 1 \in 1 .. Len(c[v]) + 1 /\ k \in 0 .. Len(c[v])
      BY <1>6, RingTypes
    <2>5. ASSUME Node(c, v, k + 1) = P PROVE FALSE
      <3>1. v = t /\ k + 1 = p
        BY <1>1, <2>4, <2>5, NodeOnce
      <3>2. QED
        BY <1>1, <1>6, <3>1
    <2>6. ASSUME Node(c, v, k + 1) = I PROVE FALSE
      <3>1. v = x /\ k + 1 = i
        BY <1>1, <2>4, <2>6, NodeOnce
      <3>2. QED
        BY <1>1, <1>6, <3>1
    <2>7. ASSUME Node(c, v, k + 1) = J PROVE FALSE
      <3>1. v = x /\ k + 1 = j
        BY <1>1, <2>4, <2>7, NodeOnce
      <3>2. QED
        BY <1>1, <1>6, <3>1
    <2>8. Node(c, v, k) \in ListNodes /\ Node(c, v, k + 1) \in ListNodes
      BY <2>4, RingTypes
    <2>9. QED
      BY <2>1, <2>2, <2>3, <2>4, <2>5, <2>6, <2>7, <2>8 DEF Tied
  <1> HIDE DEF P, I, J, PP, II, JJ
  <1>7. /\ n.next = [l.next EXCEPT ![JJ] = P, ![II] = J, ![PP] = I]
        /\ n.prev = [l.prev EXCEPT ![P] = JJ, ![J] = II, ![I] = PP]
    BY <1>3, <1>4 DEF Spliced
  <1> HIDE DEF n
  <1>8. /\ n.next[JJ] = P /\ n.next[II] = J /\ n.next[PP] = I
        /\ n.prev[P] = JJ /\ n.prev[J] = II /\ n.prev[I] = PP
        /\ \A a \in ListNodes \ {JJ, II, PP} : n.next[a] = l.next[a]
        /\ \A a \in ListNodes \ {P, J, I} : n.prev[a] = l.prev[a]
    BY <1>2, <1>4, <1>5, <1>7 DEF LinkTypes
  <1>9. LinkTypes(n)
    <2>1. /\ l.next \in [ListNodes -> ListNodes \cup {"null"}]
          /\ l.prev \in [ListNodes -> ListNodes \cup {"null"}]
      BY DEF LinkTypes
    <2>2. n.next \in [ListNodes -> ListNodes \cup {"null"}]
      BY <1>2, <1>7, <2>1
    <2>3. n.prev \in [ListNodes -> ListNodes \cup {"null"}]
      BY <1>2, <1>7, <2>1
    <2>4. QED
      BY <2>2, <2>3 DEF LinkTypes
  <1>10. ASSUME NEW u \in L, NEW m \in 0 .. Len(d[u])
         PROVE  /\ n.next[Node(d, u, m)] = Node(d, u, m + 1)
                /\ n.prev[Node(d, u, m + 1)] = Node(d, u, m)
    <2>1. CASE \E v \in L, k \in Nat : /\ Still(c, v, k, d, u, m)
                                       /\ v = t => k # p - 1
                                       /\ v = x => k # i - 1 /\ k # j - 1
      <3>1. PICK v \in L, k \in Nat : /\ Still(c, v, k, d, u, m)
                                      /\ v = t => k # p - 1
                                      /\ v = x => k # i - 1 /\ k # j - 1
        BY <2>1
      <3>2. /\ k <= Len(c[v])
            /\ Node(d, u, m) = Node(c, v, k) /\ Node(d, u, m + 1) = Node(c, v, k + 1)
        BY <3>1 DEF Still
      <3>3. /\ Node(c, v, k) \notin {PP, II, JJ} /\ Node(c, v, k + 1) \notin {P, I, J}
            /\ Node(c, v, k) \in ListNodes /\ Node(c, v, k + 1) \in ListNodes
            /\ l.next[Node(c, v, k)] = Node(c, v, k + 1)
            /\ l.prev[Node(c, v, k + 1)] = Node(c, v, k)
        BY <1>6, <3>1, <3>2
      <3>4. QED
        BY <1>8, <3>2, <3>3
    <2>2. CASE Node(d, u, m) = PP /\ Node(d, u, m + 1) = I
      BY <1>8, <2>2
    <2>3. CASE Node(d, u, m) = II /\ Node(d, u, m + 1) = J
      BY <1>8, <2>3
    <2>4. CASE Node(d, u, m) = JJ /\ Node(d, u, m + 1) = P
      BY <1>8, <2>4
    <2>5. QED
      BY <2>1, <2>2, <2>3, <2>4 DEF Retied, P, I, J, PP, II, JJ
  <1>11. QED
    BY <1>9, <1>10 DEF Tied, n, P, I, J

-----------------------------------------------------------------------------
(* Elements that move, from one list to another or within one.             *)

MovesTo(L, c, d, t, x, p, i, j) ==
    /\ d \in [L -> Seq(Nodes)] /\ \A u \in L \ {t, x} : d[u] = c[u]
    /\ Len(d[t]) = Len(c[t]) + (j - i) /\ Len(d[x]) = Len(c[x]) - (j - i)
    /\ \A m \in 1 .. Len(d[t]) :
            d[t][m] = IF m < p THEN c[t][m]
                      ELSE IF m < p + (j - i) THEN c[x][i + m - p] ELSE c[t][m - (j - i)]
    /\ \A m \in 1 .. Len(d[x]) : d[x][m] = IF m < i THEN c[x][m] ELSE c[x][m + (j - i)]

LEMMA MovedToAnother ==
    ASSUME NEW L, L \subseteq Lists \cup {Tmp}, NEW c, Rings(L, c),
           NEW t \in L, NEW x \in L, t # x,
           NEW p \in 1 .. Len(c[t]) + 1, NEW i \in 1 .. Len(c[x]),
           NEW j \in i + 1 .. Len(c[x]) + 1, NEW d, MovesTo(L, c, d, t, x, p, i, j)
    PROVE  Rings(L, d) /\ Retied(L, c, d, t, p, x, i, j)
  <1> DEFINE D == j - i
             W(u, m) == IF u = t /\ p <= m /\ m < p + D THEN x ELSE u
             K(u, m) == IF u = t
                        THEN IF m < p THEN m ELSE IF m < p + D THEN i + m - p ELSE m - D
                        ELSE IF u = x /\ i <= m THEN m + D ELSE m
  <1>1. /\ Len(c[t]) \in Nat /\ Len(c[x]) \in Nat
        /\ i \in Nat /\ j \in Nat /\ p \in Nat /\ D \in Nat /\ i - 1 \in Nat /\ p - 1 \in Nat
        /\ D > 0 /\ i + D = j /\ i > 0 /\ p > 0 /\ j <= Len(c[x]) + 1 /\ p <= Len(c[t]) + 1
    <2>1. Len(c[t]) \in Nat /\ Len(c[x]) \in Nat
      BY RingTypes
    <2>2. QED
      BY <2>1
  <1>2. /\ Len(d[t]) = Len(c[t]) + D /\ Len(d[x]) = Len(c[x]) - D
        /\ \A m \in 1 .. Len(d[t]) :
              d[t][m] = IF m < p THEN c[t][m]
                        ELSE IF m < p + D THEN c[x][i + m - p] ELSE c[t][m - D]
        /\ \A m \in 1 .. Len(d[x]) : d[x][m] = IF m < i THEN c[x][m] ELSE c[x][m + D]
        /\ d \in [L -> Seq(Nodes)] /\ \A u \in L \ {t, x} : d[u] = c[u]
    BY DEF MovesTo
  <1>3. DOMAIN c = L /\ \A u \in L : Len(c[u]) \in Nat /\ Len(d[u]) \in Nat
    BY <1>2, RingTypes, LenProperties DEF Rings
  <1> HIDE DEF D
  <1>4. ASSUME NEW u \in L, NEW m \in 1 .. Len(d[u])
        PROVE  W(u, m) \in L /\ K(u, m) \in 1 .. Len(c[W(u, m)]) /\ d[u][m] = c[W(u, m)][K(u, m)]
    <2>1. CASE u = t
      <3>1. m \in Nat /\ m > 0 /\ m <= Len(c[t]) + D /\ m \in 1 .. Len(d[t])
        <4>1. m \in 1 .. Len(d[t]) /\ Len(d[t]) = Len(c[t]) + D
          BY <1>2, <2>1
        <4>2. QED
          BY <1>1, <4>1
      <3>2. CASE m < p
        <4>1. W(u, m) = t /\ K(u, m) = m /\ m \in 1 .. Len(c[t])
          BY <1>1, <2>1, <3>1, <3>2
        <4>2. d[t][m] = c[t][m]
          BY <1>2, <3>1, <3>2
        <4>3. QED
          BY <2>1, <4>1, <4>2
      <3>3. CASE p <= m /\ m < p + D
        <4>1. W(u, m) = x /\ K(u, m) = i + m - p /\ i + m - p \in 1 .. Len(c[x]) /\ ~(m < p)
          BY <1>1, <2>1, <3>1, <3>3
        <4>2. d[t][m] = c[x][i + m - p]
          BY <1>2, <3>1, <3>3, <4>1
        <4>3. QED
          BY <2>1, <4>1, <4>2
      <3>4. CASE p + D <= m
        <4>1. /\ W(u, m) = t /\ K(u, m) = m - D /\ m - D \in 1 .. Len(c[t])
              /\ ~(m < p) /\ ~(m < p + D)
          BY <1>1, <2>1, <3>1, <3>4
        <4>2. d[t][m] = c[t][m - D]
          BY <1>2, <3>1, <4>1
        <4>3. QED
          BY <2>1, <4>1, <4>2
      <3>5. QED
        BY <1>1, <3>1, <3>2, <3>3, <3>4
    <2>2. CASE u = x
      <3>1. m \in Nat /\ m > 0 /\ m <= Len(c[x]) - D /\ m \in 1 .. Len(d[x])
        <4>1. m \in 1 .. Len(d[x]) /\ Len(d[x]) = Len(c[x]) - D
          BY <1>2, <2>2
        <4>2. QED
          BY <1>1, <4>1
      <3>2. W(u, m) = x /\ u # t
        BY <2>2
      <3>3. CASE m < i
        <4>1. K(u, m) = m /\ m \in 1 .. Len(c[x])
          BY <1>1, <2>2, <3>1, <3>2, <3>3
        <4>2. d[x][m] = c[x][m]
          BY <1>2, <3>1, <3>3
        <4>3. QED
          BY <2>2, <3>2, <4>1, <4>2
      <3>4. CASE i <= m
        <4>1. K(u, m) = m + D /\ m + D \in 1 .. Len(c[x]) /\ ~(m < i)
          BY <1>1, <2>2, <3>1, <3>2, <3>4
        <4>2. d[x][m] = c[x][m + D]
          BY <1>2, <3>1, <4>1
        <4>3. QED
          BY <2>2, <3>2, <4>1, <4>2
      <3>5. QED
        BY <1>1, <3>1, <3>3, <3>4
    <2>3. CASE u \notin {t, x}
      BY <1>2, <2>3
    <2>4. QED
      BY <2>1, <2>2, <2>3
  <1>5. ASSUME NEW u \in L, NEW v \in L, NEW m \in 1 .. Len(d[u]), NEW n \in 1 .. Len(d[v]),
               W(u, m) = W(v, n), K(u, m) = K(v, n)
        PROVE  u = v /\ m = n
    <2>1. m \in Nat /\ n \in Nat /\ m > 0 /\ n > 0
      BY <1>3
    <2>2. CASE u = v
      BY <1>1, <1>5, <2>1, <2>2
    <2>3. CASE u # v
      <3>1. CASE u = t
        BY <1>1, <1>5, <2>1, <2>3, <3>1
      <3>2. CASE v = t
        BY <1>1, <1>5, <2>1, <2>3, <3>2
      <3>3. CASE u # t /\ v # t
        BY <1>5, <2>3, <3>3
      <3>4. QED
        BY <3>1, <3>2, <3>3
    <2>4. QED
      BY <2>2, <2>3
  <1> HIDE DEF W, K
  <1>6. Rings(L, d)
    <2>1. ASSUME NEW u \in L, NEW v \in L, NEW m \in 1 .. Len(d[u]), NEW n \in 1 .. Len(d[v]),
                 d[u][m] = d[v][n]
          PROVE  u = v /\ m = n
      <3>1. c[W(u, m)][K(u, m)] = c[W(v, n)][K(v, n)]
        BY <1>4, <2>1
      <3>2. /\ W(u, m) \in L /\ K(u, m) \in 1 .. Len(c[W(u, m)])
            /\ W(v, n) \in L /\ K(v, n) \in 1 .. Len(c[W(v, n)])
        BY <1>4
      <3>3. W(u, m) = W(v, n) /\ K(u, m) = K(v, n)
        <4>1. Once(L, c)
          BY DEF Rings
        <4> DEFINE y == W(u, m)  z == W(v, n)  g == K(u, m)  h == K(v, n)
        <4>2. /\ y \in L /\ g \in 1 .. Len(c[y])
              /\ z \in L /\ h \in 1 .. Len(c[z]) /\ c[y][g] = c[z][h]
          BY <3>1, <3>2
        <4> HIDE DEF y, z, g, h
        <4>3. y = z /\ g = h
          BY <4>1, <4>2 DEF Once
        <4>4. QED
          BY <4>3 DEF y, z, g, h
      <3>4. QED
        BY <1>5, <3>3
    <2>2. QED
      BY <1>2, <2>1 DEF Rings, Once
  <1>7. ASSUME NEW m \in Nat
        PROVE  /\ m < p => Node(d, t, m) = Node(c, t, m)
               /\ p <= m /\ m < p + D => Node(d, t, m) = Node(c, x, i + m - p)
               /\ p + D <= m => Node(d, t, m) = Node(c, t, m - D)
               /\ m < i => Node(d, x, m) = Node(c, x, m)
               /\ i <= m => Node(d, x, m) = Node(c, x, m + D)
    <2>0. Len(d[t]) \in Nat /\ Len(d[x]) \in Nat /\ Len(d[t]) = Len(c[t]) + D
      BY <1>2, <1>3
    <2>1. ASSUME m < p PROVE Node(d, t, m) = Node(c, t, m)
      <3>1. CASE m = 0
        BY <1>1, <2>0, <3>1, NodeIs
      <3>2. CASE m > 0
        <4>1. 0 < m /\ m <= Len(d[t]) /\ m <= Len(c[t])
          BY <1>1, <2>0, <2>1, <3>2
        <4>2. m \in 1 .. Len(d[t]) /\ Node(d, t, m) = d[t][m] /\ Node(c, t, m) = c[t][m]
          BY <1>1, <2>0, <4>1, NodeIs
        <4>3. QED
          BY <1>2, <2>1, <4>2
      <3>3. QED
        BY <3>1, <3>2
    <2>2. ASSUME p <= m, m < p + D PROVE Node(d, t, m) = Node(c, x, i + m - p)
      <3>1. /\ 0 < m /\ m <= Len(d[t]) /\ i + m - p \in Nat /\ ~(m < p)
            /\ 0 < i + m - p /\ i + m - p <= Len(c[x])
        BY <1>1, <2>0, <2>2
      <3>2. m \in 1 .. Len(d[t]) /\ Node(d, t, m) = d[t][m]
        BY <2>0, <3>1, NodeIs
      <3>3. Node(c, x, i + m - p) = c[x][i + m - p]
        BY <1>1, <3>1, NodeIs
      <3>4. QED
        BY <1>2, <2>2, <3>1, <3>2, <3>3
    <2>3. ASSUME p + D <= m PROVE Node(d, t, m) = Node(c, t, m - D)
      <3>1. m - D \in Nat /\ 0 < m /\ 0 < m - D /\ ~(m < p) /\ ~(m < p + D)
        BY <1>1, <2>3
      <3>2. CASE m <= Len(d[t])
        <4>1. m - D <= Len(c[t])
          BY <1>1, <2>0, <3>2
        <4>2. m \in 1 .. Len(d[t]) /\ Node(d, t, m) = d[t][m]
          BY <2>0, <3>1, <3>2, NodeIs
        <4>3. Node(c, t, m - D) = c[t][m - D]
          BY <1>1, <3>1, <4>1, NodeIs
        <4>4. QED
          BY <1>2, <3>1, <4>2, <4>3
      <3>3. CASE Len(d[t]) < m
        <4>1. Len(c[t]) < m - D
          BY <1>1, <2>0, <3>3
        <4>2. QED
          BY <1>1, <2>0, <3>1, <3>3, <4>1, NodeIs
      <3>4. QED
        BY <2>0, <3>2, <3>3
    <2>4. ASSUME m < i PROVE Node(d, x, m) = Node(c, x, m)
      <3>1. CASE m = 0
        BY <1>1, <2>0, <3>1, NodeIs
      <3>2. CASE m > 0 /\ m <= Len(d[x])
        <4>1. 0 < m /\ m <= Len(c[x])
          BY <1>1, <2>4, <3>2
        <4>2. m \in 1 .. Len(d[x]) /\ Node(d, x, m) = d[x][m] /\ Node(c, x, m) = c[x][m]
          BY <1>1, <2>0, <3>2, <4>1, NodeIs
        <4>3. QED
          BY <1>2, <2>4, <4>2
      <3>3. CASE Len(d[x]) < m
        <4>1. FALSE
          BY <1>1, <1>2, <2>4, <3>3
        <4>2. QED
          BY <4>1
      <3>4. QED
        BY <2>0, <3>1, <3>2, <3>3
    <2>5. i <= m => Node(d, x, m) = Node(c, x, m + D)
      BY <1>1, <1>2 DEF Node
    <2>6. QED
      BY <2>1, <2>2, <2>3, <2>4, <2>5
  <1>8. ASSUME NEW u \in L, NEW m \in 0 .. Len(d[u])
        PROVE  \/ \E v \in L, k \in Nat : /\ Still(c, v, k, d, u, m)
                                          /\ v = t => k # p - 1
                                          /\ v = x => k # i - 1 /\ k # j - 1
               \/ Node(d, u, m) = Node(c, t, p - 1) /\ Node(d, u, m + 1) = Node(c, x, i)
               \/ Node(d, u, m) = Node(c, x, i - 1) /\ Node(d, u, m + 1) = Node(c, x, j)
               \/ Node(d, u, m) = Node(c, x, j - 1) /\ Node(d, u, m + 1) = Node(c, t, p)
    <2>1. m \in Nat /\ m + 1 \in Nat /\ m <= Len(d[u])
      BY <1>3
    <2>2. CASE u \notin {t, x}
      <3>1. Still(c, u, m, d, u, m)
        BY <1>2, <1>3, <2>1, <2>2 DEF Still, Node
      <3>2. QED
        BY <2>1, <2>2, <3>1
    <2>3. CASE u = t
      <3>1. CASE m + 1 < p
        <4>1. m < p /\ m \in 0 .. Len(c[t]) /\ m # p - 1
          BY <1>1, <2>1, <3>1
        <4>2. Node(d, t, m) = Node(c, t, m) /\ Node(d, t, m + 1) = Node(c, t, m + 1)
          BY <1>7, <2>1, <3>1, <4>1
        <4>3. Still(c, t, m, d, t, m)
          BY <1>3, <4>1, <4>2 DEF Still
        <4>4. QED
          BY <2>1, <2>3, <4>1, <4>3
      <3>2. CASE m + 1 = p
        <4>1. m < p /\ m = p - 1 /\ p < p + D /\ i + p - p = i
          BY <1>1, <2>1, <3>2
        <4>2. Node(d, t, m) = Node(c, t, p - 1) /\ Node(d, t, p) = Node(c, x, i)
          BY <1>1, <1>7, <2>1, <4>1
        <4>3. QED
          BY <2>3, <3>2, <4>2
      <3>3. CASE p <= m /\ m + 1 < p + D
        <4>1. /\ m < p + D /\ i + m - p \in Nat /\ i + (m + 1) - p = i + m - p + 1
              /\ i + m - p \in 0 .. Len(c[x]) /\ i + m - p # i - 1 /\ i + m - p # j - 1
          BY <1>1, <2>1, <3>3
        <4>2. Still(c, x, i + m - p, d, t, m)
          BY <1>3, <1>7, <2>1, <3>3, <4>1 DEF Still
        <4>3. QED
          BY <2>3, <4>1, <4>2
      <3>4. CASE p <= m /\ m + 1 = p + D
        <4>1. m < p + D /\ i + m - p = j - 1 /\ p + D <= m + 1 /\ m + 1 - D = p
          BY <1>1, <2>1, <3>4
        <4>2. Node(d, t, m) = Node(c, x, i + m - p)
          BY <1>7, <2>1, <3>4, <4>1
        <4>3. Node(d, t, m + 1) = Node(c, t, m + 1 - D)
          <5>1. \A n \in Nat : p + D <= n => Node(d, t, n) = Node(c, t, n - D)
            BY <1>7
          <5>2. QED
            BY <1>1, <2>1, <4>1, <5>1
        <4>4. QED
          BY <2>3, <4>1, <4>2, <4>3
      <3>5. CASE p + D <= m
        <4>1. /\ m - D \in Nat /\ m + 1 - D = m - D + 1 /\ p + D <= m + 1
              /\ m - D \in 0 .. Len(c[t]) /\ m - D # p - 1
          <5>1. m <= Len(c[t]) + D
            BY <1>2, <2>1, <2>3
          <5>2. QED
            BY <1>1, <2>1, <3>5, <5>1
        <4>2. Node(d, t, m) = Node(c, t, m - D)
          BY <1>7, <2>1, <3>5
        <4>3. Node(d, t, m + 1) = Node(c, t, m + 1 - D)
          <5>1. \A n \in Nat : p + D <= n => Node(d, t, n) = Node(c, t, n - D)
            BY <1>7
          <5>2. QED
            BY <1>1, <2>1, <4>1, <5>1
        <4>4. Still(c, t, m - D, d, t, m)
          BY <1>3, <4>1, <4>2, <4>3 DEF Still
        <4>5. QED
          BY <2>3, <4>1, <4>4
      <3>6. \/ m + 1 < p \/ m + 1 = p \/ (p <= m /\ m + 1 < p + D)
            \/ (p <= m /\ m + 1 = p + D) \/ p + D <= m
        BY <1>1, <2>1
      <3>7. QED
        BY <3>1, <3>2, <3>3, <3>4, <3>5, <3>6
    <2>4. CASE u = x
      <3>1. CASE m + 1 < i
        <4>1. m < i /\ m \in 0 .. Len(c[x]) /\ m # i - 1 /\ m # j - 1
          BY <1>1, <2>1, <3>1
        <4>2. Node(d, x, m) = Node(c, x, m) /\ Node(d, x, m + 1) = Node(c, x, m + 1)
          BY <1>7, <2>1, <3>1, <4>1
        <4>3. Still(c, x, m, d, x, m)
          BY <1>3, <4>1, <4>2 DEF Still
        <4>4. QED
          BY <2>1, <2>4, <4>1, <4>3
      <3>2. CASE m + 1 = i
        <4>1. m < i /\ m = i - 1
          BY <1>1, <2>1, <3>2
        <4>2. Node(d, x, m) = Node(c, x, i - 1) /\ Node(d, x, i) = Node(c, x, j)
          <5>1. Node(d, x, m) = Node(c, x, m)
            BY <1>7, <2>1, <4>1
          <5>2. Node(d, x, i) = Node(c, x, i + D)
            BY <1>1, <1>7
          <5>3. QED
            BY <1>1, <4>1, <5>1, <5>2
        <4>3. QED
          BY <2>4, <3>2, <4>2
      <3>3. CASE i <= m
        <4>1. /\ m + D \in Nat /\ m + 1 + D = m + D + 1 /\ i <= m + 1
              /\ m + D \in 0 .. Len(c[x]) /\ m + D # i - 1 /\ m + D # j - 1
          <5>1. m <= Len(c[x]) - D
            BY <1>2, <2>1, <2>4
          <5>2. QED
            BY <1>1, <2>1, <3>3, <5>1
        <4>2. Still(c, x, m + D, d, x, m)
          BY <1>3, <1>7, <2>1, <3>3, <4>1 DEF Still
        <4>3. QED
          BY <2>4, <4>1, <4>2
      <3>4. QED
        BY <1>1, <2>1, <3>1, <3>2, <3>3
    <2>5. QED
      BY <2>2, <2>3, <2>4
  <1>9. QED
    BY <1>6, <1>8 DEF Retied

\* Within a list the elements b to e - 1 change places with those from a to b - 1.
MovesWithin(L, c, d, t, a, b, e) ==
    /\ d \in [L -> Seq(Nodes)] /\ \A u \in L \ {t} : d[u] = c[u]
    /\ Len(d[t]) = Len(c[t])
    /\ \A m \in 1 .. Len(d[t]) :
            d[t][m] = IF m < a THEN c[t][m]
                      ELSE IF m < a + (e - b) THEN c[t][b + m - a]
                      ELSE IF m < e THEN c[t][m - (e - b)] ELSE c[t][m]

LEMMA MovedWithin ==
    ASSUME NEW L, L \subseteq Lists \cup {Tmp}, NEW c, Rings(L, c), NEW t \in L,
           NEW a \in 1 .. Len(c[t]), NEW b \in a + 1 .. Len(c[t]),
           NEW e \in b + 1 .. Len(c[t]) + 1, NEW d, MovesWithin(L, c, d, t, a, b, e)
    PROVE  /\ Rings(L, d)
           /\ Retied(L, c, d, t, a, t, b, e) /\ Retied(L, c, d, t, e, t, a, b)
  <1> DEFINE D == e - b
             K(m) == IF m < a THEN m ELSE IF m < a + D THEN b + m - a
                     ELSE IF m < e THEN m - D ELSE m
  <1>1. /\ Len(c[t]) \in Nat /\ a \in Nat /\ b \in Nat /\ e \in Nat /\ D \in Nat
        /\ a > 0 /\ a < b /\ b < e /\ b + D = e /\ e <= Len(c[t]) + 1 /\ D > 0
    <2>1. Len(c[t]) \in Nat
      BY RingTypes
    <2>2. QED
      BY <2>1
  <1>2. /\ DOMAIN c = L /\ \A u \in L : Len(c[u]) \in Nat /\ Len(d[u]) = Len(c[u])
        /\ d \in [L -> Seq(Nodes)] /\ \A u \in L \ {t} : d[u] = c[u]
    BY RingTypes DEF Rings, MovesWithin
  <1>3. \A m \in 1 .. Len(c[t]) : d[t][m] = c[t][K(m)] /\ K(m) \in 1 .. Len(c[t])
    <2>1. \A m \in 1 .. Len(c[t]) : d[t][m] = c[t][K(m)]
      BY <1>2 DEF MovesWithin
    <2> HIDE DEF D
    <2>2. \A m \in 1 .. Len(c[t]) : K(m) \in 1 .. Len(c[t])
      BY <1>1
    <2>3. QED
      BY <2>1, <2>2
  <1> HIDE DEF D
  <1>4. \A m \in 1 .. Len(c[t]), n \in 1 .. Len(c[t]) : K(m) = K(n) => m = n
    BY <1>1
  <1>5. ASSUME NEW m \in Nat
        PROVE  /\ m < a => Node(d, t, m) = Node(c, t, m)
               /\ a <= m /\ m < a + D => Node(d, t, m) = Node(c, t, b + m - a)
               /\ a + D <= m /\ m < e => Node(d, t, m) = Node(c, t, m - D)
               /\ e <= m => Node(d, t, m) = Node(c, t, m)
    BY <1>1, <1>2, <1>3 DEF Node
  <1> HIDE DEF K
  <1>6. Rings(L, d)
    <2>1. ASSUME NEW u \in L, NEW v \in L, NEW m \in 1 .. Len(d[u]), NEW n \in 1 .. Len(d[v]),
                 d[u][m] = d[v][n]
          PROVE  u = v /\ m = n
      <3>1. CASE u = t /\ v = t
        <4>1. m \in 1 .. Len(c[t]) /\ n \in 1 .. Len(c[t])
          BY <1>2, <3>1
        <4>2. /\ c[t][K(m)] = c[t][K(n)]
              /\ K(m) \in 1 .. Len(c[t]) /\ K(n) \in 1 .. Len(c[t])
          BY <1>3, <2>1, <3>1, <4>1
        <4>3. K(m) = K(n)
          BY <4>2 DEF Rings, Once
        <4>4. QED
          BY <1>4, <3>1, <4>1, <4>3
      <3>2. CASE u = t /\ v # t
        <4>1. /\ m \in 1 .. Len(c[t]) /\ n \in 1 .. Len(c[v]) /\ d[v] = c[v]
              /\ K(m) \in 1 .. Len(c[t]) /\ d[t][m] = c[t][K(m)]
          BY <1>2, <1>3, <3>2
        <4>2. QED
          BY <2>1, <3>2, <4>1 DEF Rings, Once
      <3>3. CASE u # t /\ v = t
        <4>1. /\ n \in 1 .. Len(c[t]) /\ m \in 1 .. Len(c[u]) /\ d[u] = c[u]
              /\ K(n) \in 1 .. Len(c[t]) /\ d[t][n] = c[t][K(n)]
          BY <1>2, <1>3, <3>3
        <4>2. QED
          BY <2>1, <3>3, <4>1 DEF Rings, Once
      <3>4. CASE u # t /\ v # t
        BY <1>2, <2>1, <3>4 DEF Rings, Once
      <3>5. QED
        BY <3>1, <3>2, <3>3, <3>4
    <2>2. QED
      BY <1>2, <2>1 DEF Rings, Once
  <1>7. ASSUME NEW u \in L, NEW m \in 0 .. Len(d[u])
        PROVE  \/ \E v \in L, k \in Nat : /\ Still(c, v, k, d, u, m)
                                          /\ v = t => k \notin {a - 1, b - 1, e - 1}
               \/ Node(d, u, m) = Node(c, t, a - 1) /\ Node(d, u, m + 1) = Node(c, t, b)
               \/ Node(d, u, m) = Node(c, t, e - 1) /\ Node(d, u, m + 1) = Node(c, t, a)
               \/ Node(d, u, m) = Node(c, t, b - 1) /\ Node(d, u, m + 1) = Node(c, t, e)
    <2>1. m \in Nat /\ m + 1 \in Nat /\ m <= Len(c[u])
      BY <1>2
    <2>2. CASE u # t
      <3>1. Still(c, u, m, d, u, m)
        BY <1>2, <2>1, <2>2 DEF Still, Node
      <3>2. QED
        BY <2>1, <2>2, <3>1
    <2>3. CASE u = t
      <3>1. CASE m + 1 < a \/ e <= m
        <4>1. /\ m < a \/ e <= m
              /\ m + 1 < a \/ e <= m + 1
              /\ m \in 0 .. Len(c[t]) /\ m \notin {a - 1, b - 1, e - 1}
          BY <1>1, <1>2, <2>1, <2>3, <3>1
        <4>2. Node(d, t, m) = Node(c, t, m) /\ Node(d, t, m + 1) = Node(c, t, m + 1)
          BY <1>5, <2>1, <4>1
        <4>3. Still(c, t, m, d, t, m)
          BY <1>2, <4>1, <4>2 DEF Still
        <4>4. QED
          BY <2>1, <2>3, <4>1, <4>3
      <3>2. CASE m + 1 = a
        <4>1. m < a /\ m = a - 1 /\ a < a + D /\ b + a - a = b
          BY <1>1, <2>1, <3>2
        <4>2. Node(d, t, m) = Node(c, t, a - 1) /\ Node(d, t, a) = Node(c, t, b)
          BY <1>1, <1>5, <2>1, <4>1
        <4>3. QED
          BY <2>3, <3>2, <4>2
      <3>3. CASE a <= m /\ m + 1 < a + D
        <4>1. /\ m < a + D /\ b + m - a \in Nat /\ b + (m + 1) - a = b + m - a + 1
              /\ b + m - a \in 0 .. Len(c[t]) /\ b + m - a \notin {a - 1, b - 1, e - 1}
          BY <1>1, <2>1, <3>3
        <4>2. Still(c, t, b + m - a, d, t, m)
          BY <1>2, <1>5, <2>1, <3>3, <4>1 DEF Still
        <4>3. QED
          BY <2>3, <4>1, <4>2
      <3>4. CASE a <= m /\ m + 1 = a + D
        <4>1. m < a + D /\ b + m - a = e - 1 /\ a + D <= m + 1 /\ m + 1 < e /\ m + 1 - D = a
          BY <1>1, <2>1, <3>4
        <4>2. Node(d, t, m) = Node(c, t, b + m - a)
          BY <1>5, <2>1, <3>4, <4>1
        <4>3. Node(d, t, m + 1) = Node(c, t, m + 1 - D)
          <5>1. \A n \in Nat : a + D <= n /\ n < e => Node(d, t, n) = Node(c, t, n - D)
            BY <1>5
          <5>2. QED
            BY <1>1, <2>1, <4>1, <5>1
        <4>4. QED
          BY <2>3, <4>1, <4>2, <4>3
      <3>5. CASE a + D <= m /\ m + 1 < e
        <4>1. /\ m < e /\ m - D \in Nat /\ m + 1 - D = m - D + 1 /\ a + D <= m + 1
              /\ m - D \in 0 .. Len(c[t]) /\ m - D \notin {a - 1, b - 1, e - 1}
          BY <1>1, <2>1, <3>5
        <4>2. Node(d, t, m) = Node(c, t, m - D)
          BY <1>5, <2>1, <3>5, <4>1
        <4>3. Node(d, t, m + 1) = Node(c, t, m + 1 - D)
          <5>1. \A n \in Nat : a + D <= n /\ n < e => Node(d, t, n) = Node(c, t, n - D)
            BY <1>5
          <5>2. QED
            BY <1>1, <2>1, <3>5, <4>1, <5>1
        <4>4. Still(c, t, m - D, d, t, m)
          BY <1>2, <4>1, <4>2, <4>3 DEF Still
        <4>5. QED
          BY <2>3, <4>1, <4>4
      <3>6. CASE a + D <= m /\ m + 1 = e
        <4>1. m < e /\ m - D = b - 1
          BY <1>1, <2>1, <3>6
        <4>2. Node(d, t, m) = Node(c, t, b - 1) /\ Node(d, t, e) = Node(c, t, e)
          <5>1. Node(d, t, m) = Node(c, t, m - D)
            BY <1>5, <2>1, <3>6, <4>1
          <5>2. Node(d, t, e) = Node(c, t, e)
            BY <1>1, <1>5
          <5>3. QED
            BY <4>1, <5>1, <5>2
        <4>3. QED
          BY <2>3, <3>6, <4>2
      <3>7. \/ m + 1 < a \/ e <= m \/ m + 1 = a \/ (a <= m /\ m + 1 < a + D)
            \/ (a <= m /\ m + 1 = a + D) \/ (a + D <= m /\ m + 1 < e)
            \/ (a + D <= m /\ m + 1 = e)
        BY <1>1, <2>1
      <3>8. QED
        BY <3>1, <3>2, <3>3, <3>4, <3>5, <3>6, <3>7
    <2>4. QED
      BY <2>2, <2>3
  <1>8. Retied(L, c, d, t, a, t, b, e)
    BY <1>7 DEF Retied
  <1>9. Retied(L, c, d, t, e, t, a, b)
    BY <1>7 DEF Retied
  <1>10. QED
    BY <1>6, <1>8, <1>9

-----------------------------------------------------------------------------
(* Sequences cut into pieces that are joined again.                        *)

LEMMA Piece ==
    ASSUME NEW S, NEW s \in Seq(S), NEW m \in Nat, NEW n \in Nat,
           m > 0, m <= n + 1, n <= Len(s)
    PROVE  /\ SubSeq(s, m, n) \in Seq(S) /\ Len(SubSeq(s, m, n)) = n + 1 - m
           /\ \A k \in 1 .. n + 1 - m : SubSeq(s, m, n)[k] = s[k + (m - 1)]
  <1>1. \A k \in m .. n : s[k] \in S
    BY ElementOfSeq, LenProperties
  <1>2. /\ SubSeq(s, m, n) \in Seq(S)
        /\ Len(SubSeq(s, m, n)) = IF m <= n THEN n - m + 1 ELSE 0
        /\ \A k \in 1 .. n - m + 1 : SubSeq(s, m, n)[k] = s[m + k - 1]
    BY <1>1, SubSeqProperties
  <1>3. QED
    BY <1>2

LEMMA Part ==
    ASSUME NEW S, NEW s \in Seq(S), NEW m \in 1 .. Len(s) + 1, NEW n \in m .. Len(s) + 1
    PROVE  /\ SubSeq(s, m, n - 1) \in Seq(S) /\ Len(SubSeq(s, m, n - 1)) = n - m
           /\ \A k \in 1 .. n - m : SubSeq(s, m, n - 1)[k] = s[k + (m - 1)]
  <1> DEFINE q == n - 1
  <1>1. Len(s) \in Nat
    BY LenProperties
  <1>2. m \in Nat /\ q \in Nat /\ m > 0 /\ m <= q + 1 /\ q <= Len(s) /\ q + 1 - m = n - m
    BY <1>1
  <1> HIDE DEF q
  <1>3. /\ SubSeq(s, m, q) \in Seq(S) /\ Len(SubSeq(s, m, q)) = q + 1 - m
        /\ \A k \in 1 .. q + 1 - m : SubSeq(s, m, q)[k] = s[k + (m - 1)]
    BY <1>2, Piece
  <1>4. QED
    BY <1>2, <1>3 DEF q

LEMMA FirstPart ==
    ASSUME NEW S, NEW s \in Seq(S), NEW n \in 1 .. Len(s) + 1
    PROVE  /\ SubSeq(s, 1, n - 1) \in Seq(S) /\ Len(SubSeq(s, 1, n - 1)) = n - 1
           /\ \A k \in 1 .. n - 1 : SubSeq(s, 1, n - 1)[k] = s[k]
  <1>1. Len(s) \in Nat
    BY LenProperties
  <1>2. 1 \in 1 .. Len(s) + 1 /\ \A k \in 1 .. n - 1 : k + (1 - 1) = k
    BY <1>1
  <1>3. /\ SubSeq(s, 1, n - 1) \in Seq(S) /\ Len(SubSeq(s, 1, n - 1)) = n - 1
        /\ \A k \in 1 .. n - 1 : SubSeq(s, 1, n - 1)[k] = s[k + (1 - 1)]
    BY <1>2, Part
  <1>4. QED
    BY <1>2, <1>3

LEMMA LastPart ==
    ASSUME NEW S, NEW s \in Seq(S), NEW m \in 1 .. Len(s) + 1
    PROVE  /\ SubSeq(s, m, Len(s)) \in Seq(S) /\ Len(SubSeq(s, m, Len(s))) = Len(s) + 1 - m
           /\ \A k \in 1 .. Len(s) + 1 - m : SubSeq(s, m, Len(s))[k] = s[k + (m - 1)]
  <1>1. Len(s) \in Nat
    BY LenProperties
  <1>2. m \in Nat /\ m > 0 /\ m <= Len(s) + 1 /\ Len(s) <= Len(s)
    BY <1>1
  <1>3. QED
    BY <1>1, <1>2, Piece

LEMMA JoinedTwo ==
    ASSUME NEW S, NEW U \in Seq(S), NEW B \in Seq(S)
    PROVE  /\ U \o B \in Seq(S) /\ Len(U) \in Nat /\ Len(B) \in Nat
           /\ Len(U \o B) = Len(U) + Len(B)
           /\ \A m \in 1 .. Len(U) + Len(B) :
                (U \o B)[m] = IF m <= Len(U) THEN U[m] ELSE B[m - Len(U)]
  BY ConcatProperties, LenProperties

LEMMA JoinedThree ==
    ASSUME NEW S, NEW U \in Seq(S), NEW B \in Seq(S), NEW C \in Seq(S)
    PROVE  /\ U \o B \o C \in Seq(S)
           /\ Len(U) \in Nat /\ Len(B) \in Nat /\ Len(C) \in Nat
           /\ Len(U \o B \o C) = Len(U) + Len(B) + Len(C)
           /\ \A m \in 1 .. Len(U) + Len(B) + Len(C) :
                (U \o B \o C)[m] = IF m <= Len(U) THEN U[m]
                                   ELSE IF m <= Len(U) + Len(B) THEN B[m - Len(U)]
                                   ELSE C[m - (Len(U) + Len(B))]
  <1> DEFINE a == Len(U)  b == Len(B)  e == Len(C)
  <1>1. /\ U \o B \in Seq(S) /\ a \in Nat /\ b \in Nat /\ Len(U \o B) = a + b
        /\ \A m \in 1 .. a + b : (U \o B)[m] = IF m <= a THEN U[m] ELSE B[m - a]
    BY JoinedTwo
  <1> DEFINE AB == U \o B
  <1> HIDE DEF AB
  <1>2. /\ AB \o C \in Seq(S) /\ e \in Nat /\ Len(AB \o C) = (a + b) + e
        /\ \A m \in 1 .. (a + b) + e :
                (AB \o C)[m] = IF m <= a + b THEN AB[m] ELSE C[m - (a + b)]
    <2>1. AB \in Seq(S) /\ Len(AB) = a + b
      BY <1>1 DEF AB
    <2>2. /\ AB \o C \in Seq(S) /\ Len(C) \in Nat /\ Len(AB \o C) = Len(AB) + Len(C)
          /\ \A m \in 1 .. Len(AB) + Len(C) :
                (AB \o C)[m] = IF m <= Len(AB) THEN AB[m] ELSE C[m - Len(AB)]
      <3>1. AB \in Seq(S)
        BY <2>1
      <3>2. QED
        BY <3>1, JoinedTwo
    <2>3. QED
      BY <2>1, <2>2
  <1>3. ASSUME NEW m \in 1 .. a + b + e
        PROVE  (AB \o C)[m] = IF m <= a THEN U[m]
                              ELSE IF m <= a + b THEN B[m - a] ELSE C[m - (a + b)]
    <2>1. m \in Nat /\ m > 0
      BY <1>1, <1>2
    <2>2. (AB \o C)[m] = IF m <= a + b THEN AB[m] ELSE C[m - (a + b)]
      BY <1>2
    <2>3. m <= a + b => AB[m] = IF m <= a THEN U[m] ELSE B[m - a]
      BY <1>1, <2>1 DEF AB
    <2>4. m <= a => m <= a + b
      BY <1>1, <2>1
    <2>5. QED
      BY <2>2, <2>3, <2>4
  <1>4. QED
    BY <1>1, <1>2, <1>3 DEF AB

IsJoined(r, U, B, C, E) ==
    /\ Len(U) \in Nat /\ Len(B) \in Nat /\ Len(C) \in Nat /\ Len(E) \in Nat
    /\ Len(r) = Len(U) + Len(B) + Len(C) + Len(E)
    /\ \A m \in 1 .. Len(U) + Len(B) + Len(C) + Len(E) :
            r[m] = IF m <= Len(U) THEN U[m]
                   ELSE IF m <= Len(U) + Len(B) THEN B[m - Len(U)]
                   ELSE IF m <= Len(U) + Len(B) + Len(C) THEN C[m - (Len(U) + Len(B))]
                   ELSE E[m - (Len(U) + Len(B) + Len(C))]

LEMMA JoinedFour ==
    ASSUME NEW S, NEW U \in Seq(S), NEW B \in Seq(S), NEW C \in Seq(S), NEW E \in Seq(S)
    PROVE  U \o B \o C \o E \in Seq(S) /\ IsJoined(U \o B \o C \o E, U, B, C, E)
  <1> DEFINE a == Len(U)  b == Len(B)  e == Len(C)  f == Len(E)
  <1>1. /\ U \o B \o C \in Seq(S) /\ a \in Nat /\ b \in Nat /\ e \in Nat
        /\ Len(U \o B \o C) = a + b + e
        /\ \A m \in 1 .. a + b + e :
                (U \o B \o C)[m] = IF m <= a THEN U[m]
                                   ELSE IF m <= a + b THEN B[m - a] ELSE C[m - (a + b)]
    BY JoinedThree
  <1> DEFINE ABC == U \o B \o C
             abe == a + b + e
  <1>2. ABC \in Seq(S) /\ Len(ABC) = abe /\ abe \in Nat
    BY <1>1
  <1> HIDE DEF ABC, abe
  <1>3. /\ ABC \o E \in Seq(S) /\ f \in Nat /\ Len(ABC \o E) = abe + f
        /\ \A m \in 1 .. abe + f : (ABC \o E)[m] = IF m <= abe THEN ABC[m] ELSE E[m - abe]
    <2>1. /\ ABC \o E \in Seq(S) /\ f \in Nat /\ Len(ABC \o E) = Len(ABC) + f
          /\ \A m \in 1 .. Len(ABC) + f :
                (ABC \o E)[m] = IF m <= Len(ABC) THEN ABC[m] ELSE E[m - Len(ABC)]
      BY <1>2, JoinedTwo
    <2>2. QED
      BY <1>2, <2>1
  <1>4. ASSUME NEW m \in 1 .. abe + f
        PROVE  (ABC \o E)[m] =
                    IF m <= a THEN U[m]
                    ELSE IF m <= a + b THEN B[m - a]
                    ELSE IF m <= abe THEN C[m - (a + b)] ELSE E[m - abe]
    <2>1. m \in Nat /\ m > 0
      BY <1>2, <1>3
    <2>2. (ABC \o E)[m] = IF m <= abe THEN ABC[m] ELSE E[m - abe]
      BY <1>3
    <2>3. m <= abe => ABC[m] = IF m <= a THEN U[m]
                               ELSE IF m <= a + b THEN B[m - a] ELSE C[m - (a + b)]
      BY <1>1, <2>1 DEF ABC, abe
    <2>4. (m <= a => m <= abe) /\ (m <= a + b => m <= abe)
      BY <1>1, <2>1 DEF abe
    <2>5. QED
      BY <2>2, <2>3, <2>4
  <1>5. QED
    BY <1>1, <1>3, <1>4 DEF ABC, abe, IsJoined

LEMMA MovedIsTo ==
    ASSUME contents \in [Lists -> Seq(Nodes)], NEW t \in Lists, NEW x \in Lists, t # x,
           NEW p \in 1 .. Len(contents[t]) + 1, NEW i \in 1 .. Len(contents[x]) + 1,
           NEW j \in i .. Len(contents[x]) + 1
    PROVE  MovesTo(Lists, contents, Moved(t, p, x, i, j), t, x, p, i, j)
  <1> DEFINE T == contents[t]  X == contents[x]  D == j - i  d == Moved(t, p, x, i, j)
             U == SubSeq(T, 1, p - 1)  B == SubSeq(X, i, j - 1)  C == SubSeq(T, p, Len(T))
             E == SubSeq(X, 1, i - 1)  F == SubSeq(X, j, Len(X))
  <1>1. T \in Seq(Nodes) /\ X \in Seq(Nodes) /\ Len(T) \in Nat /\ Len(X) \in Nat
    BY LenProperties
  <1>2. /\ d = [contents EXCEPT ![t] = U \o B \o C, ![x] = E \o F]
        /\ p \in 1 .. Len(T) + 1 /\ i \in 1 .. Len(X) + 1 /\ j \in i .. Len(X) + 1
    BY DEF Moved
  <1> HIDE DEF T, X, d
  <1>3. /\ p \in Nat /\ p - 1 \in Nat /\ i \in Nat /\ i - 1 \in Nat /\ j \in Nat /\ j - 1 \in Nat
        /\ i > 0 /\ p > 0 /\ j > 0 /\ i <= j /\ j <= Len(X) + 1 /\ p <= Len(T) + 1 /\ D \in Nat
        /\ i + D = j
    <2>1. p \in Nat /\ i \in Nat /\ j \in Nat /\ i <= j
      BY <1>1, <1>2
    <2>2. QED
      BY <1>1, <1>2, <2>1
  <1>4. /\ U \in Seq(Nodes) /\ Len(U) = p - 1 /\ \A k \in 1 .. p - 1 : U[k] = T[k]
        /\ C \in Seq(Nodes) /\ Len(C) = Len(T) + 1 - p
        /\ \A k \in 1 .. Len(T) + 1 - p : C[k] = T[k + (p - 1)]
    BY <1>1, <1>2, FirstPart, LastPart
  <1>5. /\ B \in Seq(Nodes) /\ Len(B) = D /\ \A k \in 1 .. D : B[k] = X[k + (i - 1)]
        /\ E \in Seq(Nodes) /\ Len(E) = i - 1 /\ \A k \in 1 .. i - 1 : E[k] = X[k]
        /\ F \in Seq(Nodes) /\ Len(F) = Len(X) + 1 - j
        /\ \A k \in 1 .. Len(X) + 1 - j : F[k] = X[k + (j - 1)]
    <2>1. /\ B \in Seq(Nodes) /\ Len(B) = j - i
          /\ \A k \in 1 .. j - i : B[k] = X[k + (i - 1)]
      BY <1>1, <1>2, Part
    <2>2. E \in Seq(Nodes) /\ Len(E) = i - 1 /\ \A k \in 1 .. i - 1 : E[k] = X[k]
      BY <1>1, <1>2, FirstPart
    <2>3. j \in 1 .. Len(X) + 1
      BY <1>1, <1>3
    <2>4. /\ F \in Seq(Nodes) /\ Len(F) = Len(X) + 1 - j
          /\ \A k \in 1 .. Len(X) + 1 - j : F[k] = X[k + (j - 1)]
      BY <1>1, <2>3, LastPart
    <2>5. QED
      BY <2>1, <2>2, <2>4
  <1> HIDE DEF U, B, C, E, F, D
  <1>6. /\ U \o B \o C \in Seq(Nodes) /\ Len(U \o B \o C) = (p - 1) + D + (Len(T) + 1 - p)
        /\ \A m \in 1 .. (p - 1) + D + (Len(T) + 1 - p) :
              (U \o B \o C)[m] = IF m <= p - 1 THEN U[m]
                                 ELSE IF m <= (p - 1) + D THEN B[m - (p - 1)]
                                 ELSE C[m - ((p - 1) + D)]
    <2>1. Len(U) = p - 1 /\ Len(B) = D /\ Len(C) = Len(T) + 1 - p
      BY <1>4, <1>5
    <2>2. /\ U \o B \o C \in Seq(Nodes) /\ Len(U \o B \o C) = Len(U) + Len(B) + Len(C)
          /\ \A m \in 1 .. Len(U) + Len(B) + Len(C) :
                (U \o B \o C)[m] = IF m <= Len(U) THEN U[m]
                                   ELSE IF m <= Len(U) + Len(B) THEN B[m - Len(U)]
                                   ELSE C[m - (Len(U) + Len(B))]
      <3>1. U \in Seq(Nodes) /\ B \in Seq(Nodes) /\ C \in Seq(Nodes)
        BY <1>4, <1>5
      <3>2. QED
        BY <3>1, JoinedThree
    <2>3. QED
      BY <2>1, <2>2
  <1>7. /\ E \o F \in Seq(Nodes) /\ Len(E \o F) = (i - 1) + (Len(X) + 1 - j)
        /\ \A m \in 1 .. (i - 1) + (Len(X) + 1 - j) :
              (E \o F)[m] = IF m <= i - 1 THEN E[m] ELSE F[m - (i - 1)]
    <2>1. Len(E) = i - 1 /\ Len(F) = Len(X) + 1 - j
      BY <1>5
    <2>2. /\ E \o F \in Seq(Nodes) /\ Len(E \o F) = Len(E) + Len(F)
          /\ \A m \in 1 .. Len(E) + Len(F) :
                (E \o F)[m] = IF m <= Len(E) THEN E[m] ELSE F[m - Len(E)]
      <3>1. E \in Seq(Nodes) /\ F \in Seq(Nodes)
        BY <1>5
      <3>2. QED
        BY <3>1, JoinedTwo, Zenon
    <2>3. QED
      BY <2>1, <2>2
  <1>8. /\ d[t] = U \o B \o C /\ d[x] = E \o F /\ d \in [Lists -> Seq(Nodes)]
        /\ \A u \in Lists \ {t, x} : d[u] = contents[u]
    BY <1>2, <1>6, <1>7
  <1>9. Len(d[t]) = Len(T) + D /\ Len(d[x]) = Len(X) - D
    <2>1. /\ Len(d[t]) = (p - 1) + D + (Len(T) + 1 - p)
          /\ Len(d[x]) = (i - 1) + (Len(X) + 1 - j)
      BY <1>6, <1>7, <1>8
    <2>2. D = j - i
      BY DEF D
    <2>3. QED
      BY <1>1, <1>3, <2>1, <2>2
  <1>10. ASSUME NEW m \in 1 .. Len(T) + D
         PROVE  d[t][m] = IF m < p THEN T[m]
                          ELSE IF m < p + D THEN X[i + m - p] ELSE T[m - D]
    <2>1. m \in Nat /\ m > 0 /\ m <= Len(T) + D /\ m \in 1 .. (p - 1) + D + (Len(T) + 1 - p)
      BY <1>1, <1>3
    <2>2. d[t][m] = IF m <= p - 1 THEN U[m]
                    ELSE IF m <= (p - 1) + D THEN B[m - (p - 1)] ELSE C[m - ((p - 1) + D)]
      BY <1>6, <1>8, <2>1
    <2>3. CASE m < p
      <3>1. m <= p - 1 /\ m \in 1 .. p - 1
        BY <1>3, <2>1, <2>3
      <3>2. QED
        BY <1>4, <2>2, <2>3, <3>1
    <2>4. CASE p <= m /\ m < p + D
      <3>1. /\ ~(m <= p - 1) /\ m <= (p - 1) + D /\ m - (p - 1) \in 1 .. D /\ ~(m < p)
            /\ m - (p - 1) + (i - 1) = i + m - p
        BY <1>3, <2>1, <2>4
      <3>2. d[t][m] = B[m - (p - 1)]
        BY <2>2, <3>1
      <3>3. B[m - (p - 1)] = X[m - (p - 1) + (i - 1)]
        BY <1>5, <3>1
      <3>4. QED
        BY <2>4, <3>1, <3>2, <3>3
    <2>5. CASE p + D <= m
      <3>1. /\ ~(m <= p - 1) /\ ~(m <= (p - 1) + D) /\ ~(m < p) /\ ~(m < p + D)
            /\ m - ((p - 1) + D) \in 1 .. Len(T) + 1 - p
            /\ m - ((p - 1) + D) + (p - 1) = m - D
        BY <1>1, <1>3, <2>1, <2>5
      <3>2. d[t][m] = C[m - ((p - 1) + D)]
        BY <2>2, <3>1
      <3>3. C[m - ((p - 1) + D)] = T[m - ((p - 1) + D) + (p - 1)]
        BY <1>4, <3>1
      <3>4. QED
        BY <3>1, <3>2, <3>3
    <2>6. QED
      BY <1>3, <2>1, <2>3, <2>4, <2>5
  <1>11. ASSUME NEW m \in 1 .. Len(X) - D
         PROVE  d[x][m] = IF m < i THEN X[m] ELSE X[m + D]
    <2>1. m \in Nat /\ m > 0 /\ m <= Len(X) - D /\ m \in 1 .. (i - 1) + (Len(X) + 1 - j)
      BY <1>1, <1>3
    <2>2. d[x][m] = IF m <= i - 1 THEN E[m] ELSE F[m - (i - 1)]
      BY <1>7, <1>8, <2>1
    <2>3. CASE m < i
      <3>1. m <= i - 1 /\ m \in 1 .. i - 1
        BY <1>3, <2>1, <2>3
      <3>2. QED
        BY <1>5, <2>2, <2>3, <3>1
    <2>4. CASE i <= m
      <3>1. /\ ~(m <= i - 1) /\ ~(m < i) /\ m - (i - 1) \in 1 .. Len(X) + 1 - j
            /\ m - (i - 1) + (j - 1) = m + D
        BY <1>1, <1>3, <2>1, <2>4
      <3>2. d[x][m] = F[m - (i - 1)] /\ F[m - (i - 1)] = X[m - (i - 1) + (j - 1)]
        BY <1>5, <2>2, <3>1
      <3>3. QED
        BY <3>1, <3>2
    <2>5. QED
      BY <1>3, <2>1, <2>3, <2>4
  <1>12. QED
    BY <1>8, <1>9, <1>10, <1>11 DEF MovesTo, D, T, X, d

Exchange(T, a, b, e) ==
    SubSeq(T, 1, a - 1) \o SubSeq(T, b, e - 1) \o SubSeq(T, a, b - 1) \o SubSeq(T, e, Len(T))

LEMMA Exchanged ==
    ASSUME NEW S, NEW T \in Seq(S), NEW a \in 1 .. Len(T) + 1, NEW b \in a .. Len(T) + 1,
           NEW e \in b .. Len(T) + 1
    PROVE  /\ Exchange(T, a, b, e) \in Seq(S) /\ Len(Exchange(T, a, b, e)) = Len(T)
           /\ \A m \in 1 .. Len(T) :
                Exchange(T, a, b, e)[m] = IF m < a THEN T[m]
                                          ELSE IF m < a + (e - b) THEN T[b + m - a]
                                          ELSE IF m < e THEN T[m - (e - b)] ELSE T[m]
  <1> DEFINE r == Exchange(T, a, b, e)
             U == SubSeq(T, 1, a - 1)  B == SubSeq(T, b, e - 1)  C == SubSeq(T, a, b - 1)
             E == SubSeq(T, e, Len(T))  D == e - b
  <1>1. /\ Len(T) \in Nat /\ a \in Nat /\ b \in Nat /\ e \in Nat
        /\ a > 0 /\ a <= b /\ b <= e /\ e <= Len(T) + 1
    BY LenProperties
  <1>2. /\ a - 1 \in Nat /\ b - 1 \in Nat /\ e - 1 \in Nat /\ D \in Nat
        /\ b > 0 /\ e > 0 /\ a <= b - 1 + 1 /\ b <= e - 1 + 1 /\ 1 <= a - 1 + 1
        /\ a - 1 <= Len(T) /\ b - 1 <= Len(T) /\ e - 1 <= Len(T)
    BY <1>1
  <1>2a. b \in 1 .. Len(T) + 1 /\ e \in 1 .. Len(T) + 1 /\ D = e - b
    BY <1>1
  <1>3. U \in Seq(S) /\ Len(U) = a - 1 /\ \A k \in 1 .. a - 1 : U[k] = T[k]
    BY FirstPart
  <1>4. B \in Seq(S) /\ Len(B) = D /\ \A k \in 1 .. D : B[k] = T[k + (b - 1)]
    BY <1>2a, Part
  <1>5. C \in Seq(S) /\ Len(C) = b - a /\ \A k \in 1 .. b - a : C[k] = T[k + (a - 1)]
    BY Part
  <1>6. /\ E \in Seq(S) /\ Len(E) = Len(T) + 1 - e
        /\ \A k \in 1 .. Len(T) + 1 - e : E[k] = T[k + (e - 1)]
    BY <1>2a, LastPart
  <1>7. r = U \o B \o C \o E
    BY DEF Exchange
  <1>8. D = e - b
    OBVIOUS
  <1> HIDE DEF U, B, C, E, D, r
  <1>9. /\ r \in Seq(S) /\ Len(r) = (a - 1) + D + (b - a) + (Len(T) + 1 - e)
        /\ \A m \in 1 .. (a - 1) + D + (b - a) + (Len(T) + 1 - e) :
                r[m] = IF m <= a - 1 THEN U[m]
                       ELSE IF m <= (a - 1) + D THEN B[m - (a - 1)]
                       ELSE IF m <= (a - 1) + D + (b - a) THEN C[m - ((a - 1) + D)]
                       ELSE E[m - ((a - 1) + D + (b - a))]
    <2>1. Len(U) = a - 1 /\ Len(B) = D /\ Len(C) = b - a /\ Len(E) = Len(T) + 1 - e
      BY <1>3, <1>4, <1>5, <1>6
    <2>2. U \in Seq(S) /\ B \in Seq(S) /\ C \in Seq(S) /\ E \in Seq(S)
      BY <1>3, <1>4, <1>5, <1>6
    <2>3. U \o B \o C \o E \in Seq(S) /\ IsJoined(U \o B \o C \o E, U, B, C, E)
      BY <2>2, JoinedFour
    <2>4. r \in Seq(S) /\ IsJoined(r, U, B, C, E)
      BY <1>7, <2>3
    <2>5. QED
      BY <2>1, <2>4 DEF IsJoined
  <1>10. (a - 1) + D + (b - a) + (Len(T) + 1 - e) = Len(T)
    BY <1>1, <1>8
  <1>11. ASSUME NEW m \in 1 .. Len(T)
         PROVE  r[m] = IF m < a THEN T[m] ELSE IF m < a + D THEN T[b + m - a]
                       ELSE IF m < e THEN T[m - D] ELSE T[m]
    <2>1. m \in Nat /\ m > 0 /\ m <= Len(T)
      BY <1>1
    <2>2. r[m] = IF m <= a - 1 THEN U[m]
                 ELSE IF m <= (a - 1) + D THEN B[m - (a - 1)]
                 ELSE IF m <= (a - 1) + D + (b - a) THEN C[m - ((a - 1) + D)]
                 ELSE E[m - ((a - 1) + D + (b - a))]
      BY <1>9, <1>10
    <2>3. CASE m < a
      <3>1. m <= a - 1 /\ m \in 1 .. a - 1
        BY <1>1, <2>1, <2>3
      <3>2. QED
        BY <1>3, <2>2, <2>3, <3>1
    <2>4. CASE a <= m /\ m < a + D
      <3>1. /\ ~(m <= a - 1) /\ ~(m < a) /\ m <= (a - 1) + D /\ m - (a - 1) \in 1 .. D
            /\ m - (a - 1) + (b - 1) = b + m - a
        BY <1>1, <1>2, <2>1, <2>4
      <3>2. r[m] = B[m - (a - 1)] /\ B[m - (a - 1)] = T[m - (a - 1) + (b - 1)]
        BY <1>4, <2>2, <3>1
      <3>3. QED
        BY <2>4, <3>1, <3>2
    <2>5. CASE a + D <= m /\ m < e
      <3>1. /\ ~(m <= a - 1) /\ ~(m < a) /\ ~(m <= (a - 1) + D) /\ ~(m < a + D)
            /\ m <= (a - 1) + D + (b - a) /\ m - ((a - 1) + D) \in 1 .. b - a
            /\ m - ((a - 1) + D) + (a - 1) = m - D
        BY <1>1, <1>2, <1>8, <2>1, <2>5
      <3>2. r[m] = C[m - ((a - 1) + D)] /\ C[m - ((a - 1) + D)] = T[m - ((a - 1) + D) + (a - 1)]
        BY <1>5, <2>2, <3>1
      <3>3. QED
        BY <2>5, <3>1, <3>2
    <2>6. CASE e <= m
      <3>1. /\ ~(m <= a - 1) /\ ~(m < a) /\ ~(m <= (a - 1) + D) /\ ~(m < a + D) /\ ~(m < e)
            /\ ~(m <= (a - 1) + D + (b - a))
            /\ m - ((a - 1) + D + (b - a)) \in 1 .. Len(T) + 1 - e
            /\ m - ((a - 1) + D + (b - a)) + (e - 1) = m
        BY <1>1, <1>2, <1>8, <2>1, <2>6
      <3>2. /\ r[m] = E[m - ((a - 1) + D + (b - a))]
            /\ E[m - ((a - 1) + D + (b - a))] = T[m - ((a - 1) + D + (b - a)) + (e - 1)]
        BY <1>6, <2>2, <3>1
      <3>3. QED
        BY <3>1, <3>2
    <2>7. m < a \/ (a <= m /\ m < a + D) \/ (a + D <= m /\ m < e) \/ e <= m
      BY <1>1, <1>2, <2>1
    <2>8. QED
      BY <2>3, <2>4, <2>5, <2>6, <2>7
  <1>12. QED
    BY <1>8, <1>9, <1>10, <1>11 DEF r

LEMMA MovedIsWithin ==
    ASSUME contents \in [Lists -> Seq(Nodes)], NEW t \in Lists,
           NEW p \in 1 .. Len(contents[t]) + 1, NEW i \in 1 .. Len(contents[t]) + 1,
           NEW j \in i .. Len(contents[t]) + 1, p \notin i .. j - 1
    PROVE  \/ p <= i /\ MovesWithin(Lists, contents, Moved(t, p, t, i, j), t, p, i, j)
           \/ j <= p /\ MovesWithin(Lists, contents, Moved(t, p, t, i, j), t, i, j, p)
  <1> DEFINE T == contents[t]  d == Moved(t, p, t, i, j)
  <1>1. T \in Seq(Nodes) /\ Len(T) \in Nat /\ p \in Nat /\ i \in Nat /\ j \in Nat /\ i <= j
    BY LenProperties
  <1>2. CASE p <= i
    <2> DEFINE r == Exchange(T, p, i, j)
    <2>1. d = [contents EXCEPT ![t] = r]
      BY <1>2 DEF Moved, Exchange
    <2>2. p \in 1 .. Len(T) + 1 /\ i \in p .. Len(T) + 1 /\ j \in i .. Len(T) + 1
      BY <1>1, <1>2
    <2>3. /\ r \in Seq(Nodes) /\ Len(r) = Len(T)
          /\ \A m \in 1 .. Len(T) : r[m] = IF m < p THEN T[m]
                                           ELSE IF m < p + (j - i) THEN T[i + m - p]
                                           ELSE IF m < j THEN T[m - (j - i)] ELSE T[m]
      BY <1>1, <2>2, Exchanged
    <2> HIDE DEF r, d
    <2>4. d[t] = r /\ d \in [Lists -> Seq(Nodes)] /\ \A u \in Lists \ {t} : d[u] = contents[u]
      BY <2>1, <2>3
    <2>5. MovesWithin(Lists, contents, d, t, p, i, j)
      BY <2>3, <2>4 DEF MovesWithin
    <2>6. QED
      BY <1>2, <2>5 DEF d
  <1>3. CASE p > i
    <2> DEFINE r == Exchange(T, i, j, p)
    <2>1. d = [contents EXCEPT ![t] = r]
      <3>1. ~(p <= i)
        BY <1>1, <1>3
      <3>2. QED
        BY <3>1 DEF Moved, Exchange
    <2>2. i \in 1 .. Len(T) + 1 /\ j \in i .. Len(T) + 1 /\ p \in j .. Len(T) + 1 /\ j <= p
      BY <1>1, <1>3
    <2>3. /\ r \in Seq(Nodes) /\ Len(r) = Len(T)
          /\ \A m \in 1 .. Len(T) : r[m] = IF m < i THEN T[m]
                                           ELSE IF m < i + (p - j) THEN T[j + m - i]
                                           ELSE IF m < p THEN T[m - (p - j)] ELSE T[m]
      BY <1>1, <2>2, Exchanged
    <2> HIDE DEF r, d
    <2>4. d[t] = r /\ d \in [Lists -> Seq(Nodes)] /\ \A u \in Lists \ {t} : d[u] = contents[u]
      BY <2>1, <2>3
    <2>5. MovesWithin(Lists, contents, d, t, i, j, p)
      BY <2>3, <2>4 DEF MovesWithin
    <2>6. QED
      BY <2>2, <2>5 DEF d
  <1>4. QED
    BY <1>1, <1>2, <1>3

-----------------------------------------------------------------------------
(* splice(): what it does to rings that are tied.                          *)

SameElements(L, c, d) ==
    d \in [L -> Seq(Nodes)] /\ \A u \in L : /\ Len(d[u]) = Len(c[u])
                                            /\ \A m \in 1 .. Len(c[u]) : d[u][m] = c[u][m]

LEMMA SameLists ==
    ASSUME NEW L, NEW c \in [L -> Seq(Nodes)], NEW d, SameElements(L, c, d)
    PROVE  d = c
  <1>1. ASSUME NEW u \in L PROVE d[u] = c[u]
    BY SeqEqual DEF SameElements
  <1>2. QED
    BY <1>1 DEF SameElements

LEMMA NothingMoves ==
    ASSUME NEW L, L \subseteq Lists \cup {Tmp}, NEW c, Rings(L, c), NEW d, NEW t \in L,
           NEW a \in 1 .. Len(c[t]) + 1, NEW b \in 1 .. Len(c[t]) + 1,
           \/ \E x \in L, p \in Nat, i \in Nat :
                t # x /\ p > 0 /\ i > 0 /\ MovesTo(L, c, d, t, x, p, i, i)
           \/ a <= b /\ MovesWithin(L, c, d, t, a, b, b)
           \/ a <= b /\ MovesWithin(L, c, d, t, a, a, b)
    PROVE  d = c
  <1>1. /\ c \in [L -> Seq(Nodes)] /\ \A u \in L : Len(c[u]) \in Nat
        /\ a \in Nat /\ b \in Nat
    BY RingTypes DEF Rings
  <1>2. CASE \E x \in L, p \in Nat, i \in Nat :
                t # x /\ p > 0 /\ i > 0 /\ MovesTo(L, c, d, t, x, p, i, i)
    <2>1. PICK x \in L, p \in Nat, i \in Nat : t # x /\ MovesTo(L, c, d, t, x, p, i, i)
      BY <1>2
    <2>2. i - i = 0 /\ p + 0 = p
      BY <2>1
    <2>3. /\ d \in [L -> Seq(Nodes)] /\ \A u \in L \ {t, x} : d[u] = c[u]
          /\ Len(d[t]) = Len(c[t]) + 0 /\ Len(d[x]) = Len(c[x]) - 0
          /\ \A m \in 1 .. Len(d[t]) :
                d[t][m] = IF m < p THEN c[t][m]
                          ELSE IF m < p + 0 THEN c[x][i + m - p] ELSE c[t][m - 0]
          /\ \A m \in 1 .. Len(d[x]) : d[x][m] = IF m < i THEN c[x][m] ELSE c[x][m + 0]
      BY <2>1, <2>2 DEF MovesTo
    <2>4. Len(d[t]) = Len(c[t]) /\ Len(d[x]) = Len(c[x])
      BY <1>1, <2>3
    <2>5. ASSUME NEW m \in 1 .. Len(c[t]) PROVE d[t][m] = c[t][m]
      <3>1. m \in Nat /\ m - 0 = m /\ (m < p + 0 => m < p)
        BY <1>1, <2>1, <2>2
      <3>2. QED
        BY <2>3, <2>4, <3>1
    <2>6. ASSUME NEW m \in 1 .. Len(c[x]) PROVE d[x][m] = c[x][m]
      <3>1. m + 0 = m
        BY <1>1
      <3>2. QED
        BY <2>3, <2>4, <3>1
    <2>7. SameElements(L, c, d)
      BY <2>3, <2>4, <2>5, <2>6 DEF SameElements
    <2>8. QED
      BY <1>1, <2>7, SameLists
  <1>3. CASE a <= b /\ MovesWithin(L, c, d, t, a, b, b)
    <2>1. /\ d \in [L -> Seq(Nodes)] /\ \A u \in L \ {t} : d[u] = c[u] /\ Len(d[t]) = Len(c[t])
          /\ \A m \in 1 .. Len(d[t]) :
                d[t][m] = IF m < a THEN c[t][m]
                          ELSE IF m < a + (b - b) THEN c[t][b + m - a]
                          ELSE IF m < b THEN c[t][m - (b - b)] ELSE c[t][m]
          /\ Len(d[t]) = Len(c[t])
      BY <1>3 DEF MovesWithin
    <2>2. ASSUME NEW m \in 1 .. Len(c[t]) PROVE d[t][m] = c[t][m]
      <3>1. m \in Nat /\ m - (b - b) = m /\ (m < a + (b - b) => m < a)
        BY <1>1
      <3>2. QED
        BY <2>1, <3>1
    <2>3. SameElements(L, c, d)
      BY <2>1, <2>2 DEF SameElements
    <2>4. QED
      BY <1>1, <2>3, SameLists
  <1>4. CASE a <= b /\ MovesWithin(L, c, d, t, a, a, b)
    <2>1. /\ d \in [L -> Seq(Nodes)] /\ \A u \in L \ {t} : d[u] = c[u]
          /\ \A m \in 1 .. Len(d[t]) :
                d[t][m] = IF m < a THEN c[t][m]
                          ELSE IF m < a + (b - a) THEN c[t][a + m - a]
                          ELSE IF m < b THEN c[t][m - (b - a)] ELSE c[t][m]
          /\ Len(d[t]) = Len(c[t])
      BY <1>4 DEF MovesWithin
    <2>2. ASSUME NEW m \in 1 .. Len(c[t]) PROVE d[t][m] = c[t][m]
      <3>1. m \in Nat /\ a + m - a = m /\ (m < b => m < a + (b - a))
        BY <1>1
      <3>2. QED
        BY <2>1, <3>1
    <2>3. SameElements(L, c, d)
      BY <2>1, <2>2 DEF SameElements
    <2>4. QED
      BY <1>1, <2>3, SameLists
  <1>5. QED
    BY <1>2, <1>3, <1>4

IsMoved(L, c, d, t, p, x, i, j) ==
    IF t # x THEN MovesTo(L, c, d, t, x, p, i, j)
    ELSE \/ p <= i /\ MovesWithin(L, c, d, t, p, i, j)
         \/ j <= p /\ MovesWithin(L, c, d, t, i, j, p)

LEMMA SpliceKeeps ==
    ASSUME NEW L, L \subseteq Lists \cup {Tmp}, NEW c, Rings(L, c),
           NEW l, LinkTypes(l), Tied(l, L, c), NEW t \in L, NEW x \in L,
           NEW p \in 1 .. Len(c[t]) + 1, NEW i \in 1 .. Len(c[x]) + 1,
           NEW j \in i .. Len(c[x]) + 1, t = x => p \notin i .. j - 1,
           NEW d, IsMoved(L, c, d, t, p, x, i, j)
    PROVE  LET n == Spliced(l, Node(c, t, p), Node(c, x, i), Node(c, x, j))
           IN  Rings(L, d) /\ LinkTypes(n) /\ Tied(n, L, d)
  <1> DEFINE n == Spliced(l, Node(c, t, p), Node(c, x, i), Node(c, x, j))
  <1>1. /\ Len(c[t]) \in Nat /\ Len(c[x]) \in Nat /\ p \in Nat /\ i \in Nat /\ j \in Nat
        /\ p > 0 /\ i > 0 /\ i <= j /\ j <= Len(c[x]) + 1 /\ p <= Len(c[t]) + 1 /\ j > 0
    <2>1. Len(c[t]) \in Nat /\ Len(c[x]) \in Nat
      BY RingTypes
    <2>2. QED
      BY <2>1
  <1>2. CASE i = j
    <2>1. n = l
      BY <1>2 DEF Spliced
    <2>2. d = c
      <3>1. CASE t # x
        BY <1>1, <1>2, <3>1, NothingMoves DEF IsMoved
      <3>2. CASE t = x /\ p <= i /\ MovesWithin(L, c, d, t, p, i, j)
        BY <1>1, <1>2, <3>2, NothingMoves
      <3>3. CASE t = x /\ j <= p /\ MovesWithin(L, c, d, t, i, j, p)
        BY <1>1, <1>2, <3>3, NothingMoves
      <3>4. QED
        BY <3>1, <3>2, <3>3 DEF IsMoved
    <2>3. QED
      BY <2>1, <2>2
  <1>3. CASE t = x /\ p = j
    <2>1. n = l
      BY <1>3 DEF Spliced
    <2>2. d = c
      <3>1. CASE p <= i /\ MovesWithin(L, c, d, t, p, i, j)
        <4>1. i = p /\ j = p
          BY <1>1, <1>3, <3>1
        <4>2. QED
          BY <1>3, <3>1, <4>1, NothingMoves
      <3>2. CASE j <= p /\ MovesWithin(L, c, d, t, i, j, p)
        BY <1>1, <1>3, <3>2, NothingMoves
      <3>3. QED
        BY <1>3, <3>1, <3>2 DEF IsMoved
    <2>3. QED
      BY <2>1, <2>2
  <1>4. CASE i < j /\ (t = x => p # j)
    <2>1. i \in 1 .. Len(c[x]) /\ j \in i + 1 .. Len(c[x]) + 1 /\ (t = x => p \notin i .. j)
      BY <1>1, <1>4
    <2>2. Rings(L, d) /\ Retied(L, c, d, t, p, x, i, j)
      <3>1. CASE t # x
        BY <2>1, <3>1, MovedToAnother DEF IsMoved
      <3>2. CASE t = x /\ p <= i /\ MovesWithin(L, c, d, t, p, i, j)
        <4>1. p \in 1 .. Len(c[t]) /\ i \in p + 1 .. Len(c[t]) /\ j \in i + 1 .. Len(c[t]) + 1
          BY <1>1, <2>1, <3>2
        <4>2. QED
          BY <3>2, <4>1, MovedWithin
      <3>3. CASE t = x /\ j <= p /\ MovesWithin(L, c, d, t, i, j, p)
        <4>1. i \in 1 .. Len(c[t]) /\ j \in i + 1 .. Len(c[t]) /\ p \in j + 1 .. Len(c[t]) + 1
          BY <1>1, <1>4, <2>1, <3>3
        <4>2. QED
          BY <3>3, <4>1, MovedWithin
      <3>4. QED
        BY <3>1, <3>2, <3>3 DEF IsMoved
    <2>3. QED
      BY <2>1, <2>2, SplicedTied
  <1>5. QED
    BY <1>1, <1>2, <1>3, <1>4

LEMMA SpliceOneKeeps ==
    ASSUME NEW L, L \subseteq Lists \cup {Tmp}, NEW c, Rings(L, c),
           NEW l, LinkTypes(l), Tied(l, L, c), NEW t \in L, NEW x \in L,
           NEW p \in 1 .. Len(c[t]) + 1, NEW i \in 1 .. Len(c[x]), NEW d,
           IF t = x /\ p = i THEN d = c ELSE IsMoved(L, c, d, t, p, x, i, i + 1)
    PROVE  LET n == SplicedOne(l, Node(c, t, p), Node(c, x, i))
           IN  Rings(L, d) /\ LinkTypes(n) /\ Tied(n, L, d)
  <1> DEFINE n == SplicedOne(l, Node(c, t, p), Node(c, x, i))
  <1>1. /\ Len(c[t]) \in Nat /\ Len(c[x]) \in Nat /\ p \in Nat /\ i \in Nat
        /\ p > 0 /\ i > 0 /\ i <= Len(c[x]) /\ p <= Len(c[t]) + 1
        /\ i \in 1 .. Len(c[x]) + 1 /\ i + 1 \in i .. Len(c[x]) + 1 /\ i \in 0 .. Len(c[x])
    <2>1. Len(c[t]) \in Nat /\ Len(c[x]) \in Nat
      BY RingTypes
    <2>2. QED
      BY <2>1
  <1>2. l.next[Node(c, x, i)] = Node(c, x, i + 1)
    BY <1>1 DEF Tied
  <1>3. CASE t = x /\ p = i
    <2>1. n = l
      BY <1>3 DEF SplicedOne
    <2>2. QED
      BY <1>3, <2>1
  <1>4. CASE ~(t = x /\ p = i)
    <2>1. Node(c, t, p) # Node(c, x, i)
      <3>1. ASSUME Node(c, t, p) = Node(c, x, i) PROVE FALSE
        <4>1. t = x /\ p = i
          BY <1>1, <3>1, NodeOnce
        <4>2. QED
          BY <1>4, <4>1
      <3>2. QED
        BY <3>1
    <2>2. n = Spliced(l, Node(c, t, p), Node(c, x, i), Node(c, x, i + 1))
      BY <1>2, <2>1 DEF SplicedOne, Spliced
    <2>3. t = x => p \notin i .. i + 1 - 1
      BY <1>1, <1>4
    <2> DEFINE j == i + 1
    <2>4. j \in i .. Len(c[x]) + 1 /\ (t = x => p \notin i .. j - 1)
      BY <1>1, <2>3
    <2>5. IsMoved(L, c, d, t, p, x, i, j)
      BY <1>4
    <2>6. n = Spliced(l, Node(c, t, p), Node(c, x, i), Node(c, x, j))
      BY <2>2
    <2> HIDE DEF j, n
    <2>7. Rings(L, d) /\ LinkTypes(n) /\ Tied(n, L, d)
      BY <1>1, <2>4, <2>5, <2>6, SpliceKeeps
    <2>8. QED
      BY <2>7 DEF n
  <1>5. QED
    BY <1>3, <1>4

LEMMA SpliceAllKeeps ==
    ASSUME NEW L, L \subseteq Lists \cup {Tmp}, NEW c, Rings(L, c),
           NEW l, LinkTypes(l), Tied(l, L, c), NEW t \in L, NEW x \in L, t # x,
           NEW p \in 1 .. Len(c[t]) + 1, NEW d,
           MovesTo(L, c, d, t, x, p, 1, Len(c[x]) + 1)
    PROVE  LET n == SplicedAll(l, Node(c, t, p), x)
           IN  Rings(L, d) /\ LinkTypes(n) /\ Tied(n, L, d)
  <1> DEFINE n == SplicedAll(l, Node(c, t, p), x)
             j == Len(c[x]) + 1
  <1>1. /\ Len(c[x]) \in Nat /\ 0 \in 0 .. Len(c[x])
        /\ 1 \in 1 .. Len(c[x]) + 1 /\ j \in 1 .. Len(c[x]) + 1
    <2>1. Len(c[x]) \in Nat
      BY RingTypes
    <2>2. QED
      BY <2>1
  <1>2. Node(c, x, 0) = x /\ Node(c, x, j) = x
    BY <1>1 DEF Node
  <1>3. l.next[x] = Node(c, x, 1)
    <2>1. l.next[Node(c, x, 0)] = Node(c, x, 0 + 1) /\ 0 + 1 = 1
      BY <1>1 DEF Tied
    <2>2. QED
      BY <1>2, <2>1
  <1>4. n = Spliced(l, Node(c, t, p), Node(c, x, 1), Node(c, x, j))
    BY <1>2, <1>3 DEF SplicedAll, Spliced
  <1>5. IsMoved(L, c, d, t, p, x, 1, j)
    BY DEF IsMoved
  <1> HIDE DEF j, n
  <1>6. Rings(L, d) /\ LinkTypes(n) /\ Tied(n, L, d)
    BY <1>1, <1>4, <1>5, SpliceKeeps
  <1>7. QED
    BY <1>6 DEF n

-----------------------------------------------------------------------------
(* insert() and erase().                                                   *)

InsertsAt(L, c, d, t, i, e) ==
    /\ d \in [L -> Seq(Nodes)] /\ \A u \in L \ {t} : d[u] = c[u]
    /\ Len(d[t]) = Len(c[t]) + 1
    /\ \A m \in 1 .. Len(d[t]) :
            d[t][m] = IF m < i THEN c[t][m] ELSE IF m = i THEN e ELSE c[t][m - 1]

LEMMA InsertKeeps ==
    ASSUME NEW L, L \subseteq Lists \cup {Tmp}, NEW c, Rings(L, c),
           NEW l, LinkTypes(l), Tied(l, L, c), NEW t \in L,
           NEW i \in 1 .. Len(c[t]) + 1, NEW e \in Nodes,
           \A u \in L : \A k \in 1 .. Len(c[u]) : c[u][k] # e,
           NEW d, InsertsAt(L, c, d, t, i, e)
    PROVE  LET n == Inserted(l, Node(c, t, i), e)
           IN  Rings(L, d) /\ LinkTypes(n) /\ Tied(n, L, d)
  <1> DEFINE n == Inserted(l, Node(c, t, i), e)
             P == Node(c, t, i)  PP == Node(c, t, i - 1)
  <1>1. /\ Len(c[t]) \in Nat /\ i \in Nat /\ i - 1 \in Nat /\ i > 0 /\ i <= Len(c[t]) + 1
        /\ i - 1 + 1 = i /\ i - 1 \in 0 .. Len(c[t])
    <2>1. Len(c[t]) \in Nat
      BY RingTypes
    <2>2. QED
      BY <2>1
  <1>2. /\ \A u \in L : /\ Len(c[u]) \in Nat /\ Len(d[u]) \in Nat
                        /\ \A k \in Nat : Node(c, u, k) \in ListNodes /\ Node(c, u, k) # e
        /\ e \in ListNodes /\ c \in [L -> Seq(Nodes)]
    <2>1. e \in ListNodes /\ c \in [L -> Seq(Nodes)]
      BY DEF ListNodes, Rings
    <2>2. ASSUME NEW u \in L
          PROVE  /\ Len(c[u]) \in Nat /\ Len(d[u]) \in Nat
                 /\ \A k \in Nat : Node(c, u, k) \in ListNodes /\ Node(c, u, k) # e
      <3>1. Len(c[u]) \in Nat /\ u \notin Nodes /\ \A k \in Nat : Node(c, u, k) \in ListNodes
        BY RingTypes
      <3>2. Len(d[u]) \in Nat
        BY LenProperties DEF InsertsAt
      <3>3. ASSUME NEW k \in Nat PROVE Node(c, u, k) # e
        BY <3>1 DEF Node
      <3>4. QED
        BY <3>1, <3>2, <3>3
    <2>3. QED
      BY <2>1, <2>2
  <1>3. l.prev[P] = PP
    <2>1. l.prev[Node(c, t, i - 1 + 1)] = Node(c, t, i - 1)
      BY <1>1 DEF Tied
    <2>2. QED
      BY <1>1, <2>1
  <1>4. P \in ListNodes /\ PP \in ListNodes /\ P # e /\ PP # e
    BY <1>1, <1>2
  <1>5. /\ d \in [L -> Seq(Nodes)] /\ \A u \in L \ {t} : d[u] = c[u]
        /\ Len(d[t]) = Len(c[t]) + 1
        /\ \A m \in 1 .. Len(d[t]) :
                d[t][m] = IF m < i THEN c[t][m] ELSE IF m = i THEN e ELSE c[t][m - 1]
    BY DEF InsertsAt
  <1>6. ASSUME NEW m \in 1 .. Len(d[t])
        PROVE  /\ m < i => m \in 1 .. Len(c[t]) /\ d[t][m] = c[t][m]
               /\ m = i => d[t][m] = e
               /\ i < m => m - 1 \in 1 .. Len(c[t]) /\ d[t][m] = c[t][m - 1]
    <2>1. m \in Nat /\ m > 0 /\ m <= Len(c[t]) + 1
      BY <1>1, <1>5
    <2>2. /\ m < i => m \in 1 .. Len(c[t])
          /\ i < m => m - 1 \in 1 .. Len(c[t]) /\ ~(m < i) /\ ~(m = i)
          /\ m = i => ~(m < i)
      BY <1>1, <2>1
    <2>3. QED
      BY <1>5, <2>2
  <1>7. ASSUME NEW m \in Nat
        PROVE  /\ m < i => Node(d, t, m) = Node(c, t, m)
               /\ m = i => Node(d, t, m) = e
               /\ i < m => Node(d, t, m) = Node(c, t, m - 1)
    <2>1. CASE m < i
      <3>1. m = 0 \/ (m \in 1 .. Len(c[t]) /\ m \in 1 .. Len(d[t]))
        BY <1>1, <1>5, <2>1
      <3>2. m # i /\ ~(i < m)
        BY <1>1, <2>1
      <3>3. QED
        BY <1>6, <2>1, <3>1, <3>2 DEF Node
    <2>2. CASE m = i
      <3>1. m \in 1 .. Len(d[t]) /\ ~(m < i) /\ ~(i < m)
        BY <1>1, <1>5, <2>2
      <3>2. QED
        BY <1>6, <2>2, <3>1 DEF Node
    <2>3. CASE i < m /\ m <= Len(d[t])
      <3>1. m \in 1 .. Len(d[t]) /\ ~(m < i) /\ m # i
        BY <1>1, <2>3
      <3>2. QED
        BY <1>6, <2>3, <3>1 DEF Node
    <2>4. CASE i < m /\ Len(d[t]) < m
      <3>1. m \notin 1 .. Len(d[t]) /\ m - 1 \notin 1 .. Len(c[t]) /\ ~(m < i) /\ m # i
        BY <1>1, <1>5, <2>4
      <3>2. QED
        BY <3>1 DEF Node
    <2>5. QED
      BY <1>1, <1>2, <2>1, <2>2, <2>3, <2>4
  <1>8. Rings(L, d)
    <2>1. ASSUME NEW u \in L, NEW v \in L, NEW m \in 1 .. Len(d[u]), NEW k \in 1 .. Len(d[v]),
                 d[u][m] = d[v][k]
          PROVE  u = v /\ m = k
      <3>1. m \in Nat /\ k \in Nat
        BY <1>2
      <3>2. CASE u = t /\ v = t
        <4>1. CASE m = i
          <5>1. d[t][m] = e /\ d[t][k] = e /\ k \in 1 .. Len(d[t])
            BY <1>6, <2>1, <3>2, <4>1
          <5>2. ~(k < i) /\ ~(i < k)
            BY <1>6, <5>1
          <5>3. QED
            BY <1>1, <3>1, <3>2, <4>1, <5>2
        <4>2. CASE k = i
          <5>1. d[t][k] = e /\ d[t][m] = e /\ m \in 1 .. Len(d[t])
            BY <1>6, <2>1, <3>2, <4>2
          <5>2. ~(m < i) /\ ~(i < m)
            BY <1>6, <5>1
          <5>3. QED
            BY <1>1, <3>1, <3>2, <4>2, <5>2
        <4>3. CASE m < i
          BY <1>1, <1>6, <2>1, <3>1, <3>2, <4>2, <4>3 DEF Rings, Once
        <4>4. CASE i < m
          BY <1>1, <1>6, <2>1, <3>1, <3>2, <4>2, <4>4 DEF Rings, Once
        <4>5. QED
          BY <1>1, <3>1, <4>1, <4>3, <4>4
      <3>3. CASE u = t /\ v # t
        <4>1. k \in 1 .. Len(c[v]) /\ d[v][k] = c[v][k]
          BY <1>5, <3>3
        <4>2. QED
          BY <1>1, <1>6, <2>1, <3>1, <3>3, <4>1 DEF Rings, Once
      <3>4. CASE u # t /\ v = t
        <4>1. m \in 1 .. Len(c[u]) /\ d[u][m] = c[u][m]
          BY <1>5, <3>4
        <4>2. QED
          BY <1>1, <1>6, <2>1, <3>1, <3>4, <4>1 DEF Rings, Once
      <3>5. CASE u # t /\ v # t
        <4>1. d[u] = c[u] /\ d[v] = c[v]
          BY <1>5, <3>5
        <4>2. QED
          BY <2>1, <4>1 DEF Rings, Once
      <3>6. QED
        BY <3>2, <3>3, <3>4, <3>5
    <2>2. QED
      BY <1>5, <2>1 DEF Rings, Once
  <1> HIDE DEF P, PP
  <1>9. /\ n.next = [l.next EXCEPT ![e] = P, ![PP] = e]
        /\ n.prev = [l.prev EXCEPT ![e] = PP, ![P] = e]
    BY <1>3 DEF Inserted, P
  <1> HIDE DEF n
  <1>10. /\ n.next[e] = P /\ n.next[PP] = e /\ n.prev[e] = PP /\ n.prev[P] = e
         /\ \A a \in ListNodes \ {e, PP} : n.next[a] = l.next[a]
         /\ \A a \in ListNodes \ {e, P} : n.prev[a] = l.prev[a]
    BY <1>2, <1>4, <1>9 DEF LinkTypes
  <1>11. LinkTypes(n)
    <2>1. /\ l.next \in [ListNodes -> ListNodes \cup {"null"}]
          /\ l.prev \in [ListNodes -> ListNodes \cup {"null"}]
      BY DEF LinkTypes
    <2>1a. e \in ListNodes
      BY <1>2
    <2>2. n.next \in [ListNodes -> ListNodes \cup {"null"}]
      BY <1>4, <1>9, <2>1, <2>1a
    <2>3. n.prev \in [ListNodes -> ListNodes \cup {"null"}]
      BY <1>4, <1>9, <2>1, <2>1a
    <2>4. QED
      BY <2>2, <2>3 DEF LinkTypes
  <1>12. ASSUME NEW v \in L, NEW k \in Nat, k <= Len(c[v]), v = t => k # i - 1
         PROVE  /\ n.next[Node(c, v, k)] = Node(c, v, k + 1)
                /\ n.prev[Node(c, v, k + 1)] = Node(c, v, k)
    <2>1. k \in 0 .. Len(c[v]) /\ k + 1 \in Nat /\ k + 1 \in 1 .. Len(c[v]) + 1
      BY <1>2, <1>12
    <2>2. ASSUME Node(c, v, k) = PP PROVE FALSE
      <3>1. v = t /\ k = i - 1
        <4>1. Node(c, v, k) = Node(c, t, i - 1) /\ i - 1 <= Len(c[t])
          BY <1>1, <2>2 DEF PP
        <4>2. QED
          BY <1>1, <1>12, <4>1, NodeOnce
      <3>2. QED
        BY <1>12, <3>1
    <2>3. ASSUME Node(c, v, k + 1) = P PROVE FALSE
      <3>1. v = t /\ k + 1 = i
        <4>1. Node(c, v, k + 1) = Node(c, t, i)
          BY <2>3 DEF P
        <4>2. QED
          BY <1>1, <2>1, <4>1, NodeOnce
      <3>2. QED
        BY <1>1, <1>12, <3>1
    <2>4. /\ Node(c, v, k) \in ListNodes \ {e, PP} /\ Node(c, v, k + 1) \in ListNodes \ {e, P}
      BY <1>2, <2>1, <2>2, <2>3
    <2>5. QED
      BY <1>10, <2>1, <2>4 DEF Tied
  <1>13. ASSUME NEW u \in L, NEW m \in 0 .. Len(d[u])
         PROVE  /\ n.next[Node(d, u, m)] = Node(d, u, m + 1)
                /\ n.prev[Node(d, u, m + 1)] = Node(d, u, m)
    <2>1. m \in Nat /\ m + 1 \in Nat /\ m <= Len(d[u])
      BY <1>2
    <2>2. CASE u # t
      <3>1. d[u] = c[u] /\ Node(d, u, m) = Node(c, u, m) /\ Node(d, u, m + 1) = Node(c, u, m + 1)
        BY <1>5, <2>2 DEF Node
      <3>2. QED
        BY <1>12, <2>1, <2>2, <3>1
    <2>3. CASE u = t /\ m + 1 < i
      <3>1. m < i /\ m <= Len(c[t]) /\ m # i - 1
        BY <1>1, <2>1, <2>3
      <3>2. Node(d, u, m) = Node(c, t, m) /\ Node(d, u, m + 1) = Node(c, t, m + 1)
        BY <1>7, <2>1, <2>3, <3>1
      <3>3. QED
        BY <1>12, <2>1, <3>1, <3>2
    <2>4. CASE u = t /\ m + 1 = i
      <3>1. m < i /\ m = i - 1
        BY <1>1, <2>1, <2>4
      <3>2. Node(d, u, m) = PP /\ Node(d, u, m + 1) = e
        BY <1>7, <2>1, <2>4, <3>1 DEF PP
      <3>3. QED
        BY <1>10, <3>2
    <2>5. CASE u = t /\ m = i
      <3>1. i < m + 1 /\ m + 1 - 1 = i
        BY <1>1, <2>5
      <3>2. Node(d, u, m) = e /\ Node(d, u, m + 1) = P
        <4>1. \A k \in Nat : i < k => Node(d, t, k) = Node(c, t, k - 1)
          BY <1>7
        <4>2. QED
          BY <1>7, <2>1, <2>5, <3>1, <4>1 DEF P
      <3>3. QED
        BY <1>10, <3>2
    <2>6. CASE u = t /\ i < m
      <3>1. /\ i < m + 1 /\ m + 1 - 1 = m - 1 + 1 /\ m - 1 \in Nat /\ m - 1 <= Len(c[t])
            /\ m - 1 # i - 1
        BY <1>1, <1>5, <2>1, <2>6
      <3>2. Node(d, u, m) = Node(c, t, m - 1) /\ Node(d, u, m + 1) = Node(c, t, m - 1 + 1)
        <4>1. \A k \in Nat : i < k => Node(d, t, k) = Node(c, t, k - 1)
          BY <1>7
        <4>2. QED
          BY <2>1, <2>6, <3>1, <4>1
      <3>3. QED
        BY <1>12, <3>1, <3>2
    <2>7. QED
      BY <1>1, <2>1, <2>2, <2>3, <2>4, <2>5, <2>6
  <1>14. QED
    BY <1>8, <1>11, <1>13 DEF Tied, n, P

RemovesAt(L, c, d, t, i) ==
    /\ d \in [L -> Seq(Nodes)] /\ \A u \in L \ {t} : d[u] = c[u]
    /\ Len(d[t]) = Len(c[t]) - 1
    /\ \A m \in 1 .. Len(d[t]) : d[t][m] = IF m < i THEN c[t][m] ELSE c[t][m + 1]

LEMMA EraseKeeps ==
    ASSUME NEW L, L \subseteq Lists \cup {Tmp}, NEW c, Rings(L, c),
           NEW l, LinkTypes(l), Tied(l, L, c), NEW t \in L, NEW i \in 1 .. Len(c[t]),
           NEW d, RemovesAt(L, c, d, t, i)
    PROVE  LET n == Erased(l, Node(c, t, i))
           IN  Rings(L, d) /\ LinkTypes(n) /\ Tied(n, L, d)
  <1> DEFINE n == Erased(l, Node(c, t, i))
             P == Node(c, t, i + 1)  PP == Node(c, t, i - 1)
  <1>1. /\ Len(c[t]) \in Nat /\ i \in Nat /\ i - 1 \in Nat /\ i > 0 /\ i <= Len(c[t])
        /\ i - 1 + 1 = i /\ i - 1 \in 0 .. Len(c[t]) /\ i \in 0 .. Len(c[t])
        /\ i + 1 \in Nat /\ i + 1 \in 1 .. Len(c[t]) + 1
    <2>1. Len(c[t]) \in Nat
      BY RingTypes
    <2>2. QED
      BY <2>1
  <1>2. /\ \A u \in L : /\ Len(c[u]) \in Nat /\ Len(d[u]) \in Nat
                        /\ \A k \in Nat : Node(c, u, k) \in ListNodes
        /\ c \in [L -> Seq(Nodes)]
    <2>1. c \in [L -> Seq(Nodes)]
      BY DEF Rings
    <2>2. ASSUME NEW u \in L
          PROVE  /\ Len(c[u]) \in Nat /\ Len(d[u]) \in Nat
                 /\ \A k \in Nat : Node(c, u, k) \in ListNodes
      <3>1. Len(c[u]) \in Nat /\ \A k \in Nat : Node(c, u, k) \in ListNodes
        BY RingTypes
      <3>2. Len(d[u]) \in Nat
        BY LenProperties DEF RemovesAt
      <3>3. QED
        BY <3>1, <3>2
    <2>3. QED
      BY <2>1, <2>2
  <1>3. l.prev[Node(c, t, i)] = PP /\ l.next[Node(c, t, i)] = P
    <2>1. l.prev[Node(c, t, i - 1 + 1)] = Node(c, t, i - 1)
      BY <1>1 DEF Tied
    <2>2. l.next[Node(c, t, i)] = Node(c, t, i + 1)
      BY <1>1 DEF Tied
    <2>3. QED
      BY <1>1, <2>1, <2>2
  <1>4. P \in ListNodes /\ PP \in ListNodes
    BY <1>1, <1>2
  <1>5. /\ d \in [L -> Seq(Nodes)] /\ \A u \in L \ {t} : d[u] = c[u]
        /\ Len(d[t]) = Len(c[t]) - 1
        /\ \A m \in 1 .. Len(d[t]) : d[t][m] = IF m < i THEN c[t][m] ELSE c[t][m + 1]
    BY DEF RemovesAt
  <1>6. ASSUME NEW m \in 1 .. Len(d[t])
        PROVE  /\ m < i => m \in 1 .. Len(c[t]) /\ d[t][m] = c[t][m]
               /\ i <= m => m + 1 \in 1 .. Len(c[t]) /\ d[t][m] = c[t][m + 1]
    <2>1. m \in Nat /\ m > 0 /\ m <= Len(c[t]) - 1
      BY <1>1, <1>5
    <2>2. /\ m < i => m \in 1 .. Len(c[t])
          /\ i <= m => m + 1 \in 1 .. Len(c[t]) /\ ~(m < i)
      BY <1>1, <2>1
    <2>3. QED
      BY <1>5, <2>2
  <1>7. ASSUME NEW m \in Nat
        PROVE  /\ m < i => Node(d, t, m) = Node(c, t, m)
               /\ i <= m => Node(d, t, m) = Node(c, t, m + 1)
    <2>1. CASE m < i
      <3>1. m = 0 \/ (m \in 1 .. Len(c[t]) /\ m \in 1 .. Len(d[t]))
        BY <1>1, <1>5, <2>1
      <3>2. ~(i <= m)
        BY <1>1, <2>1
      <3>3. QED
        BY <1>6, <2>1, <3>1, <3>2 DEF Node
    <2>2. CASE i <= m /\ m <= Len(d[t])
      <3>1. m \in 1 .. Len(d[t]) /\ ~(m < i)
        BY <1>1, <2>2
      <3>2. QED
        BY <1>6, <2>2, <3>1 DEF Node
    <2>3. CASE i <= m /\ Len(d[t]) < m
      <3>1. m \notin 1 .. Len(d[t]) /\ m + 1 \notin 1 .. Len(c[t]) /\ ~(m < i)
        BY <1>1, <1>5, <2>3
      <3>2. QED
        BY <3>1 DEF Node
    <2>4. QED
      BY <1>1, <1>2, <2>1, <2>2, <2>3
  <1>8. Rings(L, d)
    <2>1. ASSUME NEW u \in L, NEW v \in L, NEW m \in 1 .. Len(d[u]), NEW k \in 1 .. Len(d[v]),
                 d[u][m] = d[v][k]
          PROVE  u = v /\ m = k
      <3>1. m \in Nat /\ k \in Nat
        BY <1>2
      <3> DEFINE W(w, q) == IF w = t /\ i <= q THEN q + 1 ELSE q
      <3>2. ASSUME NEW w \in L, NEW q \in 1 .. Len(d[w])
            PROVE  W(w, q) \in 1 .. Len(c[w]) /\ d[w][q] = c[w][W(w, q)]
        <4>1. CASE w = t
          <5>1. q < i \/ i <= q
            BY <1>1, <1>2
          <5>2. QED
            BY <1>1, <1>6, <4>1, <5>1
        <4>2. CASE w # t
          BY <1>5, <4>2
        <4>3. QED
          BY <4>1, <4>2
      <3> HIDE DEF W
      <3>3. W(u, m) \in 1 .. Len(c[u]) /\ W(v, k) \in 1 .. Len(c[v])
            /\ c[u][W(u, m)] = c[v][W(v, k)]
        BY <2>1, <3>2
      <3>4. u = v /\ W(u, m) = W(v, k)
        BY <3>3 DEF Rings, Once
      <3>5. m = k
        BY <1>1, <3>1, <3>4 DEF W
      <3>6. QED
        BY <3>4, <3>5
    <2>2. QED
      BY <1>5, <2>1 DEF Rings, Once
  <1> HIDE DEF P, PP
  <1>9. /\ n.next = [l.next EXCEPT ![PP] = P] /\ n.prev = [l.prev EXCEPT ![P] = PP]
    BY <1>3 DEF Erased
  <1> HIDE DEF n
  <1>10. /\ n.next[PP] = P /\ n.prev[P] = PP
         /\ \A a \in ListNodes \ {PP} : n.next[a] = l.next[a]
         /\ \A a \in ListNodes \ {P} : n.prev[a] = l.prev[a]
    BY <1>4, <1>9 DEF LinkTypes
  <1>11. LinkTypes(n)
    <2>1. /\ l.next \in [ListNodes -> ListNodes \cup {"null"}]
          /\ l.prev \in [ListNodes -> ListNodes \cup {"null"}]
      BY DEF LinkTypes
    <2>2. n.next \in [ListNodes -> ListNodes \cup {"null"}]
      BY <1>4, <1>9, <2>1
    <2>3. n.prev \in [ListNodes -> ListNodes \cup {"null"}]
      BY <1>4, <1>9, <2>1
    <2>4. QED
      BY <2>2, <2>3 DEF LinkTypes
  <1>12. ASSUME NEW v \in L, NEW k \in Nat, k <= Len(c[v]), v = t => k # i - 1 /\ k # i
         PROVE  /\ n.next[Node(c, v, k)] = Node(c, v, k + 1)
                /\ n.prev[Node(c, v, k + 1)] = Node(c, v, k)
    <2>1. k \in 0 .. Len(c[v]) /\ k + 1 \in Nat /\ k + 1 \in 1 .. Len(c[v]) + 1
      BY <1>2, <1>12
    <2>2. ASSUME Node(c, v, k) = PP PROVE FALSE
      <3>1. v = t /\ k = i - 1
        <4>1. Node(c, v, k) = Node(c, t, i - 1) /\ i - 1 <= Len(c[t])
          BY <1>1, <2>2 DEF PP
        <4>2. QED
          BY <1>1, <1>12, <4>1, NodeOnce
      <3>2. QED
        BY <1>12, <3>1
    <2>3. ASSUME Node(c, v, k + 1) = P PROVE FALSE
      <3>1. v = t /\ k + 1 = i + 1
        <4>1. Node(c, v, k + 1) = Node(c, t, i + 1)
          BY <2>3 DEF P
        <4>2. QED
          BY <1>1, <2>1, <4>1, NodeOnce
      <3>2. QED
        BY <1>1, <1>12, <3>1
    <2>4. /\ Node(c, v, k) \in ListNodes \ {PP} /\ Node(c, v, k + 1) \in ListNodes \ {P}
      BY <1>2, <2>1, <2>2, <2>3
    <2>5. QED
      BY <1>10, <2>1, <2>4 DEF Tied
  <1>13. ASSUME NEW u \in L, NEW m \in 0 .. Len(d[u])
         PROVE  /\ n.next[Node(d, u, m)] = Node(d, u, m + 1)
                /\ n.prev[Node(d, u, m + 1)] = Node(d, u, m)
    <2>1. m \in Nat /\ m + 1 \in Nat /\ m <= Len(d[u])
      BY <1>2
    <2>2. CASE u # t
      <3>1. d[u] = c[u] /\ Node(d, u, m) = Node(c, u, m) /\ Node(d, u, m + 1) = Node(c, u, m + 1)
        BY <1>5, <2>2 DEF Node
      <3>2. QED
        BY <1>12, <2>1, <2>2, <3>1
    <2>3. CASE u = t /\ m + 1 < i
      <3>1. m < i /\ m <= Len(c[t]) /\ m # i - 1 /\ m # i
        BY <1>1, <2>1, <2>3
      <3>2. Node(d, u, m) = Node(c, t, m) /\ Node(d, u, m + 1) = Node(c, t, m + 1)
        BY <1>7, <2>1, <2>3, <3>1
      <3>3. QED
        BY <1>12, <2>1, <3>1, <3>2
    <2>4. CASE u = t /\ m + 1 = i
      <3>1. m < i /\ m = i - 1 /\ i <= i
        BY <1>1, <2>1, <2>4
      <3>2. Node(d, u, m) = PP /\ Node(d, u, m + 1) = P
        BY <1>1, <1>7, <2>1, <2>4, <3>1 DEF PP, P
      <3>3. QED
        BY <1>10, <3>2
    <2>5. CASE u = t /\ i <= m
      <3>1. i <= m + 1 /\ m + 1 <= Len(c[t]) /\ m + 1 # i - 1 /\ m + 1 # i
        BY <1>1, <1>5, <2>1, <2>5
      <3>2. Node(d, u, m) = Node(c, t, m + 1) /\ Node(d, u, m + 1) = Node(c, t, m + 1 + 1)
        <4>1. \A k \in Nat : i <= k => Node(d, t, k) = Node(c, t, k + 1)
          BY <1>7
        <4>2. QED
          BY <2>1, <2>5, <3>1, <4>1
      <3>3. QED
        BY <1>12, <2>1, <3>1, <3>2
    <2>6. QED
      BY <1>1, <2>1, <2>2, <2>3, <2>4, <2>5
  <1>14. QED
    BY <1>8, <1>11, <1>13 DEF Tied, n

LEMMA InsertAtInserts ==
    ASSUME contents \in [Lists -> Seq(Nodes)], NEW t \in Lists,
           NEW i \in 1 .. Len(contents[t]) + 1, NEW e \in Nodes
    PROVE  InsertsAt(Lists, contents, [contents EXCEPT ![t] = InsertAt(contents[t], i, e)],
                     t, i, e)
  <1> DEFINE T == contents[t]  r == InsertAt(T, i, e)  d == [contents EXCEPT ![t] = r]
             U == SubSeq(T, 1, i - 1)  B == <<e>>  C == SubSeq(T, i, Len(T))
  <1>1. T \in Seq(Nodes) /\ Len(T) \in Nat /\ i \in Nat /\ i - 1 \in Nat /\ i > 0 /\ i <= Len(T) + 1
    <2>1. T \in Seq(Nodes) /\ Len(T) \in Nat
      BY LenProperties
    <2>2. QED
      BY <2>1
  <1>2. U \in Seq(Nodes) /\ Len(U) = i - 1 /\ \A k \in 1 .. i - 1 : U[k] = T[k]
    <2>1. i \in 1 .. Len(T) + 1
      BY <1>1
    <2>2. QED
      BY <1>1, <2>1, FirstPart
  <1>3. B \in Seq(Nodes) /\ Len(B) = 1 /\ B[1] = e
    OBVIOUS
  <1>4. /\ C \in Seq(Nodes) /\ Len(C) = Len(T) + 1 - i
        /\ \A k \in 1 .. Len(T) + 1 - i : C[k] = T[k + (i - 1)]
    BY <1>1, LastPart
  <1>5. r = U \o B \o C
    BY DEF InsertAt
  <1>6. d[t] = r /\ \A u \in Lists \ {t} : d[u] = contents[u]
    OBVIOUS
  <1> HIDE DEF U, B, C, r, T
  <1>7. /\ r \in Seq(Nodes) /\ Len(r) = (i - 1) + 1 + (Len(T) + 1 - i)
        /\ \A m \in 1 .. (i - 1) + 1 + (Len(T) + 1 - i) :
                r[m] = IF m <= i - 1 THEN U[m]
                       ELSE IF m <= (i - 1) + 1 THEN B[m - (i - 1)] ELSE C[m - ((i - 1) + 1)]
    <2>1. U \in Seq(Nodes) /\ B \in Seq(Nodes) /\ C \in Seq(Nodes)
      BY <1>2, <1>3, <1>4
    <2>2. /\ U \o B \o C \in Seq(Nodes) /\ Len(U \o B \o C) = Len(U) + Len(B) + Len(C)
          /\ \A m \in 1 .. Len(U) + Len(B) + Len(C) :
                (U \o B \o C)[m] = IF m <= Len(U) THEN U[m]
                                   ELSE IF m <= Len(U) + Len(B) THEN B[m - Len(U)]
                                   ELSE C[m - (Len(U) + Len(B))]
      BY <2>1, JoinedThree
    <2>3. Len(U) = i - 1 /\ Len(B) = 1 /\ Len(C) = Len(T) + 1 - i
      BY <1>2, <1>3, <1>4
    <2>4. QED
      BY <1>5, <2>2, <2>3
  <1>8. (i - 1) + 1 + (Len(T) + 1 - i) = Len(T) + 1
    BY <1>1
  <1>9. ASSUME NEW m \in 1 .. Len(T) + 1
        PROVE  r[m] = IF m < i THEN T[m] ELSE IF m = i THEN e ELSE T[m - 1]
    <2>1. m \in Nat /\ m > 0 /\ m <= Len(T) + 1
      BY <1>1
    <2>2. r[m] = IF m <= i - 1 THEN U[m]
                 ELSE IF m <= (i - 1) + 1 THEN B[m - (i - 1)] ELSE C[m - ((i - 1) + 1)]
      BY <1>7, <1>8
    <2>3. CASE m < i
      <3>1. m <= i - 1 /\ m \in 1 .. i - 1
        BY <1>1, <2>1, <2>3
      <3>2. QED
        BY <1>2, <2>2, <2>3, <3>1
    <2>4. CASE m = i
      <3>1. ~(m <= i - 1) /\ m <= (i - 1) + 1 /\ m - (i - 1) = 1 /\ ~(m < i)
        BY <1>1, <2>1, <2>4
      <3>2. QED
        BY <1>3, <2>2, <2>4, <3>1
    <2>5. CASE i < m
      <3>1. /\ ~(m <= i - 1) /\ ~(m <= (i - 1) + 1) /\ ~(m < i) /\ m # i
            /\ m - ((i - 1) + 1) \in 1 .. Len(T) + 1 - i /\ m - ((i - 1) + 1) + (i - 1) = m - 1
        BY <1>1, <2>1, <2>5
      <3>2. r[m] = C[m - ((i - 1) + 1)] /\ C[m - ((i - 1) + 1)] = T[m - ((i - 1) + 1) + (i - 1)]
        BY <1>4, <2>2, <3>1
      <3>3. QED
        BY <3>1, <3>2
    <2>6. QED
      BY <1>1, <2>1, <2>3, <2>4, <2>5
  <1>10. d \in [Lists -> Seq(Nodes)]
    BY <1>7
  <1> HIDE DEF d
  <1>11. Len(d[t]) = Len(T) + 1
    BY <1>6, <1>7, <1>8
  <1>12. InsertsAt(Lists, contents, d, t, i, e)
    BY <1>6, <1>9, <1>10, <1>11 DEF InsertsAt, T
  <1>13. QED
    BY <1>12 DEF d, r, T

LEMMA RemoveAtRemoves ==
    ASSUME contents \in [Lists -> Seq(Nodes)], NEW t \in Lists,
           NEW i \in 1 .. Len(contents[t])
    PROVE  RemovesAt(Lists, contents, [contents EXCEPT ![t] = RemoveAt(contents[t], i)], t, i)
  <1> DEFINE T == contents[t]  r == RemoveAt(T, i)  d == [contents EXCEPT ![t] = r]
             U == SubSeq(T, 1, i - 1)  C == SubSeq(T, i + 1, Len(T))
  <1>1. /\ T \in Seq(Nodes) /\ Len(T) \in Nat
        /\ i \in Nat /\ i - 1 \in Nat /\ i + 1 \in Nat /\ i > 0 /\ i <= Len(T)
    <2>1. T \in Seq(Nodes) /\ Len(T) \in Nat
      BY LenProperties
    <2>2. QED
      BY <2>1
  <1>2. U \in Seq(Nodes) /\ Len(U) = i - 1 /\ \A k \in 1 .. i - 1 : U[k] = T[k]
    <2>1. i \in 1 .. Len(T) + 1
      BY <1>1
    <2>2. QED
      BY <1>1, <2>1, FirstPart
  <1>3. /\ C \in Seq(Nodes) /\ Len(C) = Len(T) - i
        /\ \A k \in 1 .. Len(T) - i : C[k] = T[k + i]
    <2> DEFINE j == i + 1
    <2>1. j \in 1 .. Len(T) + 1 /\ Len(T) + 1 - j = Len(T) - i /\ j - 1 = i
      BY <1>1
    <2> HIDE DEF j, T
    <2>2. /\ SubSeq(T, j, Len(T)) \in Seq(Nodes) /\ Len(SubSeq(T, j, Len(T))) = Len(T) + 1 - j
          /\ \A k \in 1 .. Len(T) + 1 - j : SubSeq(T, j, Len(T))[k] = T[k + (j - 1)]
      BY <1>1, <2>1, LastPart
    <2>3. C = SubSeq(T, j, Len(T))
      BY DEF j
    <2> HIDE DEF C
    <2>4. QED
      BY <2>1, <2>2, <2>3
  <1>4. r = U \o C
    BY DEF RemoveAt
  <1>5. d[t] = r /\ \A u \in Lists \ {t} : d[u] = contents[u]
    OBVIOUS
  <1> HIDE DEF U, C, r, T
  <1>6. /\ r \in Seq(Nodes) /\ Len(r) = (i - 1) + (Len(T) - i)
        /\ \A m \in 1 .. (i - 1) + (Len(T) - i) :
                r[m] = IF m <= i - 1 THEN U[m] ELSE C[m - (i - 1)]
    <2>1. U \in Seq(Nodes) /\ C \in Seq(Nodes)
      BY <1>2, <1>3
    <2>2. /\ U \o C \in Seq(Nodes) /\ Len(U \o C) = Len(U) + Len(C)
          /\ \A m \in 1 .. Len(U) + Len(C) :
                (U \o C)[m] = IF m <= Len(U) THEN U[m] ELSE C[m - Len(U)]
      BY <2>1, JoinedTwo
    <2>3. Len(U) = i - 1 /\ Len(C) = Len(T) - i
      BY <1>2, <1>3
    <2>4. QED
      BY <1>4, <2>2, <2>3
  <1>7. (i - 1) + (Len(T) - i) = Len(T) - 1
    BY <1>1
  <1>8. ASSUME NEW m \in 1 .. Len(T) - 1
        PROVE  r[m] = IF m < i THEN T[m] ELSE T[m + 1]
    <2>1. m \in Nat /\ m > 0 /\ m <= Len(T) - 1
      BY <1>1
    <2>2. r[m] = IF m <= i - 1 THEN U[m] ELSE C[m - (i - 1)]
      BY <1>6, <1>7
    <2>3. CASE m < i
      <3>1. m <= i - 1 /\ m \in 1 .. i - 1
        BY <1>1, <2>1, <2>3
      <3>2. QED
        BY <1>2, <2>2, <2>3, <3>1
    <2>4. CASE i <= m
      <3>1. /\ ~(m <= i - 1) /\ ~(m < i) /\ m - (i - 1) \in 1 .. Len(T) - i
            /\ m - (i - 1) + i = m + 1
        BY <1>1, <2>1, <2>4
      <3>2. r[m] = C[m - (i - 1)] /\ C[m - (i - 1)] = T[m - (i - 1) + i]
        BY <1>3, <2>2, <3>1
      <3>3. QED
        BY <3>1, <3>2
    <2>5. QED
      BY <1>1, <2>1, <2>3, <2>4
  <1>9. d \in [Lists -> Seq(Nodes)]
    BY <1>6
  <1> HIDE DEF d
  <1>10. Len(d[t]) = Len(T) - 1
    BY <1>5, <1>6, <1>7
  <1>11. RemovesAt(Lists, contents, d, t, i)
    BY <1>5, <1>8, <1>9, <1>10 DEF RemovesAt, T
  <1>12. QED
    BY <1>11 DEF d, r, T

-----------------------------------------------------------------------------
(* swap(): three lists that are emptied in turn.                           *)

WithTmp == [u \in Lists \cup {Tmp} |-> IF u = Tmp THEN <<>> ELSE contents[u]]

LEMMA EmptiedKeeps ==
    ASSUME Rings(Lists, contents), NEW l, LinkTypes(l), Tied(l, Lists, contents)
    PROVE  LET n == Emptied(l, Tmp)
           IN  /\ Rings(Lists \cup {Tmp}, WithTmp)
               /\ LinkTypes(n) /\ Tied(n, Lists \cup {Tmp}, WithTmp)
  <1> DEFINE n == Emptied(l, Tmp)  L == Lists \cup {Tmp}
  <1>1. /\ Tmp \in ListNodes /\ Tmp \notin Nodes /\ Tmp \notin Lists
        /\ \A u \in Lists : WithTmp[u] = contents[u] /\ WithTmp[u] \in Seq(Nodes)
        /\ WithTmp[Tmp] = <<>> /\ Len(WithTmp[Tmp]) = 0
    BY ListAssumption DEF ListNodes, WithTmp, Rings
  <1>2. Rings(L, WithTmp)
    <2>1. WithTmp \in [L -> Seq(Nodes)]
      BY EmptySeq DEF WithTmp, Rings
    <2>2. Once(L, WithTmp)
      BY <1>1 DEF Rings, Once
    <2>3. QED
      BY <2>1, <2>2 DEF Rings
  <1>3. LinkTypes(n)
    BY <1>1 DEF Emptied, LinkTypes
  <1>4. /\ n.next[Tmp] = Tmp /\ n.prev[Tmp] = Tmp
        /\ \A a \in ListNodes \ {Tmp} : n.next[a] = l.next[a] /\ n.prev[a] = l.prev[a]
    BY <1>1 DEF Emptied, LinkTypes
  <1>5. ASSUME NEW u \in L, NEW m \in 0 .. Len(WithTmp[u])
        PROVE  /\ n.next[Node(WithTmp, u, m)] = Node(WithTmp, u, m + 1)
               /\ n.prev[Node(WithTmp, u, m + 1)] = Node(WithTmp, u, m)
    <2>1. CASE u = Tmp
      <3>1. Node(WithTmp, u, m) = Tmp /\ Node(WithTmp, u, m + 1) = Tmp
        BY <1>1, <2>1 DEF Node
      <3>2. QED
        BY <1>4, <3>1
    <2>2. CASE u \in Lists
      <3>1. /\ Node(WithTmp, u, m) = Node(contents, u, m) /\ m \in 0 .. Len(contents[u])
            /\ Node(WithTmp, u, m + 1) = Node(contents, u, m + 1)
        BY <1>1, <2>2 DEF Node
      <3>2. Len(contents[u]) \in Nat /\ \A k \in 1 .. Len(contents[u]) : contents[u][k] \in Nodes
        BY <2>2, RingTypes
      <3>3. m \in Nat /\ m + 1 \in Nat
        BY <3>1, <3>2
      <3>4. \A k \in Nat : Node(contents, u, k) \in ListNodes \ {Tmp}
        BY <1>1, <2>2, <3>2 DEF Node, ListNodes
      <3>5. QED
        BY <1>4, <2>2, <3>1, <3>3, <3>4 DEF Tied
    <2>3. QED
      BY <2>1, <2>2
  <1>6. Tied(n, L, WithTmp)
    BY <1>5 DEF Tied
  <1>7. QED
    BY <1>2, <1>3, <1>6

Taken(c, t, x) == [c EXCEPT ![t] = c[x], ![x] = <<>>]

LEMMA TakenIs ==
    ASSUME NEW c, NEW t \in DOMAIN c, NEW x \in DOMAIN c, t # x
    PROVE  /\ DOMAIN Taken(c, t, x) = DOMAIN c
           /\ Taken(c, t, x)[t] = c[x] /\ Taken(c, t, x)[x] = <<>>
           /\ \A u \in DOMAIN c \ {t, x} : Taken(c, t, x)[u] = c[u]
  BY DEF Taken

LEMMA TakeAllKeeps ==
    ASSUME NEW L, L \subseteq Lists \cup {Tmp}, NEW c, Rings(L, c),
           NEW l, LinkTypes(l), Tied(l, L, c), NEW t \in L, NEW x \in L, t # x, c[t] = <<>>
    PROVE  LET n == SplicedAll(l, t, x)
           IN  Rings(L, Taken(c, t, x)) /\ LinkTypes(n) /\ Tied(n, L, Taken(c, t, x))
  <1> DEFINE n == SplicedAll(l, t, x)  d == Taken(c, t, x)  j == Len(c[x]) + 1
  <1>1. /\ c \in [L -> Seq(Nodes)] /\ c[x] \in Seq(Nodes) /\ Len(c[x]) \in Nat
        /\ Len(c[t]) = 0 /\ <<>> \in Seq(Nodes) /\ Len(<<>>) = 0
    BY RingTypes, EmptySeq DEF Rings
  <1>2. /\ d \in [L -> Seq(Nodes)] /\ d[t] = c[x] /\ d[x] = <<>>
        /\ \A u \in L \ {t, x} : d[u] = c[u]
    BY <1>1 DEF Taken
  <1> HIDE DEF d
  <1>3. MovesTo(L, c, d, t, x, 1, 1, j)
    <2>1. /\ j - 1 = Len(c[x]) /\ Len(d[t]) = Len(c[t]) + (j - 1) /\ Len(d[x]) = Len(c[x]) - (j - 1)
      BY <1>1, <1>2
    <2>2. ASSUME NEW m \in 1 .. Len(d[t])
          PROVE  d[t][m] = IF m < 1 THEN c[t][m]
                           ELSE IF m < 1 + (j - 1) THEN c[x][1 + m - 1] ELSE c[t][m - (j - 1)]
      <3>1. ~(m < 1) /\ m < 1 + (j - 1) /\ 1 + m - 1 = m
        BY <1>1, <1>2
      <3>2. QED
        BY <1>2, <3>1
    <2>3. \A m \in 1 .. Len(d[x]) : d[x][m] = IF m < 1 THEN c[x][m] ELSE c[x][m + (j - 1)]
      BY <1>1, <1>2
    <2>4. QED
      BY <1>2, <2>1, <2>2, <2>3 DEF MovesTo
  <1>4. Node(c, t, 1) = t /\ 1 \in 1 .. Len(c[t]) + 1
    BY <1>1 DEF Node
  <1>5. LET q == SplicedAll(l, Node(c, t, 1), x)
        IN  Rings(L, d) /\ LinkTypes(q) /\ Tied(q, L, d)
    BY <1>3, <1>4, SpliceAllKeeps
  <1>6. QED
    BY <1>4, <1>5 DEF d

LEMMA SwapKeeps ==
    ASSUME Rings(Lists, contents), NEW l, LinkTypes(l), Tied(l, Lists, contents),
           NEW t \in Lists, NEW x \in Lists, t # x, NEW d,
           d = [contents EXCEPT ![t] = contents[x], ![x] = contents[t]]
    PROVE  LET n == Swapped(l, t, x)
           IN  Rings(Lists, d) /\ LinkTypes(n) /\ Tied(n, Lists, d)
  <1> DEFINE L == Lists \cup {Tmp}
             l0 == Emptied(l, Tmp)  l1 == SplicedAll(l0, Tmp, x)
             l2 == SplicedAll(l1, x, t)  l3 == SplicedAll(l2, t, Tmp)
             c0 == WithTmp  c1 == Taken(c0, Tmp, x)  c2 == Taken(c1, x, t)
             c3 == Taken(c2, t, Tmp)
  <1>1. Swapped(l, t, x) = l3
    BY DEF Swapped
  <1>2. t \in L /\ x \in L /\ Tmp \in L /\ t # Tmp /\ x # Tmp /\ L \subseteq Lists \cup {Tmp}
    BY ListAssumption
  <1>3. Rings(L, c0) /\ LinkTypes(l0) /\ Tied(l0, L, c0)
    BY EmptiedKeeps
  <1>4. /\ DOMAIN c0 = L /\ c0[Tmp] = <<>> /\ DOMAIN contents = Lists
        /\ \A u \in Lists : c0[u] = contents[u]
    <2>1. /\ DOMAIN c0 = L /\ c0[Tmp] = <<>>
          /\ \A u \in Lists : c0[u] = contents[u]
      BY ListAssumption DEF WithTmp
    <2>2. contents \in [Lists -> Seq(Nodes)]
      BY DEF Rings
    <2>3. QED
      BY <2>1, <2>2
  <1>2a. \A u \in Lists : u \in L /\ u # Tmp
    BY ListAssumption
  <1> HIDE DEF L, c0, l0
  <1>5. /\ DOMAIN c1 = L /\ c1[x] = <<>> /\ c1[Tmp] = contents[x]
        /\ \A u \in Lists \ {x} : c1[u] = contents[u]
    <2>1. Tmp \in DOMAIN c0 /\ x \in DOMAIN c0 /\ Tmp # x
      BY <1>2, <1>4
    <2>2. /\ DOMAIN c1 = DOMAIN c0 /\ c1[Tmp] = c0[x] /\ c1[x] = <<>>
          /\ \A u \in DOMAIN c0 \ {Tmp, x} : c1[u] = c0[u]
      BY <2>1, TakenIs
    <2> HIDE DEF c1
    <2>3. QED
      BY <1>2, <1>2a, <1>4, <2>2
  <1>6. Rings(L, c1) /\ LinkTypes(l1) /\ Tied(l1, L, c1)
    BY <1>2, <1>3, <1>4, TakeAllKeeps
  <1> HIDE DEF c1, l1
  <1>7. /\ DOMAIN c2 = L /\ c2[t] = <<>> /\ c2[x] = contents[t] /\ c2[Tmp] = contents[x]
        /\ \A u \in Lists \ {x, t} : c2[u] = contents[u]
    <2>1. x \in DOMAIN c1 /\ t \in DOMAIN c1 /\ x # t
      BY <1>2, <1>5
    <2>2. /\ DOMAIN c2 = DOMAIN c1 /\ c2[x] = c1[t] /\ c2[t] = <<>>
          /\ \A u \in DOMAIN c1 \ {x, t} : c2[u] = c1[u]
      BY <2>1, TakenIs
    <2> HIDE DEF c2
    <2>3. QED
      BY <1>2, <1>2a, <1>5, <2>2
  <1>8. Rings(L, c2) /\ LinkTypes(l2) /\ Tied(l2, L, c2)
    BY <1>2, <1>5, <1>6, TakeAllKeeps
  <1> HIDE DEF c2, l2
  <1>9. /\ c3[t] = contents[x] /\ c3[x] = contents[t]
        /\ \A u \in Lists \ {x, t} : c3[u] = contents[u]
    <2>1. t \in DOMAIN c2 /\ Tmp \in DOMAIN c2 /\ t # Tmp
      BY <1>2, <1>7
    <2>2. /\ DOMAIN c3 = DOMAIN c2 /\ c3[t] = c2[Tmp] /\ c3[Tmp] = <<>>
          /\ \A u \in DOMAIN c2 \ {t, Tmp} : c3[u] = c2[u]
      BY <2>1, TakenIs
    <2> HIDE DEF c3
    <2>3. QED
      BY <1>2, <1>2a, <1>7, <2>2
  <1>10. Rings(L, c3) /\ LinkTypes(l3) /\ Tied(l3, L, c3)
    BY <1>2, <1>7, <1>8, TakeAllKeeps
  <1> HIDE DEF c3, l3
  <1>11. DOMAIN d = Lists /\ \A u \in Lists : d[u] = c3[u]
    BY <1>4, <1>9
  <1>12. Rings(Lists, d)
    <2>1. d \in [Lists -> Seq(Nodes)]
      BY DEF Rings
    <2>2. Once(Lists, d)
      BY <1>10, <1>11 DEF Rings, Once, L
    <2>3. QED
      BY <2>1, <2>2 DEF Rings
  <1>13. Tied(l3, Lists, d)
    BY <1>10, <1>11 DEF Tied, Node, L
  <1>14. QED
    BY <1>1, <1>10, <1>12, <1>13

-----------------------------------------------------------------------------
(* The lists are tied at every step.                                       *)

LEMMA RingIsNode ==
    ASSUME NEW s \in Seq(Nodes), NEW t, NEW i \in 1 .. Len(s) + 2
    PROVE  (<<t>> \o s \o <<t>>)[i] = IF i - 1 \in 1 .. Len(s) THEN s[i - 1] ELSE t
  <1> DEFINE S == Nodes \cup {t}  U == <<t>>  C == <<t>>
  <1>1. U \in Seq(S) /\ Len(U) = 1 /\ U[1] = t
    OBVIOUS
  <1>2. s \in Seq(S) /\ Len(s) \in Nat
    BY SeqMonotonic, LenProperties
  <1> HIDE DEF S, U
  <1>3. /\ Len(U \o s \o U) = Len(U) + Len(s) + Len(U)
        /\ \A m \in 1 .. Len(U) + Len(s) + Len(U) :
                (U \o s \o U)[m] = IF m <= Len(U) THEN U[m]
                                   ELSE IF m <= Len(U) + Len(s) THEN s[m - Len(U)]
                                   ELSE U[m - (Len(U) + Len(s))]
    <2>1. U \in Seq(S) /\ s \in Seq(S)
      BY <1>1, <1>2
    <2>2. QED
      BY <2>1, JoinedThree
  <1>4. i \in 1 .. 1 + Len(s) + 1 /\ i \in Nat
    BY <1>2
  <1>5. (U \o s \o U)[i] = IF i <= 1 THEN U[i]
                           ELSE IF i <= 1 + Len(s) THEN s[i - 1] ELSE U[i - (1 + Len(s))]
    BY <1>1, <1>3, <1>4
  <1>6. CASE i = 1
    BY <1>1, <1>2, <1>5, <1>6 DEF U
  <1>7. CASE i > 1 /\ i <= 1 + Len(s)
    <2>1. ~(i <= 1) /\ i - 1 \in 1 .. Len(s)
      BY <1>2, <1>4, <1>7
    <2>2. QED
      BY <1>5, <1>7, <2>1 DEF U
  <1>8. CASE i > 1 + Len(s)
    <2>1. ~(i <= 1) /\ ~(i <= 1 + Len(s)) /\ i - 1 \notin 1 .. Len(s) /\ i - (1 + Len(s)) = 1
      BY <1>2, <1>4, <1>8
    <2>2. QED
      BY <1>1, <1>5, <2>1 DEF U
  <1>9. QED
    BY <1>2, <1>4, <1>6, <1>7, <1>8

Follows(next, prev, c) ==
    \A t \in Lists : \A i \in 1 .. Len(c[t]) + 1 :
        /\ next[(<<t>> \o c[t] \o <<t>>)[i]] = (<<t>> \o c[t] \o <<t>>)[i + 1]
        /\ prev[(<<t>> \o c[t] \o <<t>>)[i + 1]] = (<<t>> \o c[t] \o <<t>>)[i]

LEMMA FollowsIfTied ==
    ASSUME NEW c \in [Lists -> Seq(Nodes)], NEW l
    PROVE  Follows(l.next, l.prev, c) <=> Tied(l, Lists, c)
  <1> DEFINE R(t) == <<t>> \o c[t] \o <<t>>
  <1>1. ASSUME NEW t \in Lists
        PROVE  /\ Len(c[t]) \in Nat
               /\ \A i \in 0 .. Len(c[t]) :
                    /\ i + 1 \in 1 .. Len(c[t]) + 1 /\ i + 1 - 1 = i
                    /\ R(t)[i + 1] = Node(c, t, i) /\ R(t)[i + 1 + 1] = Node(c, t, i + 1)
    <2>1. c[t] \in Seq(Nodes) /\ Len(c[t]) \in Nat
      BY LenProperties
    <2>2. ASSUME NEW i \in 0 .. Len(c[t])
          PROVE  /\ i + 1 \in 1 .. Len(c[t]) + 1 /\ i + 1 - 1 = i
                 /\ R(t)[i + 1] = Node(c, t, i) /\ R(t)[i + 1 + 1] = Node(c, t, i + 1)
      <3>1. /\ i + 1 \in 1 .. Len(c[t]) + 2 /\ i + 1 + 1 \in 1 .. Len(c[t]) + 2
            /\ i + 1 \in 1 .. Len(c[t]) + 1 /\ i + 1 - 1 = i /\ i + 1 + 1 - 1 = i + 1
        BY <2>1
      <3> DEFINE j == i + 1  k == i + 1 + 1
      <3>2. j \in 1 .. Len(c[t]) + 2 /\ k \in 1 .. Len(c[t]) + 2
        BY <3>1
      <3> HIDE DEF j, k
      <3>3. /\ R(t)[j] = IF j - 1 \in 1 .. Len(c[t]) THEN c[t][j - 1] ELSE t
            /\ R(t)[k] = IF k - 1 \in 1 .. Len(c[t]) THEN c[t][k - 1] ELSE t
        BY <2>1, <3>2, RingIsNode
      <3> HIDE DEF R
      <3>4. QED
        BY <3>1, <3>3 DEF j, k, Node
    <2>3. QED
      BY <2>1, <2>2
  <1> HIDE DEF R
  <1>2. Follows(l.next, l.prev, c) <=>
            \A t \in Lists : \A i \in 1 .. Len(c[t]) + 1 :
                l.next[R(t)[i]] = R(t)[i + 1] /\ l.prev[R(t)[i + 1]] = R(t)[i]
    BY DEF Follows, R
  <1>3. ASSUME Follows(l.next, l.prev, c), NEW t \in Lists, NEW i \in 0 .. Len(c[t])
        PROVE  /\ l.next[Node(c, t, i)] = Node(c, t, i + 1)
               /\ l.prev[Node(c, t, i + 1)] = Node(c, t, i)
    BY <1>1, <1>2, <1>3
  <1>4. ASSUME Tied(l, Lists, c), NEW t \in Lists, NEW i \in 1 .. Len(c[t]) + 1
        PROVE  l.next[R(t)[i]] = R(t)[i + 1] /\ l.prev[R(t)[i + 1]] = R(t)[i]
    <2> DEFINE k == i - 1
    <2>1. k \in 0 .. Len(c[t]) /\ k + 1 = i
      BY <1>1
    <2> HIDE DEF k
    <2>2. l.next[R(t)[k + 1]] = R(t)[k + 1 + 1] /\ l.prev[R(t)[k + 1 + 1]] = R(t)[k + 1]
      BY <1>1, <1>4, <2>1 DEF Tied
    <2>3. QED
      BY <2>1, <2>2
  <1>5. QED
    BY <1>2, <1>3, <1>4 DEF Tied

LEMMA TiedBefore ==
    ASSUME ListIInv
    PROVE  Rings(Lists, contents) /\ LinkTypes(links) /\ Tied(links, Lists, contents)
  <1>1. contents \in [Lists -> Seq(Nodes)] /\ LinkTypes(links)
    BY DEF ListIInv, ListTypeOK, LinkTypes, links
  <1>2. Rings(Lists, contents)
    BY <1>1 DEF ListIInv, OnePlace, Positions, Rings, Once
  <1>3. Follows(links.next, links.prev, contents)
    BY DEF ListIInv, LinksFollow, Ring, Follows, links
  <1>4. QED
    BY <1>1, <1>2, <1>3, FollowsIfTied

LEMMA TiedAfter ==
    ASSUME NEW n, Sets(n), Rings(Lists, contents'), LinkTypes(n), Tied(n, Lists, contents')
    PROVE  ListIInv'
  <1>1. ListTypeOK'
    BY DEF ListTypeOK, Sets, LinkTypes, Rings, ListNodes
  <1>2. OnePlace'
    BY DEF OnePlace, Positions, Rings, Once
  <1>3. Follows(n.next, n.prev, contents')
    BY FollowsIfTied DEF Rings
  <1>4. LinksFollow'
    BY <1>3 DEF LinksFollow, Ring, Follows, Sets
  <1>5. QED
    BY <1>1, <1>2, <1>4 DEF ListIInv

LEMMA IteratorIsNode ==
    ASSUME contents \in [Lists -> Seq(Nodes)], NEW t \in Lists, NEW i \in Ends(t)
    PROVE  /\ Iterator(t, i) = Node(contents, t, i)
           /\ i \in 1 .. Len(contents[t]) + 1 /\ Len(contents[t]) \in Nat
  <1> DEFINE s == contents[t]  S == Nodes \cup {t}
  <1>1. s \in Seq(S) /\ <<t>> \in Seq(S) /\ Len(<<t>>) = 1 /\ <<t>>[1] = t /\ Len(s) \in Nat
    <2>1. s \in Seq(Nodes)
      OBVIOUS
    <2>2. s \in Seq(S) /\ Len(s) \in Nat
      BY <2>1, SeqMonotonic, LenProperties
    <2>3. QED
      BY <2>2
  <1>2. i \in 1 .. Len(s) + 1
    BY DEF Ends
  <1> DEFINE B == <<t>>
  <1>3. Iterator(t, i) = (s \o B)[i]
    BY DEF Iterator
  <1>4. B \in Seq(S) /\ Len(B) = 1 /\ B[1] = t
    BY <1>1
  <1> HIDE DEF s, S, B
  <1>5. \A m \in 1 .. Len(s) + Len(B) : (s \o B)[m] = IF m <= Len(s) THEN s[m] ELSE B[m - Len(s)]
    BY <1>1, <1>4, ConcatProperties
  <1>6. (s \o B)[i] = IF i <= Len(s) THEN s[i] ELSE B[i - Len(s)]
    BY <1>1, <1>2, <1>4, <1>5
  <1>7. CASE i <= Len(s)
    <2>1. i \in 1 .. Len(s)
      BY <1>1, <1>2, <1>7
    <2>2. Node(contents, t, i) = s[i]
      BY <2>1 DEF Node, s
    <2>3. QED
      BY <1>1, <1>2, <1>3, <1>6, <1>7, <2>2 DEF s
  <1>8. CASE ~(i <= Len(s))
    <2>1. i \notin 1 .. Len(s) /\ i - Len(s) = 1
      BY <1>1, <1>2, <1>8
    <2>2. Node(contents, t, i) = t
      BY <2>1 DEF Node, s
    <2>3. QED
      BY <1>1, <1>2, <1>3, <1>4, <1>6, <1>8, <2>1, <2>2 DEF s
  <1>9. QED
    BY <1>7, <1>8

LEMMA MovedIsMoved ==
    ASSUME contents \in [Lists -> Seq(Nodes)], NEW t \in Lists, NEW x \in Lists,
           NEW p \in 1 .. Len(contents[t]) + 1, NEW i \in 1 .. Len(contents[x]) + 1,
           NEW j \in i .. Len(contents[x]) + 1, t = x => p \notin i .. j - 1
    PROVE  IsMoved(Lists, contents, Moved(t, p, x, i, j), t, p, x, i, j)
  <1>1. CASE t # x
    BY <1>1, MovedIsTo DEF IsMoved
  <1>2. CASE t = x
    BY <1>2, MovedIsWithin DEF IsMoved
  <1>3. QED
    BY <1>1, <1>2

LEMMA ListInitKeeps ==
    ASSUME ListInit
    PROVE  ListIInv
  <1>1. /\ contents = [t \in Lists |-> <<>>]
        /\ m_nextListNode = [n \in ListNodes |-> IF n \in Nodes THEN "null" ELSE n]
        /\ m_prevListNode = [n \in ListNodes |-> IF n \in Nodes THEN "null" ELSE n]
    BY DEF ListInit
  <1>2. contents \in [Lists -> Seq(Nodes)] /\ \A t \in Lists : contents[t] = <<>>
    BY <1>1, EmptySeq
  <1>3. ListTypeOK
    BY <1>1, <1>2 DEF ListTypeOK
  <1>4. OnePlace
    BY <1>2 DEF OnePlace, Positions
  <1>5. Tied(links, Lists, contents)
    <2>1. ASSUME NEW t \in Lists
          PROVE  /\ Len(contents[t]) = 0 /\ \A i \in Nat : Node(contents, t, i) = t
                 /\ m_nextListNode[t] = t /\ m_prevListNode[t] = t
      BY <1>1, <1>2, ListAssumption DEF Node, ListNodes
    <2>2. QED
      BY <2>1 DEF Tied, links
  <1>6. Follows(links.next, links.prev, contents)
    BY <1>2, <1>5, FollowsIfTied
  <1>7. LinksFollow
    BY <1>6 DEF LinksFollow, Ring, Follows, links
  <1>8. QED
    BY <1>3, <1>4, <1>7 DEF ListIInv

THEOREM ListInvariance == ListSpec => []ListIInv
  <1>1. ASSUME ListIInv, ListNext PROVE ListIInv'
    <2>1. /\ Rings(Lists, contents) /\ LinkTypes(links) /\ Tied(links, Lists, contents)
          /\ contents \in [Lists -> Seq(Nodes)] /\ Lists \subseteq Lists \cup {Tmp}
      BY <1>1, TiedBefore DEF Rings
    <2>2. ASSUME NEW t \in Lists, NEW p \in Ends(t), NEW data \in Nodes, list_insert(t, p, data)
          PROVE  ListIInv'
      <3> DEFINE n == Inserted(links, Node(contents, t, p), data)
      <3>1. Iterator(t, p) = Node(contents, t, p) /\ p \in 1 .. Len(contents[t]) + 1
        BY <2>1, IteratorIsNode
      <3>2. Sets(n) /\ contents' = [contents EXCEPT ![t] = InsertAt(contents[t], p, data)]
        BY <2>2, <3>1 DEF list_insert
      <3>3. \A u \in Lists : \A k \in 1 .. Len(contents[u]) : contents[u][k] # data
        <4>1. ASSUME NEW u \in Lists, NEW k \in 1 .. Len(contents[u])
              PROVE  contents[u][k] \in ToSet(contents[u])
          <5>1. DOMAIN contents[u] = 1 .. Len(contents[u])
            BY <2>1, LenProperties
          <5>2. QED
            BY <5>1 DEF ToSet
        <4>2. QED
          BY <2>2, <4>1 DEF list_insert
      <3>4. InsertsAt(Lists, contents, contents', t, p, data)
        BY <2>1, <3>1, <3>2, InsertAtInserts
      <3>5. Rings(Lists, contents') /\ LinkTypes(n) /\ Tied(n, Lists, contents')
        BY <2>1, <3>1, <3>3, <3>4, InsertKeeps
      <3>6. QED
        BY <3>2, <3>5, TiedAfter
    <2>3. ASSUME NEW t \in Lists, NEW i \in Positions(t), list_erase(t, i)
          PROVE  ListIInv'
      <3> DEFINE n == Erased(links, Node(contents, t, i))
      <3>1. i \in Ends(t) /\ i \in 1 .. Len(contents[t])
        BY <2>1, LenProperties DEF Positions, Ends
      <3>2. Iterator(t, i) = Node(contents, t, i)
        BY <2>1, <3>1, IteratorIsNode
      <3>3. Sets(n) /\ contents' = [contents EXCEPT ![t] = RemoveAt(contents[t], i)]
        BY <2>3, <3>2 DEF list_erase
      <3>4. RemovesAt(Lists, contents, contents', t, i)
        BY <2>1, <3>1, <3>3, RemoveAtRemoves
      <3>5. Rings(Lists, contents') /\ LinkTypes(n) /\ Tied(n, Lists, contents')
        BY <2>1, <3>1, <3>4, EraseKeeps
      <3>6. QED
        BY <3>3, <3>5, TiedAfter
    <2>4. ASSUME NEW t \in Lists, NEW x \in Lists, NEW p \in Ends(t), NEW i \in Positions(x),
                 NEW j \in i .. Len(contents[x]) + 1, list_splice(t, p, x, i, j)
          PROVE  ListIInv'
      <3> DEFINE n == Spliced(links, Node(contents, t, p), Node(contents, x, i),
                              Node(contents, x, j))
      <3>1. i \in Ends(x) /\ j \in Ends(x)
        BY <2>1, LenProperties DEF Positions, Ends
      <3>2. /\ Iterator(t, p) = Node(contents, t, p) /\ Iterator(x, i) = Node(contents, x, i)
            /\ Iterator(x, j) = Node(contents, x, j)
            /\ p \in 1 .. Len(contents[t]) + 1 /\ i \in 1 .. Len(contents[x]) + 1
        BY <2>1, <3>1, IteratorIsNode
      <3>3. Sets(n) /\ contents' = Moved(t, p, x, i, j) /\ (t = x => p \notin i .. j - 1)
        BY <2>4, <3>2 DEF list_splice
      <3>4. IsMoved(Lists, contents, contents', t, p, x, i, j)
        BY <2>1, <3>2, <3>3, MovedIsMoved
      <3>5. Rings(Lists, contents') /\ LinkTypes(n) /\ Tied(n, Lists, contents')
        BY <2>1, <3>2, <3>3, <3>4, SpliceKeeps
      <3>6. QED
        BY <3>3, <3>5, TiedAfter
    <2>5. ASSUME NEW t \in Lists, NEW x \in Lists, NEW p \in Ends(t), NEW i \in Positions(x),
                 list_splice_one(t, p, x, i)
          PROVE  ListIInv'
      <3> DEFINE n == SplicedOne(links, Node(contents, t, p), Node(contents, x, i))
                 j == i + 1
      <3>1. i \in Ends(x) /\ i \in 1 .. Len(contents[x])
        BY <2>1, LenProperties DEF Positions, Ends
      <3>2. /\ Iterator(t, p) = Node(contents, t, p) /\ Iterator(x, i) = Node(contents, x, i)
            /\ p \in 1 .. Len(contents[t]) + 1 /\ i \in 1 .. Len(contents[x]) + 1
            /\ Len(contents[x]) \in Nat
        BY <2>1, <3>1, IteratorIsNode
      <3>3. /\ Sets(n)
            /\ contents' = IF t = x /\ p = i THEN contents ELSE Moved(t, p, x, i, j)
        BY <2>5, <3>2 DEF list_splice_one
      <3>4. ~(t = x /\ p = i) => IsMoved(Lists, contents, Moved(t, p, x, i, j), t, p, x, i, j)
        <4>1. /\ j \in i .. Len(contents[x]) + 1
              /\ ~(t = x /\ p = i) => (t = x => p \notin i .. j - 1)
          BY <3>1, <3>2
        <4> HIDE DEF j
        <4>2. QED
          BY <2>1, <3>2, <4>1, MovedIsMoved
      <3>5. IF t = x /\ p = i THEN contents' = contents
            ELSE IsMoved(Lists, contents, contents', t, p, x, i, i + 1)
        BY <3>3, <3>4
      <3>6. Rings(Lists, contents') /\ LinkTypes(n) /\ Tied(n, Lists, contents')
        BY <2>1, <3>1, <3>2, <3>5, SpliceOneKeeps
      <3>7. QED
        BY <3>3, <3>6, TiedAfter
    <2>6. ASSUME NEW t \in Lists, NEW x \in Lists, NEW p \in Ends(t), list_splice_all(t, p, x)
          PROVE  ListIInv'
      <3> DEFINE n == SplicedAll(links, Node(contents, t, p), x)
                 j == Len(contents[x]) + 1
      <3>1. /\ Iterator(t, p) = Node(contents, t, p) /\ p \in 1 .. Len(contents[t]) + 1
            /\ Len(contents[x]) \in Nat
        BY <2>1, IteratorIsNode, LenProperties
      <3>2. Sets(n) /\ contents' = Moved(t, p, x, 1, j) /\ t # x
        BY <2>6, <3>1 DEF list_splice_all
      <3>3. 1 \in 1 .. Len(contents[x]) + 1 /\ j \in 1 .. Len(contents[x]) + 1
        BY <3>1
      <3>4. MovesTo(Lists, contents, contents', t, x, p, 1, j)
        <4> HIDE DEF j
        <4>1. QED
          BY <2>1, <3>1, <3>2, <3>3, MovedIsTo
      <3>5. Rings(Lists, contents') /\ LinkTypes(n) /\ Tied(n, Lists, contents')
        BY <2>1, <3>1, <3>2, <3>4, SpliceAllKeeps
      <3>6. QED
        BY <3>2, <3>5, TiedAfter
    <2>7. ASSUME NEW t \in Lists, NEW x \in Lists, list_swap(t, x)
          PROVE  ListIInv'
      <3> DEFINE n == Swapped(links, t, x)
      <3>1. /\ Sets(n) /\ t # x
            /\ contents' = [contents EXCEPT ![t] = contents[x], ![x] = contents[t]]
        BY <2>7 DEF list_swap
      <3>2. Rings(Lists, contents') /\ LinkTypes(n) /\ Tied(n, Lists, contents')
        BY <2>1, <3>1, SwapKeeps
      <3>3. QED
        BY <3>1, <3>2, TiedAfter
    <2>8. QED
      BY <1>1, <2>2, <2>3, <2>4, <2>5, <2>6, <2>7 DEF ListNext
  <1>2. ASSUME ListIInv, UNCHANGED listVars PROVE ListIInv'
    BY <1>2 DEF listVars, ListIInv, ListTypeOK, OnePlace, Positions, LinksFollow, Ring, ListNodes
  <1>3. ListIInv /\ [ListNext]_listVars => ListIInv'
    BY <1>1, <1>2
  <1>4. ListInit => ListIInv
    BY ListInitKeeps
  <1>5. QED
    BY <1>3, <1>4, PTL DEF ListSpec

\* insert(), erase(), swap() and every splice() tie all links again.
THEOREM LinksAreTied == ListSpec => []LinksFollow
  <1>1. ListIInv => LinksFollow
    BY DEF ListIInv
  <1>2. QED
    BY <1>1, ListInvariance, PTL
=============================================================================
