----------------------- MODULE BoundedSequenceProofs -----------------------
(***************************************************************************)
(* The deques and vectors of every capacity are, to their callers, bounded *)
(* sequences.                                                              *)
(***************************************************************************)
EXTENDS ContainerProofs

-----------------------------------------------------------------------------
(* What a call leaves: the values of the elements.                         *)

\* What a source holds when the slots are sl.
ReadIn(sl, src) == IF src[1] = "slot" THEN sl[src[2]] ELSE src[2]

\* From the slots sl on, the first m steps of a plan write the slots w, and then each slot
\* of g holds g: what a step reads for g has not been written before it, and its value
\* is g's unless a later step writes the slot again.
Leads(sl, plan, m, w, g) ==
    /\ \A i \in 1 .. m : w[i] \in DOMAIN g =>
        /\ plan[i].src[1] = "slot" => \A j \in 1 .. i - 1 : w[j] # plan[i].src[2]
        /\ ReadIn(sl, plan[i].src) = g[w[i]] \/ \E j \in i + 1 .. m : w[j] = w[i]
    /\ \A x \in DOMAIN g : sl[x] = g[x] \/ \E j \in 1 .. m : w[j] = x

\* The values V of places, in the slots from base on.
Wanted(base, V) ==
    [x \in { y \in Slots : distance_idx(base, y) \in DOMAIN V } |-> V[distance_idx(base, x)]]

\* The first m steps of a plan write the places d, counted from base on, and each place
\* of V holds V after them, as in Leads.
LeadsAt(base, sl, plan, m, d, V) ==
    /\ \A i \in 1 .. m : d[i] \in DOMAIN V =>
        /\ plan[i].src[1] = "slot" =>
             \E r \in Slots : /\ plan[i].src[2] = next_idx(base, r)
                              /\ \A j \in 1 .. i - 1 : d[j] # r
        /\ ReadIn(sl, plan[i].src) = V[d[i]] \/ \E j \in i + 1 .. m : d[j] = d[i]
    /\ \A x \in DOMAIN V : sl[next_idx(base, x)] = V[x] \/ \E j \in 1 .. m : d[j] = x

\* The same of a plan of three parts, of which the second moves elements and the third
\* puts values.
LeadsInParts(base, sl, X, Y, Z, dx, dy, dz, V) ==
    /\ \A i \in 1 .. Len(X) : dx[i] \in DOMAIN V =>
        /\ X[i].src[1] = "slot" =>
             \E r \in Slots : /\ X[i].src[2] = next_idx(base, r)
                              /\ \A j \in 1 .. i - 1 : dx[j] # r
        /\ ReadIn(sl, X[i].src) = V[dx[i]] \/ \E j \in 1 .. Len(Y) : dy[j] = dx[i]
    /\ \A i \in 1 .. Len(Y) : dy[i] \in DOMAIN V =>
        /\ \E r \in Slots : /\ Y[i].src[2] = next_idx(base, r)
                            /\ \A j \in 1 .. Len(X) : dx[j] # r
                            /\ \A j \in 1 .. i - 1 : dy[j] # r
        /\ ReadIn(sl, Y[i].src) = V[dy[i]]
    /\ \A i \in 1 .. Len(Z) : dz[i] \in DOMAIN V =>
        Z[i].src[1] # "slot" /\ ReadIn(sl, Z[i].src) = V[dz[i]]
    /\ \A x \in DOMAIN V : \/ sl[next_idx(base, x)] = V[x]
                           \/ \E i \in 1 .. Len(X) : dx[i] = x
                           \/ \E i \in 1 .. Len(Y) : dy[i] = x
                           \/ \E i \in 1 .. Len(Z) : dz[i] = x

\* The call c puts c.data into what it keeps of the elements s. What an insert() of the
\* container's own elements puts there is not said (BoundedSequence).
IsPut(c) == c.op \in {"push", "resize", "insert", "assign"}
Kept(c, s) == IF c.op = "assign" THEN <<>> ELSE s
Where(c) == IF c.op = "assign" THEN 0 ELSE c.pos
Total(c, s) == Len(Kept(c, s)) + Len(c.data)
Free(c, p) == c.op = "insert" /\ c.aliased /\ p \in Where(c) + 1 .. Where(c) + Len(c.data)

\* The p-th element that the call c leaves of the elements s.
Put(c, s, p) ==
    IF p <= Where(c) THEN Kept(c, s)[p]
    ELSE IF p <= Where(c) + Len(c.data) THEN c.data[p - Where(c)]
    ELSE Kept(c, s)[p - Len(c.data)]

\* The values that c wants in the places from the first on, the free ones left out.
PutPlaces(c, s) == [x \in { y \in 0 .. Total(c, s) - 1 : ~Free(c, y + 1) } |-> Put(c, s, x + 1)]

\* The slots that a plan writes which makes the container n larger and then assigns.
Writes(plan, n, side) ==
    [i \in 1 .. Len(plan) |->
        IF i > n THEN plan[i].at
        ELSE IF side = "construct_end" THEN next_idx(m_end, i - 1) ELSE prev_idx(m_begin, i)]

\* The first slot of the container when n slots are added at the side.
FirstSlot(side, n) == IF side = "construct_end" THEN m_begin ELSE prev_idx(m_begin, n)

\* A call at the place p works at the end from there on, at the beginning as far as the
\* n places after it.
Worked(side, x, p, n) == IF side \in {"construct_end", "cut_end"} THEN x >= p ELSE x < p + n

\* The plan of an insert() writes on its side only.
OneSided(plan, n, side, c) ==
    \A i \in 1 .. Len(plan) :
        LET x == distance_idx(FirstSlot(side, n), Writes(plan, n, side)[i])
        IN  Worked(side, x, c.pos, Len(c.data))

\* The plan adds n slots at the side, assigns to others, and leaves what the call c of
\* the elements s wants; it is the iterator that the call returns.
Fills(plan, n, side, c, s, it) ==
    /\ \A i \in 1 .. n : plan[i].do = side
    /\ \A i \in n + 1 .. Len(plan) : plan[i].do = "assign"
    /\ size + n = Total(c, s) /\ Total(c, s) <= MaxSize /\ n <= Len(c.data)
    /\ IF c.op = "insert" THEN it \in Slots /\ distance_idx(FirstSlot(side, n), it) = c.pos
       ELSE /\ it = NoIter /\ n = Len(plan)
            /\ \/ side = "construct_end" /\ Where(c) = Len(Kept(c, s))
               \/ side = "construct_begin" /\ c.op = "push" /\ c.pos = 0
    /\ c.op = "push" => Len(c.data) = 1
    /\ c.op = "insert" => OneSided(plan, n, side, c)
    /\ Leads(slots, plan, Len(plan), Writes(plan, n, side),
             Wanted(FirstSlot(side, n), PutPlaces(c, s)))

\* What a call that puts src after the first p elements wants in which place.
Wants(V, op, p, src) ==
    LET n == Len(src)
    IN  /\ DOMAIN V \subseteq 0 .. size + n - 1
        /\ op # "insert" => DOMAIN V = 0 .. size + n - 1
        /\ \A x \in DOMAIN V : x < p => V[x] = elements[x + 1]
        /\ \A x \in DOMAIN V : x >= p + n => V[x] = elements[x + 1 - n]
        /\ \A i \in 1 .. n : p + i - 1 \in DOMAIN V => V[p + i - 1] = Read(src[i])
        /\ op = "insert" => \A i \in 1 .. n : p + i - 1 \in DOMAIN V => src[i][1] # "slot"

\* Those slots by their places d, for a call that is to put src after the first p elements.
Builds(plan, op, p, src, side, d, it) ==
    LET n == Len(src)
        b == FirstSlot(side, n)
    IN  /\ n <= Len(plan)
        /\ \A i \in 1 .. n : plan[i].do = side
        /\ \A i \in 1 .. n : d[i] = IF side = "construct_end" THEN size + i - 1 ELSE n - i
        /\ \A i \in n + 1 .. Len(plan) :
            plan[i].do = "assign" /\ d[i] \in Slots /\ plan[i].at = next_idx(b, d[i])
        /\ LeadsAt(b, slots, plan, Len(plan), d, PutPlaces(Puts(op, p, src), elements))
        /\ IF op = "insert" THEN it \in Slots /\ distance_idx(b, it) = p
           ELSE /\ it = NoIter /\ n = Len(plan)
                /\ \/ side = "construct_end" /\ p = size
                   \/ side = "construct_begin" /\ op = "push" /\ p = 0
        /\ op = "insert" => /\ p \in 0 .. size
                            /\ \A i \in n + 1 .. Len(plan) : Worked(side, d[i], p, n)

\* The same of the three parts of the plan of an insert().
BuildsInParts(X, Y, Z, p, src, side, dx, dy, dz, it) ==
    LET n == Len(src)
        b == FirstSlot(side, n)
        grown(i) == IF side = "construct_end" THEN size + i - 1 ELSE n - i
        V == PutPlaces(Puts("insert", p, src), elements)
    IN  /\ \A i \in 1 .. Len(X) : X[i].do = side /\ dx[i] = grown(i)
        /\ \/ /\ Len(X) = n
              /\ \A i \in 1 .. Len(Y) :
                    Y[i].do = "assign" /\ dy[i] \in Slots /\ Y[i].at = next_idx(b, dy[i])
           \/ /\ Len(X) + Len(Y) = n
              /\ \A i \in 1 .. Len(Y) : Y[i].do = side /\ dy[i] = grown(Len(X) + i)
        /\ \A i \in 1 .. Len(Z) :
            Z[i].do = "assign" /\ dz[i] \in Slots /\ Z[i].at = next_idx(b, dz[i])
        /\ p \in 0 .. size
        /\ Len(X) = n => \A i \in 1 .. Len(Y) : Worked(side, dy[i], p, n)
        /\ \A i \in 1 .. Len(Z) : Worked(side, dz[i], p, n)
        /\ LeadsInParts(b, slots, X, Y, Z, dx, dy, dz, V)
        /\ it \in Slots /\ distance_idx(b, it) = p

\* What is left of the plan of a call that puts elements leaves what it shall.
PutsRight(plan, c, s, it) ==
    \E n \in 0 .. Len(plan), side \in {"construct_end", "construct_begin"} :
        Fills(plan, n, side, c, s, it)

\* assign() begins with the cut of all elements.
Refills(plan, c, it) ==
    /\ c.op = "assign" /\ Len(c.data) <= MaxSize /\ it = NoIter
    /\ plan = <<CutEnd(size)>> \o [i \in DOMAIN c.data |-> ConstructEnd(Val(c.data[i]))]

\* The call c takes the elements after c.pos up to c.upto away, by a cut at either end.
Closed(c, s, p) == IF p <= c.pos THEN s[p] ELSE s[p + (c.upto - c.pos)]

\* The values that c wants in the places from m_begin on before the cut.
ClosedPlaces(c, s, cut) ==
    IF cut.do = "cut_end" THEN [x \in 0 .. Len(s) - cut.n - 1 |-> Closed(c, s, x + 1)]
    ELSE [x \in cut.n .. Len(s) - 1 |-> Closed(c, s, x + 1 - cut.n)]

\* The plan moves elements over the gap and then cuts, at the end or at the beginning.
Closes(plan, c, s, it) ==
    LET m == Len(plan) - 1
        cut == plan[Len(plan)]
    IN  /\ plan # <<>> /\ cut.do \in {"cut_end", "cut_begin"} /\ cut.n = c.upto - c.pos
        /\ \A i \in 1 .. m : plan[i].do = "assign"
        /\ size = Len(s)
        /\ IF c.op = "pop" THEN m = 0 /\ it = NoIter
           ELSE /\ it \in Slots
                /\ c.pos = IF cut.do = "cut_end" THEN distance_idx(m_begin, it)
                           ELSE distance_idx(next_idx(m_begin, cut.n), it)
        /\ \A i \in 1 .. m : Worked(cut.do, distance_idx(m_begin, plan[i].at), c.pos, cut.n)
        /\ Leads(slots, plan, m, [i \in 1 .. m |-> plan[i].at],
                 Wanted(m_begin, ClosedPlaces(c, s, cut)))

\* The gap is closed.
HasClosed(plan, c, s, it) ==
    /\ plan = <<>> /\ size = Len(s) - (c.upto - c.pos)
    /\ \A p \in 1 .. size : elements[p] = Closed(c, s, p)
    /\ IF c.op = "pop" THEN it = NoIter ELSE it \in Slots /\ distance_idx(m_begin, it) = c.pos

\* A call and the elements that it began with.
CallType(c, s) ==
    /\ s \in Seq(Values) /\ Len(s) <= MaxSize
    /\ \/ c.op = "assign" /\ c.data \in Seq(Values)
       \/ /\ c.op \in {"push", "resize", "insert"} /\ c.data \in Seq(Values)
          /\ c.pos \in 0 .. Len(s) /\ c.aliased \in BOOLEAN /\ (c.op # "insert" => ~c.aliased)
       \/ /\ c.op \in {"pop", "erase"}
          /\ c.pos \in 0 .. Len(s) /\ c.upto \in c.pos .. Len(s)

\* What is left of a call's plan, done from here on, leaves what the call shall leave.
PlanRight(plan, c, s, it) ==
    \/ plan = <<Refused>> /\ IsPut(c) /\ Total(c, s) > MaxSize /\ s = elements
    \/ IsPut(c) /\ PutsRight(plan, c, s, it)
    \/ Refills(plan, c, it)
    \/ c.op \in {"pop", "erase"} /\ (Closes(plan, c, s, it) \/ HasClosed(plan, c, s, it))

\* With the types, LiveSlots and PlanSafe, inductive: a call leaves what it shall.
CallRight ==
    /\ call = Idle /\ ret # "returned" => iter = NoIter
    /\ ret # "none" => call = Idle
    /\ call # Idle =>
        /\ CallType(call, was) /\ PlanRight(todo, call, was, iter)
        /\ life = "building" => call.op = "assign" /\ was = <<>>

\* One step of a plan done.
LEMMA LeadsOn ==
    ASSUME NEW plan \in Seq(Steps), plan # <<>>, NEW m \in 1 .. Len(plan), NEW w, NEW v, NEW g,
           NEW sl, DOMAIN sl = Slots, w[1] \in Slots,
           \A i \in 1 .. m : plan[i].src[1] = "slot" => plan[i].src[2] \in Slots,
           DOMAIN g \subseteq Slots, Leads(sl, plan, m, w, g),
           \A i \in 1 .. m - 1 : v[i] = w[i + 1]
    PROVE  Leads([sl EXCEPT ![w[1]] = ReadIn(sl, plan[1].src)], Tail(plan), m - 1, v, g)
  <1> DEFINE t == Tail(plan)
             new == [sl EXCEPT ![w[1]] = ReadIn(sl, plan[1].src)]
  <1>1. /\ Len(plan) \in Nat /\ Len(plan) >= 1
        /\ \A i \in 1 .. Len(plan) - 1 : t[i] = plan[i + 1]
    BY FirstStep
  <1>2. m \in Nat /\ 1 \in 1 .. m
    BY <1>1
  <1>3. \A i \in 1 .. m - 1 : t[i] = plan[i + 1] /\ i + 1 \in 1 .. m /\ i + 1 \in 2 .. m
    BY <1>1, <1>2
  <1> HIDE DEF t
  <1>4. new[w[1]] = ReadIn(sl, plan[1].src) /\ \A x \in Slots : x # w[1] => new[x] = sl[x]
    OBVIOUS
  <1> HIDE DEF new
  <1>5. \A i \in 1 .. m : w[i] \in DOMAIN g =>
            /\ plan[i].src[1] = "slot" => \A j \in 1 .. i - 1 : w[j] # plan[i].src[2]
            /\ ReadIn(sl, plan[i].src) = g[w[i]] \/ \E j \in i + 1 .. m : w[j] = w[i]
    BY DEF Leads
  <1>6. \A x \in DOMAIN g : sl[x] = g[x] \/ \E j \in 1 .. m : w[j] = x
    BY DEF Leads
  <1>7. \A j \in 2 .. m : j - 1 \in 1 .. m - 1 /\ v[j - 1] = w[j]
    <2>1. ASSUME NEW j \in 2 .. m PROVE j - 1 \in 1 .. m - 1 /\ v[j - 1] = w[j]
      <3>1. j - 1 \in 1 .. m - 1 /\ (j - 1) + 1 = j
        BY <1>2
      <3>2. QED
        BY <3>1
    <2>2. QED
      BY <2>1
  <1>8. ASSUME NEW i \in 1 .. m - 1, v[i] \in DOMAIN g
        PROVE  /\ t[i].src[1] = "slot" => \A j \in 1 .. i - 1 : v[j] # t[i].src[2]
               /\ ReadIn(new, t[i].src) = g[v[i]] \/ \E j \in i + 1 .. m - 1 : v[j] = v[i]
    <2>1. v[i] = w[i + 1] /\ t[i] = plan[i + 1] /\ i + 1 \in 1 .. m
      BY <1>3
    <2>2. plan[i + 1].src[1] = "slot" =>
            \A j \in 1 .. (i + 1) - 1 : w[j] # plan[i + 1].src[2]
      BY <1>5, <1>8, <2>1
    <2>3. ASSUME t[i].src[1] = "slot", NEW j \in 1 .. i - 1 PROVE v[j] # t[i].src[2]
      <3>1. j \in 1 .. m - 1 /\ j + 1 \in 1 .. (i + 1) - 1
        BY <1>2
      <3>2. QED
        BY <2>1, <2>2, <2>3, <3>1
    <2>4. ReadIn(new, t[i].src) = ReadIn(sl, t[i].src)
      <3>1. CASE t[i].src[1] = "slot"
        <4>1. 1 \in 1 .. (i + 1) - 1
          OBVIOUS
        <4>2. t[i].src[2] # w[1] /\ t[i].src[2] \in Slots
          BY <2>1, <2>2, <3>1, <4>1
        <4>3. QED
          BY <1>4, <4>2 DEF ReadIn
      <3>2. CASE t[i].src[1] # "slot"
        BY <3>2 DEF ReadIn
      <3>3. QED
        BY <3>1, <3>2
    <2>5. ReadIn(new, t[i].src) = g[v[i]] \/ \E j \in i + 1 .. m - 1 : v[j] = v[i]
      <3>1. CASE ReadIn(sl, plan[i + 1].src) = g[w[i + 1]]
        BY <2>1, <2>4, <3>1
      <3>2. CASE \E j \in (i + 1) + 1 .. m : w[j] = w[i + 1]
        <4>1. PICK j \in (i + 1) + 1 .. m : w[j] = w[i + 1]
          BY <3>2
        <4>2. j \in 2 .. m /\ j - 1 \in i + 1 .. m - 1
          BY <1>2
        <4>3. QED
          BY <1>7, <2>1, <4>1, <4>2
      <3>3. QED
        BY <1>5, <1>8, <2>1, <3>1, <3>2
    <2>6. QED
      BY <2>3, <2>5
  <1>9. ASSUME NEW x \in DOMAIN g PROVE new[x] = g[x] \/ \E j \in 1 .. m - 1 : v[j] = x
    <2>1. \A j \in 1 .. m : j = 1 \/ j \in 2 .. m
      BY <1>2
    <2>2. CASE \E j \in 2 .. m : w[j] = x
      BY <1>7, <2>2
    <2>3. CASE ~(\E j \in 2 .. m : w[j] = x) /\ x = w[1]
      <3>1. ReadIn(sl, plan[1].src) = g[x] \/ \E j \in 1 + 1 .. m : w[j] = x
        BY <1>2, <1>5, <2>3
      <3>2. 1 + 1 = 2
        OBVIOUS
      <3>3. QED
        BY <1>4, <2>3, <3>1, <3>2
    <2>4. CASE ~(\E j \in 2 .. m : w[j] = x) /\ x # w[1]
      <3>1. sl[x] = g[x]
        BY <1>6, <2>1, <2>4
      <3>2. QED
        BY <1>4, <2>4, <3>1
    <2>5. QED
      BY <2>2, <2>3, <2>4
  <1>10. QED
    BY <1>8, <1>9 DEF Leads, t, new

\* The slots of places.
LEMMA WantedAt ==
    ASSUME NEW base \in Slots, NEW V, DOMAIN V \subseteq Slots
    PROVE  /\ DOMAIN Wanted(base, V) \subseteq Slots
           /\ \A x \in DOMAIN V : /\ next_idx(base, x) \in DOMAIN Wanted(base, V)
                                  /\ Wanted(base, V)[next_idx(base, x)] = V[x]
           /\ \A x \in Slots : next_idx(base, x) \in DOMAIN Wanted(base, V) => x \in DOMAIN V
           /\ \A y \in DOMAIN Wanted(base, V) : \E x \in DOMAIN V : y = next_idx(base, x)
  <1>1. \A x \in Slots : next_idx(base, x) \in Slots /\ distance_idx(base, next_idx(base, x)) = x
    BY DistanceNext
  <1>2. \A y \in Slots : /\ distance_idx(base, y) \in Slots
                         /\ next_idx(base, distance_idx(base, y)) = y
    BY DistanceNext
  <1>3. QED
    BY <1>1, <1>2 DEF Wanted

\* A plan, told by the places it writes and reads.
LEMMA LeadsByPlaces ==
    ASSUME NEW base \in Slots, NEW sl, NEW plan, NEW m \in Nat, NEW w, NEW V, NEW d,
           DOMAIN V \subseteq Slots,
           \A i \in 1 .. m : d[i] \in Slots /\ w[i] = next_idx(base, d[i]),
           LeadsAt(base, sl, plan, m, d, V)
    PROVE  Leads(sl, plan, m, w, Wanted(base, V))
  <1> DEFINE g == Wanted(base, V)
  <1>0. /\ \A i \in 1 .. m : d[i] \in DOMAIN V =>
            /\ plan[i].src[1] = "slot" =>
                 \E r \in Slots : /\ plan[i].src[2] = next_idx(base, r)
                                  /\ \A j \in 1 .. i - 1 : d[j] # r
            /\ ReadIn(sl, plan[i].src) = V[d[i]] \/ \E j \in i + 1 .. m : d[j] = d[i]
        /\ \A x \in DOMAIN V : sl[next_idx(base, x)] = V[x] \/ \E j \in 1 .. m : d[j] = x
    BY DEF LeadsAt
  <1>1. /\ \A x \in DOMAIN V : next_idx(base, x) \in DOMAIN g /\ g[next_idx(base, x)] = V[x]
        /\ \A x \in Slots : next_idx(base, x) \in DOMAIN g => x \in DOMAIN V
        /\ \A y \in DOMAIN g : \E x \in DOMAIN V : y = next_idx(base, x)
    BY WantedAt
  <1> HIDE DEF g
  <1>2. \A x, y \in Slots : next_idx(base, x) = next_idx(base, y) => x = y
    <2>1. \A x \in Slots : distance_idx(base, next_idx(base, x)) = x
      BY DistanceNext
    <2>2. QED
      BY <2>1
  <1>3. ASSUME NEW i \in 1 .. m, w[i] \in DOMAIN g
        PROVE  /\ plan[i].src[1] = "slot" => \A j \in 1 .. i - 1 : w[j] # plan[i].src[2]
               /\ ReadIn(sl, plan[i].src) = g[w[i]] \/ \E j \in i + 1 .. m : w[j] = w[i]
    <2>1. d[i] \in DOMAIN V /\ g[w[i]] = V[d[i]]
      BY <1>1, <1>3
    <2>2. ASSUME plan[i].src[1] = "slot", NEW j \in 1 .. i - 1 PROVE w[j] # plan[i].src[2]
      <3>1. PICK r \in Slots : plan[i].src[2] = next_idx(base, r) /\ d[j] # r
        BY <1>0, <2>1, <2>2
      <3>2. j \in 1 .. m
        OBVIOUS
      <3>3. QED
        BY <1>2, <3>1, <3>2
    <2>3. ReadIn(sl, plan[i].src) = V[d[i]] \/ \E j \in i + 1 .. m : d[j] = d[i]
      BY <1>0, <2>1
    <2>4. \A j \in i + 1 .. m : j \in 1 .. m
      OBVIOUS
    <2>5. QED
      BY <2>1, <2>2, <2>3, <2>4
  <1>4. ASSUME NEW y \in DOMAIN g PROVE sl[y] = g[y] \/ \E j \in 1 .. m : w[j] = y
    BY <1>0, <1>1
  <1>5. QED
    BY <1>3, <1>4 DEF Leads, g

\* What a step of a plan reads, and what it leaves alone.
LEMMA StepOf ==
    ASSUME ContainerIInv, Step
    PROVE  /\ todo \in Seq(Steps) /\ todo # <<>> /\ Head(todo) = todo[1] /\ todo' = Tail(todo)
           /\ Len(todo) \in Nat /\ Len(todo) >= 1 /\ Len(todo') = Len(todo) - 1
           /\ \A i \in 1 .. Len(todo) - 1 : todo'[i] = todo[i + 1]
           /\ \A i \in 1 .. Len(todo) :
                todo[i].do \in {"construct_end", "construct_begin", "assign"} =>
                    (todo[i].src[1] = "slot" => todo[i].src[2] \in Slots)
           /\ life' = life /\ call' = call /\ was' = was /\ ret' = ret /\ iter' = iter
           /\ DOMAIN slots = Slots /\ m_begin \in Slots /\ m_end \in Slots /\ size \in Nat
           /\ MaxSize \in Nat
           /\ \A src : ReadIn(slots, src) = Read(src)
  <1>1. /\ todo \in Seq(Steps) /\ todo # <<>> /\ todo' = Tail(todo)
        /\ life' = life /\ call' = call /\ was' = was /\ ret' = ret /\ iter' = iter
        /\ DOMAIN slots = Slots /\ m_begin \in Slots /\ m_end \in Slots /\ size \in Nat
        /\ MaxSize \in Nat
    BY SizeType DEF Step, ContainerIInv, ContainerTypeOK
  <1>2. /\ Len(todo) \in Nat /\ Len(todo) >= 1 /\ Len(todo') = Len(todo) - 1
        /\ Head(todo) = todo[1]
        /\ \A i \in 1 .. Len(todo) - 1 : todo'[i] = todo[i + 1]
    BY <1>1, FirstStep
  <1>3. ASSUME NEW i \in 1 .. Len(todo),
               todo[i].do \in {"construct_end", "construct_begin", "assign"},
               todo[i].src[1] = "slot"
        PROVE  todo[i].src[2] \in Slots
    <2>1. todo[i] \in Steps
      BY <1>1, ElementOfSeq
    <2>2. todo[i].src \in ReadFrom
      BY <1>3, <2>1 DEF Steps, Refused
    <2>3. QED
      BY <1>3, <2>2 DEF ReadFrom
  <1>4. \A src : ReadIn(slots, src) = Read(src)
    BY DEF ReadIn, Read
  <1>5. QED
    BY <1>1, <1>2, <1>3, <1>4

\* The next step of a plan that puts elements.
LEMMA FillsFirst ==
    ASSUME ContainerIInv, Step, NEW n \in 0 .. Len(todo),
           NEW side \in {"construct_end", "construct_begin"},
           Fills(todo, n, side, call, was, iter)
    PROVE  /\ IF n = 0 THEN Head(todo).do = "assign" ELSE Head(todo).do = side
           /\ \A i \in 1 .. Len(todo) : todo[i].src[1] = "slot" => todo[i].src[2] \in Slots
           /\ FirstSlot(side, n) \in Slots
           /\ DOMAIN Wanted(FirstSlot(side, n), PutPlaces(call, was)) \subseteq Slots
           /\ n <= MaxSize /\ size + n <= MaxSize
  <1>1. /\ Len(todo) \in Nat /\ Len(todo) >= 1 /\ Head(todo) = todo[1]
        /\ \A i \in 1 .. Len(todo) :
            todo[i].do \in {"construct_end", "construct_begin", "assign"} =>
                (todo[i].src[1] = "slot" => todo[i].src[2] \in Slots)
        /\ m_begin \in Slots /\ size \in Nat /\ MaxSize \in Nat
    BY StepOf
  <1>2. /\ \A i \in 1 .. n : todo[i].do = side
        /\ \A i \in n + 1 .. Len(todo) : todo[i].do = "assign"
        /\ size + n = Total(call, was) /\ Total(call, was) <= MaxSize
    BY DEF Fills
  <1>3. /\ size + n <= MaxSize /\ n <= MaxSize /\ n \in Slots
        /\ \A i \in 1 .. Len(todo) : i \in 1 .. n \/ i \in n + 1 .. Len(todo)
    <2>1. n \in Nat /\ size + n <= MaxSize
      BY <1>2
    <2>2. QED
      BY <1>1, <2>1 DEF Slots
  <1>4. IF n = 0 THEN todo[1].do = "assign" ELSE todo[1].do = side
    <2>1. n = 0 => 1 \in n + 1 .. Len(todo)
      BY <1>1
    <2>2. n # 0 => 1 \in 1 .. n
      OBVIOUS
    <2>3. QED
      BY <1>2, <2>1, <2>2
  <1>5. \A i \in 1 .. Len(todo) : todo[i].src[1] = "slot" => todo[i].src[2] \in Slots
    BY <1>1, <1>2, <1>3
  <1>6. FirstSlot(side, n) \in Slots
    BY <1>1, <1>3, DistanceNext DEF FirstSlot
  <1>7. DOMAIN PutPlaces(call, was) \subseteq Slots
    <2>1. Total(call, was) \in Nat
      BY <1>1, <1>2
    <2>2. \A y \in 0 .. Total(call, was) - 1 : y \in Slots
      BY <1>1, <1>2, <2>1 DEF Slots
    <2>3. QED
      BY <2>2 DEF PutPlaces
  <1>8. QED
    BY <1>1, <1>3, <1>4, <1>5, <1>6, <1>7, WantedAt

\* What a step does to a plan of which the rest makes the container r larger.
LEMMA FillsRest ==
    ASSUME ContainerIInv, Step, NEW n \in 0 .. Len(todo), NEW r \in 0 .. Len(todo) - 1,
           NEW side \in {"construct_end", "construct_begin"},
           Fills(todo, n, side, call, was, iter),
           Len(call.data) \in Nat, r = n - 1 \/ (n = 0 /\ r = 0), size' + r = size + n,
           FirstSlot(side, r)' = FirstSlot(side, n),
           Writes(todo, n, side)[1] \in Slots,
           slots' = [slots EXCEPT ![Writes(todo, n, side)[1]] = Read(Head(todo).src)],
           \A i \in 1 .. Len(todo) - 1 :
                Writes(todo, r, side)'[i] = Writes(todo, n, side)[i + 1]
    PROVE  PutsRight(todo, call, was, iter)'
  <1> DEFINE base == FirstSlot(side, n)
             g == Wanted(base, PutPlaces(call, was))
             w == Writes(todo, n, side)
             v == Writes(todo, r, side)'
  <1>1. /\ todo \in Seq(Steps) /\ todo # <<>> /\ Head(todo) = todo[1] /\ todo' = Tail(todo)
        /\ Len(todo) \in Nat /\ Len(todo) >= 1 /\ Len(todo') = Len(todo) - 1
        /\ \A i \in 1 .. Len(todo) - 1 : todo'[i] = todo[i + 1]
        /\ call' = call /\ was' = was /\ iter' = iter
        /\ DOMAIN slots = Slots
        /\ \A src : ReadIn(slots, src) = Read(src)
    BY StepOf
  <1>2. /\ \A i \in 1 .. Len(todo) : todo[i].src[1] = "slot" => todo[i].src[2] \in Slots
        /\ DOMAIN g \subseteq Slots
    BY FillsFirst
  <1>3. Leads(slots, todo, Len(todo), w, g)
    BY DEF Fills
  <1>4. v = Writes(todo, r, side)' /\ Len(todo) \in 1 .. Len(todo)
    BY <1>1
  <1> HIDE DEF w, v, g
  <1>5. /\ w[1] \in Slots /\ \A i \in 1 .. Len(todo) - 1 : v[i] = w[i + 1]
        /\ slots' = [slots EXCEPT ![w[1]] = ReadIn(slots, todo[1].src)]
    BY <1>1, <1>4 DEF w
  <1>6. Leads(slots', todo', Len(todo'), v, g)
    <2>1. Leads([slots EXCEPT ![w[1]] = ReadIn(slots, todo[1].src)], Tail(todo),
                Len(todo) - 1, v, g)
      BY <1>1, <1>2, <1>3, <1>4, <1>5, LeadsOn
    <2>2. QED
      BY <1>1, <1>5, <2>1
  <1>7. g = Wanted(FirstSlot(side, r)', PutPlaces(call, was)')
    BY <1>1 DEF g, PutPlaces, Total, Kept, Free, Put, Where
  <1>8. /\ \A i \in 1 .. r : todo'[i].do = side
        /\ \A i \in r + 1 .. Len(todo') : todo'[i].do = "assign"
    <2>1. /\ \A i \in 1 .. n : todo[i].do = side
          /\ \A i \in n + 1 .. Len(todo) : todo[i].do = "assign"
      BY DEF Fills
    <2>2. ASSUME NEW i \in 1 .. r PROVE todo'[i].do = side
      <3>1. i \in 1 .. Len(todo) - 1 /\ i + 1 \in 1 .. n
        BY <1>1
      <3>2. QED
        BY <1>1, <2>1, <3>1
    <2>3. ASSUME NEW i \in r + 1 .. Len(todo') PROVE todo'[i].do = "assign"
      <3>1. i \in 1 .. Len(todo) - 1 /\ i + 1 \in n + 1 .. Len(todo)
        BY <1>1
      <3>2. QED
        BY <1>1, <2>1, <3>1
    <2>4. QED
      BY <2>2, <2>3
  <1>9. Fills(todo, r, side, call, was, iter)'
    <2>1. /\ size + n = Total(call, was) /\ Total(call, was) <= MaxSize
          /\ call.op = "push" => Len(call.data) = 1
          /\ n <= Len(call.data)
      BY DEF Fills
    <2>2. r <= Len(call.data)
      BY <1>1, <2>1
    <2>3. Total(call, was)' = Total(call, was)
      BY <1>1 DEF Total, Kept
    <2>4. (IF call.op = "insert"
           THEN iter \in Slots /\ distance_idx(FirstSlot(side, r), iter) = call.pos
       ELSE /\ iter = NoIter /\ r = Len(todo)
            /\ \/ side = "construct_end" /\ Where(call) = Len(Kept(call, was))
               \/ side = "construct_begin" /\ call.op = "push" /\ call.pos = 0)'
      <3>1. IF call.op = "insert"
            THEN iter \in Slots /\ distance_idx(FirstSlot(side, n), iter) = call.pos
            ELSE /\ iter = NoIter /\ n = Len(todo)
                 /\ \/ side = "construct_end" /\ Where(call) = Len(Kept(call, was))
                    \/ side = "construct_begin" /\ call.op = "push" /\ call.pos = 0
        BY DEF Fills
      <3>2. n = Len(todo) => r = Len(todo')
        BY <1>1
      <3>3. distance_idx(FirstSlot(side, r), iter)' = distance_idx(FirstSlot(side, n), iter)
        BY <1>1 DEF distance_idx
      <3>4. Where(call)' = Where(call) /\ Kept(call, was)' = Kept(call, was)
        BY <1>1 DEF Where, Kept
      <3>5. QED
        BY <1>1, <3>1, <3>2, <3>3, <3>4
    <2>5. (call.op = "insert" => OneSided(todo, r, side, call))'
      <3>1. ASSUME call.op = "insert", NEW i \in 1 .. Len(todo')
            PROVE  Worked(side, distance_idx(FirstSlot(side, r)', v[i]), call.pos,
                          Len(call.data))
        <4>1. i + 1 \in 1 .. Len(todo) /\ v[i] = w[i + 1]
          BY <1>1, <1>5
        <4>2. OneSided(todo, n, side, call)
          BY <3>1 DEF Fills
        <4>3. QED
          BY <4>1, <4>2 DEF OneSided, w
      <3>2. QED
        BY <1>1, <1>4, <3>1 DEF OneSided, distance_idx
    <2>6. QED
      BY <1>1, <1>4, <1>6, <1>7, <1>8, <2>1, <2>2, <2>3, <2>4, <2>5 DEF Fills
  <1>10. QED
    BY <1>1, <1>9 DEF PutsRight

\* The indices of a container that grows.
LEMMA NextNext ==
    ASSUME NEW b \in Slots, NEW i \in Nat, i + 1 <= MaxSize
    PROVE  /\ next_idx(next_idx(b, 1), i) = next_idx(b, i + 1)
           /\ prev_idx(prev_idx(b, 1), i) = prev_idx(b, i + 1)
           /\ next_idx(b, 0) = b /\ prev_idx(b, 0) = b
  BY ContainersAssumption DEF Slots, BufSize, next_idx, prev_idx

\* A step of a call that puts elements: the rest of its plan does what the plan did.
LEMMA FillsStep ==
    ASSUME ContainerIInv, Step, Len(call.data) \in Nat, PutsRight(todo, call, was, iter)
    PROVE  PutsRight(todo, call, was, iter)'
  <1>1. PICK n \in 0 .. Len(todo), side \in {"construct_end", "construct_begin"} :
            Fills(todo, n, side, call, was, iter)
    BY DEF PutsRight
  <1>2. /\ todo \in Seq(Steps) /\ todo # <<>> /\ Head(todo) = todo[1] /\ todo' = Tail(todo)
        /\ Len(todo) \in Nat /\ Len(todo) >= 1 /\ Len(todo') = Len(todo) - 1
        /\ \A i \in 1 .. Len(todo) - 1 : todo'[i] = todo[i + 1]
        /\ m_begin \in Slots /\ m_end \in Slots /\ size \in Nat /\ MaxSize \in Nat
    BY StepOf
  <1>3. /\ IF n = 0 THEN Head(todo).do = "assign" ELSE Head(todo).do = side
        /\ size + n <= MaxSize /\ n <= MaxSize
    BY <1>1, FillsFirst
  <1> DEFINE w == Writes(todo, n, side)
  <1>4. \A i \in 1 .. Len(todo) :
            w[i] = IF i > n THEN todo[i].at
                   ELSE IF side = "construct_end" THEN next_idx(m_end, i - 1)
                   ELSE prev_idx(m_begin, i)
    BY DEF Writes
  <1>5. Len(todo) \in Nat /\ 1 \in 1 .. Len(todo)
    BY <1>2
  <1> HIDE DEF w
  <1>6. CASE n = 0
    <2>1. /\ slots' = [slots EXCEPT ![Head(todo).at] = Read(Head(todo).src)]
          /\ m_begin' = m_begin /\ m_end' = m_end
      BY <1>3, <1>6 DEF Step
    <2>2. w[1] = Head(todo).at /\ w[1] \in Slots
      <3>1. todo[1] \in Steps /\ todo[1].do = "assign"
        BY <1>2, <1>3, <1>5, <1>6, ElementOfSeq
      <3>2. todo[1].at \in Slots
        BY <3>1 DEF Steps, Refused
      <3>3. QED
        BY <1>2, <1>4, <1>5, <1>6, <3>2
    <2>3. size' = size /\ FirstSlot(side, 0)' = FirstSlot(side, 0)
      BY <2>1 DEF size, FirstSlot
    <2>4. ASSUME NEW i \in 1 .. Len(todo) - 1 PROVE Writes(todo, 0, side)'[i] = w[i + 1]
      <3>1. i + 1 \in 1 .. Len(todo) /\ i > 0 /\ i + 1 > n /\ i \in 1 .. Len(todo')
        BY <1>2, <1>6
      <3>2. Writes(todo, 0, side)'[i] = todo'[i].at
        BY <3>1 DEF Writes
      <3>3. QED
        BY <1>2, <1>4, <3>1, <3>2
    <2>5. 0 \in 0 .. Len(todo) - 1
      BY <1>2
    <2>6. QED
      BY <1>1, <1>6, <2>1, <2>2, <2>3, <2>4, <2>5, FillsRest DEF w
  <1>7. CASE n > 0 /\ side = "construct_end"
    <2>1. /\ slots' = [slots EXCEPT ![m_end] = Read(Head(todo).src)]
          /\ m_begin' = m_begin /\ m_end' = next_idx(m_end, 1)
      BY <1>3, <1>7 DEF Step
    <2>2. w[1] = m_end
      <3>1. ~(1 > n) /\ 1 - 1 = 0
        BY <1>7
      <3>2. next_idx(m_end, 0) = m_end
        BY <1>2 DEF next_idx, BufSize, Slots
      <3>3. QED
        BY <1>4, <1>5, <1>7, <3>1, <3>2
    <2>3. size' = size + 1
      <3>1. size < MaxSize
        BY <1>2, <1>3, <1>7
      <3>2. QED
        BY <1>2, <2>1, <3>1, GrownAtEnd DEF size
    <2>4. ASSUME NEW i \in 1 .. Len(todo) - 1 PROVE Writes(todo, n - 1, side)'[i] = w[i + 1]
      <3>1. /\ i + 1 \in 1 .. Len(todo) /\ i \in 1 .. Len(todo') /\ i - 1 \in Nat
            /\ i + 1 - 1 = i
            /\ i > n - 1 <=> i + 1 > n
        BY <1>2
      <3>2. Writes(todo, n - 1, side)'[i] = IF i > n - 1 THEN todo'[i].at
                                            ELSE next_idx(m_end', i - 1)
        BY <1>7, <3>1 DEF Writes
      <3>3. w[i + 1] = IF i + 1 > n THEN todo[i + 1].at ELSE next_idx(m_end, i)
        BY <1>4, <1>7, <3>1
      <3>4. CASE i > n - 1
        BY <1>2, <3>1, <3>2, <3>3, <3>4
      <3>5. CASE ~(i > n - 1)
        <4>1. (i - 1) + 1 <= MaxSize /\ (i - 1) + 1 = i
          BY <1>2, <1>3, <3>5
        <4>2. next_idx(next_idx(m_end, 1), i - 1) = next_idx(m_end, i)
          BY <1>2, <3>1, <4>1, NextNext
        <4>3. QED
          BY <2>1, <3>1, <3>2, <3>3, <3>5, <4>2
      <3>6. QED
        BY <3>4, <3>5
    <2>5. FirstSlot(side, n - 1)' = FirstSlot(side, n)
      BY <1>7, <2>1 DEF FirstSlot
    <2>6. n - 1 \in 0 .. Len(todo) - 1 /\ size' + (n - 1) = size + n
      BY <1>2, <1>7, <2>3
    <2>7. QED
      BY <1>1, <1>2, <2>1, <2>2, <2>4, <2>5, <2>6, FillsRest DEF w
  <1>8. CASE n > 0 /\ side = "construct_begin"
    <2> DEFINE c == prev_idx(m_begin, 1)
    <2>1. /\ slots' = [slots EXCEPT ![c] = Read(Head(todo).src)]
          /\ m_begin' = c /\ m_end' = m_end
      BY <1>3, <1>8 DEF Step
    <2>2. w[1] = c
      <3>1. ~(1 > n)
        BY <1>8
      <3>2. QED
        BY <1>4, <1>5, <1>8, <3>1
    <2>3. size' = size + 1 /\ c \in Slots
      <3>1. size < MaxSize
        BY <1>2, <1>3, <1>8
      <3>2. QED
        BY <1>2, <2>1, <3>1, GrownAtBegin DEF size
    <2> HIDE DEF c
    <2>4. ASSUME NEW i \in Nat, i + 1 <= MaxSize PROVE prev_idx(c, i) = prev_idx(m_begin, i + 1)
      BY <1>2, <2>4, NextNext DEF c
    <2>5. ASSUME NEW i \in 1 .. Len(todo) - 1 PROVE Writes(todo, n - 1, side)'[i] = w[i + 1]
      <3>1. /\ i + 1 \in 1 .. Len(todo) /\ i \in 1 .. Len(todo') /\ i \in Nat
            /\ i > n - 1 <=> i + 1 > n
        BY <1>2
      <3>2. Writes(todo, n - 1, side)'[i] = IF i > n - 1 THEN todo'[i].at ELSE prev_idx(c, i)
        BY <1>8, <2>1, <3>1 DEF Writes
      <3>3. w[i + 1] = IF i + 1 > n THEN todo[i + 1].at ELSE prev_idx(m_begin, i + 1)
        BY <1>4, <1>8, <3>1
      <3>4. CASE i > n - 1
        BY <1>2, <3>1, <3>2, <3>3, <3>4
      <3>5. CASE ~(i > n - 1)
        <4>1. i + 1 <= MaxSize
          BY <1>2, <1>3, <3>5
        <4>2. QED
          BY <2>4, <3>1, <3>2, <3>3, <3>5, <4>1
      <3>6. QED
        BY <3>4, <3>5
    <2>6. FirstSlot(side, n - 1)' = FirstSlot(side, n)
      <3>1. n - 1 \in Nat /\ (n - 1) + 1 <= MaxSize /\ (n - 1) + 1 = n
        BY <1>3, <1>8
      <3>2. prev_idx(c, n - 1) = prev_idx(m_begin, n)
        BY <2>4, <3>1
      <3>3. QED
        BY <1>8, <2>1, <3>2 DEF FirstSlot
    <2>7. n - 1 \in 0 .. Len(todo) - 1 /\ size' + (n - 1) = size + n
      BY <1>2, <1>8, <2>3
    <2>8. QED
      BY <1>1, <1>2, <2>1, <2>2, <2>3, <2>5, <2>6, <2>7, FillsRest DEF w
  <1>9. QED
    BY <1>6, <1>7, <1>8

\* The places that a call leaves when it takes elements away.
LEMMA ClosedType ==
    ASSUME NEW c, NEW s, Len(s) \in Nat, Len(s) <= MaxSize, NEW cut,
           cut.do \in {"cut_end", "cut_begin"}, cut.n \in Nat
    PROVE  DOMAIN ClosedPlaces(c, s, cut) \subseteq Slots
  <1>1. MaxSize \in Nat
    BY ContainersAssumption
  <1>2. \A x \in 0 .. Len(s) - cut.n - 1 : x \in Slots
    BY <1>1 DEF Slots
  <1>3. \A x \in cut.n .. Len(s) - 1 : x \in Slots
    BY <1>1 DEF Slots
  <1>4. QED
    BY <1>2, <1>3 DEF ClosedPlaces

\* A move of a call that takes elements away leaves the other moves and the cut.
LEMMA ClosesStep ==
    ASSUME ContainerIInv, Step, CallType(call, was), call.op \in {"pop", "erase"},
           Closes(todo, call, was, iter), Len(todo) > 1
    PROVE  Closes(todo, call, was, iter)'
  <1> DEFINE m == Len(todo) - 1
             cut == todo[Len(todo)]
             V == ClosedPlaces(call, was, cut)
             w == [i \in 1 .. m |-> todo[i].at]
             v == [i \in 1 .. m - 1 |-> todo'[i].at]
             g == Wanted(m_begin, V)
  <1>1. /\ todo \in Seq(Steps) /\ todo # <<>> /\ Head(todo) = todo[1] /\ todo' = Tail(todo)
        /\ Len(todo) \in Nat /\ Len(todo') = Len(todo) - 1
        /\ \A i \in 1 .. Len(todo) - 1 : todo'[i] = todo[i + 1]
        /\ \A i \in 1 .. Len(todo) :
                todo[i].do \in {"construct_end", "construct_begin", "assign"} =>
                    (todo[i].src[1] = "slot" => todo[i].src[2] \in Slots)
        /\ call' = call /\ was' = was /\ iter' = iter
        /\ DOMAIN slots = Slots /\ m_begin \in Slots /\ m_end \in Slots
        /\ \A src : ReadIn(slots, src) = Read(src)
    BY StepOf
  <1>2. m \in 1 .. Len(todo) /\ 1 \in 1 .. m /\ m \in Nat
    BY <1>1
  <1>3. /\ cut.do \in {"cut_end", "cut_begin"} /\ cut.n = call.upto - call.pos
        /\ \A i \in 1 .. m : todo[i].do = "assign"
        /\ size = Len(was) /\ Leads(slots, todo, m, w, g)
        /\ call.op = "erase" /\ iter \in Slots
        /\ call.pos = IF cut.do = "cut_end" THEN distance_idx(m_begin, iter)
                      ELSE distance_idx(next_idx(m_begin, cut.n), iter)
        /\ \A i \in 1 .. m : Worked(cut.do, distance_idx(m_begin, w[i]), call.pos, cut.n)
    BY <1>2 DEF Closes
  <1>4. /\ Len(was) \in Nat /\ Len(was) <= MaxSize /\ cut.n \in Nat
    BY <1>3, LenProperties DEF CallType
  <1>5. DOMAIN g \subseteq Slots
    <2> HIDE DEF cut
    <2>1. cut.do \in {"cut_end", "cut_begin"} /\ Len(was) \in Nat /\ Len(was) <= MaxSize
          /\ cut.n \in Nat
      BY <1>3, <1>4
    <2>2. DOMAIN V \subseteq Slots
      BY <2>1, ClosedType
    <2>3. \A b \in Slots : DOMAIN Wanted(b, V) \subseteq Slots
      BY <2>2, WantedAt
    <2>4. QED
      BY <1>1, <2>3
  <1>6. todo[1] \in Steps /\ todo[1].do = "assign" /\ Head(todo).do = "assign"
    BY <1>1, <1>2, <1>3, ElementOfSeq
  <1>7. w[1] = Head(todo).at /\ w[1] \in Slots
    <2>1. todo[1].at \in Slots
      BY <1>6 DEF Steps, Refused
    <2>2. QED
      BY <1>1, <1>2, <2>1
  <1>8. /\ slots' = [slots EXCEPT ![w[1]] = ReadIn(slots, todo[1].src)]
        /\ m_begin' = m_begin /\ m_end' = m_end
    BY <1>1, <1>6, <1>7 DEF Step
  <1>9. size' = size
    BY <1>8 DEF size
  <1>10. cut = todo'[Len(todo')] /\ Len(todo') - 1 = m - 1
    <2>1. Len(todo) - 1 \in 1 .. Len(todo) - 1 /\ Len(todo) - 1 + 1 = Len(todo)
      BY <1>1
    <2>2. QED
      BY <1>1, <2>1
  <1>11. \A i \in 1 .. m - 1 : todo'[i].do = "assign" /\ v[i] = w[i + 1]
    <2>1. ASSUME NEW i \in 1 .. m - 1 PROVE todo'[i].do = "assign" /\ v[i] = w[i + 1]
      <3>1. i \in 1 .. Len(todo) - 1 /\ i + 1 \in 1 .. m
        BY <1>1
      <3>2. QED
        BY <1>1, <1>3, <3>1
    <2>2. QED
      BY <2>1
  <1>12. v = [i \in 1 .. Len(todo') - 1 |-> todo'[i].at]
    BY <1>10
  <1>13. \A i \in 1 .. m : todo[i].src[1] = "slot" => todo[i].src[2] \in Slots
    BY <1>1, <1>2, <1>3
  <1>14. g = Wanted(m_begin', ClosedPlaces(call', was', todo'[Len(todo')]))
    BY <1>1, <1>8, <1>10
  <1> HIDE DEF m, cut, w, v, g, V
  <1>15. Leads([slots EXCEPT ![w[1]] = ReadIn(slots, todo[1].src)], Tail(todo), m - 1, v, g)
    BY <1>1, <1>2, <1>3, <1>5, <1>7, <1>11, <1>13, LeadsOn
  <1>16. Leads(slots', todo', m - 1, v, g)
    BY <1>1, <1>8, <1>15
  <1>17. /\ cut = todo'[Len(todo')] /\ Len(todo') - 1 = m - 1
         /\ \A i \in 1 .. Len(todo') - 1 : todo'[i].do = "assign"
         /\ v = [i \in 1 .. Len(todo') - 1 |-> todo'[i].at]
    BY <1>10, <1>11, <1>12
  <1>18. todo' # <<>>
    BY <1>1, <1>10
  <1>19. \A i \in 1 .. m - 1 : Worked(cut.do, distance_idx(m_begin, v[i]), call.pos, cut.n)
    <2>1. \A i \in 1 .. m - 1 : i + 1 \in 1 .. m
      BY <1>2
    <2>2. QED
      BY <1>3, <1>11, <2>1
  <1>20. (\A i \in 1 .. Len(todo) - 1 :
            Worked(todo[Len(todo)].do, distance_idx(m_begin, todo[i].at), call.pos,
                   todo[Len(todo)].n))'
    BY <1>1, <1>8, <1>10, <1>17, <1>19 DEF distance_idx
  <1>21. QED
    BY <1>1, <1>3, <1>8, <1>9, <1>10, <1>11, <1>12, <1>14, <1>16, <1>18, <1>20 DEF Closes

\* The cut, the last step of such a call, closes the gap.
LEMMA CutStep ==
    ASSUME ContainerIInv, Step, CallType(call, was), call.op \in {"pop", "erase"},
           Closes(todo, call, was, iter), Len(todo) = 1
    PROVE  HasClosed(todo, call, was, iter)'
  <1> DEFINE cut == Head(todo)
             n == cut.n
             V == ClosedPlaces(call, was, cut)
  <1>1. /\ todo \in Seq(Steps) /\ todo # <<>> /\ Head(todo) = todo[1] /\ Len(todo') = Len(todo) - 1
        /\ todo' = Tail(todo) /\ call' = call /\ was' = was /\ iter' = iter
        /\ DOMAIN slots = Slots /\ m_begin \in Slots /\ m_end \in Slots
        /\ size \in Nat /\ MaxSize \in Nat
    BY StepOf
  <1>2. todo' = <<>>
    BY <1>1, EmptySeq, HeadTailProperties
  <1>3. /\ cut.do \in {"cut_end", "cut_begin"} /\ n = call.upto - call.pos
        /\ size = Len(was)
        /\ IF call.op = "pop" THEN iter = NoIter
           ELSE /\ iter \in Slots
                /\ call.pos = IF cut.do = "cut_end" THEN distance_idx(m_begin, iter)
                              ELSE distance_idx(next_idx(m_begin, n), iter)
        /\ Leads(slots, todo, 0, [i \in 1 .. 0 |-> todo[i].at], Wanted(m_begin, V))
    BY <1>1 DEF Closes
  <1>4. n \in 0 .. size /\ size <= MaxSize /\ n \in Nat
    BY <1>1, <1>3, LenProperties DEF CallType
  <1> HIDE DEF n
  <1>5. \A x \in DOMAIN Wanted(m_begin, V) : slots[x] = Wanted(m_begin, V)[x]
    BY <1>3 DEF Leads
  <1>6. ASSUME NEW x \in DOMAIN V PROVE x \in Slots /\ slots[next_idx(m_begin, x)] = V[x]
    <2>1. /\ cut.do \in {"cut_end", "cut_begin"} /\ cut.n \in Nat
          /\ Len(was) \in Nat /\ Len(was) <= MaxSize
      BY <1>1, <1>3, <1>4 DEF n
    <2> HIDE DEF cut
    <2>2. DOMAIN V \subseteq Slots
      BY <2>1, ClosedType
    <2>3. QED
      BY <1>1, <1>5, <2>2, WantedAt
  <1>7. \A j \in Nat : j <= MaxSize => j \in Slots
    BY <1>1 DEF Slots
  <1>8. CASE cut.do = "cut_end"
    <2>1. /\ slots' = [i \in Slots |->
                IF distance_idx(m_begin, i) \in size - n .. size - 1 THEN Raw ELSE slots[i]]
          /\ m_end' = prev_idx(m_end, n) /\ m_begin' = m_begin
      BY <1>8 DEF Step, n
    <2>2. size' = size - n
      BY <1>1, <1>4, <2>1, CutAtEnd DEF size
    <2>3. ASSUME NEW p \in 1 .. size - n PROVE elements'[p] = Closed(call, was, p)
      <3>1. /\ p - 1 \in Nat /\ p - 1 \in 0 .. Len(was) - n - 1
            /\ p - 1 <= MaxSize /\ (p - 1) + 1 = p
            /\ p - 1 \notin size - n .. size - 1
        BY <1>1, <1>3, <1>4
      <3>2. /\ next_idx(m_begin, p - 1) \in Slots
            /\ distance_idx(m_begin, next_idx(m_begin, p - 1)) = p - 1
        BY <1>1, <1>7, <3>1, DistanceNext
      <3>3. slots'[next_idx(m_begin, p - 1)] = slots[next_idx(m_begin, p - 1)]
        BY <2>1, <3>1, <3>2
      <3>4. p - 1 \in DOMAIN V /\ V[p - 1] = Closed(call, was, p)
        BY <1>1, <1>3, <1>4, <1>8, <3>1 DEF ClosedPlaces, n
      <3>5. elements'[p] = slots'[next_idx(m_begin, p - 1)]
        BY <2>1, <2>2, <3>1 DEF elements, begin_plus, plus
      <3>6. QED
        BY <1>6, <3>3, <3>4, <3>5
    <2>4. QED
      BY <1>1, <1>2, <1>3, <1>8, <2>1, <2>2, <2>3 DEF HasClosed, Closed
  <1>9. CASE cut.do = "cut_begin"
    <2> DEFINE c == next_idx(m_begin, n)
    <2>1. /\ slots' = [i \in Slots |-> IF distance_idx(m_begin, i) < n THEN Raw ELSE slots[i]]
          /\ m_begin' = c /\ m_end' = m_end
      BY <1>9 DEF Step, n
    <2>2. size' = size - n
      BY <1>1, <1>4, <2>1, CutAtBegin DEF size
    <2>3. ASSUME NEW p \in 1 .. size - n PROVE elements'[p] = Closed(call, was, p)
      <3>1. /\ p - 1 \in Nat /\ p - 1 + n \in n .. Len(was) - 1 /\ p - 1 + n <= MaxSize
            /\ p - 1 + n \in Nat /\ p - 1 <= MaxSize /\ ~(p - 1 + n < n)
            /\ p - 1 + n + 1 - n = p /\ n + (p - 1) = p - 1 + n
        BY <1>1, <1>3, <1>4
      <3>2. /\ next_idx(m_begin, p - 1 + n) \in Slots
            /\ distance_idx(m_begin, next_idx(m_begin, p - 1 + n)) = p - 1 + n
        BY <1>1, <1>7, <3>1, DistanceNext
      <3>3. slots'[next_idx(m_begin, p - 1 + n)] = slots[next_idx(m_begin, p - 1 + n)]
        BY <2>1, <3>1, <3>2
      <3>4. p - 1 + n \in DOMAIN V /\ V[p - 1 + n] = Closed(call, was, p)
        BY <1>1, <1>3, <1>4, <1>9, <3>1 DEF ClosedPlaces, n
      <3>5. elements'[p] = slots'[next_idx(c, p - 1)]
        BY <2>1, <2>2, <3>1 DEF elements, begin_plus, plus
      <3>6. next_idx(c, p - 1) = next_idx(m_begin, p - 1 + n)
        <4>1. n \in Slots /\ p - 1 + n \in Slots /\ p - 1 \in Int
          BY <1>1, <1>4, <1>7, <3>1
        <4>2. plus(next_idx(m_begin, n), p - 1) = next_idx(m_begin, n + (p - 1))
          BY <1>1, <3>1, <4>1, PlusInside
        <4>3. plus(next_idx(m_begin, n), p - 1) = next_idx(next_idx(m_begin, n), p - 1)
          BY <3>1 DEF plus
        <4>4. QED
          BY <3>1, <4>2, <4>3
      <3>7. QED
        BY <1>6, <3>3, <3>4, <3>5, <3>6
    <2>4. QED
      BY <1>1, <1>2, <1>3, <1>9, <2>1, <2>2, <2>3 DEF HasClosed, Closed
  <1>10. QED
    BY <1>3, <1>8, <1>9

\* A plan that makes elements at the end.
LEMMA AppendsAt ==
    ASSUME NEW b \in Slots, NEW sl, NEW k \in Nat, NEW n \in Nat, NEW plan,
           NEW d, \A i \in 1 .. n : d[i] = k + i - 1,
           NEW V, DOMAIN V = 0 .. k + n - 1,
           \A i \in 1 .. n :
                /\ plan[i].src[1] = "slot" =>
                     \E r \in Slots : r < k /\ plan[i].src[2] = next_idx(b, r)
                /\ ReadIn(sl, plan[i].src) = V[k + i - 1],
           \A x \in 0 .. k - 1 : sl[next_idx(b, x)] = V[x]
    PROVE  LeadsAt(b, sl, plan, n, d, V)
  <1>1. \A x \in Slots : x \in Nat
    BY DEF Slots
  <1>2. ASSUME NEW i \in 1 .. n
        PROVE  /\ plan[i].src[1] = "slot" =>
                    \E r \in Slots : /\ plan[i].src[2] = next_idx(b, r)
                                     /\ \A j \in 1 .. i - 1 : d[j] # r
               /\ ReadIn(sl, plan[i].src) = V[d[i]]
    <2>1. ASSUME plan[i].src[1] = "slot"
          PROVE  \E r \in Slots : /\ plan[i].src[2] = next_idx(b, r)
                                  /\ \A j \in 1 .. i - 1 : d[j] # r
      <3>1. PICK r \in Slots : r < k /\ plan[i].src[2] = next_idx(b, r)
        BY <2>1
      <3>2. ASSUME NEW j \in 1 .. i - 1 PROVE d[j] # r
        <4>1. j \in 1 .. n /\ r \in Nat
          BY <1>1
        <4>2. QED
          BY <3>1, <4>1
      <3>3. QED
        BY <3>1, <3>2
    <2>2. QED
      BY <2>1
  <1>3. ASSUME NEW x \in DOMAIN V
        PROVE  sl[next_idx(b, x)] = V[x] \/ \E j \in 1 .. n : d[j] = x
    <2>1. CASE x < k
      <3>1. x \in 0 .. k - 1
        BY <2>1
      <3>2. QED
        BY <3>1
    <2>2. CASE ~(x < k)
      <3>1. x - k + 1 \in 1 .. n /\ k + (x - k + 1) - 1 = x
        BY <2>2
      <3>2. d[x - k + 1] = x
        BY <3>1
      <3>3. QED
        BY <3>1, <3>2
    <2>3. QED
      BY <2>1, <2>2
  <1>4. QED
    BY <1>2, <1>3 DEF LeadsAt

\* The values of places.
LEMMA PutAt ==
    ASSUME NEW c, NEW s, Total(c, s) \in Nat
    PROVE  /\ DOMAIN PutPlaces(c, s) \subseteq 0 .. Total(c, s) - 1
           /\ \A x \in DOMAIN PutPlaces(c, s) : PutPlaces(c, s)[x] = Put(c, s, x + 1)
           /\ \A x \in 0 .. Total(c, s) - 1 :
                ~Free(c, x + 1) <=> x \in DOMAIN PutPlaces(c, s)
           /\ c.op # "insert" => DOMAIN PutPlaces(c, s) = 0 .. Total(c, s) - 1
  BY DEF PutPlaces, Free

\* assign() has cut all elements, and constructs those that it was given.
LEMMA RefillsStep ==
    ASSUME ContainerIInv, Step, CallType(call, was), Refills(todo, call, iter)
    PROVE  PutsRight(todo, call, was, iter)'
  <1>0. PICK n : n = Len(call.data)
    OBVIOUS
  <1> DEFINE X == [i \in DOMAIN call.data |-> ConstructEnd(Val(call.data[i]))]
             V == PutPlaces(call, was)
             w == [i \in 1 .. n |-> next_idx(m_begin, i - 1)]
  <1>1. /\ todo \in Seq(Steps) /\ todo # <<>> /\ Head(todo) = todo[1] /\ todo' = Tail(todo)
        /\ call' = call /\ was' = was /\ iter' = iter
        /\ m_begin \in Slots /\ m_end \in Slots /\ size \in Nat /\ MaxSize \in Nat
    BY StepOf
  <1>2. /\ call.op = "assign" /\ n <= MaxSize /\ iter = NoIter
        /\ todo = <<CutEnd(size)>> \o X /\ call.data \in Seq(Values)
    BY <1>0 DEF Refills, CallType
  <1>3. n \in Nat /\ DOMAIN call.data = 1 .. n
    BY <1>0, <1>2, LenProperties
  <1>4. X \in Seq({ConstructEnd(Val(v)) : v \in Values}) /\ Len(X) = n
        /\ \A i \in 1 .. n : X[i] = ConstructEnd(Val(call.data[i]))
    <2>1. \A i \in 1 .. n : call.data[i] \in Values
      BY <1>2, <1>3, ElementOfSeq
    <2>2. X = [i \in 1 .. n |-> X[i]] /\ \A i \in 1 .. n : X[i] = ConstructEnd(Val(call.data[i]))
      BY <1>3
    <2> HIDE DEF X
    <2>3. QED
      BY <1>3, <2>1, <2>2
  <1> HIDE DEF X
  <1>5. Head(todo) = CutEnd(size) /\ todo' = X
    <2>1. Head(<<CutEnd(size)>> \o X) = CutEnd(size) /\ Tail(<<CutEnd(size)>> \o X) = X
      BY <1>4
    <2>2. QED
      BY <1>1, <1>2, <2>1
  <1>6. m_end' = prev_idx(m_end, size) /\ m_begin' = m_begin
    BY <1>5 DEF Step, CutEnd
  <1>7. size' = 0 /\ m_end' \in Slots /\ m_end' = m_begin
    <2>1. size \in 0 .. distance_idx(m_begin, m_end)
      BY <1>1 DEF size
    <2>2. m_end' \in Slots /\ distance_idx(m_begin, m_end') = 0
      BY <1>1, <1>6, <2>1, CutAtEnd DEF size
    <2>3. distance_idx(m_begin, m_begin) = 0
      BY <1>1 DEF distance_idx, Slots
    <2>4. QED
      BY <1>1, <1>6, <2>2, <2>3, DistanceInjective DEF size
  <1>8. Total(call, was) = n /\ Where(call) = 0 /\ Len(Kept(call, was)) = 0
    BY <1>0, <1>2, <1>3 DEF Total, Where, Kept
  <1>9. /\ DOMAIN V = 0 .. n - 1 /\ \A x \in 0 .. n - 1 : V[x] = call.data[x + 1]
    <2>1. DOMAIN V = 0 .. n - 1 /\ \A x \in DOMAIN V : V[x] = Put(call, was, x + 1)
      BY <1>2, <1>3, <1>8, PutAt
    <2>2. ASSUME NEW x \in 0 .. n - 1 PROVE Put(call, was, x + 1) = call.data[x + 1]
      <3>1. ~(x + 1 <= 0) /\ x + 1 <= 0 + n /\ x + 1 - 0 = x + 1
        BY <1>3
      <3>2. QED
        BY <1>0, <1>8, <3>1 DEF Put
    <2>3. QED
      BY <2>1, <2>2
  <1>10. /\ \A i \in 1 .. n : w[i] = next_idx(m_begin, 0 + i - 1)
         /\ \A i \in 1 .. n : X[i].src[1] = "value" /\ X[i].src[2] = call.data[i]
                              /\ X[i].do = "construct_end"
    BY <1>3, <1>4 DEF ConstructEnd, Val
  <1> HIDE DEF V, w
  <1>11. Leads(slots', X, n, w, Wanted(m_begin, V))
    <2>1. 0 + n <= MaxSize /\ 0 \in Nat
      BY <1>2, <1>3
    <2>2. DOMAIN V = 0 .. 0 + n - 1
      BY <1>3, <1>9
    <2>3. ASSUME NEW i \in 1 .. n
          PROVE  /\ X[i].src[1] = "slot" =>
                       \E r \in Slots : r < 0 /\ X[i].src[2] = next_idx(m_begin, r)
                 /\ ReadIn(slots', X[i].src) = V[0 + i - 1]
      <3>1. 0 + i - 1 \in 0 .. n - 1 /\ (0 + i - 1) + 1 = i
        BY <1>3
      <3>2. V[0 + i - 1] = call.data[i]
        BY <1>9, <3>1
      <3>3. QED
        BY <1>10, <3>2 DEF ReadIn
    <2>4. \A x \in 0 .. 0 - 1 : slots'[next_idx(m_begin, x)] = V[x]
      OBVIOUS
    <2> DEFINE d == [i \in 1 .. n |-> 0 + i - 1]
    <2>5. \A i \in 1 .. n : d[i] = 0 + i - 1 /\ w[i] = next_idx(m_begin, d[i])
      BY <1>10
    <2>6. DOMAIN V \subseteq Slots /\ \A i \in 1 .. n : d[i] \in Slots
      <3>1. \A x \in 0 .. 0 + n - 1 : x \in Slots
        BY <1>1, <1>2, <1>3 DEF Slots
      <3>2. \A i \in 1 .. n : d[i] \in 0 .. 0 + n - 1
        BY <1>3
      <3>3. QED
        BY <2>2, <3>1, <3>2
    <2> HIDE DEF d
    <2>7. LeadsAt(m_begin, slots', X, n, d, V)
      BY <1>1, <1>3, <2>1, <2>2, <2>3, <2>4, <2>5, AppendsAt
    <2>8. QED
      BY <1>1, <1>3, <2>5, <2>6, <2>7, LeadsByPlaces
  <1>12. w = Writes(todo, n, "construct_end")'
    <2>1. ASSUME NEW i \in 1 .. n PROVE ~(i > n)
      BY <1>3
    <2>2. QED
      BY <1>4, <1>5, <1>7, <2>1 DEF Writes, w
  <1>13. Wanted(m_begin, V) = Wanted(FirstSlot("construct_end", n), PutPlaces(call, was))'
    BY <1>1, <1>6 DEF FirstSlot, V, PutPlaces, Total, Kept, Free, Put, Where
  <1>14. /\ \A i \in 1 .. n : todo'[i].do = "construct_end"
         /\ \A i \in n + 1 .. Len(todo') : todo'[i].do = "assign"
    BY <1>3, <1>4, <1>5, <1>10
  <1>15. Leads(slots, todo, Len(todo), Writes(todo, n, "construct_end"),
               Wanted(FirstSlot("construct_end", n), PutPlaces(call, was)))'
    BY <1>4, <1>5, <1>11, <1>12, <1>13
  <1>16. /\ (size + n = Total(call, was) /\ Total(call, was) <= MaxSize)'
         /\ (n <= Len(call.data))' /\ (call.op = "assign")' /\ (iter = NoIter)'
         /\ (n = Len(todo))' /\ (Where(call) = Len(Kept(call, was)))'
    <2>1. Total(call, was)' = n /\ Where(call)' = 0 /\ Len(Kept(call, was))' = 0
      BY <1>1, <1>8 DEF Total, Where, Kept
    <2>2. QED
      BY <1>0, <1>1, <1>2, <1>3, <1>4, <1>5, <1>7, <2>1
  <1>17. Fills(todo, n, "construct_end", call, was, iter)'
    BY <1>14, <1>15, <1>16 DEF Fills
  <1>18. (n \in 0 .. Len(todo))'
    BY <1>3, <1>4, <1>5
  <1>19. QED
    BY <1>17, <1>18 DEF PutsRight

\* The elements, and the places of a container that is about to grow.
LEMMA ElementsAt ==
    ASSUME ContainerTypeOK, LiveSlots, life # "failed"
    PROVE  /\ elements \in Seq(Values) /\ Len(elements) = size
           /\ \A x \in 0 .. size - 1 : elements[x + 1] = slots[next_idx(m_begin, x)]
  <1>1. /\ size \in Nat /\ size <= MaxSize /\ MaxSize \in Nat /\ m_begin \in Slots
    BY SizeType
  <1>2. ASSUME NEW x \in 0 .. size - 1
        PROVE  /\ begin_plus((x + 1) - 1) = next_idx(m_begin, x)
               /\ slots[next_idx(m_begin, x)] \in Values
    <2>1. x \in Slots /\ (x + 1) - 1 = x /\ x \in Nat /\ x < size
      BY <1>1 DEF Slots
    <2>2. next_idx(m_begin, x) \in Slots /\ distance_idx(m_begin, next_idx(m_begin, x)) = x
      BY <1>1, <2>1, DistanceNext
    <2>3. QED
      BY <2>1, <2>2, BeginPlus DEF LiveSlots, ContainerTypeOK
  <1>3. \A p \in 1 .. size : p - 1 \in 0 .. size - 1 /\ (p - 1) + 1 = p
    BY <1>1
  <1>4. \A p \in 1 .. size : elements[p] = slots[begin_plus(p - 1)]
    BY DEF elements
  <1>5. elements = [p \in 1 .. size |-> elements[p]]
    BY DEF elements
  <1>6. \A x \in 0 .. size - 1 : x + 1 \in 1 .. size
    BY <1>1
  <1>7. \A x \in 0 .. size - 1 : elements[x + 1] = slots[next_idx(m_begin, x)]
    BY <1>2, <1>4, <1>6
  <1>8. \A p \in 1 .. size : elements[p] \in Values
    BY <1>2, <1>3, <1>7
  <1>9. elements \in Seq(Values) /\ Len(elements) = size
    BY <1>1, <1>5, <1>8
  <1>10. QED
    BY <1>7, <1>9

\* The elements that stay, by their places in the container that n slots were added to.
LEMMA OldPlaces ==
    ASSUME ContainerTypeOK, LiveSlots, life # "failed", NEW n \in Nat, size + n <= MaxSize,
           NEW side \in {"construct_end", "construct_begin"},
           NEW o, o = IF side = "construct_end" THEN 0 ELSE n
    PROVE  \A x \in 0 .. size :
             /\ x + o \in Slots
             /\ next_idx(m_begin, x) = next_idx(FirstSlot(side, n), x + o)
             /\ x < size => slots[next_idx(FirstSlot(side, n), x + o)] = elements[x + 1]
  <1>1. size \in Nat /\ MaxSize \in Nat /\ m_begin \in Slots
    BY SizeType
  <1>2. SUFFICES ASSUME NEW x \in 0 .. size
                 PROVE  /\ x + o \in Slots
                        /\ next_idx(m_begin, x) = next_idx(FirstSlot(side, n), x + o)
    <2>1. \A x \in 0 .. size : x < size => x \in 0 .. size - 1
      BY <1>1
    <2>2. QED
      BY <1>2, <2>1, ElementsAt
  <1>3. x \in Slots /\ n \in Slots /\ x + n \in Slots /\ x + 0 = x
    BY <1>1 DEF Slots
  <1>4. QED
    BY <1>1, <1>3, PlusBefore DEF FirstSlot

\* What a call is given.
LEMMA PutsData ==
    ASSUME ContainerTypeOK, LiveSlots, life # "failed", NEW op, NEW p, NEW src, Given(src)
    PROVE  LET c == Puts(op, p, src)
           IN  /\ c.op = op /\ c.pos = p /\ c.data \in Seq(Values) /\ Len(c.data) = Len(src)
               /\ Len(src) \in Nat
               /\ \A i \in 1 .. Len(src) : c.data[i] = Read(src[i])
               /\ c.aliased \in BOOLEAN /\ (op # "insert" => ~c.aliased)
               /\ op = "insert" /\ ~c.aliased => \A i \in 1 .. Len(src) : src[i][1] # "slot"
               /\ c # Idle
  <1> DEFINE c == Puts(op, p, src)
  <1>1. /\ Len(src) \in Nat /\ DOMAIN src = 1 .. Len(src)
        /\ \A i \in 1 .. Len(src) : Readable(src[i], m_begin, size)
    BY LenProperties DEF Given
  <1>2. \A i \in 1 .. Len(src) : Read(src[i]) \in Values
    BY <1>1, ReadsValue
  <1>3. /\ c.op = op /\ c.pos = p /\ c.data = [i \in DOMAIN src |-> Read(src[i])]
        /\ c.aliased = (op = "insert" /\ \E i \in DOMAIN src : src[i][1] = "slot")
        /\ c # Idle
    BY DEF Puts, Idle
  <1> HIDE DEF c
  <1>4. /\ c.data = [i \in 1 .. Len(src) |-> c.data[i]]
        /\ \A i \in 1 .. Len(src) : c.data[i] = Read(src[i])
    BY <1>1, <1>3
  <1>5. c.data \in Seq(Values) /\ Len(c.data) = Len(src)
    BY <1>1, <1>2, <1>4
  <1>6. QED
    BY <1>1, <1>3, <1>4, <1>5 DEF c

\* An element that a call is given has a place.
LEMMA SourcePlace ==
    ASSUME ContainerTypeOK, LiveSlots, life # "failed", NEW src,
           Readable(src, m_begin, size), src[1] = "slot"
    PROVE  \E x \in 0 .. size - 1 : src[2] = next_idx(m_begin, x)
  <1>1. /\ m_begin \in Slots /\ src[2] \in Slots /\ distance_idx(m_begin, src[2]) < size
    BY SizeType DEF Readable, There
  <1>2. /\ distance_idx(m_begin, src[2]) \in Slots
        /\ next_idx(m_begin, distance_idx(m_begin, src[2])) = src[2]
    BY <1>1, DistanceNext
  <1>3. size \in Nat /\ MaxSize \in Nat
    BY SizeType
  <1>4. distance_idx(m_begin, src[2]) \in 0 .. size - 1
    BY <1>1, <1>2, <1>3 DEF Slots
  <1>5. QED
    BY <1>2, <1>4

\* A plan that makes the container larger, told by the places of the larger one.
LEMMA BuildsRight ==
    ASSUME ContainerIInv, life # "failed", NEW op \in {"push", "resize", "insert"}, NEW p,
           NEW src, Given(src), size + Len(src) <= MaxSize, op = "push" => Len(src) = 1,
           NEW side \in {"construct_end", "construct_begin"}, NEW plan \in Seq(Steps),
           NEW d, NEW it, Builds(plan, op, p, src, side, d, it)
    PROVE  PutsRight(plan, Puts(op, p, src), elements, it)
  <1>0. PICK n, c : n = Len(src) /\ c = Puts(op, p, src)
    OBVIOUS
  <1> DEFINE b == FirstSlot(side, n)
             w == Writes(plan, n, side)
             V == PutPlaces(c, elements)
  <1>1. /\ size \in Nat /\ size <= MaxSize /\ MaxSize \in Nat /\ size \in Slots
        /\ m_begin \in Slots /\ m_end \in Slots /\ m_end = next_idx(m_begin, size)
    BY SizeType DEF ContainerIInv
  <1>2. elements \in Seq(Values) /\ Len(elements) = size
    BY ElementsAt DEF ContainerIInv
  <1>3. /\ c.op = op /\ c.pos = p /\ Len(c.data) = n /\ n \in Nat /\ size + n <= MaxSize
    BY <1>0, PutsData DEF ContainerIInv
  <1>4. /\ Kept(c, elements) = elements /\ Where(c) = p /\ Total(c, elements) = size + n
        /\ Len(plan) \in Nat
    BY <1>2, <1>3, LenProperties DEF Kept, Where, Total
  <1>5. n \in Slots /\ b \in Slots
    <2>1. n \in Slots
      BY <1>1, <1>3 DEF Slots
    <2>2. QED
      BY <1>1, <2>1, DistanceNext DEF FirstSlot
  <1>6. DOMAIN V \subseteq Slots
    <2>1. DOMAIN V \subseteq 0 .. size + n - 1
      BY <1>1, <1>3, <1>4, PutAt
    <2>2. \A x \in 0 .. size + n - 1 : x \in Slots
      BY <1>1, <1>3 DEF Slots
    <2>3. QED
      BY <2>1, <2>2
  <1> HIDE DEF b, V
  <1>7. /\ n <= Len(plan)
        /\ \A i \in 1 .. n : plan[i].do = side
        /\ \A i \in 1 .. n : d[i] = IF side = "construct_end" THEN size + i - 1 ELSE n - i
        /\ \A i \in n + 1 .. Len(plan) :
            plan[i].do = "assign" /\ d[i] \in Slots /\ plan[i].at = next_idx(b, d[i])
        /\ LeadsAt(b, slots, plan, Len(plan), d, V)
        /\ IF op = "insert" THEN it \in Slots /\ distance_idx(b, it) = p
           ELSE /\ it = NoIter /\ n = Len(plan)
                /\ \/ side = "construct_end" /\ p = size
                   \/ side = "construct_begin" /\ op = "push" /\ p = 0
        /\ op = "insert" => /\ p \in 0 .. size
                            /\ \A i \in n + 1 .. Len(plan) : Worked(side, d[i], p, n)
    BY <1>0 DEF Builds, b, V
  <1>8. ASSUME NEW i \in 1 .. Len(plan) PROVE d[i] \in Slots /\ w[i] = next_idx(b, d[i])
    <2>1. w[i] = IF i > n THEN plan[i].at
                 ELSE IF side = "construct_end" THEN next_idx(m_end, i - 1)
                 ELSE prev_idx(m_begin, i)
      BY DEF Writes
    <2>2. CASE i > n
      <3>1. i \in n + 1 .. Len(plan)
        BY <1>3, <1>4, <2>2
      <3>2. QED
        BY <1>7, <2>1, <2>2, <3>1
    <2>3. CASE ~(i > n) /\ side = "construct_end"
      <3>1. /\ i \in 1 .. n /\ d[i] = size + i - 1 /\ i - 1 \in Int /\ ~(i - 1 < 0)
            /\ size + (i - 1) = size + i - 1
        BY <1>1, <1>3, <1>4, <1>7, <2>3
      <3>2. size + i - 1 \in Slots
        BY <1>1, <1>3, <3>1 DEF Slots
      <3>3. plus(m_end, i - 1) = next_idx(m_begin, size + i - 1)
        BY <1>1, <3>1, <3>2, PlusInside
      <3>4. QED
        BY <2>1, <2>3, <3>1, <3>2, <3>3 DEF plus, b, FirstSlot
    <2>4. CASE ~(i > n) /\ side = "construct_begin"
      <3>1. i \in 1 .. n /\ d[i] = n - i
        BY <1>3, <1>4, <1>7, <2>4
      <3>2. n - i \in Slots /\ i \in Slots
        BY <1>1, <1>3, <3>1 DEF Slots
      <3>3. next_idx(prev_idx(m_begin, n), n - i) = prev_idx(m_begin, i)
        BY <1>1, <1>3, <1>5, <3>1, <3>2, ContainersAssumption
           DEF next_idx, prev_idx, Slots, BufSize
      <3>4. QED
        BY <2>1, <2>4, <3>1, <3>2, <3>3 DEF b, FirstSlot
    <2>5. QED
      BY <2>2, <2>3, <2>4
  <1> HIDE DEF w
  <1>9. Leads(slots, plan, Len(plan), w, Wanted(b, V))
    <2>1. LeadsAt(b, slots, plan, Len(plan), d, V)
      BY <1>7
    <2>2. \A i \in 1 .. Len(plan) : d[i] \in Slots /\ w[i] = next_idx(b, d[i])
      BY <1>8
    <2>3. QED
      BY <1>4, <1>5, <1>6, <2>1, <2>2, LeadsByPlaces
  <1>10. IF c.op = "insert" THEN it \in Slots /\ distance_idx(b, it) = c.pos
         ELSE /\ it = NoIter /\ n = Len(plan)
              /\ \/ side = "construct_end" /\ Where(c) = Len(Kept(c, elements))
                 \/ side = "construct_begin" /\ c.op = "push" /\ c.pos = 0
    BY <1>2, <1>3, <1>4, <1>7
  <1>11. /\ size + n = Total(c, elements) /\ Total(c, elements) <= MaxSize
         /\ n <= Len(c.data) /\ (c.op = "push" => Len(c.data) = 1)
         /\ n \in 0 .. Len(plan)
    BY <1>0, <1>3, <1>4, <1>7
  <1>12. ASSUME op = "insert", NEW i \in 1 .. Len(plan)
         PROVE  Worked(side, distance_idx(b, w[i]), p, n)
    <2>1. distance_idx(b, w[i]) = d[i]
      BY <1>5, <1>8, DistanceNext
    <2>2. CASE i \in n + 1 .. Len(plan)
      BY <1>7, <1>12, <2>1, <2>2
    <2>3. CASE i \notin n + 1 .. Len(plan)
      <3>1. i \in 1 .. n /\ p \in Nat /\ p <= size
        BY <1>1, <1>3, <1>4, <1>7, <1>12, <2>3
      <3>2. d[i] = IF side = "construct_end" THEN size + i - 1 ELSE n - i
        BY <1>7, <3>1
      <3>3. size + i - 1 >= p /\ n - i < p + n
        BY <1>1, <1>3, <3>1
      <3>4. QED
        BY <2>1, <3>2, <3>3 DEF Worked
    <2>4. QED
      BY <2>2, <2>3
  <1>13. c.op = "insert" => OneSided(plan, n, side, c)
    BY <1>3, <1>12 DEF OneSided, b, w
  <1>14. Fills(plan, n, side, c, elements, it)
    BY <1>7, <1>9, <1>10, <1>11, <1>13 DEF Fills, b, V, w
  <1>15. QED
    BY <1>0, <1>11, <1>14 DEF PutsRight

\* A plan of three parts, of which the last assigns no element of the container.
LEMMA ThreeLead ==
    ASSUME NEW X \in Seq(Steps), NEW Y \in Seq(Steps), NEW Z \in Seq(Steps),
           NEW k, NEW l, NEW m, k = Len(X), l = Len(Y), m = Len(Z),
           NEW dx, NEW dy, NEW dz, NEW base, NEW sl, NEW V, NEW d,
           d = [i \in 1 .. k + l + m |-> IF i <= k THEN dx[i]
                                         ELSE IF i <= k + l THEN dy[i - k] ELSE dz[i - k - l]],
           LeadsInParts(base, sl, X, Y, Z, dx, dy, dz, V)
    PROVE  LeadsAt(base, sl, X \o Y \o Z, k + l + m, d, V)
  <1> DEFINE plan == X \o Y \o Z
  <1>1. k \in Nat /\ l \in Nat /\ m \in Nat
    BY LenProperties
  <1>2. /\ X \o Y \in Seq(Steps) /\ Len(X \o Y) = k + l
        /\ \A i \in 1 .. k + l : (X \o Y)[i] = IF i <= k THEN X[i] ELSE Y[i - k]
    BY ConcatProperties
  <1>3. \A i \in 1 .. k + l + m :
            plan[i] = IF i <= k + l THEN (X \o Y)[i] ELSE Z[i - (k + l)]
    BY <1>2, ConcatProperties
  <1> HIDE DEF plan
  <1>4. /\ \A i \in 1 .. k : i \in 1 .. k + l + m /\ plan[i] = X[i] /\ d[i] = dx[i]
        /\ \A i \in 1 .. l : k + i \in 1 .. k + l + m /\ plan[k + i] = Y[i] /\ d[k + i] = dy[i]
        /\ \A i \in 1 .. m : /\ k + l + i \in 1 .. k + l + m
                             /\ plan[k + l + i] = Z[i] /\ d[k + l + i] = dz[i]
    <2>1. ASSUME NEW i \in 1 .. k PROVE i \in 1 .. k + l + m /\ plan[i] = X[i] /\ d[i] = dx[i]
      <3>1. i \in 1 .. k + l + m /\ i \in 1 .. k + l /\ i <= k /\ i <= k + l
        BY <1>1
      <3>2. QED
        BY <1>2, <1>3, <3>1
    <2>2. ASSUME NEW i \in 1 .. l
          PROVE  k + i \in 1 .. k + l + m /\ plan[k + i] = Y[i] /\ d[k + i] = dy[i]
      <3>1. /\ k + i \in 1 .. k + l + m /\ k + i \in 1 .. k + l /\ ~(k + i <= k)
            /\ k + i <= k + l /\ (k + i) - k = i
        BY <1>1
      <3>2. QED
        BY <1>2, <1>3, <3>1
    <2>3. ASSUME NEW i \in 1 .. m
          PROVE  /\ k + l + i \in 1 .. k + l + m
                 /\ plan[k + l + i] = Z[i] /\ d[k + l + i] = dz[i]
      <3>1. /\ k + l + i \in 1 .. k + l + m /\ ~(k + l + i <= k + l) /\ ~(k + l + i <= k)
            /\ (k + l + i) - (k + l) = i /\ (k + l + i) - k - l = i
        BY <1>1
      <3>2. plan[k + l + i] = Z[i]
        BY <1>3, <3>1
      <3>3. d[k + l + i] = dz[i]
        BY <3>1
      <3>4. QED
        BY <3>1, <3>2, <3>3
    <2>4. QED
      BY <2>1, <2>2, <2>3
  <1>5. ASSUME NEW i \in 1 .. k + l + m
        PROVE  i \in 1 .. k \/ (i - k \in 1 .. l /\ i = k + (i - k))
               \/ (i - k - l \in 1 .. m /\ i = k + l + (i - k - l))
    BY <1>1
  <1> DEFINE Good(i) ==
        d[i] \in DOMAIN V =>
            /\ plan[i].src[1] = "slot" =>
                 \E r \in Slots : /\ plan[i].src[2] = next_idx(base, r)
                                  /\ \A j \in 1 .. i - 1 : d[j] # r
            /\ ReadIn(sl, plan[i].src) = V[d[i]] \/ \E j \in i + 1 .. k + l + m : d[j] = d[i]
  <1>6. ASSUME NEW i \in 1 .. k PROVE Good(i)
    <2>1. SUFFICES ASSUME d[i] \in DOMAIN V
                   PROVE  /\ plan[i].src[1] = "slot" =>
                               \E r \in Slots : /\ plan[i].src[2] = next_idx(base, r)
                                                /\ \A j \in 1 .. i - 1 : d[j] # r
                          /\ \/ ReadIn(sl, plan[i].src) = V[d[i]]
                             \/ \E j \in i + 1 .. k + l + m : d[j] = d[i]
      OBVIOUS
    <2>2. plan[i] = X[i] /\ d[i] = dx[i] /\ dx[i] \in DOMAIN V
      BY <1>4, <2>1
    <2>3. /\ X[i].src[1] = "slot" =>
               \E r \in Slots : X[i].src[2] = next_idx(base, r) /\ \A j \in 1 .. i - 1 : dx[j] # r
          /\ ReadIn(sl, X[i].src) = V[dx[i]] \/ \E j \in 1 .. l : dy[j] = dx[i]
      BY <2>2 DEF LeadsInParts
    <2>4. \A j \in 1 .. i - 1 : d[j] = dx[j]
      <3>1. \A j \in 1 .. i - 1 : j \in 1 .. k
        BY <1>1
      <3>2. QED
        BY <1>4, <3>1
    <2>5. ASSUME NEW j \in 1 .. l, dy[j] = dx[i]
          PROVE  \E h \in i + 1 .. k + l + m : d[h] = d[i]
      <3>1. k + j \in i + 1 .. k + l + m
        BY <1>1
      <3>2. QED
        BY <1>4, <2>2, <2>5, <3>1
    <2>6. ASSUME plan[i].src[1] = "slot"
          PROVE  \E r \in Slots : /\ plan[i].src[2] = next_idx(base, r)
                                  /\ \A j \in 1 .. i - 1 : d[j] # r
      <3>1. PICK r \in Slots : X[i].src[2] = next_idx(base, r) /\ \A j \in 1 .. i - 1 : dx[j] # r
        BY <2>2, <2>3, <2>6
      <3>2. \A j \in 1 .. i - 1 : d[j] # r
        BY <2>4, <3>1
      <3>3. QED
        BY <2>2, <3>1, <3>2
    <2>7. ReadIn(sl, plan[i].src) = V[d[i]] \/ \E j \in i + 1 .. k + l + m : d[j] = d[i]
      BY <2>2, <2>3, <2>5
    <2>8. QED
      BY <2>6, <2>7
  <1>7. ASSUME NEW h \in 1 .. l PROVE Good(k + h)
    <2>1. SUFFICES ASSUME d[k + h] \in DOMAIN V
                   PROVE  /\ \E r \in Slots : /\ plan[k + h].src[2] = next_idx(base, r)
                                              /\ \A j \in 1 .. (k + h) - 1 : d[j] # r
                          /\ ReadIn(sl, plan[k + h].src) = V[d[k + h]]
      OBVIOUS
    <2>2. plan[k + h] = Y[h] /\ d[k + h] = dy[h] /\ dy[h] \in DOMAIN V
      BY <1>4, <2>1
    <2>3. PICK r \in Slots : /\ Y[h].src[2] = next_idx(base, r)
                             /\ \A j \in 1 .. k : dx[j] # r
                             /\ \A j \in 1 .. h - 1 : dy[j] # r
      BY <2>2 DEF LeadsInParts
    <2>4. ReadIn(sl, Y[h].src) = V[dy[h]]
      BY <2>2 DEF LeadsInParts
    <2>5. ASSUME NEW j \in 1 .. (k + h) - 1 PROVE d[j] # r
      <3>1. j \in 1 .. k \/ (j - k \in 1 .. h - 1 /\ j - k \in 1 .. l /\ j = k + (j - k))
        BY <1>1
      <3>2. QED
        BY <1>4, <2>3, <3>1
    <2>6. QED
      BY <2>2, <2>3, <2>4, <2>5
  <1>8. ASSUME NEW h \in 1 .. m PROVE Good(k + l + h)
    <2>1. plan[k + l + h] = Z[h] /\ d[k + l + h] = dz[h]
      BY <1>4
    <2>2. dz[h] \in DOMAIN V => Z[h].src[1] # "slot" /\ ReadIn(sl, Z[h].src) = V[dz[h]]
      BY DEF LeadsInParts
    <2>3. QED
      BY <2>1, <2>2
  <1>9. ASSUME NEW i \in 1 .. k + l + m PROVE Good(i)
    <2>1. CASE i \in 1 .. k
      BY <1>6, <2>1
    <2>2. CASE i - k \in 1 .. l /\ i = k + (i - k)
      <3>1. PICK h \in 1 .. l : i = k + h
        BY <2>2
      <3> HIDE DEF Good
      <3>2. QED
        BY <1>7, <3>1
    <2>3. CASE i - k - l \in 1 .. m /\ i = k + l + (i - k - l)
      <3>1. PICK h \in 1 .. m : i = k + l + h
        BY <2>3
      <3> HIDE DEF Good
      <3>2. QED
        BY <1>8, <3>1
    <2>4. QED
      BY <1>5, <2>1, <2>2, <2>3
  <1>10. ASSUME NEW x \in DOMAIN V
         PROVE  sl[next_idx(base, x)] = V[x] \/ \E j \in 1 .. k + l + m : d[j] = x
    <2>1. \/ sl[next_idx(base, x)] = V[x]
          \/ \E i \in 1 .. k : dx[i] = x
          \/ \E i \in 1 .. l : dy[i] = x
          \/ \E i \in 1 .. m : dz[i] = x
      BY DEF LeadsInParts
    <2>2. QED
      BY <1>4, <2>1
  <1>11. QED
    BY <1>9, <1>10 DEF LeadsAt, plan

\* What a call puts where.
LEMMA PutValues ==
    ASSUME ContainerIInv, life # "failed", NEW op \in {"push", "resize", "insert"},
           NEW p \in 0 .. size, NEW src, Given(src)
    PROVE  Wants(PutPlaces(Puts(op, p, src), elements), op, p, src)
  <1>0. PICK n, c, V : n = Len(src) /\ c = Puts(op, p, src) /\ V = PutPlaces(c, elements)
    OBVIOUS
  <1>1. size \in Nat /\ elements \in Seq(Values) /\ Len(elements) = size
    BY SizeType, ElementsAt DEF ContainerIInv
  <1>2. /\ c.op = op /\ c.pos = p /\ Len(c.data) = n /\ n \in Nat
        /\ \A i \in 1 .. n : c.data[i] = Read(src[i])
        /\ op = "insert" /\ ~c.aliased => \A i \in 1 .. n : src[i][1] # "slot"
    BY <1>0, PutsData DEF ContainerIInv
  <1>3. Kept(c, elements) = elements /\ Where(c) = p /\ Total(c, elements) = size + n
    BY <1>1, <1>2 DEF Kept, Where, Total
  <1>4. Total(c, elements) \in Nat
    BY <1>1, <1>2, <1>3
  <1>5. /\ DOMAIN V \subseteq 0 .. size + n - 1
        /\ \A x \in DOMAIN V : V[x] = Put(c, elements, x + 1) /\ ~Free(c, x + 1)
        /\ op # "insert" => DOMAIN V = 0 .. size + n - 1
    <2>1. /\ DOMAIN V \subseteq 0 .. Total(c, elements) - 1
          /\ \A x \in DOMAIN V : V[x] = Put(c, elements, x + 1)
          /\ \A x \in 0 .. Total(c, elements) - 1 : ~Free(c, x + 1) <=> x \in DOMAIN V
      BY <1>0, <1>4, PutAt
    <2>2. op # "insert" => DOMAIN V = 0 .. Total(c, elements) - 1
      BY <1>0, <1>2, <1>4, PutAt
    <2>3. DOMAIN V \subseteq 0 .. size + n - 1 /\ (op # "insert" => DOMAIN V = 0 .. size + n - 1)
      BY <1>1, <1>2, <1>3, <2>1, <2>2
    <2>4. ASSUME NEW x \in DOMAIN V PROVE V[x] = Put(c, elements, x + 1) /\ ~Free(c, x + 1)
      BY <2>1
    <2>5. QED
      BY <2>3, <2>4
  <1>6. ASSUME NEW x \in DOMAIN V, x < p PROVE V[x] = elements[x + 1]
    <2>1. x + 1 <= p
      BY <1>1, <1>5, <1>6
    <2>2. QED
      BY <1>3, <1>5, <2>1 DEF Put
  <1>7. ASSUME NEW x \in DOMAIN V, x >= p + n PROVE V[x] = elements[x + 1 - n]
    <2>1. ~(x + 1 <= p) /\ ~(x + 1 <= p + n)
      BY <1>1, <1>2, <1>5, <1>7
    <2>2. Put(c, elements, x + 1) = elements[x + 1 - n]
      BY <1>1, <1>2, <1>3, <1>5, <2>1 DEF Put
    <2>3. QED
      BY <1>5, <2>2
  <1>8. ASSUME NEW i \in 1 .. n, p + i - 1 \in DOMAIN V
        PROVE  V[p + i - 1] = Read(src[i]) /\ (op = "insert" => src[i][1] # "slot")
    <2>1. /\ (p + i - 1) + 1 = p + i /\ ~(p + i <= p) /\ p + i <= p + n /\ p + i - p = i
          /\ p + i \in p + 1 .. p + n
      BY <1>1, <1>2
    <2>2. Put(c, elements, p + i) = c.data[i]
      BY <1>2, <1>3, <2>1 DEF Put
    <2>3. op = "insert" => ~c.aliased
      BY <1>2, <1>3, <1>5, <1>8, <2>1 DEF Free
    <2>4. QED
      BY <1>2, <1>5, <1>8, <2>1, <2>2, <2>3
  <1>9. Wants(V, op, p, src)
    BY <1>0, <1>5, <1>6, <1>7, <1>8 DEF Wants
  <1>10. QED
    BY <1>0, <1>9

\* push_back() and resize().
LEMMA AppendsRight ==
    ASSUME ContainerIInv, life # "failed", NEW op \in {"push", "resize"},
           NEW src, Given(src), size + Len(src) <= MaxSize, op = "push" => Len(src) = 1,
           NEW plan \in Seq(Steps), Len(plan) = Len(src),
           \A i \in 1 .. Len(src) : plan[i] = ConstructEnd(src[i])
    PROVE  PutsRight(plan, Puts(op, size, src), elements, NoIter)
  <1>0. PICK n, c, V : n = Len(src) /\ c = Puts(op, size, src) /\ V = PutPlaces(c, elements)
    OBVIOUS
  <1> DEFINE d == [i \in 1 .. n |-> size + i - 1]
  <1>1. /\ ContainerTypeOK /\ LiveSlots /\ size \in Nat /\ MaxSize \in Nat /\ m_begin \in Slots
        /\ size \in 0 .. size
    BY SizeType DEF ContainerIInv
  <1>2. /\ n \in Nat /\ \A i \in 1 .. n : Readable(src[i], m_begin, size)
    BY <1>0, LenProperties DEF Given
  <1>3. /\ DOMAIN V = 0 .. size + n - 1
        /\ \A x \in DOMAIN V : x < size => V[x] = elements[x + 1]
        /\ \A i \in 1 .. n : size + i - 1 \in DOMAIN V => V[size + i - 1] = Read(src[i])
    <2>1. op \in {"push", "resize", "insert"} /\ op # "insert"
      OBVIOUS
    <2>2. Wants(V, op, size, src)
      BY <1>0, <1>1, <2>1, PutValues
    <2>3. QED
      BY <1>0, <2>1, <2>2 DEF Wants
  <1>4. \A i \in 1 .. n : d[i] = size + i - 1
    OBVIOUS
  <1> HIDE DEF d
  <1>5. ASSUME NEW i \in 1 .. n PROVE plan[i].do = "construct_end" /\ plan[i].src = src[i]
    <2>1. plan[i] = ConstructEnd(src[i])
      BY <1>0
    <2>2. QED
      BY <2>1 DEF ConstructEnd
  <1>6. ASSUME NEW i \in 1 .. n
        PROVE  /\ plan[i].src[1] = "slot" =>
                    \E r \in Slots : r < size /\ plan[i].src[2] = next_idx(m_begin, r)
               /\ ReadIn(slots, plan[i].src) = V[size + i - 1]
    <2>1. size + i - 1 \in 0 .. size + n - 1
      BY <1>1, <1>2
    <2>2. ReadIn(slots, plan[i].src) = V[size + i - 1]
      BY <1>3, <1>5, <2>1 DEF ReadIn, Read
    <2>3. \A x \in 0 .. size - 1 : x \in Slots /\ x < size
      BY <1>1, SizeType DEF Slots
    <2>4. QED
      BY <1>1, <1>2, <1>5, <2>2, <2>3, SourcePlace
  <1>7. ASSUME NEW x \in 0 .. size - 1 PROVE slots[next_idx(m_begin, x)] = V[x]
    <2>1. x \in 0 .. size + n - 1 /\ x < size
      BY <1>1, <1>2
    <2>2. QED
      BY <1>1, <1>3, <2>1, ElementsAt
  <1>8. LeadsAt(m_begin, slots, plan, n, d, V)
    BY <1>1, <1>2, <1>3, <1>4, <1>6, <1>7, AppendsAt
  <1>9. FirstSlot("construct_end", n) = m_begin
    BY DEF FirstSlot
  <1>10. Builds(plan, op, size, src, "construct_end", d, NoIter)
    BY <1>0, <1>2, <1>4, <1>5, <1>8, <1>9 DEF Builds
  <1>11. QED
    BY <1>10, BuildsRight

\* push_front(), when there is room.
LEMMA push_frontRight ==
    ASSUME ContainerIInv, life # "failed", NEW src, Given(<<src>>), size < MaxSize
    PROVE  PutsRight(<<ConstructBegin(src)>>, Puts("push", 0, <<src>>), elements, NoIter)
  <1>0. PICK c, V, plan : /\ c = Puts("push", 0, <<src>>) /\ V = PutPlaces(c, elements)
                          /\ plan = <<ConstructBegin(src)>>
    OBVIOUS
  <1> DEFINE d == <<0>>  b == FirstSlot("construct_begin", 1)
  <1>1. /\ ContainerTypeOK /\ LiveSlots /\ size \in Nat /\ MaxSize \in Nat /\ m_begin \in Slots
        /\ 0 \in 0 .. size
    BY SizeType DEF ContainerIInv
  <1>2. /\ Len(<<src>>) = 1 /\ <<src>>[1] = src
        /\ src \in ReadFrom /\ Readable(src, m_begin, size)
    BY DEF Given
  <1>3. /\ DOMAIN V = 0 .. size + 1 - 1
        /\ \A x \in DOMAIN V : x >= 0 + 1 => V[x] = elements[x + 1 - 1]
        /\ \A i \in 1 .. 1 : 0 + i - 1 \in DOMAIN V => V[0 + i - 1] = Read(<<src>>[i])
    <2>1. Wants(V, "push", 0, <<src>>)
      BY <1>0, <1>1, PutValues
    <2>2. QED
      BY <1>2, <2>1 DEF Wants
  <1>4. d[1] = 0 /\ \A i \in 1 .. 1 : i = 1
    OBVIOUS
  <1>5. \A x \in 0 .. size :
            /\ x + 1 \in Slots
            /\ next_idx(m_begin, x) = next_idx(b, x + 1)
            /\ x < size => slots[next_idx(b, x + 1)] = elements[x + 1]
    BY <1>1, OldPlaces
  <1> HIDE DEF d, b
  <1>6. /\ plan \in Seq(Steps) /\ Len(plan) = 1
        /\ plan[1].do = "construct_begin" /\ plan[1].src = src
    BY <1>0, <1>2, StepTypes DEF ConstructBegin
  <1>7. LeadsAt(b, slots, plan, 1, d, V)
    <2>1. 0 \in DOMAIN V /\ V[0] = Read(src)
      BY <1>1, <1>2, <1>3
    <2>2. src[1] = "slot" => \E r \in Slots : src[2] = next_idx(b, r)
      BY <1>1, <1>2, <1>5, SourcePlace
    <2>3. ASSUME NEW x \in DOMAIN V, x # 0 PROVE slots[next_idx(b, x)] = V[x]
      <3>1. x - 1 \in 0 .. size /\ (x - 1) + 1 = x /\ x + 1 - 1 = x /\ x >= 0 + 1 /\ x - 1 < size
        BY <1>1, <1>3, <2>3
      <3>2. QED
        BY <1>3, <1>5, <3>1
    <2>4. \A j \in 1 .. 1 - 1 : FALSE
      OBVIOUS
    <2>5. ReadIn(slots, src) = V[0]
      BY <2>1 DEF ReadIn, Read
    <2>6. QED
      BY <1>4, <1>6, <2>2, <2>3, <2>4, <2>5 DEF LeadsAt
  <1>8. Builds(plan, "push", 0, <<src>>, "construct_begin", d, NoIter)
    <2>1. 1 + 1 > 1 /\ 1 - 1 = 0
      OBVIOUS
    <2>2. QED
      BY <1>0, <1>2, <1>4, <1>6, <1>7, <2>1 DEF Builds, b
  <1>9. size + Len(<<src>>) <= MaxSize /\ Len(<<src>>) = 1
    BY <1>1, <1>2
  <1>10. QED
    BY <1>0, <1>6, <1>8, <1>9, BuildsRight

\* A plan of three parts that builds what insert() wants, as one plan.
LEMMA PartsBuild ==
    ASSUME ContainerIInv, life # "failed", NEW p, NEW src, Given(src),
           size + Len(src) <= MaxSize, NEW side \in {"construct_end", "construct_begin"},
           NEW X \in Seq(Steps), NEW Y \in Seq(Steps), NEW Z \in Seq(Steps),
           NEW dx, NEW dy, NEW dz, NEW it,
           BuildsInParts(X, Y, Z, p, src, side, dx, dy, dz, it)
    PROVE  PutsRight(X \o Y \o Z, Puts("insert", p, src), elements, it)
  <1>0. PICK n, k, l, m, b, V :
            /\ n = Len(src) /\ k = Len(X) /\ l = Len(Y) /\ m = Len(Z)
            /\ b = FirstSlot(side, n) /\ V = PutPlaces(Puts("insert", p, src), elements)
    OBVIOUS
  <1> DEFINE plan == X \o Y \o Z
             d == [i \in 1 .. k + l + m |-> IF i <= k THEN dx[i]
                                            ELSE IF i <= k + l THEN dy[i - k] ELSE dz[i - k - l]]
             grown(i) == IF side = "construct_end" THEN size + i - 1 ELSE n - i
  <1>1. /\ k \in Nat /\ l \in Nat /\ m \in Nat /\ n \in Nat /\ size \in Nat
    BY <1>0, LenProperties, SizeType DEF Given, ContainerIInv
  <1>2. /\ \A i \in 1 .. k : X[i].do = side /\ dx[i] = grown(i)
        /\ \/ /\ k = n
              /\ \A i \in 1 .. l :
                    Y[i].do = "assign" /\ dy[i] \in Slots /\ Y[i].at = next_idx(b, dy[i])
           \/ /\ k + l = n
              /\ \A i \in 1 .. l : Y[i].do = side /\ dy[i] = grown(k + i)
        /\ \A i \in 1 .. m : Z[i].do = "assign" /\ dz[i] \in Slots /\ Z[i].at = next_idx(b, dz[i])
        /\ LeadsInParts(b, slots, X, Y, Z, dx, dy, dz, V)
        /\ it \in Slots /\ distance_idx(b, it) = p /\ p \in 0 .. size
        /\ k = n => \A i \in 1 .. l : Worked(side, dy[i], p, n)
        /\ \A i \in 1 .. m : Worked(side, dz[i], p, n)
    BY <1>0 DEF BuildsInParts
  <1>3. LeadsAt(b, slots, X \o Y \o Z, k + l + m, d, V)
    <2>1. LeadsInParts(b, slots, X, Y, Z, dx, dy, dz, V)
      BY <1>2
    <2>2. k = Len(X) /\ l = Len(Y) /\ m = Len(Z)
      BY <1>0
    <2>3. d = [i \in 1 .. k + l + m |-> IF i <= k THEN dx[i]
                                         ELSE IF i <= k + l THEN dy[i - k] ELSE dz[i - k - l]]
      OBVIOUS
    <2> HIDE DEF d, plan
    <2>4. QED
      BY <2>1, <2>2, <2>3, ThreeLead
  <1>4. /\ X \o Y \in Seq(Steps) /\ Len(X \o Y) = k + l
        /\ \A i \in 1 .. k + l : (X \o Y)[i] = IF i <= k THEN X[i] ELSE Y[i - k]
    BY <1>0, ConcatProperties
  <1>5. /\ plan \in Seq(Steps) /\ Len(plan) = k + l + m
        /\ \A i \in 1 .. k + l + m :
            plan[i] = IF i <= k + l THEN (X \o Y)[i] ELSE Z[i - (k + l)]
    BY <1>0, <1>4, ConcatProperties
  <1>6. \A i \in 1 .. k + l + m : d[i] = IF i <= k THEN dx[i]
                                         ELSE IF i <= k + l THEN dy[i - k] ELSE dz[i - k - l]
    OBVIOUS
  <1> HIDE DEF plan, d
  <1>7. ASSUME NEW i \in 1 .. k + l + m
        PROVE  \/ i \in 1 .. k /\ plan[i] = X[i] /\ d[i] = dx[i]
               \/ \E j \in 1 .. l : i = k + j /\ plan[i] = Y[j] /\ d[i] = dy[j]
               \/ \E j \in 1 .. m : i = k + l + j /\ plan[i] = Z[j] /\ d[i] = dz[j]
    <2>1. CASE i <= k
      <3>1. i <= k + l /\ i \in 1 .. k + l /\ i \in 1 .. k
        BY <1>1, <2>1
      <3>2. QED
        BY <1>4, <1>5, <1>6, <2>1, <3>1
    <2>2. CASE ~(i <= k) /\ i <= k + l
      <3>1. i - k \in 1 .. l /\ i = k + (i - k) /\ i \in 1 .. k + l
        BY <1>1, <2>2
      <3>2. plan[i] = Y[i - k] /\ d[i] = dy[i - k]
        BY <1>4, <1>5, <1>6, <2>2, <3>1
      <3>3. QED
        BY <3>1, <3>2
    <2>3. CASE ~(i <= k) /\ ~(i <= k + l)
      <3>1. i - k - l \in 1 .. m /\ i = k + l + (i - k - l) /\ i - (k + l) = i - k - l
        BY <1>1, <2>3
      <3>2. plan[i] = Z[i - k - l] /\ d[i] = dz[i - k - l]
        BY <1>5, <1>6, <2>3, <3>1
      <3>3. QED
        BY <3>1, <3>2
    <2>4. QED
      BY <2>1, <2>2, <2>3
  <1>8. n <= Len(plan) /\ Len(plan) = k + l + m /\ k <= n /\ n <= k + l
    BY <1>1, <1>2, <1>5
  <1>9. ASSUME NEW i \in 1 .. n PROVE plan[i].do = side /\ d[i] = grown(i)
    <2>1. i \in 1 .. k + l + m /\ \A j \in 1 .. m : i # k + l + j
      BY <1>1, <1>8
    <2>2. CASE i \in 1 .. k /\ plan[i] = X[i] /\ d[i] = dx[i]
      BY <1>2, <2>2
    <2>3. CASE \E j \in 1 .. l : i = k + j /\ plan[i] = Y[j] /\ d[i] = dy[j]
      <3>1. PICK j \in 1 .. l : i = k + j /\ plan[i] = Y[j] /\ d[i] = dy[j]
        BY <2>3
      <3>2. k # n
        BY <1>1, <3>1
      <3> HIDE DEF grown
      <3>3. QED
        BY <1>2, <3>1, <3>2
    <2>4. QED
      BY <1>7, <2>1, <2>2, <2>3
  <1>10. ASSUME NEW i \in n + 1 .. Len(plan)
         PROVE  /\ plan[i].do = "assign" /\ d[i] \in Slots /\ plan[i].at = next_idx(b, d[i])
                /\ Worked(side, d[i], p, n)
    <2>1. i \in 1 .. k + l + m /\ i \notin 1 .. k /\ i \notin 1 .. n
      BY <1>1, <1>8
    <2>2. CASE \E j \in 1 .. l : i = k + j /\ plan[i] = Y[j] /\ d[i] = dy[j]
      <3>1. PICK j \in 1 .. l : i = k + j /\ plan[i] = Y[j] /\ d[i] = dy[j]
        BY <2>2
      <3>2. k + l # n
        BY <1>1, <3>1
      <3>3. QED
        BY <1>2, <3>1, <3>2
    <2>3. CASE \E j \in 1 .. m : i = k + l + j /\ plan[i] = Z[j] /\ d[i] = dz[j]
      BY <1>2, <2>3
    <2>4. QED
      BY <1>7, <2>1, <2>2, <2>3
  <1>11. Builds(plan, "insert", p, src, side, d, it)
    BY <1>0, <1>2, <1>3, <1>5, <1>8, <1>9, <1>10 DEF Builds, plan
  <1>12. QED
    BY <1>5, <1>11, BuildsRight DEF plan

\* The values V that an insert() wants, by places counted from b on, where an element
\* that stays has the place it had plus o.
InsertPlaces(V, b, o, p, src, n) ==
    /\ DOMAIN V \subseteq 0 .. size + n - 1
    /\ \A x \in DOMAIN V : x < p => V[x] = slots[next_idx(b, x + o)]
    /\ \A x \in DOMAIN V : x >= p + n => V[x] = slots[next_idx(b, x - n + o)]
    /\ \A i \in 1 .. n : p + i - 1 \in DOMAIN V =>
         V[p + i - 1] = ReadIn(slots, src[i]) /\ src[i][1] # "slot"
    /\ \A x \in 0 .. size : x + o \in Slots /\ next_idx(m_begin, x) = next_idx(b, x + o)
    /\ \A i \in 1 .. n : src[i][1] = "slot" =>
         \E x \in 0 .. size - 1 : src[i][2] = next_idx(b, x + o)
    /\ next_idx(m_begin, p) \in Slots
    /\ size \in Nat /\ n \in Nat /\ p \in Nat /\ p <= size /\ MaxSize \in Nat
    /\ b \in Slots

\* What an insert() wants where, and where the elements are before it.
LEMMA InsertWants ==
    ASSUME ContainerIInv, life # "failed", NEW src, Given(src), NEW n, n = Len(src),
           size + n <= MaxSize, NEW p \in 0 .. size,
           NEW side \in {"construct_end", "construct_begin"},
           NEW o, o = IF side = "construct_end" THEN 0 ELSE n,
           NEW b, b = FirstSlot(side, n),
           NEW V, V = PutPlaces(Puts("insert", p, src), elements)
    PROVE  InsertPlaces(V, b, o, p, src, n)
  <1>1. /\ ContainerTypeOK /\ LiveSlots /\ size \in Nat /\ size <= MaxSize /\ MaxSize \in Nat
        /\ m_begin \in Slots /\ p \in Nat /\ p <= size /\ p \in Slots
    BY SizeType DEF ContainerIInv, Slots
  <1>2. n \in Nat /\ \A i \in 1 .. n : Readable(src[i], m_begin, size)
    BY LenProperties DEF Given
  <1>3. Wants(V, "insert", p, src)
    BY PutValues
  <1>4. /\ DOMAIN V \subseteq 0 .. size + n - 1
        /\ \A x \in DOMAIN V : x < p => V[x] = elements[x + 1]
        /\ \A x \in DOMAIN V : x >= p + n => V[x] = elements[x + 1 - n]
        /\ \A i \in 1 .. n : p + i - 1 \in DOMAIN V =>
             V[p + i - 1] = Read(src[i]) /\ src[i][1] # "slot"
    BY <1>3 DEF Wants
  <1>5. \A x \in 0 .. size : /\ x + o \in Slots
                             /\ next_idx(m_begin, x) = next_idx(b, x + o)
                             /\ x < size => slots[next_idx(b, x + o)] = elements[x + 1]
    BY <1>1, <1>2, OldPlaces
  <1>6. ASSUME NEW x \in DOMAIN V, x < p PROVE V[x] = slots[next_idx(b, x + o)]
    <2>1. x \in 0 .. size /\ x < size
      BY <1>1, <1>2, <1>4, <1>6
    <2>2. QED
      BY <1>4, <1>5, <1>6, <2>1
  <1>7. ASSUME NEW x \in DOMAIN V, x >= p + n PROVE V[x] = slots[next_idx(b, x - n + o)]
    <2>1. x \in 0 .. size + n - 1
      BY <1>4
    <2>2. size \in Nat /\ n \in Nat /\ p \in Nat
      BY <1>1, <1>2
    <2>3. x \in Nat /\ x <= size + n - 1
      BY <2>1, <2>2
    <2>4. x - n \in 0 .. size /\ x - n < size /\ (x - n) + 1 = x + 1 - n
      BY <1>7, <2>2, <2>3
    <2>5. slots[next_idx(b, (x - n) + o)] = elements[(x - n) + 1]
      BY <1>5, <2>4
    <2>6. V[x] = elements[x + 1 - n]
      BY <1>4, <1>7
    <2>7. QED
      BY <2>4, <2>5, <2>6
  <1>8. ASSUME NEW i \in 1 .. n, src[i][1] = "slot"
        PROVE  \E x \in 0 .. size - 1 : src[i][2] = next_idx(b, x + o)
    <2>1. PICK x \in 0 .. size - 1 : src[i][2] = next_idx(m_begin, x)
      BY <1>1, <1>2, <1>8, SourcePlace
    <2>2. x \in 0 .. size
      BY <1>1
    <2>3. QED
      BY <1>5, <2>1, <2>2
  <1>9. next_idx(m_begin, p) \in Slots
    BY <1>1, DistanceNext
  <1>10. b \in Slots
    <2>1. n \in Slots
      BY <1>1, <1>2 DEF Slots
    <2>2. QED
      BY <1>1, <2>1, DistanceNext DEF FirstSlot
  <1>11. \A i \in 1 .. n : ReadIn(slots, src[i]) = Read(src[i])
    BY DEF ReadIn, Read
  <1>12. \A i \in 1 .. n : p + i - 1 \in DOMAIN V =>
           V[p + i - 1] = ReadIn(slots, src[i]) /\ src[i][1] # "slot"
    BY <1>4, <1>11
  <1>13. \A x \in 0 .. size : x + o \in Slots /\ next_idx(m_begin, x) = next_idx(b, x + o)
    BY <1>5
  <1>14. DOMAIN V \subseteq 0 .. size + n - 1
    BY <1>4
  <1>15. size \in Nat /\ n \in Nat /\ p \in Nat /\ p <= size /\ MaxSize \in Nat
    BY <1>1, <1>2
  <1>16. QED
    BY <1>6, <1>7, <1>8, <1>9, <1>10, <1>12, <1>13, <1>14, <1>15 DEF InsertPlaces

\* insert() at the end side, of fewer elements than follow.
LEMMA EndMovesRight ==
    ASSUME ContainerIInv, life # "failed", NEW src, Given(src), NEW n, n = Len(src),
           size + n <= MaxSize, NEW p \in 0 .. size, NEW k, k = size - p, k > n,
           NEW X \in Seq(Steps), NEW Y \in Seq(Steps), NEW Z \in Seq(Steps),
           MovedAtEnd(X, Y, Z, p, src, n, k)
    PROVE  PutsRight(X \o Y \o Z, Puts("insert", p, src), elements, next_idx(m_begin, p))
  <1>0. PICK b, V : b = FirstSlot("construct_end", n)
                    /\ V = PutPlaces(Puts("insert", p, src), elements)
    OBVIOUS
  <1>1. b = m_begin
    BY <1>0 DEF FirstSlot
  <1>2. /\ DOMAIN V \subseteq 0 .. size + n - 1
        /\ \A x \in DOMAIN V : x < p => V[x] = slots[next_idx(b, x)]
        /\ \A x \in DOMAIN V : x >= p + n => V[x] = slots[next_idx(b, x - n)]
        /\ \A i \in 1 .. n : p + i - 1 \in DOMAIN V =>
             V[p + i - 1] = ReadIn(slots, src[i]) /\ src[i][1] # "slot"
        /\ size \in Nat /\ n \in Nat /\ p \in Nat /\ p <= size /\ MaxSize \in Nat
        /\ next_idx(m_begin, p) \in Slots /\ b \in Slots
    <2>1. PICK o, side : side = "construct_end" /\ o = IF side = "construct_end" THEN 0 ELSE n
      OBVIOUS
    <2>2. side \in {"construct_end", "construct_begin"} /\ b = FirstSlot(side, n)
          /\ V = PutPlaces(Puts("insert", p, src), elements)
      BY <1>0, <2>1
    <2>3. o = IF side = "construct_end" THEN 0 ELSE n
      BY <2>1
    <2>4. /\ DOMAIN V \subseteq 0 .. size + n - 1
          /\ \A x \in DOMAIN V : x < p => V[x] = slots[next_idx(b, x + o)]
          /\ \A x \in DOMAIN V : x >= p + n => V[x] = slots[next_idx(b, x - n + o)]
          /\ \A i \in 1 .. n : p + i - 1 \in DOMAIN V =>
               V[p + i - 1] = ReadIn(slots, src[i]) /\ src[i][1] # "slot"
          /\ size \in Nat /\ n \in Nat /\ p \in Nat /\ p <= size /\ MaxSize \in Nat
          /\ next_idx(m_begin, p) \in Slots /\ b \in Slots
      <3>1. InsertPlaces(V, b, o, p, src, n)
        BY <2>2, <2>3, InsertWants
      <3>2. QED
        BY <3>1 DEF InsertPlaces
    <2>5. \A x \in DOMAIN V : x + o = x /\ x - n + o = x - n
      <3>1. \A x \in Int : x + o = x /\ x - n + o = x - n
        BY <2>1, <2>4
      <3>2. DOMAIN V \subseteq Int
        BY <2>4
      <3>3. QED
        BY <3>1, <3>2
    <2>6. QED
      BY <2>4, <2>5
  <1>3. k \in Nat /\ p + k = size /\ n < k
    BY <1>2
  <1> DEFINE dx == [i \in 1 .. n |-> size + i - 1]
             dy == [i \in 1 .. k |-> size - i + n]
             dz == [i \in 1 .. n |-> p + i - 1]
  <1>4. /\ \A i \in 1 .. n : dx[i] = size + i - 1
        /\ \A i \in 1 .. k : dy[i] = size - i + n
        /\ \A i \in 1 .. n : dz[i] = p + i - 1
    OBVIOUS
  <1> HIDE DEF dx, dy, dz
  <1>5. /\ Len(X) = n /\ Len(Y) = k /\ Len(Z) = n
        /\ \A i \in 1 .. n : X[i].do = "construct_end" /\ X[i].src = Val(Default)
        /\ \A i \in 1 .. k : /\ Y[i].do = "assign"
                             /\ Y[i].at = next_idx(b, size - i + n)
                             /\ Y[i].src = At(next_idx(b, size - i))
        /\ \A i \in 1 .. n : /\ Z[i].do = "assign" /\ Z[i].src = src[i]
                             /\ Z[i].at = next_idx(b, p + i - 1)
    <2>1. /\ Len(X) = n /\ Len(Y) = k /\ Len(Z) = n
          /\ \A i \in 1 .. n : X[i] = ConstructEnd(Val(Default))
          /\ \A i \in 1 .. k : Y[i] = Assign(next_idx(b, size - i + n),
                                             At(next_idx(b, size - i)))
          /\ \A i \in 1 .. n : Z[i] = Assign(next_idx(b, p + i - 1), src[i])
      BY <1>1 DEF MovedAtEnd
    <2>2. ASSUME NEW i \in 1 .. n PROVE X[i].do = "construct_end" /\ X[i].src = Val(Default)
      BY <2>1 DEF ConstructEnd
    <2>3. ASSUME NEW i \in 1 .. k
          PROVE  /\ Y[i].do = "assign" /\ Y[i].at = next_idx(b, size - i + n)
                 /\ Y[i].src = At(next_idx(b, size - i))
      BY <2>1 DEF Assign
    <2>4. ASSUME NEW i \in 1 .. n
          PROVE  Z[i].do = "assign" /\ Z[i].src = src[i] /\ Z[i].at = next_idx(b, p + i - 1)
      <3>1. Z[i] = Assign(next_idx(b, p + i - 1), src[i])
        BY <2>1
      <3>2. QED
        BY <3>1 DEF Assign
    <2>5. QED
      BY <2>1, <2>2, <2>3, <2>4
  <1>6. \A j \in Nat : j <= MaxSize => j \in Slots
    BY <1>2 DEF Slots
  <1>7. ASSUME NEW i \in 1 .. n, dx[i] \in DOMAIN V
        PROVE  X[i].src[1] # "slot" /\ \E j \in 1 .. k : dy[j] = dx[i]
    <2>1. n - i + 1 \in 1 .. k /\ size - (n - i + 1) + n = size + i - 1
      BY <1>2, <1>3
    <2>2. dy[n - i + 1] = dx[i]
      BY <1>4, <2>1
    <2>3. X[i].src[1] # "slot"
      BY <1>5 DEF Val
    <2>4. QED
      BY <2>1, <2>2, <2>3
  <1>8. ASSUME NEW i \in 1 .. k, dy[i] \in DOMAIN V
        PROVE  /\ \E r \in Slots : /\ Y[i].src[2] = next_idx(b, r)
                                   /\ \A j \in 1 .. n : dx[j] # r
                                   /\ \A j \in 1 .. i - 1 : dy[j] # r
               /\ ReadIn(slots, Y[i].src) = V[dy[i]]
    <2>1. /\ size - i \in Nat /\ size - i <= MaxSize /\ size - i + n >= p + n
          /\ size - i + n - n = size - i
      BY <1>2, <1>3
    <2>2. ASSUME NEW j \in 1 .. n PROVE dx[j] # size - i
      <3>1. size + j - 1 # size - i
        BY <1>2, <1>3
      <3>2. QED
        BY <1>4, <3>1
    <2>3. ASSUME NEW j \in 1 .. i - 1 PROVE dy[j] # size - i
      <3>1. j \in 1 .. k /\ size - j + n # size - i
        BY <1>2, <1>3
      <3>2. QED
        BY <1>4, <3>1
    <2>4. Y[i].src[1] = "slot" /\ Y[i].src[2] = next_idx(b, size - i)
      BY <1>5 DEF At
    <2>5. V[dy[i]] = slots[next_idx(b, size - i)]
      <3>1. dy[i] = size - i + n /\ dy[i] >= p + n /\ dy[i] - n = size - i
        BY <1>4, <2>1
      <3>2. V[dy[i]] = slots[next_idx(b, dy[i] - n)]
        BY <1>2, <1>8, <3>1
      <3>3. QED
        BY <3>1, <3>2
    <2>6. size - i \in Slots
      BY <1>6, <2>1
    <2>7. ReadIn(slots, Y[i].src) = V[dy[i]]
      BY <2>4, <2>5 DEF ReadIn
    <2>8. QED
      BY <2>2, <2>3, <2>4, <2>6, <2>7
  <1>9. ASSUME NEW i \in 1 .. n, dz[i] \in DOMAIN V
        PROVE  Z[i].src[1] # "slot" /\ ReadIn(slots, Z[i].src) = V[dz[i]]
    <2>1. dz[i] = p + i - 1 /\ Z[i].src = src[i]
      BY <1>4, <1>5
    <2>2. QED
      BY <1>2, <1>9, <2>1
  <1>10. ASSUME NEW x \in DOMAIN V
         PROVE  \/ slots[next_idx(b, x)] = V[x]
                \/ \E i \in 1 .. n : dx[i] = x
                \/ \E i \in 1 .. k : dy[i] = x
                \/ \E i \in 1 .. n : dz[i] = x
    <2>1. x \in 0 .. size + n - 1
      BY <1>2
    <2>2. CASE x < p
      BY <1>2, <2>2
    <2>3. CASE ~(x < p) /\ x < p + n
      <3>1. x - p + 1 \in 1 .. n /\ p + (x - p + 1) - 1 = x
        BY <1>2, <2>1, <2>3
      <3>2. QED
        BY <1>4, <3>1
    <2>4. CASE ~(x < p + n)
      <3>1. size + n - x \in 1 .. k /\ size - (size + n - x) + n = x
        BY <1>2, <1>3, <2>1, <2>4
      <3>2. QED
        BY <1>4, <3>1
    <2>5. QED
      BY <2>2, <2>3, <2>4
  <1>11. LeadsInParts(b, slots, X, Y, Z, dx, dy, dz, V)
    BY <1>5, <1>7, <1>8, <1>9, <1>10 DEF LeadsInParts
  <1>12. /\ \A i \in 1 .. k : dy[i] \in Slots /\ Y[i].at = next_idx(b, dy[i])
         /\ \A i \in 1 .. n : dz[i] \in Slots /\ Z[i].at = next_idx(b, dz[i])
    <2>1. \A i \in 1 .. k : size - i + n \in Nat /\ size - i + n <= MaxSize
      BY <1>2, <1>3
    <2>2. \A i \in 1 .. n : p + i - 1 \in Nat /\ p + i - 1 <= MaxSize
      BY <1>2, <1>3
    <2>3. QED
      BY <1>4, <1>5, <1>6, <2>1, <2>2
  <1>13. distance_idx(b, next_idx(m_begin, p)) = p
    <2>1. p \in Slots
      BY <1>2, <1>6
    <2>2. QED
      BY <1>1, <1>2, <2>1, DistanceNext
  <1>14. /\ \A i \in 1 .. k : Worked("construct_end", dy[i], p, n)
         /\ \A i \in 1 .. n : Worked("construct_end", dz[i], p, n)
    <2>1. (\A i \in 1 .. k : size - i + n >= p) /\ \A i \in 1 .. n : p + i - 1 >= p
      BY <1>2, <1>3
    <2>2. QED
      BY <1>4, <2>1 DEF Worked
  <1>15. BuildsInParts(X, Y, Z, p, src, "construct_end", dx, dy, dz, next_idx(m_begin, p))
    <2>1. /\ \A i \in 1 .. n : X[i].do = "construct_end" /\ dx[i] = size + i - 1
          /\ \A i \in 1 .. k :
                Y[i].do = "assign" /\ dy[i] \in Slots /\ Y[i].at = next_idx(b, dy[i])
          /\ \A i \in 1 .. n :
                Z[i].do = "assign" /\ dz[i] \in Slots /\ Z[i].at = next_idx(b, dz[i])
          /\ Len(X) = n /\ Len(Y) = k /\ Len(Z) = n
      BY <1>4, <1>5, <1>12
    <2>2. QED
      BY <1>0, <1>2, <1>11, <1>13, <1>14, <2>1 DEF BuildsInParts
  <1>16. QED
    BY <1>15, PartsBuild

\* ... or of as many at least.
LEMMA EndCopiesRight ==
    ASSUME ContainerIInv, life # "failed", NEW src, Given(src), NEW n, n = Len(src),
           size + n <= MaxSize, NEW p \in 0 .. size, NEW k, k = size - p, ~(k > n),
           NEW X \in Seq(Steps), NEW Y \in Seq(Steps), NEW Z \in Seq(Steps),
           CopiedAtEnd(X, Y, Z, p, src, n, k)
    PROVE  PutsRight(X \o Y \o Z, Puts("insert", p, src), elements, next_idx(m_begin, p))
  <1>0. PICK b, V, o, side :
            /\ side = "construct_end" /\ o = (IF side = "construct_end" THEN 0 ELSE n)
            /\ b = FirstSlot(side, n) /\ V = PutPlaces(Puts("insert", p, src), elements)
    OBVIOUS
  <1>1. b = m_begin /\ side \in {"construct_end", "construct_begin"} /\ o = 0
    BY <1>0 DEF FirstSlot
  <1>2. /\ DOMAIN V \subseteq 0 .. size + n - 1
        /\ \A x \in DOMAIN V : x < p => V[x] = slots[next_idx(b, x)]
        /\ \A x \in DOMAIN V : x >= p + n => V[x] = slots[next_idx(b, x - n)]
        /\ \A i \in 1 .. n : p + i - 1 \in DOMAIN V =>
             V[p + i - 1] = ReadIn(slots, src[i]) /\ src[i][1] # "slot"
        /\ \A i \in 1 .. n : src[i][1] = "slot" =>
             \E x \in 0 .. size - 1 : src[i][2] = next_idx(b, x)
        /\ size \in Nat /\ n \in Nat /\ p \in Nat /\ p <= size /\ MaxSize \in Nat
        /\ next_idx(m_begin, p) \in Slots /\ b \in Slots
    <2>1. InsertPlaces(V, b, o, p, src, n)
      BY <1>0, <1>1, InsertWants
    <2>2. DOMAIN V \subseteq Int /\ size \in Nat /\ n \in Nat
      BY <2>1 DEF InsertPlaces
    <2>3. \A x \in Int : x + o = x /\ x - n + o = x - n
      BY <1>1, <2>2
    <2>4. \A x \in 0 .. size - 1 : x \in Int
      OBVIOUS
    <2>5. QED
      BY <2>1, <2>2, <2>3, <2>4 DEF InsertPlaces
  <1>3. /\ k \in Nat /\ n \in Nat /\ p \in Nat /\ size \in Nat /\ MaxSize \in Nat
        /\ p + k = size /\ k <= n /\ size + n <= MaxSize
    BY <1>2
  <1> DEFINE dx == [i \in 1 .. n - k |-> size + i - 1]
             dy == [i \in 1 .. k |-> p + n + i - 1]
             dz == [i \in 1 .. k |-> p + i - 1]
  <1>4. /\ \A i \in 1 .. n - k : dx[i] = size + i - 1
        /\ \A i \in 1 .. k : dy[i] = p + n + i - 1
        /\ \A i \in 1 .. k : dz[i] = p + i - 1
    OBVIOUS
  <1> HIDE DEF dx, dy, dz
  <1>5. /\ Len(X) = n - k /\ Len(Y) = k /\ Len(Z) = k
        /\ \A i \in 1 .. n - k : X[i].do = "construct_end" /\ X[i].src = src[k + i]
        /\ \A i \in 1 .. k : /\ Y[i].do = "construct_end"
                             /\ Y[i].src = At(next_idx(b, p + i - 1))
        /\ \A i \in 1 .. k : /\ Z[i].do = "assign" /\ Z[i].src = src[i]
                             /\ Z[i].at = next_idx(b, p + i - 1)
    <2>1. /\ Len(X) = n - k /\ Len(Y) = k /\ Len(Z) = k
          /\ \A i \in 1 .. n - k : X[i] = ConstructEnd(src[k + i])
          /\ \A i \in 1 .. k : Y[i] = ConstructEnd(At(next_idx(b, p + i - 1)))
          /\ \A i \in 1 .. k : Z[i] = Assign(next_idx(b, p + i - 1), src[i])
      BY <1>1 DEF CopiedAtEnd
    <2>2. ASSUME NEW i \in 1 .. n - k
          PROVE  X[i].do = "construct_end" /\ X[i].src = src[k + i]
      BY <2>1 DEF ConstructEnd
    <2>3. ASSUME NEW i \in 1 .. k
          PROVE  Y[i].do = "construct_end" /\ Y[i].src = At(next_idx(b, p + i - 1))
      BY <2>1 DEF ConstructEnd
    <2>4. ASSUME NEW i \in 1 .. k
          PROVE  Z[i].do = "assign" /\ Z[i].src = src[i] /\ Z[i].at = next_idx(b, p + i - 1)
      <3>1. Z[i] = Assign(next_idx(b, p + i - 1), src[i])
        BY <2>1
      <3>2. QED
        BY <3>1 DEF Assign
    <2>5. QED
      BY <2>1, <2>2, <2>3, <2>4
  <1>6. \A j \in Nat : j <= MaxSize => j \in Slots
    BY <1>2 DEF Slots
  <1>7. ASSUME NEW i \in 1 .. n - k, dx[i] \in DOMAIN V
        PROVE  /\ X[i].src[1] = "slot" =>
                    \E r \in Slots : /\ X[i].src[2] = next_idx(b, r)
                                     /\ \A j \in 1 .. i - 1 : dx[j] # r
               /\ ReadIn(slots, X[i].src) = V[dx[i]]
    <2>1. k + i \in 1 .. n /\ p + (k + i) - 1 = size + i - 1
      BY <1>2, <1>3
    <2>2. X[i].src = src[k + i] /\ dx[i] = p + (k + i) - 1
      BY <1>4, <1>5, <2>1
    <2>3. V[p + (k + i) - 1] = ReadIn(slots, src[k + i]) /\ src[k + i][1] # "slot"
      BY <1>2, <1>7, <2>1, <2>2
    <2>4. QED
      BY <2>2, <2>3
  <1>8. ASSUME NEW i \in 1 .. k, dy[i] \in DOMAIN V
        PROVE  /\ \E r \in Slots : /\ Y[i].src[2] = next_idx(b, r)
                                   /\ \A j \in 1 .. n - k : dx[j] # r
                                   /\ \A j \in 1 .. i - 1 : dy[j] # r
               /\ ReadIn(slots, Y[i].src) = V[dy[i]]
    <2>1. /\ p + i - 1 \in Nat /\ p + i - 1 <= MaxSize /\ p + n + i - 1 >= p + n
          /\ p + n + i - 1 - n = p + i - 1
      BY <1>2, <1>3
    <2>2. ASSUME NEW j \in 1 .. n - k PROVE dx[j] # p + i - 1
      <3>1. size + j - 1 # p + i - 1
        BY <1>3
      <3>2. QED
        BY <1>4, <3>1
    <2>3. ASSUME NEW j \in 1 .. i - 1 PROVE dy[j] # p + i - 1
      <3>1. j \in 1 .. k /\ p + n + j - 1 # p + i - 1
        BY <1>3
      <3>2. QED
        BY <1>4, <3>1
    <2>4. Y[i].src[1] = "slot" /\ Y[i].src[2] = next_idx(b, p + i - 1)
      BY <1>5 DEF At
    <2>5. V[dy[i]] = slots[next_idx(b, p + i - 1)]
      <3>1. dy[i] = p + n + i - 1 /\ dy[i] >= p + n /\ dy[i] - n = p + i - 1
        BY <1>4, <2>1
      <3>2. V[dy[i]] = slots[next_idx(b, dy[i] - n)]
        BY <1>2, <1>8, <3>1
      <3>3. QED
        BY <3>1, <3>2
    <2>6. p + i - 1 \in Slots
      BY <1>6, <2>1
    <2>7. ReadIn(slots, Y[i].src) = V[dy[i]]
      BY <2>4, <2>5 DEF ReadIn
    <2>8. QED
      BY <2>2, <2>3, <2>4, <2>6, <2>7
  <1>9. ASSUME NEW i \in 1 .. k, dz[i] \in DOMAIN V
        PROVE  Z[i].src[1] # "slot" /\ ReadIn(slots, Z[i].src) = V[dz[i]]
    <2>1. dz[i] = p + i - 1 /\ Z[i].src = src[i] /\ i \in 1 .. n
      BY <1>2, <1>3, <1>4, <1>5
    <2>2. QED
      BY <1>2, <1>9, <2>1
  <1>10. ASSUME NEW x \in DOMAIN V
         PROVE  \/ slots[next_idx(b, x)] = V[x]
                \/ \E i \in 1 .. n - k : dx[i] = x
                \/ \E i \in 1 .. k : dy[i] = x
                \/ \E i \in 1 .. k : dz[i] = x
    <2>1. x \in 0 .. size + n - 1
      BY <1>2
    <2>2. CASE x < p
      BY <1>2, <2>2
    <2>3. CASE ~(x < p) /\ x < size
      <3>1. x - p + 1 \in 1 .. k /\ p + (x - p + 1) - 1 = x
        BY <1>3, <2>1, <2>3
      <3>2. QED
        BY <1>4, <3>1
    <2>4. CASE ~(x < size) /\ x < p + n
      <3>1. x - size + 1 \in 1 .. n - k /\ size + (x - size + 1) - 1 = x
        BY <1>3, <2>1, <2>4
      <3>2. QED
        BY <1>4, <3>1
    <2>5. CASE ~(x < p + n)
      <3>1. x \in Nat /\ x <= p + k + n - 1 /\ x >= p + n
        BY <1>3, <2>1, <2>5
      <3>2. x - p - n + 1 \in 1 .. k /\ p + n + (x - p - n + 1) - 1 = x
        <4>1. PICK h \in Nat : x = p + n + h
          <5>1. x - (p + n) \in Nat /\ x = p + n + (x - (p + n))
            BY <1>3, <3>1
          <5>2. QED
            BY <5>1
        <4>2. x - p - n + 1 = h + 1 /\ h + 1 \in 1 .. k /\ p + n + (h + 1) - 1 = x
          BY <1>3, <3>1, <4>1
        <4>3. QED
          BY <4>2
      <3>3. QED
        BY <1>4, <3>2
    <2>6. QED
      BY <2>2, <2>3, <2>4, <2>5
  <1>11. LeadsInParts(b, slots, X, Y, Z, dx, dy, dz, V)
    BY <1>5, <1>7, <1>8, <1>9, <1>10 DEF LeadsInParts
  <1>12. \A i \in 1 .. k : dz[i] \in Slots /\ Z[i].at = next_idx(b, dz[i])
    <2>1. \A i \in 1 .. k : p + i - 1 \in Nat /\ p + i - 1 <= MaxSize
      BY <1>2, <1>3
    <2>2. QED
      BY <1>4, <1>5, <1>6, <2>1
  <1>13. distance_idx(b, next_idx(m_begin, p)) = p
    <2>1. p \in Slots
      BY <1>2, <1>6
    <2>2. QED
      BY <1>1, <1>2, <2>1, DistanceNext
  <1>14. /\ Len(X) = n => \A i \in 1 .. k : Worked("construct_end", dy[i], p, n)
         /\ \A i \in 1 .. k : Worked("construct_end", dz[i], p, n)
    <2>1. \A i \in 1 .. k : p + n + i - 1 >= p /\ p + i - 1 >= p
      BY <1>3
    <2>2. QED
      BY <1>4, <2>1 DEF Worked
  <1>15. BuildsInParts(X, Y, Z, p, src, "construct_end", dx, dy, dz, next_idx(m_begin, p))
    <2>1. /\ \A i \in 1 .. n - k : X[i].do = "construct_end" /\ dx[i] = size + i - 1
          /\ \A i \in 1 .. k :
                Z[i].do = "assign" /\ dz[i] \in Slots /\ Z[i].at = next_idx(b, dz[i])
          /\ Len(X) = n - k /\ Len(Y) = k /\ Len(Z) = k /\ Len(X) + Len(Y) = n
      <3>1. (n - k) + k = n
        BY <1>3
      <3>2. QED
        BY <1>4, <1>5, <1>12, <3>1
    <2>2. ASSUME NEW i \in 1 .. k
          PROVE  Y[i].do = "construct_end" /\ dy[i] = size + (n - k + i) - 1
      <3>1. size + (n - k + i) - 1 = p + n + i - 1
        BY <1>3
      <3>2. QED
        BY <1>4, <1>5, <3>1
    <2>3. QED
      BY <1>0, <1>2, <1>11, <1>13, <1>14, <2>1, <2>2 DEF BuildsInParts
  <1>16. QED
    BY <1>15, PartsBuild

\* insert() at the beginning, of fewer elements than precede.
LEMMA BeginMovesRight ==
    ASSUME ContainerIInv, life # "failed", NEW src, Given(src), NEW n, n = Len(src),
           size + n <= MaxSize, NEW p \in 0 .. size, p > n,
           NEW X \in Seq(Steps), NEW Y \in Seq(Steps), NEW Z \in Seq(Steps),
           MovedAtBegin(X, Y, Z, p, src, n)
    PROVE  PutsRight(X \o Y \o Z, Puts("insert", p, src), elements,
                     next_idx(prev_idx(m_begin, n), p))
  <1>0. PICK b, V, o, side :
            /\ side = "construct_begin" /\ o = (IF side = "construct_end" THEN 0 ELSE n)
            /\ b = FirstSlot(side, n) /\ V = PutPlaces(Puts("insert", p, src), elements)
    OBVIOUS
  <1>1. b = prev_idx(m_begin, n) /\ side \in {"construct_end", "construct_begin"} /\ o = n
    BY <1>0 DEF FirstSlot
  <1>2. /\ DOMAIN V \subseteq 0 .. size + n - 1
        /\ \A x \in DOMAIN V : x < p => V[x] = slots[next_idx(b, x + n)]
        /\ \A x \in DOMAIN V : x >= p + n => V[x] = slots[next_idx(b, x)]
        /\ \A i \in 1 .. n : p + i - 1 \in DOMAIN V =>
             V[p + i - 1] = ReadIn(slots, src[i]) /\ src[i][1] # "slot"
        /\ \A x \in 0 .. size : x + n \in Slots /\ next_idx(m_begin, x) = next_idx(b, x + n)
        /\ size \in Nat /\ n \in Nat /\ p \in Nat /\ p <= size /\ MaxSize \in Nat
        /\ b \in Slots
    <2>1. InsertPlaces(V, b, o, p, src, n)
      BY <1>0, <1>1, InsertWants
    <2>2. DOMAIN V \subseteq Int /\ size \in Nat /\ n \in Nat
      BY <2>1 DEF InsertPlaces
    <2>3. \A x \in Int : x - n + o = x
      BY <1>1, <2>2
    <2>4. QED
      BY <1>1, <2>1, <2>2, <2>3 DEF InsertPlaces
  <1> DEFINE dx == [i \in 1 .. n |-> n - i]
             dy == [i \in 1 .. p |-> i - 1]
             dz == [i \in 1 .. n |-> p + i - 1]
  <1>3. /\ \A i \in 1 .. n : dx[i] = n - i
        /\ \A i \in 1 .. p : dy[i] = i - 1
        /\ \A i \in 1 .. n : dz[i] = p + i - 1
    OBVIOUS
  <1> HIDE DEF dx, dy, dz
  <1>4. /\ Len(X) = n /\ Len(Y) = p /\ Len(Z) = n
        /\ \A i \in 1 .. n : X[i].do = "construct_begin" /\ X[i].src = Val(Default)
        /\ \A i \in 1 .. p : /\ Y[i].do = "assign" /\ Y[i].at = next_idx(b, i - 1)
                             /\ Y[i].src = At(next_idx(m_begin, i - 1))
        /\ \A i \in 1 .. n : /\ Z[i].do = "assign" /\ Z[i].src = src[i]
                             /\ Z[i].at = next_idx(b, p + i - 1)
    <2>1. /\ Len(X) = n /\ Len(Y) = p /\ Len(Z) = n
          /\ \A i \in 1 .. n : X[i] = ConstructBegin(Val(Default))
          /\ \A i \in 1 .. p : Y[i] = Assign(next_idx(b, i - 1), At(next_idx(m_begin, i - 1)))
          /\ \A i \in 1 .. n : Z[i] = Assign(next_idx(b, p + i - 1), src[i])
      BY <1>1 DEF MovedAtBegin
    <2>2. ASSUME NEW i \in 1 .. n PROVE X[i].do = "construct_begin" /\ X[i].src = Val(Default)
      BY <2>1 DEF ConstructBegin
    <2>3. ASSUME NEW i \in 1 .. p
          PROVE  /\ Y[i].do = "assign" /\ Y[i].at = next_idx(b, i - 1)
                 /\ Y[i].src = At(next_idx(m_begin, i - 1))
      BY <2>1 DEF Assign
    <2>4. ASSUME NEW i \in 1 .. n
          PROVE  Z[i].do = "assign" /\ Z[i].src = src[i] /\ Z[i].at = next_idx(b, p + i - 1)
      <3>1. Z[i] = Assign(next_idx(b, p + i - 1), src[i])
        BY <2>1
      <3>2. QED
        BY <3>1 DEF Assign
    <2>5. QED
      BY <2>1, <2>2, <2>3, <2>4
  <1>5. \A j \in Nat : j <= MaxSize => j \in Slots
    BY <1>2 DEF Slots
  <1>6. ASSUME NEW i \in 1 .. n, dx[i] \in DOMAIN V
        PROVE  X[i].src[1] # "slot" /\ \E j \in 1 .. p : dy[j] = dx[i]
    <2>1. n - i + 1 \in 1 .. p /\ (n - i + 1) - 1 = n - i
      BY <1>2
    <2>2. dy[n - i + 1] = dx[i]
      BY <1>3, <2>1
    <2>3. X[i].src[1] # "slot"
      BY <1>4 DEF Val
    <2>4. QED
      BY <2>1, <2>2, <2>3
  <1>7. ASSUME NEW i \in 1 .. p, dy[i] \in DOMAIN V
        PROVE  /\ \E r \in Slots : /\ Y[i].src[2] = next_idx(b, r)
                                   /\ \A j \in 1 .. n : dx[j] # r
                                   /\ \A j \in 1 .. i - 1 : dy[j] # r
               /\ ReadIn(slots, Y[i].src) = V[dy[i]]
    <2>1. i - 1 \in 0 .. size /\ i - 1 < p
      BY <1>2
    <2>2. ASSUME NEW j \in 1 .. n PROVE dx[j] # (i - 1) + n
      <3>1. n - j # (i - 1) + n
        BY <1>2
      <3>2. QED
        BY <1>3, <3>1
    <2>3. ASSUME NEW j \in 1 .. i - 1 PROVE dy[j] # (i - 1) + n
      <3>1. j \in 1 .. p /\ j - 1 # (i - 1) + n
        BY <1>2
      <3>2. QED
        BY <1>3, <3>1
    <2>4. /\ (i - 1) + n \in Slots /\ Y[i].src[1] = "slot"
          /\ Y[i].src[2] = next_idx(b, (i - 1) + n)
      BY <1>2, <1>4, <2>1 DEF At
    <2>5. V[dy[i]] = slots[next_idx(b, (i - 1) + n)]
      <3>1. dy[i] = i - 1 /\ dy[i] < p
        BY <1>3, <2>1
      <3>2. V[dy[i]] = slots[next_idx(b, dy[i] + n)]
        BY <1>2, <1>7, <3>1
      <3>3. QED
        BY <3>1, <3>2
    <2>6. ReadIn(slots, Y[i].src) = V[dy[i]]
      BY <2>4, <2>5 DEF ReadIn
    <2>7. QED
      BY <2>2, <2>3, <2>4, <2>6
  <1>8. ASSUME NEW i \in 1 .. n, dz[i] \in DOMAIN V
        PROVE  Z[i].src[1] # "slot" /\ ReadIn(slots, Z[i].src) = V[dz[i]]
    <2>1. dz[i] = p + i - 1 /\ Z[i].src = src[i]
      BY <1>3, <1>4
    <2>2. QED
      BY <1>2, <1>8, <2>1
  <1>9. ASSUME NEW x \in DOMAIN V
        PROVE  \/ slots[next_idx(b, x)] = V[x]
               \/ \E i \in 1 .. n : dx[i] = x
               \/ \E i \in 1 .. p : dy[i] = x
               \/ \E i \in 1 .. n : dz[i] = x
    <2>1. x \in 0 .. size + n - 1
      BY <1>2
    <2>2. CASE x < p
      <3>1. x + 1 \in 1 .. p /\ (x + 1) - 1 = x
        BY <1>2, <2>1, <2>2
      <3>2. QED
        BY <1>3, <3>1
    <2>3. CASE ~(x < p) /\ x < p + n
      <3>1. x - p + 1 \in 1 .. n /\ p + (x - p + 1) - 1 = x
        BY <1>2, <2>1, <2>3
      <3>2. QED
        BY <1>3, <3>1
    <2>4. CASE ~(x < p + n)
      <3>1. x >= p + n
        BY <1>2, <2>1, <2>4
      <3>2. QED
        BY <1>2, <3>1
    <2>5. QED
      BY <2>2, <2>3, <2>4
  <1>10. LeadsInParts(b, slots, X, Y, Z, dx, dy, dz, V)
    BY <1>4, <1>6, <1>7, <1>8, <1>9 DEF LeadsInParts
  <1>11. /\ \A i \in 1 .. p : dy[i] \in Slots /\ Y[i].at = next_idx(b, dy[i])
         /\ \A i \in 1 .. n : dz[i] \in Slots /\ Z[i].at = next_idx(b, dz[i])
    <2>1. \A i \in 1 .. p : i - 1 \in Nat /\ i - 1 <= MaxSize
      BY <1>2
    <2>2. \A i \in 1 .. n : p + i - 1 \in Nat /\ p + i - 1 <= MaxSize
      BY <1>2
    <2>3. QED
      BY <1>3, <1>4, <1>5, <2>1, <2>2
  <1>12. next_idx(b, p) \in Slots /\ distance_idx(b, next_idx(b, p)) = p
    <2>1. p \in Slots
      BY <1>2, <1>5
    <2>2. QED
      BY <1>2, <2>1, DistanceNext
  <1>13. /\ \A i \in 1 .. p : Worked(side, dy[i], p, n)
         /\ \A i \in 1 .. n : Worked(side, dz[i], p, n)
    <2>1. (\A i \in 1 .. p : i - 1 < p + n) /\ \A i \in 1 .. n : p + i - 1 < p + n
      BY <1>2
    <2>2. QED
      BY <1>0, <1>3, <2>1 DEF Worked
  <1>14. BuildsInParts(X, Y, Z, p, src, side, dx, dy, dz, next_idx(b, p))
    <2>1. /\ \A i \in 1 .. n : X[i].do = side /\ dx[i] = n - i
          /\ \A i \in 1 .. p :
                Y[i].do = "assign" /\ dy[i] \in Slots /\ Y[i].at = next_idx(b, dy[i])
          /\ \A i \in 1 .. n :
                Z[i].do = "assign" /\ dz[i] \in Slots /\ Z[i].at = next_idx(b, dz[i])
          /\ Len(X) = n /\ Len(Y) = p /\ Len(Z) = n /\ side # "construct_end"
      BY <1>0, <1>3, <1>4, <1>11
    <2>2. QED
      BY <1>0, <1>10, <1>12, <1>13, <2>1 DEF BuildsInParts
  <1>15. QED
    BY <1>1, <1>14, PartsBuild

\* ... or of as many at least.
LEMMA BeginCopiesRight ==
    ASSUME ContainerIInv, life # "failed", NEW src, Given(src), NEW n, n = Len(src),
           size + n <= MaxSize, NEW p \in 0 .. size, ~(p > n),
           NEW X \in Seq(Steps), NEW Y \in Seq(Steps), NEW Z \in Seq(Steps),
           CopiedAtBegin(X, Y, Z, p, src, n)
    PROVE  PutsRight(X \o Y \o Z, Puts("insert", p, src), elements,
                     next_idx(prev_idx(m_begin, n), p))
  <1>0. PICK b, V, o, side :
            /\ side = "construct_begin" /\ o = (IF side = "construct_end" THEN 0 ELSE n)
            /\ b = FirstSlot(side, n) /\ V = PutPlaces(Puts("insert", p, src), elements)
    OBVIOUS
  <1>1. b = prev_idx(m_begin, n) /\ side \in {"construct_end", "construct_begin"} /\ o = n
    BY <1>0 DEF FirstSlot
  <1>2. /\ DOMAIN V \subseteq 0 .. size + n - 1
        /\ \A x \in DOMAIN V : x < p => V[x] = slots[next_idx(b, x + n)]
        /\ \A x \in DOMAIN V : x >= p + n => V[x] = slots[next_idx(b, x)]
        /\ \A i \in 1 .. n : p + i - 1 \in DOMAIN V =>
             V[p + i - 1] = ReadIn(slots, src[i]) /\ src[i][1] # "slot"
        /\ \A x \in 0 .. size : x + n \in Slots /\ next_idx(m_begin, x) = next_idx(b, x + n)
        /\ size \in Nat /\ n \in Nat /\ p \in Nat /\ p <= size /\ p <= n /\ MaxSize \in Nat
        /\ b \in Slots
    <2>1. InsertPlaces(V, b, o, p, src, n)
      BY <1>0, <1>1, InsertWants
    <2>2. DOMAIN V \subseteq Int /\ size \in Nat /\ n \in Nat /\ p \in Nat
      BY <2>1 DEF InsertPlaces
    <2>3. (\A x \in Int : x - n + o = x) /\ p <= n
      BY <1>1, <2>2
    <2>4. QED
      BY <1>1, <2>1, <2>2, <2>3 DEF InsertPlaces
  <1>3. /\ n \in Nat /\ p \in Nat /\ size \in Nat /\ MaxSize \in Nat
        /\ p <= size /\ p <= n /\ size + n <= MaxSize
    BY <1>2
  <1> DEFINE dx == [i \in 1 .. n - p |-> n - i]
             dy == [i \in 1 .. p |-> p - i]
             dz == [i \in 1 .. p |-> i - 1 + n]
  <1>4. /\ \A i \in 1 .. n - p : dx[i] = n - i
        /\ \A i \in 1 .. p : dy[i] = p - i
        /\ \A i \in 1 .. p : dz[i] = i - 1 + n
    OBVIOUS
  <1> HIDE DEF dx, dy, dz
  <1>5. /\ Len(X) = n - p /\ Len(Y) = p /\ Len(Z) = p
        /\ \A i \in 1 .. n - p : /\ X[i].do = "construct_begin"
                                 /\ X[i].src = src[n - p + 1 - i]
        /\ \A i \in 1 .. p : /\ Y[i].do = "construct_begin"
                             /\ Y[i].src = At(next_idx(m_begin, p - i))
        /\ \A i \in 1 .. p : /\ Z[i].do = "assign" /\ Z[i].src = src[n - p + i]
                             /\ Z[i].at = next_idx(b, i - 1 + n)
    <2>1. /\ Len(X) = n - p /\ Len(Y) = p /\ Len(Z) = p
          /\ \A i \in 1 .. n - p : X[i] = ConstructBegin(src[n - p + 1 - i])
          /\ \A i \in 1 .. p : Y[i] = ConstructBegin(At(next_idx(m_begin, p - i)))
          /\ \A i \in 1 .. p : Z[i] = Assign(next_idx(b, i - 1 + n), src[n - p + i])
      BY <1>1 DEF CopiedAtBegin
    <2>2. ASSUME NEW i \in 1 .. n - p
          PROVE  X[i].do = "construct_begin" /\ X[i].src = src[n - p + 1 - i]
      <3>1. X[i] = ConstructBegin(src[n - p + 1 - i])
        BY <2>1
      <3>2. QED
        BY <3>1 DEF ConstructBegin
    <2>3. ASSUME NEW i \in 1 .. p
          PROVE  Y[i].do = "construct_begin" /\ Y[i].src = At(next_idx(m_begin, p - i))
      BY <2>1 DEF ConstructBegin
    <2>4. ASSUME NEW i \in 1 .. p
          PROVE  /\ Z[i].do = "assign" /\ Z[i].src = src[n - p + i]
                 /\ Z[i].at = next_idx(b, i - 1 + n)
      <3>1. Z[i] = Assign(next_idx(b, i - 1 + n), src[n - p + i])
        BY <2>1
      <3>2. QED
        BY <3>1 DEF Assign
    <2>5. QED
      BY <2>1, <2>2, <2>3, <2>4
  <1>6. \A j \in Nat : j <= MaxSize => j \in Slots
    BY <1>2 DEF Slots
  <1>7. ASSUME NEW i \in 1 .. n - p, dx[i] \in DOMAIN V
        PROVE  X[i].src[1] # "slot" /\ ReadIn(slots, X[i].src) = V[dx[i]]
    <2>1. n - p + 1 - i \in 1 .. n /\ p + (n - p + 1 - i) - 1 = n - i
      BY <1>3
    <2>2. X[i].src = src[n - p + 1 - i] /\ dx[i] = p + (n - p + 1 - i) - 1
      BY <1>4, <1>5, <2>1
    <2> DEFINE h == n - p + 1 - i
    <2>3. h \in 1 .. n /\ p + h - 1 \in DOMAIN V /\ X[i].src = src[h] /\ dx[i] = p + h - 1
      BY <1>7, <2>1, <2>2
    <2> HIDE DEF h
    <2>4. QED
      BY <1>2, <2>3
  <1>8. ASSUME NEW i \in 1 .. p, dy[i] \in DOMAIN V
        PROVE  /\ \E r \in Slots : /\ Y[i].src[2] = next_idx(b, r)
                                   /\ \A j \in 1 .. n - p : dx[j] # r
                                   /\ \A j \in 1 .. i - 1 : dy[j] # r
               /\ ReadIn(slots, Y[i].src) = V[dy[i]]
    <2>1. p - i \in 0 .. size /\ p - i < p
      BY <1>3
    <2>2. ASSUME NEW j \in 1 .. n - p PROVE dx[j] # (p - i) + n
      <3>1. n - j # (p - i) + n
        BY <1>3
      <3>2. QED
        BY <1>4, <3>1
    <2>3. ASSUME NEW j \in 1 .. i - 1 PROVE dy[j] # (p - i) + n
      <3>1. j \in 1 .. p /\ p - j # (p - i) + n
        BY <1>3
      <3>2. QED
        BY <1>4, <3>1
    <2>4. /\ (p - i) + n \in Slots /\ Y[i].src[1] = "slot"
          /\ Y[i].src[2] = next_idx(b, (p - i) + n)
      BY <1>2, <1>5, <2>1 DEF At
    <2>5. V[dy[i]] = slots[next_idx(b, (p - i) + n)]
      <3>1. dy[i] = p - i /\ dy[i] < p
        BY <1>4, <2>1
      <3>2. V[dy[i]] = slots[next_idx(b, dy[i] + n)]
        BY <1>2, <1>8, <3>1
      <3>3. QED
        BY <3>1, <3>2
    <2>6. ReadIn(slots, Y[i].src) = V[dy[i]]
      BY <2>4, <2>5 DEF ReadIn
    <2>7. QED
      BY <2>2, <2>3, <2>4, <2>6
  <1>9. ASSUME NEW i \in 1 .. p, dz[i] \in DOMAIN V
        PROVE  Z[i].src[1] # "slot" /\ ReadIn(slots, Z[i].src) = V[dz[i]]
    <2>1. n - p + i \in 1 .. n /\ p + (n - p + i) - 1 = i - 1 + n
      BY <1>3
    <2> DEFINE h == n - p + i
    <2>2. h \in 1 .. n /\ p + h - 1 \in DOMAIN V /\ Z[i].src = src[h] /\ dz[i] = p + h - 1
      BY <1>4, <1>5, <1>9, <2>1
    <2> HIDE DEF h
    <2>3. QED
      BY <1>2, <2>2
  <1>10. ASSUME NEW x \in DOMAIN V
         PROVE  \/ slots[next_idx(b, x)] = V[x]
                \/ \E i \in 1 .. n - p : dx[i] = x
                \/ \E i \in 1 .. p : dy[i] = x
                \/ \E i \in 1 .. p : dz[i] = x
    <2>1. x \in 0 .. size + n - 1
      BY <1>2
    <2>2. CASE x < p
      <3>1. p - x \in 1 .. p /\ p - (p - x) = x
        BY <1>3, <2>1, <2>2
      <3>2. QED
        BY <1>4, <3>1
    <2>3. CASE ~(x < p) /\ x < n
      <3>1. n - x \in 1 .. n - p /\ n - (n - x) = x
        BY <1>3, <2>1, <2>3
      <3>2. QED
        BY <1>4, <3>1
    <2>4. CASE ~(x < n) /\ x < p + n
      <3>1. x - n + 1 \in 1 .. p /\ (x - n + 1) - 1 + n = x
        BY <1>3, <2>1, <2>4
      <3>2. QED
        BY <1>4, <3>1
    <2>5. CASE ~(x < p + n)
      <3>1. x >= p + n
        BY <1>3, <2>1, <2>5
      <3>2. QED
        BY <1>2, <3>1
    <2>6. QED
      BY <2>2, <2>3, <2>4, <2>5
  <1>11. LeadsInParts(b, slots, X, Y, Z, dx, dy, dz, V)
    <2>1. ASSUME NEW i \in 1 .. n - p, dx[i] \in DOMAIN V
          PROVE  /\ X[i].src[1] = "slot" =>
                      \E r \in Slots : /\ X[i].src[2] = next_idx(b, r)
                                       /\ \A j \in 1 .. i - 1 : dx[j] # r
                 /\ \/ ReadIn(slots, X[i].src) = V[dx[i]]
                    \/ \E j \in 1 .. p : dy[j] = dx[i]
      BY <1>7, <2>1
    <2>2. QED
      BY <1>5, <1>8, <1>9, <1>10, <2>1 DEF LeadsInParts
  <1>12. \A i \in 1 .. p : dz[i] \in Slots /\ Z[i].at = next_idx(b, dz[i])
    <2>1. \A i \in 1 .. p : i - 1 + n \in Nat /\ i - 1 + n <= MaxSize
      BY <1>3
    <2>2. ASSUME NEW i \in 1 .. p PROVE dz[i] \in Slots /\ Z[i].at = next_idx(b, dz[i])
      <3>1. dz[i] = i - 1 + n /\ Z[i].at = next_idx(b, i - 1 + n)
        BY <1>4, <1>5
      <3>2. QED
        BY <1>6, <2>1, <3>1
    <2>3. QED
      BY <2>2
  <1>13. next_idx(b, p) \in Slots /\ distance_idx(b, next_idx(b, p)) = p
    <2>1. p \in Slots
      BY <1>2, <1>6
    <2>2. QED
      BY <1>2, <2>1, DistanceNext
  <1>14. /\ Len(X) = n => \A i \in 1 .. p : Worked(side, dy[i], p, n)
         /\ \A i \in 1 .. p : Worked(side, dz[i], p, n)
    <2>1. \A i \in 1 .. p : p - i < p + n /\ i - 1 + n < p + n
      BY <1>3
    <2>2. QED
      BY <1>0, <1>4, <2>1 DEF Worked
  <1>15. BuildsInParts(X, Y, Z, p, src, side, dx, dy, dz, next_idx(b, p))
    <2>1. /\ \A i \in 1 .. n - p : X[i].do = side /\ dx[i] = n - i
          /\ \A i \in 1 .. p :
                Z[i].do = "assign" /\ dz[i] \in Slots /\ Z[i].at = next_idx(b, dz[i])
          /\ Len(X) = n - p /\ Len(Y) = p /\ Len(Z) = p /\ Len(X) + Len(Y) = n
          /\ side # "construct_end"
      <3>1. (n - p) + p = n
        BY <1>3
      <3>2. QED
        BY <1>0, <1>4, <1>5, <1>12, <3>1
    <2>2. ASSUME NEW i \in 1 .. p PROVE Y[i].do = side /\ dy[i] = n - (n - p + i)
      <3>1. n - (n - p + i) = p - i
        BY <1>3
      <3>2. QED
        BY <1>0, <1>4, <1>5, <3>1
    <2>3. QED
      BY <1>0, <1>11, <1>13, <1>14, <2>1, <2>2 DEF BuildsInParts
  <1>16. QED
    BY <1>1, <1>15, PartsBuild

\* A call that begins with a right plan.
LEMMA BeginRight ==
    ASSUME NEW c, NEW steps, NEW it, Begin(c, steps, it), c # Idle,
           CallType(c, elements), PlanRight(steps, c, elements, it),
           life' = "building" => c.op = "assign" /\ elements = <<>>
    PROVE  CallRight'
  <1>1. /\ call' = c /\ todo' = steps /\ was' = elements /\ iter' = it /\ ret' = "none"
        /\ slots' = slots /\ m_begin' = m_begin /\ m_end' = m_end
    BY DEF Begin
  <1>2. size' = size
    BY <1>1 DEF size
  <1>3. elements' = elements
    BY <1>1, <1>2 DEF elements, begin_plus
  <1>4. ASSUME NEW n, NEW side
        PROVE  /\ FirstSlot(side, n)' = FirstSlot(side, n)
               /\ Writes(todo, n, side)' = Writes(steps, n, side)
    BY <1>1 DEF FirstSlot, Writes
  <1>5. ASSUME PutsRight(steps, c, elements, it) PROVE PutsRight(todo, call, was, iter)'
    <2>1. PICK n \in 0 .. Len(steps), side \in {"construct_end", "construct_begin"} :
            Fills(steps, n, side, c, elements, it)
      BY <1>5 DEF PutsRight
    <2>2. /\ FirstSlot(side, n)' = FirstSlot(side, n)
          /\ Writes(todo, n, side)' = Writes(steps, n, side)
      BY <1>4
    <2>3. OneSided(steps, n, side, c) => OneSided(todo, n, side, call)'
      BY <1>1, <2>2 DEF OneSided, distance_idx
    <2>4. Fills(todo, n, side, call, was, iter)'
      BY <1>1, <1>2, <2>1, <2>2, <2>3 DEF Fills
    <2>5. QED
      BY <1>1, <2>4 DEF PutsRight
  <1>6. ASSUME Refills(steps, c, it) PROVE Refills(todo, call, iter)'
    BY <1>1, <1>2, <1>6 DEF Refills
  <1>7. ASSUME Closes(steps, c, elements, it) PROVE Closes(todo, call, was, iter)'
    BY <1>1, <1>2, <1>7 DEF Closes
  <1>8. ASSUME HasClosed(steps, c, elements, it) PROVE HasClosed(todo, call, was, iter)'
    BY <1>1, <1>2, <1>3, <1>8 DEF HasClosed
  <1>9. PlanRight(todo, call, was, iter)'
    BY <1>1, <1>3, <1>5, <1>6, <1>7, <1>8 DEF PlanRight
  <1>10. CallType(call, was)'
    BY <1>1
  <1>11. ret' = "none" /\ call' = c /\ was' = elements
    BY <1>1
  <1>12. QED
    <2>1. call' # Idle /\ ret' = "none"
      BY <1>1
    <2>2. life' = "building" => call'.op = "assign" /\ was' = <<>>
      BY <1>1
    <2>3. QED
      BY <1>9, <1>10, <2>1, <2>2 DEF CallRight

\* A plan of moves and a cut that closes a gap, by the places it writes and reads.
ClosesInPlaces(X, cut, op, p, q, d, it) ==
    /\ cut.do \in {"cut_end", "cut_begin"} /\ cut.n = q - p
    /\ LeadsAt(m_begin, slots, X, Len(X), d, ClosedPlaces(Erases(op, p, q), elements, cut))
    /\ \A i \in 1 .. Len(X) : /\ X[i].do = "assign" /\ d[i] \in Slots
                              /\ X[i].at = next_idx(m_begin, d[i])
                              /\ Worked(cut.do, d[i], p, q - p)
    /\ IF op = "pop" THEN Len(X) = 0 /\ it = NoIter
       ELSE it \in Slots /\ p = IF cut.do = "cut_end" THEN distance_idx(m_begin, it)
                                ELSE distance_idx(next_idx(m_begin, q - p), it)

\* A plan that closes a gap, told by the places it writes and reads.
LEMMA ClosesByPlaces ==
    ASSUME ContainerIInv, life # "failed", NEW op \in {"pop", "erase"},
           NEW p \in 0 .. size, NEW q \in p .. size, NEW X \in Seq(Steps),
           NEW cut \in Steps, NEW d, NEW it, ClosesInPlaces(X, cut, op, p, q, d, it)
    PROVE  Closes(X \o <<cut>>, Erases(op, p, q), elements, it)
  <1>0. PICK m, c, V : /\ m = Len(X) /\ c = Erases(op, p, q)
                       /\ V = ClosedPlaces(c, elements, cut)
    OBVIOUS
  <1>1. /\ cut.do \in {"cut_end", "cut_begin"} /\ cut.n = q - p
        /\ LeadsAt(m_begin, slots, X, m, d, V)
        /\ \A i \in 1 .. m : /\ X[i].do = "assign" /\ d[i] \in Slots
                             /\ X[i].at = next_idx(m_begin, d[i])
                             /\ Worked(cut.do, d[i], p, q - p)
        /\ IF op = "pop" THEN m = 0 /\ it = NoIter
           ELSE it \in Slots /\ p = IF cut.do = "cut_end" THEN distance_idx(m_begin, it)
                                    ELSE distance_idx(next_idx(m_begin, q - p), it)
    BY <1>0 DEF ClosesInPlaces
  <1> DEFINE plan == X \o <<cut>>
             w == [i \in 1 .. m |-> plan[i].at]
  <1>2. /\ size \in Nat /\ size <= MaxSize /\ MaxSize \in Nat /\ m_begin \in Slots
        /\ Len(elements) = size
    BY SizeType, ElementsAt DEF ContainerIInv
  <1>3. m \in Nat /\ p \in Nat /\ q \in Nat /\ p <= q /\ q <= size
    BY <1>0, <1>2, LenProperties
  <1>4. c.op = op /\ c.pos = p /\ c.upto = q
    BY <1>0 DEF Erases
  <1>5. DOMAIN V \subseteq Slots
    <2>1. DOMAIN V \subseteq 0 .. size - 1
      <3>1. DOMAIN V = IF cut.do = "cut_end" THEN 0 .. size - cut.n - 1 ELSE cut.n .. size - 1
        BY <1>0, <1>2 DEF ClosedPlaces
      <3>2. /\ 0 .. size - (q - p) - 1 \subseteq 0 .. size - 1
            /\ q - p .. size - 1 \subseteq 0 .. size - 1
        BY <1>2, <1>3
      <3>3. QED
        BY <1>1, <3>1, <3>2
    <2>2. 0 .. size - 1 \subseteq Slots
      BY <1>2 DEF Slots
    <2>3. QED
      BY <2>1, <2>2
  <1>6. /\ plan \in Seq(Steps) /\ Len(plan) = m + 1 /\ plan[m + 1] = cut
        /\ \A i \in 1 .. m : plan[i] = X[i]
    <2>1. <<cut>> \in Seq(Steps) /\ Len(<<cut>>) = 1 /\ <<cut>>[1] = cut
      OBVIOUS
    <2>2. /\ plan \in Seq(Steps) /\ Len(plan) = m + 1
          /\ \A i \in 1 .. m + 1 : plan[i] = IF i <= m THEN X[i] ELSE <<cut>>[i - m]
      BY <1>0, <2>1, ConcatProperties
    <2>3. /\ m + 1 \in 1 .. m + 1 /\ ~(m + 1 <= m) /\ (m + 1) - m = 1
          /\ \A i \in 1 .. m : i \in 1 .. m + 1 /\ i <= m
      BY <1>3
    <2> HIDE DEF plan
    <2>4. QED
      BY <2>1, <2>2, <2>3
  <1> HIDE DEF plan
  <1>7. Leads(slots, X, m, w, Wanted(m_begin, V))
    <2>1. \A i \in 1 .. m : d[i] \in Slots /\ w[i] = next_idx(m_begin, d[i])
      BY <1>1, <1>6
    <2> HIDE DEF w
    <2>2. QED
      BY <1>1, <1>2, <1>3, <1>5, <2>1, LeadsByPlaces
  <1> HIDE DEF w
  <1>8. Leads(slots, plan, m, w, Wanted(m_begin, V))
    BY <1>6, <1>7 DEF Leads
  <1>9. Len(plan) - 1 = m /\ plan # <<>> /\ plan[Len(plan)] = cut
    <2>1. Len(plan) # 0
      BY <1>3, <1>6
    <2>2. QED
      BY <1>3, <1>6, <2>1, EmptySeq
  <1>10. /\ \A i \in 1 .. m : plan[i].do = "assign"
         /\ cut.n = c.upto - c.pos
         /\ w = [i \in 1 .. m |-> plan[i].at]
    BY <1>1, <1>4, <1>6 DEF w
  <1>11. \A i \in 1 .. m : Worked(cut.do, distance_idx(m_begin, plan[i].at), c.pos, cut.n)
    <2>1. ASSUME NEW i \in 1 .. m PROVE distance_idx(m_begin, plan[i].at) = d[i]
      <3>1. d[i] \in Slots /\ plan[i].at = next_idx(m_begin, d[i])
        BY <1>1, <1>6
      <3>2. QED
        BY <1>2, <3>1, DistanceNext
    <2>2. QED
      BY <1>1, <1>4, <2>1
  <1>12. Closes(plan, c, elements, it)
    BY <1>0, <1>1, <1>2, <1>4, <1>8, <1>9, <1>10, <1>11 DEF Closes
  <1>13. QED
    BY <1>0, <1>12 DEF plan

\* The values V of the places from m_begin on that a call wants which takes the elements
\* after p up to q away by the cut.
ClosedValuesAre(V, p, q, cut) ==
    /\ cut.do = "cut_end" =>
         /\ DOMAIN V = 0 .. size - (q - p) - 1
         /\ \A x \in DOMAIN V : x < p => V[x] = slots[next_idx(m_begin, x)]
         /\ \A x \in DOMAIN V : ~(x < p) =>
              V[x] = slots[next_idx(m_begin, x + (q - p))]
    /\ cut.do # "cut_end" =>
         /\ DOMAIN V = (q - p) .. size - 1
         /\ \A x \in DOMAIN V : x < q => V[x] = slots[next_idx(m_begin, x - (q - p))]
         /\ \A x \in DOMAIN V : ~(x < q) => V[x] = slots[next_idx(m_begin, x)]

\* What such a call wants where: the rest as it was.
LEMMA ClosedValues ==
    ASSUME ContainerIInv, life # "failed", NEW op, NEW p \in 0 .. size, NEW q \in p .. size,
           NEW cut, cut.n = q - p, NEW V, V = ClosedPlaces(Erases(op, p, q), elements, cut)
    PROVE  ClosedValuesAre(V, p, q, cut)
  <1>1. /\ size \in Nat /\ Len(elements) = size
        /\ \A x \in 0 .. size - 1 : elements[x + 1] = slots[next_idx(m_begin, x)]
    BY SizeType, ElementsAt DEF ContainerIInv
  <1>2. p \in Nat /\ q \in Nat /\ p <= q /\ q <= size /\ q - p \in Nat /\ q - p <= size
    BY <1>1
  <1>3. PICK n, c : n = q - p /\ c = Erases(op, p, q)
    OBVIOUS
  <1>4. c.pos = p /\ c.upto = q /\ c.upto - c.pos = n /\ n \in Nat /\ n <= size /\ q = p + n
    BY <1>2, <1>3 DEF Erases
  <1>5. ASSUME cut.do = "cut_end"
        PROVE  /\ DOMAIN V = 0 .. size - n - 1
               /\ \A x \in DOMAIN V : x < p => V[x] = slots[next_idx(m_begin, x)]
               /\ \A x \in DOMAIN V : ~(x < p) => V[x] = slots[next_idx(m_begin, x + n)]
    <2>1. DOMAIN V = 0 .. size - n - 1 /\ \A x \in DOMAIN V : V[x] = Closed(c, elements, x + 1)
      BY <1>1, <1>3, <1>5 DEF ClosedPlaces
    <2>2. ASSUME NEW x \in DOMAIN V, x < p PROVE V[x] = slots[next_idx(m_begin, x)]
      <3>1. x + 1 <= p /\ x \in 0 .. size - 1
        BY <1>1, <1>2, <1>4, <2>1, <2>2
      <3>2. QED
        BY <1>1, <1>4, <2>1, <3>1 DEF Closed
    <2>3. ASSUME NEW x \in DOMAIN V, ~(x < p) PROVE V[x] = slots[next_idx(m_begin, x + n)]
      <3>1. ~(x + 1 <= p) /\ x + n \in 0 .. size - 1 /\ (x + 1) + n = (x + n) + 1
        BY <1>1, <1>2, <1>4, <2>1, <2>3
      <3>2. V[x] = elements[(x + 1) + n]
        BY <1>4, <2>1, <3>1 DEF Closed
      <3>3. QED
        BY <1>1, <3>1, <3>2
    <2>4. QED
      BY <2>1, <2>2, <2>3
  <1>6. ASSUME cut.do # "cut_end"
        PROVE  /\ DOMAIN V = n .. size - 1
               /\ \A x \in DOMAIN V : x < q => V[x] = slots[next_idx(m_begin, x - n)]
               /\ \A x \in DOMAIN V : ~(x < q) => V[x] = slots[next_idx(m_begin, x)]
    <2>1. DOMAIN V = n .. size - 1 /\ \A x \in DOMAIN V : V[x] = Closed(c, elements, x + 1 - n)
      BY <1>1, <1>3, <1>6 DEF ClosedPlaces
    <2>2. ASSUME NEW x \in DOMAIN V, x < q PROVE V[x] = slots[next_idx(m_begin, x - n)]
      <3>1. x + 1 - n <= p /\ x - n \in 0 .. size - 1 /\ x + 1 - n = (x - n) + 1
        BY <1>1, <1>2, <1>4, <2>1, <2>2
      <3>2. V[x] = elements[x + 1 - n]
        BY <1>4, <2>1, <3>1 DEF Closed
      <3>3. QED
        BY <1>1, <3>1, <3>2
    <2>3. ASSUME NEW x \in DOMAIN V, ~(x < q) PROVE V[x] = slots[next_idx(m_begin, x)]
      <3>1. x \in n .. size - 1 /\ x >= p + n
        BY <1>1, <1>2, <1>4, <2>1, <2>3
      <3>2. ~(x + 1 - n <= p) /\ x \in 0 .. size - 1 /\ (x + 1 - n) + n = x + 1
        BY <1>1, <1>2, <1>4, <3>1
      <3>3. V[x] = elements[(x + 1 - n) + n]
        BY <1>4, <2>1, <3>2 DEF Closed
      <3>4. QED
        BY <1>1, <3>2, <3>3
    <2>4. QED
      BY <2>1, <2>2, <2>3
  <1>7. QED
    BY <1>3, <1>5, <1>6 DEF ClosedValuesAre

\* erase() at the end side.
LEMMA EraseEndRight ==
    ASSUME ContainerIInv, life # "failed",
           NEW p \in 0 .. size - 1, NEW q \in 1 .. size, p < q
    PROVE  Closes(EraseAtEndSide(next_idx(m_begin, p), next_idx(m_begin, q)),
                  Erases("erase", p, q), elements, next_idx(m_begin, p))
  <1>1. /\ size \in Nat /\ size <= MaxSize /\ MaxSize \in Nat /\ m_begin \in Slots
        /\ ContainerTypeOK
    BY SizeType DEF ContainerIInv
  <1>2. PICK n, m, c, cut, V :
            /\ n = q - p /\ m = size - q /\ c = Erases("erase", p, q) /\ cut = CutEnd(q - p)
            /\ V = ClosedPlaces(c, elements, cut)
    OBVIOUS
  <1>3. /\ p \in 0 .. size /\ q \in p .. size /\ p \in Nat /\ q \in Nat /\ p < q /\ q <= size
        /\ n \in Nat /\ q = p + n /\ n <= size /\ m \in Nat /\ size = q + m
    BY <1>1, <1>2
  <1>4. /\ cut \in Steps /\ cut.do = "cut_end" /\ cut.n = n
    <2>1. q - p \in Slots
      BY <1>1, <1>2, <1>3 DEF Slots
    <2>2. QED
      BY <1>2, <2>1, StepTypes DEF CutEnd
  <1>5. PICK X \in Seq(Steps) : ErasedAtEnd(X, p, q)
    BY <1>1, EraseEndMoves
  <1>6. /\ EraseAtEndSide(next_idx(m_begin, p), next_idx(m_begin, q)) = X \o <<cut>>
        /\ Len(X) = m
        /\ \A i \in 1 .. m :
             X[i] = Assign(next_idx(m_begin, p + i - 1), At(next_idx(m_begin, q + i - 1)))
    BY <1>2, <1>5 DEF ErasedAtEnd
  <1>7. /\ DOMAIN V = 0 .. size - n - 1
        /\ \A x \in DOMAIN V : x < p => V[x] = slots[next_idx(m_begin, x)]
        /\ \A x \in DOMAIN V : ~(x < p) => V[x] = slots[next_idx(m_begin, x + n)]
    <2>1. cut.n = q - p
      BY <1>2, <1>4
    <2>2. V = ClosedPlaces(Erases("erase", p, q), elements, cut)
      BY <1>2
    <2>3. /\ DOMAIN V = 0 .. size - (q - p) - 1
          /\ \A x \in DOMAIN V : x < p => V[x] = slots[next_idx(m_begin, x)]
          /\ \A x \in DOMAIN V : ~(x < p) => V[x] = slots[next_idx(m_begin, x + (q - p))]
      <3>1. ClosedValuesAre(V, p, q, cut)
        BY <1>3, <2>1, <2>2, ClosedValues
      <3>2. QED
        BY <1>4, <3>1 DEF ClosedValuesAre
    <2>4. QED
      BY <1>2, <2>3
  <1> DEFINE d == [i \in 1 .. m |-> p + i - 1]
  <1>8. \A i \in 1 .. m : d[i] = p + i - 1
    OBVIOUS
  <1> HIDE DEF d
  <1>9. \A j \in Nat : j <= MaxSize => j \in Slots
    BY <1>1 DEF Slots
  <1>10. ASSUME NEW i \in 1 .. m
         PROVE  /\ X[i].do = "assign" /\ d[i] \in Slots /\ X[i].at = next_idx(m_begin, d[i])
                /\ X[i].src[1] = "slot" /\ X[i].src[2] = next_idx(m_begin, q + i - 1)
    <2>1. X[i] = Assign(next_idx(m_begin, p + i - 1), At(next_idx(m_begin, q + i - 1)))
      BY <1>6
    <2>2. d[i] = p + i - 1
      BY <1>8
    <2>3. p + i - 1 \in Nat /\ p + i - 1 <= MaxSize
      BY <1>1, <1>3
    <2>4. d[i] \in Slots
      BY <1>9, <2>2, <2>3
    <2>5. QED
      BY <2>1, <2>2, <2>4 DEF Assign, At
  <1>11. ASSUME NEW i \in 1 .. m, d[i] \in DOMAIN V
         PROVE  /\ \E r \in Slots : /\ X[i].src[2] = next_idx(m_begin, r)
                                    /\ \A j \in 1 .. i - 1 : d[j] # r
                /\ ReadIn(slots, X[i].src) = V[d[i]]
    <2>1. /\ q + i - 1 \in Nat /\ q + i - 1 <= MaxSize /\ ~(p + i - 1 < p)
          /\ p + i - 1 + n = q + i - 1
      BY <1>1, <1>3
    <2>2. q + i - 1 \in Slots
      BY <1>9, <2>1
    <2>3. ASSUME NEW j \in 1 .. i - 1 PROVE d[j] # q + i - 1
      <3>1. j \in 1 .. m /\ p + j - 1 # q + i - 1
        BY <1>3
      <3>2. QED
        BY <1>8, <3>1
    <2>4. V[d[i]] = slots[next_idx(m_begin, q + i - 1)]
      <3>1. d[i] = p + i - 1 /\ ~(d[i] < p) /\ d[i] + n = q + i - 1
        BY <1>8, <2>1
      <3>2. V[d[i]] = slots[next_idx(m_begin, d[i] + n)]
        BY <1>7, <1>11, <3>1
      <3>3. QED
        BY <3>1, <3>2
    <2>5. ReadIn(slots, X[i].src) = V[d[i]]
      BY <1>10, <2>4 DEF ReadIn
    <2>6. QED
      BY <1>10, <2>2, <2>3, <2>5
  <1>12. ASSUME NEW x \in DOMAIN V
         PROVE  slots[next_idx(m_begin, x)] = V[x] \/ \E j \in 1 .. m : d[j] = x
    <2>1. CASE x < p
      BY <1>7, <2>1
    <2>2. CASE ~(x < p)
      <3>1. x - p + 1 \in 1 .. m /\ p + (x - p + 1) - 1 = x
        BY <1>1, <1>3, <1>7, <2>2
      <3>2. QED
        BY <1>8, <3>1
    <2>3. QED
      BY <2>1, <2>2
  <1>13. LeadsAt(m_begin, slots, X, m, d, V)
    BY <1>11, <1>12 DEF LeadsAt
  <1>14. next_idx(m_begin, p) \in Slots /\ distance_idx(m_begin, next_idx(m_begin, p)) = p
    <2>1. p \in Slots
      BY <1>1, <1>3, <1>9
    <2>2. QED
      BY <1>1, <2>1, DistanceNext
  <1>15. Closes(X \o <<cut>>, c, elements, next_idx(m_begin, p))
    <2>1. cut.n = q - p /\ "erase" \in {"pop", "erase"} /\ cut.do \in {"cut_end", "cut_begin"}
      BY <1>2, <1>4
    <2>2. \A i \in 1 .. m : /\ X[i].do = "assign" /\ d[i] \in Slots
                            /\ X[i].at = next_idx(m_begin, d[i])
                            /\ Worked(cut.do, d[i], p, q - p)
      <3>1. \A i \in 1 .. m : p + i - 1 >= p
        BY <1>3
      <3>2. QED
        BY <1>4, <1>8, <1>10, <3>1 DEF Worked
    <2>3. IF "erase" = "pop" THEN m = 0 /\ next_idx(m_begin, p) = NoIter
          ELSE /\ next_idx(m_begin, p) \in Slots
               /\ p = IF cut.do = "cut_end" THEN distance_idx(m_begin, next_idx(m_begin, p))
                      ELSE distance_idx(next_idx(m_begin, q - p), next_idx(m_begin, p))
      BY <1>4, <1>14
    <2>4. ClosesInPlaces(X, cut, "erase", p, q, d, next_idx(m_begin, p))
      BY <1>2, <1>6, <1>13, <2>1, <2>2, <2>3 DEF ClosesInPlaces
    <2>5. QED
      BY <1>2, <1>3, <1>4, <2>1, <2>4, ClosesByPlaces
  <1>16. QED
    BY <1>2, <1>6, <1>15

\* ... and at its beginning.
LEMMA EraseBeginRight ==
    ASSUME ContainerIInv, life # "failed",
           NEW p \in 0 .. size - 1, NEW q \in 1 .. size, p < q
    PROVE  Closes(EraseAtBeginSide(next_idx(m_begin, p), next_idx(m_begin, q)),
                  Erases("erase", p, q), elements, next_idx(m_begin, q))
  <1>1. /\ size \in Nat /\ size <= MaxSize /\ MaxSize \in Nat /\ m_begin \in Slots
        /\ ContainerTypeOK
    BY SizeType DEF ContainerIInv
  <1>2. PICK n, c, cut, V, it :
            /\ n = q - p /\ c = Erases("erase", p, q) /\ cut = CutBegin(q - p)
            /\ V = ClosedPlaces(c, elements, cut) /\ it = next_idx(m_begin, q)
    OBVIOUS
  <1>3. /\ p \in 0 .. size /\ q \in p .. size /\ p \in Nat /\ q \in Nat /\ p < q /\ q <= size
        /\ n \in Nat /\ q = p + n /\ n <= size
    BY <1>1, <1>2
  <1>4. /\ cut \in Steps /\ cut.do = "cut_begin" /\ cut.n = n
    <2>1. q - p \in Slots
      BY <1>1, <1>2, <1>3 DEF Slots
    <2>2. QED
      BY <1>2, <2>1, StepTypes DEF CutBegin
  <1>5. PICK X \in Seq(Steps) : ErasedAtBegin(X, p, q)
    BY <1>1, EraseBeginMoves
  <1>6. /\ EraseAtBeginSide(next_idx(m_begin, p), it) = X \o <<cut>>
        /\ Len(X) = p
        /\ \A i \in 1 .. p :
             X[i] = Assign(next_idx(m_begin, q - i), At(next_idx(m_begin, p - i)))
    BY <1>2, <1>5 DEF ErasedAtBegin
  <1>7. /\ DOMAIN V = n .. size - 1
        /\ \A x \in DOMAIN V : x < q => V[x] = slots[next_idx(m_begin, x - n)]
        /\ \A x \in DOMAIN V : ~(x < q) => V[x] = slots[next_idx(m_begin, x)]
    <2>1. cut.n = q - p
      BY <1>2, <1>4
    <2>2. V = ClosedPlaces(Erases("erase", p, q), elements, cut)
      BY <1>2
    <2>3. ClosedValuesAre(V, p, q, cut)
      BY <1>3, <2>1, <2>2, ClosedValues
    <2>4. /\ DOMAIN V = (q - p) .. size - 1
          /\ \A x \in DOMAIN V : x < q => V[x] = slots[next_idx(m_begin, x - (q - p))]
          /\ \A x \in DOMAIN V : ~(x < q) => V[x] = slots[next_idx(m_begin, x)]
      BY <1>4, <2>3 DEF ClosedValuesAre
    <2>5. QED
      BY <1>2, <2>4
  <1> DEFINE d == [i \in 1 .. p |-> q - i]
  <1>8. \A i \in 1 .. p : d[i] = q - i
    OBVIOUS
  <1> HIDE DEF d
  <1>9. \A j \in Nat : j <= MaxSize => j \in Slots
    BY <1>1 DEF Slots
  <1>10. ASSUME NEW i \in 1 .. p
         PROVE  /\ X[i].do = "assign" /\ d[i] \in Slots /\ X[i].at = next_idx(m_begin, d[i])
                /\ X[i].src[1] = "slot" /\ X[i].src[2] = next_idx(m_begin, p - i)
    <2>1. X[i] = Assign(next_idx(m_begin, q - i), At(next_idx(m_begin, p - i)))
      BY <1>6
    <2>2. d[i] = q - i
      BY <1>8
    <2>3. q - i \in Nat /\ q - i <= MaxSize
      BY <1>1, <1>3
    <2>4. d[i] \in Slots
      BY <1>9, <2>2, <2>3
    <2>5. QED
      BY <2>1, <2>2, <2>4 DEF Assign, At
  <1>11. ASSUME NEW i \in 1 .. p, d[i] \in DOMAIN V
         PROVE  /\ \E r \in Slots : /\ X[i].src[2] = next_idx(m_begin, r)
                                    /\ \A j \in 1 .. i - 1 : d[j] # r
                /\ ReadIn(slots, X[i].src) = V[d[i]]
    <2>1. p - i \in Nat /\ p - i <= MaxSize /\ q - i < q /\ q - i - n = p - i
      BY <1>1, <1>3
    <2>2. p - i \in Slots
      BY <1>9, <2>1
    <2>3. ASSUME NEW j \in 1 .. i - 1 PROVE d[j] # p - i
      <3>1. j \in 1 .. p /\ q - j # p - i
        BY <1>3
      <3>2. QED
        BY <1>8, <3>1
    <2>4. V[d[i]] = slots[next_idx(m_begin, p - i)]
      <3>1. d[i] = q - i /\ d[i] < q /\ d[i] - n = p - i
        BY <1>8, <2>1
      <3>2. V[d[i]] = slots[next_idx(m_begin, d[i] - n)]
        BY <1>7, <1>11, <3>1
      <3>3. QED
        BY <3>1, <3>2
    <2>5. ReadIn(slots, X[i].src) = V[d[i]]
      BY <1>10, <2>4 DEF ReadIn
    <2>6. QED
      BY <1>10, <2>2, <2>3, <2>5
  <1>12. ASSUME NEW x \in DOMAIN V
         PROVE  slots[next_idx(m_begin, x)] = V[x] \/ \E j \in 1 .. p : d[j] = x
    <2>1. CASE x < q
      <3>1. q - x \in 1 .. p /\ q - (q - x) = x
        BY <1>1, <1>3, <1>7, <2>1
      <3>2. QED
        BY <1>8, <3>1
    <2>2. CASE ~(x < q)
      BY <1>7, <2>2
    <2>3. QED
      BY <2>1, <2>2
  <1>13. LeadsAt(m_begin, slots, X, p, d, V)
    BY <1>11, <1>12 DEF LeadsAt
  <1>14. it \in Slots /\ distance_idx(next_idx(m_begin, q - p), it) = p
    <2>1. p \in Slots /\ q \in Slots /\ n \in Slots /\ n + p = q /\ p \in Int /\ ~(p < 0)
      BY <1>1, <1>3, <1>9
    <2>2. plus(next_idx(m_begin, n), p) = next_idx(m_begin, n + p)
      BY <1>1, <2>1, PlusInside
    <2>3. next_idx(next_idx(m_begin, n), p) = it
      BY <1>2, <2>1, <2>2 DEF plus
    <2>4. next_idx(m_begin, n) \in Slots /\ next_idx(m_begin, q) \in Slots
      BY <1>1, <2>1, DistanceNext
    <2>5. distance_idx(next_idx(m_begin, n), next_idx(next_idx(m_begin, n), p)) = p
      BY <2>1, <2>4, DistanceNext
    <2>6. QED
      BY <1>2, <2>3, <2>4, <2>5
  <1>15. Closes(X \o <<cut>>, c, elements, it)
    <2>1. cut.n = q - p /\ "erase" \in {"pop", "erase"} /\ cut.do \in {"cut_end", "cut_begin"}
      BY <1>2, <1>4
    <2>2. \A i \in 1 .. p : /\ X[i].do = "assign" /\ d[i] \in Slots
                            /\ X[i].at = next_idx(m_begin, d[i])
                            /\ Worked(cut.do, d[i], p, q - p)
      <3>1. \A i \in 1 .. p : q - i < p + (q - p)
        BY <1>3
      <3>2. QED
        BY <1>4, <1>8, <1>10, <3>1 DEF Worked
    <2>3. ClosesInPlaces(X, cut, "erase", p, q, d, it)
      BY <1>2, <1>4, <1>6, <1>13, <1>14, <2>1, <2>2 DEF ClosesInPlaces
    <2>4. QED
      BY <1>2, <1>3, <1>4, <2>1, <2>3, ClosesByPlaces
  <1>16. QED
    BY <1>2, <1>6, <1>15

\* The calls that only cut: at the end of a container of q elements, or at its beginning.
LEMMA CutRight ==
    ASSUME ContainerIInv, life # "failed", NEW p \in 0 .. size, NEW q \in p .. size,
           NEW cut, (cut = CutEnd(q - p) /\ q = size) \/ (cut = CutBegin(q - p) /\ p = 0)
    PROVE  Closes(<<cut>>, Erases("pop", p, q), elements, NoIter)
  <1>1. /\ size \in Nat /\ size <= MaxSize /\ MaxSize \in Nat /\ m_begin \in Slots
    BY SizeType DEF ContainerIInv
  <1>2. p \in Nat /\ q \in Nat /\ p <= q /\ q <= size /\ q - p \in Slots
    BY <1>1 DEF Slots
  <1>3. /\ cut \in Steps /\ cut.do \in {"cut_end", "cut_begin"} /\ cut.n = q - p
        /\ cut.do = "cut_end" => q = size
        /\ cut.do # "cut_end" => p = 0
    <2>1. CASE cut = CutEnd(q - p) /\ q = size
      <3>1. cut \in Steps
        BY <1>2, <2>1, StepTypes
      <3>2. cut.do = "cut_end" /\ cut.n = q - p
        BY <2>1 DEF CutEnd
      <3>3. QED
        BY <2>1, <3>1, <3>2
    <2>2. CASE cut = CutBegin(q - p) /\ p = 0
      <3>1. cut \in Steps
        BY <1>2, <2>2, StepTypes
      <3>2. cut.do = "cut_begin" /\ cut.n = q - p
        BY <2>2 DEF CutBegin
      <3>3. QED
        BY <2>2, <3>1, <3>2
    <2>3. QED
      BY <2>1, <2>2
  <1>4. PICK V, none : V = ClosedPlaces(Erases("pop", p, q), elements, cut) /\ none = <<>>
    OBVIOUS
  <1>5. ClosedValuesAre(V, p, q, cut)
    BY <1>3, <1>4, ClosedValues
  <1>6. ASSUME NEW x \in DOMAIN V PROVE slots[next_idx(m_begin, x)] = V[x]
    <2>1. CASE cut.do = "cut_end"
      <3>1. x \in 0 .. size - (q - p) - 1 /\ (x < p => V[x] = slots[next_idx(m_begin, x)])
        BY <1>5, <2>1 DEF ClosedValuesAre
      <3>2. x < p
        BY <1>1, <1>2, <1>3, <2>1, <3>1
      <3>3. QED
        BY <3>1, <3>2
    <2>2. CASE cut.do # "cut_end"
      <3>1. /\ x \in (q - p) .. size - 1
            /\ ~(x < q) => V[x] = slots[next_idx(m_begin, x)]
        BY <1>5, <2>2 DEF ClosedValuesAre
      <3>2. ~(x < q)
        BY <1>1, <1>2, <1>3, <2>2, <3>1
      <3>3. QED
        BY <3>1, <3>2
    <2>3. QED
      BY <2>1, <2>2
  <1>7. none \in Seq(Steps) /\ Len(none) = 0 /\ none \o <<cut>> = <<cut>>
    BY <1>3, <1>4
  <1>8. LeadsAt(m_begin, slots, none, Len(none), none, V)
    BY <1>6, <1>7 DEF LeadsAt
  <1>9. ClosesInPlaces(none, cut, "pop", p, q, none, NoIter)
    BY <1>3, <1>4, <1>7, <1>8 DEF ClosesInPlaces
  <1>10. Closes(none \o <<cut>>, Erases("pop", p, q), elements, NoIter)
    BY <1>3, <1>7, <1>9, ClosesByPlaces
  <1>11. QED
    BY <1>7, <1>10

\* Each kind of call begins with a right plan.
LEMMA PutBegins ==
    ASSUME ContainerIInv, life = "live", life' = "live", NEW op \in {"push", "resize", "insert"},
           NEW p \in 0 .. size, NEW src, Given(src), NEW steps, NEW it,
           Begin(Puts(op, p, src), steps, it),
           \/ steps = <<Refused>> /\ size + Len(src) > MaxSize
           \/ PutsRight(steps, Puts(op, p, src), elements, it)
    PROVE  CallRight'
  <1>1. PICK c : c = Puts(op, p, src)
    OBVIOUS
  <1>2. /\ c.op = op /\ c.pos = p /\ c.data \in Seq(Values) /\ Len(c.data) = Len(src)
        /\ c.aliased \in BOOLEAN /\ (op # "insert" => ~c.aliased) /\ c # Idle
    BY <1>1, PutsData DEF ContainerIInv
  <1>3. elements \in Seq(Values) /\ Len(elements) = size /\ size <= MaxSize
    BY ElementsAt, SizeType DEF ContainerIInv
  <1>4. CallType(c, elements)
    BY <1>2, <1>3 DEF CallType
  <1>5. IsPut(c) /\ Total(c, elements) = size + Len(src)
    BY <1>2, <1>3 DEF IsPut, Total, Kept
  <1>6. PlanRight(steps, c, elements, it)
    BY <1>1, <1>5 DEF PlanRight
  <1>7. QED
    BY <1>1, <1>2, <1>4, <1>6, BeginRight

\* The plans with which the calls begin are right, one lemma for each call; first what
\* pop_back(), pop_front(), clear(), erase() and a shrinking resize() share.
LEMMA CutBegins ==
    ASSUME ContainerIInv, life = "live", life' = "live", NEW op \in {"pop", "erase"},
           NEW p \in 0 .. size, NEW q \in p .. size, NEW steps, NEW it,
           Begin(Erases(op, p, q), steps, it),
           Closes(steps, Erases(op, p, q), elements, it)
    PROVE  CallRight'
  <1>1. PICK c : c = Erases(op, p, q)
    OBVIOUS
  <1>2. c.op = op /\ c.pos = p /\ c.upto = q /\ c # Idle
    BY <1>1 DEF Erases, Idle
  <1>3. elements \in Seq(Values) /\ Len(elements) = size /\ size <= MaxSize
    BY ElementsAt, SizeType DEF ContainerIInv
  <1>4. CallType(c, elements)
    BY <1>2, <1>3 DEF CallType
  <1>5. PlanRight(steps, c, elements, it)
    BY <1>1, <1>2 DEF PlanRight
  <1>6. QED
    BY <1>1, <1>2, <1>4, <1>5, BeginRight

\* push_back() begins with one construction, or is refused.
LEMMA push_backBegins ==
    ASSUME ContainerIInv, NEW src \in Sources, push_back(src) PROVE CallRight'
  <1> DEFINE steps == IfRoom(1, <<ConstructEnd(src)>>)
  <1>1. life = "live" /\ life' = "live" /\ Begin(Puts("push", size, <<src>>), steps, NoIter)
    BY DEF push_back, Live
  <1>2. size \in Nat /\ size <= MaxSize /\ MaxSize \in Nat /\ ContainerTypeOK
    BY SizeType DEF ContainerIInv
  <1>3. <<src>> = Times(1, src) /\ Len(<<src>>) = 1
    BY DEF Times
  <1>4. Given(<<src>>)
    BY <1>2, <1>3, CopiesGiven
  <1>5. CASE MaxSize - size < 1
    <2>1. steps = <<Refused>> /\ size + Len(<<src>>) > MaxSize
      BY <1>2, <1>3, <1>5 DEF IfRoom
    <2> HIDE DEF steps
    <2>2. QED
      BY <1>1, <1>2, <1>4, <2>1, PutBegins
  <1>6. CASE ~(MaxSize - size < 1)
    <2>1. steps = <<ConstructEnd(src)>> /\ size + Len(<<src>>) <= MaxSize
      BY <1>2, <1>3, <1>6 DEF IfRoom
    <2> HIDE DEF steps
    <2>2. src \in ReadFrom
      BY <1>2, SourceTypes
    <2>3. /\ steps \in Seq(Steps) /\ Len(steps) = Len(<<src>>)
          /\ \A i \in 1 .. Len(<<src>>) : steps[i] = ConstructEnd(<<src>>[i])
      <3>1. ConstructEnd(src) \in Steps
        BY <2>2, StepTypes
      <3>2. QED
        BY <2>1, <3>1
    <2>4. PutsRight(steps, Puts("push", size, <<src>>), elements, NoIter)
      BY <1>1, <1>3, <1>4, <2>1, <2>3, AppendsRight
    <2>5. QED
      BY <1>1, <1>2, <1>4, <2>4, PutBegins
  <1>7. QED
    BY <1>5, <1>6

\* push_front(), likewise at the beginning.
LEMMA push_frontBegins ==
    ASSUME ContainerIInv, NEW src \in Sources, push_front(src) PROVE CallRight'
  <1> DEFINE steps == IfRoom(1, <<ConstructBegin(src)>>)
  <1>1. life = "live" /\ life' = "live" /\ Begin(Puts("push", 0, <<src>>), steps, NoIter)
    BY DEF push_front, Live
  <1>2. /\ size \in Nat /\ size <= MaxSize /\ MaxSize \in Nat /\ ContainerTypeOK
        /\ 0 \in 0 .. size
    BY SizeType DEF ContainerIInv
  <1>3. <<src>> = Times(1, src) /\ Len(<<src>>) = 1
    BY DEF Times
  <1>4. Given(<<src>>)
    BY <1>2, <1>3, CopiesGiven
  <1>5. CASE MaxSize - size < 1
    <2>1. steps = <<Refused>> /\ size + Len(<<src>>) > MaxSize
      BY <1>2, <1>3, <1>5 DEF IfRoom
    <2> HIDE DEF steps
    <2>2. QED
      BY <1>1, <1>2, <1>4, <2>1, PutBegins
  <1>6. CASE ~(MaxSize - size < 1)
    <2>1. steps = <<ConstructBegin(src)>> /\ size < MaxSize
      BY <1>2, <1>6 DEF IfRoom
    <2> HIDE DEF steps
    <2>2. PutsRight(steps, Puts("push", 0, <<src>>), elements, NoIter)
      BY <1>1, <1>4, <2>1, push_frontRight
    <2>3. QED
      BY <1>1, <1>2, <1>4, <2>2, PutBegins
  <1>7. QED
    BY <1>5, <1>6

\* The calls that only cut.
LEMMA CutsBegin ==
    ASSUME ContainerIInv, pop_back \/ pop_front \/ clear PROVE CallRight'
  <1>1. size \in Nat
    BY SizeType DEF ContainerIInv
  <1>2. CASE pop_back
    <2>1. /\ life = "live" /\ life' = "live" /\ size - 1 \in 0 .. size /\ size \in size - 1 .. size
          /\ Begin(Erases("pop", size - 1, size), <<CutEnd(1)>>, NoIter)
          /\ CutEnd(1) = CutEnd(size - (size - 1))
      BY <1>1, <1>2 DEF pop_back, Live
    <2>2. Closes(<<CutEnd(1)>>, Erases("pop", size - 1, size), elements, NoIter)
      BY <2>1, CutRight
    <2>3. QED
      BY <2>1, <2>2, CutBegins
  <1>3. CASE pop_front
    <2>1. /\ life = "live" /\ life' = "live" /\ 0 \in 0 .. size /\ 1 \in 0 .. size
          /\ Begin(Erases("pop", 0, 1), <<CutBegin(1)>>, NoIter)
          /\ CutBegin(1) = CutBegin(1 - 0)
      BY <1>1, <1>3 DEF pop_front, Live
    <2>2. Closes(<<CutBegin(1)>>, Erases("pop", 0, 1), elements, NoIter)
      BY <2>1, CutRight
    <2>3. QED
      BY <2>1, <2>2, CutBegins
  <1>4. CASE clear
    <2>1. /\ life = "live" /\ life' = "live" /\ 0 \in 0 .. size /\ size \in 0 .. size
          /\ Begin(Erases("pop", 0, size), <<CutEnd(size)>>, NoIter)
          /\ CutEnd(size) = CutEnd(size - 0)
      BY <1>1, <1>4 DEF clear, Live
    <2>2. Closes(<<CutEnd(size)>>, Erases("pop", 0, size), elements, NoIter)
      BY <2>1, CutRight
    <2>3. QED
      BY <2>1, <2>2, CutBegins
  <1>5. QED
    BY <1>2, <1>3, <1>4

\* resize() cuts, or constructs copies.
LEMMA resizeBegins ==
    ASSUME ContainerIInv, NEW n \in 0 .. MaxSize + 1, NEW src \in Sources, resize(n, src)
    PROVE  CallRight'
  <1>1. /\ size \in Nat /\ size <= MaxSize /\ MaxSize \in Nat /\ n \in Nat /\ n <= MaxSize + 1
        /\ ContainerTypeOK
    BY SizeType DEF ContainerIInv
  <1>2. life = "live" /\ life' = "live"
    BY DEF resize, Live
  <1>3. CASE size >= n
    <2>1. /\ Begin(Erases("pop", n, size), <<CutEnd(size - n)>>, NoIter)
          /\ n \in 0 .. size /\ size \in n .. size
      BY <1>1, <1>3 DEF resize, Live
    <2>2. Closes(<<CutEnd(size - n)>>, Erases("pop", n, size), elements, NoIter)
      BY <1>2, <2>1, CutRight
    <2>3. QED
      BY <1>2, <2>1, <2>2, CutBegins
  <1>4. CASE ~(size >= n)
    <2> DEFINE steps == IF MaxSize < n THEN <<Refused>> ELSE Times(n - size, ConstructEnd(src))
               all == Times(n - size, src)
    <2>1. Begin(Puts("resize", size, all), steps, NoIter)
      BY <1>4 DEF resize, Live
    <2>2. n - size \in Nat /\ size + (n - size) = n
      BY <1>1, <1>4
    <2>3. Given(all)
      BY <1>1, <2>2, CopiesGiven
    <2>4. Len(all) = n - size /\ \A i \in 1 .. n - size : all[i] = src
      BY <2>2 DEF Times
    <2>5. src \in ReadFrom
      BY <1>1, SourceTypes
    <2> HIDE DEF all
    <2>6. CASE MaxSize < n
      <3>1. steps = <<Refused>> /\ size + Len(all) > MaxSize
        BY <1>1, <2>2, <2>4, <2>6
      <3> HIDE DEF steps
      <3>2. QED
        BY <1>1, <1>2, <2>1, <2>3, <3>1, PutBegins
    <2>7. CASE ~(MaxSize < n)
      <3>1. size + Len(all) <= MaxSize
        BY <1>1, <2>2, <2>4, <2>7
      <3>2. ConstructEnd(src) \in Steps
        BY <2>5, StepTypes
      <3>3. /\ steps \in Seq(Steps) /\ Len(steps) = Len(all)
            /\ \A i \in 1 .. Len(all) : steps[i] = ConstructEnd(all[i])
        BY <2>2, <2>4, <2>7, <3>2 DEF Times
      <3> HIDE DEF steps
      <3>4. PutsRight(steps, Puts("resize", size, all), elements, NoIter)
        BY <1>2, <2>3, <3>1, <3>3, AppendsRight
      <3>5. QED
        BY <1>1, <1>2, <2>1, <2>3, <3>4, PutBegins
    <2>8. QED
      BY <2>6, <2>7
  <1>5. QED
    BY <1>3, <1>4

\* assign() and the constructors cut what there is and construct the given elements.
LEMMA assignBegins ==
    ASSUME ContainerIInv, NEW data \in Ranges \cup { Times(n, v) : n \in 0 .. MaxSize + 1,
                                                                    v \in Values },
           construct(data) \/ Live(assign(data))
    PROVE  CallRight'
  <1> DEFINE steps == IF MaxSize < Len(data) THEN <<Refused>>
                      ELSE <<CutEnd(size)>>
                           \o [i \in DOMAIN data |-> ConstructEnd(Val(data[i]))]
  <1> DEFINE c == [op |-> "assign", data |-> data]
  <1>1. c.op = "assign" /\ c.data = data /\ c # Idle
    BY DEF Idle
  <1>2. /\ (life = "live" /\ life' = "live") \/ (life = "none" /\ life' = "building" /\ size = 0)
        /\ Begin(c, steps, NoIter)
    BY DEF construct, Live, assign
  <1> HIDE DEF c
  <1>3. size \in Nat /\ size <= MaxSize /\ MaxSize \in Nat
    BY SizeType DEF ContainerIInv
  <1>4. data \in Seq(Values) /\ Len(data) \in Nat
    <2>1. ASSUME NEW n \in 0 .. MaxSize + 1, NEW v \in Values
          PROVE  Times(n, v) \in Seq(Values)
      BY <1>3 DEF Times
    <2>2. data \in Seq(Values)
      BY <2>1, ContainersAssumption
    <2>3. QED
      BY <2>2, LenProperties
  <1>5. elements \in Seq(Values) /\ Len(elements) = size
    BY <1>2, ElementsAt DEF ContainerIInv
  <1>6. CallType(c, elements)
    BY <1>1, <1>3, <1>4, <1>5 DEF CallType
  <1>7. life' = "building" => c.op = "assign" /\ elements = <<>>
    BY <1>1, <1>2, <1>5
  <1>8. PlanRight(steps, c, elements, NoIter)
    <2>1. CASE MaxSize < Len(data)
      <3>1. steps = <<Refused>> /\ IsPut(c) /\ Total(c, elements) > MaxSize
        BY <1>1, <1>3, <1>4, <2>1 DEF IsPut, Total, Kept
      <3>2. QED
        BY <3>1 DEF PlanRight
    <2>2. CASE ~(MaxSize < Len(data))
      <3>1. Refills(steps, c, NoIter)
        BY <1>1, <1>3, <1>4, <2>2 DEF Refills
      <3>2. QED
        BY <3>1 DEF PlanRight
    <2>3. QED
      BY <2>1, <2>2
  <1> HIDE DEF steps
  <1>9. QED
    BY <1>1, <1>2, <1>6, <1>7, <1>8, BeginRight

\* insert() on the side it chose, or refused.
LEMMA insertBegins ==
    ASSUME ContainerIInv, NEW p \in 0 .. size, NEW src, Given(src), insert(p, src)
    PROVE  CallRight'
  <1> DEFINE pos == begin_plus(p)
             steps == IfRoom(Len(src), IF MovesEndSide(pos) THEN InsertAtEndSide(pos, src)
                                       ELSE InsertAtBeginSide(pos, src))
             it == IF MovesEndSide(pos) THEN pos ELSE plus(pos, -Len(src))
  <1>1. life = "live" /\ life' = "live" /\ Begin(Puts("insert", p, src), steps, it)
    BY DEF insert, Live
  <1>2. ContainerTypeOK /\ size \in Nat /\ size <= MaxSize /\ MaxSize \in Nat /\ p \in Nat
    BY SizeType DEF ContainerIInv
  <1>3. pos = next_idx(m_begin, p)
    BY <1>2, BeginPlus
  <1>4. PICK n : n = Len(src)
    OBVIOUS
  <1>5. n \in Nat
    BY <1>4, LenProperties DEF Given
  <1> HIDE DEF pos, it
  <1>6. CASE MaxSize - size < n
    <2>1. steps = <<Refused>> /\ size + Len(src) > MaxSize
      BY <1>2, <1>4, <1>5, <1>6 DEF IfRoom
    <2> HIDE DEF steps
    <2>2. QED
      BY <1>1, <2>1, PutBegins
  <1>7. CASE ~(MaxSize - size < n) /\ MovesEndSide(pos)
    <2>1. size + n <= MaxSize
      BY <1>2, <1>5, <1>7
    <2>2. steps = InsertAtEndSide(next_idx(m_begin, p), src) /\ it = next_idx(m_begin, p)
      BY <1>3, <1>4, <1>7 DEF IfRoom, it
    <2>3. PICK k : k = size - p
      OBVIOUS
    <2> HIDE DEF steps
    <2>4. CASE k > n
      <3>1. PICK X, Y, Z \in Seq(Steps) : MovedAtEnd(X, Y, Z, p, src, n, k)
        BY <1>2, <1>4, <1>5, <2>1, <2>3, <2>4, EndMoves
      <3>2. steps = X \o Y \o Z
        BY <2>2, <3>1 DEF MovedAtEnd
      <3>3. PutsRight(steps, Puts("insert", p, src), elements, it)
        BY <1>1, <1>4, <2>1, <2>2, <2>3, <2>4, <3>1, <3>2, EndMovesRight
      <3>4. QED
        BY <1>1, <3>3, PutBegins
    <2>5. CASE ~(k > n)
      <3>1. PICK X, Y, Z \in Seq(Steps) : CopiedAtEnd(X, Y, Z, p, src, n, k)
        BY <1>2, <1>4, <1>5, <2>1, <2>3, <2>5, EndCopies
      <3>2. steps = X \o Y \o Z
        BY <2>2, <3>1 DEF CopiedAtEnd
      <3>3. PutsRight(steps, Puts("insert", p, src), elements, it)
        BY <1>1, <1>4, <2>1, <2>2, <2>3, <2>5, <3>1, <3>2, EndCopiesRight
      <3>4. QED
        BY <1>1, <3>3, PutBegins
    <2>6. QED
      BY <2>4, <2>5
  <1>8. CASE ~(MaxSize - size < n) /\ ~MovesEndSide(pos)
    <2>1. size + n <= MaxSize
      BY <1>2, <1>5, <1>8
    <2>2. steps = InsertAtBeginSide(next_idx(m_begin, p), src)
      BY <1>3, <1>4, <1>8 DEF IfRoom
    <2>3. it = next_idx(prev_idx(m_begin, n), p)
      <3>1. it = plus(next_idx(m_begin, p), -n)
        BY <1>3, <1>4, <1>8 DEF it
      <3>2. PICK b : b = prev_idx(m_begin, n)
        OBVIOUS
      <3>3. p \in 0 .. size /\ \A j \in 0 .. size : plus(next_idx(m_begin, j), -n) = next_idx(b, j)
        BY <1>2, <1>5, <2>1, <3>2, BeginPlaces
      <3>4. QED
        BY <3>1, <3>2, <3>3
    <2> HIDE DEF steps
    <2>4. CASE p > n
      <3>1. PICK X, Y, Z \in Seq(Steps) : MovedAtBegin(X, Y, Z, p, src, n)
        BY <1>2, <1>4, <1>5, <2>1, <2>4, BeginMoves
      <3>2. steps = X \o Y \o Z
        BY <2>2, <3>1 DEF MovedAtBegin
      <3>3. PutsRight(steps, Puts("insert", p, src), elements, it)
        BY <1>1, <1>4, <2>1, <2>3, <2>4, <3>1, <3>2, BeginMovesRight
      <3>4. QED
        BY <1>1, <3>3, PutBegins
    <2>5. CASE ~(p > n)
      <3>1. PICK X, Y, Z \in Seq(Steps) : CopiedAtBegin(X, Y, Z, p, src, n)
        BY <1>2, <1>4, <1>5, <2>1, <2>5, BeginCopies
      <3>2. steps = X \o Y \o Z
        BY <2>2, <3>1 DEF CopiedAtBegin
      <3>3. PutsRight(steps, Puts("insert", p, src), elements, it)
        BY <1>1, <1>4, <2>1, <2>3, <2>5, <3>1, <3>2, BeginCopiesRight
      <3>4. QED
        BY <1>1, <3>3, PutBegins
    <2>6. QED
      BY <2>4, <2>5
  <1>9. QED
    BY <1>6, <1>7, <1>8

\* erase() on the side it chose.
LEMMA eraseBegins ==
    ASSUME ContainerIInv, NEW p \in 0 .. size - 1, NEW q \in 1 .. size, p < q, erase(p, q)
    PROVE  CallRight'
  <1> DEFINE first == begin_plus(p)  last == begin_plus(q)
  <1>1. life = "live" /\ life' = "live"
    BY DEF erase, Live
  <1>2. ContainerTypeOK /\ size \in Nat /\ p \in Nat /\ q \in Nat
    BY SizeType DEF ContainerIInv
  <1>3. p \in 0 .. size /\ q \in p .. size
    BY <1>2
  <1>4. first = next_idx(m_begin, p) /\ last = next_idx(m_begin, q)
    BY <1>2, BeginPlus
  <1>5. /\ ErasesEndSide(first, last) =>
            Begin(Erases("erase", p, q), EraseAtEndSide(first, last), first)
        /\ ~ErasesEndSide(first, last) =>
            Begin(Erases("erase", p, q), EraseAtBeginSide(first, last), last)
    BY DEF erase, Live
  <1>6. /\ Closes(EraseAtEndSide(first, last), Erases("erase", p, q), elements, first)
        /\ Closes(EraseAtBeginSide(first, last), Erases("erase", p, q), elements, last)
    BY <1>1, <1>4, EraseEndRight, EraseBeginRight
  <1> HIDE DEF first, last
  <1>7. CASE ErasesEndSide(first, last)
    BY <1>1, <1>3, <1>5, <1>6, <1>7, CutBegins
  <1>8. CASE ~ErasesEndSide(first, last)
    BY <1>1, <1>3, <1>5, <1>6, <1>8, CutBegins
  <1>9. QED
    BY <1>7, <1>8

\* Whatever call begins, its plan is right.
LEMMA CallsBegin ==
    ASSUME ContainerIInv, VectorCalls \/ pop_front \/ \E src \in Sources : push_front(src)
    PROVE  CallRight'
  <1>1. ContainerTypeOK /\ size \in Nat /\ size <= MaxSize /\ MaxSize \in Nat
    BY SizeType DEF ContainerIInv
  <1>2. CASE \E data \in Ranges \cup { Times(n, v) : n \in 0 .. MaxSize + 1, v \in Values } :
                construct(data) \/ Live(assign(data))
    BY <1>2, assignBegins
  <1>3. CASE \E src \in Sources : push_back(src)
    BY <1>3, push_backBegins
  <1>4. CASE pop_back \/ clear \/ pop_front
    BY <1>4, CutsBegin
  <1>5. CASE \E n \in 0 .. MaxSize + 1, src \in Sources : resize(n, src)
    BY <1>5, resizeBegins
  <1>6. CASE \E p \in 0 .. size :
        \/ \E n \in 0 .. MaxSize - size + 1, src \in Sources : insert(p, Times(n, src))
        \/ \E data \in Ranges : insert(p, [i \in DOMAIN data |-> Val(data[i])])
    <2>1. PICK p \in 0 .. size :
        \/ \E n \in 0 .. MaxSize - size + 1, src \in Sources : insert(p, Times(n, src))
        \/ \E data \in Ranges : insert(p, [i \in DOMAIN data |-> Val(data[i])])
      BY <1>6
    <2>2. CASE \E n \in 0 .. MaxSize - size + 1, src \in Sources : insert(p, Times(n, src))
      <3>1. PICK n \in 0 .. MaxSize - size + 1, src \in Sources : insert(p, Times(n, src))
        BY <2>2
      <3>2. n \in Nat
        BY <1>1
      <3>3. Given(Times(n, src))
        BY <1>1, <3>2, CopiesGiven
      <3>4. QED
        BY <3>1, <3>3, insertBegins
    <2>3. CASE \E data \in Ranges : insert(p, [i \in DOMAIN data |-> Val(data[i])])
      <3>1. PICK data \in Ranges : insert(p, [i \in DOMAIN data |-> Val(data[i])])
        BY <2>3
      <3>2. Given([i \in DOMAIN data |-> Val(data[i])])
        BY RangeGiven, ContainersAssumption
      <3>3. QED
        BY <3>1, <3>2, insertBegins
    <2>4. QED
      BY <2>1, <2>2, <2>3
  <1>7. CASE \E p \in 0 .. size - 1, q \in 1 .. size : p < q /\ erase(p, q)
    BY <1>7, eraseBegins
  <1>8. CASE \E src \in Sources : push_front(src)
    BY <1>8, push_frontBegins
  <1>9. QED
    BY <1>2, <1>3, <1>4, <1>5, <1>6, <1>7, <1>8 DEF VectorCalls

\* A step leaves a plan that is right.
LEMMA StepRight ==
    ASSUME ContainerIInv, CallRight, Step PROVE CallRight'
  <1>1. /\ todo # <<>> /\ Head(todo) # Refused
        /\ life' = life /\ call' = call /\ was' = was /\ ret' = ret /\ iter' = iter
    BY DEF Step
  <1>2. call # Idle
    BY <1>1 DEF ContainerIInv, ContainerTypeOK
  <1>3. /\ ret = "none" /\ CallType(call, was) /\ PlanRight(todo, call, was, iter)
        /\ life = "building" => call.op = "assign" /\ was = <<>>
    BY <1>2 DEF CallRight
  <1>4. todo \in Seq(Steps) /\ Head(todo) = todo[1]
    BY StepOf
  <1>5. PlanRight(todo, call, was, iter)'
    <2>1. CASE IsPut(call) /\ PutsRight(todo, call, was, iter)
      <3>1. Len(call.data) \in Nat
        BY <1>3, <2>1, LenProperties DEF CallType, IsPut
      <3>2. PutsRight(todo, call, was, iter)'
        BY <2>1, <3>1, FillsStep
      <3>3. IsPut(call)'
        BY <1>1, <2>1 DEF IsPut
      <3>4. QED
        BY <3>2, <3>3 DEF PlanRight
    <2>2. CASE Refills(todo, call, iter)
      <3>1. PutsRight(todo, call, was, iter)'
        BY <1>3, <2>2, RefillsStep
      <3>2. IsPut(call)'
        BY <1>1, <2>2 DEF Refills, IsPut
      <3>3. QED
        BY <3>1, <3>2 DEF PlanRight
    <2>3. CASE call.op \in {"pop", "erase"} /\ Closes(todo, call, was, iter)
      <3>1. CASE Len(todo) > 1
        <4>1. Closes(todo, call, was, iter)'
          BY <1>3, <2>3, <3>1, ClosesStep
        <4>2. QED
          BY <1>1, <2>3, <4>1 DEF PlanRight
      <3>2. CASE Len(todo) = 1
        <4>1. HasClosed(todo, call, was, iter)'
          BY <1>3, <2>3, <3>2, CutStep
        <4>2. QED
          BY <1>1, <2>3, <4>1 DEF PlanRight
      <3>3. Len(todo) > 1 \/ Len(todo) = 1
        <4>1. PICK n : n = Len(todo)
          OBVIOUS
        <4>2. n \in Nat /\ n >= 1
          BY <4>1, StepOf
        <4>3. n > 1 \/ n = 1
          BY <4>2
        <4>4. QED
          BY <4>1, <4>3
      <3>4. QED
        BY <3>1, <3>2, <3>3
    <2>4. CASE todo = <<Refused>>
      BY <1>1, <1>4, <2>4
    <2>5. CASE HasClosed(todo, call, was, iter)
      BY <1>1, <2>5 DEF HasClosed
    <2>6. QED
      BY <1>3, <2>1, <2>2, <2>3, <2>4, <2>5 DEF PlanRight
  <1>6. CallType(call, was)'
    BY <1>1, <1>3
  <1>7. /\ call' # Idle /\ ret' = "none"
        /\ life' = "building" => call'.op = "assign" /\ was' = <<>>
    BY <1>1, <1>2, <1>3
  <1>8. QED
    BY <1>5, <1>6, <1>7 DEF CallRight

\* At the start no call runs.
LEMMA InitRight == Init => CallRight
  BY DEF Init, CallRight

\* Between calls there is nothing to be right.
LEMMA IdleRight ==
    ASSUME ContainerIInv, CallRight,
           create \/ destroy \/ Return \/ Refuse \/ Throw \/ Forget
    PROVE  CallRight'
  <1>1. CASE create \/ destroy
    BY <1>1 DEF create, destroy, CallRight
  <1>2. CASE Return \/ Refuse \/ Throw
    BY <1>2 DEF Return, Refuse, Throw, End, CallRight
  <1>3. CASE Forget
    BY <1>3 DEF Forget, CallRight
  <1>4. QED
    BY <1>1, <1>2, <1>3

\* CallRight is about the container's variables only.
LEMMA SameRight ==
    ASSUME CallRight, UNCHANGED vars PROVE CallRight'
  <1>1. /\ life' = life /\ slots' = slots /\ m_begin' = m_begin /\ m_end' = m_end
        /\ todo' = todo /\ call' = call /\ was' = was /\ ret' = ret /\ iter' = iter
    BY DEF vars
  <1>2. size' = size
    BY <1>1 DEF size
  <1>3. elements' = elements
    BY <1>1, <1>2 DEF elements, begin_plus
  <1>4. ASSUME NEW n, NEW side
        PROVE  /\ FirstSlot(side, n)' = FirstSlot(side, n)
               /\ Writes(todo, n, side)' = Writes(todo, n, side)
    BY <1>1 DEF FirstSlot, Writes
  <1>5. ASSUME PutsRight(todo, call, was, iter) PROVE PutsRight(todo, call, was, iter)'
    <2>1. PICK n \in 0 .. Len(todo), side \in {"construct_end", "construct_begin"} :
            Fills(todo, n, side, call, was, iter)
      BY <1>5 DEF PutsRight
    <2>2. /\ FirstSlot(side, n)' = FirstSlot(side, n)
          /\ Writes(todo, n, side)' = Writes(todo, n, side)
      BY <1>4
    <2>3. OneSided(todo, n, side, call) => OneSided(todo, n, side, call)'
      BY <1>1, <2>2 DEF OneSided, distance_idx
    <2>4. Fills(todo, n, side, call, was, iter)'
      BY <1>1, <1>2, <2>1, <2>2, <2>3 DEF Fills
    <2>5. QED
      BY <1>1, <2>4 DEF PutsRight
  <1>6. ASSUME Refills(todo, call, iter) PROVE Refills(todo, call, iter)'
    BY <1>1, <1>2, <1>6 DEF Refills
  <1>7. ASSUME Closes(todo, call, was, iter) PROVE Closes(todo, call, was, iter)'
    BY <1>1, <1>2, <1>7 DEF Closes
  <1>8. ASSUME HasClosed(todo, call, was, iter) PROVE HasClosed(todo, call, was, iter)'
    BY <1>1, <1>2, <1>3, <1>8 DEF HasClosed
  <1>9. PlanRight(todo, call, was, iter) => PlanRight(todo, call, was, iter)'
    BY <1>1, <1>3, <1>5, <1>6, <1>7, <1>8 DEF PlanRight
  <1>10. CallType(call, was) => CallType(call, was)'
    BY <1>1
  <1>11. QED
    BY <1>1, <1>9, <1>10 DEF CallRight

\* What is left of a call's plan leaves what the call shall leave: in no state of a call
\* has a step overwritten what a later one reads, and every slot of the result holds its
\* value or will be given it.
THEOREM CallInvariance == Spec => []CallRight
  <1>1. Init => CallRight
    BY InitRight
  <1>2. ASSUME ContainerIInv, CallRight, [Next]_vars PROVE CallRight'
    <2>1. CASE VectorCalls \/ pop_front \/ \E src \in Sources : push_front(src)
      BY <1>2, <2>1, CallsBegin
    <2>2. CASE Step
      BY <1>2, <2>2, StepRight
    <2>3. CASE create \/ destroy \/ Return \/ Refuse \/ Throw \/ Forget
      BY <1>2, <2>3, IdleRight
    <2>4. CASE UNCHANGED vars
      BY <1>2, <2>4, SameRight
    <2>5. QED
      BY <1>2, <2>1, <2>2, <2>3, <2>4 DEF Next
  <1>3. QED
    BY <1>1, <1>2, ContainerInvariance, PTL DEF Spec

-----------------------------------------------------------------------------
(* What BoundedSequence says of the elements after a call, place by place.  *)

\* The sequence s of which the elements after the first p up to the q-th are replaced by w.
Splice(s, p, q, w) == SubSeq(s, 1, p) \o w \o SubSeq(s, q + 1, Len(s))

\* The same, element by element.
IsSplice(t, s, p, q, w) ==
    /\ t \in Seq(Values) /\ Len(t) = p + Len(w) + Len(s) - q
    /\ \A i \in 1 .. Len(t) :
         t[i] = IF i <= p THEN s[i] ELSE IF i <= p + Len(w) THEN w[i - p]
                ELSE s[i - p - Len(w) + q]

\* Splice() has the elements that IsSplice() says.
LEMMA SpliceIs ==
    ASSUME NEW s \in Seq(Values), NEW p \in 0 .. Len(s), NEW q \in p .. Len(s),
           NEW w \in Seq(Values)
    PROVE  IsSplice(Splice(s, p, q, w), s, p, q, w)
  <1>1. PICK l, m, t : l = Len(s) /\ m = Len(w) /\ t = Splice(s, p, q, w)
    OBVIOUS
  <1>2. /\ l \in Nat /\ m \in Nat /\ p \in Nat /\ q \in Nat /\ p <= q /\ q <= l
        /\ \A i \in 1 .. l : s[i] \in Values
    BY <1>1, LenProperties, ElementOfSeq
  <1>3. PICK u, v : u = SubSeq(s, 1, p) /\ v = SubSeq(s, q + 1, l)
    OBVIOUS
  <1>4. u \in Seq(Values) /\ Len(u) = p /\ \A i \in 1 .. p : u[i] = s[i]
    <2>1. 1 \in Int /\ p \in Int /\ \A i \in 1 .. p : s[i] \in Values
      BY <1>2
    <2>2. /\ u \in Seq(Values) /\ Len(u) = IF 1 <= p THEN p - 1 + 1 ELSE 0
          /\ \A i \in 1 .. p - 1 + 1 : u[i] = s[1 + i - 1]
      BY <1>3, <2>1, SubSeqProperties
    <2>3. p - 1 + 1 = p /\ (~(1 <= p) => p = 0) /\ \A i \in 1 .. p : 1 + i - 1 = i
      BY <1>2
    <2>4. QED
      BY <2>2, <2>3
  <1>5. v \in Seq(Values) /\ Len(v) = l - q /\ \A i \in 1 .. l - q : v[i] = s[q + i]
    <2>1. q + 1 \in Int /\ l \in Int /\ \A i \in q + 1 .. l : s[i] \in Values
      BY <1>2
    <2>2. /\ v \in Seq(Values) /\ Len(v) = IF q + 1 <= l THEN l - (q + 1) + 1 ELSE 0
          /\ \A i \in 1 .. l - (q + 1) + 1 : v[i] = s[q + 1 + i - 1]
      BY <1>3, <2>1, SubSeqProperties
    <2>3. /\ l - (q + 1) + 1 = l - q /\ (~(q + 1 <= l) => l - q = 0)
          /\ \A i \in 1 .. l - q : q + 1 + i - 1 = q + i
      BY <1>2
    <2>4. QED
      BY <2>2, <2>3
  <1>6. t = (u \o w) \o v
    BY <1>1, <1>3 DEF Splice
  <1>7. PICK x : x = u \o w
    OBVIOUS
  <1>8. /\ x \in Seq(Values) /\ Len(x) = p + m
        /\ \A i \in 1 .. p + m : x[i] = IF i <= p THEN u[i] ELSE w[i - p]
    BY <1>1, <1>4, <1>7, ConcatProperties
  <1>9. /\ t \in Seq(Values) /\ Len(t) = (p + m) + (l - q)
        /\ \A i \in 1 .. (p + m) + (l - q) : t[i] = IF i <= p + m THEN x[i] ELSE v[i - (p + m)]
    <2>1. t = x \o v
      BY <1>6, <1>7
    <2>2. x \in Seq(Values) /\ v \in Seq(Values)
      BY <1>5, <1>8
    <2>3. /\ x \o v \in Seq(Values) /\ Len(x \o v) = Len(x) + Len(v)
          /\ \A i \in 1 .. Len(x) + Len(v) : (x \o v)[i] =
                IF i <= Len(x) THEN x[i] ELSE v[i - Len(x)]
      BY <2>2, ConcatProperties
    <2>4. QED
      BY <1>5, <1>8, <2>1, <2>3
  <1>10. ASSUME NEW i \in 1 .. (p + m) + (l - q)
         PROVE  t[i] = IF i <= p THEN s[i] ELSE IF i <= p + m THEN w[i - p]
                       ELSE s[i - p - m + q]
    <2>1. CASE i <= p
      <3>1. i <= p + m /\ i \in 1 .. p + m /\ i \in 1 .. p
        BY <1>2, <2>1
      <3>2. QED
        BY <1>4, <1>8, <1>9, <2>1, <3>1
    <2>2. CASE ~(i <= p) /\ i <= p + m
      <3>1. i \in 1 .. p + m
        BY <1>2, <2>2
      <3>2. QED
        BY <1>8, <1>9, <2>2, <3>1
    <2>3. CASE ~(i <= p) /\ ~(i <= p + m)
      <3>1. i - (p + m) \in 1 .. l - q /\ q + (i - (p + m)) = i - p - m + q
        BY <1>2, <2>3
      <3>2. QED
        BY <1>5, <1>9, <2>3, <3>1
    <2>4. QED
      BY <2>1, <2>2, <2>3
  <1>11. (p + m) + (l - q) = p + m + l - q
    BY <1>2
  <1>12. QED
    BY <1>1, <1>9, <1>10, <1>11 DEF IsSplice

\* The sequences that a call may leave, by its kind.
\* What BoundedSequence allows after a call is a splice, and its own words for it agree.
LEMMA AfterOf ==
    ASSUME NEW c, NEW s
    PROVE  /\ c.op \in {"push", "resize", "insert"} => \A t :
                t \in A!After(c, s) <=>
                    \E w \in IF c.aliased THEN A!TupleOf(Values, Len(c.data)) ELSE {c.data} :
                        t = Splice(s, c.pos, c.pos, w)
           /\ c.op \in {"pop", "erase"} =>
                A!After(c, s) = { SubSeq(s, 1, c.pos) \o SubSeq(s, c.upto + 1, Len(s)) }
           /\ c.op = "assign" => A!After(c, s) = {c.data}
  <1>1. ASSUME c.op \in {"push", "resize", "insert"}
        PROVE  A!After(c, s) = { SubSeq(s, 1, c.pos) \o w \o SubSeq(s, c.pos + 1, Len(s)) :
                    w \in IF c.aliased THEN A!TupleOf(Values, Len(c.data)) ELSE {c.data} }
    BY <1>1 DEF A!After
  <1>2. ASSUME c.op \in {"push", "resize", "insert"}
        PROVE  A!After(c, s) = { Splice(s, c.pos, c.pos, w) :
                    w \in IF c.aliased THEN A!TupleOf(Values, Len(c.data)) ELSE {c.data} }
    BY <1>1, <1>2 DEF Splice
  <1>3. ASSUME c.op \in {"pop", "erase"}
        PROVE  A!After(c, s) = { SubSeq(s, 1, c.pos) \o SubSeq(s, c.upto + 1, Len(s)) }
    BY <1>3 DEF A!After
  <1>4. ASSUME c.op = "assign" PROVE A!After(c, s) = {c.data}
    BY <1>4 DEF A!After
  <1>5. QED
    BY <1>2, <1>3, <1>4

\* After a call that puts elements there are Total() of them, and there is such a sequence.
LEMMA PutLengths ==
    ASSUME NEW c, NEW s, CallType(c, s), IsPut(c)
    PROVE  /\ \A t \in A!After(c, s) : Len(t) = Total(c, s)
           /\ \E t : t \in A!After(c, s)
  <1>1. c.data \in Seq(Values) /\ Len(c.data) \in Nat
    BY LenProperties DEF CallType, IsPut
  <1>2. CASE c.op = "assign"
    <2>1. A!After(c, s) = {c.data}
      BY <1>2, AfterOf
    <2>2. Total(c, s) = Len(c.data)
      BY <1>1, <1>2 DEF Total, Kept
    <2>3. QED
      BY <2>1, <2>2
  <1>3. CASE c.op \in {"push", "resize", "insert"}
    <2> DEFINE ws == IF c.aliased THEN A!TupleOf(Values, Len(c.data)) ELSE {c.data}
    <2>1. /\ s \in Seq(Values) /\ c.pos \in 0 .. Len(s) /\ c.aliased \in BOOLEAN
      BY <1>3 DEF CallType
    <2>2. /\ c.data \in ws /\ \A w \in ws : w \in Seq(Values) /\ Len(w) = Len(c.data)
      <3>1. c.data \in A!TupleOf(Values, Len(c.data))
        BY <1>1, LenProperties DEF A!TupleOf
      <3>2. ASSUME NEW w \in A!TupleOf(Values, Len(c.data))
            PROVE  w \in Seq(Values) /\ Len(w) = Len(c.data)
        BY <1>1 DEF A!TupleOf
      <3>3. QED
        BY <1>1, <3>1, <3>2
    <2>3. \A t : t \in A!After(c, s) <=> \E w \in ws : t = Splice(s, c.pos, c.pos, w)
      BY <1>3, AfterOf
    <2>4. Total(c, s) = Len(s) + Len(c.data)
      BY <1>3 DEF Total, Kept
    <2> HIDE DEF ws
    <2>5. PICK p, l, n : p = c.pos /\ l = Len(s) /\ n = Len(c.data)
      OBVIOUS
    <2>6. l \in Nat /\ n \in Nat /\ p \in Nat /\ p \in 0 .. Len(s) /\ p \in p .. Len(s)
      BY <1>1, <2>1, <2>5, LenProperties
    <2>7. ASSUME NEW t \in A!After(c, s) PROVE Len(t) = l + n
      <3>1. PICK w \in ws : t = Splice(s, p, p, w)
        BY <2>3, <2>5, <2>7
      <3>2. w \in Seq(Values) /\ Len(w) = n
        BY <2>2, <2>5
      <3>3. IsSplice(t, s, p, p, w)
        BY <2>1, <2>6, <3>1, <3>2, SpliceIs
      <3>4. Len(t) = p + n + l - p
        BY <2>5, <3>2, <3>3 DEF IsSplice
      <3>5. QED
        BY <2>6, <3>4
    <2>8. \E t : t \in A!After(c, s)
      BY <2>2, <2>3
    <2>9. QED
      BY <2>4, <2>5, <2>7, <2>8
  <1>4. QED
    BY <1>2, <1>3 DEF IsPut

\* A sequence with the wanted elements is one that BoundedSequence allows.
LEMMA PutIsAfter ==
    ASSUME NEW c, NEW s, CallType(c, s), IsPut(c), NEW t \in Seq(Values),
           Len(t) = Total(c, s),
           \A i \in 1 .. Total(c, s) : ~Free(c, i) => t[i] = Put(c, s, i)
    PROVE  t \in A!After(c, s)
  <1>1. c.data \in Seq(Values) /\ Len(c.data) \in Nat
    BY LenProperties DEF CallType, IsPut
  <1>2. PICK p, l, n, d : p = c.pos /\ l = Len(s) /\ n = Len(c.data) /\ d = c.data
    OBVIOUS
  <1>3. CASE c.op = "assign"
    <2>1. Total(c, s) = n /\ n \in Nat
      BY <1>1, <1>2, <1>3 DEF Total, Kept
    <2>2. ASSUME NEW i \in 1 .. n PROVE t[i] = d[i]
      <3>1. ~Free(c, i)
        BY <1>3 DEF Free
      <3>2. Put(c, s, i) = d[i]
        <4>1. ~(i <= 0) /\ i <= 0 + n /\ i - 0 = i /\ Where(c) = 0
          BY <1>3, <2>1 DEF Where
        <4>2. QED
          BY <1>2, <4>1 DEF Put
      <3>3. QED
        BY <2>1, <3>1, <3>2
    <2>3. t = d
      BY <1>1, <1>2, <2>1, <2>2, SeqEqual
    <2>4. QED
      BY <1>2, <1>3, <2>3, AfterOf
  <1>4. CASE c.op \in {"push", "resize", "insert"}
    <2>1. s \in Seq(Values) /\ p \in 0 .. l /\ c.aliased \in BOOLEAN
      BY <1>2, <1>4 DEF CallType
    <2>2. l \in Nat /\ n \in Nat /\ p \in Nat /\ p \in p .. l /\ p <= l
      BY <1>1, <1>2, <2>1, LenProperties
    <2>3. Total(c, s) = l + n /\ Kept(c, s) = s /\ Where(c) = p
      BY <1>2, <1>4 DEF Total, Kept, Where
    <2>4. \A i \in 1 .. l + n : t[i] \in Values
      BY <2>3, ElementOfSeq
    <2>5. PICK w : w = IF c.aliased THEN [i \in 1 .. n |-> t[p + i]] ELSE d
      OBVIOUS
    <2>6. ASSUME c.aliased PROVE w \in [1 .. n -> Values]
      <3>1. \A i \in 1 .. n : p + i \in 1 .. l + n
        BY <2>2
      <3>2. QED
        BY <2>4, <2>5, <2>6, <3>1
    <2>7. w \in Seq(Values) /\ Len(w) = n
      BY <1>1, <1>2, <2>2, <2>5, <2>6
    <2>8. w \in IF c.aliased THEN A!TupleOf(Values, n) ELSE {d}
      BY <2>5, <2>6 DEF A!TupleOf
    <2>9. PICK x : x = Splice(s, p, p, w)
      OBVIOUS
    <2>10. x \in A!After(c, s)
      BY <1>2, <1>4, <2>8, <2>9, AfterOf
    <2>11. /\ x \in Seq(Values) /\ Len(x) = p + n + l - p
           /\ \A i \in 1 .. Len(x) :
                x[i] = IF i <= p THEN s[i] ELSE IF i <= p + n THEN w[i - p]
                       ELSE s[i - p - n + p]
      <3>1. p \in 0 .. Len(s) /\ p \in p .. Len(s)
        BY <1>2, <2>1, <2>2
      <3>2. IsSplice(x, s, p, p, w)
        BY <2>1, <2>7, <2>9, <3>1, SpliceIs
      <3>3. QED
        BY <1>2, <2>7, <3>2 DEF IsSplice
    <2>12. Len(x) = l + n
      BY <2>2, <2>11
    <2>13. ASSUME NEW i \in 1 .. l + n PROVE t[i] = x[i]
      <3>1. Free(c, i) => i > p /\ i <= p + n /\ c.aliased
        BY <1>2, <2>2, <2>3 DEF Free
      <3>2. CASE i <= p
        <4>1. Put(c, s, i) = s[i] /\ ~Free(c, i)
          BY <2>2, <2>3, <3>1, <3>2 DEF Put
        <4>2. QED
          BY <2>3, <2>11, <2>12, <3>2, <4>1
      <3>3. CASE ~(i <= p) /\ i <= p + n
        <4>1. x[i] = w[i - p] /\ i - p \in 1 .. n /\ p + (i - p) = i
          BY <2>2, <2>11, <2>12, <3>3
        <4>2. CASE c.aliased
          BY <2>5, <4>1, <4>2
        <4>3. CASE ~c.aliased
          <5>1. Put(c, s, i) = d[i - p]
            BY <1>2, <2>3, <3>3 DEF Put
          <5>2. QED
            BY <2>3, <2>5, <3>1, <4>1, <4>3, <5>1
        <4>4. QED
          BY <4>2, <4>3
      <3>4. CASE ~(i <= p) /\ ~(i <= p + n)
        <4>1. Put(c, s, i) = s[i - n] /\ ~Free(c, i) /\ i - p - n + p = i - n
          BY <1>2, <2>2, <2>3, <3>1, <3>4 DEF Put
        <4>2. QED
          BY <2>3, <2>11, <2>12, <3>4, <4>1
      <3>5. QED
        BY <3>2, <3>3, <3>4
    <2>14. t = x
      BY <2>3, <2>11, <2>12, <2>13, SeqEqual
    <2>15. QED
      BY <2>10, <2>14
  <1>5. QED
    BY <1>3, <1>4 DEF IsPut

\* The same of a call that takes elements away, which always fits.
LEMMA ClosedAre ==
    ASSUME NEW c, NEW s, CallType(c, s), c.op \in {"pop", "erase"}
    PROVE  /\ \A t \in Seq(Values) :
                /\ Len(t) = Len(s) - (c.upto - c.pos)
                /\ \A i \in 1 .. Len(t) : t[i] = Closed(c, s, i)
                => t \in A!After(c, s)
           /\ A!Fits(c, s)
  <1>1. PICK p, q, l : p = c.pos /\ q = c.upto /\ l = Len(s)
    OBVIOUS
  <1>2. s \in Seq(Values) /\ l <= MaxSize /\ p \in 0 .. l /\ q \in p .. l
    BY <1>1 DEF CallType
  <1>3. PICK none, x : /\ none = <<>> /\ x = SubSeq(s, 1, p) \o SubSeq(s, q + 1, l)
    OBVIOUS
  <1>4. /\ l \in Nat /\ p \in Nat /\ q \in Nat /\ p <= q /\ q <= l /\ MaxSize \in Nat
        /\ none \in Seq(Values) /\ Len(none) = 0
    BY <1>1, <1>2, <1>3, LenProperties, EmptySeq, ContainersAssumption
  <1>5. A!After(c, s) = {x}
    BY <1>1, <1>3, AfterOf
  <1>6. x = Splice(s, p, q, none)
    <2>1. SubSeq(s, 1, p) \in Seq(Values)
      BY <1>1, <1>2, <1>4, ElementOfSeq, SubSeqProperties
    <2>2. SubSeq(s, 1, p) \o none = SubSeq(s, 1, p)
      BY <1>3, <2>1, ConcatEmptySeq
    <2>3. QED
      BY <1>1, <1>3, <2>2 DEF Splice
  <1>7. /\ x \in Seq(Values) /\ Len(x) = p + 0 + l - q
        /\ \A i \in 1 .. Len(x) :
             x[i] = IF i <= p THEN s[i] ELSE IF i <= p + 0 THEN none[i - p]
                    ELSE s[i - p - 0 + q]
    <2>1. p \in 0 .. Len(s) /\ q \in p .. Len(s)
      BY <1>1, <1>2
    <2>2. IsSplice(x, s, p, q, none)
      BY <1>2, <1>4, <1>6, <2>1, SpliceIs
    <2>3. QED
      BY <1>1, <1>4, <2>2 DEF IsSplice
  <1>8. Len(x) = l - (q - p) /\ Len(x) <= MaxSize /\ Len(x) \in Nat
    BY <1>2, <1>4, <1>7
  <1>9. ASSUME NEW t \in Seq(Values), Len(t) = Len(s) - (c.upto - c.pos),
               \A i \in 1 .. Len(t) : t[i] = Closed(c, s, i)
        PROVE  t = x
    <2>1. ASSUME NEW i \in 1 .. Len(x) PROVE x[i] = Closed(c, s, i)
      <3>1. CASE i <= p
        BY <1>1, <1>7, <3>1 DEF Closed
      <3>2. CASE ~(i <= p)
        <4>1. ~(i <= p + 0) /\ i - p - 0 + q = i + (q - p)
          BY <1>4, <1>8, <3>2
        <4>2. QED
          BY <1>1, <1>7, <3>2, <4>1 DEF Closed
      <3>3. QED
        BY <3>1, <3>2
    <2>2. Len(t) = Len(x)
      BY <1>1, <1>8, <1>9
    <2>3. QED
      BY <1>7, <1>9, <2>1, <2>2, SeqEqual
  <1>10. A!Fits(c, s)
    BY <1>5, <1>8 DEF A!Fits
  <1>11. QED
    BY <1>5, <1>9, <1>10

\* A call that has put what it is to put.
\* When nothing is left of the plan, the container holds what the call is to leave.
LEMMA HasPut ==
    ASSUME ContainerIInv, life # "failed", NEW c, NEW s, NEW it, CallType(c, s), IsPut(c),
           PutsRight(<<>>, c, s, it)
    PROVE  /\ elements \in A!After(c, s) /\ A!Fits(c, s)
           /\ c.op = "insert" => it \in Slots /\ distance_idx(m_begin, it) = c.pos
           /\ c.op # "insert" => it = NoIter
  <1>1. PICK none, V : none = <<>> /\ V = PutPlaces(c, s)
    OBVIOUS
  <1>2. none \in Seq(Steps) /\ Len(none) = 0
    BY <1>1
  <1>3. PICK side \in {"construct_end", "construct_begin"} : Fills(none, 0, side, c, s, it)
    BY <1>1, <1>2 DEF PutsRight
  <1>4. /\ size \in Nat /\ MaxSize \in Nat /\ m_begin \in Slots /\ size <= MaxSize
        /\ elements \in Seq(Values) /\ Len(elements) = size
        /\ \A x \in 0 .. size - 1 : elements[x + 1] = slots[next_idx(m_begin, x)]
    BY SizeType, ElementsAt DEF ContainerIInv
  <1>5. FirstSlot(side, 0) = m_begin
    BY <1>4, ContainersAssumption DEF FirstSlot, prev_idx, Slots
  <1>6. /\ size = Total(c, s)
        /\ c.op = "insert" => it \in Slots /\ distance_idx(m_begin, it) = c.pos
        /\ c.op # "insert" => it = NoIter
        /\ Leads(slots, none, 0, Writes(none, 0, side), Wanted(m_begin, V))
    BY <1>1, <1>2, <1>3, <1>4, <1>5 DEF Fills
  <1>7. ASSUME NEW i \in 1 .. size, ~Free(c, i) PROVE elements[i] = Put(c, s, i)
    <2>1. PICK x : x = i - 1
      OBVIOUS
    <2>2. x \in 0 .. size - 1 /\ x + 1 = i /\ \A y \in 0 .. size - 1 : y \in Slots
      BY <1>4, <2>1 DEF Slots
    <2>3. x \in DOMAIN V /\ V[x] = Put(c, s, i) /\ DOMAIN V \subseteq Slots
      BY <1>1, <1>4, <1>6, <1>7, <2>2, PutAt
    <2>4. /\ next_idx(m_begin, x) \in DOMAIN Wanted(m_begin, V)
          /\ Wanted(m_begin, V)[next_idx(m_begin, x)] = V[x]
      BY <1>4, <2>3, WantedAt
    <2>5. \A y \in DOMAIN Wanted(m_begin, V) : slots[y] = Wanted(m_begin, V)[y]
      BY <1>6 DEF Leads
    <2>6. QED
      BY <1>4, <2>2, <2>3, <2>4, <2>5
  <1>8. elements \in A!After(c, s)
    BY <1>4, <1>6, <1>7, PutIsAfter
  <1>9. A!Fits(c, s)
    BY <1>4, <1>6, PutLengths DEF A!Fits
  <1>10. QED
    BY <1>6, <1>8, <1>9

\* The elements are those of the places from o on.
ElementsFound(c, s, o) == \A x \in 0 .. size - 1 : elements[x + 1] = Put(c, s, x + o + 1)

\* A call that still constructs, and assigns nothing: the elements that it found.
\* While constructions are left, the elements are those of a part of the wanted places.
LEMMA NotYetPut ==
    ASSUME ContainerIInv, life # "failed", NEW c, NEW s, NEW it, CallType(c, s), IsPut(c),
           c.op # "insert", NEW plan, NEW n, n \in Nat,
           NEW side \in {"construct_end", "construct_begin"}, Fills(plan, n, side, c, s, it),
           NEW o, o = IF side = "construct_end" THEN 0 ELSE n
    PROVE  /\ size + n = Total(c, s) /\ n <= Len(c.data)
           /\ ElementsFound(c, s, o)
  <1>1. PICK V, b, w : V = PutPlaces(c, s) /\ b = FirstSlot(side, n) /\ w = Writes(plan, n, side)
    OBVIOUS
  <1>2. /\ size \in Nat /\ MaxSize \in Nat /\ m_begin \in Slots /\ size <= MaxSize
        /\ m_end = next_idx(m_begin, size) /\ ContainerTypeOK /\ LiveSlots
    BY SizeType DEF ContainerIInv
  <1>3. /\ size + n = Total(c, s) /\ Total(c, s) <= MaxSize /\ n <= Len(c.data)
        /\ n = Len(plan) /\ Leads(slots, plan, n, w, Wanted(b, V))
    BY <1>1 DEF Fills
  <1>4. DOMAIN V = 0 .. size + n - 1 /\ \A x \in DOMAIN V : V[x] = Put(c, s, x + 1)
    BY <1>1, <1>2, <1>3, PutAt
  <1>5. \A x \in 0 .. size + n - 1 : x \in Slots
    BY <1>2, <1>3 DEF Slots
  <1>6. b \in Slots
    <2>1. n \in Slots
      BY <1>2, <1>3 DEF Slots
    <2>2. QED
      BY <1>1, <1>2, <2>1, DistanceNext DEF FirstSlot
  <1>7. ASSUME NEW x \in 0 .. size - 1, NEW j \in 1 .. n PROVE w[j] # next_idx(m_begin, x)
    <2>1. w[j] = IF side = "construct_end" THEN next_idx(m_end, j - 1) ELSE prev_idx(m_begin, j)
      BY <1>1, <1>3 DEF Writes
    <2>2. x \in Nat /\ x < size /\ j \in Nat /\ j >= 1 /\ size + j <= MaxSize
      BY <1>2, <1>3
    <2>3. next_idx(next_idx(m_begin, size), j - 1) # next_idx(m_begin, x)
      BY <1>2, <2>2 DEF next_idx, Slots, BufSize
    <2>4. prev_idx(m_begin, j) # next_idx(m_begin, x)
      BY <1>2, <2>2 DEF next_idx, prev_idx, Slots, BufSize
    <2>5. QED
      BY <1>2, <2>1, <2>3, <2>4
  <1>8. ASSUME NEW x \in 0 .. size - 1 PROVE elements[x + 1] = Put(c, s, x + o + 1)
    <2>1. /\ x + o \in Slots /\ next_idx(m_begin, x) = next_idx(b, x + o)
          /\ slots[next_idx(b, x + o)] = elements[x + 1]
      <3>1. size + n <= MaxSize /\ x \in 0 .. size /\ x < size
        BY <1>2, <1>3
      <3>2. QED
        BY <1>1, <1>2, <3>1, OldPlaces
    <2>2. x + o \in DOMAIN V
      BY <1>2, <1>4
    <2>3. /\ next_idx(b, x + o) \in DOMAIN Wanted(b, V)
          /\ Wanted(b, V)[next_idx(b, x + o)] = V[x + o]
      <3>1. DOMAIN V \subseteq Slots
        BY <1>4, <1>5
      <3>2. QED
        BY <1>6, <2>2, <3>1, WantedAt
    <2>4. \/ slots[next_idx(b, x + o)] = V[x + o]
          \/ \E j \in 1 .. n : w[j] = next_idx(b, x + o)
      BY <1>3, <2>3 DEF Leads
    <2>5. QED
      BY <1>4, <1>7, <2>1, <2>2, <2>4
  <1>9. QED
    BY <1>3, <1>8 DEF ElementsFound

\* A sequence whose elements are the first of another one's is its prefix.
LEMMA PrefixByPlaces ==
    ASSUME NEW u \in Seq(Values), NEW t \in Seq(Values), Len(u) <= Len(t),
           \A i \in 1 .. Len(u) : u[i] = t[i]
    PROVE  A!IsPrefix(u, t)
  <1>1. PICK n, x, y : n = Len(u) /\ x = SubSeq(u, 1, n) /\ y = SubSeq(t, 1, n)
    OBVIOUS
  <1>2. /\ n \in Nat /\ Len(t) \in Nat /\ n <= Len(t)
        /\ \A i \in 1 .. n : u[i] \in Values /\ u[i] = t[i]
    BY <1>1, LenProperties, ElementOfSeq
  <1>3. 1 \in Int /\ n \in Int /\ n - 1 + 1 = n /\ (~(1 <= n) => n = 0)
        /\ \A i \in 1 .. n : 1 + i - 1 = i
    BY <1>2
  <1>4. x \in Seq(Values) /\ Len(x) = n /\ \A i \in 1 .. n : x[i] = u[i]
    <2>1. \A i \in 1 .. n : u[i] \in Values
      BY <1>2
    <2>2. /\ x \in Seq(Values) /\ Len(x) = IF 1 <= n THEN n - 1 + 1 ELSE 0
          /\ \A i \in 1 .. n - 1 + 1 : x[i] = u[1 + i - 1]
      BY <1>1, <1>3, <2>1, SubSeqProperties
    <2>3. QED
      BY <1>3, <2>2
  <1>5. y \in Seq(Values) /\ Len(y) = n /\ \A i \in 1 .. n : y[i] = t[i]
    <2>1. \A i \in 1 .. n : t[i] \in Values
      BY <1>2
    <2>2. /\ y \in Seq(Values) /\ Len(y) = IF 1 <= n THEN n - 1 + 1 ELSE 0
          /\ \A i \in 1 .. n - 1 + 1 : y[i] = t[1 + i - 1]
      BY <1>1, <1>3, <2>1, SubSeqProperties
    <2>3. QED
      BY <1>3, <2>2
  <1>6. x = y
    BY <1>2, <1>4, <1>5, SeqEqual
  <1>7. QED
    BY <1>1, <1>6 DEF A!IsPrefix

\* While an insert() works on one side of its place, the elements on the other are there.
LEMMA InsertSpares ==
    ASSUME ContainerIInv, life # "failed", NEW c, NEW s, NEW it, CallType(c, s),
           c.op = "insert", NEW plan \in Seq(Steps), NEW n \in Nat,
           NEW side \in {"construct_end", "construct_begin"}, Fills(plan, n, side, c, s, it)
    PROVE  A!SameFirst(s, elements, c.pos) \/ A!SameLast(s, elements, Len(s) - c.pos)
  <1>1. PICK V, b, w, o, l, m, p :
            /\ V = PutPlaces(c, s) /\ b = FirstSlot(side, n) /\ w = Writes(plan, n, side)
            /\ o = (IF side = "construct_end" THEN 0 ELSE n)
            /\ l = Len(s) /\ m = Len(c.data) /\ p = c.pos
    OBVIOUS
  <1>2. /\ size \in Nat /\ MaxSize \in Nat /\ m_begin \in Slots /\ size <= MaxSize
        /\ ContainerTypeOK /\ LiveSlots /\ Len(elements) = size
    BY SizeType, ElementsAt DEF ContainerIInv
  <1>3. l \in Nat /\ m \in Nat /\ p \in Nat /\ p <= l
    BY <1>1, LenProperties DEF CallType
  <1>4. Total(c, s) = l + m /\ Kept(c, s) = s /\ Where(c) = p
    BY <1>1 DEF Total, Kept, Where
  <1>5. /\ size + n = l + m /\ l + m <= MaxSize /\ n <= m /\ n \in Nat /\ l <= size
    BY <1>1, <1>2, <1>3, <1>4 DEF Fills
  <1>6. /\ Leads(slots, plan, Len(plan), w, Wanted(b, V))
        /\ \A j \in 1 .. Len(plan) : Worked(side, distance_idx(b, w[j]), p, m)
    BY <1>1 DEF Fills, OneSided
  <1>7. \A x \in 0 .. l + m - 1 : x \in Slots
    BY <1>2, <1>3, <1>5 DEF Slots
  <1>8. b \in Slots /\ DOMAIN V \subseteq Slots
    <2>1. n \in Slots
      BY <1>2, <1>5 DEF Slots
    <2>2. DOMAIN V \subseteq 0 .. l + m - 1
      BY <1>1, <1>3, <1>4, PutAt
    <2>3. QED
      BY <1>1, <1>2, <1>7, <2>1, <2>2, DistanceNext DEF FirstSlot
  <1>9. ASSUME NEW x \in 0 .. size - 1, ~Worked(side, x + o, p, m), ~Free(c, x + o + 1)
        PROVE  elements[x + 1] = Put(c, s, x + o + 1)
    <2>1. x + o \in 0 .. l + m - 1 /\ x + o \in Slots
      BY <1>1, <1>2, <1>5, <1>7
    <2>2. slots[next_idx(b, x + o)] = elements[x + 1]
      <3>1. size + n <= MaxSize /\ x \in 0 .. size /\ x < size
        BY <1>2, <1>5
      <3>2. QED
        BY <1>1, <1>2, <3>1, OldPlaces
    <2>3. x + o \in DOMAIN V /\ V[x + o] = Put(c, s, x + o + 1)
      BY <1>1, <1>3, <1>4, <1>9, <2>1, PutAt
    <2>4. /\ next_idx(b, x + o) \in DOMAIN Wanted(b, V)
          /\ Wanted(b, V)[next_idx(b, x + o)] = V[x + o]
      BY <1>8, <2>3, WantedAt
    <2>5. \/ slots[next_idx(b, x + o)] = V[x + o]
          \/ \E j \in 1 .. Len(plan) : w[j] = next_idx(b, x + o)
      BY <1>6, <2>4 DEF Leads
    <2>6. distance_idx(b, next_idx(b, x + o)) = x + o
      BY <1>8, <2>1, DistanceNext
    <2>7. QED
      BY <1>6, <1>9, <2>2, <2>3, <2>5, <2>6
  <1>10. CASE side = "construct_end"
    <2>1. ASSUME NEW i \in 1 .. p PROVE elements[i] = s[i]
      <3>1. PICK x : x = i - 1
        OBVIOUS
      <3>2. /\ x \in 0 .. size - 1 /\ x + o = x /\ x + 1 = i /\ ~(x >= p) /\ i <= p
            /\ i \notin p + 1 .. p + m
        <4>1. o = 0
          BY <1>1, <1>10
        <4>2. QED
          BY <1>2, <1>3, <1>5, <3>1, <4>1
      <3>3. ~Worked(side, x + o, p, m) /\ ~Free(c, x + o + 1)
        BY <1>1, <1>4, <1>10, <3>2 DEF Worked, Free
      <3>4. elements[i] = Put(c, s, i)
        BY <1>9, <3>2, <3>3
      <3>5. QED
        BY <1>4, <3>2, <3>4 DEF Put
    <2>2. QED
      BY <1>1, <2>1 DEF A!SameFirst
  <1>11. CASE side = "construct_begin"
    <2>1. ASSUME NEW i \in 0 .. l - p - 1 PROVE elements[size - i] = s[l - i]
      <3>1. PICK x : x = size - i - 1
        OBVIOUS
      <3>2. /\ x \in 0 .. size - 1 /\ x + o + 1 = l + m - i /\ x + 1 = size - i
            /\ ~(x + o < p + m) /\ l + m - i \notin p + 1 .. p + m
        <4>1. o = n
          BY <1>1, <1>11
        <4>2. QED
          BY <1>2, <1>3, <1>5, <3>1, <4>1
      <3>3. ~Worked(side, x + o, p, m) /\ ~Free(c, x + o + 1)
        BY <1>1, <1>4, <1>11, <3>2 DEF Worked, Free
      <3>4. elements[size - i] = Put(c, s, l + m - i)
        BY <1>9, <3>2, <3>3
      <3>5. PICK y : y = l + m - i
        OBVIOUS
      <3>6. ~(y <= p) /\ ~(y <= p + m) /\ y - m = l - i
        BY <1>3, <3>5
      <3>7. Put(c, s, y) = s[y - m]
        BY <1>1, <1>4, <3>6 DEF Put
      <3>8. QED
        BY <3>4, <3>5, <3>6, <3>7
    <2>2. QED
      BY <1>1, <1>2, <2>1 DEF A!SameLast
  <1>12. QED
    BY <1>10, <1>11

\* ... and so it is with an erase().
LEMMA EraseSpares ==
    ASSUME ContainerIInv, life # "failed", NEW c, NEW s, NEW it, CallType(c, s),
           c.op = "erase", NEW plan, Closes(plan, c, s, it)
    PROVE  A!SameFirst(s, elements, c.pos) \/ A!SameLast(s, elements, Len(s) - c.upto)
  <1>1. PICK l, p, q, m, cut, V, w :
            /\ l = Len(s) /\ p = c.pos /\ q = c.upto /\ m = Len(plan) - 1
            /\ cut = plan[Len(plan)] /\ V = ClosedPlaces(c, s, cut)
            /\ w = [i \in 1 .. m |-> plan[i].at]
    OBVIOUS
  <1>2. /\ size \in Nat /\ MaxSize \in Nat /\ m_begin \in Slots /\ size <= MaxSize
        /\ Len(elements) = size
        /\ \A x \in 0 .. size - 1 : elements[x + 1] = slots[next_idx(m_begin, x)]
    BY SizeType, ElementsAt DEF ContainerIInv
  <1>3. /\ cut.do \in {"cut_end", "cut_begin"} /\ cut.n = q - p /\ size = l
        /\ \A i \in 1 .. m : Worked(cut.do, distance_idx(m_begin, w[i]), p, q - p)
        /\ Leads(slots, plan, m, w, Wanted(m_begin, V))
    BY <1>1 DEF Closes
  <1>4. l \in Nat /\ p \in Nat /\ q \in Nat /\ p <= q /\ q <= l
    BY <1>1, <1>2, <1>3 DEF CallType
  <1>5. DOMAIN V \subseteq Slots
    <2>1. Len(s) \in Nat /\ Len(s) <= MaxSize /\ cut.n \in Nat
      BY <1>1, <1>2, <1>3, <1>4
    <2>2. QED
      BY <1>1, <1>3, <2>1, ClosedType
  <1>6. ASSUME NEW x \in 0 .. l - 1, x \in DOMAIN V, ~Worked(cut.do, x, p, q - p)
        PROVE  elements[x + 1] = V[x]
    <2>1. x \in Slots /\ distance_idx(m_begin, next_idx(m_begin, x)) = x
      BY <1>2, <1>5, <1>6, DistanceNext
    <2>2. /\ next_idx(m_begin, x) \in DOMAIN Wanted(m_begin, V)
          /\ Wanted(m_begin, V)[next_idx(m_begin, x)] = V[x]
      BY <1>2, <1>5, <1>6, WantedAt
    <2>3. \/ slots[next_idx(m_begin, x)] = V[x]
          \/ \E j \in 1 .. m : w[j] = next_idx(m_begin, x)
      BY <1>3, <2>2 DEF Leads
    <2>4. QED
      BY <1>2, <1>3, <1>6, <2>1, <2>3
  <1>7. CASE cut.do = "cut_end"
    <2>1. ASSUME NEW i \in 1 .. p PROVE elements[i] = s[i]
      <3>1. PICK x : x = i - 1
        OBVIOUS
      <3>2. /\ x \in 0 .. l - 1 /\ x \in 0 .. l - (q - p) - 1 /\ x + 1 = i
            /\ ~(x >= p) /\ i <= p
        BY <1>4, <3>1
      <3>3. x \in DOMAIN V /\ V[x] = Closed(c, s, i)
        BY <1>1, <1>3, <1>7, <3>2 DEF ClosedPlaces
      <3>4. ~Worked(cut.do, x, p, q - p)
        BY <1>7, <3>2 DEF Worked
      <3>5. QED
        BY <1>1, <1>6, <3>2, <3>3, <3>4 DEF Closed
    <2>2. QED
      BY <1>1, <2>1 DEF A!SameFirst
  <1>8. CASE cut.do = "cut_begin"
    <2>1. ASSUME NEW i \in 0 .. l - q - 1 PROVE elements[l - i] = s[l - i]
      <3>1. PICK x : x = l - i - 1
        OBVIOUS
      <3>2. /\ x \in 0 .. l - 1 /\ x \in (q - p) .. l - 1 /\ x + 1 = l - i
            /\ ~(x < p + (q - p)) /\ ~(x + 1 - (q - p) <= p)
            /\ x + 1 - (q - p) + (q - p) = l - i
        BY <1>4, <3>1
      <3>3. x \in DOMAIN V /\ V[x] = Closed(c, s, x + 1 - (q - p))
        BY <1>1, <1>3, <1>8, <3>2 DEF ClosedPlaces
      <3>4. ~Worked(cut.do, x, p, q - p)
        BY <1>8, <3>2 DEF Worked
      <3>5. Closed(c, s, x + 1 - (q - p)) = s[l - i]
        BY <1>1, <3>2 DEF Closed
      <3>6. QED
        BY <1>6, <3>2, <3>3, <3>4, <3>5
    <2>2. QED
      BY <1>1, <1>2, <1>3, <2>1 DEF A!SameLast
  <1>9. QED
    BY <1>3, <1>7, <1>8

\* A call that puts elements and is left by an exception leaves what AfterThrow says.
LEMMA ThrownPut ==
    ASSUME ContainerIInv, life # "failed", NEW c, NEW s, NEW it, CallType(c, s), IsPut(c),
           NEW plan \in Seq(Steps), plan # <<>>, PutsRight(plan, c, s, it)
    PROVE  A!Fits(c, s) /\ A!AfterThrow(c, s, elements)
  <1>1. PICK n \in 0 .. Len(plan), side \in {"construct_end", "construct_begin"} :
            Fills(plan, n, side, c, s, it)
    BY DEF PutsRight
  <1>2. PICK l, m, d, o : /\ l = Len(s) /\ m = Len(c.data) /\ d = c.data
                          /\ o = IF side = "construct_end" THEN 0 ELSE n
    OBVIOUS
  <1>3. /\ size \in Nat /\ MaxSize \in Nat /\ elements \in Seq(Values) /\ Len(elements) = size
        /\ \A i \in 1 .. size : elements[i] \in Values
    BY SizeType, ElementsAt, ElementOfSeq DEF ContainerIInv
  <1>4. s \in Seq(Values) /\ d \in Seq(Values) /\ l \in Nat /\ m \in Nat
    BY <1>2, LenProperties DEF CallType, IsPut
  <1>5. /\ size + n = Total(c, s) /\ Total(c, s) <= MaxSize /\ n <= m
        /\ c.op # "insert" =>
             /\ n = Len(plan)
             /\ \/ side = "construct_end" /\ Where(c) = Len(Kept(c, s))
                \/ side = "construct_begin" /\ c.op = "push" /\ c.pos = 0
        /\ c.op = "push" => m = 1
    BY <1>1, <1>2 DEF Fills
  <1>6. Len(plan) \in Nat /\ Len(plan) # 0 /\ n \in Nat
    BY EmptySeq, LenProperties
  <1>7. A!Fits(c, s)
    BY <1>5, PutLengths DEF A!Fits
  <1>8. c.op # "insert" => \A x \in 0 .. size - 1 : elements[x + 1] = Put(c, s, x + o + 1)
    <2>1. ASSUME c.op # "insert"
          PROVE  ElementsFound(c, s, o)
      <3>1. n \in Nat /\ o = IF side = "construct_end" THEN 0 ELSE n
        BY <1>2, <1>6
      <3>2. QED
        BY <1>1, <2>1, <3>1, NotYetPut
    <2>2. QED
      BY <2>1 DEF ElementsFound
  <1>9. CASE c.op = "insert"
    <2>1. Total(c, s) = l + m
      BY <1>2, <1>9 DEF Total, Kept
    <2>2. size \in l .. l + m
      BY <1>3, <1>4, <1>5, <1>6, <2>1
    <2>3. A!SameFirst(s, elements, c.pos) \/ A!SameLast(s, elements, Len(s) - c.pos)
      BY <1>1, <1>6, <1>9, InsertSpares
    <2>4. QED
      BY <1>2, <1>3, <1>7, <1>9, <2>2, <2>3 DEF A!AfterThrow
  <1>10. CASE c.op = "push"
    <2>1. Total(c, s) = l + m /\ Kept(c, s) = s /\ Where(c) = c.pos
      BY <1>2, <1>10 DEF Total, Kept, Where
    <2>2. n = 1 /\ m = 1 /\ size = l
      BY <1>3, <1>4, <1>5, <1>6, <1>10, <2>1
    <2>3. ASSUME NEW i \in 1 .. l PROVE elements[i] = s[i]
      <3>1. i - 1 \in 0 .. size - 1 /\ i - 1 + 1 = i /\ i \in Nat
        BY <1>4, <2>2
      <3>2. elements[i] = Put(c, s, i - 1 + o + 1)
        BY <1>8, <1>10, <3>1
      <3>3. CASE side = "construct_end"
        <4>1. i - 1 + o + 1 = i /\ i <= Where(c)
          <5>1. o = 0 /\ Where(c) = l /\ i <= l
            BY <1>2, <1>4, <1>5, <1>10, <2>1, <3>3
          <5>2. QED
            BY <3>1, <5>1
        <4>2. QED
          BY <2>1, <3>2, <4>1 DEF Put
      <3>4. CASE side = "construct_begin"
        <4>1. c.pos = 0 /\ i - 1 + o + 1 = i + 1
          BY <1>2, <1>5, <1>10, <2>2, <3>1, <3>4
        <4>2. ~(i + 1 <= 0) /\ ~(i + 1 <= 0 + 1) /\ i + 1 - 1 = i
          BY <3>1
        <4>3. Where(c) = 0 /\ Len(c.data) = 1
          BY <1>2, <2>1, <2>2, <4>1
        <4>4. Put(c, s, i + 1) = s[i]
          BY <2>1, <4>2, <4>3 DEF Put
        <4>5. QED
          BY <3>2, <4>1, <4>4
      <3>5. QED
        BY <1>1, <3>3, <3>4
    <2>4. elements = s
      BY <1>2, <1>3, <1>4, <2>2, <2>3, SeqEqual
    <2>5. QED
      BY <1>7, <1>10, <2>4 DEF A!AfterThrow
  <1>11. CASE c.op \in {"resize", "assign"}
    <2>1. PICK k, u, h : k = Kept(c, s) /\ u = k \o d /\ h = Len(k)
      OBVIOUS
    <2>2. k \in Seq(Values) /\ h \in Nat
      BY <1>4, <2>1, LenProperties, EmptySeq DEF Kept
    <2>3. /\ u \in Seq(Values) /\ Len(u) = h + m
          /\ \A i \in 1 .. h + m : u[i] = IF i <= h THEN k[i] ELSE d[i - h]
      BY <1>2, <1>4, <2>1, <2>2, ConcatProperties
    <2>4. /\ Total(c, s) = h + m /\ Where(c) = h /\ o = 0
          /\ size + n = h + m /\ h <= size /\ size <= h + m
      <3>1. Total(c, s) = h + m /\ Where(c) = h /\ o = 0
        BY <1>2, <1>5, <1>11, <2>1 DEF Total
      <3>2. QED
        BY <1>3, <1>4, <1>5, <1>6, <2>2, <3>1
    <2>5. ASSUME NEW i \in 1 .. size PROVE elements[i] = u[i]
      <3>1. /\ i - 1 \in 0 .. size - 1 /\ i - 1 + 1 = i /\ i - 1 + 0 + 1 = i
            /\ i \in 1 .. h + m /\ i <= h + m
        BY <1>3, <1>4, <2>2, <2>4
      <3>2. elements[i] = Put(c, s, i)
        BY <1>8, <1>11, <2>4, <3>1
      <3>3. QED
        BY <1>2, <2>1, <2>3, <2>4, <3>1, <3>2 DEF Put
    <2>6. A!IsPrefix(elements, u)
      BY <1>3, <2>3, <2>4, <2>5, PrefixByPlaces
    <2>7. CASE c.op = "resize"
      <3>1. k = s /\ h = l
        BY <1>2, <2>1, <2>7 DEF Kept
      <3>2. \A i \in 1 .. l : s[i] = elements[i]
        <4>1. \A i \in 1 .. l : i \in 1 .. size /\ i \in 1 .. h + m /\ i <= h
          BY <1>3, <1>4, <2>4, <3>1
        <4>2. QED
          BY <2>3, <2>5, <3>1, <4>1
      <3>3. A!IsPrefix(s, elements)
        BY <1>2, <1>3, <1>4, <2>4, <3>1, <3>2, PrefixByPlaces
      <3>4. QED
        BY <1>2, <1>7, <2>1, <2>6, <2>7, <3>1, <3>3 DEF A!AfterThrow
    <2>8. CASE c.op = "assign"
      <3>1. k = <<>>
        BY <2>1, <2>8 DEF Kept
      <3>2. u = d
        BY <1>4, <2>1, <3>1, ConcatEmptySeq
      <3>3. QED
        BY <1>2, <1>7, <2>6, <2>8, <3>2 DEF A!AfterThrow
    <2>9. QED
      BY <1>11, <2>7, <2>8
  <1>12. QED
    BY <1>9, <1>10, <1>11 DEF IsPut

-----------------------------------------------------------------------------
(* Every step is one of BoundedSequence, or changes nothing of it.          *)

\* The sequence and the iterator that a container stands for.
Seen == IF life = "failed" THEN <<>> ELSE IF call = Idle THEN elements ELSE was
Place == IF iter # NoIter /\ call = Idle THEN distance_idx(m_begin, iter) ELSE NoIter

\* An empty container has the empty sequence.
LEMMA NoElements ==
    ASSUME size = 0 PROVE elements = <<>>
  BY DEF elements

\* What CallRight says while a call runs.
LEMMA InCall ==
    ASSUME ContainerIInv, CallRight, call # Idle
    PROVE  /\ life \in {"building", "live"} /\ ret = "none" /\ Seen = was /\ Place = NoIter
           /\ CallType(call, was) /\ PlanRight(todo, call, was, iter)
           /\ life = "building" => call.op = "assign" /\ was = <<>>
  <1>1. life \in {"building", "live"}
    BY DEF ContainerIInv, ContainerTypeOK
  <1>2. QED
    BY <1>1 DEF CallRight, Seen, Place

\* The container begins as an empty sequence.
LEMMA InitMaps == Init => A!Init
  <1> SUFFICES ASSUME Init PROVE A!Init
    OBVIOUS
  <1>1. life = "none" /\ call = Idle /\ ret = "none" /\ iter = NoIter /\ m_begin = 0 /\ m_end = 0
    BY DEF Init
  <1>2. elements = <<>>
    BY <1>1, NoElements DEF size, distance_idx
  <1>3. QED
    BY <1>1, <1>2 DEF A!Init, A!Idle, Idle, A!NoIter, NoIter

\* The beginning of a call is BoundedSequence's.
LEMMA BeginMaps ==
    ASSUME ContainerIInv, CallRight, NEW c, NEW steps, NEW it, Begin(c, steps, it), c # Idle,
           (life = "live" /\ life' = "live") \/ (life = "none" /\ life' = "building")
    PROVE  A!Begin
  <1>1. /\ call = Idle /\ ret = "none" /\ call' = c /\ was' = elements /\ ret' = "none"
    BY DEF Begin
  <1>2. Seen = elements /\ Seen' = elements /\ Place' = NoIter
    BY <1>1 DEF Seen, Place
  <1>3. QED
    BY <1>1, <1>2 DEF A!Begin, Seen, Place, A!Idle, Idle, A!NoIter, NoIter

\* Some call begins.
Begins ==
    /\ \E c, steps, it : Begin(c, steps, it) /\ c # Idle
    /\ (life = "live" /\ life' = "live") \/ (life = "none" /\ life' = "building")

\* Every call that begins is a call of BoundedSequence.
LEMMA CallsMap ==
    ASSUME ContainerIInv, CallRight,
           VectorCalls \/ pop_front \/ \E src \in Sources : push_front(src)
    PROVE  A!Begin
  <1>1. ASSUME NEW op, NEW p, NEW src, NEW steps, NEW it, Live(Begin(Puts(op, p, src), steps, it))
        PROVE  Begins
    <2>1. Puts(op, p, src) # Idle
      BY DEF Puts, Idle
    <2>2. QED
      BY <1>1, <2>1 DEF Begins, Live
  <1>2. ASSUME NEW op, NEW p, NEW q, NEW steps, NEW it, Live(Begin(Erases(op, p, q), steps, it))
        PROVE  Begins
    <2>1. Erases(op, p, q) # Idle
      BY DEF Erases, Idle
    <2>2. QED
      BY <1>2, <2>1 DEF Begins, Live
  <1>3. ASSUME NEW data, construct(data) \/ Live(assign(data)) PROVE Begins
    <2>1. [op |-> "assign", data |-> data] # Idle
      BY DEF Idle
    <2>2. QED
      BY <1>3, <2>1 DEF Begins, Live, construct, assign
  <1>4. ASSUME NEW src, push_back(src) \/ push_front(src) PROVE Begins
    <2>1. CASE push_back(src)
      BY <1>1, <2>1 DEF push_back
    <2>2. CASE push_front(src)
      BY <1>1, <2>2 DEF push_front
    <2>3. QED
      BY <1>4, <2>1, <2>2
  <1>5. ASSUME pop_back \/ pop_front \/ clear PROVE Begins
    BY <1>2, <1>5 DEF pop_back, pop_front, clear
  <1>6. ASSUME NEW n, NEW src, resize(n, src) PROVE Begins
    <2>1. CASE size >= n
      <3>1. Live(Begin(Erases("pop", n, size), <<CutEnd(size - n)>>, NoIter))
        BY <1>6, <2>1 DEF resize, Live
      <3>2. QED
        BY <1>2, <3>1
    <2>2. CASE ~(size >= n)
      <3>1. Live(Begin(Puts("resize", size, Times(n - size, src)),
                       IF MaxSize < n THEN <<Refused>> ELSE Times(n - size, ConstructEnd(src)),
                       NoIter))
        BY <1>6, <2>2 DEF resize, Live
      <3>2. QED
        BY <1>1, <3>1
    <2>3. QED
      BY <2>1, <2>2
  <1>7. ASSUME NEW p, NEW src, insert(p, src) PROVE Begins
    BY <1>1, <1>7 DEF insert
  <1>8. ASSUME NEW p, NEW q, erase(p, q) PROVE Begins
    <2>1. PICK first, last : first = begin_plus(p) /\ last = begin_plus(q)
      OBVIOUS
    <2>2. \/ Live(Begin(Erases("erase", p, q), EraseAtEndSide(first, last), first))
          \/ Live(Begin(Erases("erase", p, q), EraseAtBeginSide(first, last), last))
      BY <1>8, <2>1 DEF erase, Live
    <2>3. QED
      BY <1>2, <2>2
  <1>9. Begins
    <2>1. CASE \E data \in Ranges \cup { Times(n, v) : n \in 0 .. MaxSize + 1, v \in Values } :
                  construct(data) \/ Live(assign(data))
      BY <1>3, <2>1
    <2>2. CASE \E src \in Sources : push_back(src)
      BY <1>4, <2>2
    <2>3. CASE \E src \in Sources : push_front(src)
      BY <1>4, <2>3
    <2>4. CASE pop_back \/ clear \/ pop_front
      BY <1>5, <2>4
    <2>5. CASE \E n \in 0 .. MaxSize + 1, src \in Sources : resize(n, src)
      BY <1>6, <2>5
    <2>6. CASE \E p \in 0 .. size :
        \/ \E n \in 0 .. MaxSize - size + 1, src \in Sources : insert(p, Times(n, src))
        \/ \E data \in Ranges : insert(p, [i \in DOMAIN data |-> Val(data[i])])
      BY <1>7, <2>6
    <2>7. CASE \E p \in 0 .. size - 1, q \in 1 .. size : p < q /\ erase(p, q)
      BY <1>8, <2>7
    <2>8. VectorCalls => Begins
      BY <2>1, <2>2, <2>4, <2>5, <2>6, <2>7 DEF VectorCalls
    <2>9. pop_front => Begins
      BY <2>4
    <2>10. QED
      BY <2>3, <2>8, <2>9
  <1>10. PICK c, steps, it : Begin(c, steps, it) /\ c # Idle
    BY <1>9 DEF Begins
  <1>11. QED
    BY <1>9, <1>10, BeginMaps DEF Begins

\* create and destroy leave an empty sequence.
LEMMA RenewsMap ==
    ASSUME ContainerIInv, CallRight, create \/ destroy PROVE A!Renew
  <1>1. /\ call = Idle /\ ret = "none" /\ call' = Idle /\ ret' = "none" /\ iter' = iter
        /\ life' \in {"none", "live"} /\ m_begin' = 0 /\ m_end' = 0
    BY DEF create, destroy
  <1>2. iter = NoIter
    BY <1>1 DEF CallRight
  <1>3. size' = 0
    BY <1>1 DEF size, distance_idx
  <1>4. elements' = <<>>
    BY <1>3 DEF elements
  <1>5. Seen' = <<>> /\ Place = NoIter /\ Place' = NoIter
    BY <1>1, <1>2, <1>4 DEF Seen, Place
  <1>6. QED
    BY <1>1, <1>5 DEF A!Renew, Seen, Place, A!Idle, Idle

\* A step within a call is not seen.
LEMMA StepMaps ==
    ASSUME ContainerIInv, CallRight, Step PROVE UNCHANGED A!vars
  <1>1. /\ todo # <<>> /\ life' = life /\ call' = call /\ was' = was /\ ret' = ret
        /\ iter' = iter
    BY DEF Step
  <1>2. call # Idle
    BY <1>1 DEF ContainerIInv, ContainerTypeOK
  <1>3. Seen' = Seen /\ Place' = Place
    BY <1>1, <1>2 DEF Seen, Place
  <1>4. QED
    BY <1>1, <1>3 DEF A!vars, Seen, Place

\* A step that changes nothing of the container changes nothing of the sequence.
LEMMA SameMaps ==
    ASSUME UNCHANGED vars PROVE UNCHANGED A!vars
  <1>1. /\ life' = life /\ slots' = slots /\ m_begin' = m_begin /\ m_end' = m_end
        /\ call' = call /\ was' = was /\ ret' = ret /\ iter' = iter
    BY DEF vars
  <1>2. size' = size
    BY <1>1 DEF size
  <1>3. elements' = elements
    BY <1>1, <1>2 DEF elements, begin_plus
  <1>4. Seen' = Seen /\ Place' = Place
    BY <1>1, <1>3 DEF Seen, Place
  <1>5. QED
    BY <1>1, <1>4 DEF A!vars, Seen, Place

\* The caller takes what the call returned.
LEMMA ForgetMaps ==
    ASSUME ContainerIInv, CallRight, Forget PROVE A!Forget
  <1>1. /\ ret # "none" /\ ret' = "none" /\ iter' = NoIter
        /\ life' = life /\ slots' = slots /\ m_begin' = m_begin /\ m_end' = m_end
        /\ call' = call /\ was' = was
    BY DEF Forget
  <1>2. call = Idle
    BY <1>1 DEF CallRight
  <1>3. size' = size
    BY <1>1 DEF size
  <1>4. elements' = elements
    BY <1>1, <1>3 DEF elements, begin_plus
  <1>5. Seen' = Seen /\ Place' = NoIter
    BY <1>1, <1>4 DEF Seen, Place
  <1>6. QED
    BY <1>1, <1>2, <1>5 DEF A!Forget, Seen, Place, A!Idle, Idle, A!NoIter, NoIter

\* However a call ends, the memory is as it was.
LEMMA Ended ==
    ASSUME NEW how, NEW it, NEW alive, End(how, it, alive)
    PROVE  /\ call' = Idle /\ ret' = how /\ iter' = it /\ elements' = elements
           /\ m_begin' = m_begin
           /\ life' = IF life = "building" THEN alive ELSE life
           /\ life' = "failed" => Seen' = <<>>
           /\ life' # "failed" => Seen' = elements
           /\ Place' = IF it # NoIter THEN distance_idx(m_begin, it) ELSE NoIter
  <1>1. /\ call' = Idle /\ ret' = how /\ iter' = it
        /\ slots' = slots /\ m_begin' = m_begin /\ m_end' = m_end
        /\ life' = IF life = "building" THEN alive ELSE life
    BY DEF End
  <1>2. size' = size
    BY <1>1 DEF size
  <1>3. elements' = elements
    BY <1>1, <1>2 DEF elements, begin_plus
  <1>4. QED
    BY <1>1, <1>3 DEF Seen, Place

\* assign() of which no step is done: the container's elements are still there.
LEMMA RefillsFirst ==
    ASSUME NEW plan, NEW c, NEW s, NEW it, CallType(c, s), Refills(plan, c, it)
    PROVE  plan # <<>> /\ plan[1] = CutEnd(size) /\ plan # <<Refused>> /\ Head(plan) = plan[1]
  <1> DEFINE X == [i \in DOMAIN c.data |-> ConstructEnd(Val(c.data[i]))]
  <1>1. PICK n : n = Len(c.data)
    OBVIOUS
  <1>2. plan = <<CutEnd(size)>> \o X /\ c.data \in Seq(Values)
    BY DEF Refills, CallType
  <1>3. n \in Nat /\ DOMAIN c.data = 1 .. n
    BY <1>1, <1>2, LenProperties
  <1>4. PICK S : S = {CutEnd(size)} \cup { ConstructEnd(Val(v)) : v \in Values }
    OBVIOUS
  <1>5. X \in Seq(S) /\ Len(X) = n /\ <<CutEnd(size)>> \in Seq(S) /\ Len(<<CutEnd(size)>>) = 1
    <2>1. \A i \in 1 .. n : c.data[i] \in Values
      BY <1>1, <1>2, ElementOfSeq
    <2>2. \A i \in 1 .. n : ConstructEnd(Val(c.data[i])) \in S
      BY <1>4, <2>1
    <2>3. QED
      BY <1>3, <1>4, <2>2
  <1> HIDE DEF X
  <1>6. plan \in Seq(S) /\ Len(plan) = 1 + n /\ plan[1] = CutEnd(size)
    <2>1. PICK Y : Y = <<CutEnd(size)>>
      OBVIOUS
    <2>2. Y \in Seq(S) /\ Len(Y) = 1 /\ Y[1] = CutEnd(size) /\ plan = Y \o X
      BY <1>2, <1>5, <2>1
    <2>3. /\ Y \o X \in Seq(S) /\ Len(Y \o X) = Len(Y) + Len(X)
          /\ \A i \in 1 .. Len(Y) + Len(X) : (Y \o X)[i] = IF i <= Len(Y) THEN Y[i]
                                                        ELSE X[i - Len(Y)]
      BY <1>5, <2>2, ConcatProperties
    <2>4. 1 \in 1 .. Len(Y) + Len(X) /\ 1 <= Len(Y)
      BY <1>3, <1>5, <2>2
    <2>5. QED
      BY <1>5, <2>2, <2>3, <2>4
  <1>7. plan # <<>> /\ Head(plan) = plan[1]
    BY <1>3, <1>6
  <1>8. CutEnd(size) # Refused
    BY DEF CutEnd, Refused
  <1>9. plan # <<Refused>>
    BY <1>6, <1>8
  <1>10. QED
    BY <1>6, <1>7, <1>9

\* A call that returns has left what BoundedSequence says, and its iterator.
LEMMA ReturnMaps ==
    ASSUME ContainerIInv, CallRight, Return PROVE A!Return
  <1>1. call # Idle /\ todo = <<>> /\ End("returned", iter, "live")
    BY DEF Return
  <1>2. /\ life \in {"building", "live"} /\ Seen = was /\ CallType(call, was)
        /\ PlanRight(<<>>, call, was, iter)
    BY <1>1, InCall
  <1>3. /\ call' = Idle /\ ret' = "returned"
        /\ life' # "failed" => Seen' = elements
        /\ life' = IF life = "building" THEN "live" ELSE life
        /\ Place' = IF iter # NoIter THEN distance_idx(m_begin, iter) ELSE NoIter
    BY <1>1, Ended
  <1>4. Seen' = elements
    BY <1>2, <1>3
  <1>5. \A i \in Slots : i # NoIter
    BY ContainersAssumption DEF Slots, NoIter
  <1>6. /\ elements \in A!After(call, was) /\ A!Fits(call, was)
        /\ Place' = IF call.op \in {"insert", "erase"} THEN call.pos ELSE NoIter
    <2>1. PICK none, c, s, it : none = <<>> /\ c = call /\ s = was /\ it = iter
      OBVIOUS
    <2>2. none \in Seq(Steps) /\ Len(none) = 0
      BY <2>1
    <2>3. CASE IsPut(c) /\ PutsRight(none, c, s, it)
      <3>1. /\ elements \in A!After(c, s) /\ A!Fits(c, s)
            /\ c.op = "insert" => it \in Slots /\ distance_idx(m_begin, it) = c.pos
            /\ c.op # "insert" => it = NoIter
        BY <1>2, <2>1, <2>3, HasPut
      <3>2. c.op # "erase"
        BY <2>3 DEF IsPut
      <3>3. QED
        BY <1>3, <1>5, <2>1, <3>1, <3>2
    <2>4. CASE c.op \in {"pop", "erase"} /\ HasClosed(none, c, s, it)
      <3>1. /\ size = Len(s) - (c.upto - c.pos)
            /\ \A p \in 1 .. size : elements[p] = Closed(c, s, p)
            /\ IF c.op = "pop" THEN it = NoIter
               ELSE it \in Slots /\ distance_idx(m_begin, it) = c.pos
        BY <2>4 DEF HasClosed
      <3>2. elements \in Seq(Values) /\ Len(elements) = size
        BY <1>2, ElementsAt DEF ContainerIInv
      <3>3. elements \in A!After(c, s) /\ A!Fits(c, s)
        BY <1>2, <2>1, <2>4, <3>1, <3>2, ClosedAre
      <3>4. QED
        BY <1>3, <1>5, <2>1, <2>4, <3>1, <3>3
    <2>5. none # <<Refused>> /\ ~Refills(none, c, it) /\ ~Closes(none, c, s, it)
      BY <1>2, <2>1, RefillsFirst DEF Closes
    <2>6. QED
      BY <1>2, <2>1, <2>3, <2>4, <2>5 DEF PlanRight
  <1>7. QED
    BY <1>1, <1>2, <1>3, <1>4, <1>6 DEF A!Return, Seen, Place, A!Idle, Idle, A!NoIter, NoIter

\* A call that was refused had not begun.
LEMMA RefuseMaps ==
    ASSUME ContainerIInv, CallRight, Refuse PROVE A!Refuse
  <1>1. todo = <<Refused>> /\ End("BadAlloc", NoIter, "failed")
    BY DEF Refuse
  <1>2. call # Idle
    BY <1>1 DEF ContainerIInv, ContainerTypeOK
  <1>3. /\ life \in {"building", "live"} /\ Seen = was /\ CallType(call, was) /\ Place = NoIter
        /\ PlanRight(todo, call, was, iter) /\ (life = "building" => was = <<>>)
    BY <1>2, InCall
  <1>4. /\ call' = Idle /\ ret' = "BadAlloc" /\ Place' = NoIter
        /\ life' = "failed" => Seen' = <<>>
        /\ life' # "failed" => Seen' = elements
        /\ life' = IF life = "building" THEN "failed" ELSE life
    BY <1>1, Ended
  <1>5. IsPut(call) /\ Total(call, was) > MaxSize /\ was = elements
    <2>1. PICK plan, c, s, it : plan = todo /\ c = call /\ s = was /\ it = iter
      OBVIOUS
    <2>2. /\ plan # <<>> /\ Len(plan) = 1 /\ plan[1] = Refused
          /\ Refused.do \notin {"construct_end", "construct_begin", "assign",
                                "cut_end", "cut_begin"}
      BY <1>1, <2>1 DEF Refused
    <2>3. ~PutsRight(plan, c, s, it)
      <3>1. ASSUME NEW n \in 0 .. Len(plan), NEW side \in {"construct_end", "construct_begin"},
                   Fills(plan, n, side, c, s, it)
            PROVE  FALSE
        <4>1. 1 \in 1 .. n \/ 1 \in n + 1 .. Len(plan)
          BY <2>2
        <4>2. QED
          BY <2>2, <3>1, <4>1 DEF Fills
      <3>2. QED
        BY <3>1 DEF PutsRight
    <2>4. ~Refills(plan, c, it)
      BY <1>1, <1>3, <2>1, RefillsFirst
    <2>5. ~Closes(plan, c, s, it) /\ ~HasClosed(plan, c, s, it)
      BY <2>2 DEF Closes, HasClosed
    <2>6. QED
      BY <1>3, <2>1, <2>3, <2>4, <2>5 DEF PlanRight
  <1>6. ~A!Fits(call, was)
    <2>1. PICK t : t \in A!After(call, was)
      BY <1>3, <1>5, PutLengths
    <2>2. Len(t) = Total(call, was)
      BY <1>3, <1>5, <2>1, PutLengths
    <2>3. Total(call, was) \in Nat
      <3>1. was \in Seq(Values) /\ call.data \in Seq(Values)
        BY <1>3, <1>5 DEF CallType, IsPut
      <3>2. Kept(call, was) \in Seq(Values)
        BY <3>1, EmptySeq DEF Kept
      <3>3. Len(call.data) \in Nat /\ Len(Kept(call, was)) \in Nat
        BY <3>1, <3>2, LenProperties
      <3>4. QED
        BY <3>3 DEF Total
    <2>4. ~(Len(t) <= MaxSize)
      BY <1>5, <2>2, <2>3, ContainersAssumption
    <2>5. QED
      BY <2>1, <2>4 DEF A!Fits
  <1>7. Seen' = was
    BY <1>3, <1>4, <1>5
  <1>8. QED
    BY <1>2, <1>3, <1>4, <1>6, <1>7 DEF A!Refuse, Seen, Place, A!Idle, Idle

\* A call that a constructor or an assignment ends with an exception.
LEMMA ThrowMaps ==
    ASSUME ContainerIInv, CallRight, Throw PROVE A!Throw
  <1>1. /\ todo # <<>> /\ Head(todo).do \in {"construct_end", "construct_begin", "assign"}
        /\ End("thrown", NoIter, "failed")
    BY DEF Throw
  <1>2. call # Idle /\ todo \in Seq(Steps)
    BY <1>1 DEF ContainerIInv, ContainerTypeOK
  <1>3. /\ life \in {"building", "live"} /\ Seen = was /\ CallType(call, was) /\ Place = NoIter
        /\ PlanRight(todo, call, was, iter)
        /\ life = "building" => call.op = "assign" /\ was = <<>>
    BY <1>2, InCall
  <1>4. /\ call' = Idle /\ ret' = "thrown" /\ Place' = NoIter
        /\ life' = "failed" => Seen' = <<>>
        /\ life' # "failed" => Seen' = elements
        /\ life' = IF life = "building" THEN "failed" ELSE life
    BY <1>1, Ended
  <1>5. A!Fits(call, was) /\ A!AfterThrow(call, was, Seen')
    <2>1. PICK plan, c, s, it : plan = todo /\ c = call /\ s = was /\ it = iter
      OBVIOUS
    <2>2. plan \in Seq(Steps) /\ Len(plan) \in Nat /\ Len(plan) >= 1 /\ Head(plan) = plan[1]
      BY <1>1, <1>2, <2>1, LenProperties, EmptySeq
    <2>3. CASE IsPut(c) /\ PutsRight(plan, c, s, it)
      <3>1. A!Fits(c, s) /\ A!AfterThrow(c, s, elements)
        BY <1>1, <1>2, <1>3, <2>1, <2>3, ThrownPut
      <3>2. CASE life = "live"
        BY <1>3, <1>4, <2>1, <3>1, <3>2
      <3>3. CASE life = "building"
        <4>1. PICK none : none = <<>>
          OBVIOUS
        <4>2. Seen' = none /\ c.op = "assign" /\ s = none /\ c.data \in Seq(Values)
          BY <1>3, <1>4, <2>1, <3>3, <4>1 DEF CallType
        <4>3. none \in Seq(Values) /\ Len(none) = 0 /\ Len(c.data) \in Nat
          BY <4>1, <4>2, EmptySeq, LenProperties
        <4>4. A!IsPrefix(none, c.data)
          <5>1. Len(none) <= Len(c.data) /\ \A i \in 1 .. Len(none) : none[i] = c.data[i]
            BY <4>3
          <5>2. QED
            BY <4>2, <4>3, <5>1, PrefixByPlaces
        <4>5. A!AfterThrow(c, s, none)
          BY <4>2, <4>4 DEF A!AfterThrow
        <4>6. QED
          BY <2>1, <3>1, <4>2, <4>5
      <3>4. QED
        BY <1>3, <3>2, <3>3
    <2>4. CASE c.op \in {"pop", "erase"} /\ Closes(plan, c, s, it)
      <3>1. /\ size = Len(s) /\ plan[Len(plan)].do \in {"cut_end", "cut_begin"}
            /\ c.op = "pop" => Len(plan) - 1 = 0
        BY <2>4 DEF Closes
      <3>2. c.op = "erase"
        BY <1>1, <2>1, <2>2, <2>4, <3>1
      <3>3. life = "live" /\ Seen' = elements
        BY <1>3, <1>4, <2>1, <3>2
      <3>4. elements \in Seq(Values) /\ Len(elements) = size
        BY <3>3, ElementsAt DEF ContainerIInv
      <3>5. A!SameFirst(s, elements, c.pos) \/ A!SameLast(s, elements, Len(s) - c.upto)
        BY <1>3, <2>1, <2>4, <3>2, <3>3, EraseSpares
      <3>6. A!AfterThrow(c, s, elements)
        BY <3>1, <3>2, <3>4, <3>5 DEF A!AfterThrow
      <3>7. A!Fits(c, s)
        BY <1>3, <2>1, <3>2, ClosedAre
      <3>8. QED
        BY <2>1, <3>3, <3>6, <3>7
    <2>5. plan # <<Refused>> /\ ~HasClosed(plan, c, s, it) /\ ~Refills(plan, c, it)
      <3>1. plan # <<Refused>>
        BY <1>1, <2>1, <2>2 DEF Refused
      <3>2. ~HasClosed(plan, c, s, it)
        BY <1>1, <2>1 DEF HasClosed
      <3>3. ASSUME Refills(plan, c, it) PROVE FALSE
        <4>1. plan[1] = CutEnd(size)
          BY <1>3, <2>1, <3>3, RefillsFirst
        <4>2. CutEnd(size).do = "cut_end"
          BY DEF CutEnd
        <4>3. QED
          BY <1>1, <2>1, <2>2, <4>1, <4>2
      <3>4. QED
        BY <3>1, <3>2, <3>3
    <2>6. QED
      BY <1>3, <2>1, <2>3, <2>4, <2>5 DEF PlanRight
  <1>6. QED
    BY <1>2, <1>3, <1>4, <1>5 DEF A!Throw, Seen, Place, A!Idle, Idle

\* A deque or a vector is, to its caller, a bounded sequence, whatever its capacity, its
\* elements and the calls (the elements that assign() takes come from elsewhere), and
\* wherever the copy of an element throws.
THEOREM ContainerRefinement == Spec => IsBoundedSequence
  <1>1. Init => A!Init
    BY InitMaps
  <1>2. ASSUME ContainerIInv, CallRight, [Next]_vars PROVE [A!Next]_(A!vars)
    <2>1. CASE VectorCalls \/ pop_front \/ \E src \in Sources : push_front(src)
      BY <1>2, <2>1, CallsMap DEF A!Next
    <2>2. CASE create \/ destroy
      BY <1>2, <2>2, RenewsMap DEF A!Next
    <2>3. CASE Step
      BY <1>2, <2>3, StepMaps
    <2>4. CASE Return
      BY <1>2, <2>4, ReturnMaps DEF A!Next
    <2>5. CASE Refuse
      BY <1>2, <2>5, RefuseMaps DEF A!Next
    <2>6. CASE Throw
      BY <1>2, <2>6, ThrowMaps DEF A!Next
    <2>7. CASE Forget
      BY <1>2, <2>7, ForgetMaps DEF A!Next
    <2>8. CASE UNCHANGED vars
      BY <2>8, SameMaps
    <2>9. QED
      BY <1>2, <2>1, <2>2, <2>3, <2>4, <2>5, <2>6, <2>7, <2>8 DEF Next
  <1>3. QED
    BY <1>1, <1>2, ContainerInvariance, CallInvariance, PTL
       DEF Spec, IsBoundedSequence, A!Spec
=============================================================================
