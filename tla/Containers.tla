----------------------------- MODULE Containers -----------------------------
(***************************************************************************)
(* The deques and vectors of fixed capacity: FixedDeque, FixedVector,      *)
(* PreallocatedDeque and PreallocatedVector.  They construct and destroy   *)
(* elements in raw slots.  A call is modelled as the list of what it does  *)
(* to elements, one after the other, since the copy of an element may      *)
(* throw an exception between any two of them.                             *)
(*                                                                         *)
(* A vector is a deque whose m_begin is always 0, which works at its end.  *)
(* It has no use for the spare slot, which stands for the memory behind    *)
(* its buffer (ElementSafe).                                               *)
(***************************************************************************)
EXTENDS Integers, Sequences, SequencesExt

CONSTANTS
    Kinds,      \* the classes that are checked, of "deque" and "vector"
    Values,     \* the values of the element type T
    Default,    \* T()
    MaxSize,    \* the capacity
    Ranges      \* what a range of iterators given to a call may hold

Raw == "raw"        \* memory without an object

ASSUME ContainersAssumption ==
    /\ Kinds \subseteq {"deque", "vector"}
    /\ Default \in Values /\ Raw \notin Values
    /\ MaxSize \in Nat
    /\ Ranges \subseteq Seq(Values)

VARIABLES
    kind,       \* the class of the object
    life,       \* "none", "building" (in a constructor), "live" or "failed"
    slots,      \* m_buf: a value, or Raw
    m_begin,
    m_end,
    todo,       \* what the call in progress still does
    call,       \* the call in progress, as in BoundedSequence
    was,        \* the elements when it began
    ret,        \* how the last call ended
    iter        \* the iterator that it returns

vars == <<kind, life, slots, m_begin, m_end, todo, call, was, ret, iter>>

BufSize == MaxSize + 1
Slots == 0 .. MaxSize
Idle == [op |-> "idle"]
NoIter == -1

-----------------------------------------------------------------------------
(* Indices of slots; an iterator is one.                                   *)

next_idx(idx, un) == IF idx + un < BufSize THEN idx + un ELSE idx + un - BufSize
prev_idx(idx, un) == IF idx >= un THEN idx - un ELSE BufSize + idx - un
distance_idx(first, last) ==
    IF first <= last THEN last - first ELSE BufSize - first + last

size == distance_idx(m_begin, m_end)

\* The arithmetic of iterators.
plus(i, n) == IF n < 0 THEN prev_idx(i, -n) ELSE next_idx(i, n)
minus(i, j) ==
    LET idx(k) == distance_idx(m_begin, k) IN
    IF idx(i) >= idx(j) THEN distance_idx(j, i) ELSE -distance_idx(i, j)

begin_plus(n) == plus(m_begin, n)
elements == [p \in 1 .. size |-> slots[begin_plus(p - 1)]]

-----------------------------------------------------------------------------
(* What a call does to elements.  The source of a copy is a value or the   *)
(* slot of an element.                                                     *)

Val(v) == <<"value", v>>
At(i) == <<"slot", i>>
Read(src) == IF src[1] = "slot" THEN slots[src[2]] ELSE src[2]
Sources == { Val(v) : v \in Values } \cup { At(begin_plus(p)) : p \in 0 .. size - 1 }

ConstructEnd(src) == [do |-> "construct_end", src |-> src]
ConstructBegin(src) == [do |-> "construct_begin", src |-> src]
Assign(i, src) == [do |-> "assign", at |-> i, src |-> src]
CutEnd(n) == [do |-> "cut_end", n |-> n]
CutBegin(n) == [do |-> "cut_begin", n |-> n]
Refused == [do |-> "BadAlloc"]

Times(n, step) == [i \in 1 .. n |-> step]

\* Insert src before pos by moving the elements from pos on.
InsertAtEndSide(pos, src) ==
    LET n == Len(src)
        k == minus(m_end, pos)      \* num_elems_pos_to_end
    IN  IF k > n
        THEN Times(n, ConstructEnd(Val(Default)))
             \o [i \in 1 .. k |-> Assign(plus(plus(m_end, -i), n), At(plus(m_end, -i)))]
             \o [i \in 1 .. n |-> Assign(plus(pos, i - 1), src[i])]
        ELSE [i \in 1 .. n - k |-> ConstructEnd(src[k + i])]
             \o [i \in 1 .. k |-> ConstructEnd(At(plus(pos, i - 1)))]
             \o [i \in 1 .. k |-> Assign(plus(pos, i - 1), src[i])]

\* Insert src before pos by moving the elements before pos.
InsertAtBeginSide(pos, src) ==
    LET n == Len(src)
        k == minus(pos, m_begin)    \* num_elems_beg_to_pos
    IN  IF k > n
        THEN Times(n, ConstructBegin(Val(Default)))
             \o [i \in 1 .. k |-> Assign(plus(begin_plus(i - 1), -n), At(begin_plus(i - 1)))]
             \o [i \in 1 .. n |-> Assign(plus(plus(pos, -n), i - 1), src[i])]
        ELSE [i \in 1 .. n - k |-> ConstructBegin(src[n - k + 1 - i])]
             \o [i \in 1 .. k |-> ConstructBegin(At(plus(pos, -i)))]
             \o [i \in 1 .. k |-> Assign(begin_plus(i - 1), src[n - k + i])]

MovesEndSide(pos) == kind = "vector" \/ size \div 2 < minus(pos, m_begin)

\* Erase [first, last) by moving what follows down, or what precedes up.
EraseAtEndSide(first, last) ==
    LET n == minus(last, first) IN
    [i \in 1 .. minus(m_end, last) |->
        Assign(plus(plus(last, i - 1), -n), At(plus(last, i - 1)))]
    \o <<CutEnd(n)>>

\* A plausible mistake: the elements are moved from the first to the last, over
\* those that are still to be moved.
EraseAtBeginSide_forwards(first, last) ==
    [i \in 1 .. minus(first, m_begin) |->
        Assign(plus(begin_plus(i - 1), minus(last, first)), At(begin_plus(i - 1)))]
    \o <<CutBegin(minus(last, first))>>

EraseAtBeginSide(first, last) ==
    LET n == minus(last, first) IN
    [i \in 1 .. minus(first, m_begin) |->
        Assign(plus(plus(first, -i), n), At(plus(first, -i)))]
    \o <<CutBegin(n)>>

ErasesEndSide(first, last) ==
    kind = "vector" \/ minus(first, m_begin) >= minus(m_end, last)

-----------------------------------------------------------------------------
(* Calls.  Where the code throws BadAlloc before anything else, the call   *)
(* is nothing but Refused.                                                 *)

\* A plausible mistake: the spare slot counts as room.
IfRoom_with_spare(n, steps) == IF BufSize - size < n THEN <<Refused>> ELSE steps

IfRoom(n, steps) == IF MaxSize - size < n THEN <<Refused>> ELSE steps

Begin(c, steps, it) ==
    /\ call = Idle /\ ret = "none"
    /\ call' = c
    /\ todo' = steps
    /\ was' = elements
    /\ iter' = it
    /\ UNCHANGED <<kind, slots, m_begin, m_end, ret>>

\* The record of a call that puts src between the first pos elements and the rest.
Puts(op, pos, src) ==
    [op |-> op, pos |-> pos, data |-> [i \in DOMAIN src |-> Read(src[i])],
     aliased |-> op = "insert" /\ \E i \in DOMAIN src : src[i][1] = "slot"]

Erases(op, pos, upto) == [op |-> op, pos |-> pos, upto |-> upto]

Live(Call) == life = "live" /\ Call /\ UNCHANGED life

push_back(src) ==
    Live(Begin(Puts("push", size, <<src>>), IfRoom(1, <<ConstructEnd(src)>>), NoIter))

push_front(src) ==
    /\ kind = "deque"
    /\ Live(Begin(Puts("push", 0, <<src>>), IfRoom(1, <<ConstructBegin(src)>>), NoIter))

pop_back ==
    size > 0 /\ Live(Begin(Erases("pop", size - 1, size), <<CutEnd(1)>>, NoIter))

pop_front ==
    /\ kind = "deque" /\ size > 0
    /\ Live(Begin(Erases("pop", 0, 1), <<CutBegin(1)>>, NoIter))

clear == Live(Begin(Erases("pop", 0, size), <<CutEnd(size)>>, NoIter))

resize(n, src) ==
    Live(IF size >= n
         THEN Begin(Erases("pop", n, size), <<CutEnd(size - n)>>, NoIter)
         ELSE Begin(Puts("resize", size, Times(n - size, src)),
                    IF MaxSize < n THEN <<Refused>> ELSE Times(n - size, ConstructEnd(src)),
                    NoIter))

\* assign(), operator=() and the constructors that take elements, which call it. The
\* elements come from elsewhere: assign() clears the container before it reads its source
\* (PreallocatedDeque.h:464), and as in the STL that must not be one of its own elements.
assign(data) ==
    Begin([op |-> "assign", data |-> data],
          IF MaxSize < Len(data) THEN <<Refused>>
          ELSE <<CutEnd(size)>> \o [i \in DOMAIN data |-> ConstructEnd(Val(data[i]))],
          NoIter)

insert(p, src) ==
    LET pos == begin_plus(p) IN
    Live(Begin(Puts("insert", p, src),
               IfRoom(Len(src), IF MovesEndSide(pos) THEN InsertAtEndSide(pos, src)
                                ELSE InsertAtBeginSide(pos, src)),
               IF MovesEndSide(pos) THEN pos ELSE plus(pos, -Len(src))))

erase(p, q) ==
    LET first == begin_plus(p)
        last == begin_plus(q)
    IN  Live(IF ErasesEndSide(first, last)
             THEN Begin(Erases("erase", p, q), EraseAtEndSide(first, last), first)
             ELSE Begin(Erases("erase", p, q), EraseAtBeginSide(first, last), last))

-----------------------------------------------------------------------------
(* The life of an object, and what its calls do.                           *)

\* The default constructor, with init() of a preallocated container. Memory in
\* which a constructor failed is not used again.
create ==
    /\ life \in {"none", "failed"} /\ call = Idle /\ ret = "none"
    /\ life' = "live"
    /\ slots' = IF life = "failed" THEN [i \in Slots |-> Raw] ELSE slots
    /\ m_begin' = 0 /\ m_end' = 0
    /\ UNCHANGED <<kind, todo, call, was, ret, iter>>

\* A constructor with elements.
construct(data) ==
    /\ life = "none" /\ size = 0
    /\ life' = "building"
    /\ assign(data)

\* The destructor.
destroy ==
    /\ life = "live" /\ call = Idle /\ ret = "none"
    /\ life' = "none"
    /\ slots' = [i \in Slots |-> IF distance_idx(m_begin, i) < size THEN Raw ELSE slots[i]]
    /\ m_begin' = 0 /\ m_end' = 0
    /\ UNCHANGED <<kind, todo, call, was, ret, iter>>

\* One construction, copy or destruction of elements.
Step ==
    /\ todo # <<>> /\ Head(todo) # Refused
    /\ LET s == Head(todo) IN
        \/ /\ s.do = "construct_end"
           /\ slots' = [slots EXCEPT ![m_end] = Read(s.src)]
           /\ m_end' = next_idx(m_end, 1)
           /\ UNCHANGED m_begin
        \/ /\ s.do = "construct_begin"
           /\ slots' = [slots EXCEPT ![prev_idx(m_begin, 1)] = Read(s.src)]
           /\ m_begin' = prev_idx(m_begin, 1)
           /\ UNCHANGED m_end
        \/ /\ s.do = "assign"
           /\ slots' = [slots EXCEPT ![s.at] = Read(s.src)]
           /\ UNCHANGED <<m_begin, m_end>>
        \/ /\ s.do = "cut_end"
           /\ slots' = [i \in Slots |->
                IF distance_idx(m_begin, i) \in size - s.n .. size - 1 THEN Raw ELSE slots[i]]
           /\ m_end' = prev_idx(m_end, s.n)
           /\ UNCHANGED m_begin
        \/ /\ s.do = "cut_begin"
           /\ slots' = [i \in Slots |->
                IF distance_idx(m_begin, i) < s.n THEN Raw ELSE slots[i]]
           /\ m_begin' = next_idx(m_begin, s.n)
           /\ UNCHANGED m_end
    /\ todo' = Tail(todo)
    /\ UNCHANGED <<kind, life, call, was, ret, iter>>

End(how, it, alive) ==
    /\ ret' = how /\ iter' = it
    /\ life' = IF life = "building" THEN alive ELSE life
    /\ call' = Idle /\ todo' = <<>> /\ was' = <<>>
    /\ UNCHANGED <<kind, slots, m_begin, m_end>>

Return == call # Idle /\ todo = <<>> /\ End("returned", iter, "live")

Refuse == todo = <<Refused>> /\ End("BadAlloc", NoIter, "failed")

\* The copy of an element throws, and leaves the element as it was.
Throw ==
    /\ todo # <<>> /\ Head(todo).do \in {"construct_end", "construct_begin", "assign"}
    /\ End("thrown", NoIter, "failed")

Forget ==
    /\ ret # "none"
    /\ ret' = "none" /\ iter' = NoIter
    /\ UNCHANGED <<kind, life, slots, m_begin, m_end, todo, call, was>>

-----------------------------------------------------------------------------

Init ==
    /\ kind \in Kinds
    /\ life = "none"
    /\ slots = [i \in Slots |-> Raw]
    /\ m_begin = 0 /\ m_end = 0
    /\ todo = <<>> /\ call = Idle /\ was = <<>> /\ ret = "none" /\ iter = NoIter

\* The calls that a vector has too.
VectorCalls ==
    \/ \E data \in Ranges \cup { Times(n, v) : n \in 0 .. MaxSize + 1, v \in Values } :
            construct(data) \/ Live(assign(data))
    \/ \E src \in Sources : push_back(src)
    \/ pop_back \/ clear
    \/ \E n \in 0 .. MaxSize + 1, src \in Sources : resize(n, src)
    \/ \E p \in 0 .. size :
        \/ \E n \in 0 .. MaxSize - size + 1, src \in Sources : insert(p, Times(n, src))
        \/ \E data \in Ranges : insert(p, [i \in DOMAIN data |-> Val(data[i])])
    \/ \E p \in 0 .. size - 1, q \in 1 .. size : p < q /\ erase(p, q)

Next ==
    \/ create \/ destroy
    \/ VectorCalls
    \/ pop_front \/ \E src \in Sources : push_front(src)
    \/ Step \/ Return \/ Refuse \/ Throw \/ Forget

Spec == Init /\ [][Next]_vars

-----------------------------------------------------------------------------
(* Properties.                                                             *)

\* A container is a sequence of at most MaxSize elements, whichever end it
\* moves and wherever its indices wrap, and a call left by an exception leaves
\* what it promises (the interface of PreallocatedDeque.h and its relatives).
A == INSTANCE BoundedSequence WITH
        seq <- IF life = "failed" THEN <<>> ELSE IF call = Idle THEN elements ELSE was,
        iter <- IF iter # NoIter /\ call = Idle THEN distance_idx(m_begin, iter) ELSE NoIter
IsBoundedSequence == A!Spec

\* The memory of the container holds elements exactly from m_begin to m_end,
\* between any two copies of a call and after one that threw, and none when the
\* object is gone. A constructor that threw leaves those it had made: the
\* destructor is not called for them.
LiveSlots ==
    life # "failed" =>
        \A i \in Slots : slots[i] # Raw <=> distance_idx(m_begin, i) < size

\* No call constructs an element over another, assigns to or reads one that is
\* not there, or uses the memory behind the buffer of a vector or the last free
\* slot of a deque.
ElementSafe ==
    todo # <<>> =>
        LET s == Head(todo) IN
        /\ s.do \in {"construct_end", "construct_begin"} => size < MaxSize
        /\ s.do \in {"construct_end", "construct_begin", "assign"} => Read(s.src) # Raw
        /\ s.do = "assign" => slots[s.at] # Raw
        /\ s.do \in {"cut_end", "cut_begin"} => s.n <= size
        /\ kind = "vector" => m_begin = 0

\* Both: the slots hold elements where the code believes that they do.
SlotsSafe == LiveSlots /\ ElementSafe

\* With the types and LiveSlots, inductive: what a call has still to do is safe from
\* where it is. It grows the container at one end and then assigns to elements that
\* are there by then, or assigns and then cuts, or cuts all and grows; and it reads
\* what is there already. The container is of k elements, the first of them in b.
There(i, b, k) == i \in Slots /\ distance_idx(b, i) < k

Readable(src, b, k) ==
    \/ src[1] = "value" /\ src[2] \in Values
    \/ src[1] = "slot" /\ There(src[2], b, k)

ThereAfter(i, n, side, b, k) ==
    There(i, IF side = "construct_end" THEN b ELSE prev_idx(b, n), k + n)

Grows(plan, n, side, b, k) ==
    /\ k + n <= MaxSize
    /\ \A i \in 1 .. n : plan[i].do = side /\ Readable(plan[i].src, b, k)
    /\ \A i \in n + 1 .. Len(plan) :
        /\ plan[i].do = "assign" /\ Readable(plan[i].src, b, k)
        /\ ThereAfter(plan[i].at, n, side, b, k)

GrowsThenAssigns(plan, b, k) ==
    \E n \in 0 .. Len(plan), side \in {"construct_end", "construct_begin"} :
        Grows(plan, n, side, b, k)

AssignsThenCuts(plan, b, k) ==
    /\ plan # <<>>
    /\ plan[Len(plan)].do \in {"cut_end", "cut_begin"} /\ plan[Len(plan)].n \in 0 .. k
    /\ \A i \in 1 .. Len(plan) - 1 :
        /\ plan[i].do = "assign" /\ Readable(plan[i].src, b, k) /\ There(plan[i].at, b, k)

CutsThenGrows(plan, k) ==
    /\ plan # <<>> /\ Len(plan) <= MaxSize + 1
    /\ plan[1].do = "cut_end" /\ plan[1].n = k
    /\ \A i \in 2 .. Len(plan) :
        /\ plan[i].do = "construct_end"
        /\ plan[i].src[1] = "value" /\ plan[i].src[2] \in Values

PlanSafe(plan, b, k) ==
    \/ plan = <<Refused>>
    \/ GrowsThenAssigns(plan, b, k) \/ AssignsThenCuts(plan, b, k) \/ CutsThenGrows(plan, k)

\* A vector works at its end.
AtEndOnly(plan) ==
    \A i \in 1 .. Len(plan) : plan[i].do \notin {"construct_begin", "cut_begin"}

ReadFrom == ({"value"} \X Values) \cup ({"slot"} \X Slots)
Steps ==
    [do : {"construct_end", "construct_begin"}, src : ReadFrom]
    \cup [do : {"assign"}, at : Slots, src : ReadFrom]
    \cup [do : {"cut_end", "cut_begin"}, n : Slots] \cup {Refused}

ContainerTypeOK ==
    /\ kind \in Kinds
    /\ life \in {"none", "building", "live", "failed"}
    /\ slots \in [Slots -> Values \cup {Raw}]
    /\ m_begin \in Slots /\ m_end \in Slots
    /\ todo \in Seq(Steps)
    /\ kind = "vector" => m_begin = 0 /\ AtEndOnly(todo)
    /\ call = Idle => todo = <<>>
    /\ life \in {"none", "failed"} => call = Idle
    /\ life = "building" => call # Idle
    /\ life = "none" => m_begin = 0 /\ m_end = 0

ContainerIInv == ContainerTypeOK /\ LiveSlots /\ PlanSafe(todo, m_begin, size)
=============================================================================
