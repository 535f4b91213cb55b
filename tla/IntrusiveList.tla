---------------------------- MODULE IntrusiveList ----------------------------
(***************************************************************************)
(* IntrusiveLists of nodes that hold the links themselves.  A list is the  *)
(* ring of its terminator and its nodes; the links of a node that was      *)
(* erased stay as they were.                                               *)
(***************************************************************************)
EXTENDS Naturals, Sequences, SequencesExt

CONSTANTS
    Nodes,      \* the elements
    Lists,      \* the lists, each of them its terminator
    Tmp         \* the terminator of the list that swap() makes

ASSUME ListAssumption == Nodes \cap Lists = {} /\ Tmp \notin Nodes \cup Lists

VARIABLES
    m_nextListNode,
    m_prevListNode,
    contents        \* of each list: the elements that its user has put there

listVars == <<m_nextListNode, m_prevListNode, contents>>

ListNodes == Nodes \cup Lists \cup {Tmp}
links == [next |-> m_nextListNode, prev |-> m_prevListNode]

-----------------------------------------------------------------------------
(* The operations on the links l.                                          *)

Emptied(l, t) == [next |-> [l.next EXCEPT ![t] = t], prev |-> [l.prev EXCEPT ![t] = t]]

Inserted(l, pos, data) ==
    [next |-> [l.next EXCEPT ![data] = pos, ![l.prev[pos]] = data],
     prev |-> [l.prev EXCEPT ![data] = l.prev[pos], ![pos] = data]]

Erased(l, pos) ==
    [next |-> [l.next EXCEPT ![l.prev[pos]] = l.next[pos]],
     prev |-> [l.prev EXCEPT ![l.next[pos]] = l.prev[pos]]]

Spliced(l, pos, first, last) ==
    IF first = last \/ pos = last THEN l
    ELSE [next |-> [l.next EXCEPT ![l.prev[last]] = pos, ![l.prev[first]] = last,
                                  ![l.prev[pos]] = first],
          prev |-> [l.prev EXCEPT ![pos] = l.prev[last], ![last] = l.prev[first],
                                  ![first] = l.prev[pos]]]

\* A plausible mistake: an element is spliced before itself.
SplicedOne_unguarded(l, pos, i) == Spliced(l, pos, i, l.next[i])

SplicedOne(l, pos, i) ==
    IF pos = i \/ pos = l.next[i] THEN l ELSE Spliced(l, pos, i, l.next[i])

SplicedAll(l, pos, x) == IF l.next[x] = x THEN l ELSE Spliced(l, pos, l.next[x], x)

Swapped(l, this, other) ==
    LET l1 == SplicedAll(Emptied(l, Tmp), Tmp, other)
        l2 == SplicedAll(l1, other, this)
    IN  SplicedAll(l2, this, Tmp)

-----------------------------------------------------------------------------
(* Calls.  An iterator is a node; that of position i of the list t is:     *)

Iterator(t, i) == (contents[t] \o <<t>>)[i]

Sets(l) == m_nextListNode' = l.next /\ m_prevListNode' = l.prev

\* insert(), push_back(), push_front() of a node that is in no list.
list_insert(t, i, data) ==
    /\ \A u \in Lists : data \notin ToSet(contents[u])
    /\ Sets(Inserted(links, Iterator(t, i), data))
    /\ contents' = [contents EXCEPT ![t] = InsertAt(@, i, data)]

\* erase(), pop_back(), pop_front().
list_erase(t, i) ==
    /\ Sets(Erased(links, Iterator(t, i)))
    /\ contents' = [contents EXCEPT ![t] = RemoveAt(@, i)]

\* Moves the elements i to j - 1 of x before position p of t.
Moved(t, p, x, i, j) ==
    LET moving == SubSeq(contents[x], i, j - 1)
    IN  IF t # x
        THEN [contents EXCEPT
                ![t] = SubSeq(@, 1, p - 1) \o moving \o SubSeq(@, p, Len(@)),
                ![x] = SubSeq(@, 1, i - 1) \o SubSeq(@, j, Len(@))]
        ELSE [contents EXCEPT ![t] =
                IF p <= i
                THEN SubSeq(@, 1, p - 1) \o moving \o SubSeq(@, p, i - 1) \o SubSeq(@, j, Len(@))
                ELSE SubSeq(@, 1, i - 1) \o SubSeq(@, j, p - 1) \o moving \o SubSeq(@, p, Len(@))]

\* As in the STL, p is not among the elements that move.
list_splice(t, p, x, i, j) ==
    /\ t = x => p \notin i .. j - 1
    /\ Sets(Spliced(links, Iterator(t, p), Iterator(x, i), Iterator(x, j)))
    /\ contents' = Moved(t, p, x, i, j)

list_splice_one(t, p, x, i) ==
    /\ Sets(SplicedOne(links, Iterator(t, p), Iterator(x, i)))
    /\ contents' = IF t = x /\ p = i THEN contents ELSE Moved(t, p, x, i, i + 1)

list_splice_all(t, p, x) ==
    /\ t # x
    /\ Sets(SplicedAll(links, Iterator(t, p), x))
    /\ contents' = Moved(t, p, x, 1, Len(contents[x]) + 1)

list_swap(t, x) ==
    /\ t # x
    /\ Sets(Swapped(links, t, x))
    /\ contents' = [contents EXCEPT ![t] = contents[x], ![x] = contents[t]]

ListInit ==
    /\ m_nextListNode = [n \in ListNodes |-> IF n \in Nodes THEN "null" ELSE n]
    /\ m_prevListNode = m_nextListNode
    /\ contents = [t \in Lists |-> <<>>]

Ends(t) == 1 .. Len(contents[t]) + 1
Positions(t) == 1 .. Len(contents[t])

ListNext ==
    \E t \in Lists :
        \/ \E p \in Ends(t), data \in Nodes : list_insert(t, p, data)
        \/ \E i \in Positions(t) : list_erase(t, i)
        \/ \E x \in Lists :
            \/ \E p \in Ends(t), i \in Positions(x) :
                \/ \E j \in i .. Len(contents[x]) + 1 : list_splice(t, p, x, i, j)
                \/ list_splice_one(t, p, x, i)
            \/ \E p \in Ends(t) : list_splice_all(t, p, x)
            \/ list_swap(t, x)

ListSpec == ListInit /\ [][ListNext]_listVars

-----------------------------------------------------------------------------
(* Properties.                                                             *)

Ring(t) == <<t>> \o contents[t] \o <<t>>

\* Each list, walked through forwards or backwards, is what the STL says it should
\* be: insert(), erase(), swap() and every splice(), also within one list and with
\* neighbours, tie all links again, in both directions.
LinksFollow ==
    \A t \in Lists : \A i \in 1 .. Len(contents[t]) + 1 :
        /\ m_nextListNode[Ring(t)[i]] = Ring(t)[i + 1]
        /\ m_prevListNode[Ring(t)[i + 1]] = Ring(t)[i]

-----------------------------------------------------------------------------
(* The inductive invariant.                                                *)

ListTypeOK ==
    /\ m_nextListNode \in [ListNodes -> ListNodes \cup {"null"}]
    /\ m_prevListNode \in [ListNodes -> ListNodes \cup {"null"}]
    /\ contents \in [Lists -> Seq(Nodes)]

\* A node is in one place of one list.
OnePlace ==
    \A t, u \in Lists : \A i \in Positions(t), j \in Positions(u) :
        contents[t][i] = contents[u][j] => t = u /\ i = j

ListIInv == ListTypeOK /\ OnePlace /\ LinksFollow
=============================================================================
