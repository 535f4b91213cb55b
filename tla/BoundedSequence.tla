--------------------------- MODULE BoundedSequence ---------------------------
(***************************************************************************)
(* What a deque or a vector of fixed capacity promises its caller: it is a *)
(* sequence of at most MaxSize elements; a call changes it as the STL      *)
(* container of that name does, or refuses with BadAlloc for want of room, *)
(* or is left by an exception of a copy of an element.                     *)
(***************************************************************************)
EXTENDS Integers, Sequences, SequencesExt

CONSTANTS Values, MaxSize

VARIABLES
    seq,    \* the elements
    call,   \* the call in progress, or Idle
    ret,    \* how the last call ended, until its caller has looked
    iter    \* the position of the iterator that it returned, or NoIter

vars == <<seq, call, ret, iter>>

Idle == [op |-> "idle"]
NoIter == -1

\* The sequences that s may be after the call c. A source of insert() that is
\* one of the elements it moves is not said: any value may be inserted for it.
After(c, s) ==
    CASE c.op \in {"push", "resize", "insert"} ->
            { SubSeq(s, 1, c.pos) \o w \o SubSeq(s, c.pos + 1, Len(s)) :
                w \in IF c.aliased THEN TupleOf(Values, Len(c.data)) ELSE {c.data} }
      [] c.op \in {"pop", "erase"} ->
            { SubSeq(s, 1, c.pos) \o SubSeq(s, c.upto + 1, Len(s)) }
      [] c.op = "assign" -> { c.data }

\* The first n elements of t, or the last n, are those of s.
SameFirst(s, t, n) == \A i \in 1 .. n : t[i] = s[i]
SameLast(s, t, n) == \A i \in 0 .. n - 1 : t[Len(t) - i] = s[Len(s) - i]

\* Whether a call left by an exception may leave t: a push changes nothing,
\* assign() and resize() got as far as a part of their source. An insert() or
\* erase() moves the elements on one side of its place, and leaves those on the
\* other as they were; erase() removed nothing yet, insert() lost nothing and
\* added no more than it should. A pop copies no element.
AfterThrow(c, s, t) ==
    CASE c.op = "pop" -> FALSE
      [] c.op = "push" -> t = s
      [] c.op = "assign" -> IsPrefix(t, c.data)
      [] c.op = "resize" -> IsPrefix(s, t) /\ IsPrefix(t, s \o c.data)
      [] c.op = "erase" ->
            /\ Len(t) = Len(s)
            /\ SameFirst(s, t, c.pos) \/ SameLast(s, t, Len(s) - c.upto)
      [] c.op = "insert" ->
            /\ Len(t) \in Len(s) .. Len(s) + Len(c.data)
            /\ SameFirst(s, t, c.pos) \/ SameLast(s, t, Len(s) - c.pos)

Fits(c, s) == \A t \in After(c, s) : Len(t) <= MaxSize

Init == seq = <<>> /\ call = Idle /\ ret = "none" /\ iter = NoIter

Begin ==
    /\ call = Idle
    /\ call' # Idle
    /\ ret' = "none" /\ iter' = NoIter
    /\ UNCHANGED seq

\* insert() and erase() return the position of their work.
Return ==
    /\ call # Idle
    /\ Fits(call, seq)
    /\ seq' \in After(call, seq)
    /\ call' = Idle
    /\ ret' = "returned"
    /\ iter' = IF call.op \in {"insert", "erase"} THEN call.pos ELSE NoIter

Refuse ==
    /\ call # Idle
    /\ ~Fits(call, seq)
    /\ call' = Idle
    /\ ret' = "BadAlloc"
    /\ UNCHANGED <<seq, iter>>

Throw ==
    /\ call # Idle
    /\ Fits(call, seq)
    /\ AfterThrow(call, seq, seq')
    /\ call' = Idle
    /\ ret' = "thrown"
    /\ UNCHANGED iter

\* The caller has looked at the result.
Forget ==
    /\ call = Idle
    /\ ret' = "none" /\ iter' = NoIter
    /\ UNCHANGED <<seq, call>>

\* The object is destroyed, or made without elements.
Renew ==
    /\ call = Idle
    /\ seq' = <<>>
    /\ UNCHANGED <<call, ret, iter>>

Next == Begin \/ Return \/ Refuse \/ Throw \/ Forget \/ Renew

Spec == Init /\ [][Next]_vars
=============================================================================
