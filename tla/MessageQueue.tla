---------------------------- MODULE MessageQueue ----------------------------
(***************************************************************************)
(* OSWrapper::MessageQueue<T> (mechanism/OSWrapper/MessageQueue.h): a ring *)
(* buffer guarded by three mutexes and an event flag.  m_mtxSend lets one  *)
(* sender at a time test, wait and push, m_mtxRecv one receiver, and       *)
(* m_mtxRB guards the buffer itself.  A step of a thread is what it does   *)
(* from one point where another thread can interfere to the next: the      *)
(* locking of a mutex, the wait for the event flag, the change of the      *)
(* buffer, the setting of the flag.                                        *)
(***************************************************************************)
EXTENDS Naturals, Sequences

CONSTANTS Threads,     \* the threads that share the queue
          Msgs,        \* the messages (values of T)
          NoMsg,       \* no message: a receiver's variable not assigned
          Raw,         \* memory that holds no object of T
          NoThread,    \* the holder of a free mutex
          MaxSize,     \* the argument of create()
          Timeouts,    \* the timeouts that callers use
          Exceptions   \* how T's copy constructor or assignment may fail

ASSUME MQAssumption ==
    /\ MaxSize \in Nat
    /\ NoMsg \notin Msgs
    /\ Raw \notin Msgs \cup {NoMsg}
    /\ NoThread \notin Threads
    /\ Timeouts \subseteq {"POLLING", "TIMED", "FOREVER"}
    /\ Exceptions \subseteq {"OtherError", "Failure"}

VARIABLES buf,      \* RingBuf::m_buf
          begin,    \* RingBuf::m_begin
          end,      \* RingBuf::m_end
          mtxRB,    \* the holder of m_mtxRB between two steps
          mtxSend,  \* the holder of m_mtxSend
          mtxRecv,  \* the holder of m_mtxRecv
          event,    \* the bits of m_event that are set
          pc,       \* where each thread is
          arg,      \* the message it sends
          tmout,    \* the timeout it was given
          err,      \* what its call returns, "none" until that is known
          got       \* what it received

ring == <<buf, begin, end>>
call == <<arg, tmout>>
vars == <<buf, begin, end, mtxRB, mtxSend, mtxRecv, event,
          pc, arg, tmout, err, got>>

-----------------------------------------------------------------------------
(* The ring buffer.  One slot more than MaxSize, so that begin = end means *)
(* empty and never full.                                                   *)

BufSize == MaxSize + 1

\* An operator whose comment says "that ..." of a function above its own
\* definition is a plausible mistake in that function: the property that
\* PROJECT.json names for it tells the two apart.  This one: no wrap.
NextIdxNoWrap(i) == i + 1

NextIdx(i) == IF i + 1 < BufSize THEN i + 1 ELSE i + 1 - BufSize

Size == IF begin <= end THEN end - begin ELSE BufSize - begin + end

Empty == begin = end
Full  == Size = MaxSize

-----------------------------------------------------------------------------

SendPCs == {"s_lock", "s_isFull", "s_wait", "s_push", "s_set", "s_return"}
RecvPCs == {"r_lock", "r_isEmpty", "r_wait", "r_pop", "r_set", "r_return"}

Init ==
    /\ buf = [i \in 0..MaxSize |-> Raw]
    /\ begin = 0
    /\ end = 0
    /\ mtxRB = NoThread
    /\ mtxSend = NoThread
    /\ mtxRecv = NoThread
    /\ event = {}
    /\ pc = [t \in Threads |-> "idle"]
    /\ arg = [t \in Threads |-> NoMsg]
    /\ tmout = [t \in Threads |-> "FOREVER"]
    /\ err = [t \in Threads |-> "none"]
    /\ got = [t \in Threads |-> NoMsg]

GoTo(t, l) == pc' = [pc EXCEPT ![t] = l]

\* What the call will return is known; its arguments are of no further use.
Result(t, e) ==
    /\ err' = [err EXCEPT ![t] = e]
    /\ arg' = [arg EXCEPT ![t] = NoMsg]
    /\ tmout' = [tmout EXCEPT ![t] = "FOREVER"]

Call(t, l, m, to) ==
    /\ pc[t] = "idle"
    /\ GoTo(t, l)
    /\ arg' = [arg EXCEPT ![t] = m]
    /\ tmout' = [tmout EXCEPT ![t] = to]
    /\ err' = [err EXCEPT ![t] = "none"]
    /\ got' = [got EXCEPT ![t] = NoMsg]
    /\ UNCHANGED <<ring, mtxRB, mtxSend, mtxRecv, event>>

-----------------------------------------------------------------------------
(* timedSend(), which send() calls with FOREVER and trySend() with         *)
(* POLLING.                                                                *)

SendLock(t) ==
    /\ pc[t] = "s_lock"
    /\ mtxSend = NoThread
    /\ mtxSend' = t
    /\ GoTo(t, "s_isFull")
    /\ UNCHANGED <<ring, mtxRB, mtxRecv, event, call, err, got>>

SendLockTimeout(t) ==
    /\ pc[t] = "s_lock"
    /\ mtxSend # NoThread
    /\ tmout[t] # "FOREVER"
    /\ Result(t, "TimedOut")
    /\ GoTo(t, "idle")
    /\ UNCHANGED <<ring, mtxRB, mtxSend, mtxRecv, event, got>>

\* isFull() that leaves a bit set by an earlier receive.
SendIsFullNoReset(t) ==
    /\ pc[t] = "s_isFull"
    /\ mtxRB = NoThread
    /\ GoTo(t, IF Full THEN "s_wait" ELSE "s_push")
    /\ UNCHANGED <<ring, mtxRB, mtxSend, mtxRecv, event, call, err, got>>

\* isFull() resets the bit it is about to wait for while it holds m_mtxRB.
SendIsFull(t) ==
    /\ pc[t] = "s_isFull"
    /\ mtxRB = NoThread
    /\ event' = IF Full THEN event \ {"NOT_FULL"} ELSE event
    /\ GoTo(t, IF Full THEN "s_wait" ELSE "s_push")
    /\ UNCHANGED <<ring, mtxRB, mtxSend, mtxRecv, call, err, got>>

SendWait(t) ==
    /\ pc[t] = "s_wait"
    /\ "NOT_FULL" \in event
    /\ GoTo(t, "s_push")
    /\ UNCHANGED <<ring, mtxRB, mtxSend, mtxRecv, event, call, err, got>>

SendWaitTimeout(t) ==
    /\ pc[t] = "s_wait"
    /\ "NOT_FULL" \notin event
    /\ tmout[t] # "FOREVER"
    /\ Result(t, "TimedOut")
    /\ GoTo(t, "s_return")
    /\ UNCHANGED <<ring, mtxRB, mtxSend, mtxRecv, event, got>>

\* push(): the message is constructed in its slot before m_end moves.
SendPush(t) ==
    /\ pc[t] = "s_push"
    /\ mtxRB = NoThread
    /\ mtxRB' = t
    /\ buf' = [buf EXCEPT ![end] = arg[t]]
    /\ end' = NextIdx(end)
    /\ Result(t, "OK")
    /\ GoTo(t, "s_set")
    /\ UNCHANGED <<begin, mtxSend, mtxRecv, event, got>>

\* push() that moves m_end first.
SendPushThrowsLate(t) ==
    /\ pc[t] = "s_push"
    /\ mtxRB = NoThread
    /\ end' = NextIdx(end)
    /\ \E e \in Exceptions : Result(t, e)
    /\ GoTo(t, "s_return")
    /\ UNCHANGED <<buf, begin, mtxRB, mtxSend, mtxRecv, event, got>>

\* T's copy constructor throws: the guard of m_mtxRB unlocks it again.
SendPushThrows(t) ==
    /\ pc[t] = "s_push"
    /\ mtxRB = NoThread
    /\ \E e \in Exceptions : Result(t, e)
    /\ GoTo(t, "s_return")
    /\ UNCHANGED <<ring, mtxRB, mtxSend, mtxRecv, event, got>>

\* push() that wakes nobody.
SendSetNothing(t) ==
    /\ pc[t] = "s_set"
    /\ mtxRB' = NoThread
    /\ GoTo(t, "s_return")
    /\ UNCHANGED <<ring, mtxSend, mtxRecv, event, call, err, got>>

SendSet(t) ==
    /\ pc[t] = "s_set"
    /\ event' = event \cup {"NOT_EMPTY"}
    /\ mtxRB' = NoThread
    /\ GoTo(t, "s_return")
    /\ UNCHANGED <<ring, mtxSend, mtxRecv, call, err, got>>

SendReturn(t) ==
    /\ pc[t] = "s_return"
    /\ mtxSend' = NoThread
    /\ GoTo(t, "idle")
    /\ UNCHANGED <<ring, mtxRB, mtxRecv, event, call, err, got>>

-----------------------------------------------------------------------------
(* timedReceive(), which receive() calls with FOREVER and tryReceive()     *)
(* with POLLING.                                                           *)

RecvLock(t) ==
    /\ pc[t] = "r_lock"
    /\ mtxRecv = NoThread
    /\ mtxRecv' = t
    /\ GoTo(t, "r_isEmpty")
    /\ UNCHANGED <<ring, mtxRB, mtxSend, event, call, err, got>>

RecvLockTimeout(t) ==
    /\ pc[t] = "r_lock"
    /\ mtxRecv # NoThread
    /\ tmout[t] # "FOREVER"
    /\ Result(t, "TimedOut")
    /\ GoTo(t, "idle")
    /\ UNCHANGED <<ring, mtxRB, mtxSend, mtxRecv, event, got>>

\* isEmpty() that goes on holding m_mtxRB while the receiver waits.
RecvIsEmptyKeepsLock(t) ==
    /\ pc[t] = "r_isEmpty"
    /\ mtxRB = NoThread
    /\ event' = IF Empty THEN event \ {"NOT_EMPTY"} ELSE event
    /\ mtxRB' = IF Empty THEN t ELSE NoThread
    /\ GoTo(t, IF Empty THEN "r_wait" ELSE "r_pop")
    /\ UNCHANGED <<ring, mtxSend, mtxRecv, call, err, got>>

\* isEmpty() with resetAll().
RecvIsEmptyResetsAll(t) ==
    /\ pc[t] = "r_isEmpty"
    /\ mtxRB = NoThread
    /\ event' = IF Empty THEN {} ELSE event
    /\ GoTo(t, IF Empty THEN "r_wait" ELSE "r_pop")
    /\ UNCHANGED <<ring, mtxRB, mtxSend, mtxRecv, call, err, got>>

RecvIsEmpty(t) ==
    /\ pc[t] = "r_isEmpty"
    /\ mtxRB = NoThread
    /\ event' = IF Empty THEN event \ {"NOT_EMPTY"} ELSE event
    /\ GoTo(t, IF Empty THEN "r_wait" ELSE "r_pop")
    /\ UNCHANGED <<ring, mtxRB, mtxSend, mtxRecv, call, err, got>>

RecvWait(t) ==
    /\ pc[t] = "r_wait"
    /\ "NOT_EMPTY" \in event
    /\ GoTo(t, "r_pop")
    /\ UNCHANGED <<ring, mtxRB, mtxSend, mtxRecv, event, call, err, got>>

RecvWaitTimeout(t) ==
    /\ pc[t] = "r_wait"
    /\ "NOT_EMPTY" \notin event
    /\ tmout[t] # "FOREVER"
    /\ Result(t, "TimedOut")
    /\ GoTo(t, "r_return")
    /\ UNCHANGED <<ring, mtxRB, mtxSend, mtxRecv, event, got>>

\* pop() that destroys the message before it copies it.
RecvPopDestroyFirst(t) ==
    /\ pc[t] = "r_pop"
    /\ mtxRB = NoThread
    /\ mtxRB' = t
    /\ \E m \in {NoMsg, Raw} : got' = [got EXCEPT ![t] = m]
    /\ buf' = [buf EXCEPT ![begin] = Raw]
    /\ begin' = NextIdx(begin)
    /\ Result(t, "OK")
    /\ GoTo(t, "r_set")
    /\ UNCHANGED <<end, mtxSend, mtxRecv, event>>

\* pop(): nothing is assigned when the receiver passed a null pointer.
RecvPop(t) ==
    /\ pc[t] = "r_pop"
    /\ mtxRB = NoThread
    /\ mtxRB' = t
    /\ \E m \in {NoMsg, buf[begin]} : got' = [got EXCEPT ![t] = m]
    /\ buf' = [buf EXCEPT ![begin] = Raw]
    /\ begin' = NextIdx(begin)
    /\ Result(t, "OK")
    /\ GoTo(t, "r_set")
    /\ UNCHANGED <<end, mtxSend, mtxRecv, event>>

\* T's assignment throws: the message stays where it is.
RecvPopThrows(t) ==
    /\ pc[t] = "r_pop"
    /\ mtxRB = NoThread
    /\ \E e \in Exceptions : Result(t, e)
    /\ GoTo(t, "r_return")
    /\ UNCHANGED <<ring, mtxRB, mtxSend, mtxRecv, event, got>>

RecvSet(t) ==
    /\ pc[t] = "r_set"
    /\ event' = event \cup {"NOT_FULL"}
    /\ mtxRB' = NoThread
    /\ GoTo(t, "r_return")
    /\ UNCHANGED <<ring, mtxSend, mtxRecv, call, err, got>>

RecvReturn(t) ==
    /\ pc[t] = "r_return"
    /\ mtxRecv' = NoThread
    /\ GoTo(t, "idle")
    /\ UNCHANGED <<ring, mtxRB, mtxSend, event, call, err, got>>

-----------------------------------------------------------------------------

SendStep(t) ==
    \/ SendLock(t) \/ SendLockTimeout(t) \/ SendIsFull(t) \/ SendWait(t)
    \/ SendWaitTimeout(t) \/ SendPush(t) \/ SendPushThrows(t)
    \/ SendSet(t) \/ SendReturn(t)

RecvStep(t) ==
    \/ RecvLock(t) \/ RecvLockTimeout(t) \/ RecvIsEmpty(t) \/ RecvWait(t)
    \/ RecvWaitTimeout(t) \/ RecvPop(t) \/ RecvPopThrows(t)
    \/ RecvSet(t) \/ RecvReturn(t)

Next ==
    \E t \in Threads :
        \/ \E to \in Timeouts :
              \/ \E m \in Msgs : Call(t, "s_lock", m, to)
              \/ Call(t, "r_lock", NoMsg, to)
        \/ SendStep(t)
        \/ RecvStep(t)

Spec == Init /\ [][Next]_vars

(* The scheduler runs every thread that can take a step; whether threads   *)
(* call the queue, and how often a lock is won by one of several threads,  *)
(* is left open.                                                           *)
FairSpec == Spec /\ \A t \in Threads : WF_vars(SendStep(t) \/ RecvStep(t))

-----------------------------------------------------------------------------
(* Properties.                                                             *)

PCs == {"idle"} \cup SendPCs \cup RecvPCs
Results == {"none", "OK", "TimedOut", "OtherError", "Failure"}

\* A call that has pushed or popped, or that knows that it failed, has
\* taken effect; only the unlocking is left.
OpOf(l) ==
    IF l \in {"s_lock", "s_isFull", "s_wait", "s_push"} THEN "send"
    ELSE IF l \in {"r_lock", "r_isEmpty", "r_wait", "r_pop"} THEN "receive"
    ELSE "idle"

\* Type invariant: the indices stay within m_buf, the mutexes are held by
\* threads, m_event has no bit but the two that are defined.
TypeOK ==
    /\ buf \in [0..MaxSize -> Msgs \cup {Raw}]
    /\ begin \in 0..MaxSize
    /\ end \in 0..MaxSize
    /\ mtxRB \in Threads \cup {NoThread}
    /\ mtxSend \in Threads \cup {NoThread}
    /\ mtxRecv \in Threads \cup {NoThread}
    /\ event \in SUBSET {"NOT_EMPTY", "NOT_FULL"}
    /\ pc \in [Threads -> PCs]
    /\ arg \in [Threads -> Msgs \cup {NoMsg}]
    /\ \A t \in Threads : OpOf(pc[t]) = "send" => arg[t] \in Msgs
    /\ tmout \in [Threads -> {"POLLING", "TIMED", "FOREVER"}]
    /\ err \in [Threads -> Results]
    /\ got \in [Threads -> Msgs \cup {NoMsg, Raw}]

\* RingBuf::push() and pop() check nothing: timedSend() must never push
\* when the buffer is full, nor timedReceive() pop when it is empty.  The
\* test was made earlier, without m_mtxRB held since, or not made at all by
\* a thread that the event flag released.
RingSafe ==
    \A t \in Threads :
        /\ pc[t] = "s_push" => ~Full
        /\ pc[t] = "r_pop" => ~Empty

\* A receiver that decided to wait while the queue was empty finds its bit
\* set, or about to be set, once there is a message; likewise a sender once
\* there is room.  isEmpty() and isFull() reset the bit under m_mtxRB, so
\* that the reset cannot wipe out a set for a later push or pop.
NoLostWakeup ==
    \A t \in Threads :
        /\ pc[t] = "r_wait" /\ ~Empty =>
              "NOT_EMPTY" \in event \/ \E u \in Threads : pc[u] = "s_set"
        /\ pc[t] = "s_wait" /\ ~Full =>
              "NOT_FULL" \in event \/ \E u \in Threads : pc[u] = "r_set"

\* What makes the two above inductive: each mutex is held by the thread
\* that is between its locking and its unlocking, a bit that a waiter could
\* see set is true of the buffer, and a thread about to set a bit knows it.
MutexInv ==
    \A t \in Threads :
        /\ mtxSend = t <=> pc[t] \in SendPCs \ {"s_lock"}
        /\ mtxRecv = t <=> pc[t] \in RecvPCs \ {"r_lock"}
        /\ mtxRB = t <=> pc[t] \in {"s_set", "r_set"}

FlagInv ==
    \A t \in Threads :
        /\ pc[t] = "s_set" => ~Empty
        /\ pc[t] = "r_set" => ~Full
        /\ pc[t] = "r_wait" /\ "NOT_EMPTY" \in event => ~Empty
        /\ pc[t] = "s_wait" /\ "NOT_FULL" \in event => ~Full

InWindow(i) ==
    IF begin <= end THEN begin <= i /\ i < end ELSE begin <= i \/ i < end

\* The slots from m_begin up to m_end hold an object of T each, and the
\* others none: no object is copied from raw memory, constructed over
\* another, destroyed twice or never, whichever copies throw.
LiveSlots == \A i \in 0..MaxSize : InWindow(i) <=> buf[i] # Raw

IInv ==
    TypeOK /\ MutexInv /\ FlagInv /\ RingSafe /\ NoLostWakeup /\ LiveSlots

\* The messages in the queue, in the order in which they are received.
Slot(k) == IF begin + k - 1 < BufSize THEN begin + k - 1
           ELSE begin + k - 1 - BufSize
Contents == [k \in 1..Size |-> buf[Slot(k)]]

Queue == INSTANCE BoundedQueue WITH
             queue <- Contents, op <- [t \in Threads |-> OpOf(pc[t])]

\* The message queue is a FIFO queue of at most MaxSize messages whose
\* calls take effect at once: no message is lost, duplicated, overtaken or
\* received by two threads, and a failed call changes nothing.
IsBoundedQueue == Queue!Spec

\* The guards of SendStep and RecvStep: nothing that blocks stops the thread.
CanStep(t) ==
    \/ pc[t] = "s_lock" /\ (mtxSend = NoThread \/ tmout[t] # "FOREVER")
    \/ pc[t] = "r_lock" /\ (mtxRecv = NoThread \/ tmout[t] # "FOREVER")
    \/ pc[t] \in {"s_isFull", "s_push", "r_isEmpty", "r_pop"} /\ mtxRB = NoThread
    \/ pc[t] = "s_wait" /\ ("NOT_FULL" \in event \/ tmout[t] # "FOREVER")
    \/ pc[t] = "r_wait" /\ ("NOT_EMPTY" \in event \/ tmout[t] # "FOREVER")
    \/ pc[t] \in {"s_set", "s_return", "r_set", "r_return"}

\* As long as one thread sends and another receives, some thread can go on:
\* the three mutexes and the two bits never block everyone.  (The bound on
\* MaxSize is needed: with no room at all both wait forever.)
NoGridlock ==
    MaxSize > 0 =>
    ((\E t \in Threads : pc[t] \in SendPCs) /\ (\E t \in Threads : pc[t] \in RecvPCs)
     => \E t \in Threads : CanStep(t))

\* A sender that waits is woken once the queue has room, and a receiver
\* once it has a message, even when no other thread calls the queue again.
WaiterWakes ==
    \A t \in Threads :
        /\ (pc[t] = "s_wait" /\ ~Full) ~> (pc[t] # "s_wait")
        /\ (pc[t] = "r_wait" /\ ~Empty) ~> (pc[t] # "r_wait")

=============================================================================
