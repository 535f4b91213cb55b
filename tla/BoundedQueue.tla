---------------------------- MODULE BoundedQueue ----------------------------
(***************************************************************************)
(* What MessageQueue<T> promises to the threads that share it: a FIFO      *)
(* queue of at most MaxSize messages.  Every call is one of                *)
(*   send / timedSend / trySend         (MessageQueue.h:86-153)            *)
(*   receive / timedReceive / tryReceive(MessageQueue.h:167-234)           *)
(* and takes effect in one step between its call and its return.  Only a   *)
(* call with a finite timeout may give up, and only the copying of a       *)
(* message may fail in another way; both leave the queue as it is.         *)
(***************************************************************************)
EXTENDS Naturals, Sequences

CONSTANTS Threads,     \* the threads that share the queue
          Msgs,        \* the messages
          NoMsg,       \* what a receiver holds that was given no message
          MaxSize,     \* the argument of MessageQueue::create()
          Timeouts,    \* the timeouts that callers use
          Exceptions   \* how copying a message may fail

VARIABLES queue,   \* the messages sent and not yet received
          op,      \* the call each thread is in: "idle", "send", "receive"
          arg,     \* the message a sender passes
          tmout,   \* the timeout the call was given
          err,     \* the result of the last call: "none" while it is pending
          got      \* the message a receiver was given

vars == <<queue, op, arg, tmout, err, got>>

Results == {"none", "OK", "TimedOut", "OtherError", "Failure"}

Init ==
    /\ queue = <<>>
    /\ op = [t \in Threads |-> "idle"]
    /\ arg = [t \in Threads |-> NoMsg]
    /\ tmout = [t \in Threads |-> "FOREVER"]
    /\ err = [t \in Threads |-> "none"]
    /\ got = [t \in Threads |-> NoMsg]

Call(t, o, m, to) ==
    /\ op[t] = "idle"
    /\ op' = [op EXCEPT ![t] = o]
    /\ arg' = [arg EXCEPT ![t] = m]
    /\ tmout' = [tmout EXCEPT ![t] = to]
    /\ err' = [err EXCEPT ![t] = "none"]
    /\ got' = [got EXCEPT ![t] = NoMsg]
    /\ UNCHANGED queue

\* The result is known and the arguments are forgotten.
Finish(t, r) ==
    /\ op' = [op EXCEPT ![t] = "idle"]
    /\ err' = [err EXCEPT ![t] = r]
    /\ arg' = [arg EXCEPT ![t] = NoMsg]
    /\ tmout' = [tmout EXCEPT ![t] = "FOREVER"]

Enqueue(t) ==
    /\ op[t] = "send"
    /\ Len(queue) < MaxSize
    /\ queue' = Append(queue, arg[t])
    /\ Finish(t, "OK")
    /\ UNCHANGED got

\* A receiver that passed a null pointer is given no message.
Dequeue(t) ==
    /\ op[t] = "receive"
    /\ queue # <<>>
    /\ queue' = Tail(queue)
    /\ \E m \in {NoMsg, Head(queue)} : got' = [got EXCEPT ![t] = m]
    /\ Finish(t, "OK")

GiveUp(t) ==
    /\ op[t] # "idle"
    /\ tmout[t] # "FOREVER"
    /\ Finish(t, "TimedOut")
    /\ UNCHANGED <<queue, got>>

\* Copying the message fails, which is only tried when there is room for
\* it (send) or a message to copy (receive).
Fail(t) ==
    /\ \/ op[t] = "send" /\ Len(queue) < MaxSize
       \/ op[t] = "receive" /\ queue # <<>>
    /\ \E e \in Exceptions : Finish(t, e)
    /\ UNCHANGED <<queue, got>>

Next ==
    \E t \in Threads :
        \/ \E to \in Timeouts :
              \/ \E m \in Msgs : Call(t, "send", m, to)
              \/ Call(t, "receive", NoMsg, to)
        \/ Enqueue(t)
        \/ Dequeue(t)
        \/ GiveUp(t)
        \/ Fail(t)

Spec == Init /\ [][Next]_vars

=============================================================================
