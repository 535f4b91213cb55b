------------------------------ MODULE MCWaits ------------------------------
(***************************************************************************)
(* The waits of a one-shot timer and of a message queue.  The two have     *)
(* nothing to do with each other: a behaviour is about one of them, its    *)
(* subject, while the other stays as it begins.  The timer has two clients,*)
(* a Runnable that may call its own timer and two times, so that a start   *)
(* with one can be mistaken for a start with the other; the queue has room *)
(* for one message, and three threads each free to send and to receive.    *)
(***************************************************************************)
EXTENDS OneShotTimer

CONSTANTS Threads, Msgs, NoMsg, Raw, NoThread, MaxSize, Timeouts, Exceptions

VARIABLES buf, begin, end, mtxRB, mtxSend, mtxRecv, event, pc, message, tmout, err, got
queueVars ==
    <<buf, begin, end, mtxRB, mtxSend, mtxRecv, event, pc, message, tmout, err, got>>

MQ == INSTANCE MessageQueue WITH arg <- message

VARIABLE subject     \* "timer" or "queue"

MCInit ==
    /\ subject \in {"timer", "queue"}
    /\ Init
    /\ MQ!Init

MCNext ==
    \/ subject = "timer" /\ Next /\ UNCHANGED <<subject, queueVars>>
    \/ subject = "queue" /\ MQ!Next /\ UNCHANGED <<subject, vars>>

\* The fairness of OneShotTimer and of MessageQueue, of each for its own behaviours.
MCSpec ==
    /\ MCInit /\ [][MCNext]_<<subject, vars, queueVars>>
    /\ WF_vars(subject = "timer" /\ ThreadStep)
    /\ SF_vars(subject = "timer" /\ TimerMain)
    /\ \A a \in Actors : WF_vars(subject = "timer" /\ CallStep(a))
    /\ \A t \in Threads : WF_queueVars(subject = "queue" /\ (MQ!SendStep(t) \/ MQ!RecvStep(t)))

\* See MessageQueue: a thread that waits is woken once it need not wait any more.
WaiterWakes == MQ!WaiterWakes
=============================================================================
