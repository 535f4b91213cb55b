----------------------------- MODULE ItronThread -----------------------------
(***************************************************************************)
(* One ItronThread: a task of the kernel, an event flag and a mutex. A     *)
(* step is a call of the kernel, so that everything can happen between any *)
(* two calls but what the mutex keeps out.                                 *)
(***************************************************************************)
EXTENDS Integers

CONSTANTS
    Tasks,      \* the tasks that call it
    Priorities,
    InitialPriority,    \* m_initialPriority, which the kernel gives a task it starts
    NoTask

ASSUME ItronThreadAssumption == InitialPriority \in Priorities /\ NoTask \notin Tasks

VARIABLES
    task,       \* the task: "dormant"; in ItronThreadMain() at wai_flg() "wait", clr_flg()
                \* "clear", in "run", at set_flg() "finish", or on its way out "exit"
    tskbpri,    \* its base priority
    EV_STARTED,
    EV_FINISHED,
    m_mtxId,    \* who holds the mutex, or NoTask
    m_priority,
    itron       \* of each caller: where it is, and its argument or result

itronVars == <<task, tskbpri, EV_STARTED, EV_FINISHED, m_mtxId, m_priority, itron>>
flags == <<EV_STARTED, EV_FINISHED>>

Is(c, pc) == itron[c].at = pc
Goes(c, pc) == itron' = [itron EXCEPT ![c].at = pc]
IsOut(c) == itron[c].at \in {"none", "OK", "TimedOut"}
InUse == \A c \in Tasks : ~Is(c, "destroy") /\ ~Is(c, "destroy_dormant") /\ ~Is(c, "deleted")

-----------------------------------------------------------------------------
(* ItronThreadMain().                                                      *)

ItronThreadMain ==
    /\ \/ task = "wait" /\ EV_STARTED /\ task' = "clear" /\ UNCHANGED flags
       \/ /\ task = "clear" /\ task' = "run"
          /\ EV_STARTED' = FALSE /\ UNCHANGED EV_FINISHED
       \/ task = "run" /\ task' = "finish" /\ UNCHANGED flags
       \/ /\ task = "finish" /\ task' = "exit"
          /\ EV_FINISHED' = TRUE /\ UNCHANGED EV_STARTED
       \/ task = "exit" /\ task' = "dormant" /\ UNCHANGED flags
    /\ UNCHANGED <<tskbpri, m_mtxId, m_priority, itron>>

-----------------------------------------------------------------------------
(* Calls. start() and setPriority() hold the mutex.                        *)

Lock(c, from, to) ==
    /\ Is(c, from) /\ m_mtxId = NoTask
    /\ m_mtxId' = c
    /\ Goes(c, to)
    /\ UNCHANGED <<task, tskbpri, flags, m_priority>>

Unlock(c, to) == m_mtxId' = NoTask /\ Goes(c, to)

\* A plausible mistake: the flag alone says so.
isFinished_flag_only(c, first, second, yes, no) ==
    /\ Is(c, first) /\ IF EV_FINISHED THEN Goes(c, yes) ELSE Goes(c, no)
    /\ UNCHANGED <<task, tskbpri, flags, m_mtxId, m_priority>>

\* The two looks of isFinished(), first at the flag, then at the task.
isFinished(c, first, second, yes, no) ==
    /\ \/ Is(c, first) /\ IF EV_FINISHED THEN Goes(c, second) ELSE Goes(c, no)
       \/ Is(c, second) /\ IF task = "dormant" THEN Goes(c, yes) ELSE Goes(c, no)
    /\ UNCHANGED <<task, tskbpri, flags, m_mtxId, m_priority>>

itron_start_call(c) ==
    /\ IsOut(c) /\ InUse
    /\ Goes(c, "start_lock")
    /\ UNCHANGED <<task, tskbpri, flags, m_mtxId, m_priority>>

itron_start(c) ==
    \/ Lock(c, "start_lock", "start_flag")
    \/ isFinished(c, "start_flag", "start_dormant", "start_clear", "start_refused")
    \/ /\ Is(c, "start_refused") /\ Unlock(c, "none")
       /\ UNCHANGED <<task, tskbpri, flags, m_priority>>
    \/ /\ Is(c, "start_clear") /\ Goes(c, "start_task")
       /\ EV_FINISHED' = FALSE
       /\ UNCHANGED <<task, tskbpri, EV_STARTED, m_mtxId, m_priority>>
    \/ /\ Is(c, "start_task")                   \* sta_tsk()
       /\ IF task = "dormant"
          THEN /\ task' = "wait" /\ tskbpri' = InitialPriority
               /\ Goes(c, "start_priority") /\ UNCHANGED m_mtxId
          ELSE Unlock(c, "none") /\ UNCHANGED <<task, tskbpri>>
       /\ UNCHANGED <<flags, m_priority>>
    \/ /\ Is(c, "start_priority") /\ Unlock(c, "start_set")
       /\ tskbpri' = m_priority
       /\ UNCHANGED <<task, flags, m_priority>>
    \/ /\ Is(c, "start_set") /\ Goes(c, "none")
       /\ EV_STARTED' = TRUE
       /\ UNCHANGED <<task, tskbpri, EV_FINISHED, m_mtxId, m_priority>>

setPriority_call(c) ==
    /\ IsOut(c) /\ InUse
    /\ \E priority \in Priorities :
        itron' = [itron EXCEPT ![c] = [at |-> "priority_lock", priority |-> priority]]
    /\ UNCHANGED <<task, tskbpri, flags, m_mtxId, m_priority>>

setPriority(c) ==
    \/ Lock(c, "priority_lock", "priority_set")
    \/ /\ Is(c, "priority_set") /\ Goes(c, "priority_flag")
       /\ m_priority' = itron[c].priority
       /\ UNCHANGED <<task, tskbpri, flags, m_mtxId>>
    \/ isFinished(c, "priority_flag", "priority_dormant", "priority_done", "priority_change")
    \/ /\ Is(c, "priority_change") /\ Unlock(c, "none")
       /\ tskbpri' = IF task = "dormant" THEN tskbpri ELSE m_priority    \* chg_pri()
       /\ UNCHANGED <<task, flags, m_priority>>
    \/ /\ Is(c, "priority_done") /\ Unlock(c, "none")
       /\ UNCHANGED <<task, tskbpri, flags, m_priority>>

wait_call(c) ==
    /\ IsOut(c) /\ InUse
    /\ Goes(c, "wait") \/ Goes(c, "timed_wait")
    /\ UNCHANGED <<task, tskbpri, flags, m_mtxId, m_priority>>

\* twai_flg(), then waitUntilDormant().
itron_wait(c) ==
    /\ \/ (Is(c, "wait") \/ Is(c, "timed_wait")) /\ EV_FINISHED /\ Goes(c, "wait_dormant")
       \/ Is(c, "timed_wait") /\ ~EV_FINISHED /\ Goes(c, "TimedOut")
       \/ Is(c, "wait_dormant") /\ task = "dormant" /\ Goes(c, "OK")
    /\ UNCHANGED <<task, tskbpri, flags, m_mtxId, m_priority>>

\* destroy(): the wait(), and the destructor with del_tsk().
itron_destroy_call(c) ==
    /\ \A d \in Tasks : IsOut(d)
    /\ InUse
    /\ Goes(c, "destroy")
    /\ UNCHANGED <<task, tskbpri, flags, m_mtxId, m_priority>>

\* A plausible mistake: the wait() is forgotten.
itron_destroy_at_once(c) ==
    /\ Is(c, "destroy") /\ Goes(c, "deleted")
    /\ UNCHANGED <<task, tskbpri, flags, m_mtxId, m_priority>>

itron_destroy(c) ==
    /\ \/ Is(c, "destroy") /\ EV_FINISHED /\ Goes(c, "destroy_dormant")
       \/ Is(c, "destroy_dormant") /\ task = "dormant" /\ Goes(c, "deleted")
    /\ UNCHANGED <<task, tskbpri, flags, m_mtxId, m_priority>>

ItronThreadInit ==
    /\ task = "dormant" /\ tskbpri = InitialPriority
    /\ EV_STARTED = FALSE /\ EV_FINISHED = TRUE
    /\ m_mtxId = NoTask /\ m_priority = InitialPriority
    /\ itron = [c \in Tasks |-> [at |-> "none", priority |-> InitialPriority]]

InItronCall(c) == itron_start(c) \/ setPriority(c) \/ itron_wait(c) \/ itron_destroy(c)

ItronThreadNext ==
    \/ ItronThreadMain
    \/ \E c \in Tasks :
        \/ itron_start_call(c) \/ setPriority_call(c) \/ wait_call(c) \/ itron_destroy_call(c)
        \/ InItronCall(c)

\* The task and the calls that have begun go on; the Runnable returns.
ItronThreadFairness ==
    /\ WF_itronVars(ItronThreadMain)
    /\ \A c \in Tasks : WF_itronVars(InItronCall(c))

ItronThreadSpec == ItronThreadInit /\ [][ItronThreadNext]_itronVars /\ ItronThreadFairness

-----------------------------------------------------------------------------
(* Properties.                                                             *)

Locked == {"start_flag", "start_dormant", "start_refused", "start_clear", "start_task",
           "start_priority", "priority_set", "priority_flag", "priority_dormant",
           "priority_change", "priority_done"}

ItronAts ==
    Locked \cup {"none", "OK", "TimedOut", "start_lock", "start_set", "priority_lock",
                 "wait", "timed_wait", "wait_dormant", "destroy", "destroy_dormant", "deleted"}

ItronThreadTypeOK ==
    /\ task \in {"dormant", "wait", "clear", "run", "finish", "exit"}
    /\ tskbpri \in Priorities /\ m_priority \in Priorities
    /\ EV_STARTED \in BOOLEAN /\ EV_FINISHED \in BOOLEAN
    /\ m_mtxId \in Tasks \cup {NoTask}
    /\ itron \in [Tasks -> [at : ItronAts, priority : Priorities]]

\* A task that runs has the priority that was set last, whenever it was set: while
\* the task was not started, started, or ended (start(), setPriority()).
PriorityFollows ==
    task # "dormant" /\ m_mtxId = NoTask => tskbpri = m_priority

\* The conjuncts that make an inductive invariant. Who is between the lock and the
\* unlock holds the mutex.
HolderInside == \A c \in Tasks : m_mtxId = c <=> itron[c].at \in Locked

\* What the flags say of the task; and only a start() in progress, which holds the
\* mutex, leaves a dormant task without EV_FINISHED.
FlagsFollowTask ==
    /\ EV_STARTED => task \in {"wait", "clear"}
    /\ EV_FINISHED => task \in {"exit", "dormant"}
    /\ task = "exit" => EV_FINISHED
    /\ task = "dormant" /\ ~EV_FINISHED => \E c \in Tasks : Is(c, "start_task")

\* What a call has seen is still so: the two looks of isFinished(), and the task
\* that waits for the one start() that is to set EV_STARTED.
SeenStays ==
    /\ \A c \in Tasks :
        /\ itron[c].at \in {"start_dormant", "start_clear", "priority_dormant", "priority_done"}
            => EV_FINISHED
        /\ itron[c].at \in {"start_clear", "start_task", "priority_done"} => task = "dormant"
        /\ itron[c].at = "start_task" => ~EV_FINISHED
        /\ itron[c].at \in {"start_priority", "start_set"} => task = "wait" /\ ~EV_STARTED
    /\ \A c, d \in Tasks :
        itron[c].at \in {"start_priority", "start_set"}
        /\ itron[d].at \in {"start_priority", "start_set"} => c = d

\* A call that holds the mutex is to set a priority that is not the one set last.
PriorityOnItsWay ==
    task # "dormant" /\ tskbpri # m_priority =>
        \E c \in Tasks : itron[c].at \in {"start_priority", "priority_flag",
                                         "priority_dormant", "priority_change"}

\* Who destroys the thread is alone with it, and deletes a task that has finished.
DestroysAlone ==
    \A c \in Tasks :
        /\ itron[c].at \in {"destroy", "destroy_dormant", "deleted"} =>
                \A d \in Tasks \ {c} : IsOut(d)
        /\ itron[c].at \in {"destroy_dormant", "deleted"} => EV_FINISHED
        /\ itron[c].at = "deleted" => task = "dormant"

ItronThreadIInv ==
    /\ ItronThreadTypeOK /\ HolderInside /\ FlagsFollowTask /\ SeenStays
    /\ PriorityOnItsWay /\ DestroysAlone

\* The task is what Thread.h says: EV_FINISHED is set from the end of run() to the
\* next start(), and neither a start() nor a wait() meets a flag of another run.
AItronThread == INSTANCE AbstractThread WITH
    Callers <- Tasks,
    state <- IF \E c \in Tasks : Is(c, "deleted") THEN "ENDED"
             ELSE IF EV_FINISHED THEN "FINISHED"
             ELSE IF task \in {"run", "finish"} THEN "RUNNING" ELSE "READY",
    waiter <- [c \in Tasks |->
                CASE itron[c].at \in {"wait", "timed_wait", "destroy"} -> "waiting"
                  [] itron[c].at \in {"wait_dormant", "destroy_dormant", "deleted"} -> "seen"
                  [] itron[c].at \in {"OK", "TimedOut"} -> itron[c].at
                  [] OTHER -> "none"]
IsItronThread == AItronThread!Spec

\* A task is deleted when it is dormant and nobody uses it, and a destroy() that has
\* begun gets there.
DeletedDormant == \A c \in Tasks : Is(c, "deleted") => task = "dormant" /\ m_mtxId = NoTask
DestroyEnds ==
    /\ []DeletedDormant
    /\ \A c \in Tasks : Is(c, "destroy") ~> Is(c, "deleted")
=============================================================================
