--------------------------- MODULE ObjectCreation ----------------------------
(***************************************************************************)
(* How the composed objects come and go.  create() acquires what an object *)
(* is made of, one thing after the other; if one is not to be had, it      *)
(* releases the others and returns null.  destroy() releases everything.   *)
(*                                                                         *)
(* A resource is a pair of a name and a number, which tells the runners of *)
(* a ThreadPool from each other and is 0 for the others.                   *)
(***************************************************************************)
EXTENDS Integers, Sequences, SequencesExt, FiniteSets

CONSTANT Runners    \* maxThreads of the ThreadPool

ASSUME CreationAssumption == Runners \in Nat

VARIABLES
    class,
    live,       \* the resources that exist
    toRelease,  \* what is to be released
    phase       \* "none", "creating", "created", "releasing" or "crashed"

creationVars == <<class, live, toRelease, phase>>

One(name) == <<name, 0>>
All(names) == [i \in DOMAIN names |-> One(names[i])]
Exists(name) == One(name) \in live

\* For each number up to n, the resources of these names.
InTurn(n, names) ==
    [k \in 1 .. n * Len(names) |->
        <<names[1 + ((k - 1) % Len(names))], 1 + ((k - 1) \div Len(names))>>]

\* destroy() of a null pointer does nothing.
NonNull(r) == IF r \in live THEN <<r>> ELSE <<>>

-----------------------------------------------------------------------------
(* MessageQueue.                                                           *)

MessageQueue_members == All(<<"m_mtxRB", "m_mtxSend", "m_mtxRecv", "m_event">>)
MessageQueue_create == All(<<"mq_pool", "mq">>) \o MessageQueue_members

MessageQueue_destroy ==
    NonNull(One("m_event")) \o NonNull(One("m_mtxRecv")) \o NonNull(One("m_mtxSend"))
    \o NonNull(One("m_mtxRB")) \o All(<<"mq", "mq_pool">>)

MessageQueue_undo ==
    IF ~Exists("mq_pool") THEN <<>>
    ELSE IF ~Exists("mq") THEN All(<<"mq_pool">>)
    ELSE MessageQueue_destroy

-----------------------------------------------------------------------------
(* ThreadPool.                                                             *)

Queued == Cardinality({ i \in 1 .. Runners : <<"thread", i>> \in live })

ThreadPool_create ==
    All(<<"objPool", "tp">>) \o MessageQueue_create
    \o All(<<"m_threadMemoryPool", "m_threadMemory", "m_runnerPool">>)
    \o InTurn(Runners, <<"runner", "runner_event", "thread">>)

\* The queue hands out the runners in the order in which they were sent.
destroyRunners ==
    IF Exists("mq") /\ Exists("m_runnerPool")
    THEN InTurn(Queued, <<"runner_event", "thread", "runner">>)
    ELSE <<>>

destroyThreads == NonNull(One("m_threadMemory"))

destroyMembers ==
    destroyRunners \o destroyThreads
    \o NonNull(One("m_runnerPool")) \o NonNull(One("m_threadMemoryPool"))
    \o IF Exists("mq") THEN MessageQueue_destroy ELSE <<>>

ThreadPool_destroy == destroyMembers \o All(<<"tp", "objPool">>)

\* A plausible mistake: the runner that is being made is left to destroyMembers().
constructMembers_no_undo == <<>>

\* The runner that is being made is not queued yet.
constructMembers_undo ==
    NonNull(<<"runner_event", Queued + 1>>) \o NonNull(<<"runner", Queued + 1>>)

\* A queue that could not be made has undone itself and is null.
ThreadPool_undo ==
    IF ~Exists("objPool") THEN <<>>
    ELSE IF ~Exists("tp") THEN All(<<"objPool">>)
    ELSE IF ~Exists("m_event") THEN MessageQueue_undo \o All(<<"tp", "objPool">>)
    ELSE constructMembers_undo \o ThreadPool_destroy

-----------------------------------------------------------------------------
(* Objects of the Itron platform, in a block of a memory pool of the       *)
(* kernel, and those of the StdCpp platform that have a thread.            *)

ItronThread_create == All(<<"block", "tsk", "flg", "mtx", "IDMap">>)
ItronThread_undo == NonNull(One("flg")) \o NonNull(One("tsk")) \o NonNull(One("block"))
ItronThread_destroy == All(<<"IDMap", "tsk", "flg", "mtx", "block">>)

ItronMutex_create == All(<<"block", "mtx">>)
ItronEventFlag_create == All(<<"block", "flg">>)
ItronPeriodicTimer_create == All(<<"block", "cyc">>)
block_undo == NonNull(One("block"))

\* The constructor leaves m_thread null, and beginThread() uses it.
Crash == One("crash")
timer_create == All(<<"timer", "m_thread">>)
timer_undo == IF Exists("timer") THEN <<Crash>> ELSE <<>>

-----------------------------------------------------------------------------

Classes == {"MessageQueue", "ThreadPool", "ItronThread", "ItronMutex", "ItronEventFlag",
            "ItronPeriodicTimer", "StdCppOneShotTimer", "StdCppPeriodicTimer"}

Creates ==
    [MessageQueue |-> MessageQueue_create, ThreadPool |-> ThreadPool_create,
     ItronThread |-> ItronThread_create, ItronMutex |-> ItronMutex_create,
     ItronEventFlag |-> ItronEventFlag_create, ItronPeriodicTimer |-> ItronPeriodicTimer_create,
     StdCppOneShotTimer |-> timer_create, StdCppPeriodicTimer |-> timer_create][class]

Undoes ==
    [MessageQueue |-> MessageQueue_undo, ThreadPool |-> ThreadPool_undo,
     ItronThread |-> ItronThread_undo, ItronMutex |-> block_undo,
     ItronEventFlag |-> block_undo, ItronPeriodicTimer |-> block_undo,
     StdCppOneShotTimer |-> timer_undo, StdCppPeriodicTimer |-> timer_undo][class]

Destroys ==
    [MessageQueue |-> MessageQueue_destroy, ThreadPool |-> ThreadPool_destroy,
     ItronThread |-> ItronThread_destroy, ItronMutex |-> Reverse(ItronMutex_create),
     ItronEventFlag |-> Reverse(ItronEventFlag_create),
     ItronPeriodicTimer |-> Reverse(ItronPeriodicTimer_create),
     StdCppOneShotTimer |-> Reverse(timer_create),
     StdCppPeriodicTimer |-> Reverse(timer_create)][class]

\* The first resource that create() has not yet.
Missing ==
    Creates[CHOOSE i \in DOMAIN Creates :
                Creates[i] \notin live /\ \A j \in 1 .. i - 1 : Creates[j] \in live]

create_call ==
    /\ phase = "none"
    /\ phase' = "creating"
    /\ UNCHANGED <<class, live, toRelease>>

acquire ==
    /\ phase = "creating"
    /\ live' = live \cup {Missing}
    /\ phase' = IF live' = ToSet(Creates) THEN "created" ELSE "creating"
    /\ UNCHANGED <<class, toRelease>>

\* push_back() of m_threadIdMap, which was found not to be full, does not fail.
fail ==
    /\ phase = "creating"
    /\ Missing # One("IDMap")
    /\ toRelease' = Undoes
    /\ phase' = "releasing"
    /\ UNCHANGED <<class, live>>

destroy_call ==
    /\ phase = "created"
    /\ toRelease' = Destroys
    /\ phase' = "releasing"
    /\ UNCHANGED <<class, live>>

release ==
    /\ phase = "releasing"
    /\ IF toRelease = <<>> THEN phase' = "none" /\ UNCHANGED <<live, toRelease>>
       ELSE IF Head(toRelease) = Crash THEN phase' = "crashed" /\ UNCHANGED <<live, toRelease>>
       ELSE live' = live \ {Head(toRelease)} /\ toRelease' = Tail(toRelease) /\ UNCHANGED phase
    /\ UNCHANGED class

CreationInit == class \in Classes /\ live = {} /\ toRelease = <<>> /\ phase = "none"

CreationNext == create_call \/ acquire \/ fail \/ destroy_call \/ release

CreationSpec == CreationInit /\ [][CreationNext]_creationVars

-----------------------------------------------------------------------------
(* Properties.                                                             *)

\* x is in the resource r, is run by it, or is found only by it.
Within(x, r) ==
    CASE r[1] = "mq_pool" -> x[1] = "mq"
      [] r[1] = "mq" -> x \in ToSet(MessageQueue_members) \/ x[1] \in {"thread", "runner"}
      [] r[1] = "objPool" -> x[1] = "tp"
      [] r[1] = "tp" -> x[1] \notin {"objPool", "tp"}
      [] r[1] = "m_threadMemoryPool" -> x[1] = "m_threadMemory"
      [] r[1] = "m_runnerPool" -> x[1] = "runner"
      [] r[1] = "runner" -> x[1] \in {"thread", "runner_event"} /\ x[2] = r[2]
      [] r[1] = "block" -> x[1] # "block"
      [] r[1] = "tsk" -> x[1] = "IDMap"
      [] r[1] = "timer" -> x[1] = "m_thread"
      [] OTHER -> FALSE

\* Wherever a create() fails, nothing is released that does not exist, and nothing
\* before what is in it: no pool before its blocks, no runner before its thread
\* (constructMembers(), destroyMembers(), MessageQueue::destroy(), ~ItronThread()).
ReleasesInOrder ==
    phase = "releasing" /\ toRelease # <<>> /\ Head(toRelease) # Crash =>
        Head(toRelease) \in live /\ \A x \in live : ~Within(x, Head(toRelease))

\* A create() that returns null and a destroy() leave nothing behind.
NothingLeaks == phase = "none" => live = {}

CreationSound == ReleasesInOrder /\ NothingLeaks
=============================================================================
