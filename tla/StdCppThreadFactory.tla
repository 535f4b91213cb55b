------------------------- MODULE StdCppThreadFactory -------------------------
(***************************************************************************)
(* StdCppThreadFactory: the threads it makes and destroys, and the map by  *)
(* which a thread finds its own object, from the id that the operating     *)
(* system gave it. The system gives an id again once its thread is joined. *)
(***************************************************************************)
CONSTANTS
    Objects,    \* the addresses of the thread objects
    Ids,        \* the ids of the operating system
    NoId,
    Null

VARIABLES
    object,         \* of each address: "none", "begun" (in create()), "live",
                    \* "ending" (to be joined), or "ended" (to be erased and deleted)
    m_threadId,     \* of each object
    m_threadIdMap   \* of each id: an object or Null

factoryVars == <<object, m_threadId, m_threadIdMap>>

Running(t) == object[t] \in {"begun", "live", "ending"}
FreeIds == { id \in Ids : \A t \in Objects : Running(t) => m_threadId[t] # id }
Becomes(t, to) == object' = [object EXCEPT ![t] = to]

\* create(), up to the second try: the thread runs, but is not started. If there
\* is no thread or no memory to be had, the object is deleted and nothing is left.
create_begin(t) ==
    /\ object[t] = "none"
    /\ \E id \in FreeIds :
        /\ m_threadId' = [m_threadId EXCEPT ![t] = id]
        /\ Becomes(t, "begun")
        /\ UNCHANGED m_threadIdMap

\* map::insert() leaves an entry that is there.
create_insert(t) ==
    /\ object[t] = "begun"
    /\ m_threadIdMap' = [m_threadIdMap EXCEPT ![m_threadId[t]] = IF @ = Null THEN t ELSE @]
    /\ Becomes(t, "live")
    /\ UNCHANGED m_threadId

\* insert() has thrown; the object was never in the map.
create_undo(t) ==
    /\ object[t] = "begun"
    /\ Becomes(t, "none")
    /\ UNCHANGED <<m_threadId, m_threadIdMap>>

\* destroy(): endThread() tells the thread to end and joins it.
destroy_end(t) ==
    \/ object[t] = "live" /\ Becomes(t, "ending") /\ UNCHANGED <<m_threadId, m_threadIdMap>>
    \/ object[t] = "ending" /\ Becomes(t, "ended") /\ UNCHANGED <<m_threadId, m_threadIdMap>>

\* A plausible mistake: no entry is erased.
destroy_without_erase(t) ==
    /\ object[t] = "ended"
    /\ m_threadId' = [m_threadId EXCEPT ![t] = NoId]
    /\ Becomes(t, "none")
    /\ UNCHANGED m_threadIdMap

\* Whosever entry of that id it is, it goes; then the object is deleted.
destroy_erase(t) ==
    /\ object[t] = "ended"
    /\ m_threadIdMap' = [m_threadIdMap EXCEPT ![m_threadId[t]] = Null]
    /\ m_threadId' = [m_threadId EXCEPT ![t] = NoId]
    /\ Becomes(t, "none")

FactoryInit ==
    /\ object = [t \in Objects |-> "none"]
    /\ m_threadId = [t \in Objects |-> NoId]
    /\ m_threadIdMap = [id \in Ids |-> Null]

FactoryNext ==
    \E t \in Objects :
        create_begin(t) \/ create_insert(t) \/ create_undo(t) \/ destroy_end(t) \/ destroy_erase(t)

FactorySpec == FactoryInit /\ [][FactoryNext]_factoryVars

\* What getCurrentThread() returns to the thread t.
CurrentThread(t) == m_threadIdMap[m_threadId[t]]

-----------------------------------------------------------------------------
(* Properties.                                                             *)

FactoryTypeOK ==
    /\ object \in [Objects -> {"none", "begun", "live", "ending", "ended"}]
    /\ m_threadId \in [Objects -> Ids \cup {NoId}]
    /\ m_threadIdMap \in [Ids -> Objects \cup {Null}]

\* getCurrentThread() never returns an object that is deleted: whatever entry of
\* whichever thread an insert() missed or an erase() removed (create(), destroy()).
NoDangling ==
    \A id \in Ids :
        m_threadIdMap[id] # Null =>
            object[m_threadIdMap[id]] # "none" /\ m_threadId[m_threadIdMap[id]] = id

\* The inductive strengthening: an entry is of an object whose create() has returned.
EntriesLive ==
    \A id \in Ids : m_threadIdMap[id] # Null =>
        object[m_threadIdMap[id]] \in {"live", "ending", "ended"}
FactoryIInv == FactoryTypeOK /\ NoDangling /\ EntriesLive

\* A thread that runs a Runnable gets its own object from getCurrentThread(): "Get
\* the current running Thread object" (Thread.h). It does not: the id of a thread
\* that is joined but not erased yet is given to a new one.
CurrentThreadIsOwn == \A t \in Objects : object[t] = "live" => CurrentThread(t) = t
=============================================================================
