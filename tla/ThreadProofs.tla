---------------------------- MODULE ThreadProofs ----------------------------
(***************************************************************************)
(* Threads: StdCppThread and its factory, for every set of callers, of     *)
(* objects and of ids.                                                     *)
(***************************************************************************)
EXTENDS StdCppThread, StdCppThreadFactory, ItronThread, Priorities, TLAPS

-----------------------------------------------------------------------------
(* One StdCppThread: no wakeup is missed.                                  *)

LEMMA ThreadInitInv == ThreadInit => ThreadIInv
  BY DEF ThreadInit, ThreadIInv, ThreadTypeOK, NoSleeperForgotten, RunsActive, EndsAlone,
         WokenBy, Resting, Ending

LEMMA WokenByIs ==
    /\ DOMAIN WokenBy = {"asleep", "timed_asleep", "end_asleep"}
    /\ WokenBy["asleep"] = "look"
    /\ WokenBy["timed_asleep"] = "timed_look"
    /\ WokenBy["end_asleep"] = "end_look"
  BY DEF WokenBy

LEMMA ThreadStepInv == ThreadIInv /\ [ThreadNext]_threadVars => ThreadIInv'
  <1> SUFFICES ASSUME ThreadIInv, [ThreadNext]_threadVars PROVE ThreadIInv'
    OBVIOUS
  <1> USE WokenByIs
         DEF ThreadIInv, ThreadTypeOK, NoSleeperForgotten, RunsActive, EndsAlone,
                        Resting, Ending, Usable, NotifyLoop
  <1>1. CASE threadLoop_look
    BY <1>1 DEF threadLoop_look
  <1>2. CASE threadMain
    BY <1>2 DEF threadMain
  <1>3. CASE threadLoop_finish
    BY <1>3 DEF threadLoop_finish, NotifyFinished
  <1>4. ASSUME NEW c \in Callers, Thread_start(c) PROVE ThreadIInv'
    BY <1>4 DEF Thread_start
  <1>5. ASSUME NEW c \in Callers, timedWait(c) PROVE ThreadIInv'
    <2>1. CASE Usable /\ Thread_wait(c, Resting, "asleep", "OK")
      BY <2>1 DEF Thread_wait
    <2>2. CASE Usable /\ Thread_wait(c, Resting, "timed_asleep", "OK")
      BY <2>2 DEF Thread_wait
    <2>3. CASE Thread_wait(c, {"look"}, "asleep", "OK")
      BY <2>3 DEF Thread_wait
    <2>4. CASE Thread_wait(c, {"timed_look"}, "timed_asleep", "OK")
      BY <2>4 DEF Thread_wait
    <2>5. CASE Thread_timeout(c)
      BY <2>5 DEF Thread_timeout
    <2>6. QED
      BY <1>5, <2>1, <2>2, <2>3, <2>4, <2>5 DEF timedWait
  <1>6. ASSUME NEW c \in Callers, endThread_wait(c) PROVE ThreadIInv'
    BY <1>6 DEF endThread_wait, Thread_wait
  <1>7. ASSUME NEW c \in Callers, endThread_set(c) PROVE ThreadIInv'
    BY <1>7 DEF endThread_set
  <1>8. ASSUME NEW c \in Callers, endThread_join(c) PROVE ThreadIInv'
    BY <1>8 DEF endThread_join
  <1>9. CASE UNCHANGED threadVars
    BY <1>9 DEF threadVars
  <1>10. QED
    BY <1>1, <1>2, <1>3, <1>4, <1>5, <1>6, <1>7, <1>8, <1>9
       DEF ThreadNext, threadLoop, endThread

\* The invariant that both theorems and the refinement rest on.
THEOREM ThreadInvariance == ThreadSpec => []ThreadIInv
  BY ThreadInitInv, ThreadStepInv, PTL DEF ThreadSpec

\* The state is of its type.
THEOREM ThreadTypeCorrect == ThreadSpec => []ThreadTypeOK
  BY ThreadInvariance, PTL DEF ThreadIInv

\* Neither the thread nor a caller sleeps through what it waits for.
THEOREM NobodyForgotten == ThreadSpec => []NoSleeperForgotten
  BY ThreadInvariance, PTL DEF ThreadIInv

-----------------------------------------------------------------------------
(* Its refinement of AbstractThread.                                       *)

LEMMA ThreadInitRefines == ThreadInit => AThread!Init
  BY DEF ThreadInit, AThread!Init, Resting

LEMMA ThreadStepRefines == ThreadIInv /\ [ThreadNext]_threadVars => [AThread!Next]_(AThread!vars)
  <1> SUFFICES ASSUME ThreadIInv, [ThreadNext]_threadVars PROVE [AThread!Next]_(AThread!vars)
    OBVIOUS
  <1> USE
         DEF ThreadIInv, ThreadTypeOK, RunsActive, EndsAlone, Resting, Ending, Usable,
             NotifyLoop, AThread!vars, AThread!Go, AThread!Waits
  <1>1. CASE threadLoop_look
    BY <1>1 DEF threadLoop_look, AThread!Next, AThread!Run
  <1>2. CASE threadMain
    BY <1>2 DEF threadMain
  <1>3. CASE threadLoop_finish
    BY <1>3, WokenByIs DEF threadLoop_finish, NotifyFinished, AThread!Next, AThread!Finish
  <1>4. ASSUME NEW c \in Callers, Thread_start(c) PROVE [AThread!Next]_(AThread!vars)
    BY <1>4 DEF Thread_start, AThread!Next, AThread!Start
  <1>5. ASSUME NEW c \in Callers, timedWait(c) PROVE [AThread!Next]_(AThread!vars)
    <2> USE DEF AThread!Next, AThread!Wait, AThread!ReturnOK, AThread!TimeOut
    <2>1. CASE Usable /\ Thread_wait(c, Resting, "asleep", "OK")
      BY <2>1 DEF Thread_wait
    <2>2. CASE Usable /\ Thread_wait(c, Resting, "timed_asleep", "OK")
      BY <2>2 DEF Thread_wait
    <2>3. CASE Thread_wait(c, {"look"}, "asleep", "OK")
      BY <2>3 DEF Thread_wait
    <2>4. CASE Thread_wait(c, {"timed_look"}, "timed_asleep", "OK")
      BY <2>4 DEF Thread_wait
    <2>5. CASE Thread_timeout(c)
      BY <2>5 DEF Thread_timeout
    <2>6. QED
      BY <1>5, <2>1, <2>2, <2>3, <2>4, <2>5 DEF timedWait
  <1>6. ASSUME NEW c \in Callers, endThread_wait(c) PROVE [AThread!Next]_(AThread!vars)
    <2> USE DEF Thread_wait, AThread!Next, AThread!Wait, AThread!ReturnOK
    <2>1. CASE /\ \A d \in Callers : caller[d] \in Resting
               /\ Thread_wait(c, Resting, "end_asleep", "end_set")
      <3>1. CASE m_isActive
        BY <2>1, <3>1
      <3>2. CASE ~m_isActive
        BY <2>1, <3>2
      <3>3. QED
        BY <3>1, <3>2
    <2>2. CASE Thread_wait(c, {"end_look"}, "end_asleep", "end_set")
      <3>1. CASE m_isActive
        BY <2>2, <3>1
      <3>2. CASE ~m_isActive
        <4>1. ~m_endThreadRequested
          BY <2>2
        <4>2. AThread!ReturnOK(c)
          BY <2>2, <3>2, <4>1
        <4>3. QED
          BY <4>2
      <3>3. QED
        BY <3>1, <3>2
    <2>3. QED
      BY <1>6, <2>1, <2>2 DEF endThread_wait
  <1>7. ASSUME NEW c \in Callers, endThread_set(c) PROVE [AThread!Next]_(AThread!vars)
    BY <1>7 DEF endThread_set, AThread!Next, AThread!End
  <1>8. ASSUME NEW c \in Callers, endThread_join(c) PROVE [AThread!Next]_(AThread!vars)
    BY <1>8 DEF endThread_join
  <1>9. CASE UNCHANGED threadVars
    BY <1>9 DEF threadVars
  <1>10. QED
    BY <1>1, <1>2, <1>3, <1>4, <1>5, <1>6, <1>7, <1>8, <1>9
       DEF ThreadNext, threadLoop, endThread

\* Every behaviour of the thread is one that Thread.h allows: no accepted start()
\* is lost, no wait() succeeds before run() has returned, also while it is ended.
THEOREM ThreadRefinement == ThreadSpec => IsThread
  BY ThreadInvariance, ThreadInitRefines, ThreadStepRefines, PTL
     DEF ThreadSpec, IsThread, AThread!Spec

-----------------------------------------------------------------------------
(* The map from ids to thread objects.                                     *)

LEMMA FactoryInitInv == FactoryInit => FactoryIInv
  BY DEF FactoryInit, FactoryIInv, FactoryTypeOK, NoDangling, EntriesLive

LEMMA FactoryStepInv == FactoryIInv /\ [FactoryNext]_factoryVars => FactoryIInv'
  <1> SUFFICES ASSUME FactoryIInv, [FactoryNext]_factoryVars PROVE FactoryIInv'
    OBVIOUS
  <1> USE DEF FactoryIInv, FactoryTypeOK, NoDangling, EntriesLive, Becomes
  <1>1. ASSUME NEW t \in Objects, create_begin(t) PROVE FactoryIInv'
    BY <1>1 DEF create_begin, FreeIds
  <1>2. ASSUME NEW t \in Objects, create_insert(t) PROVE FactoryIInv'
    BY <1>2 DEF create_insert
  <1>3. ASSUME NEW t \in Objects, create_undo(t) PROVE FactoryIInv'
    BY <1>3 DEF create_undo
  <1>4. ASSUME NEW t \in Objects, destroy_end(t) PROVE FactoryIInv'
    BY <1>4 DEF destroy_end
  <1>5. ASSUME NEW t \in Objects, destroy_erase(t) PROVE FactoryIInv'
    BY <1>5 DEF destroy_erase
  <1>6. CASE UNCHANGED factoryVars
    BY <1>6 DEF factoryVars
  <1>7. QED
    BY <1>1, <1>2, <1>3, <1>4, <1>5, <1>6 DEF FactoryNext

\* The invariant that both theorems rest on.
THEOREM FactoryInvariance == FactorySpec => []FactoryIInv
  BY FactoryInitInv, FactoryStepInv, PTL DEF FactorySpec

\* The state is of its type.
THEOREM FactoryTypeCorrect == FactorySpec => []FactoryTypeOK
  BY FactoryInvariance, PTL DEF FactoryIInv

\* getCurrentThread() never returns an object that is deleted, although insert() may
\* leave an older entry and destroy() may erase another thread's.
THEOREM NothingDangles == FactorySpec => []NoDangling
  BY FactoryInvariance, PTL DEF FactoryIInv

-----------------------------------------------------------------------------
(* One ItronThread.                                                        *)

LEMMA ItronThreadInitInv == ItronThreadInit => ItronThreadIInv
  <1> SUFFICES ASSUME ItronThreadInit PROVE ItronThreadIInv
    OBVIOUS
  <1> USE ItronThreadAssumption DEF ItronThreadInit
  <1>1. ItronThreadTypeOK
    BY DEF ItronThreadTypeOK, ItronAts
  <1>2. HolderInside
    BY DEF HolderInside, Locked
  <1>3. FlagsFollowTask /\ SeenStays
    BY DEF FlagsFollowTask, SeenStays
  <1>4. PriorityOnItsWay /\ DestroysAlone
    BY DEF PriorityOnItsWay, DestroysAlone
  <1>5. QED
    BY <1>1, <1>2, <1>3, <1>4 DEF ItronThreadIInv

\* A call goes on.
LEMMA GoesType ==
    ASSUME NEW c \in Tasks, NEW pc \in ItronAts, Goes(c, pc),
           itron \in [Tasks -> [at : ItronAts, priority : Priorities]]
    PROVE  itron' \in [Tasks -> [at : ItronAts, priority : Priorities]]
  BY DEF Goes

LEMMA ItronThreadStepInv == ItronThreadIInv /\ [ItronThreadNext]_itronVars => ItronThreadIInv'
  <1> SUFFICES ASSUME ItronThreadIInv, [ItronThreadNext]_itronVars PROVE ItronThreadIInv'
    OBVIOUS
  <1> USE ItronThreadAssumption
      DEF ItronThreadIInv, ItronThreadTypeOK, HolderInside, FlagsFollowTask, SeenStays,
          PriorityOnItsWay, DestroysAlone, ItronAts, Locked, Is, Goes, IsOut, flags
  <1>1. CASE ItronThreadMain
    <2>1. UNCHANGED <<tskbpri, m_mtxId, m_priority, itron>> /\ task # "dormant"
      BY <1>1 DEF ItronThreadMain
    <2>2. ItronThreadTypeOK' /\ HolderInside' /\ PriorityOnItsWay'
      BY <1>1, <2>1 DEF ItronThreadMain
    <2>3. FlagsFollowTask'
      BY <1>1, <2>1 DEF ItronThreadMain
    <2>4. SeenStays' /\ DestroysAlone'
      BY <1>1, <2>1 DEF ItronThreadMain
    <2>5. QED
      BY <2>2, <2>3, <2>4
  <1>2. ASSUME NEW c \in Tasks, itron_start_call(c) PROVE ItronThreadIInv'
    BY <1>2 DEF itron_start_call, InUse
  <1>3. ASSUME NEW c \in Tasks, itron_start(c) PROVE ItronThreadIInv'
    <2> USE DEF Unlock
    <2>1. CASE Lock(c, "start_lock", "start_flag")
      BY <2>1 DEF Lock
    <2>2. CASE isFinished(c, "start_flag", "start_dormant", "start_clear", "start_refused")
      BY <2>2 DEF isFinished
    <2>3. CASE Is(c, "start_refused")
      BY <1>3, <2>3 DEF itron_start, Lock, isFinished
    <2>4. CASE Is(c, "start_clear")
      <3>1. /\ Goes(c, "start_task") /\ EV_FINISHED' = FALSE /\ EV_FINISHED
            /\ task = "dormant" /\ m_mtxId = c
            /\ UNCHANGED <<task, tskbpri, EV_STARTED, m_mtxId, m_priority>>
        BY <1>3, <2>4 DEF itron_start, Lock, isFinished
      <3>2. \A d \in Tasks \ {c} : itron[d].at \notin Locked
        BY <3>1
      <3>3. \A d \in Tasks \ {c} : itron[d].at \notin {"destroy_dormant", "deleted"}
        BY <2>4
      <3>4. ItronThreadTypeOK' /\ HolderInside' /\ PriorityOnItsWay'
        <4>1. ItronThreadTypeOK'
          <5>1. "start_task" \in ItronAts
            OBVIOUS
          <5> HIDE DEF Goes, ItronAts
          <5>2. itron' \in [Tasks -> [at : ItronAts, priority : Priorities]]
            BY <3>1, <5>1, GoesType
          <5>3. QED
            BY <3>1, <5>2
        <4>2. HolderInside'
          BY <2>4, <3>1
        <4>3. PriorityOnItsWay'
          BY <3>1
        <4>4. QED
          BY <4>1, <4>2, <4>3
      <3>5. FlagsFollowTask' /\ SeenStays'
        <4>1. itron'[c].at = "start_task" /\ \A d \in Tasks \ {c} : itron'[d] = itron[d]
          BY <3>1
        <4>2. FlagsFollowTask'
          BY <3>1, <4>1
        <4>3. \A d \in Tasks : itron[d].at \notin {"start_priority", "start_set"} \/ d # c
          BY <2>4
        <4>4. SeenStays'
          BY <3>1, <3>2, <4>1, <4>3
        <4>5. QED
          BY <4>2, <4>4
      <3>6. DestroysAlone'
        BY <2>4, <3>1, <3>3
      <3>7. QED
        BY <3>4, <3>5, <3>6
    <2>5. CASE Is(c, "start_task")
      BY <1>3, <2>5 DEF itron_start, Lock, isFinished
    <2>6. CASE Is(c, "start_priority")
      BY <1>3, <2>6 DEF itron_start, Lock, isFinished
    <2>7. CASE Is(c, "start_set")
      BY <1>3, <2>7 DEF itron_start, Lock, isFinished
    <2>8. QED
      BY <1>3, <2>1, <2>2, <2>3, <2>4, <2>5, <2>6, <2>7 DEF itron_start
  <1>4. ASSUME NEW c \in Tasks, setPriority_call(c) PROVE ItronThreadIInv'
    BY <1>4 DEF setPriority_call, InUse
  <1>5. ASSUME NEW c \in Tasks, setPriority(c) PROVE ItronThreadIInv'
    <2> USE DEF Unlock
    <2>1. CASE Lock(c, "priority_lock", "priority_set")
      BY <2>1 DEF Lock
    <2>2. CASE isFinished(c, "priority_flag", "priority_dormant", "priority_done",
                          "priority_change")
      BY <2>2 DEF isFinished
    <2>3. CASE Is(c, "priority_set")
      BY <1>5, <2>3 DEF setPriority, Lock, isFinished
    <2>4. CASE Is(c, "priority_change")
      BY <1>5, <2>4 DEF setPriority, Lock, isFinished
    <2>5. CASE Is(c, "priority_done")
      BY <1>5, <2>5 DEF setPriority, Lock, isFinished
    <2>6. QED
      BY <1>5, <2>1, <2>2, <2>3, <2>4, <2>5 DEF setPriority
  <1>6. ASSUME NEW c \in Tasks, wait_call(c) PROVE ItronThreadIInv'
    BY <1>6 DEF wait_call, InUse
  <1>7. ASSUME NEW c \in Tasks, itron_wait(c) PROVE ItronThreadIInv'
    BY <1>7 DEF itron_wait
  <1>8. ASSUME NEW c \in Tasks, itron_destroy_call(c) PROVE ItronThreadIInv'
    BY <1>8 DEF itron_destroy_call, InUse
  <1>9. ASSUME NEW c \in Tasks, itron_destroy(c) PROVE ItronThreadIInv'
    BY <1>9 DEF itron_destroy
  <1>10. CASE UNCHANGED itronVars
    BY <1>10 DEF itronVars
  <1>11. QED
    BY <1>1, <1>2, <1>3, <1>4, <1>5, <1>6, <1>7, <1>8, <1>9, <1>10
       DEF ItronThreadNext, InItronCall

\* The invariant that the theorems rest on.
THEOREM ItronThreadInvariance == ItronThreadSpec => []ItronThreadIInv
  BY ItronThreadInitInv, ItronThreadStepInv, PTL DEF ItronThreadSpec

\* A task that runs has the priority that setPriority() set last.
THEOREM PriorityIsFollowed == ItronThreadSpec => []PriorityFollows
  <1>1. ItronThreadIInv => PriorityFollows
    BY ItronThreadAssumption
       DEF ItronThreadIInv, PriorityFollows, PriorityOnItsWay, HolderInside, Locked
  <1>2. QED
    BY <1>1, ItronThreadInvariance, PTL

\* del_tsk() deletes a dormant task, whose mutex nobody holds.
THEOREM DeletesDormant == ItronThreadSpec => []DeletedDormant
  <1>1. ItronThreadIInv => DeletedDormant
    BY ItronThreadAssumption
       DEF ItronThreadIInv, ItronThreadTypeOK, DeletedDormant, DestroysAlone, HolderInside,
           Locked, Is, IsOut
  <1>2. QED
    BY <1>1, ItronThreadInvariance, PTL

-----------------------------------------------------------------------------
(* Its refinement of AbstractThread.                                       *)

\* What the mapping makes of the state and of a call's place.
AbstractState ==
    IF \E c \in Tasks : Is(c, "deleted") THEN "ENDED"
    ELSE IF EV_FINISHED THEN "FINISHED"
    ELSE IF task \in {"run", "finish"} THEN "RUNNING" ELSE "READY"
WaiterAt(at) ==
    CASE at \in {"wait", "timed_wait", "destroy"} -> "waiting"
      [] at \in {"wait_dormant", "destroy_dormant", "deleted"} -> "seen"
      [] at \in {"OK", "TimedOut"} -> at
      [] OTHER -> "none"
AbstractWaiter == [c \in Tasks |-> WaiterAt(itron[c].at)]

LEMMA ItronThreadInitRefines == ItronThreadInit => AItronThread!Init
  BY DEF ItronThreadInit, AItronThread!Init, Is

\* A call that goes on changes at most what it itself waits for.
LEMMA WaiterGoes ==
    ASSUME ItronThreadTypeOK, NEW c \in Tasks, NEW pc \in ItronAts, Goes(c, pc)
    PROVE  /\ AbstractWaiter' = [AbstractWaiter EXCEPT ![c] = WaiterAt(pc)]
           /\ \A d \in Tasks : itron'[d].at = IF d = c THEN pc ELSE itron[d].at
  <1>1. \A d \in Tasks : itron'[d].at = IF d = c THEN pc ELSE itron[d].at
    BY DEF Goes, ItronThreadTypeOK
  <1>2. QED
    BY <1>1 DEF AbstractWaiter

\* The steps of the promise, in these words.
LEMMA AbstractNext ==
    ASSUME \/ UNCHANGED <<AbstractState, AbstractWaiter>>
           \/ /\ \/ AbstractState = "FINISHED" /\ AbstractState' \in {"READY", "ENDED"}
                 \/ AbstractState = "READY" /\ AbstractState' = "RUNNING"
                 \/ AbstractState = "RUNNING" /\ AbstractState' = "FINISHED"
              /\ UNCHANGED AbstractWaiter
           \/ \E c \in Tasks, to \in {"waiting", "seen", "OK", "TimedOut", "none"} :
                /\ UNCHANGED AbstractState
                /\ AbstractWaiter' = [AbstractWaiter EXCEPT ![c] = to]
                /\ to = "seen" => AbstractState = "FINISHED"
                /\ to = "OK" => AbstractWaiter[c] = "seen"
                /\ to = "TimedOut" => AbstractWaiter[c] = "waiting" /\ AbstractState # "FINISHED"
                /\ to \in {"waiting", "none"} => AbstractWaiter[c] \notin {"waiting", "seen"}
    PROVE  [AItronThread!Next]_(AItronThread!vars)
  <1> USE DEF AItronThread!Next, AItronThread!vars, AItronThread!Go, AItronThread!Waits
  <1>1. CASE UNCHANGED <<AbstractState, AbstractWaiter>>
    BY <1>1 DEF AbstractState, AbstractWaiter, WaiterAt
  <1>2. CASE UNCHANGED AbstractWaiter /\ AbstractState = "FINISHED" /\ AbstractState' = "READY"
    BY <1>2 DEF AItronThread!Start, AbstractState, AbstractWaiter, WaiterAt
  <1>3. CASE UNCHANGED AbstractWaiter /\ AbstractState = "FINISHED" /\ AbstractState' = "ENDED"
    BY <1>3 DEF AItronThread!End, AbstractState, AbstractWaiter, WaiterAt
  <1>4. CASE UNCHANGED AbstractWaiter /\ AbstractState = "READY" /\ AbstractState' = "RUNNING"
    BY <1>4 DEF AItronThread!Run, AbstractState, AbstractWaiter, WaiterAt
  <1>5. CASE UNCHANGED AbstractWaiter /\ AbstractState = "RUNNING" /\ AbstractState' = "FINISHED"
    BY <1>5 DEF AItronThread!Finish, AbstractState, AbstractWaiter, WaiterAt
  <1>6. ASSUME NEW c \in Tasks, NEW to \in {"waiting", "seen", "OK", "TimedOut", "none"},
               UNCHANGED AbstractState,
               AbstractWaiter' = [AbstractWaiter EXCEPT ![c] = to],
               to = "seen" => AbstractState = "FINISHED",
               to = "OK" => AbstractWaiter[c] = "seen",
               to = "TimedOut" => AbstractWaiter[c] = "waiting" /\ AbstractState # "FINISHED",
               to \in {"waiting", "none"} => AbstractWaiter[c] \notin {"waiting", "seen"}
        PROVE  AItronThread!Next
    <2> USE DEF AbstractState, AbstractWaiter, WaiterAt
    <2>1. CASE to = "waiting"
      BY <1>6, <2>1 DEF AItronThread!Wait
    <2>2. CASE to = "seen"
      BY <1>6, <2>2 DEF AItronThread!See
    <2>3. CASE to = "OK"
      BY <1>6, <2>3 DEF AItronThread!ReturnOK
    <2>4. CASE to = "TimedOut"
      BY <1>6, <2>4 DEF AItronThread!TimeOut
    <2>5. CASE to = "none"
      BY <1>6, <2>5 DEF AItronThread!Forget
    <2>6. QED
      BY <2>1, <2>2, <2>3, <2>4, <2>5
  <1> HIDE DEF AItronThread!Next, AItronThread!vars, AItronThread!Go, AItronThread!Waits
  <1>7. QED
    BY <1>1, <1>2, <1>3, <1>4, <1>5, <1>6

LEMMA ItronThreadStepRefines ==
    ItronThreadIInv /\ [ItronThreadNext]_itronVars => [AItronThread!Next]_(AItronThread!vars)
  <1> SUFFICES ASSUME ItronThreadIInv, [ItronThreadNext]_itronVars
               PROVE  [AItronThread!Next]_(AItronThread!vars)
    OBVIOUS
  <1> USE DEF flags
  <1>t. /\ ItronThreadTypeOK
        /\ EV_STARTED \in BOOLEAN /\ EV_FINISHED \in BOOLEAN
        /\ \A d \in Tasks : AbstractWaiter[d] = WaiterAt(itron[d].at)
    BY DEF ItronThreadIInv, ItronThreadTypeOK, AbstractWaiter
  <1>d. ASSUME NEW c \in Tasks, ~IsOut(c), ~Is(c, "deleted")
        PROVE  ~\E d \in Tasks : Is(d, "deleted")
    BY <1>d DEF ItronThreadIInv, DestroysAlone, Is, IsOut
  \* A step of a call that is not the end of a destroy().
  <1>g. ASSUME NEW c \in Tasks, NEW pc \in ItronAts \ {"deleted"}, Goes(c, pc),
               ~Is(c, "deleted")
        PROVE  /\ AbstractWaiter' = [AbstractWaiter EXCEPT ![c] = WaiterAt(pc)]
               /\ (\E d \in Tasks : Is(d, "deleted"))' <=> \E d \in Tasks : Is(d, "deleted")
    BY <1>g, <1>t, WaiterGoes DEF Is
  <1>1. CASE ItronThreadMain
    <2>1. UNCHANGED itron /\ task # "dormant"
      BY <1>1 DEF ItronThreadMain
    <2>2. UNCHANGED AbstractWaiter /\ ~\E d \in Tasks : Is(d, "deleted")
      BY <2>1 DEF AbstractWaiter, ItronThreadIInv, DestroysAlone, Is
    <2>3. \/ UNCHANGED AbstractState
          \/ AbstractState = "READY" /\ AbstractState' = "RUNNING"
          \/ AbstractState = "RUNNING" /\ AbstractState' = "FINISHED"
      BY <1>1, <2>1, <2>2
         DEF ItronThreadMain, ItronThreadIInv, FlagsFollowTask, AbstractState, Is
    <2>4. QED
      BY <2>2, <2>3, AbstractNext
  <1>2. ASSUME NEW c \in Tasks, itron_start_call(c) \/ setPriority_call(c)
        PROVE  [AItronThread!Next]_(AItronThread!vars)
    <2>1. UNCHANGED AbstractState
      BY <1>2
         DEF itron_start_call, setPriority_call, IsOut, Is, Goes, AbstractState, InUse,
             ItronThreadIInv, ItronThreadTypeOK
    <2>2. AbstractWaiter' = [AbstractWaiter EXCEPT ![c] = "none"]
      <3>1. /\ WaiterAt(itron'[c].at) = "none"
            /\ \A d \in Tasks \ {c} : itron'[d] = itron[d]
        BY <1>2, <1>t
           DEF itron_start_call, setPriority_call, Goes, WaiterAt, ItronThreadTypeOK
      <3>2. QED
        BY <3>1 DEF AbstractWaiter
    <2>3. AbstractWaiter[c] \notin {"waiting", "seen"}
      BY <1>2, <1>t DEF itron_start_call, setPriority_call, IsOut, Is, WaiterAt
    <2>4. QED
      BY <2>1, <2>2, <2>3, AbstractNext
  <1>3. ASSUME NEW c \in Tasks, itron_start(c) \/ setPriority(c)
        PROVE  [AItronThread!Next]_(AItronThread!vars)
    <2>1. PICK pc \in ItronAts \ {"deleted"} : Goes(c, pc) /\ WaiterAt(pc) = "none"
      BY <1>3
         DEF itron_start, setPriority, Lock, Unlock, isFinished, WaiterAt, ItronAts, Locked
    <2>2. WaiterAt(itron[c].at) = "none" /\ ~IsOut(c) /\ ~Is(c, "deleted")
      BY <1>3
         DEF itron_start, setPriority, Lock, isFinished, Is, IsOut, WaiterAt
    <2>3. UNCHANGED AbstractWaiter
      BY <1>g, <1>t, <2>1, <2>2 DEF AbstractWaiter
    <2>4. /\ ~\E d \in Tasks : Is(d, "deleted")
          /\ ~(\E d \in Tasks : Is(d, "deleted"))'
      BY <1>d, <1>g, <2>1, <2>2
    <2>5. \/ UNCHANGED AbstractState
          \/ AbstractState = "FINISHED" /\ AbstractState' = "READY"
      <3>1. CASE Is(c, "start_clear")
        BY <1>3, <2>4, <3>1
           DEF itron_start, setPriority, Lock, isFinished, Is, ItronThreadIInv, SeenStays,
               AbstractState
      <3>2. CASE Is(c, "start_task")
        BY <1>3, <2>4, <3>2
           DEF itron_start, setPriority, Lock, isFinished, Is, ItronThreadIInv, SeenStays,
               AbstractState
      <3>3. CASE ~Is(c, "start_clear") /\ ~Is(c, "start_task")
        BY <1>3, <2>4, <3>3
           DEF itron_start, setPriority, Lock, isFinished, AbstractState
      <3>4. QED
        BY <3>1, <3>2, <3>3
    <2>6. QED
      BY <2>3, <2>5, AbstractNext
  <1>4. ASSUME NEW c \in Tasks, wait_call(c) \/ itron_destroy_call(c)
        PROVE  [AItronThread!Next]_(AItronThread!vars)
    <2>1. PICK pc \in {"wait", "timed_wait", "destroy"} : Goes(c, pc)
      BY <1>4 DEF wait_call, itron_destroy_call
    <2>2. IsOut(c) /\ UNCHANGED <<task, EV_FINISHED>>
      BY <1>4 DEF wait_call, itron_destroy_call
    <2>3. /\ pc \in ItronAts \ {"deleted"} /\ WaiterAt(pc) = "waiting" /\ ~Is(c, "deleted")
          /\ WaiterAt(itron[c].at) \notin {"waiting", "seen"}
      BY <2>1, <2>2 DEF WaiterAt, ItronAts, Is, IsOut
    <2>4. UNCHANGED AbstractState /\ AbstractWaiter' = [AbstractWaiter EXCEPT ![c] = "waiting"]
      BY <1>g, <2>1, <2>2, <2>3 DEF AbstractState
    <2>5. QED
      BY <1>t, <2>3, <2>4, AbstractNext
  <1>5. ASSUME NEW c \in Tasks, itron_wait(c) \/ itron_destroy(c), ~Is(c, "destroy_dormant")
        PROVE  [AItronThread!Next]_(AItronThread!vars)
    <2>1. PICK pc \in {"wait_dormant", "TimedOut", "OK", "destroy_dormant"} :
            /\ Goes(c, pc)
            /\ pc = "OK" => Is(c, "wait_dormant")
            /\ pc = "TimedOut" => Is(c, "timed_wait") /\ ~EV_FINISHED
            /\ pc \in {"wait_dormant", "destroy_dormant"} => EV_FINISHED
      BY <1>5 DEF itron_wait, itron_destroy
    <2>2. ~IsOut(c) /\ ~Is(c, "deleted") /\ UNCHANGED <<task, EV_FINISHED>>
      BY <1>5 DEF itron_wait, itron_destroy, Is, IsOut
    <2>3. pc \in ItronAts \ {"deleted"}
      BY <2>1 DEF ItronAts
    <2>4. /\ UNCHANGED AbstractState
          /\ AbstractWaiter' = [AbstractWaiter EXCEPT ![c] = WaiterAt(pc)]
          /\ AbstractState = "FINISHED" <=> EV_FINISHED
      BY <1>d, <1>g, <2>1, <2>2, <2>3 DEF AbstractState
    <2>5. WaiterAt(pc) = IF pc \in {"wait_dormant", "destroy_dormant"} THEN "seen" ELSE pc
      BY <2>1 DEF WaiterAt
    <2>6. /\ pc = "OK" => AbstractWaiter[c] = "seen"
          /\ pc = "TimedOut" => AbstractWaiter[c] = "waiting"
      BY <1>t, <2>1 DEF WaiterAt, Is
    <2>7. QED
      BY <2>1, <2>4, <2>5, <2>6, AbstractNext
  <1>6. ASSUME NEW c \in Tasks, itron_wait(c) \/ itron_destroy(c), Is(c, "destroy_dormant")
        PROVE  [AItronThread!Next]_(AItronThread!vars)
    <2>1. Goes(c, "deleted") /\ "deleted" \in ItronAts /\ EV_FINISHED
      BY <1>6 DEF itron_wait, itron_destroy, Is, ItronAts, ItronThreadIInv, DestroysAlone
    <2>2. AbstractState = "FINISHED"
      BY <1>6, <1>d, <2>1 DEF AbstractState, Is, IsOut
    <2>3. AbstractState' = "ENDED"
      BY <1>t, <2>1, WaiterGoes DEF AbstractState, Is
    <2>4. AbstractWaiter' = [AbstractWaiter EXCEPT ![c] = "seen"] /\ AbstractWaiter[c] = "seen"
      BY <1>6, <1>t, <2>1, WaiterGoes DEF WaiterAt, Is
    <2>5. UNCHANGED AbstractWaiter
      BY <2>4 DEF AbstractWaiter
    <2>6. QED
      BY <2>2, <2>3, <2>5, AbstractNext
  <1>7. CASE UNCHANGED itronVars
    BY <1>7, AbstractNext DEF itronVars, AbstractState, AbstractWaiter, Is
  <1>8. QED
    BY <1>1, <1>2, <1>3, <1>4, <1>5, <1>6, <1>7 DEF ItronThreadNext, InItronCall

\* The task, its flags and its mutex are the thread of Thread.h.
THEOREM ItronThreadRefinement == ItronThreadSpec => IsItronThread
  BY ItronThreadInvariance, ItronThreadInitRefines, ItronThreadStepRefines, PTL
     DEF ItronThreadSpec, IsItronThread, AItronThread!Spec

-----------------------------------------------------------------------------
(* Priorities.                                                             *)

LEMMA NormalType ==
    ASSUME NEW low \in Int, NEW high \in Int PROVE getNormalPriority(low, high) \in Int
  <1>1. ASSUME NEW n \in Int PROVE Half(n) \in Int
    BY <1>1 DEF Half
  <1>2. QED
    BY <1>1 DEF getNormalPriority

\* The higher of two priorities of a range: see Height.
HigherOrSame(p, q, low, high) == IF low < high THEN p <= q ELSE q <= p
InRange(p, low, high) == p \in getMinPriority(low, high) .. getMaxPriority(low, high)

LEMMA PrioMapIs ==
    ASSUME NEW low \in Int, NEW high \in Int
    PROVE  /\ \A p : p \in DOMAIN PrioMap(low, high) <=> InRange(p, low, high)
           /\ \A p : InRange(p, low, high) =>
                PrioMap(low, high)[p] = IF osPlatform = "Windows"
                                        THEN WindowsPriority(p, low, high)
                                        ELSE PosixPriority(p, low, high)
  BY DEF PrioMap, InRange

\* The map of either platform preserves the order, up and down.
LEMMA MapMonotone ==
    ASSUME NEW low \in Int, NEW high \in Int, NEW p \in Int, NEW q \in Int,
           InRange(p, low, high), InRange(q, low, high), HigherOrSame(p, q, low, high)
    PROVE  /\ PrioMap(low, high)[p] \in Int /\ PrioMap(low, high)[q] \in Int
           /\ PrioMap(low, high)[q] >= PrioMap(low, high)[p]
  <1> DEFINE a == Above(p, low, high)  b == Above(q, low, high)
             rmin == RoundRobin.min  rmax == RoundRobin.max
  <1>1. a \in Int /\ b \in Int /\ a <= b
    <2> getNormalPriority(low, high) \in Int
      BY NormalType
    <2> QED
      BY DEF Above, HigherOrSame, InRange, getMinPriority, getMaxPriority, Least, Greatest
  <1>2. rmin \in Int /\ rmax \in Int /\ rmin <= rmax
        /\ m_defaultPriority \in Int /\ m_defaultPriority <= rmin
    BY PrioritiesAssumption
  <1> HIDE DEF a, b, rmin, rmax
  <1>3. /\ PosixPriority(p, low, high) = IF a > 0 THEN Least(rmax, rmin + a - 1)
                                         ELSE m_defaultPriority
        /\ PosixPriority(q, low, high) = IF b > 0 THEN Least(rmax, rmin + b - 1)
                                         ELSE m_defaultPriority
    BY DEF PosixPriority, a, b, rmin, rmax
  <1>4. /\ PosixPriority(p, low, high) \in Int /\ PosixPriority(q, low, high) \in Int
        /\ PosixPriority(q, low, high) >= PosixPriority(p, low, high)
    BY <1>1, <1>2, <1>3 DEF Least
  <1>5. /\ WindowsPriority(p, low, high) = IF p = high THEN 15 ELSE IF p = low THEN -15
                                           ELSE Greatest(-2, Least(2, a))
        /\ WindowsPriority(q, low, high) = IF q = high THEN 15 ELSE IF q = low THEN -15
                                           ELSE Greatest(-2, Least(2, b))
    BY DEF WindowsPriority, a, b
  <1>6. /\ q = low => p = low \/ low = high
        /\ p = high => q = high
    BY DEF InRange, HigherOrSame, getMinPriority, getMaxPriority, Least, Greatest
  <1>7. /\ WindowsPriority(p, low, high) \in Int /\ WindowsPriority(q, low, high) \in Int
        /\ WindowsPriority(q, low, high) >= WindowsPriority(p, low, high)
    BY <1>1, <1>5, <1>6 DEF Least, Greatest
  <1>8. QED
    BY <1>4, <1>7, PrioMapIs

\* getPriorityHigherThan() stays in the range and does not go down.
LEMMA HigherThanClimbs ==
    ASSUME NEW low \in Int, NEW high \in Int, NEW p \in Int, NEW d \in Nat, InRange(p, low, high)
    PROVE  LET q == getPriorityHigherThan(p, d, low, high)
           IN  q \in Int /\ InRange(q, low, high) /\ HigherOrSame(p, q, low, high)
  BY DEF getPriorityHigherThan, InRange, HigherOrSame, getMinPriority, getMaxPriority, Least,
         Greatest

LEMMA PrioInitInv == PrioInit => PrioIInv
  BY NormalType, PrioritiesAssumption DEF PrioInit, PrioIInv, PrioTypeOK, MapFollowed, Placed

\* A thread that gets a priority is told what the map says of it.
LEMMA SetsPriorityInv ==
    ASSUME PrioIInv, NEW t \in PrioThreads, NEW p \in Int, SetsPriority(t, p)
    PROVE  PrioIInv'
  <1> USE DEF PrioIInv, PrioTypeOK, SetsPriority
  <1>1. m_prioMap' = PrioMap(m_lowestPriority, m_highestPriority)'
    BY DEF MapFollowed, PrioMap
  <1>2. \A q \in DOMAIN m_prioMap : m_prioMap[q] \in Int
    <2> SUFFICES ASSUME NEW q \in DOMAIN m_prioMap PROVE m_prioMap[q] \in Int
      OBVIOUS
    <2>1. InRange(q, m_lowestPriority, m_highestPriority)
      BY PrioMapIs DEF MapFollowed
    <2>2. q \in Int
      BY <2>1 DEF InRange
    <2>3. QED
      BY <2>1, <2>2, MapMonotone DEF MapFollowed, HigherOrSame
  <1>3. QED
    BY <1>1, <1>2 DEF MapFollowed, Placed

LEMMA PrioStepInv == PrioIInv /\ [PrioNext]_prioVars => PrioIInv'
  <1> SUFFICES ASSUME PrioIInv, [PrioNext]_prioVars PROVE PrioIInv'
    OBVIOUS
  <1>1. ASSUME NEW low \in RangeEnds, NEW high \in RangeEnds, setPriorityRange(low, high)
        PROVE  PrioIInv'
    <2>1. PrioTypeOK' /\ \A t \in PrioThreads : nativePriority'[t] = Unset
      BY <1>1, PrioritiesAssumption DEF setPriorityRange, PrioIInv, PrioTypeOK
    <2>2. m_prioMap' = PrioMap(m_lowestPriority, m_highestPriority)'
      BY <1>1 DEF setPriorityRange, PrioMap
    <2>3. QED
      BY <2>1, <2>2 DEF PrioIInv, MapFollowed, Placed
  <1>2. ASSUME NEW t \in PrioThreads, setPriority_inherit(t) PROVE PrioIInv'
    <2>1. ASSUME NEW p \in Int, SetsPriority(t, p) PROVE PrioIInv'
      BY <2>1, SetsPriorityInv
    <2>2. getNormalPriority(m_lowestPriority, m_highestPriority) \in Int
      BY NormalType DEF PrioIInv, PrioTypeOK
    <2>3. \A u \in PrioThreads : thread_m_priority[u] \in Int
      BY DEF PrioIInv, PrioTypeOK
    <2>4. QED
      BY <1>2, <2>1, <2>2, <2>3 DEF setPriority_inherit
  <1>3. ASSUME NEW t \in PrioThreads, NEW p \in DOMAIN m_prioMap, thread_setPriority(t, p)
        PROVE  PrioIInv'
    <2>1. p \in Int
      BY PrioMapIs DEF PrioIInv, PrioTypeOK, MapFollowed, InRange
    <2>2. QED
      BY <1>3, <2>1, SetsPriorityInv DEF thread_setPriority
  <1>4. CASE UNCHANGED prioVars
    <2>1. m_prioMap' = PrioMap(m_lowestPriority, m_highestPriority)'
      BY <1>4 DEF prioVars, PrioIInv, MapFollowed, PrioMap
    <2>2. QED
      BY <1>4, <2>1 DEF prioVars, PrioIInv, PrioTypeOK, MapFollowed, Placed
  <1>5. QED
    BY <1>1, <1>2, <1>3, <1>4 DEF PrioNext

\* On either platform, for every range of priorities: the order of the threads'
\* priorities is that of the system's, and going up does not go down.
THEOREM PriorityOrderKept == PrioSpec => []PriorityOrder
  <1>1. PrioIInv => PriorityOrder
    <2> SUFFICES ASSUME PrioIInv PROVE PriorityOrder
      OBVIOUS
    <2> DEFINE low == m_lowestPriority  high == m_highestPriority
    <2>1. low \in Int /\ high \in Int /\ m_prioMap = PrioMap(low, high)
      BY DEF PrioIInv, PrioTypeOK, MapFollowed
    <2>2. \A p \in DOMAIN m_prioMap : p \in Int /\ InRange(p, low, high)
      BY <2>1, PrioMapIs DEF InRange
    <2> HIDE DEF low, high
    <2>3. ASSUME NEW t \in PrioThreads, NEW u \in PrioThreads, Placed(t), Placed(u),
                 Height(thread_m_priority[t]) >= Height(thread_m_priority[u])
          PROVE  nativePriority[t] >= nativePriority[u]
      <3> DEFINE p == thread_m_priority[t]  q == thread_m_priority[u]
      <3>1. /\ p \in Int /\ InRange(p, low, high) /\ nativePriority[t] = PrioMap(low, high)[p]
            /\ q \in Int /\ InRange(q, low, high) /\ nativePriority[u] = PrioMap(low, high)[q]
        BY <2>1, <2>2, <2>3 DEF Placed, PrioIInv, MapFollowed
      <3>2. HigherOrSame(q, p, low, high)
        BY <2>3, <3>1 DEF Height, HigherOrSame, low, high
      <3>3. QED
        BY <2>1, <3>1, <3>2, MapMonotone
    <2>4. ASSUME NEW p \in DOMAIN m_prioMap, NEW d \in 0 .. 2
          PROVE  m_prioMap[getPriorityHigherThan(p, d, low, high)] >= m_prioMap[p]
      <3>1. d \in Nat /\ p \in Int /\ InRange(p, low, high)
        BY <2>2
      <3> DEFINE q == getPriorityHigherThan(p, d, low, high)
      <3>2. q \in Int /\ InRange(q, low, high) /\ HigherOrSame(p, q, low, high)
        BY <2>1, <3>1, HigherThanClimbs
      <3> HIDE DEF q
      <3>3. m_prioMap[q] >= m_prioMap[p]
        BY <2>1, <3>1, <3>2, MapMonotone
      <3>4. QED
        BY <3>3 DEF q
    <2>5. QED
      BY <2>3, <2>4 DEF PriorityOrder, low, high
  <1>2. PrioSpec => []PrioIInv
    BY PrioInitInv, PrioStepInv, PTL DEF PrioSpec
  <1>3. QED
    BY <1>1, <1>2, PTL

=============================================================================
