----------------------- MODULE SynchronizationProofs ------------------------
(***************************************************************************)
(* Mutexes, the event flag, the timers of Windows and the periodic timer,  *)
(* for every set of callers, of waiters and of bits.                       *)
(***************************************************************************)
EXTENDS StdCppMutex, ItronMutex, StdCppEventFlag, WindowsTimer, PeriodicTimer, TLAPS

-----------------------------------------------------------------------------
(* One StdCppMutex: the count is right.                                    *)

LEMMA MutexInitInv == MutexInit => MutexIInv
  <1> SUFFICES ASSUME MutexInit PROVE MutexIInv
    OBVIOUS
  <1> USE MutexAssumption, OSWrapperAssumption DEF MutexInit
  <1>1. MutexTypeOK
    <2>1. m_mutex_owner \in Callers \cup {Nobody} /\ m_mutex_depth \in 0 .. MaxDepth
          /\ m_lockingCount \in Nat
      OBVIOUS
    <2>2. mutexCall \in [Callers -> Calls]
      BY DEF Calls
    <2>3. mutexResult \in [Callers -> {"none", "OK", "TimedOut", "OtherError", "NotLocked"}]
      OBVIOUS
    <2>4. QED
      BY <2>1, <2>2, <2>3 DEF MutexTypeOK
  <1>2. CountFollows
    BY DEF CountFollows
  <1>3. LockedIsOK
    BY DEF LockedIsOK
  <1>4. QED
    BY <1>1, <1>2, <1>3 DEF MutexIInv

\* Threads that do not trespass are in their unlock() only while they own the mutex.
LEMMA MutexStepInv ==
    ASSUME ~Trespass PROVE MutexIInv /\ [MutexNext]_mutexVars => MutexIInv'
  <1> SUFFICES ASSUME MutexIInv, [MutexNext]_mutexVars PROVE MutexIInv'
    OBVIOUS
  <1> USE MutexAssumption, OSWrapperAssumption
         DEF MutexIInv, MutexTypeOK, CountFollows, LockedIsOK, MutexGoes, Calls
  <1>1. ASSUME NEW c \in Callers, mutex_call(c) PROVE MutexIInv'
    BY <1>1 DEF mutex_call
  <1>2. ASSUME NEW c \in Callers, mutex_take(c) PROVE MutexIInv'
    BY <1>2 DEF mutex_take
  <1>3. ASSUME NEW c \in Callers, mutex_count(c) PROVE MutexIInv'
    BY <1>3 DEF mutex_count
  <1>4. ASSUME NEW c \in Callers, mutex_fail(c) PROVE MutexIInv'
    BY <1>4 DEF mutex_fail
  <1>5. ASSUME NEW c \in Callers, unlock_count(c) PROVE MutexIInv'
    <2>1. CASE m_lockingCount = 0
      BY <1>5, <2>1 DEF unlock_count
    <2>2. CASE m_lockingCount # 0
      <3>1. m_mutex_owner = c
        BY <1>5, <2>2 DEF unlock_count
      <3>2. QED
        BY <1>5, <2>2, <3>1 DEF unlock_count
    <2>3. QED
      BY <2>1, <2>2
  <1>6. ASSUME NEW c \in Callers, unlock_mutex(c) PROVE MutexIInv'
    <2>1. m_mutex_owner = c /\ m_mutex_depth > 0
      BY <1>6 DEF unlock_mutex
    <2>2. /\ m_mutex_depth' = m_mutex_depth - 1
          /\ m_mutex_owner' = IF m_mutex_depth = 1 THEN Nobody ELSE c
      BY <1>6, <2>1 DEF unlock_mutex
    <2>3. QED
      BY <1>6, <2>1, <2>2 DEF unlock_mutex
  <1>7. CASE UNCHANGED mutexVars
    BY <1>7 DEF mutexVars
  <1>8. QED
    BY <1>1, <1>2, <1>3, <1>4, <1>5, <1>6, <1>7 DEF MutexNext

\* The invariant that the theorems and the refinement rest on.
THEOREM MutexInvariance == ASSUME ~Trespass PROVE MutexSpec => []MutexIInv
  BY MutexInitInv, MutexStepInv, PTL DEF MutexSpec

\* The state is of its type.
THEOREM MutexTypeCorrect == ASSUME ~Trespass PROVE MutexSpec => []MutexTypeOK
  BY MutexInvariance, PTL DEF MutexIInv

\* The count that unlock() reads without the mutex is right for the thread that holds
\* it, as long as no thread unlocks what another has locked.
THEOREM CountRight == ASSUME ~Trespass PROVE MutexSpec => []CountFollows
  BY MutexInvariance, PTL DEF MutexIInv

-----------------------------------------------------------------------------
(* Its refinement of AbstractMutex.                                        *)

LEMMA MutexInitRefines == MutexInit => AMutex!Init
  BY DEF MutexInit, AMutex!Init

LEMMA MutexStepRefines ==
    ASSUME ~Trespass
    PROVE  MutexIInv /\ [MutexNext]_mutexVars => [AMutex!Next]_(AMutex!vars)
  <1> SUFFICES ASSUME MutexIInv, [MutexNext]_mutexVars PROVE [AMutex!Next]_(AMutex!vars)
    OBVIOUS
  <1> USE MutexAssumption, OSWrapperAssumption
         DEF MutexIInv, MutexTypeOK, CountFollows, LockedIsOK, MutexGoes, Calls,
              AMutex!vars, AMutex!Next, AMutex!Returns
  <1>1. ASSUME NEW c \in Callers, mutex_call(c) PROVE [AMutex!Next]_(AMutex!vars)
    BY <1>1 DEF mutex_call, AMutex!Forget
  <1>2. ASSUME NEW c \in Callers, mutex_take(c) PROVE [AMutex!Next]_(AMutex!vars)
    BY <1>2 DEF mutex_take, AMutex!Lock
  <1>3. ASSUME NEW c \in Callers, mutex_count(c) PROVE [AMutex!Next]_(AMutex!vars)
    BY <1>3 DEF mutex_count
  <1>4. ASSUME NEW c \in Callers, mutex_fail(c) PROVE [AMutex!Next]_(AMutex!vars)
    BY <1>4 DEF mutex_fail, AMutex!LockFails
  <1>5. ASSUME NEW c \in Callers, unlock_count(c) PROVE [AMutex!Next]_(AMutex!vars)
    <2>1. CASE m_lockingCount = 0
      BY <1>5, <2>1 DEF unlock_count, AMutex!UnlockFails
    <2>2. CASE m_lockingCount # 0
      BY <1>5, <2>2 DEF unlock_count
    <2>3. QED
      BY <2>1, <2>2
  <1>6. ASSUME NEW c \in Callers, unlock_mutex(c) PROVE [AMutex!Next]_(AMutex!vars)
    <2>1. m_mutex_owner = c /\ m_mutex_depth > 0
      BY <1>6 DEF unlock_mutex
    <2>2. /\ m_mutex_depth' = m_mutex_depth - 1
          /\ m_mutex_owner' = IF m_mutex_depth = 1 THEN Nobody ELSE c
      BY <1>6, <2>1 DEF unlock_mutex
    <2>3. QED
      BY <1>6, <2>1, <2>2 DEF unlock_mutex, AMutex!Unlock
  <1>7. CASE UNCHANGED mutexVars
    BY <1>7 DEF mutexVars
  <1>8. QED
    BY <1>1, <1>2, <1>3, <1>4, <1>5, <1>6, <1>7 DEF MutexNext

\* Every behaviour of the mutex is one of a recursive lock, as long as no thread unlocks
\* it while another has locked it.
THEOREM MutexRefinement == ASSUME ~Trespass PROVE MutexSpec => IsMutex
  BY MutexInvariance, MutexInitRefines, MutexStepRefines, PTL DEF MutexSpec, IsMutex, AMutex!Spec

-----------------------------------------------------------------------------
(* One ItronMutex: the owner stays.                                        *)

LEMMA ItronMutexInitInv == ItronMutexInit => ItronMutexIInv
  BY ItronMutexAssumption, OSWrapperAssumption
     DEF ItronMutexInit, ItronMutexIInv, ItronMutexTypeOK, OwnerKept, KernelGoes,
         isLockedByThisThread

LEMMA ItronMutexStepInv == ItronMutexIInv /\ [ItronMutexNext]_itronMutexVars => ItronMutexIInv'
  <1> SUFFICES ASSUME ItronMutexIInv, [ItronMutexNext]_itronMutexVars PROVE ItronMutexIInv'
    OBVIOUS
  <1> USE ItronMutexAssumption, OSWrapperAssumption
         DEF ItronMutexIInv, ItronMutexTypeOK, OwnerKept, KernelGoes, isLockedByThisThread
  <1>1. ASSUME NEW c \in Callers, itron_mutex_call(c) PROVE ItronMutexIInv'
    BY <1>1 DEF itron_mutex_call
  <1>2. ASSUME NEW c \in Callers, tloc_mtx(c) PROVE ItronMutexIInv'
    BY <1>2 DEF tloc_mtx
  <1>3. ASSUME NEW c \in Callers, itron_relock(c) PROVE ItronMutexIInv'
    BY <1>3 DEF itron_relock
  <1>4. ASSUME NEW c \in Callers, itron_unlock(c) PROVE ItronMutexIInv'
    BY <1>4 DEF itron_unlock
  <1>5. ASSUME NEW c \in Callers, unl_mtx(c) PROVE ItronMutexIInv'
    BY <1>5 DEF unl_mtx
  <1>6. CASE UNCHANGED itronMutexVars
    BY <1>6 DEF itronMutexVars
  <1>7. QED
    BY <1>1, <1>2, <1>3, <1>4, <1>5, <1>6 DEF ItronMutexNext

\* The invariant that the theorems and the refinement rest on.
THEOREM ItronMutexInvariance == ItronMutexSpec => []ItronMutexIInv
  BY ItronMutexInitInv, ItronMutexStepInv, PTL DEF ItronMutexSpec

\* The state is of its type.
THEOREM ItronMutexTypeCorrect == ItronMutexSpec => []ItronMutexTypeOK
  BY ItronMutexInvariance, PTL DEF ItronMutexIInv

\* What isLockedByThisThread() told a task is still so when it acts on it.
THEOREM OwnerStays == ItronMutexSpec => []OwnerKept
  BY ItronMutexInvariance, PTL DEF ItronMutexIInv

-----------------------------------------------------------------------------
(* Its refinement of AbstractMutex.                                        *)

LEMMA ItronMutexInitRefines == ItronMutexInit => AItronMutex!Init
  BY DEF ItronMutexInit, AItronMutex!Init

LEMMA ItronMutexStepRefines ==
    ItronMutexIInv /\ [ItronMutexNext]_itronMutexVars => [AItronMutex!Next]_(AItronMutex!vars)
  <1> SUFFICES ASSUME ItronMutexIInv, [ItronMutexNext]_itronMutexVars
               PROVE [AItronMutex!Next]_(AItronMutex!vars)
    OBVIOUS
  <1> USE ItronMutexAssumption, OSWrapperAssumption
         DEF ItronMutexIInv, ItronMutexTypeOK, OwnerKept, KernelGoes, isLockedByThisThread,
              AItronMutex!vars, AItronMutex!Next, AItronMutex!Returns
  <1>1. ASSUME NEW c \in Callers, itron_mutex_call(c) PROVE [AItronMutex!Next]_(AItronMutex!vars)
    BY <1>1 DEF itron_mutex_call, AItronMutex!Forget
  <1>2. ASSUME NEW c \in Callers, tloc_mtx(c) PROVE [AItronMutex!Next]_(AItronMutex!vars)
    BY <1>2 DEF tloc_mtx, AItronMutex!Lock, AItronMutex!LockFails, AItronMutex!Forget
  <1>3. ASSUME NEW c \in Callers, itron_relock(c) PROVE [AItronMutex!Next]_(AItronMutex!vars)
    BY <1>3 DEF itron_relock, AItronMutex!Lock, AItronMutex!LockFails
  <1>4. ASSUME NEW c \in Callers, itron_unlock(c) PROVE [AItronMutex!Next]_(AItronMutex!vars)
    BY <1>4 DEF itron_unlock, AItronMutex!Unlock, AItronMutex!Forget
  <1>5. ASSUME NEW c \in Callers, unl_mtx(c) PROVE [AItronMutex!Next]_(AItronMutex!vars)
    BY <1>5 DEF unl_mtx, AItronMutex!Unlock, AItronMutex!UnlockFails
  <1>6. CASE UNCHANGED itronMutexVars
    BY <1>6 DEF itronMutexVars
  <1>7. QED
    BY <1>1, <1>2, <1>3, <1>4, <1>5, <1>6 DEF ItronMutexNext

\* Every behaviour of the mutex is one of a recursive lock, although the count is
\* changed in another step than the one that looks who holds the mutex.
THEOREM ItronMutexRefinement == ItronMutexSpec => IsItronMutex
  BY ItronMutexInvariance, ItronMutexInitRefines, ItronMutexStepRefines, PTL
     DEF ItronMutexSpec, IsItronMutex, AItronMutex!Spec

-----------------------------------------------------------------------------
(* StdCppEventFlag.                                                        *)

LEMMA FlagInitInv == FlagInit => FlagIInv
  BY DEF FlagInit, FlagIInv, FlagTypeOK, OneSetOnePass, FlagSleepersRight, PassResets, FlagIdle,
         Patterns

\* A wait has something to wait for, which the empty pattern does not give it.
LEMMA NothingOn ==
    ASSUME NEW w \in Waits, m_pattern = {} PROVE ~FlagOn(w)
  BY DEF FlagOn, Waits

\* A wait that passes: as the pattern it passed by was not empty, none had passed
\* since the last set().
LEMMA FlagPassInv ==
    ASSUME FlagIInv, NEW c \in Waiters, NEW w \in Waits, FlagOn(w), FlagPass(c)
    PROVE  FlagIInv'
  <1> USE DEF FlagIInv, FlagTypeOK, OneSetOnePass, PassResets, FlagPass
  <1>1. flagPasses = 0
    BY NothingOn
  <1>2. FlagTypeOK'
    BY <1>1 DEF Patterns
  <1>3. FlagSleepersRight'
    <2> SUFFICES ASSUME NEW d \in Waiters, flagWaiter'[d].at = "asleep"
                 PROVE  ~FlagOn(flagWaiter[d])'
      BY DEF FlagSleepersRight
    <2>1. flagWaiter'[d] = flagWaiter[d] /\ flagWaiter[d] \in Waits
      BY DEF FlagIdle
    <2>2. ~FlagOn(flagWaiter[d])
      BY <2>1 DEF FlagSleepersRight
    <2>3. CASE m_autoReset
      BY <2>1, <2>3 DEF FlagOn, Waits
    <2>4. CASE ~m_autoReset
      BY <2>1, <2>2, <2>4 DEF FlagOn
    <2>5. QED
      BY <2>3, <2>4
  <1>4. flagPasses' <= 1 /\ PassResets'
    BY <1>1
  <1>5. QED
    BY <1>2, <1>3, <1>4

\* A wait that looks passes or falls asleep.
LEMMA FlagLookInv ==
    ASSUME FlagIInv, NEW c \in Waiters, NEW w \in Waits, FlagLook(c, w)
    PROVE  FlagIInv'
  <1>1. CASE FlagOn(w)
    BY <1>1, FlagPassInv DEF FlagLook
  <1>2. CASE ~FlagOn(w)
    <2> DEFINE v == [w EXCEPT !.at = "asleep"]
    <2>1. v \in Waits /\ v.want = w.want /\ v.mode = w.mode
      BY DEF Waits
    <2>2. /\ flagWaiter' = [flagWaiter EXCEPT ![c] = v]
          /\ UNCHANGED <<m_autoReset, m_pattern, flagPasses>>
      BY <1>2 DEF FlagLook
    <2>3. ~FlagOn(v)'
      BY <1>2, <2>1, <2>2 DEF FlagOn
    <2> HIDE DEF v
    <2>4. FlagTypeOK'
      BY <2>1, <2>2 DEF FlagIInv, FlagTypeOK
    <2>5. FlagSleepersRight'
      BY <2>2, <2>3 DEF FlagIInv, FlagTypeOK, OneSetOnePass, FlagSleepersRight, FlagOn
    <2>6. QED
      BY <2>2, <2>4, <2>5 DEF FlagIInv, OneSetOnePass, PassResets
  <1>3. QED
    BY <1>1, <1>2

LEMMA FlagStepInv == FlagIInv /\ [FlagNext]_flagVars => FlagIInv'
  <1> SUFFICES ASSUME FlagIInv, [FlagNext]_flagVars PROVE FlagIInv'
    OBVIOUS
  <1> USE DEF FlagIInv
  <1>1. ASSUME NEW c \in Waiters, timedWait_begin(c) PROVE FlagIInv'
    BY <1>1, FlagLookInv DEF timedWait_begin
  <1>2. ASSUME NEW c \in Waiters, timedWait_look(c) PROVE FlagIInv'
    BY <1>2, FlagLookInv DEF timedWait_look, FlagTypeOK, FlagIdle
  <1>3. ASSUME NEW c \in Waiters, timedWait_timeout(c) PROVE FlagIInv'
    <2>1. flagWaiter[c] \in Waits
      BY <1>3 DEF timedWait_timeout, FlagTypeOK, FlagIdle
    <2>2. CASE FlagOn(flagWaiter[c])
      BY <1>3, <2>1, <2>2, FlagPassInv DEF timedWait_timeout
    <2>3. CASE ~FlagOn(flagWaiter[c])
      BY <1>3, <2>3
         DEF timedWait_timeout, FlagTypeOK, OneSetOnePass, FlagSleepersRight, PassResets,
             FlagIdle, FlagOn
    <2>4. QED
      BY <2>2, <2>3
  <1>4. ASSUME NEW bitPattern \in Patterns, set(bitPattern) PROVE FlagIInv'
    <2>1. \A d \in Waiters :
            flagWaiter'[d] \in Waits \cup {FlagIdle} /\ flagWaiter'[d].at # "asleep"
      BY <1>4 DEF set, FlagTypeOK, FlagIdle, Waits
    <2>2. QED
      BY <1>4, <2>1 DEF set, FlagTypeOK, OneSetOnePass, FlagSleepersRight, PassResets, Patterns
  <1>5. ASSUME NEW bitPattern \in Patterns, reset(bitPattern) PROVE FlagIInv'
    <2>1. FlagTypeOK' /\ PassResets' /\ flagPasses' <= 1
      BY <1>5 DEF reset, FlagTypeOK, OneSetOnePass, PassResets, Patterns
    <2>2. FlagSleepersRight'
      BY <1>5 DEF reset, FlagTypeOK, OneSetOnePass, FlagSleepersRight, FlagOn
    <2>3. QED
      BY <2>1, <2>2 DEF OneSetOnePass
  <1>6. CASE UNCHANGED flagVars
    BY <1>6
       DEF flagVars, FlagTypeOK, OneSetOnePass, FlagSleepersRight, FlagOn, PassResets
  <1>7. QED
    BY <1>1, <1>2, <1>3, <1>4, <1>5, <1>6 DEF FlagNext

\* The invariant that the theorem rests on.
THEOREM FlagInvariance == FlagSpec => []FlagIInv
  BY FlagInitInv, FlagStepInv, PTL DEF FlagSpec

\* One set() of an auto-reset flag lets one wait pass, whatever the threads wait for,
\* and no thread sleeps while its condition holds.
THEOREM OnePassPerSet == FlagSpec => []OneSetOnePass
  BY FlagInvariance, PTL DEF FlagIInv

-----------------------------------------------------------------------------
(* The timers of Windows.                                                  *)

LEMMA TimerInitInv == TimerInit => TimerIInv
  BY DEF TimerInit, TimerIInv, TimerTypeOK, EventKillable, CallbackSeen

LEMMA TimerStepInv == TimerIInv /\ [TimerNext]_timerVars => TimerIInv'
  <1> SUFFICES ASSUME TimerIInv, [TimerNext]_timerVars PROVE TimerIInv'
    OBVIOUS
  <1> USE DEF TimerIInv, TimerTypeOK, EventKillable, CallbackSeen
  <1>1. CASE timer_enter
    BY <1>1 DEF timer_enter
  <1>2. CASE timerFunc_reset
    BY <1>2 DEF timerFunc_reset
  <1>3. CASE timerFunc_main
    BY <1>3 DEF timerFunc_main
  <1>4. CASE timerFunc_finish
    BY <1>4 DEF timerFunc_finish
  <1>5. CASE timerFunc_set
    BY <1>5 DEF timerFunc_set
  <1>6. CASE timerFunc_leave
    BY <1>6 DEF timerFunc_leave
  <1>7. CASE timer_start
    BY <1>7 DEF timer_start, MutexFree
  <1>8. CASE timer_stop
    BY <1>8 DEF timer_stop, Stops
  <1>9. CASE timer_destroy
    BY <1>9 DEF timer_destroy, Stops
  <1>10. CASE timer_delete
    BY <1>10 DEF timer_delete
  <1>11. CASE UNCHANGED timerVars
    BY <1>11 DEF timerVars
  <1>12. QED
    BY <1>1, <1>2, <1>3, <1>4, <1>5, <1>6, <1>7, <1>8, <1>9, <1>10, <1>11 DEF TimerNext

LEMMA TimerStepSettles ==
    TimerIInv /\ [TimerNext]_timerVars =>
        \/ /\ ~Deleted /\ Deleted' => callback \notin {"main", "over", "finish"}
           /\ Deleted' => ~timeEvent' /\ (callback' = "entered" => callback = "entered")
        \/ UNCHANGED timerVars
  <1> SUFFICES ASSUME TimerIInv, TimerNext
               PROVE  /\ ~Deleted /\ Deleted' => callback \notin {"main", "over", "finish"}
                      /\ Deleted' =>
                            ~timeEvent' /\ (callback' = "entered" => callback = "entered")
    OBVIOUS
  <1>1. ~Deleted /\ Deleted' => callback \notin {"main", "over", "finish"}
    <2> SUFFICES ASSUME ~Deleted, Deleted' PROVE callback \notin {"main", "over", "finish"}
      OBVIOUS
    <2>1. m_evFinished
      BY DEF Deleted, TimerNext, timer_enter, timerFunc_reset, timerFunc_main, timerFunc_finish,
             timerFunc_set, timerFunc_leave, timer_start, timer_stop, timer_destroy, timer_delete
    <2>2. QED
      BY <2>1 DEF TimerIInv, CallbackSeen
  <1>2. Deleted' => ~timeEvent'
    BY TimerStepInv DEF Deleted, TimerIInv, EventKillable
  <1>3. Deleted' /\ callback' = "entered" => callback = "entered"
    BY DEF Deleted, TimerIInv, EventKillable, TimerNext, timer_enter, timerFunc_reset,
           timerFunc_main, timerFunc_finish, timerFunc_set, timerFunc_leave, timer_start,
           timer_stop, timer_destroy, timer_delete
  <1>4. QED
    BY <1>1, <1>2, <1>3

\* The destructor of either timer does not return while the Runnable runs, and after it
\* no callback enters any more: one that entered before is the only one that may still
\* call the Runnable.
THEOREM OneLateCallAtMost == TimerSpec => AtMostOneLateCall
  <1>1. TimerSpec => []TimerIInv
    BY TimerInitInv, TimerStepInv, PTL DEF TimerSpec
  <1>2. QED
    BY <1>1, TimerStepSettles, PTL DEF TimerSpec, AtMostOneLateCall

-----------------------------------------------------------------------------
(* The periodic timer, whatever the Runnable calls.                        *)

LEMMA PeriodicInitInv == Init => IInv
  BY PTAssumption DEF Init, IInv, TypeOK, Handshake, CallInv, Actors, AtLoop

LEMMA PeriodicStepInv == IInv /\ [Next]_vars => IInv'
  <1> SUFFICES ASSUME IInv, [Next]_vars PROVE IInv'
    OBVIOUS
  <1> USE PTAssumption DEF IInv, TypeOK, Handshake, CallInv, Actors,
                           AtStart, AtStop, AtTop, AtLoop, MayCall, CallGoTo,
                           NotifyActive, NotifyStarted, NotifyStopped
  <1>1. ASSUME NEW a \in Actors, NEW f \in {"start", "stop"}, Call(a, f) PROVE IInv'
    BY <1>1 DEF Call
  <1>2. ASSUME NEW a \in Actors, StartIgnored(a) PROVE IInv'
    BY <1>2 DEF StartIgnored
  <1>3. ASSUME NEW a \in Actors, StartWait(a) PROVE IInv'
    BY <1>3 DEF StartWait
  <1>4. ASSUME NEW a \in Actors, Start(a) PROVE IInv'
    BY <1>4 DEF Start
  <1>5. ASSUME NEW a \in Actors, StopIgnored(a) PROVE IInv'
    BY <1>5 DEF StopIgnored
  <1>6. ASSUME NEW a \in Actors, StopWait(a) PROVE IInv'
    BY <1>6 DEF StopWait
  <1>7. ASSUME NEW a \in Actors, Stop(a) PROVE IInv'
    BY <1>7 DEF Stop
  <1>8. CASE AwaitStart
    BY <1>8 DEF AwaitStart
  <1>9. CASE BeginLoop
    BY <1>9 DEF BeginLoop
  <1>10. CASE WaitPeriod
    BY <1>10 DEF WaitPeriod
  <1>11. CASE LeaveLoop
    BY <1>11 DEF LeaveLoop
  <1>12. CASE Elapse
    BY <1>12 DEF Elapse
  <1>13. CASE TimerMain
    BY <1>13 DEF TimerMain
  <1>14. CASE Destroy
    BY <1>14 DEF Destroy
  <1>15. CASE UNCHANGED vars
    BY <1>15 DEF vars
  <1>16. QED
    BY <1>1, <1>2, <1>3, <1>4, <1>5, <1>6, <1>7, <1>8, <1>9, <1>10, <1>11, <1>12, <1>13, <1>14,
       <1>15
       DEF Next, CallStep, ThreadStep

\* The inductive invariant of the periodic timer.
THEOREM PeriodicInvariance == Spec => []IInv
  BY PeriodicInitInv, PeriodicStepInv, PTL DEF Spec

\* The state is of its type, and the thread ends only when it is told to.
THEOREM PeriodicTypeCorrect == Spec => []TypeOK
  BY PeriodicInvariance, PTL DEF IInv

\* The flags agree with the place of the thread.
THEOREM PeriodicHandshake == Spec => []Handshake
  BY PeriodicInvariance, PTL DEF IInv

-----------------------------------------------------------------------------
(* Its refinement of AbstractTimer.                                        *)

LEMMA PeriodicInitRefines == Init => Promise!Init
  BY PTAssumption DEF Init, Promise!Init

LEMMA PeriodicStepRefines == IInv /\ [Next]_vars => [Promise!Next]_(Promise!vars)
  <1> SUFFICES ASSUME IInv, [Next]_vars PROVE [Promise!Next]_(Promise!vars)
    OBVIOUS
  <1> USE PTAssumption DEF IInv, TypeOK, Handshake, CallInv, Actors,
                           AtStart, AtStop, AtTop, AtLoop, MayCall, CallGoTo,
                           NotifyActive, Promise!vars
  <1>1. ASSUME NEW a \in Actors, NEW f \in {"start", "stop"}, Call(a, f)
        PROVE  [Promise!Next]_(Promise!vars)
    BY <1>1 DEF Call
  <1>2. ASSUME NEW a \in Actors, StartIgnored(a) PROVE [Promise!Next]_(Promise!vars)
    BY <1>2 DEF StartIgnored
  <1>3. ASSUME NEW a \in Actors, StartWait(a) PROVE [Promise!Next]_(Promise!vars)
    BY <1>3 DEF StartWait
  <1>4. ASSUME NEW a \in Actors, Start(a) PROVE [Promise!Next]_(Promise!vars)
    BY <1>4 DEF Start, Promise!Next, Promise!Start
  <1>5. ASSUME NEW a \in Actors, StopIgnored(a) PROVE [Promise!Next]_(Promise!vars)
    BY <1>5 DEF StopIgnored
  <1>6. ASSUME NEW a \in Actors, StopWait(a) PROVE [Promise!Next]_(Promise!vars)
    BY <1>6 DEF StopWait
  <1>7. ASSUME NEW a \in Actors, Stop(a) PROVE [Promise!Next]_(Promise!vars)
    BY <1>7 DEF Stop, Promise!Next, Promise!Stop
  <1>8. CASE AwaitStart
    BY <1>8 DEF AwaitStart
  <1>9. CASE BeginLoop
    BY <1>9 DEF BeginLoop
  <1>10. CASE WaitPeriod
    BY <1>10 DEF WaitPeriod
  <1>11. CASE LeaveLoop
    BY <1>11 DEF LeaveLoop
  <1>12. CASE Elapse
    BY <1>12 DEF Elapse, Promise!Next, Promise!Fire
  <1>13. CASE TimerMain
    BY <1>13 DEF TimerMain, Promise!Next, Promise!Done
  <1>14. CASE Destroy
    BY <1>14 DEF Destroy
  <1>15. CASE UNCHANGED vars
    BY <1>15 DEF vars
  <1>16. QED
    BY <1>1, <1>2, <1>3, <1>4, <1>5, <1>6, <1>7, <1>8, <1>9, <1>10, <1>11, <1>12, <1>13, <1>14,
       <1>15
       DEF Next, CallStep, ThreadStep

\* Every behaviour of the timer is one of a periodic timer: the Runnable is
\* called only while the timer is started, and no restart overlaps a call.
THEOREM PeriodicTimerRefinement == Spec => IsPeriodicTimer
  BY PeriodicInvariance, PeriodicInitRefines, PeriodicStepRefines, PTL
     DEF Spec, IsPeriodicTimer, Promise!Spec

=============================================================================
