-------------------------- MODULE ThreadPoolProofs --------------------------
(***************************************************************************)
(* The safety of the thread pool for every number of threads and of        *)
(* clients, whatever calls the tasks make.                                 *)
(***************************************************************************)
EXTENDS ThreadPool, SequenceTheorems, TLAPS

\* All that the proofs need to know of the constants.
LEMMA PoolFacts ==
    /\ None \notin Actors /\ None \notin Runners
    /\ Actors = Clients \cup Runners
    /\ Clients \cap Runners = {}
    /\ Default \in Priorities
    /\ \A a \in Actors : TimeoutsOf(a) \subseteq {"POLLING", "FOREVER"}
  BY TPAssumption DEF Actors, TimeoutsOf

\* The runner at the head of the queue, and the ones that remain.
LEMMA QueueHead ==
    TypeOK /\ free # <<>> =>
        /\ Head(free) \in Runners
        /\ Head(free) = free[1]
        /\ 1 \in 1..Len(free)
        /\ Tail(free) \in Seq(Runners)
        /\ Len(Tail(free)) = Len(free) - 1
        /\ \A i \in 1..Len(Tail(free)) :
              i + 1 \in 1..Len(free) /\ Tail(free)[i] = free[i + 1]
  BY HeadTailProperties, EmptySeq DEF TypeOK

LEMMA NFact == N \in Nat /\ N # 0
  BY TPAssumption

LEMMA InitIInv == Init => IInv
  <1> SUFFICES ASSUME Init PROVE IInv
    OBVIOUS
  <1> USE PoolFacts
  <1>1. /\ free \in Seq(Runners)
        /\ Len(free) = N
        /\ \A i \in 1..Len(free) : free[i] = i /\ i \in Runners
    BY NFact DEF Init, Runners
  <1>2. TypeOK
    BY <1>1, NFact DEF Init, TypeOK, NoCall
  <1>3. \A a \in Actors, r \in Runners : ~Uses(a, r)
    BY DEF Init, Uses
  <1>4. \A r \in Runners : ~Busy(r)
    BY DEF Init, Busy
  <1>5. QueueInv
    BY <1>1, <1>3, <1>4 DEF Init, QueueInv
  <1>6. ThreadInv
    BY <1>4 DEF Init, ThreadInv
  <1>7. UserInv
    BY <1>3 DEF Init, UserInv
  <1>8. StartNotSwallowed /\ WaitInv /\ TakenInv /\ DoneInv
    BY DEF Init, StartNotSwallowed, WaitInv, TakenInv, DoneInv
  <1>9. QED
    BY <1>2, <1>5, <1>6, <1>7, <1>8 DEF IInv

\* Two calls that have taken a runner have not taken the same one.
LEMMA HandsApart ==
    IInv =>
        \A a, b \in Actors :
            /\ cpc[a] \in {"join", "setup", "start"}
            /\ cpc[b] \in {"join", "setup", "start"}
            /\ hand[a] = hand[b]
            => a = b
  <1> SUFFICES ASSUME IInv, NEW a \in Actors, NEW b \in Actors,
                      cpc[a] \in {"join", "setup", "start"},
                      cpc[b] \in {"join", "setup", "start"},
                      hand[a] = hand[b]
               PROVE  a = b
    OBVIOUS
  <1>1. hand[a] \in Runners /\ Uses(a, hand[a]) /\ Uses(b, hand[a])
    BY DEF IInv, TypeOK, Uses
  <1>2. QED
    BY <1>1 DEF IInv, UserInv

LEMMA TypeStep == IInv /\ [Next]_vars => TypeOK'
  <1> SUFFICES ASSUME IInv, [Next]_vars PROVE TypeOK'
    OBVIOUS
  <1> USE PoolFacts DEF IInv, TypeOK, TimeoutsOf, NoCall, UserInv,
      CallGoTo, ThreadGoTo, Return, MayCall, runnerVars, callVars
  <1>1. ASSUME NEW a \in Actors, Call(a) PROVE TypeOK'
    BY <1>1 DEF Call
  <1>2. ASSUME NEW a \in Actors, Release(a) PROVE TypeOK'
    BY <1>2 DEF Release
  <1>3. ASSUME NEW a \in Actors, TakeRunner(a) PROVE TypeOK'
    BY <1>3 DEF TakeRunner
  <1>4. ASSUME NEW a \in Actors, TakeTimeout(a) PROVE TypeOK'
    BY <1>4 DEF TakeTimeout
  <1>5. ASSUME NEW a \in Actors, JoinThread(a) PROVE TypeOK'
    BY <1>5 DEF JoinThread
  <1>6. ASSUME NEW a \in Actors, JoinTimeout(a) PROVE TypeOK'
    BY <1>6 DEF JoinTimeout
  <1>7. ASSUME NEW a \in Actors, SetUp(a) PROVE TypeOK'
    BY <1>7 DEF SetUp
  <1>8. ASSUME NEW a \in Actors, StartThread(a) PROVE TypeOK'
    BY <1>8 DEF StartThread
  <1>9. ASSUME NEW a \in Actors, BindGuard(a) PROVE TypeOK'
    BY <1>9 DEF BindGuard
  <1>10. ASSUME NEW a \in Actors, WaitFinished(a) PROVE TypeOK'
    BY <1>10 DEF WaitFinished
  <1>11. ASSUME NEW a \in Actors, ResetEvent(a) PROVE TypeOK'
    BY <1>11 DEF ResetEvent
  <1>12. ASSUME NEW a \in Actors, GiveBack(a) PROVE TypeOK'
    BY <1>12 DEF GiveBack
  <1>13. ASSUME NEW r \in Runners, BeginTask(r) PROVE TypeOK'
    BY <1>13 DEF BeginTask
  <1>14. ASSUME NEW r \in Runners, EndTask(r) PROVE TypeOK'
    BY <1>14 DEF EndTask
  <1>15. ASSUME NEW r \in Runners, AfterInvoke(r) PROVE TypeOK'
    BY <1>15 DEF AfterInvoke
  <1>16. ASSUME NEW r \in Runners, NotifyFinished(r) PROVE TypeOK'
    BY <1>16 DEF NotifyFinished
  <1>17. ASSUME NEW r \in Runners, ResetOwn(r) PROVE TypeOK'
    BY <1>17 DEF ResetOwn
  <1>18. ASSUME NEW r \in Runners, ReleaseOwn(r) PROVE TypeOK'
    BY <1>18 DEF ReleaseOwn
  <1>19. ASSUME NEW r \in Runners, Finish(r) PROVE TypeOK'
    BY <1>19 DEF Finish
  <1>20. CASE Destroy
    BY <1>20 DEF Destroy
  <1>21. CASE WaitThreads
    <2>1. CASE next <= N
      BY <1>21, <2>1, NFact DEF WaitThreads
    <2>2. CASE ~(next <= N)
      BY <1>21, <2>2 DEF WaitThreads
    <2>3. QED
      BY <2>1, <2>2
  <1>22. CASE DestroyTake
    <2>1. Head(free) \in 1..N + 1 /\ Tail(free) \in Seq(Runners)
      BY <1>22, QueueHead, NFact DEF DestroyTake, Runners
    <2>2. QED
      BY <1>22, <2>1 DEF DestroyTake
  <1>23. CASE DestroyRunner
    BY <1>23 DEF DestroyRunner
  <1>24. CASE DestroyMembers
    BY <1>24 DEF DestroyMembers
  <1>25. CASE UNCHANGED vars
    BY <1>25 DEF vars
  <1>26. QED
    BY <1>1, <1>2, <1>3, <1>4, <1>5, <1>6, <1>7, <1>8, <1>9, <1>10, <1>11, <1>12, <1>13, <1>14,
       <1>15, <1>16, <1>17, <1>18, <1>19, <1>20, <1>21, <1>22, <1>23, <1>24, <1>25
       DEF Next, CallStep, ThreadStep, DestroyStep

LEMMA SwallowStep == IInv /\ [Next]_vars => StartNotSwallowed'
  <1> SUFFICES ASSUME IInv, [Next]_vars PROVE StartNotSwallowed'
    OBVIOUS
  <1> USE PoolFacts DEF IInv, TypeOK, StartNotSwallowed, QueueInv, UserInv, ThreadInv, DoneInv,
      Uses, Busy,
      CallGoTo, ThreadGoTo, Return, MayCall, runnerVars, callVars
  <1>1. ASSUME NEW a \in Actors, Call(a) PROVE StartNotSwallowed'
    BY <1>1 DEF Call
  <1>2. ASSUME NEW a \in Actors, Release(a) PROVE StartNotSwallowed'
    BY <1>2 DEF Release
  <1>3. ASSUME NEW a \in Actors, TakeRunner(a) PROVE StartNotSwallowed'
    BY <1>3 DEF TakeRunner
  <1>4. ASSUME NEW a \in Actors, TakeTimeout(a) PROVE StartNotSwallowed'
    BY <1>4 DEF TakeTimeout
  <1>5. ASSUME NEW a \in Actors, JoinThread(a) PROVE StartNotSwallowed'
    <2>1. ~active[hand[a]] /\ hand[a] \in Runners /\ ~Busy(hand[a]) /\ hand' = hand
      BY <1>5 DEF JoinThread
    <2>2. wpc[hand[a]] = "wait"
      BY <2>1, <1>5 DEF JoinThread
    <2>3. QED
      BY <1>5, <2>1, <2>2 DEF JoinThread
  <1>6. ASSUME NEW a \in Actors, JoinTimeout(a) PROVE StartNotSwallowed'
    BY <1>6 DEF JoinTimeout
  <1>7. ASSUME NEW a \in Actors, SetUp(a) PROVE StartNotSwallowed'
    BY <1>7 DEF SetUp
  <1>8. ASSUME NEW a \in Actors, StartThread(a) PROVE StartNotSwallowed'
    <2>1. ASSUME NEW b \in Actors, cpc'[b] \in {"setup", "start"}
          PROVE  ~active'[hand'[b]] /\ wpc'[hand'[b]] = "wait"
      <3>1. b # a /\ cpc[b] \in {"setup", "start"} /\ cpc[a] = "start"
        BY <1>8, <2>1 DEF StartThread
      <3>2. hand[b] \in Runners /\ hand[a] \in Runners /\ hand[b] # hand[a]
        BY <3>1, HandsApart
      <3>3. ~active[hand[b]] /\ wpc[hand[b]] = "wait"
        BY <3>1
      <3>4. QED
        BY <1>8, <3>2, <3>3 DEF StartThread
    <2>2. QED
      BY <2>1
  <1>9. ASSUME NEW a \in Actors, BindGuard(a) PROVE StartNotSwallowed'
    BY <1>9 DEF BindGuard
  <1>10. ASSUME NEW a \in Actors, WaitFinished(a) PROVE StartNotSwallowed'
    BY <1>10 DEF WaitFinished
  <1>11. ASSUME NEW a \in Actors, ResetEvent(a) PROVE StartNotSwallowed'
    BY <1>11 DEF ResetEvent
  <1>12. ASSUME NEW a \in Actors, GiveBack(a) PROVE StartNotSwallowed'
    BY <1>12 DEF GiveBack
  <1>13. ASSUME NEW r \in Runners, BeginTask(r) PROVE StartNotSwallowed'
    BY <1>13 DEF BeginTask
  <1>14. ASSUME NEW r \in Runners, EndTask(r) PROVE StartNotSwallowed'
    BY <1>14 DEF EndTask
  <1>15. ASSUME NEW r \in Runners, AfterInvoke(r) PROVE StartNotSwallowed'
    BY <1>15 DEF AfterInvoke
  <1>16. ASSUME NEW r \in Runners, NotifyFinished(r) PROVE StartNotSwallowed'
    BY <1>16 DEF NotifyFinished
  <1>17. ASSUME NEW r \in Runners, ResetOwn(r) PROVE StartNotSwallowed'
    BY <1>17 DEF ResetOwn
  <1>18. ASSUME NEW r \in Runners, ReleaseOwn(r) PROVE StartNotSwallowed'
    BY <1>18 DEF ReleaseOwn
  <1>19. ASSUME NEW r \in Runners, Finish(r) PROVE StartNotSwallowed'
    BY <1>19 DEF Finish
  <1>20. CASE Destroy
    BY <1>20 DEF Destroy
  <1>21. CASE WaitThreads
    BY <1>21 DEF WaitThreads
  <1>22. CASE DestroyTake
    BY <1>22, QueueHead DEF DestroyTake
  <1>23. CASE DestroyRunner
    BY <1>23 DEF DestroyRunner, TakenInv
  <1>24. CASE DestroyMembers
    BY <1>24 DEF DestroyMembers
  <1>25. CASE UNCHANGED vars
    BY <1>25 DEF vars
  <1>26. QED
    BY <1>1, <1>2, <1>3, <1>4, <1>5, <1>6, <1>7, <1>8, <1>9, <1>10, <1>11, <1>12, <1>13, <1>14,
       <1>15, <1>16, <1>17, <1>18, <1>19, <1>20, <1>21, <1>22, <1>23, <1>24, <1>25
       DEF Next, CallStep, ThreadStep, DestroyStep

\* What release() knows of its runner when it puts it back.
LEMMA GivenBack ==
    ASSUME IInv, NEW a \in Actors, cpc[a] = "rel_send"
    PROVE  /\ guard[a] \in Runners
           /\ ~Busy(guard[a]) /\ ~ev[guard[a]] /\ priority[guard[a]] = Default
           /\ wpc[guard[a]] # "ended"
           /\ hand[a] \notin Runners
           /\ \A b \in Actors \ {a} : ~Uses(b, guard[a])
           /\ \A i \in 1..Len(free) : free[i] # guard[a]
  <1>1. guard[a] \in Runners /\ hand[a] \notin Runners
    <2>1. guard[a] # None
      BY DEF IInv, UserInv
    <2>2. guard[a] \in Runners \cup {None}
      BY DEF IInv, TypeOK
    <2>3. hand[a] \notin Runners
      BY DEF IInv, TypeOK
    <2>4. QED
      BY <2>1, <2>2, <2>3
  <1>2. Uses(a, guard[a])
    BY DEF Uses
  <1>3. /\ ~Busy(guard[a]) /\ ~ev[guard[a]] /\ priority[guard[a]] = Default
    BY <1>1 DEF IInv, WaitInv
  <1>4. wpc[guard[a]] # "ended" /\ \A b \in Actors \ {a} : ~Uses(b, guard[a])
    BY <1>1, <1>2 DEF IInv, UserInv
  <1>5. \A i \in 1..Len(free) : free[i] # guard[a]
    BY <1>2 DEF IInv, QueueInv
  <1>6. QED
    BY <1>1, <1>3, <1>4, <1>5

\* The queue is right after release() has put a runner back.
LEMMA QueueGivenBack ==
    ASSUME IInv, NEW a \in Actors, GiveBack(a) PROVE QueueInv'
  <1> DEFINE g == guard[a]
  <1>1. /\ cpc[a] = "rel_send"
        /\ free' = Append(free, g) /\ guard' = [guard EXCEPT ![a] = None]
        /\ cpc' = [cpc EXCEPT ![a] = "idle"]
        /\ UNCHANGED <<needsWaiting, ev, priority, active, wpc, hand, req>>
    BY DEF GiveBack, CallGoTo, runnerVars
  <1>2. /\ g \in Runners
        /\ ~Busy(g) /\ ~ev[g] /\ priority[g] = Default /\ wpc[g] # "ended"
        /\ hand[a] \notin Runners
        /\ \A b \in Actors \ {a} : ~Uses(b, g)
        /\ \A i \in 1..Len(free) : free[i] # g
    BY <1>1, GivenBack
  <1>3. /\ guard'[a] = None
        /\ \A b \in Actors \ {a} : guard'[b] = guard[b] /\ cpc'[b] = cpc[b]
    BY <1>1 DEF IInv, TypeOK
  <1>4. \A b \in Actors, r \in Runners : Uses(b, r)' => Uses(b, r) /\ b # a
    BY <1>1, <1>2, <1>3, PoolFacts DEF Uses
  <1>5. \A r \in Runners : Busy(r)' <=> Busy(r)
    BY <1>1 DEF Busy
  <1>6. /\ Len(free) \in Nat
        /\ \A i \in 1..Len(free) : free[i] \in Runners
    BY DEF IInv, TypeOK
  <1>7. \A i \in 1..Len(free') :
           /\ i \in 1..Len(free) => free'[i] = free[i] /\ free[i] \in Runners
           /\ i \notin 1..Len(free) => i = Len(free) + 1 /\ free'[i] = g
    <2>1. free \in Seq(Runners)
      BY DEF IInv, TypeOK
    <2>2. QED
      BY <1>1, <1>2, <1>6, <2>1, AppendProperties
  <1> HIDE DEF g
  <1>8. \A i, j \in 1..Len(free') : free'[i] = free'[j] => i = j
    BY <1>2, <1>7 DEF IInv, QueueInv
  <1>9. ASSUME NEW i \in 1..Len(free'), NEW r, r = free'[i]
         PROVE  /\ \A b \in Actors : ~Uses(b, r)'
                /\ ~Busy(r)' /\ ~ev'[r] /\ priority'[r] = Default /\ wpc'[r] # "ended"
    <2>1. CASE i \in 1..Len(free)
      BY <1>1, <1>4, <1>5, <1>7, <1>9, <2>1 DEF IInv, QueueInv
    <2>2. CASE i \notin 1..Len(free)
      BY <1>1, <1>2, <1>4, <1>5, <1>7, <1>9, <2>2
    <2>3. QED
      BY <2>1, <2>2
  <1>10. QED
    BY <1>8, <1>9 DEF QueueInv

LEMMA QueueStep == IInv /\ [Next]_vars => QueueInv'
  <1> SUFFICES ASSUME IInv, [Next]_vars PROVE QueueInv'
    OBVIOUS
  <1> USE PoolFacts DEF IInv, TypeOK, StartNotSwallowed, QueueInv, ThreadInv, UserInv, WaitInv,
      Uses, Busy,
      CallGoTo, ThreadGoTo, Return, MayCall, runnerVars, callVars
  <1>1. ASSUME NEW a \in Actors, Call(a) PROVE QueueInv'
    BY <1>1 DEF Call
  <1>2. ASSUME NEW a \in Actors, Release(a) PROVE QueueInv'
    BY <1>2 DEF Release
  <1>3. ASSUME NEW a \in Actors, TakeRunner(a) PROVE QueueInv'
    BY <1>3 DEF TakeRunner
  <1>4. ASSUME NEW a \in Actors, TakeTimeout(a) PROVE QueueInv'
    BY <1>4 DEF TakeTimeout
  <1>5. ASSUME NEW a \in Actors, JoinThread(a) PROVE QueueInv'
    <2>1. \A b \in Actors, r \in Runners : Uses(b, r)' => Uses(b, r)
      BY <1>5 DEF JoinThread
    <2>2. UNCHANGED <<free, wpc, active, ev, priority>>
      BY <1>5 DEF JoinThread
    <2>3. QED
      BY <2>1, <2>2
  <1>6. ASSUME NEW a \in Actors, JoinTimeout(a) PROVE QueueInv'
    BY <1>6 DEF JoinTimeout
  <1>7. ASSUME NEW a \in Actors, SetUp(a) PROVE QueueInv'
    BY <1>7 DEF SetUp
  <1>8. ASSUME NEW a \in Actors, StartThread(a) PROVE QueueInv'
    BY <1>8 DEF StartThread
  <1>9. ASSUME NEW a \in Actors, BindGuard(a) PROVE QueueInv'
    BY <1>9 DEF BindGuard
  <1>10. ASSUME NEW a \in Actors, WaitFinished(a) PROVE QueueInv'
    <2>1. \A b \in Actors, r \in Runners : Uses(b, r)' => Uses(b, r)
      BY <1>10 DEF WaitFinished
    <2>2. UNCHANGED <<free, wpc, active, ev, priority>>
      BY <1>10 DEF WaitFinished
    <2>3. QED
      BY <2>1, <2>2
  <1>11. ASSUME NEW a \in Actors, ResetEvent(a) PROVE QueueInv'
    <2>1. \A b \in Actors, r \in Runners : Uses(b, r)' => Uses(b, r)
      BY <1>11 DEF ResetEvent
    <2>2. UNCHANGED <<free, wpc, active, priority>> /\ \A r \in Runners : ev'[r] => ev[r]
      BY <1>11 DEF ResetEvent
    <2>3. QED
      BY <2>1, <2>2
  <1>12. ASSUME NEW a \in Actors, GiveBack(a) PROVE QueueInv'
    BY <1>12, QueueGivenBack
  <1>13. ASSUME NEW r \in Runners, BeginTask(r) PROVE QueueInv'
    BY <1>13 DEF BeginTask
  <1>14. ASSUME NEW r \in Runners, EndTask(r) PROVE QueueInv'
    BY <1>14 DEF EndTask
  <1>15. ASSUME NEW r \in Runners, AfterInvoke(r) PROVE QueueInv'
    BY <1>15 DEF AfterInvoke
  <1>16. ASSUME NEW r \in Runners, NotifyFinished(r) PROVE QueueInv'
    BY <1>16 DEF NotifyFinished
  <1>17. ASSUME NEW r \in Runners, ResetOwn(r) PROVE QueueInv'
    BY <1>17 DEF ResetOwn
  <1>18. ASSUME NEW r \in Runners, ReleaseOwn(r) PROVE QueueInv'
    BY <1>18 DEF ReleaseOwn
  <1>19. ASSUME NEW r \in Runners, Finish(r) PROVE QueueInv'
    BY <1>19 DEF Finish
  <1>20. CASE Destroy
    BY <1>20 DEF Destroy
  <1>21. CASE WaitThreads
    BY <1>21 DEF WaitThreads
  <1>22. CASE DestroyTake
    BY <1>22, QueueHead DEF DestroyTake
  <1>23. CASE DestroyRunner
    BY <1>23 DEF DestroyRunner, TakenInv
  <1>24. CASE DestroyMembers
    BY <1>24 DEF DestroyMembers
  <1>25. CASE UNCHANGED vars
    <2>1. UNCHANGED <<free, wpc, active, ev, priority, guard, hand, cpc, req>>
      BY <1>25 DEF vars
    <2>2. QED
      BY <2>1
  <1>26. QED
    BY <1>1, <1>2, <1>3, <1>4, <1>5, <1>6, <1>7, <1>8, <1>9, <1>10, <1>11, <1>12, <1>13, <1>14,
       <1>15, <1>16, <1>17, <1>18, <1>19, <1>20, <1>21, <1>22, <1>23, <1>24, <1>25
       DEF Next, CallStep, ThreadStep, DestroyStep

LEMMA RunnerStep == IInv /\ [Next]_vars => ThreadInv'
  <1> SUFFICES ASSUME IInv, [Next]_vars PROVE ThreadInv'
    OBVIOUS
  <1> USE PoolFacts DEF IInv, TypeOK, StartNotSwallowed, QueueInv, ThreadInv, UserInv, WaitInv,
      Uses, Busy,
      CallGoTo, ThreadGoTo, Return, MayCall, runnerVars, callVars
  <1>1. ASSUME NEW a \in Actors, Call(a) PROVE ThreadInv'
    BY <1>1 DEF Call
  <1>2. ASSUME NEW a \in Actors, Release(a) PROVE ThreadInv'
    BY <1>2 DEF Release
  <1>3. ASSUME NEW a \in Actors, TakeRunner(a) PROVE ThreadInv'
    BY <1>3 DEF TakeRunner
  <1>4. ASSUME NEW a \in Actors, TakeTimeout(a) PROVE ThreadInv'
    BY <1>4 DEF TakeTimeout
  <1>5. ASSUME NEW a \in Actors, JoinThread(a) PROVE ThreadInv'
    BY <1>5 DEF JoinThread
  <1>6. ASSUME NEW a \in Actors, JoinTimeout(a) PROVE ThreadInv'
    BY <1>6 DEF JoinTimeout
  <1>7. ASSUME NEW a \in Actors, SetUp(a) PROVE ThreadInv'
    BY <1>7 DEF SetUp
  <1>8. ASSUME NEW a \in Actors, StartThread(a) PROVE ThreadInv'
    BY <1>8 DEF StartThread
  <1>9. ASSUME NEW a \in Actors, BindGuard(a) PROVE ThreadInv'
    BY <1>9 DEF BindGuard
  <1>10. ASSUME NEW a \in Actors, WaitFinished(a) PROVE ThreadInv'
    BY <1>10 DEF WaitFinished
  <1>11. ASSUME NEW a \in Actors, ResetEvent(a) PROVE ThreadInv'
    BY <1>11 DEF ResetEvent
  <1>12. ASSUME NEW a \in Actors, GiveBack(a) PROVE ThreadInv'
    BY <1>12 DEF GiveBack
  <1>13. ASSUME NEW r \in Runners, BeginTask(r) PROVE ThreadInv'
    BY <1>13 DEF BeginTask
  <1>14. ASSUME NEW r \in Runners, EndTask(r) PROVE ThreadInv'
    BY <1>14 DEF EndTask
  <1>15. ASSUME NEW r \in Runners, AfterInvoke(r) PROVE ThreadInv'
    BY <1>15 DEF AfterInvoke
  <1>16. ASSUME NEW r \in Runners, NotifyFinished(r) PROVE ThreadInv'
    BY <1>16 DEF NotifyFinished
  <1>17. ASSUME NEW r \in Runners, ResetOwn(r) PROVE ThreadInv'
    BY <1>17 DEF ResetOwn
  <1>18. ASSUME NEW r \in Runners, ReleaseOwn(r) PROVE ThreadInv'
    BY <1>18 DEF ReleaseOwn
  <1>19. ASSUME NEW r \in Runners, Finish(r) PROVE ThreadInv'
    BY <1>19 DEF Finish
  <1>20. CASE Destroy
    BY <1>20 DEF Destroy
  <1>21. CASE WaitThreads
    BY <1>21 DEF WaitThreads
  <1>22. CASE DestroyTake
    BY <1>22, QueueHead DEF DestroyTake
  <1>23. CASE DestroyRunner
    BY <1>23 DEF DestroyRunner, TakenInv
  <1>24. CASE DestroyMembers
    BY <1>24 DEF DestroyMembers
  <1>25. CASE UNCHANGED vars
    BY <1>25 DEF vars
  <1>26. QED
    BY <1>1, <1>2, <1>3, <1>4, <1>5, <1>6, <1>7, <1>8, <1>9, <1>10, <1>11, <1>12, <1>13, <1>14,
       <1>15, <1>16, <1>17, <1>18, <1>19, <1>20, <1>21, <1>22, <1>23, <1>24, <1>25
       DEF Next, CallStep, ThreadStep, DestroyStep

LEMMA UserStep == IInv /\ [Next]_vars => UserInv'
  <1> SUFFICES ASSUME IInv, [Next]_vars PROVE UserInv'
    OBVIOUS
  <1> USE PoolFacts DEF IInv, TypeOK, StartNotSwallowed, QueueInv, ThreadInv, UserInv, WaitInv,
      Uses, Busy,
      CallGoTo, ThreadGoTo, Return, MayCall, runnerVars, callVars
  <1>1. ASSUME NEW a \in Actors, Call(a) PROVE UserInv'
    BY <1>1 DEF Call
  <1>2. ASSUME NEW a \in Actors, Release(a) PROVE UserInv'
    BY <1>2 DEF Release
  <1>3. ASSUME NEW a \in Actors, TakeRunner(a) PROVE UserInv'
    <2> HIDE DEF WaitInv, ThreadInv, StartNotSwallowed
    <2> DEFINE h == Head(free)
    <2>1. /\ h \in Runners /\ h # None /\ cpc[a] = "take"
          /\ hand' = [hand EXCEPT ![a] = h]
          /\ cpc' = [cpc EXCEPT ![a] = "join"]
          /\ UNCHANGED <<by, wanted, needsWaiting, ev, priority, active, wpc, req, guard>>
      BY <1>3, QueueHead DEF TakeRunner
    <2>2. /\ \A b \in Actors : ~Uses(b, h)
          /\ ~Busy(h) /\ ~ev[h] /\ wpc[h] # "ended"
      BY <1>3, QueueHead DEF TakeRunner
    <2>3. \A b \in Actors, r \in Runners : Uses(b, r)' => Uses(b, r) \/ (b = a /\ r = h)
      BY <2>1
    <2>30. \A b, c \in Actors, r \in Runners : (Uses(b, r) /\ Uses(c, r)) => b = c
      BY DEF UserInv
    <2> HIDE DEF h, Uses, QueueInv
    <2>4. ASSUME NEW b \in Actors, NEW c \in Actors, NEW r \in Runners,
                 Uses(b, r)', Uses(c, r)'
          PROVE  b = c
      <3>1. CASE r = h
        BY <2>2, <2>3, <2>4, <3>1
      <3>2. CASE r # h
        BY <2>3, <2>30, <2>4, <3>2
      <3>3. QED
        BY <3>1, <3>2
    <2>5. \A b \in Actors, r \in Runners : Uses(b, r)' => wpc'[r] # "ended"
      BY <2>1, <2>2, <2>3
    <2>6. \A b \in Actors :
            /\ guard'[b] # None => cpc'[b] \in {"idle", "rel_wait", "rel_reset", "rel_send"}
            /\ cpc'[b] \in {"rel_wait", "rel_reset", "rel_send"} => guard'[b] # None
            /\ (b \in Runners /\ (cpc'[b] # "idle" \/ guard'[b] # None)) => wpc'[b] = "run"
            /\ cpc'[b] \in {"join", "setup", "start"} => (~Busy(hand[b])' /\ ~ev'[hand'[b]])
            /\ cpc'[b] = "start" =>
                  /\ needsWaiting'[hand'[b]] = req'[b].waiter
                  /\ by'[hand'[b]] = b
                  /\ priority'[hand'[b]] = wanted'[hand'[b]]
      BY <2>1, <2>2
    <2>7. QED
      BY <2>4, <2>5, <2>6
  <1>4. ASSUME NEW a \in Actors, TakeTimeout(a) PROVE UserInv'
    BY <1>4 DEF TakeTimeout
  <1>5. ASSUME NEW a \in Actors, JoinThread(a) PROVE UserInv'
    BY <1>5 DEF JoinThread
  <1>6. ASSUME NEW a \in Actors, JoinTimeout(a) PROVE UserInv'
    BY <1>6 DEF JoinTimeout
  <1>7. ASSUME NEW a \in Actors, SetUp(a) PROVE UserInv'
    <2>1. hand[a] \in Runners /\ cpc[a] = "setup"
      BY <1>7 DEF SetUp
    <2>2. \A b \in Actors, r \in Runners : Uses(b, r)' <=> Uses(b, r)
      BY <1>7 DEF SetUp
    <2>3. \A b \in Actors \ {a} : hand[b] = hand[a] => cpc[b] \notin {"join", "setup", "start"}
      BY <2>1, HandsApart
    <2> HIDE DEF QueueInv, WaitInv, ThreadInv, StartNotSwallowed
    <2>4. UNCHANGED <<wpc, guard, hand, req, active, ev>>
      BY <1>7 DEF SetUp
    <2>5. /\ \A b, c \in Actors, r \in Runners : (Uses(b, r)' /\ Uses(c, r)') => b = c
          /\ \A b \in Actors, r \in Runners : Uses(b, r)' => wpc'[r] # "ended"
      BY <2>2, <2>4
    <2>6. /\ cpc'[a] = "start"
          /\ \A b \in Actors \ {a} : cpc'[b] = cpc[b]
          /\ needsWaiting'[hand[a]] = req[a].waiter
          /\ by'[hand[a]] = a
          /\ priority'[hand[a]] = wanted'[hand[a]]
      BY <1>7, <2>1 DEF SetUp
    <2>7. \A r \in Runners \ {hand[a]} :
            /\ needsWaiting'[r] = needsWaiting[r]
            /\ by'[r] = by[r]
            /\ priority'[r] = priority[r]
            /\ wanted'[r] = wanted[r]
      BY <1>7, <2>1 DEF SetUp
    <2>8. ASSUME NEW b \in Actors
          PROVE  /\ guard'[b] # None => cpc'[b] \in {"idle", "rel_wait", "rel_reset", "rel_send"}
                 /\ cpc'[b] \in {"rel_wait", "rel_reset", "rel_send"} => guard'[b] # None
                 /\ (b \in Runners /\ (cpc'[b] # "idle" \/ guard'[b] # None)) => wpc'[b] = "run"
      <3>1. CASE b = a
        BY <2>1, <2>4, <2>6, <3>1
      <3>2. CASE b # a
        BY <2>4, <2>6, <3>2
      <3>3. QED
        BY <3>1, <3>2
    <2>9. ASSUME NEW b \in Actors, cpc'[b] \in {"join", "setup", "start"}
          PROVE  ~Busy(hand[b])' /\ ~ev'[hand'[b]]
      <3>1. cpc[b] \in {"join", "setup", "start"}
        BY <2>1, <2>6, <2>9
      <3>2. ~Busy(hand[b]) /\ ~ev[hand[b]]
        BY <3>1
      <3>3. QED
        BY <2>4, <3>2
    <2>10. ASSUME NEW b \in Actors, cpc'[b] = "start"
           PROVE  /\ needsWaiting'[hand'[b]] = req'[b].waiter
                  /\ by'[hand'[b]] = b
                  /\ priority'[hand'[b]] = wanted'[hand'[b]]
      <3>1. CASE b = a
        BY <3>1, <2>4, <2>6
      <3>2. CASE b # a
        <4>1. cpc[b] = "start" /\ hand[b] \in Runners \ {hand[a]}
          BY <2>3, <2>6, <2>10, <3>2
        <4>2. QED
          BY <4>1, <2>4, <2>7
      <3>3. QED
        BY <3>1, <3>2
    <2>11. QED
      BY <2>4, <2>5, <2>8, <2>9, <2>10
  <1>8. ASSUME NEW a \in Actors, StartThread(a) PROVE UserInv'
    BY <1>8 DEF StartThread
  <1>9. ASSUME NEW a \in Actors, BindGuard(a) PROVE UserInv'
    BY <1>9 DEF BindGuard
  <1>10. ASSUME NEW a \in Actors, WaitFinished(a) PROVE UserInv'
    BY <1>10 DEF WaitFinished
  <1>11. ASSUME NEW a \in Actors, ResetEvent(a) PROVE UserInv'
    BY <1>11 DEF ResetEvent
  <1>12. ASSUME NEW a \in Actors, GiveBack(a) PROVE UserInv'
    BY <1>12 DEF GiveBack
  <1>13. ASSUME NEW r \in Runners, BeginTask(r) PROVE UserInv'
    BY <1>13 DEF BeginTask
  <1>14. ASSUME NEW r \in Runners, EndTask(r) PROVE UserInv'
    BY <1>14 DEF EndTask
  <1>15. ASSUME NEW r \in Runners, AfterInvoke(r) PROVE UserInv'
    BY <1>15 DEF AfterInvoke
  <1>16. ASSUME NEW r \in Runners, NotifyFinished(r) PROVE UserInv'
    BY <1>16 DEF NotifyFinished
  <1>17. ASSUME NEW r \in Runners, ResetOwn(r) PROVE UserInv'
    BY <1>17 DEF ResetOwn
  <1>18. ASSUME NEW r \in Runners, ReleaseOwn(r) PROVE UserInv'
    BY <1>18 DEF ReleaseOwn
  <1>19. ASSUME NEW r \in Runners, Finish(r) PROVE UserInv'
    BY <1>19 DEF Finish
  <1>20. CASE Destroy
    BY <1>20 DEF Destroy
  <1>21. CASE WaitThreads
    BY <1>21 DEF WaitThreads
  <1>22. CASE DestroyTake
    BY <1>22, QueueHead DEF DestroyTake
  <1>23. CASE DestroyRunner
    BY <1>23 DEF DestroyRunner, TakenInv
  <1>24. CASE DestroyMembers
    BY <1>24 DEF DestroyMembers
  <1>25. CASE UNCHANGED vars
    BY <1>25 DEF vars
  <1>26. QED
    BY <1>1, <1>2, <1>3, <1>4, <1>5, <1>6, <1>7, <1>8, <1>9, <1>10, <1>11, <1>12, <1>13, <1>14,
       <1>15, <1>16, <1>17, <1>18, <1>19, <1>20, <1>21, <1>22, <1>23, <1>24, <1>25
       DEF Next, CallStep, ThreadStep, DestroyStep

LEMMA WaitStep == IInv /\ [Next]_vars => WaitInv'
  <1> SUFFICES ASSUME IInv, [Next]_vars PROVE WaitInv'
    OBVIOUS
  <1> USE PoolFacts DEF IInv, TypeOK, StartNotSwallowed, QueueInv, ThreadInv, UserInv, WaitInv,
      Uses, Busy,
      CallGoTo, ThreadGoTo, Return, MayCall, runnerVars, callVars
  <1>1. ASSUME NEW a \in Actors, Call(a) PROVE WaitInv'
    BY <1>1 DEF Call
  <1>2. ASSUME NEW a \in Actors, Release(a) PROVE WaitInv'
    BY <1>2 DEF Release
  <1>3. ASSUME NEW a \in Actors, TakeRunner(a) PROVE WaitInv'
    BY <1>3 DEF TakeRunner
  <1>4. ASSUME NEW a \in Actors, TakeTimeout(a) PROVE WaitInv'
    BY <1>4 DEF TakeTimeout
  <1>5. ASSUME NEW a \in Actors, JoinThread(a) PROVE WaitInv'
    BY <1>5 DEF JoinThread
  <1>6. ASSUME NEW a \in Actors, JoinTimeout(a) PROVE WaitInv'
    BY <1>6 DEF JoinTimeout
  <1>7. ASSUME NEW a \in Actors, SetUp(a) PROVE WaitInv'
    BY <1>7 DEF SetUp
  <1>8. ASSUME NEW a \in Actors, StartThread(a) PROVE WaitInv'
    BY <1>8 DEF StartThread
  <1>9. ASSUME NEW a \in Actors, BindGuard(a) PROVE WaitInv'
    BY <1>9 DEF BindGuard
  <1>10. ASSUME NEW a \in Actors, WaitFinished(a) PROVE WaitInv'
    BY <1>10 DEF WaitFinished
  <1>11. ASSUME NEW a \in Actors, ResetEvent(a) PROVE WaitInv'
    BY <1>11 DEF ResetEvent
  <1>12. ASSUME NEW a \in Actors, GiveBack(a) PROVE WaitInv'
    BY <1>12 DEF GiveBack
  <1>13. ASSUME NEW r \in Runners, BeginTask(r) PROVE WaitInv'
    BY <1>13 DEF BeginTask
  <1>14. ASSUME NEW r \in Runners, EndTask(r) PROVE WaitInv'
    BY <1>14 DEF EndTask
  <1>15. ASSUME NEW r \in Runners, AfterInvoke(r) PROVE WaitInv'
    BY <1>15 DEF AfterInvoke
  <1>16. ASSUME NEW r \in Runners, NotifyFinished(r) PROVE WaitInv'
    BY <1>16 DEF NotifyFinished
  <1>17. ASSUME NEW r \in Runners, ResetOwn(r) PROVE WaitInv'
    BY <1>17 DEF ResetOwn
  <1>18. ASSUME NEW r \in Runners, ReleaseOwn(r) PROVE WaitInv'
    BY <1>18 DEF ReleaseOwn
  <1>19. ASSUME NEW r \in Runners, Finish(r) PROVE WaitInv'
    BY <1>19 DEF Finish
  <1>20. CASE Destroy
    BY <1>20 DEF Destroy
  <1>21. CASE WaitThreads
    BY <1>21 DEF WaitThreads
  <1>22. CASE DestroyTake
    BY <1>22, QueueHead DEF DestroyTake
  <1>23. CASE DestroyRunner
    BY <1>23 DEF DestroyRunner
  <1>24. CASE DestroyMembers
    BY <1>24 DEF DestroyMembers
  <1>25. CASE UNCHANGED vars
    BY <1>25 DEF vars
  <1>26. QED
    BY <1>1, <1>2, <1>3, <1>4, <1>5, <1>6, <1>7, <1>8, <1>9, <1>10, <1>11, <1>12, <1>13, <1>14,
       <1>15, <1>16, <1>17, <1>18, <1>19, <1>20, <1>21, <1>22, <1>23, <1>24, <1>25
       DEF Next, CallStep, ThreadStep, DestroyStep

LEMMA TakenStep == IInv /\ [Next]_vars => TakenInv'
  <1> SUFFICES ASSUME IInv, [Next]_vars PROVE TakenInv'
    OBVIOUS
  <1> USE PoolFacts DEF IInv, TypeOK, StartNotSwallowed, QueueInv, ThreadInv, UserInv, TakenInv,
      Uses, Busy,
      CallGoTo, ThreadGoTo, Return, MayCall, runnerVars, callVars
  <1>1. ASSUME NEW a \in Actors, Call(a) PROVE TakenInv'
    BY <1>1 DEF Call
  <1>2. ASSUME NEW a \in Actors, Release(a) PROVE TakenInv'
    BY <1>2 DEF Release
  <1>3. ASSUME NEW a \in Actors, TakeRunner(a) PROVE TakenInv'
    BY <1>3 DEF TakeRunner
  <1>4. ASSUME NEW a \in Actors, TakeTimeout(a) PROVE TakenInv'
    BY <1>4 DEF TakeTimeout
  <1>5. ASSUME NEW a \in Actors, JoinThread(a) PROVE TakenInv'
    BY <1>5 DEF JoinThread
  <1>6. ASSUME NEW a \in Actors, JoinTimeout(a) PROVE TakenInv'
    BY <1>6 DEF JoinTimeout
  <1>7. ASSUME NEW a \in Actors, SetUp(a) PROVE TakenInv'
    BY <1>7 DEF SetUp
  <1>8. ASSUME NEW a \in Actors, StartThread(a) PROVE TakenInv'
    BY <1>8 DEF StartThread
  <1>9. ASSUME NEW a \in Actors, BindGuard(a) PROVE TakenInv'
    BY <1>9 DEF BindGuard
  <1>10. ASSUME NEW a \in Actors, WaitFinished(a) PROVE TakenInv'
    BY <1>10 DEF WaitFinished
  <1>11. ASSUME NEW a \in Actors, ResetEvent(a) PROVE TakenInv'
    BY <1>11 DEF ResetEvent
  <1>12. ASSUME NEW a \in Actors, GiveBack(a) PROVE TakenInv'
    BY <1>12 DEF GiveBack
  <1>13. ASSUME NEW r \in Runners, BeginTask(r) PROVE TakenInv'
    BY <1>13 DEF BeginTask
  <1>14. ASSUME NEW r \in Runners, EndTask(r) PROVE TakenInv'
    BY <1>14 DEF EndTask
  <1>15. ASSUME NEW r \in Runners, AfterInvoke(r) PROVE TakenInv'
    BY <1>15 DEF AfterInvoke
  <1>16. ASSUME NEW r \in Runners, NotifyFinished(r) PROVE TakenInv'
    BY <1>16 DEF NotifyFinished
  <1>17. ASSUME NEW r \in Runners, ResetOwn(r) PROVE TakenInv'
    BY <1>17 DEF ResetOwn
  <1>18. ASSUME NEW r \in Runners, ReleaseOwn(r) PROVE TakenInv'
    BY <1>18 DEF ReleaseOwn
  <1>19. ASSUME NEW r \in Runners, Finish(r) PROVE TakenInv'
    BY <1>19 DEF Finish
  <1>20. CASE Destroy
    BY <1>20 DEF Destroy
  <1>21. CASE WaitThreads
    BY <1>21 DEF WaitThreads
  <1>22. CASE DestroyTake
    BY <1>22, QueueHead DEF DestroyTake
  <1>23. CASE DestroyRunner
    BY <1>23 DEF DestroyRunner
  <1>24. CASE DestroyMembers
    BY <1>24 DEF DestroyMembers
  <1>25. CASE UNCHANGED vars
    BY <1>25 DEF vars
  <1>26. QED
    BY <1>1, <1>2, <1>3, <1>4, <1>5, <1>6, <1>7, <1>8, <1>9, <1>10, <1>11, <1>12, <1>13, <1>14,
       <1>15, <1>16, <1>17, <1>18, <1>19, <1>20, <1>21, <1>22, <1>23, <1>24, <1>25
       DEF Next, CallStep, ThreadStep, DestroyStep

LEMMA DoneStep == IInv /\ [Next]_vars => DoneInv'
  <1> SUFFICES ASSUME IInv, [Next]_vars PROVE DoneInv'
    OBVIOUS
  <1> USE PoolFacts DEF IInv, TypeOK, DoneInv,
      CallGoTo, ThreadGoTo, Return, MayCall, runnerVars, callVars
  <1>1. ASSUME NEW a \in Actors, Call(a) PROVE DoneInv'
    BY <1>1 DEF Call
  <1>2. ASSUME NEW a \in Actors, Release(a) PROVE DoneInv'
    BY <1>2 DEF Release
  <1>3. ASSUME NEW a \in Actors, TakeRunner(a) PROVE DoneInv'
    BY <1>3 DEF TakeRunner
  <1>4. ASSUME NEW a \in Actors, TakeTimeout(a) PROVE DoneInv'
    BY <1>4 DEF TakeTimeout
  <1>5. ASSUME NEW a \in Actors, JoinThread(a) PROVE DoneInv'
    BY <1>5 DEF JoinThread
  <1>6. ASSUME NEW a \in Actors, JoinTimeout(a) PROVE DoneInv'
    BY <1>6 DEF JoinTimeout
  <1>7. ASSUME NEW a \in Actors, SetUp(a) PROVE DoneInv'
    BY <1>7 DEF SetUp
  <1>8. ASSUME NEW a \in Actors, StartThread(a) PROVE DoneInv'
    BY <1>8 DEF StartThread
  <1>9. ASSUME NEW a \in Actors, BindGuard(a) PROVE DoneInv'
    BY <1>9 DEF BindGuard
  <1>10. ASSUME NEW a \in Actors, WaitFinished(a) PROVE DoneInv'
    BY <1>10 DEF WaitFinished
  <1>11. ASSUME NEW a \in Actors, ResetEvent(a) PROVE DoneInv'
    BY <1>11 DEF ResetEvent
  <1>12. ASSUME NEW a \in Actors, GiveBack(a) PROVE DoneInv'
    BY <1>12 DEF GiveBack
  <1>13. ASSUME NEW r \in Runners, BeginTask(r) PROVE DoneInv'
    BY <1>13 DEF BeginTask
  <1>14. ASSUME NEW r \in Runners, EndTask(r) PROVE DoneInv'
    BY <1>14 DEF EndTask
  <1>15. ASSUME NEW r \in Runners, AfterInvoke(r) PROVE DoneInv'
    BY <1>15 DEF AfterInvoke
  <1>16. ASSUME NEW r \in Runners, NotifyFinished(r) PROVE DoneInv'
    BY <1>16 DEF NotifyFinished
  <1>17. ASSUME NEW r \in Runners, ResetOwn(r) PROVE DoneInv'
    BY <1>17 DEF ResetOwn
  <1>18. ASSUME NEW r \in Runners, ReleaseOwn(r) PROVE DoneInv'
    BY <1>18 DEF ReleaseOwn
  <1>19. ASSUME NEW r \in Runners, Finish(r) PROVE DoneInv'
    BY <1>19 DEF Finish
  <1>20. CASE Destroy
    BY <1>20 DEF Destroy
  <1>21. CASE WaitThreads
    BY <1>21 DEF WaitThreads
  <1>22. CASE DestroyTake
    BY <1>22, QueueHead DEF DestroyTake
  <1>23. CASE DestroyRunner
    BY <1>23 DEF DestroyRunner
  <1>24. CASE DestroyMembers
    BY <1>24 DEF DestroyMembers
  <1>25. CASE UNCHANGED vars
    BY <1>25 DEF vars
  <1>26. QED
    BY <1>1, <1>2, <1>3, <1>4, <1>5, <1>6, <1>7, <1>8, <1>9, <1>10, <1>11, <1>12, <1>13, <1>14,
       <1>15, <1>16, <1>17, <1>18, <1>19, <1>20, <1>21, <1>22, <1>23, <1>24, <1>25
       DEF Next, CallStep, ThreadStep, DestroyStep

\* The inductive invariant.
THEOREM Invariance == Spec => []IInv
  <1>1. Init => IInv
    BY InitIInv
  <1>2. IInv /\ [Next]_vars => IInv'
    BY TypeStep, SwallowStep, QueueStep, RunnerStep, UserStep, WaitStep, TakenStep, DoneStep
       DEF IInv
  <1>3. QED
    BY <1>1, <1>2, PTL DEF Spec

\* The variables keep their types.
THEOREM TypeCorrect == Spec => []TypeOK
  BY Invariance, PTL DEF IInv

\* start() never hands a task to a thread that is still active, of which
\* Thread::start() would do nothing.
THEOREM StartNeverSwallowed == Spec => []StartNotSwallowed
  BY Invariance, PTL DEF IInv

\* The event a WaitGuard waits for tells of the task it was given out for.
THEOREM WaitGuardsSound == Spec => []WaitGuardSound
  <1>1. IInv => WaitGuardSound
    BY PoolFacts DEF IInv, TypeOK, WaitInv, WaitGuardSound
  <1>2. QED
    BY <1>1, Invariance, PTL

\* A task runs with the priority it was started with, and the pool queues
\* only runners that are as they were created.
THEOREM PrioritiesKept == Spec => []PriorityKept
  <1>1. IInv => PriorityKept
    BY PoolFacts DEF IInv, TypeOK, QueueInv, ThreadInv, Busy, PriorityKept
  <1>2. QED
    BY <1>1, Invariance, PTL

\* No runner is ever in two of the queue, a call, a WaitGuard and the hands of
\* its own thread, nor twice in one of them.
THEOREM RunnerHasOneOwner == Spec => []OneOwner
  <1>1. IInv => OneOwner
    <2> SUFFICES ASSUME IInv, NEW r \in Runners, NEW p \in Places(r), NEW q \in Places(r)
                 PROVE  p = q
      BY DEF OneOwner
    <2> DEFINE Queued(x)   == \E i \in 1..Len(free) : x = <<"queue", i>> /\ free[i] = r
               Called(x)   == \E a \in Actors : x = <<"call", a>> /\ hand[a] = r
                                 /\ (cpc[a] = "bind" => req[a].waiter)
               Guarded(x)  == \E a \in Actors : x = <<"guard", a>> /\ guard[a] = r
               Threaded(x) == x = <<"thread", r>> /\ Busy(r) /\ ~needsWaiting[r]
               Taken(x)    == x = <<"destroy", r>> /\ dpc = "taken" /\ next = r
    <2>1. ASSUME NEW x \in Places(r)
          PROVE  Queued(x) \/ Called(x) \/ Guarded(x) \/ Threaded(x) \/ Taken(x)
      BY <2>1 DEF Places
    <2>2. ASSUME NEW x, NEW y, Queued(x), Queued(y) PROVE x = y
      BY <2>2 DEF IInv, QueueInv
    <2>3. ASSUME NEW x, Called(x) \/ Guarded(x)
          PROVE  \E a \in Actors : Uses(a, r) /\ (x = <<"call", a>> \/ x = <<"guard", a>>)
      BY <2>3 DEF Uses
    <2>4. ASSUME NEW x, NEW y, Queued(x), Called(y) \/ Guarded(y) \/ Threaded(y) PROVE FALSE
      BY <2>3, <2>4 DEF IInv, QueueInv
    <2>5. ASSUME NEW x, NEW y, Threaded(x), Called(y) \/ Guarded(y) PROVE FALSE
      BY <2>3, <2>5 DEF IInv, ThreadInv
    <2>6. ASSUME NEW x, NEW y, Called(x), Guarded(y) PROVE FALSE
      <3>1. PICK a \in Actors : hand[a] = r /\ (cpc[a] = "bind" => req[a].waiter)
        BY <2>6
      <3>2. PICK b \in Actors : guard[b] = r
        BY <2>6
      <3>3. a = b
        BY <3>1, <3>2 DEF IInv, UserInv, Uses
      <3>4. cpc[a] \in {"join", "setup", "start", "bind"}
        BY <3>1 DEF IInv, TypeOK
      <3>5. cpc[a] \in {"idle", "rel_wait", "rel_reset", "rel_send"}
        BY <3>2, <3>3, PoolFacts DEF IInv, UserInv
      <3>6. QED
        BY <3>4, <3>5
    <2>7. ASSUME NEW x, NEW y, Called(x), Called(y) PROVE x = y
      BY <2>7 DEF IInv, UserInv, Uses
    <2>8. ASSUME NEW x, NEW y, Guarded(x), Guarded(y) PROVE x = y
      BY <2>8 DEF IInv, UserInv, Uses
    <2>9. ASSUME NEW x, NEW y, Threaded(x), Threaded(y) PROVE x = y
      BY <2>9
    <2>10. ASSUME NEW x, NEW y, Taken(x), Queued(y) \/ Threaded(y) PROVE FALSE
      BY <2>10 DEF IInv, TakenInv
    <2>11. ASSUME NEW x, NEW y, Taken(x), Called(y) \/ Guarded(y) PROVE FALSE
      BY <2>3, <2>11 DEF IInv, TakenInv
    <2>12. ASSUME NEW x, NEW y, Taken(x), Taken(y) PROVE x = y
      BY <2>12
    <2> HIDE DEF Queued, Called, Guarded, Threaded, Taken
    <2>13. QED
      BY <2>1, <2>2, <2>4, <2>5, <2>6, <2>7, <2>8, <2>9, <2>10, <2>11, <2>12
  <1>2. QED
    BY <1>1, Invariance, PTL

-----------------------------------------------------------------------------
(* No runner is lost, where callers only block: a call that gives up       *)
(* after it has taken a runner is what loses one.                          *)

BlockingOnly == Timeouts \cup NestedTimeouts \subseteq {"FOREVER"}

LEMMA BlockingStep ==
    ASSUME BlockingOnly, IInv, Blocking, [Next]_vars PROVE Blocking'
  <1> USE PoolFacts DEF Blocking, IInv, TypeOK
  <1>1. ASSUME NEW a \in Actors, Call(a) PROVE Blocking'
    BY <1>1 DEF Call, TimeoutsOf, BlockingOnly
  <1>2. ASSUME NEW a \in Actors, TakeTimeout(a) \/ JoinTimeout(a) PROVE Blocking'
    BY <1>2 DEF TakeTimeout, JoinTimeout
  <1>3. ASSUME NEW a \in Actors, BindGuard(a) PROVE Blocking'
    BY <1>3 DEF BindGuard, Return, NoCall
  <1>4. CASE DestroyMembers
    BY <1>4 DEF DestroyMembers, NoCall
  <1>5. ASSUME UNCHANGED req PROVE Blocking'
    BY <1>5
  <1>6. QED
    BY <1>1, <1>2, <1>3, <1>4, <1>5
       DEF Next, CallStep, ThreadStep, DestroyStep, vars, callVars, Release, TakeRunner,
           JoinThread, SetUp, StartThread, WaitFinished, ResetEvent, GiveBack, BeginTask,
           EndTask, AfterInvoke, NotifyFinished, ResetOwn, ReleaseOwn, Finish, Destroy,
           WaitThreads, DestroyTake, DestroyRunner

\* A runner that is in the queue stays there when its head is taken, unless it is the
\* head, and when another is put back.
LEMMA QueueKeeps ==
    ASSUME TypeOK, NEW r \in Runners, NEW i \in 1..Len(free), free[i] = r
    PROVE  /\ free # <<>> => r = Head(free) \/ \E j \in 1..Len(Tail(free)) : Tail(free)[j] = r
           /\ \A q \in Runners : \E j \in 1..Len(Append(free, q)) : Append(free, q)[j] = r
  <1>1. ASSUME free # <<>>, r # Head(free)
        PROVE  \E j \in 1..Len(Tail(free)) : Tail(free)[j] = r
    <2>1. i # 1 /\ i - 1 \in 1..Len(Tail(free))
      BY <1>1, QueueHead DEF TypeOK
    <2>2. Tail(free)[i - 1] = free[i]
      BY <1>1, <2>1, QueueHead DEF TypeOK
    <2>3. QED
      BY <2>1, <2>2
  <1>2. ASSUME NEW q \in Runners
        PROVE  \E j \in 1..Len(Append(free, q)) : Append(free, q)[j] = r
    <2>1. i \in 1..Len(Append(free, q)) /\ Append(free, q)[i] = free[i]
      BY AppendProperties DEF TypeOK
    <2>2. QED
      BY <2>1
  <1>3. QED
    BY <1>1, <1>2

LEMMA QueueGets ==
    ASSUME TypeOK, NEW q \in Runners
    PROVE  \E j \in 1..Len(Append(free, q)) : Append(free, q)[j] = q
  <1>1. Len(free) + 1 \in 1..Len(Append(free, q)) /\ Append(free, q)[Len(free) + 1] = q
    BY AppendProperties DEF TypeOK
  <1>2. QED
    BY <1>1

LEMMA KeptStep ==
    ASSUME IInv, Blocking, dpc' # "done", NEW r \in Runners, Kept(r), [Next]_vars PROVE Kept(r)'
  <1> USE PoolFacts DEF IInv, TypeOK, Blocking, Kept, Uses, Busy, StartNotSwallowed, ThreadInv,
                       UserInv, CallGoTo, ThreadGoTo, Return, runnerVars, callVars
  <1>1. ASSUME NEW a \in Actors, Call(a) PROVE Kept(r)'
    BY <1>1 DEF Call
  <1>2. ASSUME NEW a \in Actors, Release(a) PROVE Kept(r)'
    BY <1>2 DEF Release
  <1>3. ASSUME NEW a \in Actors, TakeRunner(a) PROVE Kept(r)'
    BY <1>3, QueueHead, QueueKeeps DEF TakeRunner
  <1>4. ASSUME NEW a \in Actors, TakeTimeout(a) PROVE Kept(r)'
    BY <1>4 DEF TakeTimeout
  <1>5. ASSUME NEW a \in Actors, JoinThread(a) PROVE Kept(r)'
    BY <1>5 DEF JoinThread
  <1>6. ASSUME NEW a \in Actors, JoinTimeout(a) PROVE Kept(r)'
    BY <1>6 DEF JoinTimeout
  <1>7. ASSUME NEW a \in Actors, SetUp(a) PROVE Kept(r)'
    BY <1>7 DEF SetUp
  <1>8. ASSUME NEW a \in Actors, StartThread(a) PROVE Kept(r)'
    <2>1. /\ hand[a] \in Runners /\ cpc[a] = "start" /\ active' = [active EXCEPT ![hand[a]] = TRUE]
          /\ cpc' = [cpc EXCEPT ![a] = "bind"]
          /\ UNCHANGED <<free, needsWaiting, wpc, hand, req, guard, dpc, next>>
      BY <1>8 DEF StartThread
    <2>2. CASE hand[a] = r /\ ~req[a].waiter
      BY <2>1, <2>2
    <2>3. CASE Uses(a, r) /\ ~(hand[a] = r /\ ~req[a].waiter)
      BY <2>1, <2>3
    <2>4. \A b \in Actors \ {a} : Uses(b, r)' <=> Uses(b, r)
      BY <2>1
    <2>5. Busy(r) => Busy(r)'
      BY <2>1
    <2>6. CASE hand[a] # r /\ ~Uses(a, r)
      BY <2>1, <2>4, <2>5, <2>6
    <2>7. QED
      BY <2>2, <2>3, <2>6, PoolFacts
  <1>9. ASSUME NEW a \in Actors, BindGuard(a) PROVE Kept(r)'
    <2>1. /\ hand[a] \in Runners /\ cpc[a] = "bind"
          /\ guard' = [guard EXCEPT ![a] = IF req[a].waiter THEN hand[a] ELSE None]
          /\ cpc' = [cpc EXCEPT ![a] = "idle"] /\ hand' = [hand EXCEPT ![a] = None]
          /\ UNCHANGED <<free, needsWaiting, active, wpc, dpc, next>>
          /\ \A b \in Actors \ {a} : req'[b] = req[b]
      BY <1>9 DEF BindGuard
    <2>2. guard[a] = None
      BY <2>1
    <2>3. \A b \in Actors : Uses(b, r)' <=> Uses(b, r)
      BY <2>1, <2>2
    <2> HIDE DEF Uses
    <2>4. QED
      BY <2>1, <2>3
  <1>10. ASSUME NEW a \in Actors, WaitFinished(a) PROVE Kept(r)'
    BY <1>10 DEF WaitFinished
  <1>11. ASSUME NEW a \in Actors, ResetEvent(a) PROVE Kept(r)'
    BY <1>11 DEF ResetEvent
  <1>12. ASSUME NEW a \in Actors, GiveBack(a) PROVE Kept(r)'
    BY <1>12, QueueKeeps, QueueGets DEF GiveBack
  <1>13. ASSUME NEW q \in Runners, BeginTask(q) PROVE Kept(r)'
    BY <1>13 DEF BeginTask
  <1>14. ASSUME NEW q \in Runners, EndTask(q) PROVE Kept(r)'
    BY <1>14 DEF EndTask
  <1>15. ASSUME NEW q \in Runners, AfterInvoke(q) PROVE Kept(r)'
    BY <1>15 DEF AfterInvoke
  <1>16. ASSUME NEW q \in Runners, NotifyFinished(q) PROVE Kept(r)'
    BY <1>16 DEF NotifyFinished
  <1>17. ASSUME NEW q \in Runners, ResetOwn(q) PROVE Kept(r)'
    BY <1>17 DEF ResetOwn
  <1>18. ASSUME NEW q \in Runners, ReleaseOwn(q) PROVE Kept(r)'
    BY <1>18, QueueKeeps, QueueGets DEF ReleaseOwn
  <1>19. ASSUME NEW q \in Runners, Finish(q) PROVE Kept(r)'
    BY <1>19 DEF Finish
  <1>20. CASE Destroy
    BY <1>20 DEF Destroy
  <1>21. CASE WaitThreads
    BY <1>21 DEF WaitThreads
  <1>22. CASE DestroyTake
    BY <1>22, QueueHead, QueueKeeps DEF DestroyTake
  <1>23. CASE DestroyRunner
    BY <1>23 DEF DestroyRunner
  <1>24. CASE DestroyMembers
    BY <1>24 DEF DestroyMembers
  <1>25. CASE UNCHANGED vars
    BY <1>25 DEF vars
  <1> HIDE DEF IInv, TypeOK, Blocking, Kept, Uses, Busy, StartNotSwallowed, ThreadInv, UserInv
  <1>26. QED
    BY <1>1, <1>2, <1>3, <1>4, <1>5, <1>6, <1>7, <1>8, <1>9, <1>10, <1>11, <1>12, <1>13,
       <1>14, <1>15, <1>16, <1>17, <1>18, <1>19, <1>20, <1>21, <1>22, <1>23, <1>24, <1>25
       DEF Next, CallStep, ThreadStep, DestroyStep

LEMMA KeptIsPlaced ==
    ASSUME NEW r \in Runners PROVE Kept(r) <=> Places(r) # {} \/ wpc[r] = "ended"
  <1>1. ASSUME NEW i \in 1..Len(free), free[i] = r PROVE Places(r) # {}
    <2>1. <<"queue", i>> \in Places(r)
      BY <1>1 DEF Places
    <2>2. QED
      BY <2>1
  <1>2. ASSUME NEW a \in Actors, Uses(a, r) PROVE Places(r) # {}
    <2>1. <<"call", a>> \in Places(r) \/ <<"guard", a>> \in Places(r)
      BY <1>2 DEF Places, Uses
    <2>2. QED
      BY <2>1
  <1>3. ASSUME Busy(r) /\ ~needsWaiting[r] PROVE Places(r) # {}
    <2>1. <<"thread", r>> \in Places(r)
      BY <1>3 DEF Places
    <2>2. QED
      BY <2>1
  <1>4. ASSUME dpc = "taken", next = r PROVE Places(r) # {}
    <2>1. <<"destroy", r>> \in Places(r)
      BY <1>4 DEF Places
    <2>2. QED
      BY <2>1
  <1>5. ASSUME NEW p \in Places(r) PROVE Kept(r)
    BY <1>5 DEF Places, Kept, Uses
  <1>6. QED
    BY <1>1, <1>2, <1>3, <1>4, <1>5 DEF Kept

LEMMA KeptInvariance ==
    ASSUME BlockingOnly PROVE Spec => [](IInv /\ KeptInv)
  <1>1. Init => KeptInv
    <2> SUFFICES ASSUME Init PROVE KeptInv
      OBVIOUS
    <2>1. \A r \in Runners : r \in 1..Len(free) /\ free[r] = r
      BY NFact DEF Init, Runners
    <2>2. QED
      BY <2>1 DEF Init, KeptInv, Blocking, Kept, NoCall
  <1>2. IInv /\ KeptInv /\ [Next]_vars => KeptInv'
    <2> SUFFICES ASSUME IInv, KeptInv, [Next]_vars PROVE KeptInv'
      OBVIOUS
    <2>1. dpc = "done" => dpc' = "done"
      BY DEF Next, CallStep, ThreadStep, DestroyStep, vars, Call, Release, TakeRunner,
             TakeTimeout, JoinThread, JoinTimeout, SetUp, StartThread, BindGuard,
             WaitFinished, ResetEvent, GiveBack, BeginTask, EndTask, AfterInvoke,
             NotifyFinished, ResetOwn, ReleaseOwn, Finish, Destroy, WaitThreads,
             DestroyTake, DestroyRunner, DestroyMembers
    <2>2. QED
      BY <2>1, BlockingStep, KeptStep DEF KeptInv
  <1>3. QED
    BY <1>1, <1>2, Invariance, PTL DEF Spec

\* Where callers only block, whatever calls tasks make, the pool keeps all of its
\* runners until destroy() gives up the memory.
THEOREM RunnersKept ==
    ASSUME BlockingOnly PROVE Spec => [](dpc # "done" => NoRunnerLost)
  <1>1. KeptInv => (dpc # "done" => NoRunnerLost)
    BY KeptIsPlaced DEF KeptInv, NoRunnerLost
  <1>2. QED
    BY <1>1, KeptInvariance, PTL

-----------------------------------------------------------------------------
(* destroy() is complete, where tasks do not use the pool either: a task   *)
(* that starts another one behind it is what leaves a thread behind.       *)

LEMMA QuietStep ==
    ASSUME NestedTimeouts = {}, IInv, QuietInv, [Next]_vars PROVE QuietInv'
  <1>t. /\ dpc \in {"none", "wait", "drain", "taken", "done"}
        /\ next \in Nat /\ next <= N + 1 /\ N \in Nat
        /\ cpc \in [Actors -> {"idle", "take", "join", "setup", "start", "bind",
                               "rel_wait", "rel_reset", "rel_send"}]
        /\ guard \in [Actors -> Runners \cup {None}]
        /\ active \in [Runners -> BOOLEAN]
        /\ \A r \in Runners : r \in Nat /\ 1 <= r /\ r <= N
    BY NFact DEF IInv, TypeOK, Runners
  <1> USE PoolFacts, <1>t DEF QuietInv
  <1>1. ASSUME NEW a \in Actors, Call(a) PROVE QuietInv'
    BY <1>1 DEF Call, TimeoutsOf, MayCall, CallGoTo
  <1>2. ASSUME NEW a \in Actors, Release(a) \/ CallStep(a) PROVE QuietInv'
    <2>1. cpc[a] # "idle" \/ guard[a] # None
      BY <1>2
         DEF Release, CallStep, TakeRunner, TakeTimeout, JoinThread, JoinTimeout, SetUp,
             StartThread, BindGuard, WaitFinished, ResetEvent, GiveBack
    <2>2. a \notin Runners /\ dpc = "none"
      BY <2>1
    <2>3. /\ UNCHANGED <<dpc, next>>
          /\ \A b \in Actors \ {a} : cpc'[b] = cpc[b] /\ guard'[b] = guard[b]
      BY <1>2
         DEF Release, CallStep, TakeRunner, TakeTimeout, JoinThread, JoinTimeout, SetUp,
             StartThread, BindGuard, WaitFinished, ResetEvent, GiveBack, CallGoTo, Return
    <2>4. QED
      BY <2>2, <2>3 DEF QuietInv
  <1>3. ASSUME NEW r \in Runners, ThreadStep(r) PROVE QuietInv'
    <2>1. /\ UNCHANGED <<cpc, guard, dpc, next>>
          /\ active' = active \/ active' = [active EXCEPT ![r] = FALSE]
      BY <1>3
         DEF ThreadStep, BeginTask, EndTask, AfterInvoke, NotifyFinished, ResetOwn,
             ReleaseOwn, Finish, callVars
    <2>2. QED
      BY <2>1
  <1>4. CASE Destroy
    BY <1>4 DEF Destroy, callVars
  <1>5. CASE DestroyStep
    <2>1. CASE WaitThreads /\ next <= N
      BY <2>1 DEF WaitThreads, callVars
    <2>2. CASE WaitThreads /\ ~(next <= N)
      BY <2>2 DEF WaitThreads, callVars
    <2>3. CASE DestroyTake
      BY <2>3 DEF DestroyTake, callVars
    <2>4. CASE DestroyRunner
      BY <2>4 DEF DestroyRunner, callVars
    <2>5. CASE DestroyMembers
      BY <2>5 DEF DestroyMembers
    <2>6. QED
      BY <1>5, <2>1, <2>2, <2>3, <2>4, <2>5 DEF DestroyStep
  <1>6. CASE UNCHANGED vars
    BY <1>6 DEF vars
  <1>7. QED
    BY <1>1, <1>2, <1>3, <1>4, <1>5, <1>6 DEF Next

LEMMA QuietInvariance ==
    ASSUME NestedTimeouts = {} PROVE Spec => []QuietInv
  <1>1. Init => QuietInv
    BY DEF Init, QuietInv
  <1>2. IInv /\ QuietInv /\ [Next]_vars => QuietInv'
    BY QuietStep
  <1>3. QED
    BY <1>1, <1>2, Invariance, PTL DEF Spec

\* When the queue is empty behind destroy(), every thread has been ended.
LEMMA DrainedEnded ==
    ASSUME IInv, KeptInv, QuietInv, dpc = "drain", free = <<>>, NEW r \in Runners
    PROVE  wpc[r] = "ended"
  <1>1. Kept(r) /\ ~active[r]
    BY DEF KeptInv, QuietInv
  <1>2. ~\E i \in 1..Len(free) : free[i] = r
    OBVIOUS
  <1>3. \A a \in Actors : ~Uses(a, r)
    BY PoolFacts DEF IInv, TypeOK, QuietInv, Uses
  <1>4. ~Busy(r)
    BY <1>1 DEF Busy, IInv, ThreadInv
  <1>5. QED
    BY <1>1, <1>2, <1>3, <1>4 DEF Kept

LEMMA CompleteStep ==
    ASSUME IInv, KeptInv, QuietInv, DestroyComplete, [Next]_vars PROVE DestroyComplete'
  <1> SUFFICES ASSUME dpc' = "done", NEW r \in Runners PROVE wpc'[r] = "ended"
    BY DEF DestroyComplete
  <1>1. CASE dpc = "done"
    <2>1. /\ \A a \in Actors : cpc[a] = "idle" /\ guard[a] = None
          /\ \A q \in Runners : wpc[q] = "ended"
      BY <1>1 DEF IInv, DoneInv, DestroyComplete
    <2>2. UNCHANGED wpc
      BY <1>1, <2>1
         DEF Next, CallStep, ThreadStep, DestroyStep, vars, callVars, Call, Release,
             TakeRunner, TakeTimeout, JoinThread, JoinTimeout, SetUp, StartThread, BindGuard,
             WaitFinished, ResetEvent, GiveBack, BeginTask, EndTask, AfterInvoke,
             NotifyFinished, ResetOwn, ReleaseOwn, Finish, Destroy, WaitThreads,
             DestroyTake, DestroyRunner, DestroyMembers
    <2>3. QED
      BY <2>1, <2>2
  <1>2. CASE dpc # "done"
    <2>1. DestroyMembers
      BY <1>2
         DEF Next, CallStep, ThreadStep, DestroyStep, vars, callVars, Call, Release,
             TakeRunner, TakeTimeout, JoinThread, JoinTimeout, SetUp, StartThread, BindGuard,
             WaitFinished, ResetEvent, GiveBack, BeginTask, EndTask, AfterInvoke,
             NotifyFinished, ResetOwn, ReleaseOwn, Finish, Destroy, WaitThreads,
             DestroyTake, DestroyRunner
    <2>2. dpc = "drain" /\ free = <<>>
      BY <2>1 DEF DestroyMembers, QuietInv
    <2>3. QED
      BY <2>1, <2>2, DrainedEnded DEF DestroyMembers
  <1>3. QED
    BY <1>1, <1>2

LEMMA CompleteInvariance ==
    ASSUME BlockingOnly, NestedTimeouts = {} PROVE Spec => [](KeptInv /\ DestroyComplete)
  <1>1. Init => DestroyComplete
    BY DEF Init, DestroyComplete
  <1>2. IInv /\ KeptInv /\ QuietInv /\ DestroyComplete /\ [Next]_vars => DestroyComplete'
    BY CompleteStep
  <1>3. QED
    BY <1>1, <1>2, KeptInvariance, QuietInvariance, PTL DEF Spec

\* destroy() waits for all of the tasks and destroys all of the threads, where
\* callers only block and tasks do not use the pool.
THEOREM DestroyIsComplete ==
    ASSUME BlockingOnly, NestedTimeouts = {} PROVE Spec => []DestroyComplete
  BY CompleteInvariance, PTL

\* There no runner is ever lost.
THEOREM NoRunnerIsLost ==
    ASSUME BlockingOnly, NestedTimeouts = {} PROVE Spec => []NoRunnerLost
  <1>1. KeptInv /\ DestroyComplete => NoRunnerLost
    BY KeptIsPlaced DEF KeptInv, DestroyComplete, NoRunnerLost
  <1>2. QED
    BY <1>1, CompleteInvariance, PTL

=============================================================================
