------------------------- MODULE OneShotTimerProofs -------------------------
(***************************************************************************)
(* The one-shot timer for every set of clients and of times, whatever the  *)
(* Runnable calls.                                                         *)
(***************************************************************************)
EXTENDS OneShotTimer, TLAPS

LEMMA InitIInv == Init => IInv
  BY OSAssumption DEF Init, IInv, TypeOK, Handshake, CallInv, Actors, Armed

LEMMA StepIInv == IInv /\ [Next]_vars => IInv'
  <1> SUFFICES ASSUME IInv, [Next]_vars PROVE IInv'
    OBVIOUS
  <1> USE OSAssumption DEF IInv, TypeOK, Handshake, CallInv, Actors, Armed,
                           AtStart, AtStop, AtTop, MayCall, CallGoTo,
                           NotifyActive, NotifyStarted, NotifyStopped, flags
  <1>1. ASSUME NEW a \in Actors, NEW t \in Times, CallStart(a, t) PROVE IInv'
    BY <1>1 DEF CallStart
  <1>2. ASSUME NEW a \in Actors, CallStop(a) PROVE IInv'
    BY <1>2 DEF CallStop
  <1>3. ASSUME NEW a \in Actors, StartIgnored(a) PROVE IInv'
    BY <1>3 DEF StartIgnored
  <1>4. ASSUME NEW a \in Actors, StartWait(a) PROVE IInv'
    BY <1>4 DEF StartWait
  <1>5. ASSUME NEW a \in Actors, Start(a) PROVE IInv'
    BY <1>5 DEF Start
  <1>6. ASSUME NEW a \in Actors, StopIgnored(a) PROVE IInv'
    BY <1>6 DEF StopIgnored
  <1>7. ASSUME NEW a \in Actors, StopWait(a) PROVE IInv'
    BY <1>7 DEF StopWait
  <1>8. ASSUME NEW a \in Actors, Stop(a) PROVE IInv'
    BY <1>8 DEF Stop
  <1>9. CASE AwaitStart
    BY <1>9 DEF AwaitStart
  <1>10. CASE BeginWait
    BY <1>10 DEF BeginWait
  <1>11. CASE WaitStopped
    BY <1>11 DEF WaitStopped
  <1>12. CASE Elapse
    BY <1>12 DEF Elapse
  <1>13. CASE TimerMain
    BY <1>13 DEF TimerMain
  <1>14. CASE AfterFire
    BY <1>14 DEF AfterFire
  <1>15. CASE Destroy
    BY <1>15 DEF Destroy
  <1>16. CASE UNCHANGED vars
    BY <1>16 DEF vars
  <1>17. QED
    BY <1>1, <1>2, <1>3, <1>4, <1>5, <1>6, <1>7, <1>8, <1>9, <1>10, <1>11, <1>12, <1>13, <1>14,
       <1>15, <1>16
       DEF Next, CallStep, ThreadStep

\* Type correctness, and with it that the thread waits for no time but one
\* that start() gave; and the handshake of start() and the thread.
THEOREM Invariance == Spec => []IInv
  BY InitIInv, StepIInv, PTL DEF Spec

\* The state is of its type.
THEOREM TypeCorrect == Spec => []TypeOK
  BY Invariance, PTL DEF IInv

\* start() never changes the time under a thread that waits for it.
THEOREM HandshakeHolds == Spec => []Handshake
  BY Invariance, PTL DEF IInv

-----------------------------------------------------------------------------
(* The refinement of AbstractTimer.                                        *)

LEMMA InitRefines == Init => Promise!Init
  BY OSAssumption DEF Init, Promise!Init

LEMMA StepRefines == IInv /\ [Next]_vars => [Promise!Next]_(Promise!vars)
  <1> SUFFICES ASSUME IInv, [Next]_vars PROVE [Promise!Next]_(Promise!vars)
    OBVIOUS
  <1> USE OSAssumption DEF IInv, TypeOK, Handshake, CallInv, Actors, Armed,
                           AtStart, AtStop, AtTop, MayCall, CallGoTo,
                           NotifyActive, flags, Promise!vars
  <1>1. ASSUME NEW a \in Actors, NEW t \in Times, CallStart(a,
  t) PROVE [Promise!Next]_(Promise!vars)
    BY <1>1 DEF CallStart
  <1>2. ASSUME NEW a \in Actors, CallStop(a) PROVE [Promise!Next]_(Promise!vars)
    BY <1>2 DEF CallStop
  <1>3. ASSUME NEW a \in Actors, StartIgnored(a) PROVE [Promise!Next]_(Promise!vars)
    BY <1>3 DEF StartIgnored
  <1>4. ASSUME NEW a \in Actors, StartWait(a) PROVE [Promise!Next]_(Promise!vars)
    BY <1>4 DEF StartWait
  <1>5. ASSUME NEW a \in Actors, Start(a) PROVE [Promise!Next]_(Promise!vars)
    BY <1>5 DEF Start, Promise!Next, Promise!Start
  <1>6. ASSUME NEW a \in Actors, StopIgnored(a) PROVE [Promise!Next]_(Promise!vars)
    BY <1>6 DEF StopIgnored
  <1>7. ASSUME NEW a \in Actors, StopWait(a) PROVE [Promise!Next]_(Promise!vars)
    BY <1>7 DEF StopWait
  <1>8. ASSUME NEW a \in Actors, Stop(a) PROVE [Promise!Next]_(Promise!vars)
    BY <1>8 DEF Stop, Promise!Next, Promise!Stop
  <1>9. CASE AwaitStart
    BY <1>9 DEF AwaitStart
  <1>10. CASE BeginWait
    BY <1>10 DEF BeginWait
  <1>11. CASE WaitStopped
    BY <1>11 DEF WaitStopped
  <1>12. CASE Elapse
    BY <1>12 DEF Elapse, Promise!Next, Promise!Fire
  <1>13. CASE TimerMain
    BY <1>13 DEF TimerMain
  <1>14. CASE AfterFire
    BY <1>14 DEF AfterFire, Promise!Next, Promise!Done
  <1>15. CASE Destroy
    BY <1>15 DEF Destroy
  <1>16. CASE UNCHANGED vars
    BY <1>16 DEF vars
  <1>17. QED
    BY <1>1, <1>2, <1>3, <1>4, <1>5, <1>6, <1>7, <1>8, <1>9, <1>10, <1>11, <1>12, <1>13, <1>14,
       <1>15, <1>16
       DEF Next, CallStep, ThreadStep

\* Every behaviour of the timer is one of a one-shot timer: one call of the
\* Runnable at most for each start that was not stopped, at its own time.
THEOREM Refinement == Spec => IsOneShotTimer
  BY Invariance, InitRefines, StepRefines, PTL DEF Spec, IsOneShotTimer, Promise!Spec

=============================================================================
