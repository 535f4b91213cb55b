------------------------- MODULE MessageQueueProofs -------------------------
(***************************************************************************)
(* The invariants of MessageQueue for every set of threads and of          *)
(* messages, every MaxSize, whatever timeouts and exceptions.              *)
(***************************************************************************)
EXTENDS MessageQueue, SequenceTheorems, TLAPS

LEMMA TypeInit == Init => TypeOK
  BY MQAssumption DEF Init, TypeOK, OpOf, PCs, SendPCs, RecvPCs, Results

LEMMA TypeStep == TypeOK /\ [Next]_vars => TypeOK'
  <1> SUFFICES ASSUME TypeOK, [Next]_vars PROVE TypeOK'
    OBVIOUS
  <1> USE MQAssumption DEF TypeOK, OpOf, PCs, Results, SendPCs, RecvPCs,
                           GoTo, Result, ring, call, NextIdx, BufSize
  <1>1. ASSUME NEW t \in Threads, NEW m \in Msgs, NEW to \in Timeouts,
               Call(t, "s_lock", m, to)
        PROVE  TypeOK'
    BY <1>1 DEF Call
  <1>2. ASSUME NEW t \in Threads, NEW to \in Timeouts, Call(t, "r_lock", NoMsg, to)
        PROVE  TypeOK'
    BY <1>2 DEF Call
  <1>3. ASSUME NEW t \in Threads, SendLock(t) PROVE TypeOK'
    BY <1>3 DEF SendLock
  <1>4. ASSUME NEW t \in Threads, SendLockTimeout(t) PROVE TypeOK'
    BY <1>4 DEF SendLockTimeout
  <1>5. ASSUME NEW t \in Threads, SendIsFull(t) PROVE TypeOK'
    BY <1>5 DEF SendIsFull
  <1>6. ASSUME NEW t \in Threads, SendWait(t) PROVE TypeOK'
    BY <1>6 DEF SendWait
  <1>7. ASSUME NEW t \in Threads, SendWaitTimeout(t) PROVE TypeOK'
    BY <1>7 DEF SendWaitTimeout
  <1>8. ASSUME NEW t \in Threads, SendPush(t) PROVE TypeOK'
    BY <1>8 DEF SendPush
  <1>9. ASSUME NEW t \in Threads, SendPushThrows(t) PROVE TypeOK'
    BY <1>9 DEF SendPushThrows
  <1>10. ASSUME NEW t \in Threads, SendSet(t) PROVE TypeOK'
    BY <1>10 DEF SendSet
  <1>11. ASSUME NEW t \in Threads, SendReturn(t) PROVE TypeOK'
    BY <1>11 DEF SendReturn
  <1>12. ASSUME NEW t \in Threads, RecvLock(t) PROVE TypeOK'
    BY <1>12 DEF RecvLock
  <1>13. ASSUME NEW t \in Threads, RecvLockTimeout(t) PROVE TypeOK'
    BY <1>13 DEF RecvLockTimeout
  <1>14. ASSUME NEW t \in Threads, RecvIsEmpty(t) PROVE TypeOK'
    BY <1>14 DEF RecvIsEmpty
  <1>15. ASSUME NEW t \in Threads, RecvWait(t) PROVE TypeOK'
    BY <1>15 DEF RecvWait
  <1>16. ASSUME NEW t \in Threads, RecvWaitTimeout(t) PROVE TypeOK'
    BY <1>16 DEF RecvWaitTimeout
  <1>17. ASSUME NEW t \in Threads, RecvPop(t) PROVE TypeOK'
    BY <1>17 DEF RecvPop
  <1>18. ASSUME NEW t \in Threads, RecvPopThrows(t) PROVE TypeOK'
    BY <1>18 DEF RecvPopThrows
  <1>19. ASSUME NEW t \in Threads, RecvSet(t) PROVE TypeOK'
    BY <1>19 DEF RecvSet
  <1>20. ASSUME NEW t \in Threads, RecvReturn(t) PROVE TypeOK'
    BY <1>20 DEF RecvReturn
  <1>21. CASE UNCHANGED vars
    BY <1>21 DEF vars
  <1>22. QED
    BY <1>1, <1>2, <1>3, <1>4, <1>5, <1>6, <1>7, <1>8, <1>9, <1>10,
       <1>11, <1>12, <1>13, <1>14, <1>15, <1>16, <1>17, <1>18,
       <1>19, <1>20, <1>21
       DEF Next, SendStep, RecvStep

THEOREM TypeCorrect == Spec => []TypeOK
  BY TypeInit, TypeStep, PTL DEF Spec

LEMMA MutexStep == TypeOK /\ MutexInv /\ [Next]_vars => MutexInv'
  <1> SUFFICES ASSUME TypeOK, MutexInv, [Next]_vars PROVE MutexInv'
    OBVIOUS
  <1> USE MQAssumption DEF TypeOK, MutexInv, PCs, SendPCs, RecvPCs,
                           GoTo, Result, ring, call
  <1>1. ASSUME NEW t \in Threads, NEW m \in Msgs, NEW to \in Timeouts,
               Call(t, "s_lock", m, to)
        PROVE  MutexInv'
    BY <1>1 DEF Call
  <1>2. ASSUME NEW t \in Threads, NEW to \in Timeouts, Call(t, "r_lock", NoMsg, to)
        PROVE  MutexInv'
    BY <1>2 DEF Call
  <1>3. ASSUME NEW t \in Threads, SendLock(t) PROVE MutexInv'
    BY <1>3 DEF SendLock
  <1>4. ASSUME NEW t \in Threads, SendLockTimeout(t) PROVE MutexInv'
    BY <1>4 DEF SendLockTimeout
  <1>5. ASSUME NEW t \in Threads, SendIsFull(t) PROVE MutexInv'
    BY <1>5 DEF SendIsFull
  <1>6. ASSUME NEW t \in Threads, SendWait(t) PROVE MutexInv'
    BY <1>6 DEF SendWait
  <1>7. ASSUME NEW t \in Threads, SendWaitTimeout(t) PROVE MutexInv'
    BY <1>7 DEF SendWaitTimeout
  <1>8. ASSUME NEW t \in Threads, SendPush(t) PROVE MutexInv'
    BY <1>8 DEF SendPush
  <1>9. ASSUME NEW t \in Threads, SendPushThrows(t) PROVE MutexInv'
    BY <1>9 DEF SendPushThrows
  <1>10. ASSUME NEW t \in Threads, SendSet(t) PROVE MutexInv'
    BY <1>10 DEF SendSet
  <1>11. ASSUME NEW t \in Threads, SendReturn(t) PROVE MutexInv'
    BY <1>11 DEF SendReturn
  <1>12. ASSUME NEW t \in Threads, RecvLock(t) PROVE MutexInv'
    BY <1>12 DEF RecvLock
  <1>13. ASSUME NEW t \in Threads, RecvLockTimeout(t) PROVE MutexInv'
    BY <1>13 DEF RecvLockTimeout
  <1>14. ASSUME NEW t \in Threads, RecvIsEmpty(t) PROVE MutexInv'
    BY <1>14 DEF RecvIsEmpty
  <1>15. ASSUME NEW t \in Threads, RecvWait(t) PROVE MutexInv'
    BY <1>15 DEF RecvWait
  <1>16. ASSUME NEW t \in Threads, RecvWaitTimeout(t) PROVE MutexInv'
    BY <1>16 DEF RecvWaitTimeout
  <1>17. ASSUME NEW t \in Threads, RecvPop(t) PROVE MutexInv'
    BY <1>17 DEF RecvPop
  <1>18. ASSUME NEW t \in Threads, RecvPopThrows(t) PROVE MutexInv'
    BY <1>18 DEF RecvPopThrows
  <1>19. ASSUME NEW t \in Threads, RecvSet(t) PROVE MutexInv'
    BY <1>19 DEF RecvSet
  <1>20. ASSUME NEW t \in Threads, RecvReturn(t) PROVE MutexInv'
    BY <1>20 DEF RecvReturn
  <1>21. CASE UNCHANGED vars
    BY <1>21 DEF vars
  <1>22. QED
    BY <1>1, <1>2, <1>3, <1>4, <1>5, <1>6, <1>7, <1>8, <1>9, <1>10,
       <1>11, <1>12, <1>13, <1>14, <1>15, <1>16, <1>17, <1>18,
       <1>19, <1>20, <1>21
       DEF Next, SendStep, RecvStep

LEMMA RingSafeStep == IInv /\ [Next]_vars => RingSafe'
  <1> SUFFICES ASSUME IInv, [Next]_vars PROVE RingSafe'
    OBVIOUS
  <1> USE MQAssumption DEF IInv, TypeOK, MutexInv, FlagInv, RingSafe, PCs, SendPCs, RecvPCs,
                           GoTo, Result, ring, call, NextIdx, BufSize, Size, Empty, Full
  <1>1. ASSUME NEW t \in Threads, NEW m \in Msgs, NEW to \in Timeouts,
               Call(t, "s_lock", m, to)
        PROVE  RingSafe'
    BY <1>1 DEF Call
  <1>2. ASSUME NEW t \in Threads, NEW to \in Timeouts, Call(t, "r_lock", NoMsg, to)
        PROVE  RingSafe'
    BY <1>2 DEF Call
  <1>3. ASSUME NEW t \in Threads, SendLock(t) PROVE RingSafe'
    BY <1>3 DEF SendLock
  <1>4. ASSUME NEW t \in Threads, SendLockTimeout(t) PROVE RingSafe'
    BY <1>4 DEF SendLockTimeout
  <1>5. ASSUME NEW t \in Threads, SendIsFull(t) PROVE RingSafe'
    BY <1>5 DEF SendIsFull
  <1>6. ASSUME NEW t \in Threads, SendWait(t) PROVE RingSafe'
    BY <1>6 DEF SendWait
  <1>7. ASSUME NEW t \in Threads, SendWaitTimeout(t) PROVE RingSafe'
    BY <1>7 DEF SendWaitTimeout
  <1>8. ASSUME NEW t \in Threads, SendPush(t) PROVE RingSafe'
    BY <1>8 DEF SendPush
  <1>9. ASSUME NEW t \in Threads, SendPushThrows(t) PROVE RingSafe'
    BY <1>9 DEF SendPushThrows
  <1>10. ASSUME NEW t \in Threads, SendSet(t) PROVE RingSafe'
    BY <1>10 DEF SendSet
  <1>11. ASSUME NEW t \in Threads, SendReturn(t) PROVE RingSafe'
    BY <1>11 DEF SendReturn
  <1>12. ASSUME NEW t \in Threads, RecvLock(t) PROVE RingSafe'
    BY <1>12 DEF RecvLock
  <1>13. ASSUME NEW t \in Threads, RecvLockTimeout(t) PROVE RingSafe'
    BY <1>13 DEF RecvLockTimeout
  <1>14. ASSUME NEW t \in Threads, RecvIsEmpty(t) PROVE RingSafe'
    BY <1>14 DEF RecvIsEmpty
  <1>15. ASSUME NEW t \in Threads, RecvWait(t) PROVE RingSafe'
    BY <1>15 DEF RecvWait
  <1>16. ASSUME NEW t \in Threads, RecvWaitTimeout(t) PROVE RingSafe'
    BY <1>16 DEF RecvWaitTimeout
  <1>17. ASSUME NEW t \in Threads, RecvPop(t) PROVE RingSafe'
    BY <1>17 DEF RecvPop
  <1>18. ASSUME NEW t \in Threads, RecvPopThrows(t) PROVE RingSafe'
    BY <1>18 DEF RecvPopThrows
  <1>19. ASSUME NEW t \in Threads, RecvSet(t) PROVE RingSafe'
    BY <1>19 DEF RecvSet
  <1>20. ASSUME NEW t \in Threads, RecvReturn(t) PROVE RingSafe'
    BY <1>20 DEF RecvReturn
  <1>21. CASE UNCHANGED vars
    BY <1>21 DEF vars
  <1>22. QED
    BY <1>1, <1>2, <1>3, <1>4, <1>5, <1>6, <1>7, <1>8, <1>9, <1>10,
       <1>11, <1>12, <1>13, <1>14, <1>15, <1>16, <1>17, <1>18,
       <1>19, <1>20, <1>21
       DEF Next, SendStep, RecvStep

LEMMA FlagStep == IInv /\ [Next]_vars => FlagInv'
  <1> SUFFICES ASSUME IInv, [Next]_vars PROVE FlagInv'
    OBVIOUS
  <1> USE MQAssumption DEF IInv, TypeOK, MutexInv, FlagInv, RingSafe, PCs, SendPCs, RecvPCs,
                           GoTo, Result, ring, call, NextIdx, BufSize, Size, Empty, Full
  <1>1. ASSUME NEW t \in Threads, NEW m \in Msgs, NEW to \in Timeouts,
               Call(t, "s_lock", m, to)
        PROVE  FlagInv'
    BY <1>1 DEF Call
  <1>2. ASSUME NEW t \in Threads, NEW to \in Timeouts, Call(t, "r_lock", NoMsg, to)
        PROVE  FlagInv'
    BY <1>2 DEF Call
  <1>3. ASSUME NEW t \in Threads, SendLock(t) PROVE FlagInv'
    BY <1>3 DEF SendLock
  <1>4. ASSUME NEW t \in Threads, SendLockTimeout(t) PROVE FlagInv'
    BY <1>4 DEF SendLockTimeout
  <1>5. ASSUME NEW t \in Threads, SendIsFull(t) PROVE FlagInv'
    BY <1>5 DEF SendIsFull
  <1>6. ASSUME NEW t \in Threads, SendWait(t) PROVE FlagInv'
    BY <1>6 DEF SendWait
  <1>7. ASSUME NEW t \in Threads, SendWaitTimeout(t) PROVE FlagInv'
    BY <1>7 DEF SendWaitTimeout
  <1>8. ASSUME NEW t \in Threads, SendPush(t) PROVE FlagInv'
    BY <1>8 DEF SendPush
  <1>9. ASSUME NEW t \in Threads, SendPushThrows(t) PROVE FlagInv'
    BY <1>9 DEF SendPushThrows
  <1>10. ASSUME NEW t \in Threads, SendSet(t) PROVE FlagInv'
    BY <1>10 DEF SendSet
  <1>11. ASSUME NEW t \in Threads, SendReturn(t) PROVE FlagInv'
    BY <1>11 DEF SendReturn
  <1>12. ASSUME NEW t \in Threads, RecvLock(t) PROVE FlagInv'
    BY <1>12 DEF RecvLock
  <1>13. ASSUME NEW t \in Threads, RecvLockTimeout(t) PROVE FlagInv'
    BY <1>13 DEF RecvLockTimeout
  <1>14. ASSUME NEW t \in Threads, RecvIsEmpty(t) PROVE FlagInv'
    BY <1>14 DEF RecvIsEmpty
  <1>15. ASSUME NEW t \in Threads, RecvWait(t) PROVE FlagInv'
    BY <1>15 DEF RecvWait
  <1>16. ASSUME NEW t \in Threads, RecvWaitTimeout(t) PROVE FlagInv'
    BY <1>16 DEF RecvWaitTimeout
  <1>17. ASSUME NEW t \in Threads, RecvPop(t) PROVE FlagInv'
    BY <1>17 DEF RecvPop
  <1>18. ASSUME NEW t \in Threads, RecvPopThrows(t) PROVE FlagInv'
    BY <1>18 DEF RecvPopThrows
  <1>19. ASSUME NEW t \in Threads, RecvSet(t) PROVE FlagInv'
    BY <1>19 DEF RecvSet
  <1>20. ASSUME NEW t \in Threads, RecvReturn(t) PROVE FlagInv'
    BY <1>20 DEF RecvReturn
  <1>21. CASE UNCHANGED vars
    BY <1>21 DEF vars
  <1>22. QED
    BY <1>1, <1>2, <1>3, <1>4, <1>5, <1>6, <1>7, <1>8, <1>9, <1>10,
       <1>11, <1>12, <1>13, <1>14, <1>15, <1>16, <1>17, <1>18,
       <1>19, <1>20, <1>21
       DEF Next, SendStep, RecvStep

LEMMA NoLostStep == IInv /\ [Next]_vars => NoLostWakeup'
  <1> SUFFICES ASSUME IInv, [Next]_vars PROVE NoLostWakeup'
    OBVIOUS
  <1> USE MQAssumption DEF IInv, TypeOK, MutexInv, FlagInv, RingSafe, NoLostWakeup, PCs,
                           SendPCs, RecvPCs,
                           GoTo, Result, ring, call, NextIdx, BufSize, Size, Empty, Full
  <1>1. ASSUME NEW t \in Threads, NEW m \in Msgs, NEW to \in Timeouts,
               Call(t, "s_lock", m, to)
        PROVE  NoLostWakeup'
    BY <1>1 DEF Call
  <1>2. ASSUME NEW t \in Threads, NEW to \in Timeouts, Call(t, "r_lock", NoMsg, to)
        PROVE  NoLostWakeup'
    BY <1>2 DEF Call
  <1>3. ASSUME NEW t \in Threads, SendLock(t) PROVE NoLostWakeup'
    BY <1>3 DEF SendLock
  <1>4. ASSUME NEW t \in Threads, SendLockTimeout(t) PROVE NoLostWakeup'
    BY <1>4 DEF SendLockTimeout
  <1>5. ASSUME NEW t \in Threads, SendIsFull(t) PROVE NoLostWakeup'
    BY <1>5 DEF SendIsFull
  <1>6. ASSUME NEW t \in Threads, SendWait(t) PROVE NoLostWakeup'
    BY <1>6 DEF SendWait
  <1>7. ASSUME NEW t \in Threads, SendWaitTimeout(t) PROVE NoLostWakeup'
    BY <1>7 DEF SendWaitTimeout
  <1>8. ASSUME NEW t \in Threads, SendPush(t) PROVE NoLostWakeup'
    BY <1>8 DEF SendPush
  <1>9. ASSUME NEW t \in Threads, SendPushThrows(t) PROVE NoLostWakeup'
    BY <1>9 DEF SendPushThrows
  <1>10. ASSUME NEW t \in Threads, SendSet(t) PROVE NoLostWakeup'
    BY <1>10 DEF SendSet
  <1>11. ASSUME NEW t \in Threads, SendReturn(t) PROVE NoLostWakeup'
    BY <1>11 DEF SendReturn
  <1>12. ASSUME NEW t \in Threads, RecvLock(t) PROVE NoLostWakeup'
    BY <1>12 DEF RecvLock
  <1>13. ASSUME NEW t \in Threads, RecvLockTimeout(t) PROVE NoLostWakeup'
    BY <1>13 DEF RecvLockTimeout
  <1>14. ASSUME NEW t \in Threads, RecvIsEmpty(t) PROVE NoLostWakeup'
    BY <1>14 DEF RecvIsEmpty
  <1>15. ASSUME NEW t \in Threads, RecvWait(t) PROVE NoLostWakeup'
    BY <1>15 DEF RecvWait
  <1>16. ASSUME NEW t \in Threads, RecvWaitTimeout(t) PROVE NoLostWakeup'
    BY <1>16 DEF RecvWaitTimeout
  <1>17. ASSUME NEW t \in Threads, RecvPop(t) PROVE NoLostWakeup'
    BY <1>17 DEF RecvPop
  <1>18. ASSUME NEW t \in Threads, RecvPopThrows(t) PROVE NoLostWakeup'
    BY <1>18 DEF RecvPopThrows
  <1>19. ASSUME NEW t \in Threads, RecvSet(t) PROVE NoLostWakeup'
    BY <1>19 DEF RecvSet
  <1>20. ASSUME NEW t \in Threads, RecvReturn(t) PROVE NoLostWakeup'
    BY <1>20 DEF RecvReturn
  <1>21. CASE UNCHANGED vars
    BY <1>21 DEF vars
  <1>22. QED
    BY <1>1, <1>2, <1>3, <1>4, <1>5, <1>6, <1>7, <1>8, <1>9, <1>10,
       <1>11, <1>12, <1>13, <1>14, <1>15, <1>16, <1>17, <1>18,
       <1>19, <1>20, <1>21
       DEF Next, SendStep, RecvStep

LEMMA LiveStep == IInv /\ [Next]_vars => LiveSlots'
  <1> SUFFICES ASSUME IInv, [Next]_vars PROVE LiveSlots'
    OBVIOUS
  <1> USE MQAssumption DEF IInv, TypeOK, RingSafe, LiveSlots, InWindow, PCs, SendPCs, RecvPCs,
                           GoTo, Result, ring, call, NextIdx, BufSize, Size, Empty, Full
  <1>1. ASSUME NEW t \in Threads, NEW m \in Msgs, NEW to \in Timeouts,
               Call(t, "s_lock", m, to)
        PROVE  LiveSlots'
    BY <1>1 DEF Call
  <1>2. ASSUME NEW t \in Threads, NEW to \in Timeouts, Call(t, "r_lock", NoMsg, to)
        PROVE  LiveSlots'
    BY <1>2 DEF Call
  <1>3. ASSUME NEW t \in Threads, SendLock(t) PROVE LiveSlots'
    BY <1>3 DEF SendLock
  <1>4. ASSUME NEW t \in Threads, SendLockTimeout(t) PROVE LiveSlots'
    BY <1>4 DEF SendLockTimeout
  <1>5. ASSUME NEW t \in Threads, SendIsFull(t) PROVE LiveSlots'
    BY <1>5 DEF SendIsFull
  <1>6. ASSUME NEW t \in Threads, SendWait(t) PROVE LiveSlots'
    BY <1>6 DEF SendWait
  <1>7. ASSUME NEW t \in Threads, SendWaitTimeout(t) PROVE LiveSlots'
    BY <1>7 DEF SendWaitTimeout
  <1>8. ASSUME NEW t \in Threads, SendPush(t) PROVE LiveSlots'
    BY <1>8 DEF SendPush
  <1>9. ASSUME NEW t \in Threads, SendPushThrows(t) PROVE LiveSlots'
    BY <1>9 DEF SendPushThrows
  <1>10. ASSUME NEW t \in Threads, SendSet(t) PROVE LiveSlots'
    BY <1>10 DEF SendSet
  <1>11. ASSUME NEW t \in Threads, SendReturn(t) PROVE LiveSlots'
    BY <1>11 DEF SendReturn
  <1>12. ASSUME NEW t \in Threads, RecvLock(t) PROVE LiveSlots'
    BY <1>12 DEF RecvLock
  <1>13. ASSUME NEW t \in Threads, RecvLockTimeout(t) PROVE LiveSlots'
    BY <1>13 DEF RecvLockTimeout
  <1>14. ASSUME NEW t \in Threads, RecvIsEmpty(t) PROVE LiveSlots'
    BY <1>14 DEF RecvIsEmpty
  <1>15. ASSUME NEW t \in Threads, RecvWait(t) PROVE LiveSlots'
    BY <1>15 DEF RecvWait
  <1>16. ASSUME NEW t \in Threads, RecvWaitTimeout(t) PROVE LiveSlots'
    BY <1>16 DEF RecvWaitTimeout
  <1>17. ASSUME NEW t \in Threads, RecvPop(t) PROVE LiveSlots'
    BY <1>17 DEF RecvPop
  <1>18. ASSUME NEW t \in Threads, RecvPopThrows(t) PROVE LiveSlots'
    BY <1>18 DEF RecvPopThrows
  <1>19. ASSUME NEW t \in Threads, RecvSet(t) PROVE LiveSlots'
    BY <1>19 DEF RecvSet
  <1>20. ASSUME NEW t \in Threads, RecvReturn(t) PROVE LiveSlots'
    BY <1>20 DEF RecvReturn
  <1>21. CASE UNCHANGED vars
    BY <1>21 DEF vars
  <1>22. QED
    BY <1>1, <1>2, <1>3, <1>4, <1>5, <1>6, <1>7, <1>8, <1>9, <1>10,
       <1>11, <1>12, <1>13, <1>14, <1>15, <1>16, <1>17, <1>18,
       <1>19, <1>20, <1>21
       DEF Next, SendStep, RecvStep

LEMMA InitIInv == Init => IInv
  <1> SUFFICES ASSUME Init PROVE IInv
    OBVIOUS
  <1>1. TypeOK
    BY TypeInit
  <1>2. LiveSlots
    BY MQAssumption DEF Init, LiveSlots, InWindow
  <1>3. QED
    BY <1>1, <1>2, MQAssumption
       DEF Init, IInv, MutexInv, FlagInv, RingSafe, NoLostWakeup, SendPCs, RecvPCs

\* The inductive invariant holds in every reachable state.
THEOREM Invariance == Spec => []IInv
  <1>1. IInv /\ [Next]_vars => IInv'
    BY TypeStep, MutexStep, FlagStep, RingSafeStep, NoLostStep, LiveStep DEF IInv
  <1>2. QED
    BY InitIInv, <1>1, PTL DEF Spec

\* timedSend() never pushes to a full buffer and timedReceive() never pops
\* from an empty one, however their tests, waits and timeouts interleave.
THEOREM RingSafety == Spec => []RingSafe
  <1>1. IInv => RingSafe
    BY DEF IInv
  <1>2. QED
    BY Invariance, <1>1, PTL

\* The reset in isEmpty() and isFull() loses no wakeup.
THEOREM NoWakeupIsLost == Spec => []NoLostWakeup
  <1>1. IInv => NoLostWakeup
    BY DEF IInv
  <1>2. QED
    BY Invariance, <1>1, PTL

\* Exactly the slots of the window hold objects of T.
THEOREM SlotsLive == Spec => []LiveSlots
  <1>1. IInv => LiveSlots
    BY DEF IInv
  <1>2. QED
    BY Invariance, <1>1, PTL

\* The three mutexes and the two bits never block everyone.  Were all threads blocked,
\* a sender would wait for NOT_FULL and a receiver for NOT_EMPTY, and the queue, as no
\* wakeup is lost, would be full and empty.
THEOREM NoGridlockEver == Spec => []NoGridlock
  <1>1. ASSUME IInv PROVE NoGridlock
    <2> SUFFICES ASSUME MaxSize > 0,
                        NEW s \in Threads, pc[s] \in SendPCs,
                        NEW r \in Threads, pc[r] \in RecvPCs,
                        \A t \in Threads : ~CanStep(t)
                 PROVE  FALSE
      BY DEF NoGridlock
    <2> USE DEF IInv, TypeOK, MutexInv, SendPCs, RecvPCs, CanStep
    <2>1. mtxRB = NoThread /\ \A t \in Threads : pc[t] \notin {"s_set", "r_set"}
      BY <1>1
    <2>2. PICK u \in Threads : pc[u] = "s_wait" /\ "NOT_FULL" \notin event
      <3>1. PICK u \in Threads : pc[u] \in SendPCs \ {"s_lock"}
        BY <1>1
      <3>2. QED
        BY <2>1, <3>1
    <2>3. PICK v \in Threads : pc[v] = "r_wait" /\ "NOT_EMPTY" \notin event
      <3>1. PICK v \in Threads : pc[v] \in RecvPCs \ {"r_lock"}
        BY <1>1
      <3>2. QED
        BY <2>1, <3>1
    <2>4. Empty /\ Full
      BY <1>1, <2>1, <2>2, <2>3 DEF NoLostWakeup
    <2>5. QED
      BY <1>1, <2>4, MQAssumption DEF Empty, Full, Size
  <1>2. QED
    BY Invariance, <1>1, PTL

-----------------------------------------------------------------------------
(* MessageQueue implements BoundedQueue.  First what a step does to the    *)
(* sequence of messages, then each action against the abstract one.        *)

LEMMA ContentsType ==
    ASSUME TypeOK
    PROVE  /\ Size \in 0..MaxSize
           /\ Contents \in Seq(Msgs \cup {Raw})
           /\ Len(Contents) = Size
           /\ \A k \in 1..Size : Slot(k) \in 0..MaxSize /\ Contents[k] = buf[Slot(k)]
  <1>1. Size \in 0..MaxSize
    BY MQAssumption DEF TypeOK, Size, BufSize
  <1>2. \A k \in 1..Size : Slot(k) \in 0..MaxSize
    BY <1>1, MQAssumption DEF TypeOK, Slot, BufSize
  <1>3. Contents \in [1..Size -> Msgs \cup {Raw}]
    BY <1>2 DEF Contents, TypeOK
  <1>4. QED
    BY <1>1, <1>2, <1>3 DEF Contents

\* Append and Tail as functions of the position.
LEMMA AppendAt ==
    ASSUME NEW S, NEW s \in Seq(S), NEW x \in S
    PROVE  Append(s, x) =
             [k \in 1..Len(s) + 1 |-> IF k = Len(s) + 1 THEN x ELSE s[k]]
  <1> DEFINE f == [k \in 1..Len(s) + 1 |-> IF k = Len(s) + 1 THEN x ELSE s[k]]
  <1>1. Len(s) \in Nat /\ \A k \in 1..Len(s) : s[k] \in S
    OBVIOUS
  <1>2. f \in [1..Len(s) + 1 -> S]
    BY <1>1
  <1>3. f \in Seq(S) /\ Len(f) = Len(s) + 1
    BY <1>1, <1>2
  <1>4. \A k \in 1..Len(s) + 1 : Append(s, x)[k] = f[k]
    BY <1>1, AppendProperties
  <1>5. Append(s, x) \in Seq(S) /\ Len(Append(s, x)) = Len(s) + 1
    BY AppendProperties
  <1> HIDE DEF f
  <1>6. Append(s, x) = f
    BY <1>3, <1>4, <1>5, SeqEqual
  <1>7. QED
    BY <1>6 DEF f

LEMMA TailAt ==
    ASSUME NEW S, NEW s \in Seq(S), s # <<>>
    PROVE  /\ Head(s) = s[1]
           /\ Tail(s) = [k \in 1..Len(s) - 1 |-> s[k + 1]]
  <1> DEFINE f == [k \in 1..Len(s) - 1 |-> s[k + 1]]
  <1>1. Len(s) \in Nat \ {0} /\ \A k \in 1..Len(s) : s[k] \in S
    OBVIOUS
  <1>2. f \in [1..Len(s) - 1 -> S]
    BY <1>1
  <1>3. f \in Seq(S) /\ Len(f) = Len(s) - 1
    BY <1>1, <1>2
  <1>4. Tail(s) \in Seq(S) /\ Len(Tail(s)) = Len(s) - 1
    BY HeadTailProperties
  <1>5. \A k \in 1..Len(s) - 1 : Tail(s)[k] = f[k]
    BY <1>4, HeadTailProperties
  <1> HIDE DEF f
  <1>6. Tail(s) = f
    BY <1>3, <1>4, <1>5, SeqEqual
  <1>7. QED
    BY <1>6 DEF f

LEMMA ContentsPush ==
    ASSUME TypeOK, TypeOK', ~Full, NEW m \in Msgs,
           buf' = [buf EXCEPT ![end] = m], end' = NextIdx(end), begin' = begin
    PROVE  Contents' = Append(Contents, m)
  <1>0. /\ Len(Contents) = Size /\ Contents \in Seq(Msgs \cup {Raw})
        /\ \A k \in 1..Size : Contents[k] = buf[Slot(k)]
    BY ContentsType
  <1>1. Size \in Nat /\ Size' = Size + 1
    BY MQAssumption DEF TypeOK, Size, BufSize, Full, NextIdx
  <1>2. \A k \in 1..Size : Slot(k)' = Slot(k) /\ Slot(k) # end /\ Slot(k) \in 0..MaxSize
    BY MQAssumption DEF TypeOK, Size, BufSize, Full, NextIdx, Slot
  <1>3. \A k \in Nat : k = Size + 1 => Slot(k)' = end
    BY MQAssumption DEF TypeOK, Size, BufSize, Full, NextIdx, Slot
  <1>4. \A k \in 1..Size + 1 : buf'[Slot(k)'] = IF k = Size + 1 THEN m ELSE Contents[k]
    <2>1. buf \in [0..MaxSize -> Msgs \cup {Raw}] /\ end \in 0..MaxSize
      BY DEF TypeOK
    <2>2. QED
      BY <1>0, <1>1, <1>2, <1>3, <2>1
  <1>5. Append(Contents, m) =
          [k \in 1..Size + 1 |-> IF k = Size + 1 THEN m ELSE Contents[k]]
    BY <1>0, AppendAt
  <1>6. Contents' = [k \in 1..Size + 1 |-> buf'[Slot(k)']]
    BY <1>1 DEF Contents
  <1>7. QED
    BY <1>4, <1>5, <1>6

LEMMA ContentsPop ==
    ASSUME TypeOK, TypeOK', ~Empty,
           buf' = [buf EXCEPT ![begin] = Raw], begin' = NextIdx(begin), end' = end
    PROVE  Contents # <<>> /\ Head(Contents) = buf[begin] /\ Contents' = Tail(Contents)
  <1>0. /\ Len(Contents) = Size /\ Contents \in Seq(Msgs \cup {Raw})
        /\ \A k \in 1..Size : Contents[k] = buf[Slot(k)]
    BY ContentsType
  <1>1. Size \in Nat \ {0} /\ Size' = Size - 1
    BY MQAssumption DEF TypeOK, Size, BufSize, Empty, NextIdx
  <1>2. \A k \in 1..Size - 1 :
          Slot(k)' = Slot(k + 1) /\ Slot(k)' # begin /\ Slot(k)' \in 0..MaxSize
    BY MQAssumption DEF TypeOK, Size, BufSize, Empty, NextIdx, Slot
  <1>3. Slot(1) = begin
    BY MQAssumption DEF TypeOK, BufSize, Slot
  <1>4. Contents # <<>>
    BY <1>0, <1>1
  <1>5. Head(Contents) = buf[begin] /\ Tail(Contents) = [k \in 1..Size - 1 |-> Contents[k + 1]]
    BY <1>0, <1>1, <1>3, <1>4, TailAt
  <1>6. \A k \in 1..Size - 1 : buf'[Slot(k)'] = Contents[k + 1]
    <2>1. buf \in [0..MaxSize -> Msgs \cup {Raw}]
      BY DEF TypeOK
    <2>2. QED
      BY <1>0, <1>1, <1>2, <2>1
  <1>7. Contents' = [k \in 1..Size - 1 |-> buf'[Slot(k)']]
    BY <1>1 DEF Contents
  <1>8. QED
    BY <1>4, <1>5, <1>6, <1>7

LEMMA ContentsSame == UNCHANGED ring => Contents' = Contents
  BY DEF ring, Contents, Size, Slot, BufSize

LEMMA InitRefines == Init => Queue!Init
  <1> SUFFICES ASSUME Init PROVE Queue!Init
    OBVIOUS
  <1>1. Contents = <<>>
    BY MQAssumption DEF Init, Contents, Size
  <1>2. QED
    BY <1>1 DEF Init, Queue!Init, OpOf

LEMMA StepRefines == IInv /\ TypeOK' /\ [Next]_vars => [Queue!Next]_(Queue!vars)
  <1> SUFFICES ASSUME IInv, TypeOK', [Next]_vars PROVE [Queue!Next]_(Queue!vars)
    OBVIOUS
  <1>a. TypeOK /\ RingSafe
    BY DEF IInv
  <1> USE <1>a DEF TypeOK, SendPCs, GoTo, Result, ring, call, OpOf, Queue!vars, Queue!Next
  <1>1. ASSUME NEW t \in Threads, NEW m \in Msgs, NEW to \in Timeouts,
               Call(t, "s_lock", m, to)
        PROVE  [Queue!Next]_(Queue!vars)
    <2>1. Queue!Call(t, "send", m, to)
      BY <1>1, ContentsSame DEF Call, Queue!Call
    <2>2. QED
      BY <2>1
  <1>2. ASSUME NEW t \in Threads, NEW to \in Timeouts, Call(t, "r_lock", NoMsg, to)
        PROVE  [Queue!Next]_(Queue!vars)
    <2>1. Queue!Call(t, "receive", NoMsg, to)
      BY <1>2, ContentsSame DEF Call, Queue!Call
    <2>2. QED
      BY <2>1
  <1>3. ASSUME NEW t \in Threads, SendLock(t) PROVE [Queue!Next]_(Queue!vars)
    BY <1>3, ContentsSame DEF SendLock
  <1>4. ASSUME NEW t \in Threads, SendLockTimeout(t) PROVE [Queue!Next]_(Queue!vars)
    <2>1. Queue!GiveUp(t)
      BY <1>4, ContentsSame DEF SendLockTimeout, Queue!GiveUp, Queue!Finish
    <2>2. QED
      BY <2>1
  <1>5. ASSUME NEW t \in Threads, SendIsFull(t) PROVE [Queue!Next]_(Queue!vars)
    BY <1>5, ContentsSame DEF SendIsFull
  <1>6. ASSUME NEW t \in Threads, SendWait(t) PROVE [Queue!Next]_(Queue!vars)
    BY <1>6, ContentsSame DEF SendWait
  <1>7. ASSUME NEW t \in Threads, SendWaitTimeout(t) PROVE [Queue!Next]_(Queue!vars)
    <2>1. Queue!GiveUp(t)
      BY <1>7, ContentsSame DEF SendWaitTimeout, Queue!GiveUp, Queue!Finish
    <2>2. QED
      BY <2>1
  <1>8. ASSUME NEW t \in Threads, SendPush(t) PROVE [Queue!Next]_(Queue!vars)
    <2>1. Len(Contents) < MaxSize
      BY <1>8, ContentsType, MQAssumption DEF SendPush, RingSafe, Full
    <2>2. Contents' = Append(Contents, arg[t])
      BY <1>8, ContentsPush DEF SendPush, RingSafe
    <2>3. Queue!Enqueue(t)
      BY <1>8, <2>1, <2>2 DEF SendPush, Queue!Enqueue, Queue!Finish
    <2>4. QED
      BY <2>3
  <1>9. ASSUME NEW t \in Threads, SendPushThrows(t) PROVE [Queue!Next]_(Queue!vars)
    <2>1. Len(Contents) < MaxSize
      BY <1>9, ContentsType, MQAssumption DEF SendPushThrows, RingSafe, Full
    <2>2. PICK e \in Exceptions : Result(t, e)
      BY <1>9 DEF SendPushThrows
    <2>3. Queue!Finish(t, e)
      BY <1>9, <2>2 DEF SendPushThrows, Queue!Finish
    <2>4. Queue!Fail(t)
      BY <1>9, <2>1, <2>3, ContentsSame DEF SendPushThrows, Queue!Fail
    <2>5. QED
      BY <2>4
  <1>10. ASSUME NEW t \in Threads, SendSet(t) PROVE [Queue!Next]_(Queue!vars)
    BY <1>10, ContentsSame DEF SendSet
  <1>11. ASSUME NEW t \in Threads, SendReturn(t) PROVE [Queue!Next]_(Queue!vars)
    BY <1>11, ContentsSame DEF SendReturn
  <1>12. ASSUME NEW t \in Threads, RecvLock(t) PROVE [Queue!Next]_(Queue!vars)
    BY <1>12, ContentsSame DEF RecvLock
  <1>13. ASSUME NEW t \in Threads, RecvLockTimeout(t) PROVE [Queue!Next]_(Queue!vars)
    <2>1. Queue!GiveUp(t)
      BY <1>13, ContentsSame DEF RecvLockTimeout, Queue!GiveUp, Queue!Finish
    <2>2. QED
      BY <2>1
  <1>14. ASSUME NEW t \in Threads, RecvIsEmpty(t) PROVE [Queue!Next]_(Queue!vars)
    BY <1>14, ContentsSame DEF RecvIsEmpty
  <1>15. ASSUME NEW t \in Threads, RecvWait(t) PROVE [Queue!Next]_(Queue!vars)
    BY <1>15, ContentsSame DEF RecvWait
  <1>16. ASSUME NEW t \in Threads, RecvWaitTimeout(t) PROVE [Queue!Next]_(Queue!vars)
    <2>1. Queue!GiveUp(t)
      BY <1>16, ContentsSame DEF RecvWaitTimeout, Queue!GiveUp, Queue!Finish
    <2>2. QED
      BY <2>1
  <1>17. ASSUME NEW t \in Threads, RecvPop(t) PROVE [Queue!Next]_(Queue!vars)
    <2>1. Contents # <<>> /\ Head(Contents) = buf[begin] /\ Contents' = Tail(Contents)
      BY <1>17, ContentsPop DEF RecvPop, RingSafe
    <2>2. Queue!Dequeue(t)
      BY <1>17, <2>1 DEF RecvPop, Queue!Dequeue, Queue!Finish
    <2>3. QED
      BY <2>2
  <1>18. ASSUME NEW t \in Threads, RecvPopThrows(t) PROVE [Queue!Next]_(Queue!vars)
    <2>1. Contents # <<>>
      BY <1>18, ContentsType, MQAssumption DEF RecvPopThrows, RingSafe, Empty, Size, BufSize
    <2>2. PICK e \in Exceptions : Result(t, e)
      BY <1>18 DEF RecvPopThrows
    <2>3. Queue!Finish(t, e)
      BY <1>18, <2>2 DEF RecvPopThrows, Queue!Finish
    <2>4. Queue!Fail(t)
      BY <1>18, <2>1, <2>3, ContentsSame DEF RecvPopThrows, Queue!Fail
    <2>5. QED
      BY <2>4
  <1>19. ASSUME NEW t \in Threads, RecvSet(t) PROVE [Queue!Next]_(Queue!vars)
    BY <1>19, ContentsSame DEF RecvSet
  <1>20. ASSUME NEW t \in Threads, RecvReturn(t) PROVE [Queue!Next]_(Queue!vars)
    BY <1>20, ContentsSame DEF RecvReturn
  <1>21. CASE UNCHANGED vars
    BY <1>21, ContentsSame DEF vars
  <1>22. QED
    BY <1>1, <1>2, <1>3, <1>4, <1>5, <1>6, <1>7, <1>8, <1>9, <1>10,
       <1>11, <1>12, <1>13, <1>14, <1>15, <1>16, <1>17, <1>18,
       <1>19, <1>20, <1>21
       DEF Next, SendStep, RecvStep

\* Every behaviour of the message queue is one of the bounded FIFO queue:
\* messages come out once each, in the order in which they went in.
THEOREM Refinement == Spec => IsBoundedQueue
  <1>1. IInv => TypeOK
    BY DEF IInv
  <1>2. QED
    BY Invariance, <1>1, InitRefines, StepRefines, PTL DEF Spec, IsBoundedQueue, Queue!Spec

=============================================================================
