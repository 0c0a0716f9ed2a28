-------------------------- MODULE SharedStateProofs --------------------------
(***************************************************************************)
(* Proofs about SharedState for any sets of tasks and values.  Each part   *)
(* of IInv has a lemma with one step per action.                           *)
(***************************************************************************)
EXTENDS SharedStateRefinement, TLAPS

(* Every step preserves the type invariant, which is inductive by itself. *)
LEMMA TypeStep ==
  ASSUME TypeOK, [Next]_vars PROVE TypeOK'
<1> USE ConstantsAssumption DEF TypeOK, sharedVars, senderVars, receiverVars
<1>1. ASSUME NEW v \in Values, CallSend(v) PROVE TypeOK'
  BY <1>1 DEF CallSend
<1>2. CASE CallDrop
  BY <1>2 DEF CallDrop
<1>3. CASE SenderLock
  BY <1>3 DEF SenderLock, SenderThread
<1>4. CASE SenderPanic
  BY <1>4 DEF SenderPanic
<1>5. CASE StoreValue
  BY <1>5 DEF StoreValue
<1>6. CASE StoreClosed
  BY <1>6 DEF StoreClosed
<1>7. CASE TakeWaker
  BY <1>7 DEF TakeWaker
<1>8. CASE NoOneToWake
  BY <1>8 DEF NoOneToWake, SenderReturns
<1>9. CASE Wake
  BY <1>9 DEF Wake, SenderReturns
<1>10. CASE WakeInline
  BY <1>10 DEF WakeInline
<1>11. CASE InlineReturns
  BY <1>11 DEF InlineReturns, SenderReturns
<1>12. CASE PollBegin
  BY <1>12 DEF PollBegin, CanPoll
<1>13. CASE PollLock
  BY <1>13 DEF PollLock
<1>14. CASE PollReady
  BY <1>14 DEF PollReady, PollReturns
<1>15. CASE PollNoValue
  BY <1>15 DEF PollNoValue
<1>16. CASE PollClosed
  BY <1>16 DEF PollClosed, PollReturns
<1>17. CASE PollOpen
  BY <1>17 DEF PollOpen
<1>18. CASE PollRegister
  BY <1>18 DEF PollRegister, PollReturns
<1>19. CASE PollPanic
  BY <1>19 DEF PollPanic, PollReturns
<1>20. CASE PollDropsSender
  BY <1>20 DEF PollDropsSender
<1>21. ASSUME NEW t \in Tasks, Migrate(t) PROVE TypeOK'
  BY <1>21 DEF Migrate, CanPoll
<1>22. ASSUME NEW t \in Tasks, OtherTaskRuns(t) PROVE TypeOK'
  BY <1>22 DEF OtherTaskRuns
<1>23. CASE Cancel
  BY <1>23 DEF Cancel, CanPoll
<1>24. CASE OtherWake
  BY <1>24 DEF OtherWake
<1>25. CASE UNCHANGED vars
  BY <1>25 DEF vars
<1>26. QED
  BY <1>1, <1>2, <1>3, <1>4, <1>5, <1>6, <1>7, <1>8, <1>9, <1>10, <1>11, <1>12, <1>13, <1>14, <1>15, <1>16, <1>17, <1>18, <1>19, <1>20, <1>21, <1>22, <1>23, <1>24, <1>25
    DEF Next, SenderStep, PollStep

(* Taking the lock needs it free, and only its holder releases it.          *)
LEMMA LockStep ==
  ASSUME TypeOK, LockInv, ControlInv, [Next]_vars PROVE LockInv'
<1> USE ConstantsAssumption DEF TypeOK, ControlInv, LockInv, SenderLocked, PollLocked, sharedVars, senderVars, receiverVars
<1>1. ASSUME NEW v \in Values, CallSend(v) PROVE LockInv'
  BY <1>1 DEF CallSend
<1>2. CASE CallDrop
  BY <1>2 DEF CallDrop
<1>3. CASE SenderLock
  BY <1>3 DEF SenderLock, SenderThread
<1>4. CASE SenderPanic
  BY <1>4 DEF SenderPanic
<1>5. CASE StoreValue
  BY <1>5 DEF StoreValue
<1>6. CASE StoreClosed
  BY <1>6 DEF StoreClosed
<1>7. CASE TakeWaker
  BY <1>7 DEF TakeWaker
<1>8. CASE NoOneToWake
  BY <1>8 DEF NoOneToWake, SenderReturns
<1>9. CASE Wake
  BY <1>9 DEF Wake, SenderReturns
<1>10. CASE WakeInline
  BY <1>10 DEF WakeInline
<1>11. CASE InlineReturns
  BY <1>11 DEF InlineReturns, SenderReturns
<1>12. CASE PollBegin
  BY <1>12 DEF PollBegin, CanPoll
<1>13. CASE PollLock
  BY <1>13 DEF PollLock
<1>14. CASE PollReady
  BY <1>14 DEF PollReady, PollReturns
<1>15. CASE PollNoValue
  BY <1>15 DEF PollNoValue
<1>16. CASE PollClosed
  BY <1>16 DEF PollClosed, PollReturns
<1>17. CASE PollOpen
  BY <1>17 DEF PollOpen
<1>18. CASE PollRegister
  BY <1>18 DEF PollRegister, PollReturns
<1>19. CASE PollPanic
  BY <1>19 DEF PollPanic, PollReturns
<1>20. CASE PollDropsSender
  BY <1>20 DEF PollDropsSender
<1>21. ASSUME NEW t \in Tasks, Migrate(t) PROVE LockInv'
  BY <1>21 DEF Migrate, CanPoll
<1>22. ASSUME NEW t \in Tasks, OtherTaskRuns(t) PROVE LockInv'
  BY <1>22 DEF OtherTaskRuns
<1>23. CASE Cancel
  BY <1>23 DEF Cancel, CanPoll
<1>24. CASE OtherWake
  BY <1>24 DEF OtherWake
<1>25. CASE UNCHANGED vars
  BY <1>25 DEF vars
<1>26. QED
  BY <1>1, <1>2, <1>3, <1>4, <1>5, <1>6, <1>7, <1>8, <1>9, <1>10, <1>11, <1>12, <1>13, <1>14, <1>15, <1>16, <1>17, <1>18, <1>19, <1>20, <1>21, <1>22, <1>23, <1>24, <1>25
    DEF Next, SenderStep, PollStep

(* The operations of the Sender and an inline poll stay nested.            *)
LEMMA ControlStep ==
  ASSUME TypeOK, LockInv, ControlInv, [Next]_vars PROVE ControlInv'
<1> USE ConstantsAssumption DEF TypeOK, ControlInv, LockInv, SenderLocked, PollLocked, sharedVars, senderVars, receiverVars
<1>1. ASSUME NEW v \in Values, CallSend(v) PROVE ControlInv'
  BY <1>1 DEF CallSend
<1>2. CASE CallDrop
  BY <1>2 DEF CallDrop
<1>3. CASE SenderLock
  BY <1>3 DEF SenderLock, SenderThread
<1>4. CASE SenderPanic
  BY <1>4 DEF SenderPanic
<1>5. CASE StoreValue
  BY <1>5 DEF StoreValue
<1>6. CASE StoreClosed
  BY <1>6 DEF StoreClosed
<1>7. CASE TakeWaker
  BY <1>7 DEF TakeWaker
<1>8. CASE NoOneToWake
  BY <1>8 DEF NoOneToWake, SenderReturns
<1>9. CASE Wake
  BY <1>9 DEF Wake, SenderReturns
<1>10. CASE WakeInline
  BY <1>10 DEF WakeInline
<1>11. CASE InlineReturns
  BY <1>11 DEF InlineReturns, SenderReturns
<1>12. CASE PollBegin
  BY <1>12 DEF PollBegin, CanPoll
<1>13. CASE PollLock
  BY <1>13 DEF PollLock
<1>14. CASE PollReady
  BY <1>14 DEF PollReady, PollReturns
<1>15. CASE PollNoValue
  BY <1>15 DEF PollNoValue
<1>16. CASE PollClosed
  BY <1>16 DEF PollClosed, PollReturns
<1>17. CASE PollOpen
  BY <1>17 DEF PollOpen
<1>18. CASE PollRegister
  BY <1>18 DEF PollRegister, PollReturns
<1>19. CASE PollPanic
  BY <1>19 DEF PollPanic, PollReturns
<1>20. CASE PollDropsSender
  BY <1>20 DEF PollDropsSender
<1>21. ASSUME NEW t \in Tasks, Migrate(t) PROVE ControlInv'
  BY <1>21 DEF Migrate, CanPoll
<1>22. ASSUME NEW t \in Tasks, OtherTaskRuns(t) PROVE ControlInv'
  BY <1>22 DEF OtherTaskRuns
<1>23. CASE Cancel
  BY <1>23 DEF Cancel, CanPoll
<1>24. CASE OtherWake
  BY <1>24 DEF OtherWake
<1>25. CASE UNCHANGED vars
  BY <1>25 DEF vars
<1>26. QED
  BY <1>1, <1>2, <1>3, <1>4, <1>5, <1>6, <1>7, <1>8, <1>9, <1>10, <1>11, <1>12, <1>13, <1>14, <1>15, <1>16, <1>17, <1>18, <1>19, <1>20, <1>21, <1>22, <1>23, <1>24, <1>25
    DEF Next, SenderStep, PollStep

(* A stored value stays in the slot until poll delivers it, and a close     *)
(* comes after it.                                                         *)
LEMMA DataStep ==
  ASSUME TypeOK, LockInv, ControlInv, DataInv, ReadInv, [Next]_vars PROVE DataInv'
<1> USE ConstantsAssumption DEF TypeOK, ControlInv, DataInv, ReadInv, Stored, LockInv, SenderLocked, PollLocked, sharedVars, senderVars, receiverVars
<1>1. ASSUME NEW v \in Values, CallSend(v) PROVE DataInv'
  BY <1>1 DEF CallSend
<1>2. CASE CallDrop
  BY <1>2 DEF CallDrop
<1>3. CASE SenderLock
  BY <1>3 DEF SenderLock, SenderThread
<1>4. CASE SenderPanic
  BY <1>4 DEF SenderPanic
<1>5. CASE StoreValue
  BY <1>5 DEF StoreValue
<1>6. CASE StoreClosed
  BY <1>6 DEF StoreClosed
<1>7. CASE TakeWaker
  BY <1>7 DEF TakeWaker
<1>8. CASE NoOneToWake
  BY <1>8 DEF NoOneToWake, SenderReturns
<1>9. CASE Wake
  BY <1>9 DEF Wake, SenderReturns
<1>10. CASE WakeInline
  BY <1>10 DEF WakeInline
<1>11. CASE InlineReturns
  BY <1>11 DEF InlineReturns, SenderReturns
<1>12. CASE PollBegin
  BY <1>12 DEF PollBegin, CanPoll
<1>13. CASE PollLock
  BY <1>13 DEF PollLock
<1>14. CASE PollReady
  BY <1>14 DEF PollReady, PollReturns
<1>15. CASE PollNoValue
  BY <1>15 DEF PollNoValue
<1>16. CASE PollClosed
  BY <1>16 DEF PollClosed, PollReturns
<1>17. CASE PollOpen
  BY <1>17 DEF PollOpen
<1>18. CASE PollRegister
  BY <1>18 DEF PollRegister, PollReturns
<1>19. CASE PollPanic
  BY <1>19 DEF PollPanic, PollReturns
<1>20. CASE PollDropsSender
  BY <1>20 DEF PollDropsSender
<1>21. ASSUME NEW t \in Tasks, Migrate(t) PROVE DataInv'
  BY <1>21 DEF Migrate, CanPoll
<1>22. ASSUME NEW t \in Tasks, OtherTaskRuns(t) PROVE DataInv'
  BY <1>22 DEF OtherTaskRuns
<1>23. CASE Cancel
  BY <1>23 DEF Cancel, CanPoll
<1>24. CASE OtherWake
  BY <1>24 DEF OtherWake
<1>25. CASE UNCHANGED vars
  BY <1>25 DEF vars
<1>26. QED
  BY <1>1, <1>2, <1>3, <1>4, <1>5, <1>6, <1>7, <1>8, <1>9, <1>10, <1>11, <1>12, <1>13, <1>14, <1>15, <1>16, <1>17, <1>18, <1>19, <1>20, <1>21, <1>22, <1>23, <1>24, <1>25
    DEF Next, SenderStep, PollStep

(* What poll found absent stays so: the Sender cannot write without the    *)
(* lock.  This is rule 2.                                                  *)
LEMMA ReadStep ==
  ASSUME TypeOK, LockInv, ControlInv, ReadInv, [Next]_vars PROVE ReadInv'
<1> USE ConstantsAssumption DEF TypeOK, ControlInv, ReadInv, LockInv, SenderLocked, PollLocked, sharedVars, senderVars, receiverVars
<1>1. ASSUME NEW v \in Values, CallSend(v) PROVE ReadInv'
  BY <1>1 DEF CallSend
<1>2. CASE CallDrop
  BY <1>2 DEF CallDrop
<1>3. CASE SenderLock
  BY <1>3 DEF SenderLock, SenderThread
<1>4. CASE SenderPanic
  BY <1>4 DEF SenderPanic
<1>5. CASE StoreValue
  BY <1>5 DEF StoreValue
<1>6. CASE StoreClosed
  BY <1>6 DEF StoreClosed
<1>7. CASE TakeWaker
  BY <1>7 DEF TakeWaker
<1>8. CASE NoOneToWake
  BY <1>8 DEF NoOneToWake, SenderReturns
<1>9. CASE Wake
  BY <1>9 DEF Wake, SenderReturns
<1>10. CASE WakeInline
  BY <1>10 DEF WakeInline
<1>11. CASE InlineReturns
  BY <1>11 DEF InlineReturns, SenderReturns
<1>12. CASE PollBegin
  BY <1>12 DEF PollBegin, CanPoll
<1>13. CASE PollLock
  BY <1>13 DEF PollLock
<1>14. CASE PollReady
  BY <1>14 DEF PollReady, PollReturns
<1>15. CASE PollNoValue
  BY <1>15 DEF PollNoValue
<1>16. CASE PollClosed
  BY <1>16 DEF PollClosed, PollReturns
<1>17. CASE PollOpen
  BY <1>17 DEF PollOpen
<1>18. CASE PollRegister
  BY <1>18 DEF PollRegister, PollReturns
<1>19. CASE PollPanic
  BY <1>19 DEF PollPanic, PollReturns
<1>20. CASE PollDropsSender
  BY <1>20 DEF PollDropsSender
<1>21. ASSUME NEW t \in Tasks, Migrate(t) PROVE ReadInv'
  BY <1>21 DEF Migrate, CanPoll
<1>22. ASSUME NEW t \in Tasks, OtherTaskRuns(t) PROVE ReadInv'
  BY <1>22 DEF OtherTaskRuns
<1>23. CASE Cancel
  BY <1>23 DEF Cancel, CanPoll
<1>24. CASE OtherWake
  BY <1>24 DEF OtherWake
<1>25. CASE UNCHANGED vars
  BY <1>25 DEF vars
<1>26. QED
  BY <1>1, <1>2, <1>3, <1>4, <1>5, <1>6, <1>7, <1>8, <1>9, <1>10, <1>11, <1>12, <1>13, <1>14, <1>15, <1>16, <1>17, <1>18, <1>19, <1>20, <1>21, <1>22, <1>23, <1>24, <1>25
    DEF Next, SenderStep, PollStep

(* A waker moves from the slot to the Sender's hands and is woken once; no *)
(* poll registers after that, because it finds the value or the close.     *)
LEMMA WakeStep ==
  ASSUME IInv, [Next]_vars PROVE WakeInv'
<1> USE ConstantsAssumption DEF IInv, TypeOK, ControlInv, DataInv, ReadInv, WakeInv, Stored, LockInv, SenderLocked, PollLocked, sharedVars, senderVars, receiverVars
<1>1. ASSUME NEW v \in Values, CallSend(v) PROVE WakeInv'
  BY <1>1 DEF CallSend
<1>2. CASE CallDrop
  BY <1>2 DEF CallDrop
<1>3. CASE SenderLock
  BY <1>3 DEF SenderLock, SenderThread
<1>4. CASE SenderPanic
  BY <1>4 DEF SenderPanic
<1>5. CASE StoreValue
  BY <1>5 DEF StoreValue
<1>6. CASE StoreClosed
  BY <1>6 DEF StoreClosed
<1>7. CASE TakeWaker
  BY <1>7 DEF TakeWaker
<1>8. CASE NoOneToWake
  BY <1>8 DEF NoOneToWake, SenderReturns
<1>9. CASE Wake
  BY <1>9 DEF Wake, SenderReturns
<1>10. CASE WakeInline
  BY <1>10 DEF WakeInline
<1>11. CASE InlineReturns
  BY <1>11 DEF InlineReturns, SenderReturns
<1>12. CASE PollBegin
  BY <1>12 DEF PollBegin, CanPoll
<1>13. CASE PollLock
  BY <1>13 DEF PollLock
<1>14. CASE PollReady
  BY <1>14 DEF PollReady, PollReturns
<1>15. CASE PollNoValue
  BY <1>15 DEF PollNoValue
<1>16. CASE PollClosed
  BY <1>16 DEF PollClosed, PollReturns
<1>17. CASE PollOpen
  BY <1>17 DEF PollOpen
<1>18. CASE PollRegister
  BY <1>18 DEF PollRegister, PollReturns
<1>19. CASE PollPanic
  BY <1>19 DEF PollPanic, PollReturns
<1>20. CASE PollDropsSender
  BY <1>20 DEF PollDropsSender
<1>21. ASSUME NEW t \in Tasks, Migrate(t) PROVE WakeInv'
  BY <1>21 DEF Migrate, CanPoll
<1>22. ASSUME NEW t \in Tasks, OtherTaskRuns(t) PROVE WakeInv'
  BY <1>22 DEF OtherTaskRuns
<1>23. CASE Cancel
  BY <1>23 DEF Cancel, CanPoll
<1>24. CASE OtherWake
  BY <1>24 DEF OtherWake
<1>25. CASE UNCHANGED vars
  BY <1>25 DEF vars
<1>26. QED
  BY <1>1, <1>2, <1>3, <1>4, <1>5, <1>6, <1>7, <1>8, <1>9, <1>10, <1>11, <1>12, <1>13, <1>14, <1>15, <1>16, <1>17, <1>18, <1>19, <1>20, <1>21, <1>22, <1>23, <1>24, <1>25
    DEF Next, SenderStep, PollStep

(* Only one critical section completes the channel, and it comes before    *)
(* every outcome and every wake.                                           *)
LEMMA TakeStep ==
  ASSUME IInv, [Next]_vars PROVE TakeInv'
<1> USE ConstantsAssumption DEF IInv, TypeOK, ControlInv, DataInv, ReadInv, WakeInv, TakeInv, FirstTake, Stored, LockInv, SenderLocked, PollLocked, sharedVars, senderVars, receiverVars
<1>1. ASSUME NEW v \in Values, CallSend(v) PROVE TakeInv'
  BY <1>1 DEF CallSend
<1>2. CASE CallDrop
  BY <1>2 DEF CallDrop
<1>3. CASE SenderLock
  BY <1>3 DEF SenderLock, SenderThread
<1>4. CASE SenderPanic
  BY <1>4 DEF SenderPanic
<1>5. CASE StoreValue
  BY <1>5 DEF StoreValue
<1>6. CASE StoreClosed
  BY <1>6 DEF StoreClosed
<1>7. CASE TakeWaker
  BY <1>7 DEF TakeWaker
<1>8. CASE NoOneToWake
  BY <1>8 DEF NoOneToWake, SenderReturns
<1>9. CASE Wake
  BY <1>9 DEF Wake, SenderReturns
<1>10. CASE WakeInline
  BY <1>10 DEF WakeInline
<1>11. CASE InlineReturns
  BY <1>11 DEF InlineReturns, SenderReturns
<1>12. CASE PollBegin
  BY <1>12 DEF PollBegin, CanPoll
<1>13. CASE PollLock
  BY <1>13 DEF PollLock
<1>14. CASE PollReady
  BY <1>14 DEF PollReady, PollReturns
<1>15. CASE PollNoValue
  BY <1>15 DEF PollNoValue
<1>16. CASE PollClosed
  BY <1>16 DEF PollClosed, PollReturns
<1>17. CASE PollOpen
  BY <1>17 DEF PollOpen
<1>18. CASE PollRegister
  BY <1>18 DEF PollRegister, PollReturns
<1>19. CASE PollPanic
  BY <1>19 DEF PollPanic, PollReturns
<1>20. CASE PollDropsSender
  BY <1>20 DEF PollDropsSender
<1>21. ASSUME NEW t \in Tasks, Migrate(t) PROVE TakeInv'
  BY <1>21 DEF Migrate, CanPoll
<1>22. ASSUME NEW t \in Tasks, OtherTaskRuns(t) PROVE TakeInv'
  BY <1>22 DEF OtherTaskRuns
<1>23. CASE Cancel
  BY <1>23 DEF Cancel, CanPoll
<1>24. CASE OtherWake
  BY <1>24 DEF OtherWake
<1>25. CASE UNCHANGED vars
  BY <1>25 DEF vars
<1>26. QED
  BY <1>1, <1>2, <1>3, <1>4, <1>5, <1>6, <1>7, <1>8, <1>9, <1>10, <1>11, <1>12, <1>13, <1>14, <1>15, <1>16, <1>17, <1>18, <1>19, <1>20, <1>21, <1>22, <1>23, <1>24, <1>25
    DEF Next, SenderStep, PollStep

(* Rules 1 to 3: poll parks with its own waker in the slot, from where     *)
(* only the Sender takes it, in order to wake it.                          *)
LEMMA NoLostWakeupStep ==
  ASSUME IInv, [Next]_vars PROVE NoLostWakeup'
<1> USE ConstantsAssumption DEF IInv, TypeOK, ControlInv, DataInv, ReadInv, WakeInv, Stored, NoLostWakeup, Parked, CanPoll, LockInv, SenderLocked, PollLocked, sharedVars, senderVars, receiverVars
<1>1. ASSUME NEW v \in Values, CallSend(v) PROVE NoLostWakeup'
  BY <1>1 DEF CallSend
<1>2. CASE CallDrop
  BY <1>2 DEF CallDrop
<1>3. CASE SenderLock
  BY <1>3 DEF SenderLock, SenderThread
<1>4. CASE SenderPanic
  BY <1>4 DEF SenderPanic
<1>5. CASE StoreValue
  BY <1>5 DEF StoreValue
<1>6. CASE StoreClosed
  BY <1>6 DEF StoreClosed
<1>7. CASE TakeWaker
  BY <1>7 DEF TakeWaker
<1>8. CASE NoOneToWake
  BY <1>8 DEF NoOneToWake, SenderReturns
<1>9. CASE Wake
  BY <1>9 DEF Wake, SenderReturns
<1>10. CASE WakeInline
  BY <1>10 DEF WakeInline
<1>11. CASE InlineReturns
  BY <1>11 DEF InlineReturns, SenderReturns
<1>12. CASE PollBegin
  BY <1>12 DEF PollBegin, CanPoll
<1>13. CASE PollLock
  BY <1>13 DEF PollLock
<1>14. CASE PollReady
  BY <1>14 DEF PollReady, PollReturns
<1>15. CASE PollNoValue
  BY <1>15 DEF PollNoValue
<1>16. CASE PollClosed
  BY <1>16 DEF PollClosed, PollReturns
<1>17. CASE PollOpen
  BY <1>17 DEF PollOpen
<1>18. CASE PollRegister
  BY <1>18 DEF PollRegister, PollReturns
<1>19. CASE PollPanic
  BY <1>19 DEF PollPanic, PollReturns
<1>20. CASE PollDropsSender
  BY <1>20 DEF PollDropsSender
<1>21. ASSUME NEW t \in Tasks, Migrate(t) PROVE NoLostWakeup'
  BY <1>21 DEF Migrate, CanPoll
<1>22. ASSUME NEW t \in Tasks, OtherTaskRuns(t) PROVE NoLostWakeup'
  BY <1>22 DEF OtherTaskRuns
<1>23. CASE Cancel
  BY <1>23 DEF Cancel, CanPoll
<1>24. CASE OtherWake
  BY <1>24 DEF OtherWake
<1>25. CASE UNCHANGED vars
  BY <1>25 DEF vars
<1>26. QED
  BY <1>1, <1>2, <1>3, <1>4, <1>5, <1>6, <1>7, <1>8, <1>9, <1>10, <1>11, <1>12, <1>13, <1>14, <1>15, <1>16, <1>17, <1>18, <1>19, <1>20, <1>21, <1>22, <1>23, <1>24, <1>25
    DEF Next, SenderStep, PollStep

-----------------------------------------------------------------------------
(* IInv is inductive: it holds of a fresh channel and every step keeps it. *)
LEMMA Inductive ==
  /\ Init => IInv
  /\ IInv /\ [Next]_vars => IInv'
<1>1. ASSUME Init PROVE IInv
  <2> USE <1>1, ConstantsAssumption DEF Init
  <2>1. TypeOK
    BY DEF TypeOK
  <2>2. LockInv /\ ControlInv
    BY DEF LockInv, ControlInv, SenderLocked, PollLocked
  <2>3. DataInv /\ ReadInv
    BY DEF DataInv, ReadInv, Stored
  <2>4. WakeInv /\ NoLostWakeup
    BY DEF WakeInv, NoLostWakeup, Parked, Stored
  <2>5. TakeInv
    BY DEF TakeInv, FirstTake
  <2>6. QED
    BY <2>1, <2>2, <2>3, <2>4, <2>5 DEF IInv
<1>2. ASSUME IInv, [Next]_vars PROVE IInv'
  BY <1>2, TypeStep, LockStep, ControlStep, DataStep, ReadStep, WakeStep,
     TakeStep, NoLostWakeupStep DEF IInv
<1>3. QED
  BY <1>1, <1>2

(* IInv holds in every reachable state, for any tasks and values, with or  *)
(* without inline executors, panicking wakers and a task-owned Sender.     *)
THEOREM Invariance == Spec => []IInv
<1>1. Init => IInv
  BY Inductive
<1>2. IInv /\ [Next]_vars => IInv'
  BY Inductive
<1>3. QED
  BY <1>1, <1>2, PTL DEF Spec

(* Type correctness of the channel.                                        *)
THEOREM TypeCorrect == Spec => []TypeOK
<1>1. IInv => TypeOK
  BY DEF IInv
<1>2. QED
  BY <1>1, Invariance, PTL

(* No lost wakeup: a parked owner's waker is where the Sender will find    *)
(* it, whichever thread moves next (rules 1 to 3).                         *)
THEOREM NeverLosesAWakeup == Spec => []NoLostWakeup
<1>1. IInv => NoLostWakeup
  BY DEF IInv
<1>2. QED
  BY <1>1, Invariance, PTL

(* What the Receiver reports is what was sent, and Closed only if nothing  *)
(* was: send's own drop never overtakes its value.                         *)
THEOREM ReportsWhatWasSent == Spec => []OutcomeIsWhatWasSent
<1>1. IInv => OutcomeIsWhatWasSent
  <2> SUFFICES ASSUME IInv PROVE OutcomeIsWhatWasSent
    OBVIOUS
  <2>1. outcome \in Values => outcome = msg /\ value = None
    BY ConstantsAssumption DEF IInv, DataInv, TypeOK, Stored
  <2>2. QED
    BY <2>1 DEF IInv, DataInv, OutcomeIsWhatWasSent
<1>2. QED
  BY <1>1, Invariance, PTL

(* A poisoned Mutex means a channel whose Receiver is gone and into which  *)
(* nothing was ever put: there is no torn state behind it.                 *)
THEOREM PoisonIsFinal == Spec => []PoisonEndsTheChannel
<1>1. IInv => PoisonEndsTheChannel
  BY DEF IInv, ControlInv, DataInv, PoisonEndsTheChannel
<1>2. QED
  BY <1>1, Invariance, PTL

(* Rule 4: with a Sender that no task owns, no thread ever waits for the   *)
(* lock it holds, even if wake() polls inline.                             *)
THEOREM NeverLocksTwice ==
  ASSUME SenderTask = None PROVE Spec => []NoSelfDeadlock
<1>1. IInv => NoSelfDeadlock
  BY DEF IInv, TypeOK, LockInv, ControlInv, SenderLocked, PollLocked,
         SenderThread, NoSelfDeadlock
<1>2. QED
  BY <1>1, Invariance, PTL

(* The Sender wakes one task, once, and it is the last to have registered. *)
THEOREM WakesOnce == Spec => WakesTheLastRegistrantOnce
<1> DEFINE Woken == /\ wakes = 0 /\ taken = registrant
                    /\ taken \in scheduled' \/ pollPc' = "lock"
<1>1. ASSUME IInv, [Next]_vars, wakes' # wakes PROVE Woken
  <2>1. Wake \/ WakeInline
    BY <1>1 DEF Next, SenderStep, PollStep, vars, CallSend, CallDrop, SenderLock,
       SenderPanic, StoreValue, StoreClosed, TakeWaker, NoOneToWake, InlineReturns,
       PollBegin, PollLock, PollReady, PollNoValue, PollClosed, PollOpen,
       PollRegister, PollPanic, PollDropsSender, Migrate, OtherTaskRuns, Cancel,
       OtherWake
  <2>2. QED
    BY <1>1, <2>1 DEF IInv, WakeInv, Wake, WakeInline
<1>2. IInv /\ [Next]_vars => [wakes' # wakes => Woken]_vars
  BY <1>1
<1>3. QED
  BY <1>2, Invariance, PTL DEF Spec, WakesTheLastRegistrantOnce

-----------------------------------------------------------------------------
(* Every step of the channel is a step of OneShot or leaves it unchanged:  *)
(* only storing, closing, delivering and dropping the Receiver show.       *)
LEMMA StepSimulates ==
  ASSUME IInv, [Next]_vars PROVE [Channel!Next]_Channel!vars
<1> USE ConstantsAssumption
    DEF handedOver, finalOutcome, sharedVars, senderVars, receiverVars
<1>1. CASE StoreValue
  <2>1. value = None /\ outcome \notin Values /\ ~closed /\ msg \in Values
    BY <1>1 DEF StoreValue, IInv, DataInv, Stored, TypeOK
  <2>2. Channel!Hand(msg)
    BY <1>1, <2>1 DEF StoreValue, Channel!Hand
  <2>3. QED
    BY <2>1, <2>2 DEF Channel!Next
<1>2. CASE StoreClosed
  <2>1. ~closed
    BY <1>2 DEF StoreClosed, IInv, DataInv
  <2>2. Channel!HangUp
    BY <1>2, <2>1 DEF StoreClosed, Channel!HangUp
  <2>3. QED
    BY <2>2 DEF Channel!Next
<1>3. CASE PollReady
  <2>1. owner # None /\ outcome = None /\ value \in Values
    BY <1>3 DEF PollReady, IInv, TypeOK, ControlInv
  <2>2. Channel!Deliver
    BY <1>3, <2>1 DEF PollReady, PollReturns, Channel!Deliver
  <2>3. QED
    BY <2>2 DEF Channel!Next
<1>4. CASE PollClosed
  <2>1. owner # None /\ outcome = None /\ value = None
    BY <1>4 DEF PollClosed, IInv, TypeOK, ControlInv, ReadInv
  <2>2. Channel!DeliverClosed
    BY <1>4, <2>1 DEF PollClosed, PollReturns, Channel!DeliverClosed
  <2>3. QED
    BY <2>2 DEF Channel!Next
<1>5. CASE PollPanic
  <2>1. owner # None /\ outcome = None
    BY <1>5 DEF PollPanic, IInv, TypeOK, ControlInv
  <2>2. Channel!Cancel
    BY <1>5, <2>1 DEF PollPanic, PollReturns, Channel!Cancel
  <2>3. QED
    BY <2>2 DEF Channel!Next
<1>6. CASE Cancel
  <2>1. Channel!Cancel
    BY <1>6 DEF Cancel, CanPoll, Channel!Cancel
  <2>2. QED
    BY <2>1 DEF Channel!Next
<1>7. ASSUME NEW t \in Tasks, Migrate(t) PROVE UNCHANGED Channel!vars
  BY <1>7 DEF Migrate, CanPoll, Channel!vars
<1>8. CASE \/ (\E v \in Values : CallSend(v)) \/ CallDrop \/ SenderLock
           \/ SenderPanic \/ TakeWaker \/ NoOneToWake \/ Wake \/ WakeInline
           \/ InlineReturns
  BY <1>8 DEF CallSend, CallDrop, SenderLock, SenderPanic, TakeWaker, NoOneToWake,
     Wake, WakeInline, InlineReturns, Channel!vars
<1>9. CASE \/ PollBegin \/ PollLock \/ PollNoValue \/ PollOpen \/ PollRegister
           \/ PollDropsSender \/ OtherWake \/ (\E t \in Tasks : OtherTaskRuns(t))
           \/ UNCHANGED vars
  BY <1>9 DEF PollBegin, PollLock, PollNoValue, PollOpen, PollRegister,
     PollDropsSender, OtherWake, OtherTaskRuns, vars, Channel!vars
<1>10. QED
  BY <1>1, <1>2, <1>3, <1>4, <1>5, <1>6, <1>7, <1>8, <1>9
    DEF Next, SenderStep, PollStep

(* The channel implements the safety part of OneShot: from whichever       *)
(* thread it is seen, it is a hand-over of at most one value.              *)
THEOREM ImplementsOneShotSafely ==
  Spec => Channel!Init /\ [][Channel!Next]_Channel!vars
<1>1. Init => Channel!Init
  BY ConstantsAssumption DEF Init, Channel!Init, handedOver, finalOutcome
<1>2. IInv /\ [Next]_vars => [Channel!Next]_Channel!vars
  BY StepSimulates
<1>3. QED
  BY <1>1, <1>2, Invariance, PTL DEF Spec

(* Every step of the channel is a step of LeafContract or leaves it        *)
(* unchanged: the poll shows when it registers or reports, the Sender when *)
(* it takes the waker out for the first time.                              *)
LEMMA StepKeepsLeafContract ==
  ASSUME IInv, [Next]_vars PROVE [Contract!Next]_Contract!vars
<1> USE ConstantsAssumption DEF completedWith, registeredWaker, wokenTask
<1> USE DEF sharedVars, senderVars, receiverVars
<1>1. CASE TakeWaker /\ FirstTake
  <2> DEFINE v == IF senderOp = "send" THEN msg ELSE Closed
  <2>1. senderPc = "take" /\ outcome = None /\ wakes = 0 /\ ~poisoned
    BY <1>1 DEF FirstTake, IInv, TakeInv, ControlInv, SenderLocked
  <2>2. \/ senderOp = "send" /\ value = msg /\ msg \in Values
        \/ senderOp = "drop" /\ value = None /\ closed
    BY <1>1, <2>1 DEF FirstTake, IInv, TakeInv, TypeOK, ControlInv, DataInv, Stored
  <2>3. Contract!Fire(v)
    BY <1>1, <2>1, <2>2 DEF TakeWaker, Contract!Fire
  <2>4. v \in Values \cup {Closed}
    BY <2>2
  <2>5. QED
    BY <2>3, <2>4 DEF Contract!Next
<1>2. CASE TakeWaker /\ ~FirstTake
  <2>1. /\ senderPc = "take" /\ senderOp = "drop" /\ msg # None /\ waker = None
        /\ taken = None /\ ~poisoned
    BY <1>2 DEF TakeWaker, FirstTake, IInv, TakeInv, ControlInv, WakeInv, TypeOK,
       SenderLocked
  <2>2. value = msg \/ outcome = msg
    BY <2>1 DEF IInv, DataInv, Stored
  <2>3. UNCHANGED Contract!vars
    BY <1>2, <2>1, <2>2 DEF TakeWaker, Contract!vars
  <2>4. QED
    BY <2>3
<1>3. CASE PollReady \/ PollClosed
  <2>1. outcome = None /\ senderPc # "take"
    BY <1>3 DEF PollReady, PollClosed, IInv, LockInv, ControlInv, SenderLocked,
       PollLocked
  <2>2. PollClosed => value = None /\ closed
    BY DEF PollClosed, IInv, ReadInv
  <2>3. Contract!PollReady
    BY <1>3, <2>1, <2>2 DEF PollReady, PollClosed, PollReturns, Contract!PollReady
  <2>4. QED
    BY <2>3 DEF Contract!Next
<1>4. CASE PollRegister
  <2>1. outcome = None /\ value = None /\ ~closed /\ owner \in Tasks /\ ~poisoned
    BY <1>4 DEF PollRegister, IInv, TypeOK, ControlInv, ReadInv
  <2>2. ~(senderPc = "wake" /\ taken # None) /\ wakes = 0
    BY <2>1 DEF IInv, TypeOK, ControlInv, DataInv, WakeInv, Stored
  <2>3. Contract!PollPending(owner)
    BY <1>4, <2>1, <2>2 DEF PollRegister, PollReturns, Contract!PollPending
  <2>4. QED
    BY <2>1, <2>3 DEF Contract!Next
<1>5. CASE PollPanic
  <2>1. ~poisoned /\ owner \in Tasks /\ (waker # None => waker = registrant)
    BY <1>5 DEF PollPanic, IInv, TypeOK, ControlInv, WakeInv
  <2>2. UNCHANGED Contract!vars
    BY <1>5, <2>1 DEF PollPanic, PollReturns, Contract!vars
  <2>3. QED
    BY <2>2
<1>6. CASE StoreValue
  <2>1. value = None /\ ~closed /\ senderOp = "send"
    BY <1>6 DEF StoreValue, IInv, DataInv, Stored
  <2>2. UNCHANGED Contract!vars
    BY <1>6, <2>1 DEF StoreValue, Contract!vars
  <2>3. QED
    BY <2>2
<1>7. CASE StoreClosed
  <2>1. ~closed /\ senderOp = "drop"
    BY <1>7 DEF StoreClosed, IInv, DataInv
  <2>2. UNCHANGED Contract!vars
    BY <1>7, <2>1 DEF StoreClosed, Contract!vars
  <2>3. QED
    BY <2>2
<1>8. CASE Wake \/ WakeInline
  <2>1. taken = registrant
    BY <1>8 DEF Wake, WakeInline, IInv, WakeInv
  <2>2. wakes' # 0
    BY <1>8 DEF Wake, WakeInline, IInv, TypeOK
  <2>3. UNCHANGED Contract!vars
    BY <1>8, <2>1, <2>2 DEF Wake, WakeInline, SenderReturns, Contract!vars
  <2>4. QED
    BY <2>3
<1>9. CASE \/ (\E v \in Values : CallSend(v)) \/ CallDrop \/ SenderLock
           \/ SenderPanic \/ NoOneToWake \/ InlineReturns
  BY <1>9 DEF CallSend, CallDrop, SenderLock, SenderPanic, NoOneToWake,
     InlineReturns, SenderReturns, Contract!vars, IInv, ControlInv, WakeInv
<1>10. CASE \/ PollBegin \/ PollLock \/ PollNoValue \/ PollOpen \/ Cancel
            \/ PollDropsSender \/ OtherWake \/ UNCHANGED vars
            \/ (\E t \in Tasks : OtherTaskRuns(t) \/ Migrate(t))
  BY <1>10 DEF PollBegin, PollLock, PollNoValue, PollOpen, Cancel, Migrate,
     PollDropsSender, OtherWake, OtherTaskRuns, vars, Contract!vars, IInv,
     ControlInv, WakeInv
<1>11. QED
  BY <1>1, <1>2, <1>3, <1>4, <1>5, <1>6, <1>7, <1>8, <1>9, <1>10
    DEF Next, SenderStep, PollStep

(* The Receiver implements the contract of a leaf: split at every point    *)
(* another thread can see, it still behaves as the one-step leaves that    *)
(* the combinators are modelled with.                                      *)
THEOREM ImplementsLeafContract == Spec => ImplementsLeaf
<1>1. Init => Contract!Init
  BY ConstantsAssumption
    DEF Init, Contract!Init, completedWith, registeredWaker, wokenTask
<1>2. IInv /\ [Next]_vars => [Contract!Next]_Contract!vars
  BY StepKeepsLeafContract
<1>3. QED
  BY <1>1, <1>2, Invariance, PTL DEF Spec, ImplementsLeaf, Contract!Spec

-----------------------------------------------------------------------------
(* The Sender's part: a waiting task is told, once, of what is stored.     *)
LEMMA SenderKeepsContract ==
  ASSUME IInv, (\E v \in Values : CallSend(v)) \/ CallDrop \/ SenderStep
  PROVE  [AnyFuture!Next]_AnyFuture!vars
<1> USE ConstantsAssumption
    DEF owedTask, outputIsThere, toWake, Told, PollLocked, sharedVars, senderVars, receiverVars
<1> USE DEF AnyFuture!Next, AnyFuture!Others, AnyFuture!Wake, AnyFuture!Ripen, AnyFuture!Wakes
<1>1. CASE (\E v \in Values : CallSend(v)) \/ CallDrop \/ SenderLock \/ SenderPanic
  <2>1. senderPc \in {"idle", "lock"} /\ senderPc' \in {"idle", "lock", "store"}
    BY <1>1 DEF CallSend, CallDrop, SenderLock, SenderPanic, IInv, ControlInv
  <2>2. AnyFuture!Others
    BY <1>1, <2>1 DEF CallSend, CallDrop, SenderLock, SenderPanic
  <2>3. QED
    BY <2>2
<1>2. CASE StoreValue \/ StoreClosed
  <2>1. senderPc = "store" /\ senderPc' = "take" /\ taken' = taken /\ waker' = waker
    BY <1>2 DEF StoreValue, StoreClosed
  <2>2. value # None \/ closed => value' # None \/ closed'
    BY <1>2 DEF StoreValue, StoreClosed, IInv, DataInv, Stored, TypeOK
  <2>3. UNCHANGED <<owner, pollPc, outcome, poisoned, owedTask>>
    BY <1>2, <2>1 DEF StoreValue, StoreClosed
  <2>4. outputIsThere /\ ~outputIsThere' => FALSE
    BY <2>1, <2>2, <2>3
  <2>5. outputIsThere' /\ ~outputIsThere => owedTask = None
    BY <2>1, <2>3
  <2>6. QED
    BY <2>3, <2>4, <2>5
<1>3. CASE TakeWaker \/ NoOneToWake
  <2>1. taken # None => senderPc # "take"
    BY DEF IInv, WakeInv
  <2>2. AnyFuture!Others
    BY <1>3, <2>1 DEF TakeWaker, NoOneToWake, SenderReturns
  <2>3. QED
    BY <2>2
<1>4. CASE Wake
  <2>1. waker = None /\ waker' = None /\ senderPc = "wake" /\ taken' = None
    BY <1>4 DEF Wake, SenderReturns, IInv, WakeInv
  <2>2. owedTask' = None /\ (owedTask # None => owedTask \in scheduled')
    BY <1>4, <2>1 DEF Wake, SenderReturns
  <2>3. outputIsThere => outputIsThere'
    BY <1>4, <2>1 DEF Wake
  <2>4. QED
    BY <1>4, <2>2, <2>3 DEF Wake
<1>5. CASE WakeInline
  <2>1. /\ waker = None /\ owner \in Tasks /\ ~poisoned
    BY <1>5 DEF WakeInline, IInv, TypeOK, WakeInv, ControlInv
  <2>2. AnyFuture!Begin(owner)
    BY <1>5, <2>1 DEF WakeInline, AnyFuture!Begin
  <2>3. QED
    BY <2>1, <2>2
<1>6. CASE InlineReturns
  <2>1. /\ senderPc = "inline" /\ senderPc' \in {"lock", "idle"} /\ taken' = None
        /\ UNCHANGED <<sharedVars, owner, pollPc, outcome>>
    BY <1>6 DEF InlineReturns, SenderReturns
  <2>2. UNCHANGED owedTask /\ (outputIsThere => outputIsThere')
    BY <2>1
  <2>3. outputIsThere' /\ ~outputIsThere => owedTask = None
    BY <2>1
  <2>4. QED
    BY <2>1, <2>2, <2>3
<1>7. QED
  BY <1>1, <1>2, <1>3, <1>4, <1>5, <1>6 DEF SenderStep

(* The Receiver's part: what a poll answers is what it found or left under *)
(* the lock, which no wake that is on its way can contradict.              *)
LEMMA ReceiverKeepsContract ==
  ASSUME IInv, PollBegin \/ PollStep
  PROVE  [AnyFuture!Next]_AnyFuture!vars
<1> USE ConstantsAssumption
    DEF owedTask, outputIsThere, toWake, Told, PollLocked, sharedVars, senderVars, receiverVars
<1>1. CASE PollBegin
  <2>1. owner \in Tasks /\ ~poisoned
    BY <1>1 DEF PollBegin, CanPoll, IInv, TypeOK, ControlInv
  <2>2. AnyFuture!Begin(owner)
    BY <1>1, <2>1 DEF PollBegin, CanPoll, AnyFuture!Begin
  <2>3. QED
    BY <2>1, <2>2 DEF AnyFuture!Next
<1>2. ASSUME PollStep PROVE pollPc # "idle" /\ owner \in Tasks /\ ~poisoned /\ outcome = None
  BY <1>2 DEF PollStep, PollLock, PollReady, PollNoValue, PollClosed, PollOpen, PollRegister,
     PollPanic, PollDropsSender, IInv, TypeOK, ControlInv
<1>3. CASE PollLock
  BY <1>3, <1>2 DEF PollStep, PollLock, AnyFuture!Next, AnyFuture!Others, AnyFuture!Ripen,
     AnyFuture!Wakes
<1>4. CASE PollNoValue \/ PollOpen \/ PollDropsSender
  BY <1>4, <1>2 DEF PollStep, PollNoValue, PollOpen, PollDropsSender, AnyFuture!Next, AnyFuture!Others
<1>5. CASE PollReady \/ PollClosed
  <2>1. pollPc \in {"value", "closed"} /\ (value # None \/ closed) /\ outcome' # None
    BY <1>5 DEF PollReady, PollClosed
  <2>2. AnyFuture!Completes(owner)
    BY <1>5, <1>2, <2>1 DEF PollStep, PollReady, PollClosed, PollReturns, AnyFuture!Completes
  <2>3. QED
    BY <1>5, <1>2, <2>2 DEF PollStep, AnyFuture!Next
<1>6. CASE PollRegister
  <2>1. value = None /\ ~closed
    BY <1>6 DEF PollRegister, IInv, ReadInv
  <2>2. AnyFuture!Pends(owner)
    BY <1>6, <1>2, <2>1 DEF PollStep, PollRegister, PollReturns, AnyFuture!Pends
  <2>3. QED
    BY <1>6, <1>2, <2>2 DEF PollStep, AnyFuture!Next
<1>7. CASE PollPanic
  <2>1. value = None /\ ~closed
    BY <1>7 DEF PollPanic, IInv, ReadInv
  <2>2. AnyFuture!Panics(owner)
    BY <1>7, <1>2, <2>1 DEF PollStep, PollPanic, PollReturns, AnyFuture!Panics
  <2>3. QED
    BY <1>7, <1>2, <2>2 DEF PollStep, AnyFuture!Next
<1>8. QED
  BY <1>1, <1>3, <1>4, <1>5, <1>6, <1>7 DEF PollStep

(* The Receiver keeps the contract of a future, with polls that take time, *)
(* wakes that come after the unlock and wakers that panic: it may be       *)
(* awaited wherever a future may, in the combinators among other places.   *)
THEOREM KeepsItsContract == Spec => KeepsContract
<1>1. Init => AnyFuture!Init
  BY ConstantsAssumption DEF Init, AnyFuture!Init, owedTask, toWake, outputIsThere
<1>2. ASSUME IInv, [Next]_vars PROVE [AnyFuture!Next]_AnyFuture!vars
  <2>1. CASE \/ Cancel \/ OtherWake \/ UNCHANGED vars
             \/ (\E t \in Tasks : OtherTaskRuns(t) \/ Migrate(t))
    <3>1. UNCHANGED <<sharedVars, senderPc, taken, pollPc, outcome>>
          /\ (pollPc # "idle" => UNCHANGED owner)
      BY <2>1 DEF Cancel, CanPoll, OtherWake, OtherTaskRuns, Migrate, vars, sharedVars,
         senderVars, receiverVars
    <3>2. AnyFuture!Others
      BY <3>1 DEF AnyFuture!Others, owedTask, toWake, outputIsThere, Told, PollLocked, sharedVars
    <3>3. QED
      BY <3>2 DEF AnyFuture!Next
  <2>2. QED
    BY <1>2, <2>1, SenderKeepsContract, ReceiverKeepsContract DEF Next
<1>3. QED
  BY <1>1, <1>2, Invariance, PTL DEF Spec, KeepsContract, AnyFuture!Spec
=============================================================================
