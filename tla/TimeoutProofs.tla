---------------------------- MODULE TimeoutProofs ----------------------------
(***************************************************************************)
(* Proofs about Timeout for any tasks, outputs, clock and budget.          *)
(***************************************************************************)
EXTENDS MCTimeout, BranchesProofs

\* Which leaf completes with what, and the timer not before its time.
FiredInv ==
  /\ fired["a"] # Elapsed
  /\ fired["b"] \in {None, Elapsed} /\ (fired["b"] = Elapsed => now >= deadline)

\* A poll asks the Sleep only when the value was pending; until a leaf has
\* answered Ready both are running, and afterwards neither is polled.
RunningInv ==
  /\ result = None => \A l \in Leaf : status[l] = "running"
  /\ pc = "b" => "a" \notin seen

IInv ==
  /\ TypeOK /\ WakeInv /\ PollInv /\ SeenInv
  /\ FiredInv /\ RunningInv /\ NeverRepolled /\ NoSpuriousTimeout

\* A result is told from none, and an Ok from an Err.
LEMMA Results ==
  /\ \A v \in Outputs : [ok |-> v] # None /\ [ok |-> v] # [err |-> Elapsed]
  /\ [err |-> Elapsed] # None /\ [err |-> Elapsed] \in [err : {Elapsed}]
BY TimeoutAssumption

(* Both outcomes of the value's poll.                                      *)
LEMMA PollValueKeeps ==
  ASSUME IInv, PollValueReady \/ PollValuePending PROVE IInv'
<1> USE DEF IInv, TypeOK
<1>1. /\ pc = "a" /\ result = None /\ UNCHANGED <<fired, seen, clockVars, drains>>
      /\ LeafReady("a") \/ LeafPending("a")
  BY DEF PollValueReady, PollValuePending, PollInv, PollCompletes, PollGoesTo, LeafReady,
         LeafPending, Leaf
<1>2. EnvTypeOK' /\ Watched("a")'
  BY <1>1, ReadyKeeps, PendingKeeps DEF Leaf
<1>3. SeenInv' /\ FiredInv' /\ now' \in 0 .. MaxTime /\ deadline' \in 0 .. MaxTime
      /\ drains' \in 0 .. MaxDrains
  BY <1>1 DEF SeenInv, FiredInv, clockVars
<1>4. CASE PollValueReady
  <2>1. fired["a"] \in Outputs \ {Elapsed}
    BY <1>4 DEF PollValueReady, LeafReady, EnvTypeOK, FiredInv, Leaf
  <2>2. result' = [ok |-> fired["a"]] /\ pc' = "idle"
    BY <1>4 DEF PollValueReady, PollCompletes
  <2>3. result' # None /\ result' # [err |-> Elapsed]
    BY <2>1, <2>2, Results
  <2>4. NeverRepolled'
    BY <1>1, <1>4 DEF PollValueReady, LeafReady, NeverRepolled, RunningInv, EnvTypeOK
  <2> QED
    BY <1>2, <1>3, <2>1, <2>2, <2>3, <2>4
       DEF WakeInv, PollInv, RunningInv, NoSpuriousTimeout, Parked, CanPoll
<1>5. CASE PollValuePending
  <2>1. fired["a"] = None /\ pc' = "b" /\ UNCHANGED <<status, result>>
    BY <1>5 DEF PollValuePending, LeafPending, PollGoesTo
  <2>2. "a" \notin seen'
    BY <1>1, <2>1 DEF SeenInv
  <2> QED
    BY <1>1, <1>2, <1>3, <2>1, <2>2, Results
       DEF WakeInv, PollInv, RunningInv, NeverRepolled, NoSpuriousTimeout, Parked, CanPoll, Asked
<1> QED BY <1>4, <1>5

(* The outcomes of the Sleep's poll, the one without budget included.      *)
LEMMA PollDelayKeeps ==
  ASSUME IInv, PollDelayReady \/ PollDelayPending \/ PollDelayOutOfBudget PROVE IInv'
<1> USE DEF IInv, TypeOK
<1>1. /\ pc = "b" /\ pc' = "idle" /\ result = None /\ "a" \notin seen
      /\ UNCHANGED <<fired, seen, clockVars>>
      /\ \A l \in Leaf : status[l] = "running"
  BY DEF PollDelayReady, PollDelayPending, PollDelayOutOfBudget, PollInv, RunningInv,
         PollCompletes, PollPends, LeafReady, LeafPending, leafVars
<1>2. SeenInv' /\ FiredInv' /\ now' \in 0 .. MaxTime /\ deadline' \in 0 .. MaxTime
  BY <1>1 DEF SeenInv, FiredInv, clockVars
<1>3. CASE PollDelayReady
  <2>1. EnvTypeOK'
    BY <1>1, <1>3, ReadyKeeps DEF PollDelayReady, Leaf
  <2>2. result' = [err |-> Elapsed] /\ now >= deadline
    BY <1>3 DEF PollDelayReady, PollCompletes, LeafReady, FiredInv
  <2>3. NeverRepolled'
    BY <1>1, <1>3 DEF PollDelayReady, LeafReady, NeverRepolled, EnvTypeOK
  <2> QED
    BY <1>1, <1>2, <1>3, <2>1, <2>2, <2>3, Results
       DEF PollDelayReady, WakeInv, PollInv, RunningInv, NoSpuriousTimeout, Parked, CanPoll, clockVars
<1>4. CASE PollDelayPending
  <2>1. EnvTypeOK' /\ Watched("b")' /\ \A k \in Leaf : Watched(k) => Watched(k)'
    BY <1>1, <1>4, PendingKeeps DEF PollDelayPending, Leaf
  <2>2. UNCHANGED <<status, result, drains>>
    BY <1>4 DEF PollDelayPending, LeafPending, PollPends
  <2>3. WakeInv'
    BY <1>1, <2>1, <2>2 DEF WakeInv, Asked, Leaf
  <2> QED
    BY <1>1, <1>2, <2>1, <2>2, <2>3, Results
       DEF PollInv, RunningInv, NeverRepolled, NoSpuriousTimeout
<1>5. CASE PollDelayOutOfBudget
  <2>1. /\ owner' \in scheduled' /\ scheduled' \in SUBSET Tasks /\ drains' \in 0 .. MaxDrains
        /\ UNCHANGED <<leafVars, owner, result>>
    BY <1>5, TimeoutAssumption DEF PollDelayOutOfBudget, PollPends, EnvTypeOK
  <2>2. EnvTypeOK' /\ WakeInv'
    BY <1>1, <2>1 DEF EnvTypeOK, WakeInv, Parked, leafVars
  <2> QED
    BY <1>1, <1>2, <2>1, <2>2, Results
       DEF PollInv, RunningInv, NeverRepolled, NoSpuriousTimeout, leafVars
<1> QED BY <1>3, <1>4, <1>5

(* The clock, the value, the timer and the tasks.                          *)
LEMMA OutsideKeeps ==
  ASSUME IInv, \/ Tick \/ ValueCompletes \/ TimerFires \/ Begin
               \/ OutsideNext /\ UNCHANGED <<clockVars, drains>>
  PROVE  IInv'
<1> USE DEF IInv, TypeOK
<1>1. CASE Tick
  <2>1. UNCHANGED envVars /\ now' = now + 1 /\ now' \in 0 .. MaxTime /\ UNCHANGED <<deadline, drains>>
    BY <1>1, TimeoutAssumption DEF Tick
  <2>2. EnvTypeOK' /\ WakeInv' /\ PollInv' /\ SeenInv' /\ RunningInv' /\ NeverRepolled'
    BY <2>1 DEF envVars, leafVars, taskVars, pollVars, EnvTypeOK, WakeInv, PollInv, SeenInv,
                RunningInv, NeverRepolled, Asked, Watched, Parked, CanPoll
  <2>3. FiredInv' /\ NoSpuriousTimeout'
    BY <2>1 DEF envVars, leafVars, pollVars, FiredInv, NoSpuriousTimeout
  <2> QED
    BY <2>1, <2>2, <2>3 DEF envVars, pollVars
<1>2. ASSUME NEW l \in Leaf, NEW v \in Outputs, Fire(l, v), UNCHANGED <<clockVars, drains>>,
             l = "a" => v # Elapsed, l = "b" => v = Elapsed /\ now >= deadline
      PROVE  IInv'
  <2>1. EnvTypeOK' /\ WakeInv' /\ PollInv' /\ SeenInv'
    BY <1>2, FireKeeps, SeenKeeps
  <2>2. FiredInv'
    BY <1>2 DEF FiredInv, Fire, EnvTypeOK, clockVars, Leaf
  <2> QED
    BY <1>2, <2>1, <2>2 DEF Fire, pollVars, clockVars, RunningInv, NeverRepolled, NoSpuriousTimeout
<1>3. CASE ValueCompletes \/ TimerFires
  BY <1>2, <1>3, TimeoutAssumption DEF ValueCompletes, TimerFires, Leaf
<1>4. CASE Begin
  <2>1. EnvTypeOK' /\ WakeInv' /\ PollInv' /\ SeenInv'
    BY <1>4, BeginKeeps, SeenKeeps DEF Begin
  <2> QED
    BY <1>4, <2>1, Results
       DEF Begin, PollBegin, CanPoll, leafVars, clockVars, FiredInv, RunningInv, NeverRepolled, NoSpuriousTimeout
<1>5. CASE OutsideNext /\ UNCHANGED <<clockVars, drains>>
  <2>1. EnvTypeOK' /\ WakeInv' /\ PollInv' /\ SeenInv'
    BY <1>5, OutsideNextKeeps, SeenKeeps
  <2>2. UNCHANGED <<fired, status, pollVars>>
    BY <1>5, OutsideChanges
  <2> QED
    BY <1>5, <2>1, <2>2
       DEF leafVars, pollVars, clockVars, FiredInv, RunningInv, NeverRepolled, NoSpuriousTimeout
<1> QED BY <1>1, <1>3, <1>4, <1>5

-----------------------------------------------------------------------------
(* The invariant holds in every reachable state.                           *)
THEOREM Invariance == Spec => []IInv
<1>1. Init => IInv
  <2> SUFFICES ASSUME Init PROVE IInv
    OBVIOUS
  <2>1. EnvTypeOK /\ WakeInv /\ PollInv
    BY EnvStarts, Leaf \in SUBSET Leaf DEF Init, EnvInit
  <2> QED
    BY <2>1, Results, BranchesAssumption, TimeoutAssumption
       DEF Init, EnvInit, EnvInitWith, IInv, TypeOK, SeenInv, FiredInv, RunningInv, NeverRepolled,
           NoSpuriousTimeout, Leaf
<1>2. ASSUME IInv, [Next]_vars PROVE IInv'
  <2>1. CASE UNCHANGED vars
    BY <1>2, <2>1
       DEF vars, envVars, leafVars, taskVars, pollVars, clockVars, IInv, TypeOK, EnvTypeOK, WakeInv,
           PollInv, SeenInv, FiredInv, RunningInv, NeverRepolled, NoSpuriousTimeout, Asked, Watched,
           Parked, CanPoll
  <2> QED
    BY <1>2, <2>1, PollValueKeeps, PollDelayKeeps, OutsideKeeps DEF Next, PollStep
<1> QED BY <1>1, <1>2, PTL DEF Spec

(* Types; a result is the value's output or Elapsed.                       *)
THEOREM TypeCorrect == Spec => []TypeOK
BY Invariance, PTL DEF IInv

(* While a timeout waits, the value and the timer can both wake its task.  *)
THEOREM NeverLosesAWakeup == Spec => []NoLostWakeup
<1>1. IInv => NoLostWakeup
  BY NoWakeIsLost DEF IInv
<1> QED BY <1>1, Invariance, PTL

(* No Elapsed before the deadline, nor when the value was already there.   *)
THEOREM NeverTimesOutEarly == Spec => []NoSpuriousTimeout
BY Invariance, PTL DEF IInv

(***************************************************************************)
(* timeout implements the initial condition and the steps of Completion.   *)
(***************************************************************************)
THEOREM ImplementsCompletionSafely == Spec => Promise!Init /\ [][Promise!Next]_Promise!vars
<1>1. Init => Promise!Init
  BY DEF Init, EnvInit, EnvInitWith, Promise!Init
<1>2. ASSUME IInv, [Next]_vars PROVE [Promise!Next]_Promise!vars
  <2> USE <1>2 DEF Promise!vars
  <2>1. CASE PollValueReady \/ PollDelayReady
    BY <2>1 DEF PollValueReady, PollDelayReady, PollCompletes, LeafReady, IInv, PollInv,
                InTimeOrElapsed, Promise!Next, Promise!Complete
  <2>2. CASE PollValuePending \/ PollDelayPending \/ PollDelayOutOfBudget
    BY <2>2 DEF PollValuePending, PollDelayPending, PollDelayOutOfBudget, PollGoesTo, PollPends,
                LeafPending, leafVars
  <2>3. CASE Begin \/ OutsideNext
    BY <2>3, OutsideChanges DEF Begin, PollBegin, leafVars, pollVars
  <2>4. ASSUME NEW l \in Leaf, NEW v \in Outputs, Fire(l, v)
        PROVE  [Promise!Next]_Promise!vars
    BY <2>4 DEF Fire, pollVars, Promise!Next, Promise!Fire
  <2>5. CASE ValueCompletes \/ TimerFires
    BY <2>4, <2>5, TimeoutAssumption DEF ValueCompletes, TimerFires, Leaf
  <2>6. CASE Tick \/ UNCHANGED vars
    BY <2>6 DEF Tick, vars, envVars, leafVars, pollVars
  <2> QED
    BY <2>1, <2>2, <2>3, <2>5, <2>6 DEF Next, PollStep
<1> QED BY <1>1, <1>2, Invariance, PTL DEF Spec

(***************************************************************************)
(* timeout keeps the contract of a future, given that the value and the    *)
(* Sleep do and that neither panics; without budget its Pending comes with *)
(* a wake of its own.                                                      *)
(***************************************************************************)
THEOREM KeepsItsContract == Spec => KeepsContract
<1>1. Init => Contract!Init
  BY OwesNothingAtFirst DEF Init, Contract!Init, Ripe
<1>2. ASSUME IInv, IInv', [Next]_vars PROVE [Contract!Next]_Contract!vars
  <2> USE <1>2 DEF IInv, TypeOK
  <2>1. CASE PollValuePending
    <3>1. /\ pc # "idle" /\ pc' # "idle" /\ UNCHANGED <<owner, result, fired>>
      BY <2>1 DEF PollValuePending, PollGoesTo, LeafPending, taskVars
    <3> QED
      BY <3>1, PollGoesOn DEF Contract!Next, Contract!Others, Ripe
  <2>2. CASE PollDelayPending \/ PollDelayOutOfBudget
    <3>1. /\ pc = "b" /\ pc' = "idle" /\ result = None
          /\ UNCHANGED <<fired, owner, status, result>>
      BY <2>2 DEF PollDelayPending, PollDelayOutOfBudget, PollPends, PollInv, LeafPending,
                  leafVars, taskVars
    <3>2. Watched("a")
      BY <3>1 DEF WakeInv, Asked
    <3>3. Watched("a")' /\ status'["a"] = "running"
      <4>1. CASE PollDelayPending
        BY <3>1, <3>2, <4>1, PendingKeeps DEF PollDelayPending, PollPends, RunningInv, Leaf
      <4>2. CASE PollDelayOutOfBudget
        BY <3>1, <3>2, <4>2
           DEF PollDelayOutOfBudget, PollPends, Watched, RunningInv, leafVars, Leaf
      <4> QED BY <2>2, <4>1, <4>2
    <3>4. Honest' /\ Polling = owner /\ owner \in Tasks
      BY <3>1, <3>3, PendsHonestly DEF Pended, Polling, EnvTypeOK, Leaf
    <3>5. AllWillWake(owner)' => ~Ripe
      BY <3>1, <3>4 DEF AllWillWake, Ripe, RunningInv
    <3>6. Contract!Pends(owner)
      BY <3>1, <3>4, <3>5 DEF Contract!Pends, Honest, Ripe
    <3> QED
      BY <3>4, <3>6 DEF Contract!Next
  <2>3. CASE PollValueReady \/ PollDelayReady
    <3>1. /\ pc # "idle" /\ pc' = "idle" /\ result = None /\ UNCHANGED <<fired, owner>>
          /\ \E l \in Leaf : fired[l] # None
          /\ result' # None
      BY <2>3, TimeoutAssumption
         DEF PollValueReady, PollDelayReady, PollCompletes, PollInv, LeafReady, EnvTypeOK,
             taskVars, Leaf
    <3>2. Contract!Completes(owner)
      BY <3>1 DEF Contract!Completes, Ripe, Polling, Owed, CanPoll
    <3> QED
      BY <3>2 DEF Contract!Next, EnvTypeOK
  <2>4. CASE Begin
    BY <2>4, PollIsBegun DEF Begin, Contract!Next, Contract!Begin, Ripe
  <2>5. ASSUME NEW l \in Leaf, NEW v \in Outputs, Fire(l, v)
        PROVE  [Contract!Next]_Contract!vars
    BY <2>5, FireWakes
       DEF RunningInv, CanPoll, Contract!Next, Contract!Wake, Contract!Ripen, Contract!Wakes, Ripe
  <2>6. CASE ValueCompletes \/ TimerFires
    BY <2>5, <2>6, TimeoutAssumption DEF ValueCompletes, TimerFires, Leaf
  <2>7. CASE OutsideNext
    BY <2>7, OutsideWakes
       DEF Contract!Next, Contract!Wake, Contract!Others, Contract!Wakes, Ripe
  <2>8. CASE Tick \/ UNCHANGED vars
    BY <2>8 DEF Tick, vars, envVars, leafVars, taskVars, pollVars, Contract!vars, Polling, Owed,
                AllWillWake, CanPoll, Ripe
  <2> QED
    BY <2>1, <2>2, <2>3, <2>4, <2>6, <2>7, <2>8 DEF Next, PollStep
<1> QED BY <1>1, <1>2, Invariance, PTL DEF Spec, KeepsContract, Contract!Spec
=============================================================================
