------------------------------ MODULE RaceProofs ------------------------------
(***************************************************************************)
(* Proofs about Race for any sets of tasks and outputs.                    *)
(***************************************************************************)
EXTENDS MCRace, BranchesProofs

\* The winner has been polled to completion and the loser has not.
Won(l) ==
  /\ result = [side |-> Either(l), output |-> fired[l]]
  /\ status = [k \in Leaf |-> IF k = l THEN "ready" ELSE "running"]

\* A poll goes on to right only when left was pending.
WinnerInv ==
  /\ result = None => \A l \in Leaf : status[l] = "running"
  /\ result # None => Won("a") \/ (Won("b") /\ "a" \notin seen)
  /\ pc = "b" => "a" \notin seen

IInv == TypeOK /\ WakeInv /\ PollInv /\ SeenInv /\ WinnerInv

(* The invariant holds in every reachable state.                           *)
THEOREM Invariance == Spec => []IInv
<1>1. Init => IInv
  <2> SUFFICES ASSUME Init PROVE IInv
    OBVIOUS
  <2>1. EnvTypeOK /\ WakeInv /\ PollInv
    BY EnvStarts, Leaf \in SUBSET Leaf DEF Init, EnvInit
  <2> QED
    BY <2>1 DEF Init, EnvInit, EnvInitWith, IInv, TypeOK, SeenInv, WinnerInv
<1>2. ASSUME IInv, [Next]_vars PROVE IInv'
  <2> USE <1>2 DEF IInv, TypeOK
  <2>1. ASSUME NEW l \in Leaf, Pends(l) PROVE IInv'
    <3>1. /\ EnvTypeOK' /\ Watched(l)' /\ \A k \in Leaf : Watched(k) => Watched(k)'
      BY <2>1, PendingKeeps DEF Pends, PollGoesTo
    <3>2. /\ fired[l] = None /\ result = None /\ pc = l /\ pc' = After(l)
          /\ UNCHANGED <<result, seen, fired, status>>
      BY <2>1 DEF Pends, LeafPending, PollGoesTo, PollInv, Leaf
    <3>3. \A k \in Asked' : Watched(k)'
      BY <3>1, <3>2 DEF WakeInv, Asked, Leaf, After
    <3>4. WakeInv' /\ PollInv'
      BY <3>2, <3>3 DEF WakeInv, PollInv, WinnerInv
    <3>5. SeenInv' /\ WinnerInv'
      BY <3>2 DEF SeenInv, WinnerInv, After, Leaf
    <3> QED
      BY <3>1, <3>2, <3>4, <3>5 DEF After, Leaf
  <2>2. ASSUME NEW l \in Leaf, Wins(l) PROVE IInv'
    <3>1. EnvTypeOK'
      BY <2>2, ReadyKeeps DEF Wins, PollCompletes
    <3>2. /\ fired[l] \in Outputs /\ result = None /\ pc = l /\ pc' = "idle"
          /\ UNCHANGED <<seen, fired>>
          /\ result' = [side |-> Either(l), output |-> fired[l]]
      BY <2>2 DEF Wins, LeafReady, PollCompletes, PollInv, EnvTypeOK, Leaf
    <3>3. result' \in [side : {"Left", "Right"}, output : Outputs] /\ result' # None
      BY <3>2, RaceAssumption DEF Either
    <3>4. Won(l)'
      <4>1. status' = [status EXCEPT ![l] = "ready"] /\ \A k \in Leaf : status[k] = "running"
        BY <2>2, <3>2 DEF Wins, LeafReady, WinnerInv
      <4> QED
        BY <3>2, <4>1 DEF Won, EnvTypeOK
    <3>5. WakeInv' /\ PollInv' /\ SeenInv' /\ WinnerInv'
      BY <3>2, <3>3, <3>4 DEF WakeInv, PollInv, SeenInv, WinnerInv, Parked, CanPoll, Leaf
    <3> QED
      BY <3>1, <3>2, <3>3, <3>5
  <2>3. CASE PollBegin
    BY <2>3, BeginKeeps, SeenKeeps DEF PollBegin, CanPoll, leafVars, WinnerInv
  <2>4. ASSUME NEW l \in Leaf, NEW v \in Outputs, Fire(l, v) PROVE IInv'
    <3>1. EnvTypeOK' /\ WakeInv' /\ PollInv' /\ SeenInv'
      BY <2>4, FireKeeps, SeenKeeps
    <3>2. ASSUME result # None, NEW k \in Leaf, Won(k) PROVE Won(k)'
      <4>1. k # l
        BY <2>4, <3>2, BranchesAssumption, RaceAssumption
           DEF Fire, Won, EnvTypeOK, pollVars, Either
      <4> QED
        BY <2>4, <3>2, <4>1 DEF Fire, Won, EnvTypeOK, pollVars
    <3> QED
      BY <2>4, <3>1, <3>2 DEF Fire, pollVars, WinnerInv, Leaf
  <2>5. CASE OutsideNext
    <3>1. EnvTypeOK' /\ WakeInv' /\ PollInv' /\ SeenInv'
      BY <2>5, OutsideNextKeeps, SeenKeeps
    <3>2. UNCHANGED <<fired, status, pollVars>>
      BY <2>5, OutsideChanges
    <3> QED
      BY <3>1, <3>2 DEF leafVars, pollVars, WinnerInv, Won
  <2>6. CASE UNCHANGED vars
    BY <2>6 DEF vars, envVars, leafVars, taskVars, pollVars, EnvTypeOK, WakeInv, PollInv,
                SeenInv, WinnerInv, Won, Asked, Watched, Parked, CanPoll
  <2> QED
    BY <2>1, <2>2, <2>3, <2>4, <2>5, <2>6 DEF Next, PollStep
<1> QED BY <1>1, <1>2, PTL DEF Spec

(* Types; a result has a side and an output.                               *)
THEOREM TypeCorrect == Spec => []TypeOK
BY Invariance, PTL DEF IInv

(* While race waits, both leaves can wake its task.                        *)
THEOREM NeverLosesAWakeup == Spec => []NoLostWakeup
<1>1. IInv => NoLostWakeup
  BY NoWakeIsLost DEF IInv
<1> QED BY <1>1, Invariance, PTL

(* Right never beats a left that was ready before the poll, and a left     *)
(* that wins has not had right polled to completion.                       *)
THEOREM PrefersLeft == Spec => []LeftBias
<1>1. IInv => LeftBias
  BY DEF IInv, WinnerInv, Won, LeftBias, Either, Leaf
<1> QED BY <1>1, Invariance, PTL

(***************************************************************************)
(* race implements the initial condition and the steps of Completion: it   *)
(* completes once, with the output and the side of a leaf that has.        *)
(***************************************************************************)
THEOREM ImplementsCompletionSafely == Spec => Promise!Init /\ [][Promise!Next]_Promise!vars
<1>1. Init => Promise!Init
  BY DEF Init, EnvInit, EnvInitWith, Promise!Init
<1>2. ASSUME IInv, [Next]_vars PROVE [Promise!Next]_Promise!vars
  <2> USE <1>2 DEF Promise!vars
  <2>1. ASSUME NEW l \in Leaf, Pends(l) PROVE [Promise!Next]_Promise!vars
    BY <2>1 DEF Pends, PollGoesTo, LeafPending
  <2>2. ASSUME NEW l \in Leaf, Wins(l) PROVE [Promise!Next]_Promise!vars
    BY <2>2 DEF Wins, PollCompletes, LeafReady, IInv, PollInv, Leaf, Winners,
                Promise!Next, Promise!Complete
  <2>3. CASE PollBegin \/ OutsideNext
    BY <2>3, OutsideChanges DEF PollBegin, leafVars, pollVars
  <2>4. ASSUME NEW l \in Leaf, NEW v \in Outputs, Fire(l, v)
        PROVE  [Promise!Next]_Promise!vars
    BY <2>4 DEF Fire, pollVars, Promise!Next, Promise!Fire
  <2>5. CASE UNCHANGED vars
    BY <2>5 DEF vars, envVars, leafVars, pollVars
  <2> QED
    BY <2>1, <2>2, <2>3, <2>4, <2>5 DEF Next, PollStep
<1> QED BY <1>1, <1>2, Invariance, PTL DEF Spec

(***************************************************************************)
(* race keeps the contract of a future, given that its leaves do and that  *)
(* none panics.                                                            *)
(***************************************************************************)
THEOREM KeepsItsContract == Spec => KeepsContract
<1>1. Init => Contract!Init
  BY OwesNothingAtFirst DEF Init, Contract!Init, Ripe
<1>2. ASSUME IInv, IInv', [Next]_vars PROVE [Contract!Next]_Contract!vars
  <2> USE <1>2 DEF IInv, TypeOK
  <2>1. CASE Pends("a")
    <3>1. /\ pc # "idle" /\ pc' # "idle" /\ UNCHANGED <<owner, result, fired>>
      BY <2>1 DEF Pends, After, PollGoesTo, LeafPending, taskVars
    <3> QED
      BY <3>1, PollGoesOn DEF Contract!Next, Contract!Others, Ripe
  <2>2. CASE Pends("b")
    <3>1. /\ pc = "b" /\ pc' = "idle" /\ result = None
          /\ UNCHANGED <<fired, owner, status, result>>
      BY <2>2 DEF Pends, After, PollGoesTo, PollInv, LeafPending, taskVars
    <3>2. status'["b"] = "running" /\ Watched("b")'
      BY <2>2, <3>1, PendingKeeps DEF Pends, PollGoesTo, WinnerInv, Leaf
    <3>3. Honest' /\ Polling = owner /\ owner \in Tasks
      BY <3>1, <3>2, PendsHonestly DEF Pended, Polling, EnvTypeOK, Leaf
    <3>4. AllWillWake(owner)' => ~Ripe
      BY <3>1, <3>3 DEF AllWillWake, Ripe, WinnerInv
    <3>5. Contract!Pends(owner)
      BY <3>1, <3>3, <3>4 DEF Contract!Pends, Honest, Ripe
    <3> QED
      BY <3>3, <3>5 DEF Contract!Next
  <2>3. ASSUME NEW l \in Leaf, Wins(l) PROVE [Contract!Next]_Contract!vars
    <3>1. /\ pc = l /\ pc' = "idle" /\ result = None /\ UNCHANGED <<fired, owner>>
          /\ fired[l] # None /\ result' # None
      BY <2>3, RaceAssumption
         DEF Wins, Either, PollCompletes, PollInv, LeafReady, EnvTypeOK, taskVars, Leaf
    <3>2. Contract!Completes(owner)
      BY <3>1 DEF Contract!Completes, Ripe, Polling, Owed, CanPoll, Leaf
    <3> QED
      BY <3>2 DEF Contract!Next, EnvTypeOK
  <2>4. CASE PollBegin
    BY <2>4, PollIsBegun DEF Contract!Next, Contract!Begin, Ripe
  <2>5. ASSUME NEW l \in Leaf, NEW v \in Outputs, Fire(l, v)
        PROVE  [Contract!Next]_Contract!vars
    BY <2>5, FireWakes
       DEF WinnerInv, CanPoll, Contract!Next, Contract!Wake, Contract!Ripen, Contract!Wakes, Ripe
  <2>6. CASE OutsideNext
    BY <2>6, OutsideWakes
       DEF Contract!Next, Contract!Wake, Contract!Others, Contract!Wakes, Ripe
  <2>7. CASE UNCHANGED vars
    BY <2>7 DEF vars, envVars, leafVars, taskVars, pollVars, Contract!vars, Polling, Owed,
                AllWillWake, CanPoll, Ripe
  <2> QED
    BY <2>1, <2>2, <2>3, <2>4, <2>5, <2>6, <2>7 DEF Next, PollStep, Leaf
<1> QED BY <1>1, <1>2, Invariance, PTL DEF Spec, KeepsContract, Contract!Spec
=============================================================================
