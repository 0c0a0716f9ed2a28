------------------------------ MODULE JoinProofs ------------------------------
(***************************************************************************)
(* Proofs about Join for any sets of tasks and outputs.                    *)
(***************************************************************************)
EXTENDS MCJoin, BranchesProofs

\* Wakers, places of the outputs, and where a poll is: together inductive.
IInv == TypeOK /\ WakeInv /\ PollInv /\ OutputsHeldOnce

(* Until there is a result both outputs are held, and polling keeps it so. *)
LEMMA StillHeld ==
  ASSUME IInv, result = None, NEW l \in Leaf PROVE Held(l, branch[l])
BY DEF IInv, OutputsHeldOnce, Held

LEMMA BranchKeeps ==
  ASSUME IInv, NEW l \in Leaf, pc = l, PollIn(l),
         NEW where \in {"b", "decide"}, PollGoesTo(where)
  PROVE  /\ result = None /\ EnvTypeOK' /\ branch' \in [Leaf -> MaybeDones] /\ OutputsHeldOnce'
         /\ Watched(l)' /\ \A k \in Leaf : Watched(k) => Watched(k)'
<1>1. result = None /\ result' = None /\ UNCHANGED seen
  BY DEF IInv, PollInv, PollGoesTo, Leaf
<1>2. PICK n \in MaybeDones :
        PollMaybeDone(l, branch[l], n) /\ branch' = [branch EXCEPT ![l] = n]
  BY DEF PollIn
<1>3. /\ EnvTypeOK' /\ Held(l, n)' /\ UNCHANGED fired
      /\ Watched(l)' /\ \A k \in Leaf : Watched(k) => Watched(k)'
      /\ \A k \in Leaf \ {l} : status'[k] = status[k]
  BY <1>1, <1>2, StillHeld, PollKeeps DEF IInv, TypeOK
<1>4. branch' \in [Leaf -> MaybeDones] /\ \A k \in Leaf : Held(k, branch[k])'
  BY <1>1, <1>2, <1>3, StillHeld DEF Held, IInv, TypeOK
<1> QED BY <1>1, <1>3, <1>4 DEF OutputsHeldOnce, Held

(* The invariant holds in every reachable state.                           *)
THEOREM Invariance == Spec => []IInv
<1>1. Init => IInv
  <2> SUFFICES ASSUME Init PROVE IInv
    OBVIOUS
  <2>1. EnvTypeOK /\ WakeInv /\ PollInv
    BY EnvStarts, Leaf \in SUBSET Leaf DEF Init, EnvInit
  <2> QED
    BY <2>1 DEF Init, EnvInit, EnvInitWith, IInv, TypeOK, OutputsHeldOnce, maybe_done, MaybeDones
<1>2. ASSUME IInv, [Next]_vars PROVE IInv'
  <2> USE <1>2 DEF IInv, TypeOK
  <2>1. CASE PollA
    <3>1. /\ EnvTypeOK' /\ branch' \in [Leaf -> MaybeDones] /\ OutputsHeldOnce'
          /\ Watched("a")'
      BY <2>1, BranchKeeps DEF PollA, Leaf
    <3>2. WakeInv'
      BY <2>1, <3>1 DEF PollA, PollGoesTo, WakeInv, Asked, Parked, CanPoll
    <3> QED
      BY <2>1, <3>1, <3>2 DEF PollA, PollGoesTo, PollInv
  <2>2. CASE PollB
    <3>1. /\ EnvTypeOK' /\ branch' \in [Leaf -> MaybeDones] /\ OutputsHeldOnce'
          /\ Watched("b")' /\ \A k \in Leaf : Watched(k) => Watched(k)'
      BY <2>2, BranchKeeps DEF PollB, Leaf
    <3>2. result = None /\ Watched("a")
      BY <2>2 DEF PollB, PollInv, WakeInv, Asked
    <3>3. WakeInv'
      BY <2>2, <3>1, <3>2 DEF PollB, PollGoesTo, WakeInv, Asked, Parked, CanPoll, Leaf
    <3> QED
      BY <2>2, <3>1, <3>2, <3>3 DEF PollB, PollGoesTo, PollInv
  <2>3. CASE NotYet
    <3>1. \E l \in Leaf : status[l] = "running"
      BY <2>3, Variants DEF NotYet, PolledReady, OutputsHeldOnce, Leaf
    <3>2. WakeInv'
      BY <2>3, <3>1 DEF NotYet, PollPends, WakeInv, PollInv, Asked, Watched, Parked, leafVars, taskVars
    <3> QED
      BY <2>3, <3>2 DEF NotYet, PollPends, leafVars, taskVars, EnvTypeOK, PollInv, OutputsHeldOnce
  <2>4. CASE Collect
    <3>1. result = None
      BY <2>4 DEF Collect, PollInv
    <3>2. \A l \in Leaf : branch[l] = Done(fired[l]) /\ status[l] = "ready" /\ fired[l] \in Outputs
      BY <2>4, <3>1, StillHeld, HeldHasFired DEF Collect, PolledReady, Held, Leaf
    <3>3. /\ branch' = [l \in Leaf |-> Gone]
          /\ result' = [l \in Leaf |-> fired[l]]
      BY <2>4, <3>2, Variants DEF Collect, PollCompletes
    <3>4. result' # None /\ result' \in [Leaf -> Outputs]
      BY <3>2, <3>3, JoinAssumption
    <3>5. EnvTypeOK' /\ OutputsHeldOnce'
      BY <2>4, <3>2, <3>3, <3>4 DEF Collect, PollCompletes, leafVars, taskVars, EnvTypeOK, OutputsHeldOnce
    <3> QED
      BY <2>4, <3>3, <3>4, <3>5 DEF Collect, PollCompletes, WakeInv, PollInv, Parked, CanPoll, MaybeDones
  <2>5. CASE PollBegin /\ UNCHANGED branch
    <3>1. EnvTypeOK' /\ WakeInv' /\ PollInv'
      BY <2>5, BeginKeeps
    <3> QED
      BY <2>5, <3>1 DEF PollBegin, leafVars, OutputsHeldOnce
  <2>6. ASSUME NEW l \in Leaf, NEW v \in Outputs, Fire(l, v), UNCHANGED branch PROVE IInv'
    <3>1. EnvTypeOK' /\ WakeInv' /\ PollInv'
      BY <2>6, FireKeeps
    <3>2. CASE result = None
      BY <2>6, <3>1, <3>2, StillHeld, FireHolds DEF Fire, pollVars, OutputsHeldOnce, Held
    <3>3. CASE result # None
      <4>1. \A k \in Leaf : fired[k] # None
        BY <3>3, BranchesAssumption DEF OutputsHeldOnce
      <4> QED
        BY <2>6, <4>1 DEF Fire
    <3> QED
      BY <2>6, <3>1, <3>2, <3>3 DEF Fire, pollVars
  <2>7. CASE OutsideNext /\ UNCHANGED branch
    <3>1. EnvTypeOK' /\ WakeInv' /\ PollInv'
      BY <2>7, OutsideNextKeeps
    <3>2. UNCHANGED <<fired, status, pollVars>>
      BY <2>7, OutsideChanges
    <3> QED
      BY <2>7, <3>1, <3>2 DEF leafVars, pollVars, OutputsHeldOnce
  <2>8. CASE UNCHANGED vars
    BY <2>8 DEF vars, envVars, leafVars, taskVars, pollVars, EnvTypeOK, WakeInv, PollInv,
                OutputsHeldOnce, Asked, Watched, Parked, CanPoll
  <2> QED
    BY <2>1, <2>2, <2>3, <2>4, <2>5, <2>6, <2>7, <2>8 DEF Next, PollStep
<1> QED BY <1>1, <1>2, PTL DEF Spec

(* Types; a result is a full pair.                                         *)
THEOREM TypeCorrect == Spec => []TypeOK
BY Invariance, PTL DEF IInv

(* While join waits, every leaf it waits for can wake its task.            *)
THEOREM NeverLosesAWakeup == Spec => []NoLostWakeup
<1>1. IInv => NoLostWakeup
  BY NoWakeIsLost DEF IInv
<1> QED BY <1>1, Invariance, PTL

(* Neither output is lost, doubled or collected on the wrong side.         *)
THEOREM HoldsOutputsOnce == Spec => []OutputsHeldOnce
BY Invariance, PTL DEF IInv

(* No leaf that has returned Ready is polled again.                        *)
THEOREM NeverRepolls == Spec => []NeverRepolled
<1>1. IInv => NeverRepolled
  BY DEF IInv, OutputsHeldOnce, NeverRepolled
<1> QED BY <1>1, Invariance, PTL

(***************************************************************************)
(* join implements the initial condition and the steps of Completion: it   *)
(* completes once, when both leaves have, with the pair of their outputs.  *)
(***************************************************************************)
THEOREM ImplementsCompletionSafely == Spec => Promise!Init /\ [][Promise!Next]_Promise!vars
<1>1. Init => Promise!Init
  BY DEF Init, EnvInit, EnvInitWith, Promise!Init
<1>2. ASSUME IInv, IInv', [Next]_vars PROVE [Promise!Next]_Promise!vars
  <2> USE <1>2 DEF Promise!vars
  <2>1. CASE PollA \/ PollB
    BY <2>1 DEF PollA, PollB, PollGoesTo, PollIn, PollMaybeDone, LeafReady, LeafPending, leafVars
  <2>2. CASE NotYet
    BY <2>2 DEF NotYet, PollPends, leafVars
  <2>3. CASE Collect
    <3>0. branch["a"] # Future /\ branch' = [l \in Leaf |-> AfterTake(branch[l])]
      BY <2>3 DEF Collect, PolledReady
    <3>1. result = None /\ UNCHANGED fired
      BY <2>3 DEF Collect, IInv, PollInv, leafVars
    <3>2. branch'["a"] = Gone
      BY <3>0 DEF IInv, TypeOK, Leaf, MaybeDones, AfterTake, IsDone, Done, Gone
    <3>3. result' # None /\ \A l \in Leaf : result'[l] = fired[l]
      BY <3>1, <3>2 DEF IInv, TypeOK, OutputsHeldOnce, Leaf, Future, Done, Gone
    <3>4. result' \in [Leaf -> Outputs]
      BY <3>3 DEF IInv, TypeOK
    <3>5. result' = fired /\ \A l \in Leaf : fired[l] # None
      BY <3>3, <3>4, BranchesAssumption DEF IInv, TypeOK, EnvTypeOK
    <3> QED
      BY <3>1, <3>5 DEF Promise!Next, Promise!Complete, Both
  <2>4. CASE PollBegin \/ OutsideNext
    BY <2>4, OutsideChanges DEF PollBegin, leafVars, pollVars
  <2>5. ASSUME NEW l \in Leaf, NEW v \in Outputs, Fire(l, v)
        PROVE  [Promise!Next]_Promise!vars
    BY <2>5 DEF Fire, pollVars, Promise!Next, Promise!Fire
  <2>6. CASE UNCHANGED vars
    BY <2>6 DEF vars, envVars, leafVars, pollVars
  <2> QED
    BY <2>1, <2>2, <2>3, <2>4, <2>5, <2>6 DEF Next, PollStep
<1> QED BY <1>1, <1>2, Invariance, PTL DEF Spec

(***************************************************************************)
(* join keeps the contract of a future, given that its leaves do and that  *)
(* none panics: its Pending is honest, its wakes are not lost, it answers  *)
(* Ready once.                                                             *)
(***************************************************************************)
THEOREM KeepsItsContract == Spec => KeepsContract
<1>1. Init => Contract!Init
  BY OwesNothingAtFirst DEF Init, Contract!Init, Ripe
<1>2. ASSUME IInv, IInv', [Next]_vars PROVE [Contract!Next]_Contract!vars
  <2> USE <1>2 DEF IInv, TypeOK
  <2>1. CASE PollA \/ PollB
    <3>1. /\ pc # "idle" /\ pc' # "idle" /\ UNCHANGED <<owner, result, fired>>
      BY <2>1 DEF PollA, PollB, PollGoesTo, PollIn, PollMaybeDone, LeafReady, LeafPending,
                  leafVars, taskVars
    <3> QED
      BY <3>1, PollGoesOn DEF Contract!Next, Contract!Others, Ripe
  <2>2. CASE NotYet
    <3>1. /\ pc = "decide" /\ pc' = "idle" /\ result = None
          /\ UNCHANGED <<leafVars, taskVars, result>>
      BY <2>2 DEF NotYet, PollPends, PollInv
    <3>2. \E l \in Leaf : status'[l] = "running" /\ Watched(l)'
      BY <2>2, <3>1, Variants
         DEF NotYet, PolledReady, OutputsHeldOnce, WakeInv, Asked, Watched, Leaf, leafVars, taskVars
    <3>3. Honest' /\ Polling = owner /\ owner \in Tasks /\ UNCHANGED <<owner, fired>>
      BY <3>1, <3>2, PendsHonestly DEF Pended, Polling, EnvTypeOK, leafVars, taskVars
    <3>4. AllWillWake(owner)' => ~Ripe
      BY <3>3 DEF AllWillWake, Ripe
    <3>5. Contract!Pends(owner)
      BY <3>1, <3>3, <3>4 DEF Contract!Pends, Honest, Ripe
    <3> QED
      BY <3>3, <3>5 DEF Contract!Next
  <2>3. CASE Collect
    <3>1. /\ pc = "decide" /\ pc' = "idle" /\ result = None /\ UNCHANGED <<fired, owner>>
      BY <2>3 DEF Collect, PollCompletes, PollInv, leafVars, taskVars
    <3>2. \A l \in Leaf : branch[l] = Done(fired[l]) /\ fired[l] # None
      BY <2>3, <3>1, StillHeld, HeldHasFired, BranchesAssumption DEF Collect, PolledReady, Leaf
    <3>3. result' # None
      <4>1. branch'["a"] = Gone
        BY <2>3, <3>2, Variants DEF Collect, Leaf
      <4> QED
        BY <4>1, Variants DEF OutputsHeldOnce, Leaf
    <3>4. Contract!Completes(owner)
      BY <3>1, <3>2, <3>3 DEF Contract!Completes, Ripe, Polling, Owed, CanPoll
    <3> QED
      BY <3>4 DEF Contract!Next, EnvTypeOK
  <2>4. CASE PollBegin
    BY <2>4, PollIsBegun DEF Contract!Next, Contract!Begin, Ripe
  <2>5. ASSUME NEW l \in Leaf, NEW v \in Outputs, Fire(l, v)
        PROVE  [Contract!Next]_Contract!vars
    <3>1. CanPoll => status[l] = "running"
      BY <2>5, StillHeld, HeldHasFired, Variants, BranchesAssumption DEF Fire, CanPoll, Held
    <3>2. Ripe => Ripe'
      BY <2>5, <3>1, FireWakes DEF Ripe
    <3> QED
      BY <2>5, <3>1, <3>2, FireWakes
         DEF Contract!Next, Contract!Wake, Contract!Ripen, Contract!Wakes, Ripe
  <2>6. CASE OutsideNext
    BY <2>6, OutsideWakes
       DEF Contract!Next, Contract!Wake, Contract!Others, Contract!Wakes, Ripe
  <2>7. CASE UNCHANGED vars
    BY <2>7 DEF vars, envVars, leafVars, taskVars, pollVars, Contract!vars, Polling, Owed,
                AllWillWake, CanPoll, Ripe
  <2> QED
    BY <2>1, <2>2, <2>3, <2>4, <2>5, <2>6, <2>7 DEF Next, PollStep
<1> QED BY <1>1, <1>2, Invariance, PTL DEF Spec, KeepsContract, Contract!Spec
=============================================================================
