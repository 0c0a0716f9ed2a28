---------------------------- MODULE TryJoinProofs ----------------------------
(***************************************************************************)
(* Proofs about TryJoin for any sets of tasks and outputs, any of which    *)
(* may be errors.                                                          *)
(***************************************************************************)
EXTENDS MCTryJoin, BranchesProofs

\* An error is in its branch only between the poll that met it and its check.
ErrorPlace == \A l \in Leaf : IsErr(branch[l]) => pc = Check(l)

\* A round that has left a behind pending began before a completed.
RoundInv ==
  (pc \notin {"idle", "a"} /\ branch["a"] = Future) => "a" \notin seen

IInv ==
  /\ TypeOK /\ WakeInv /\ PollInv /\ SeenInv
  /\ OutputsHeldOnce /\ ErrorPlace /\ RoundInv /\ ErrorBias

(* A failure is told from a success, and both from no result.              *)
LEMMA Results ==
  /\ \A e \in Errs : [err |-> e] \in [err : Errs] /\ [err |-> e] # None
  /\ \A f \in [Leaf -> Outputs \ Errs] :
       /\ [ok |-> f] \in [ok : [Leaf -> Outputs \ Errs]] /\ [ok |-> f] # None
       /\ [ok |-> f] \notin [err : Errs]
BY ErrsAssumption

(* Until there is a result both outputs are held.                          *)
LEMMA StillHeld ==
  ASSUME IInv, result = None, NEW l \in Leaf PROVE Held(l, branch[l])
BY Variants DEF IInv, OutputsHeldOnce, Held

(* A branch that has been polled to completion has completed for good.     *)
LEMMA ReadyHasFired ==
  ASSUME IInv, NEW l \in Leaf, status[l] = "ready"
  PROVE  fired[l] \in Outputs
<1> USE DEF IInv, TypeOK
<1>1. CASE branch[l] = Done(fired[l])
  BY <1>1, Variants
<1>2. CASE branch[l] = Gone /\ result # None /\ Failed /\ fired[l] = result.err
  BY <1>2, ErrsAssumption DEF Failed
<1>3. CASE branch[l] = Gone /\ result # None /\ ~Failed /\ fired[l] = result.ok[l]
  BY <1>3 DEF Failed
<1> QED BY <1>1, <1>2, <1>3 DEF OutputsHeldOnce

(* The step from the poll of a branch to its check.                        *)
LEMMA PollBranchKeeps ==
  ASSUME IInv, NEW l \in Leaf, PollBranch(l) PROVE IInv'
<1> USE DEF IInv, TypeOK
<1>0. PICK n \in MaybeDones :
        PollMaybeDone(l, branch[l], n) /\ branch' = [branch EXCEPT ![l] = n]
  BY DEF PollBranch, PollIn
<1>1. result = None /\ UNCHANGED <<result, seen>> /\ pc = l /\ pc' = Check(l)
  BY DEF PollBranch, PollGoesTo, PollInv, Leaf
<1>2. /\ EnvTypeOK' /\ branch' \in [Leaf -> MaybeDones] /\ Held(l, branch[l])'
      /\ UNCHANGED <<fired, scheduled>> /\ (branch'[l] = Future => fired[l] = None)
      /\ Watched(l)' /\ \A k \in Leaf : Watched(k) => Watched(k)'
      /\ \A k \in Leaf \ {l} : branch'[k] = branch[k] /\ status'[k] = status[k]
  <2>1. /\ EnvTypeOK' /\ Held(l, n)' /\ UNCHANGED <<fired, scheduled>>
        /\ (n = Future => fired[l] = None)
        /\ Watched(l)' /\ \A k \in Leaf : Watched(k) => Watched(k)'
        /\ \A k \in Leaf \ {l} : status'[k] = status[k]
    BY <1>0, <1>1, StillHeld, PollKeeps
  <2> QED
    BY <1>0, <2>1 DEF Held
<1>3. \A k \in Leaf : Held(k, branch[k])'
  BY <1>1, <1>2, StillHeld DEF Held
<1>4. TypeOK'
  BY <1>1, <1>2 DEF Check, Leaf
<1>5. WakeInv' /\ PollInv'
  BY <1>1, <1>2 DEF WakeInv, PollInv, Parked, CanPoll, Asked, Check, Leaf
<1>6. SeenInv' /\ RoundInv'
  BY <1>1, <1>2 DEF SeenInv, RoundInv, Check, Leaf
<1>7. ErrorPlace'
  BY <1>1, <1>2 DEF ErrorPlace, Check, Leaf
<1>8. OutputsHeldOnce'
  BY <1>1, <1>3 DEF OutputsHeldOnce, Held, Check, Leaf
<1>9. ErrorBias'
  BY <1>1, <1>3, Variants DEF ErrorBias, Held, Leaf
<1> QED BY <1>4, <1>5, <1>6, <1>7, <1>8, <1>9

(* The step that ends the poll with the error of the branch just polled.   *)
LEMMA TakeErrorKeeps ==
  ASSUME IInv, NEW l \in Leaf, TakeError(l) PROVE IInv'
<1> USE DEF IInv, TypeOK
<1>1. result = None /\ pc = Check(l) /\ pc' = "idle" /\ UNCHANGED <<leafVars, taskVars, seen>>
  BY DEF TakeError, PollCompletes, PollInv, Check
<1>2. branch[l] = Done(fired[l]) /\ status[l] = "ready" /\ fired[l] \in Errs
  BY <1>1, StillHeld, Variants DEF TakeError, IsErr, Held, OutputMut
<1>3. branch' = [branch EXCEPT ![l] = Gone] /\ result' = [err |-> fired[l]]
  BY <1>2, Variants DEF TakeError, PollCompletes
<1>4. result' # None /\ Failed' /\ result'.err = fired[l]
  BY <1>2, <1>3, Results DEF Failed
<1>5. \A k \in Leaf \ {l} : Held(k, branch[k]) /\ branch'[k] = branch[k] /\ ~IsErr(branch[k])
  <2>1. \A k \in Leaf \ {l} : Check(k) # Check(l)
    <3>1. Check("a") = "check a" /\ Check("b") = "check b"
      BY DEF Check
    <3> QED
      BY <3>1 DEF Leaf
  <2> QED
    BY <1>1, <1>3, <2>1, StillHeld DEF ErrorPlace
<1>6. TypeOK' /\ WakeInv' /\ PollInv' /\ SeenInv' /\ RoundInv'
  BY <1>1, <1>2, <1>3, <1>4
     DEF leafVars, taskVars, EnvTypeOK, MaybeDones, WakeInv, PollInv, Parked, CanPoll, SeenInv, RoundInv
<1>7. OutputsHeldOnce' /\ ErrorPlace'
  BY <1>1, <1>2, <1>3, <1>4, <1>5, Variants
     DEF leafVars, OutputsHeldOnce, ErrorPlace, Held, IsErr
<1>8. ErrorBias'
  <2>1. ASSUME "a" \in seen, l = "b" PROVE branch["a"] # Future
    BY <1>1, <2>1 DEF RoundInv, Check
  <2>2. \A k \in Leaf \ {l} : branch[k] = Done(fired[k]) => fired[k] \notin Errs
    BY <1>5, Variants DEF IsErr, OutputMut
  <2> QED
    BY <1>1, <1>3, <1>4, <1>5, <2>1, <2>2, Variants DEF ErrorBias, Held, Leaf, leafVars
<1> QED BY <1>6, <1>7, <1>8

(* The step that goes on because the branch just polled has no error.      *)
LEMMA NoErrorKeeps ==
  ASSUME IInv, NEW l \in Leaf, NoError(l) PROVE IInv'
<1> USE DEF IInv, TypeOK
<1>1. /\ pc = Check(l) /\ pc' = After(l) /\ ~IsErr(branch[l])
      /\ UNCHANGED <<leafVars, taskVars, branch, result, seen>>
  BY DEF NoError, PollGoesTo
<1>2. TypeOK' /\ WakeInv' /\ PollInv' /\ SeenInv' /\ RoundInv'
  BY <1>1 DEF leafVars, taskVars, EnvTypeOK, WakeInv, PollInv, Parked, CanPoll, Asked, Watched,
              SeenInv, RoundInv, Check, After, Leaf
<1>3. OutputsHeldOnce' /\ ErrorPlace' /\ ErrorBias'
  BY <1>1 DEF leafVars, OutputsHeldOnce, Failed, ErrorPlace, ErrorBias, Check, After, Leaf
<1> QED BY <1>2, <1>3

(* The end of a round: Pending, or both outputs.                           *)
LEMMA RoundEndKeeps ==
  ASSUME IInv, NotYet \/ Collect PROVE IInv'
<1> USE DEF IInv, TypeOK
<1>1. /\ pc = "decide" /\ pc' = "idle" /\ result = None /\ UNCHANGED <<leafVars, taskVars, seen>>
  BY DEF NotYet, Collect, PollPends, PollCompletes, PollInv
<1>2. \A l \in Leaf : Held(l, branch[l]) /\ ~IsErr(branch[l])
  BY <1>1, StillHeld DEF ErrorPlace, Check
<1>3. CASE NotYet
  <2>1. \E l \in Leaf : status[l] = "running"
    BY <1>2, <1>3, Variants DEF NotYet, PolledReady, Held, Leaf
  <2>2. UNCHANGED <<branch, result>>
    BY <1>3 DEF NotYet, PollPends
  <2> QED
    BY <1>1, <1>2, <2>1, <2>2
       DEF leafVars, taskVars, EnvTypeOK, WakeInv, PollInv, Parked, Asked, Watched, SeenInv,
           RoundInv, OutputsHeldOnce, Failed, ErrorPlace, ErrorBias
<1>4. CASE Collect
  <2>1. \A l \in Leaf : /\ branch[l] = Done(fired[l]) /\ status[l] = "ready"
                        /\ fired[l] \in Outputs \ Errs
    BY <1>2, <1>4, HeldHasFired, Variants
       DEF Collect, PolledReady, Held, IsErr, OutputMut, Leaf
  <2>2. branch' = [l \in Leaf |-> Gone] /\ result' = [ok |-> [l \in Leaf |-> fired[l]]]
    BY <1>4, <2>1, Variants DEF Collect, PollCompletes
  <2>3. /\ result' \in [ok : [Leaf -> Outputs \ Errs]] /\ result' # None /\ ~Failed'
        /\ \A l \in Leaf : result'.ok[l] = fired[l]
    <3>1. [l \in Leaf |-> fired[l]] \in [Leaf -> Outputs \ Errs]
      BY <2>1
    <3> QED
      BY <2>2, <3>1, Results DEF Failed
  <2> QED
    BY <1>1, <2>1, <2>2, <2>3, Variants
       DEF leafVars, taskVars, EnvTypeOK, MaybeDones, WakeInv, PollInv, Parked, CanPoll, SeenInv,
           RoundInv, OutputsHeldOnce, ErrorPlace, IsErr, ErrorBias, Leaf
<1> QED BY <1>3, <1>4

(* What happens between and around the steps of a poll.                    *)
LEMMA FireKeepsAll ==
  ASSUME IInv, NEW l \in Leaf, NEW v \in Outputs, Fire(l, v), UNCHANGED branch
  PROVE  IInv'
<1> USE DEF IInv, TypeOK
<1>1. EnvTypeOK' /\ WakeInv' /\ PollInv' /\ SeenInv'
  BY FireKeeps, SeenKeeps
<1>2. UNCHANGED <<status, pc, result, seen, branch>> /\ fired' = [fired EXCEPT ![l] = v]
  BY DEF Fire, pollVars
<1>3. ASSUME NEW k \in Leaf, status[k] = "ready" \/ k \in seen PROVE fired'[k] = fired[k]
  BY <1>2, <1>3, ReadyHasFired, BranchesAssumption DEF Fire, SeenInv, EnvTypeOK
<1>4. OutputsHeldOnce'
  BY <1>2, <1>3 DEF OutputsHeldOnce, Failed
<1>5. ErrorBias'
  BY <1>2, <1>3 DEF ErrorBias, Failed, Leaf
<1> QED BY <1>1, <1>2, <1>4, <1>5 DEF ErrorPlace, RoundInv

LEMMA TaskKeepsAll ==
  ASSUME IInv, (OutsideNext \/ PollBegin) /\ UNCHANGED branch PROVE IInv'
<1> USE DEF IInv, TypeOK
<1>1. EnvTypeOK' /\ WakeInv' /\ PollInv' /\ SeenInv'
  BY OutsideNextKeeps, BeginKeeps, SeenKeeps
<1>2. CASE OutsideNext
  <2>1. UNCHANGED <<fired, status, pollVars>>
    BY <1>2, OutsideChanges
  <2> QED
    BY <1>1, <2>1 DEF leafVars, pollVars, OutputsHeldOnce, Failed, ErrorPlace, RoundInv, ErrorBias
<1>3. CASE PollBegin
  <2>1. UNCHANGED <<leafVars, result>> /\ pc = "idle" /\ pc' = "a" /\ result = None
    BY <1>3 DEF PollBegin, CanPoll
  <2>2. \A l \in Leaf : Held(l, branch[l]) /\ ~IsErr(branch[l])
    BY <2>1, StillHeld DEF OutputsHeldOnce
  <2> QED
    BY <1>1, <2>1, <2>2, Variants
       DEF leafVars, OutputsHeldOnce, Held, Failed, ErrorPlace, RoundInv, ErrorBias, Leaf
<1> QED BY <1>2, <1>3

-----------------------------------------------------------------------------
(* The invariant holds in every reachable state.                           *)
THEOREM Invariance == Spec => []IInv
<1>1. Init => IInv
  <2> SUFFICES ASSUME Init PROVE IInv
    OBVIOUS
  <2>1. EnvTypeOK /\ WakeInv /\ PollInv
    BY EnvStarts, Leaf \in SUBSET Leaf DEF Init, EnvInit
  <2>2. branch = [l \in Leaf |-> Future] /\ pc = "idle" /\ result = None /\ seen = {}
    BY DEF Init, EnvInit, EnvInitWith, maybe_done
  <2>3. \A l \in Leaf : status[l] = "running"
    BY DEF Init, EnvInit, EnvInitWith
  <2> QED
    BY <2>1, <2>2, <2>3, Variants
       DEF IInv, TypeOK, MaybeDones, SeenInv, OutputsHeldOnce, ErrorPlace, RoundInv, ErrorBias, IsErr, Leaf
<1>2. ASSUME IInv, [Next]_vars PROVE IInv'
  <2>1. CASE UNCHANGED vars
    BY <1>2, <2>1
       DEF vars, envVars, leafVars, taskVars, pollVars, IInv, TypeOK, EnvTypeOK, WakeInv, PollInv,
           SeenInv, OutputsHeldOnce, Failed, ErrorPlace, RoundInv, ErrorBias, Asked, Watched,
           Parked, CanPoll
  <2> QED
    BY <1>2, <2>1, PollBranchKeeps, TakeErrorKeeps, NoErrorKeeps, RoundEndKeeps, FireKeepsAll,
       TaskKeepsAll DEF Next, PollStep
<1> QED BY <1>1, <1>2, PTL DEF Spec

(* Types; a result is one error or two values that are not errors.         *)
THEOREM TypeCorrect == Spec => []TypeOK
BY Invariance, PTL DEF IInv

(* While try_join waits, every leaf it waits for can wake its task.        *)
THEOREM NeverLosesAWakeup == Spec => []NoLostWakeup
<1>1. IInv => NoLostWakeup
  BY NoWakeIsLost DEF IInv
<1> QED BY <1>1, Invariance, PTL

(* No output is lost, doubled or taken from a branch it must stay in.      *)
THEOREM HoldsOutputsOnce == Spec => []OutputsHeldOnce
BY Invariance, PTL DEF IInv

(* a's error comes before b's, and ends the round before b is polled.      *)
THEOREM PrefersErrorOfA == Spec => []ErrorBias
BY Invariance, PTL DEF IInv

(***************************************************************************)
(* try_join implements the initial condition and the steps of Completion:  *)
(* one error that occurred, or both values.                                *)
(***************************************************************************)
THEOREM ImplementsCompletionSafely == Spec => Promise!Init /\ [][Promise!Next]_Promise!vars
<1>1. Init => Promise!Init
  BY DEF Init, EnvInit, EnvInitWith, Promise!Init
<1>2. ASSUME IInv, [Next]_vars PROVE [Promise!Next]_Promise!vars
  <2> USE <1>2 DEF Promise!vars
  <2>1. ASSUME NEW l \in Leaf, PollBranch(l) \/ NoError(l) PROVE [Promise!Next]_Promise!vars
    BY <2>1 DEF PollBranch, NoError, PollGoesTo, PollIn, PollMaybeDone, LeafReady, LeafPending, leafVars
  <2>2. CASE NotYet
    BY <2>2 DEF NotYet, PollPends, leafVars
  <2>3. ASSUME NEW l \in Leaf, TakeError(l) PROVE [Promise!Next]_Promise!vars
    <3>1. result = None /\ UNCHANGED fired
      BY <2>3 DEF TakeError, IInv, PollInv, Check, leafVars
    <3>2. branch[l] = Done(fired[l]) /\ fired[l] \in Errs
      BY <2>3, <3>1, StillHeld, Variants DEF TakeError, IsErr, Held, OutputMut
    <3>3. result' = [err |-> fired[l]]
      BY <2>3, <3>2, Variants DEF TakeError, PollCompletes
    <3> QED
      BY <3>1, <3>2, <3>3 DEF Promise!Next, Promise!Complete, BothOrError
  <2>4. CASE Collect
    <3>1. result = None /\ UNCHANGED fired
      BY <2>4 DEF Collect, IInv, PollInv, leafVars
    <3>2. \A l \in Leaf : branch[l] = Done(fired[l]) /\ fired[l] \in Outputs \ Errs
      <4>1. \A l \in Leaf : Held(l, branch[l]) /\ ~IsErr(branch[l])
        BY <2>4, <3>1, StillHeld DEF Collect, IInv, ErrorPlace, Check
      <4> QED
        BY <2>4, <4>1, HeldHasFired, Variants
           DEF Collect, PolledReady, Held, IsErr, OutputMut, Leaf, IInv, TypeOK
    <3>3. result' = [ok |-> fired]
      BY <2>4, <3>2, Variants DEF Collect, PollCompletes, IInv, TypeOK, EnvTypeOK
    <3> QED
      BY <3>1, <3>2, <3>3 DEF Promise!Next, Promise!Complete, BothOrError
  <2>5. CASE PollBegin \/ OutsideNext
    BY <2>5, OutsideChanges DEF PollBegin, leafVars, pollVars
  <2>6. ASSUME NEW l \in Leaf, NEW v \in Outputs, Fire(l, v)
        PROVE  [Promise!Next]_Promise!vars
    BY <2>6 DEF Fire, pollVars, Promise!Next, Promise!Fire
  <2>7. CASE UNCHANGED vars
    BY <2>7 DEF vars, envVars, leafVars, pollVars
  <2> QED
    BY <2>1, <2>2, <2>3, <2>4, <2>5, <2>6, <2>7 DEF Next, PollStep
<1> QED BY <1>1, <1>2, Invariance, PTL DEF Spec

(***************************************************************************)
(* try_join keeps the contract of a future, given that its leaves do and   *)
(* that none panics: a waiting task is never left with an error that       *)
(* nobody comes to fetch.                                                  *)
(***************************************************************************)
THEOREM KeepsItsContract == Spec => KeepsContract
<1>1. Init => Contract!Init
  BY OwesNothingAtFirst DEF Init, Contract!Init, Ripe
<1>2. ASSUME IInv, IInv', [Next]_vars PROVE [Contract!Next]_Contract!vars
  <2> USE <1>2 DEF IInv, TypeOK
  <2>1. ASSUME NEW l \in Leaf, PollBranch(l) \/ NoError(l) PROVE [Contract!Next]_Contract!vars
    <3>1. /\ pc # "idle" /\ pc' # "idle" /\ UNCHANGED <<owner, result, fired>>
      BY <2>1 DEF PollBranch, NoError, Check, After, Leaf, PollGoesTo, PollIn, PollMaybeDone,
                  LeafReady, LeafPending, leafVars, taskVars
    <3> QED
      BY <3>1, PollGoesOn DEF Contract!Next, Contract!Others, Ripe
  <2>2. CASE NotYet
    <3>1. /\ pc = "decide" /\ pc' = "idle" /\ result = None
          /\ UNCHANGED <<leafVars, taskVars, result>>
      BY <2>2 DEF NotYet, PollPends, PollInv
    <3>2. \A l \in Leaf : Held(l, branch[l]) /\ ~IsErr(branch[l])
      BY <3>1, StillHeld DEF ErrorPlace, Check
    <3>3. \E l \in Leaf : status'[l] = "running" /\ Watched(l)'
      BY <2>2, <3>1, <3>2, Variants
         DEF NotYet, PolledReady, Held, WakeInv, Asked, Watched, Leaf, leafVars, taskVars
    <3>4. Honest' /\ Polling = owner /\ owner \in Tasks /\ UNCHANGED <<owner, fired, status>>
      BY <3>1, <3>3, PendsHonestly DEF Pended, Polling, EnvTypeOK, leafVars, taskVars
    <3>5. \A l \in Leaf : status[l] # "running" => fired[l] \notin Errs
      BY <3>2, Variants DEF Held, IsErr, OutputMut
    <3>6. AllWillWake(owner)' => ~Ripe
      BY <3>4, <3>5, ErrsAssumption, BranchesAssumption DEF AllWillWake, Ripe
    <3>7. Contract!Pends(owner)
      BY <3>1, <3>4, <3>6 DEF Contract!Pends, Honest, Ripe
    <3> QED
      BY <3>4, <3>7 DEF Contract!Next
  <2>3. ASSUME NEW l \in Leaf, TakeError(l) PROVE [Contract!Next]_Contract!vars
    <3>1. /\ pc = Check(l) /\ pc' = "idle" /\ result = None /\ UNCHANGED <<fired, owner>>
      BY <2>3 DEF TakeError, PollCompletes, PollInv, Check, leafVars, taskVars
    <3>2. fired[l] \in Errs /\ result' = [err |-> fired[l]]
      BY <2>3, <3>1, StillHeld, Variants DEF TakeError, PollCompletes, IsErr, Held, OutputMut
    <3>3. result' # None /\ Polling = owner
      BY <3>1, <3>2, Results DEF Polling, Check
    <3>4. Contract!Completes(owner)
      BY <3>1, <3>2, <3>3 DEF Contract!Completes, Ripe, Polling, Owed, CanPoll
    <3> QED
      BY <3>4 DEF Contract!Next, EnvTypeOK
  <2>4. CASE Collect
    <3>1. /\ pc = "decide" /\ pc' = "idle" /\ result = None /\ UNCHANGED <<fired, owner>>
      BY <2>4 DEF Collect, PollCompletes, PollInv, leafVars, taskVars
    <3>2. \A l \in Leaf : branch[l] = Done(fired[l]) /\ fired[l] \in Outputs
      BY <2>4, <3>1, StillHeld, HeldHasFired DEF Collect, PolledReady, Leaf
    <3>3. result' # None
      <4>1. branch'["a"] = Gone
        BY <2>4, <3>2, Variants DEF Collect, Leaf
      <4> QED
        BY <4>1, Variants DEF OutputsHeldOnce, Leaf
    <3>4. Contract!Completes(owner)
      BY <3>1, <3>2, <3>3, BranchesAssumption
         DEF Contract!Completes, Ripe, Polling, Owed, CanPoll
    <3> QED
      BY <3>4 DEF Contract!Next, EnvTypeOK
  <2>5. CASE PollBegin
    BY <2>5, PollIsBegun DEF Contract!Next, Contract!Begin, Ripe
  <2>6. ASSUME NEW l \in Leaf, NEW v \in Outputs, Fire(l, v)
        PROVE  [Contract!Next]_Contract!vars
    <3>1. status[l] = "running"
      BY <2>6, ReadyHasFired, BranchesAssumption DEF Fire, OutputsHeldOnce
    <3>2. Ripe => Ripe'
      BY <2>6, <3>1, FireWakes, ErrsAssumption, BranchesAssumption DEF Ripe
    <3> QED
      BY <2>6, <3>1, <3>2, FireWakes
         DEF Contract!Next, Contract!Wake, Contract!Ripen, Contract!Wakes, Ripe
  <2>7. CASE OutsideNext
    BY <2>7, OutsideWakes
       DEF Contract!Next, Contract!Wake, Contract!Others, Contract!Wakes, Ripe
  <2>8. CASE UNCHANGED vars
    BY <2>8 DEF vars, envVars, leafVars, taskVars, pollVars, Contract!vars, Polling, Owed,
                AllWillWake, CanPoll, Ripe
  <2> QED
    BY <2>1, <2>2, <2>3, <2>4, <2>5, <2>6, <2>7, <2>8 DEF Next, PollStep
<1> QED BY <1>1, <1>2, Invariance, PTL DEF Spec, KeepsContract, Contract!Spec
=============================================================================
