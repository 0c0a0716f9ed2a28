------------------------------- MODULE TryJoin -------------------------------
(***************************************************************************)
(* The try_join combinator of src/src/composition/try_join.rs: like join,  *)
(* but the first error found ends it and abandons the other branch.        *)
(***************************************************************************)
EXTENDS MaybeDone

CONSTANT Errs  \* the outputs that are an Err; the others are an Ok

ASSUME ErrsAssumption ==
  /\ Errs \subseteq Outputs
  /\ None \notin [err : Errs] \cup [ok : [Leaf -> Outputs \ Errs]]

VARIABLE branch  \* branch[l] is the MaybeDone around leaf l

vars == <<envVars, branch>>

Init == EnvInit /\ branch = [l \in Leaf |-> maybe_done]

IsErr(m) == IsDone(m) /\ m.output \in Errs

After(l) == IF l = "a" THEN "b" ELSE "decide"

\* Mutant: both branches are polled before either is checked, b's error first.
CheckLate(l) == IF l = "a" THEN "b" ELSE "check b"

Check(l) == IF l = "a" THEN "check a" ELSE "check b"

\* The poll of one branch.
PollIn(l) ==
  \E n \in MaybeDones :
    PollMaybeDone(l, branch[l], n) /\ branch' = [branch EXCEPT ![l] = n]

\* Mutant: the first branch alone is polled and checked while it is pending.
PollBranchShortCircuiting(l) ==
  /\ pc = l /\ PollIn(l)
  /\ PollGoesTo(IF branch'[l] = Future THEN "decide" ELSE Check(l))

PollBranch(l) ==
  /\ pc = l /\ PollIn(l)
  /\ PollGoesTo(Check(l))

\* take_error finds an Err: the poll returns it and leaves the rest as it is.
TakeError(l) ==
  /\ pc = Check(l) /\ IsErr(branch[l])
  /\ PollCompletes([err |-> OutputMut(branch[l])])
  /\ branch' = [branch EXCEPT ![l] = AfterTake(@)]
  /\ UNCHANGED <<leafVars, taskVars>>

\* Mutant: take_error takes the output before it looks at it.
TakeOkToo(l) ==
  /\ pc = Check(l) /\ ~IsErr(branch[l])
  /\ PollGoesTo(After(l))
  /\ branch' = [branch EXCEPT ![l] = AfterTake(@)]
  /\ UNCHANGED <<leafVars, taskVars>>

\* take_error finds none, and leaves an Ok where it is.
NoError(l) ==
  /\ pc = Check(l) /\ ~IsErr(branch[l])
  /\ PollGoesTo(After(l))
  /\ UNCHANGED <<leafVars, taskVars, branch>>

NotYet ==
  /\ pc = "decide" /\ ~(PolledReady(branch["a"]) /\ PolledReady(branch["b"]))
  /\ PollPends
  /\ UNCHANGED <<leafVars, taskVars, branch>>

Collect ==
  /\ pc = "decide" /\ PolledReady(branch["a"]) /\ PolledReady(branch["b"])
  /\ PollCompletes([ok |-> [l \in Leaf |-> OutputMut(branch[l])]])
  /\ branch' = [l \in Leaf |-> AfterTake(branch[l])]
  /\ UNCHANGED <<leafVars, taskVars>>

PollStep ==
  \/ \E l \in Leaf : PollBranch(l) \/ TakeError(l) \/ NoError(l)
  \/ NotYet \/ Collect

Next ==
  \/ PollStep
  \/ PollBegin /\ UNCHANGED branch
  \/ (\E l \in Leaf, v \in Outputs : Fire(l, v)) /\ UNCHANGED branch
  \/ OutsideNext /\ UNCHANGED branch

\* As for Join: only a poll that is due or under way is driven on.
Fairness == WF_vars(PollStep) /\ WF_vars(PollBegin /\ UNCHANGED branch)

Spec == Init /\ [][Next]_vars /\ Fairness

-----------------------------------------------------------------------------
(* Every variable has its type.                                            *)
TypeOK ==
  /\ EnvTypeOK
  /\ branch \in [Leaf -> MaybeDones]
  /\ pc \in {"idle", "a", "check a", "b", "check b", "decide"}
  /\ result \in {None} \cup [err : Errs] \cup [ok : [Leaf -> Outputs \ Errs]]

Failed == result \in [err : Errs]

(* An output is in exactly one place: an Ok stays in its branch until both *)
(* are there or the other branch has failed, and no error outlives the     *)
(* poll that found it other than as the result.                            *)
OutputsHeldOnce ==
  /\ \A l \in Leaf :
       \/ branch[l] = Future /\ status[l] = "running"
       \/ branch[l] = Done(fired[l]) /\ status[l] = "ready"
       \/ /\ branch[l] = Gone /\ status[l] = "ready" /\ result # None
          /\ fired[l] = IF Failed THEN result.err ELSE result.ok[l]
  /\ pc = "idle" => \A l \in Leaf : ~IsErr(branch[l])

(* Error bias: when both branches fail on one poll a's error is returned,  *)
(* so b's never beats an error a had before the poll began; and once a has *)
(* failed b is not polled on that round.                                   *)
ErrorBias ==
  /\ (branch["b"] = Gone /\ branch["a"] # Gone) =>
       ~("a" \in seen /\ fired["a"] \in Errs)
  /\ (branch["a"] = Gone /\ Failed) =>
       ~(status["b"] = "ready" /\ fired["b"] \in Errs)
=============================================================================
