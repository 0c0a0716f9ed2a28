-------------------------------- MODULE Join --------------------------------
(***************************************************************************)
(* The join combinator of src/src/composition/join.rs: both branches are   *)
(* polled in every round, and both outputs are collected in the round that *)
(* finds them both there.                                                  *)
(***************************************************************************)
EXTENDS MaybeDone

ASSUME JoinAssumption == None \notin [Leaf -> Outputs]

VARIABLE branch  \* branch[l] is the MaybeDone around leaf l

vars == <<envVars, branch>>

Init == EnvInit /\ branch = [l \in Leaf |-> maybe_done]

\* The poll of one branch.
PollIn(l) ==
  \E n \in MaybeDones :
    PollMaybeDone(l, branch[l], n) /\ branch' = [branch EXCEPT ![l] = n]

\* Mutant: `a.poll().is_ready() && b.poll().is_ready()`.
PollAShortCircuiting ==
  /\ pc = "a" /\ PollIn("a")
  /\ PollGoesTo(IF branch'["a"] = Future THEN "decide" ELSE "b")

PollA ==
  /\ pc = "a" /\ PollIn("a")
  /\ PollGoesTo("b")

PollB ==
  /\ pc = "b" /\ PollIn("b")
  /\ PollGoesTo("decide")

NotYet ==
  /\ pc = "decide" /\ ~(PolledReady(branch["a"]) /\ PolledReady(branch["b"]))
  /\ PollPends
  /\ UNCHANGED <<leafVars, taskVars, branch>>

\* Mutant: b's output is taken into both places.
CollectBTwice ==
  /\ pc = "decide" /\ PolledReady(branch["a"]) /\ PolledReady(branch["b"])
  /\ PollCompletes([l \in Leaf |-> OutputMut(branch["b"])])
  /\ branch' = [l \in Leaf |-> AfterTake(branch[l])]
  /\ UNCHANGED <<leafVars, taskVars>>

Collect ==
  /\ pc = "decide" /\ PolledReady(branch["a"]) /\ PolledReady(branch["b"])
  /\ PollCompletes([l \in Leaf |-> OutputMut(branch[l])])
  /\ branch' = [l \in Leaf |-> AfterTake(branch[l])]
  /\ UNCHANGED <<leafVars, taskVars>>

PollStep == PollA \/ PollB \/ NotYet \/ Collect

Next ==
  \/ PollStep
  \/ PollBegin /\ UNCHANGED branch
  \/ (\E l \in Leaf, v \in Outputs : Fire(l, v)) /\ UNCHANGED branch
  \/ OutsideNext /\ UNCHANGED branch

(***************************************************************************)
(* A poll that has begun goes on, and the executor polls a task it has     *)
(* been asked to poll.  No leaf has to complete.                           *)
(***************************************************************************)
Fairness == WF_vars(PollStep) /\ WF_vars(PollBegin /\ UNCHANGED branch)

Spec == Init /\ [][Next]_vars /\ Fairness
-----------------------------------------------------------------------------
(* Every variable has its type; the result, once there, is a full pair.    *)
TypeOK ==
  /\ EnvTypeOK
  /\ branch \in [Leaf -> MaybeDones]
  /\ pc \in {"idle", "a", "b", "decide"}
  /\ result \in [Leaf -> Outputs] \cup {None}

(* An output is in exactly one place from the poll that takes it out of    *)
(* its leaf on: kept in its branch until the slower one is done, then in   *)
(* the result, on its own side.  Nothing is collected before both are, and *)
(* no round polls a leaf again that has returned Ready.                    *)
OutputsHeldOnce ==
  \A l \in Leaf :
    \/ branch[l] = Future /\ status[l] = "running" /\ result = None
    \/ branch[l] = Done(fired[l]) /\ status[l] = "ready" /\ result = None
    \/ branch[l] = Gone /\ status[l] = "ready" /\ result # None /\ result[l] = fired[l]
=============================================================================
