-------------------------------- MODULE Fuse --------------------------------
(***************************************************************************)
(* Two futures behind the Fuse of src/src/composition/fuse.rs, driven by   *)
(* the loop Fuse exists for (fuse.rs tests, a_loop_can_skip_a_terminated_  *)
(* branch): every round polls the branches that are not terminated, hands  *)
(* on each output as it appears, and the loop ends when both are done.     *)
(***************************************************************************)
EXTENDS Branches, Sequences

Items == [branch : Leaf, output : Outputs]

ASSUME FuseAssumption == None \notin Seq(Items)

VARIABLES
  live,      \* the branches made by fuse(); the others by Fuse::terminated()
  inner,     \* inner[l]: "Some" while the Fuse holds its future, then "None"
  delivered  \* what the loop was handed, in order, each with its branch

fuseVars == <<live, inner, delivered>>
vars == <<envVars, fuseVars>>

\* fuse(future), or Fuse::terminated() for a branch that is not live.
Init ==
  /\ live \in SUBSET Leaf
  /\ EnvInitWith(live)
  /\ inner = [l \in Leaf |-> IF l \in live THEN "Some" ELSE "None"]
  /\ delivered = <<>>

After(l) == IF l = "a" THEN "b" ELSE "decide"

\* Mutant: never terminated, which a loop would answer by polling forever.
is_terminated_never(l) == FALSE

is_terminated(l) == inner[l] = "None"

-----------------------------------------------------------------------------
(* Fuse::poll.                                                             *)

\* Mutant: the slot keeps the future that has completed.
FuseReadyKeepingInner(l) ==
  /\ pc = l /\ inner[l] = "Some" /\ LeafReady(l)
  /\ delivered' = Append(delivered, [branch |-> l, output |-> fired[l]])
  /\ PollGoesTo(After(l)) /\ UNCHANGED <<live, inner>>

FuseReady(l) ==
  /\ pc = l /\ inner[l] = "Some" /\ LeafReady(l)
  /\ inner' = [inner EXCEPT ![l] = "None"]
  /\ delivered' = Append(delivered, [branch |-> l, output |-> fired[l]])
  /\ PollGoesTo(After(l)) /\ UNCHANGED live

FusePending(l) ==
  /\ pc = l /\ inner[l] = "Some" /\ LeafPending(l)
  /\ PollGoesTo(After(l)) /\ UNCHANGED fuseVars

\* Pending without a waker.  A loop that asks skips the branch: all the same.
FuseTerminated(l) ==
  /\ pc = l /\ inner[l] = "None"
  /\ PollGoesTo(After(l)) /\ UNCHANGED <<leafVars, taskVars, fuseVars>>

-----------------------------------------------------------------------------
(* The loop.                                                               *)

LoopGoesOn ==
  /\ pc = "decide" /\ \E l \in Leaf : ~is_terminated(l)
  /\ PollPends
  /\ UNCHANGED <<leafVars, taskVars, fuseVars>>

LoopEnds ==
  /\ pc = "decide" /\ \A l \in Leaf : is_terminated(l)
  /\ PollCompletes(delivered)
  /\ UNCHANGED <<leafVars, taskVars, fuseVars>>

PollStep ==
  \/ \E l \in Leaf : FuseReady(l) \/ FusePending(l) \/ FuseTerminated(l)
  \/ LoopGoesOn \/ LoopEnds

Next ==
  \/ PollStep
  \/ PollBegin /\ UNCHANGED fuseVars
  \/ (\E l \in Leaf, v \in Outputs : Fire(l, v)) /\ UNCHANGED fuseVars
  \/ OutsideNext /\ UNCHANGED fuseVars

\* As for Join: only a poll that is due or under way is driven on.
Fairness == WF_vars(PollStep) /\ WF_vars(PollBegin /\ UNCHANGED fuseVars)

Spec == Init /\ [][Next]_vars /\ Fairness

-----------------------------------------------------------------------------
(* Every variable has its type.                                            *)
TypeOK ==
  /\ EnvTypeOK
  /\ pc \in {"idle", "a", "b", "decide"}
  /\ live \in SUBSET Leaf /\ inner \in [Leaf -> {"Some", "None"}]
  /\ delivered \in Seq(Items)
  /\ result \in {None, delivered}

Handed(l) == {i \in DOMAIN delivered : delivered[i].branch = l}

(* Each output is handed on once, unchanged, by the poll that completes    *)
(* its leaf, and a branch falls silent exactly then: an output is neither  *)
(* kept behind nor delivered again, however often the branch is polled,    *)
(* and the finished leaf is never polled again.                            *)
DeliveredOnce ==
  \A l \in Leaf :
    /\ status[l] = IF is_terminated(l) THEN "ready" ELSE "running"
    /\ \A i \in Handed(l) : delivered[i].output = fired[l]
    /\ IF l \in live /\ is_terminated(l) THEN \E i \in Handed(l) : Handed(l) = {i}
       ELSE Handed(l) = {}

(* A loop of two live branches ends once both leaves have completed: the   *)
(* Pending of a terminated branch, which registers no waker, never leaves  *)
(* the loop parked with nobody to wake it.                                 *)
LoopCompletes ==
  (\A l \in Leaf : fired[l] # None) ~> (result # None)
=============================================================================
