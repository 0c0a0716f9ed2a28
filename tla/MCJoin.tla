------------------------------- MODULE MCJoin -------------------------------
(***************************************************************************)
(* Join checked by TLC, alone, against the promise of Completion and       *)
(* against the contract that every future has to keep.                     *)
(***************************************************************************)
EXTENDS Join

\* A result needs both outputs and is the pair of them.
Both(f) == IF \E l \in Leaf : f[l] = None THEN {} ELSE {f}

Promise == INSTANCE Completion WITH Allowed <- Both

(* join completes with both outputs, on their own sides, and only then; it *)
(* does complete once both leaves have, in whatever order and on whichever *)
(* task.                                                                   *)
ImplementsCompletion == Promise!Spec

-----------------------------------------------------------------------------
Ripe == \A l \in Leaf : fired[l] # None

Contract == INSTANCE FutureContract WITH
  polling <- Polling, registered <- Owed, ready <- Ripe, answer <- result,
  panicked <- FALSE

(* join is itself a future that can be awaited: every Pending it answers   *)
(* is followed by a wake of the task that was told so, though the leaves   *)
(* complete between the polls of the two branches, and it answers Ready    *)
(* once, with both outputs there.                                          *)
KeepsContract == Contract!Spec
=============================================================================
