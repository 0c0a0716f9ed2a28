------------------------------ MODULE MCTryJoin ------------------------------
(***************************************************************************)
(* TryJoin checked by TLC, alone, against the promise of Completion and    *)
(* against the contract that every future has to keep.                     *)
(***************************************************************************)
EXTENDS TryJoin

\* One error is enough for a result; without one it takes both outputs.
BothOrError(f) ==
  {[err |-> f[l]] : l \in {k \in Leaf : f[k] \in Errs}} \cup
  (IF \A l \in Leaf : f[l] \in Outputs \ Errs THEN {[ok |-> f]} ELSE {})

Promise == INSTANCE Completion WITH Allowed <- BothOrError

(* try_join fails fast: it completes with the error of a leaf that failed, *)
(* whatever the other leaf does, and with both values otherwise.           *)
ImplementsCompletion == Promise!Spec

-----------------------------------------------------------------------------
Ripe ==
  \/ \E l \in Leaf : fired[l] \in Errs
  \/ \A l \in Leaf : fired[l] # None

Contract == INSTANCE FutureContract WITH
  polling <- Polling, registered <- Owed, ready <- Ripe, answer <- result,
  panicked <- FALSE

(* try_join is itself a future that can be awaited: a task it has answered *)
(* Pending is woken when a branch completes, so that a failure is noticed  *)
(* at once, and Ready comes once, with both values or an error there.      *)
KeepsContract == Contract!Spec
=============================================================================
