------------------------------- MODULE MCRace -------------------------------
(***************************************************************************)
(* Race checked by TLC, alone, against the promise of Completion and       *)
(* against the contract that every future has to keep.                     *)
(***************************************************************************)
EXTENDS Race

\* A result is the output of a leaf that has one, with that leaf's side.
Winners(f) ==
  {[side |-> Either(l), output |-> f[l]] : l \in {k \in Leaf : f[k] # None}}

Promise == INSTANCE Completion WITH Allowed <- Winners

(* race completes with the output of a leaf that has completed, on the     *)
(* right side, and does so as soon as one of the two leaves has.           *)
ImplementsCompletion == Promise!Spec

-----------------------------------------------------------------------------
Ripe == \E l \in Leaf : fired[l] # None

Contract == INSTANCE FutureContract WITH
  polling <- Polling, registered <- Owed, ready <- Ripe, answer <- result,
  panicked <- FALSE

(* race is itself a future that can be awaited: its Pending is answered    *)
(* only with a wake to come from both leaves, or with one already there    *)
(* because left completed while right was polled, and Ready comes once.    *)
KeepsContract == Contract!Spec
=============================================================================
