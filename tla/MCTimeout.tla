------------------------------ MODULE MCTimeout ------------------------------
(***************************************************************************)
(* Timeout checked by TLC, alone, against the promise of Completion and    *)
(* against the contract that every future has to keep.                     *)
(***************************************************************************)
EXTENDS Timeout

\* The value's output as Ok, or Elapsed as Err once the timer has fired.
InTimeOrElapsed(f) ==
  (IF f["a"] = None THEN {} ELSE {[ok |-> f["a"]]}) \cup
  (IF f["b"] = None THEN {} ELSE {[err |-> Elapsed]})

Promise == INSTANCE Completion WITH Allowed <- InTimeOrElapsed

(* timeout completes with the value's own output or with Elapsed, and only *)
(* when the value is there or the timer has fired.                         *)
ImplementsCompletion == Promise!Spec

-----------------------------------------------------------------------------
Ripe == \E l \in Leaf : fired[l] # None

Contract == INSTANCE FutureContract WITH
  polling <- Polling, registered <- Owed, ready <- Ripe, answer <- result,
  panicked <- FALSE

(* timeout is itself a future that can be awaited: after a Pending the     *)
(* value and the timer are both to wake the task, unless it has been woken *)
(* already, which is how it answers when the value has spent the budget.   *)
KeepsContract == Contract!Spec
=============================================================================
