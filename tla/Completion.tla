----------------------------- MODULE Completion -----------------------------
(***************************************************************************)
(* What a two-branch combinator promises, with no poll, waker or task in   *)
(* it: it completes once, with a result that what its leaves have          *)
(* completed with allows, and it does complete when there is one.          *)
(***************************************************************************)
CONSTANTS
  Leaf, Outputs, None,
  Allowed(_)  \* the results for what each leaf has completed with so far

VARIABLES fired, result

vars == <<fired, result>>

Init == fired = [l \in Leaf |-> None] /\ result = None

Fire(l, v) ==
  /\ fired[l] = None
  /\ fired' = [fired EXCEPT ![l] = v]
  /\ UNCHANGED result

Complete ==
  /\ result = None
  /\ result' \in Allowed(fired)
  /\ UNCHANGED fired

Next == (\E l \in Leaf, v \in Outputs : Fire(l, v)) \/ Complete

Spec == Init /\ [][Next]_vars /\ WF_vars(Complete)
=============================================================================
