----------------------------- MODULE LeafContract -----------------------------
(***************************************************************************)
(* The strictest future that is completed from outside: a poll checks and  *)
(* registers in one step, only the newest waker is kept, completion wakes  *)
(* that one, once and not earlier, and the answer of the completing poll   *)
(* is final.  The leaves of Branches may do all of this and more, as any   *)
(* future that keeps FutureContract.                                       *)
(***************************************************************************)
CONSTANTS Tasks, Outputs, None

VARIABLES
  fired,       \* what the future has completed with
  registered,  \* the waker it has stored
  asked,       \* the task of the last poll that answered Pending
  woken,       \* the task it has woken
  answer       \* what the poll that answered Ready said

vars == <<fired, registered, asked, woken, answer>>

Init == fired = None /\ registered = None /\ asked = None /\ woken = None /\ answer = None

Fire(v) ==
  /\ fired = None
  /\ fired' = v /\ woken' = registered /\ registered' = None
  /\ UNCHANGED <<asked, answer>>

PollPending(t) ==
  /\ fired = None
  /\ registered' = t /\ asked' = t
  /\ UNCHANGED <<fired, woken, answer>>

PollReady ==
  /\ fired # None /\ answer = None
  /\ answer' = fired
  /\ UNCHANGED <<fired, registered, asked, woken>>

Next == (\E v \in Outputs : Fire(v)) \/ (\E t \in Tasks : PollPending(t)) \/ PollReady

Spec == Init /\ [][Next]_vars
=============================================================================
