------------------------------ MODULE MaybeDone ------------------------------
(***************************************************************************)
(* The three-state wrapper of src/src/state_machine/maybe_done.rs, around  *)
(* one of the two leaves of Branches.  The combinator that has it keeps    *)
(* it; these are its values and how a poll takes one to the next.          *)
(***************************************************************************)
EXTENDS Branches

\* The variants of the enum.
Future       == [variant |-> "Future"]
Done(output) == [variant |-> "Done", output |-> output]
Gone         == [variant |-> "Gone"]

MaybeDones == {Future, Gone} \cup {Done(v) : v \in Outputs}

maybe_done == Future

IsDone(m) == m.variant = "Done"

\* output_mut, of which every caller in the crate only reads.
OutputMut(m) == IF IsDone(m) THEN m.output ELSE None

\* What take_output returns is OutputMut(m), what it leaves behind is this.
AfterTake(m) == IF IsDone(m) THEN Gone ELSE m

\* Mutant: a poll in Done is forwarded to the finished leaf.
PollMaybeDoneForwarding(l, m, n) ==
  \/ m # Gone /\ LeafReady(l) /\ n = Done(fired[l])
  \/ m = Future /\ LeafPending(l) /\ n = m

(***************************************************************************)
(* Future::poll of m, which is around l, leaves n.  In Gone it panics; no  *)
(* combinator polls a branch it has taken the output of (OutputsHeldOnce), *)
(* so there is no step for it.                                             *)
(***************************************************************************)
PollMaybeDone(l, m, n) ==
  \/ m = Future /\ LeafReady(l) /\ n = Done(fired[l])
  \/ m = Future /\ LeafPending(l) /\ n = m
  \/ IsDone(m) /\ UNCHANGED <<leafVars, taskVars>> /\ n = m

\* The result of the poll that left m: is_ready().
PolledReady(m) == m # Future
=============================================================================
