------------------------------- MODULE OneShot -------------------------------
(***************************************************************************)
(* What the one-shot channel promises, with no lock, waker or thread in    *)
(* it: at most one value is handed over, the Sender hangs up at most once, *)
(* and a Receiver that is not dropped is eventually told, the value first. *)
(***************************************************************************)
CONSTANTS Values, None, Closed, Cancelled

VARIABLES handed, hungUp, outcome

vars == <<handed, hungUp, outcome>>

Init == handed = None /\ hungUp = FALSE /\ outcome = None

Hand(v) ==
  /\ handed = None /\ ~hungUp
  /\ handed' = v /\ UNCHANGED <<hungUp, outcome>>

HangUp ==
  /\ ~hungUp
  /\ hungUp' = TRUE /\ UNCHANGED <<handed, outcome>>

Deliver ==
  /\ outcome = None /\ handed # None
  /\ outcome' = handed /\ UNCHANGED <<handed, hungUp>>

DeliverClosed ==
  /\ outcome = None /\ handed = None /\ hungUp
  /\ outcome' = Closed /\ UNCHANGED <<handed, hungUp>>

Cancel ==
  /\ outcome = None
  /\ outcome' = Cancelled /\ UNCHANGED <<handed, hungUp>>

Next == (\E v \in Values : Hand(v)) \/ HangUp \/ Deliver \/ DeliverClosed \/ Cancel

Spec == Init /\ [][Next]_vars /\ WF_vars(Deliver \/ DeliverClosed)
=============================================================================
