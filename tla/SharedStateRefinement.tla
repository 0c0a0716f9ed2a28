------------------------ MODULE SharedStateRefinement ------------------------
(***************************************************************************)
(* The channel of SharedState seen as the hand-over of OneShot.            *)
(*                                                                         *)
(* A value is handed over when it is put in the slot and stays so when     *)
(* poll takes it out; the Sender has hung up when closed is set; a dropped *)
(* Receiver has the outcome "cancelled".                                   *)
(***************************************************************************)
EXTENDS SharedStateInv

handedOver == IF outcome \in Values THEN outcome ELSE value

finalOutcome == IF outcome = None /\ owner = None THEN "cancelled" ELSE outcome

Channel == INSTANCE OneShot WITH
  Cancelled <- "cancelled",
  handed <- handedOver,
  hungUp <- closed,
  outcome <- finalOutcome

(* The channel implements OneShot, its liveness included: whatever the     *)
(* threads and the executor do, the Receiver sees at most one value, sees  *)
(* it even if the Sender has hung up by then, and is told of a value or a  *)
(* hang-up in the shared state unless it is dropped.                       *)
ImplementsOneShot == Channel!Spec

-----------------------------------------------------------------------------
\* The Receiver has completed once the Sender has looked for a waker to wake.
completedWith ==
  IF outcome # None THEN outcome
  ELSE IF value # None /\ ~(senderOp = "send" /\ senderPc = "take") THEN value
  ELSE IF value = None /\ closed /\ senderPc # "take" THEN Closed
  ELSE None

\* A waker whose registration panicked is not registered.
registeredWaker == IF poisoned /\ waker # None THEN registrant ELSE waker

\* A wake counts from the moment its waker has been taken out.
wokenTask ==
  IF senderPc = "wake" /\ taken # None THEN taken
  ELSE IF wakes # 0 THEN registrant
  ELSE None

Contract == INSTANCE LeafContract WITH
  Outputs <- Values \cup {Closed},
  fired <- completedWith,
  registered <- registeredWaker,
  asked <- registrant,
  woken <- wokenTask,
  answer <- outcome

(* The Receiver checks and registers as if in one step, and the Sender     *)
(* completes and wakes as if in one: between the lock of a poll and the    *)
(* wake after the unlock of a send nothing comes in that these two steps   *)
(* would not have allowed, whichever thread does what in between.          *)
ImplementsLeaf == Contract!Spec

-----------------------------------------------------------------------------
\* The task whose waker is stored, or taken out and not yet woken.
toWake ==
  IF waker # None THEN waker
  ELSE IF senderPc = "wake" THEN taken
  ELSE None

owedTask ==
  IF pollPc = "idle" /\ outcome = None /\ ~poisoned THEN toWake ELSE None

Told == waker = None /\ (taken # None => senderPc \notin {"wake", "inline"})

\* There is an output once the waiting task is told, or a poll has the lock.
outputIsThere ==
  \/ outcome # None
  \/ (value # None \/ closed) /\ (Told \/ PollLocked)

AnyFuture == INSTANCE FutureContract WITH
  polling <- IF pollPc = "idle" THEN None ELSE owner,
  registered <- owedTask,
  ready <- outputIsThere,
  answer <- outcome,
  panicked <- poisoned

(* The Receiver keeps the contract of a future: the task of a poll that    *)
(* answered Pending is woken before a value or a hang-up counts as there,  *)
(* unless a later poll has replaced it, although the Sender stores first   *)
(* and wakes only after it has let go of the lock.                         *)
KeepsContract == AnyFuture!Spec
=============================================================================
