--------------------------- MODULE SharedStateInv ---------------------------
(***************************************************************************)
(* The inductive invariant of SharedState, in named parts: who holds the   *)
(* Mutex, what a poll has learnt under it, what has become of the value,   *)
(* and whose waker is where.                                               *)
(***************************************************************************)
EXTENDS SharedState

\* The Sender, and the poll, between taking the lock and releasing it.
SenderLocked == senderPc \in {"store", "take"}
PollLocked   == pollPc \in {"value", "closed", "register", "replacing"}

\* The Mutex excludes: it is held by the one side that is inside, on its thread.
LockInv ==
  /\ lock = "free" <=> ~SenderLocked /\ ~PollLocked
  /\ SenderLocked => lock = "sender" /\ ~PollLocked
  /\ PollLocked => lock = pollThread

\* Where the operations of the Sender and an inline poll can be.
ControlInv ==
  /\ senderOp \in {"none", "gone", "aborted"} <=> senderPc = "idle"
  /\ senderOp = "unwind" => senderPc = "lock" /\ poisoned
  /\ pollPc # "idle" /\ pollThread = "sender" => senderPc = "inline"
  /\ pollPc = "replacing" => SenderTask # None /\ senderPc = "lock"
  /\ pollPc # "idle" => outcome = None
  /\ poisoned => pollPc = "idle" /\ owner = None /\ ~SenderLocked

\* send has put its value into the slot; the drop that follows comes later.
Stored ==
  \/ senderOp = "send" /\ senderPc \in {"take", "wake", "inline"}
  \/ senderOp \in {"drop", "gone"} /\ msg # None

\* The value is in the slot or delivered, and a close comes after it.
DataInv ==
  /\ senderOp = "none" => msg = None
  /\ Stored => value = msg \/ (outcome = msg /\ value = None)
  /\ ~Stored => value = None /\ outcome \notin Values
  /\ senderOp = "drop" /\ senderPc \in {"take", "wake", "inline"} => closed
  /\ closed => \/ senderOp = "gone"
               \/ senderOp = "drop" /\ senderPc \in {"take", "wake", "inline"}
  /\ outcome = Closed => closed /\ msg = None
  /\ outcome \in Values => value = None
  /\ poisoned => value = None /\ ~closed

\* What poll has found absent under the lock is still absent.
ReadInv ==
  /\ pollPc \in {"closed", "register", "replacing"} => value = None
  /\ pollPc \in {"register", "replacing"} => ~closed

\* A stored or taken waker is that of the last registrant; none is stored or
\* taken once it has been woken.
WakeInv ==
  /\ waker # None /\ ~poisoned => waker = registrant /\ wakes = 0
  /\ taken # None /\ senderPc = "wake" => taken = registrant /\ wakes = 0 /\ waker = None
  /\ wakes # 0 => Stored \/ closed
  /\ taken # None => senderPc \in {"wake", "inline"}
  /\ waker # None /\ (Stored \/ closed) => senderPc = "take"

\* The critical section that completes the channel: send's, or the drop of a
\* Sender that was not used.
FirstTake == senderPc = "take" /\ (senderOp = "send" \/ msg = None)

\* It finds the Receiver without an outcome and nobody woken; the drop after a
\* send finds no waker.
TakeInv ==
  /\ FirstTake => outcome = None /\ wakes = 0 /\ (senderOp = "send" => value = msg)
  /\ senderPc = "take" /\ ~FirstTake => waker = None

IInv ==
  /\ TypeOK /\ LockInv /\ ControlInv /\ DataInv /\ ReadInv /\ WakeInv /\ TakeInv
  /\ NoLostWakeup
=============================================================================
