----------------------------- MODULE SharedState -----------------------------
(***************************************************************************)
(* The one-shot channel of src/src/waking/shared_state.rs: a Sender that   *)
(* hands over one value and a Receiver future that completes when the      *)
(* value arrives.  The two halves share a struct behind one Mutex and run  *)
(* on different threads, so every operation is split at the points where   *)
(* another thread can observe it: taking the lock, each access under it,   *)
(* releasing it, and the wake that follows the release.                    *)
(*                                                                         *)
(* The executor is not part of the crate.  It is modelled from what the    *)
(* code relies on: a task that is woken is polled again, also when the     *)
(* wake arrives in the middle of a poll, and polls of one future do not    *)
(* overlap (poll takes Pin<&mut Self>).                                    *)
(***************************************************************************)
EXTENDS Naturals

CONSTANTS
  Tasks,           \* the tasks that may hold the Receiver; a task is its waker
  Values,          \* the values a Sender may send
  None,            \* the None of the Options
  Closed,          \* the error a Receiver completes with after a hang-up
  InlineExecutor,  \* may wake() poll the task on the waking thread?
  WakersMayPanic,  \* may a waker's clone or drop, which are user code, panic?
  SenderTask       \* the task whose future owns the Sender until it is used,
                   \* or None for a Sender on a thread of its own

ASSUME ConstantsAssumption ==
  /\ None \notin Tasks \cup Values \cup {Closed}
  /\ Closed \notin Values
  /\ InlineExecutor \in BOOLEAN
  /\ WakersMayPanic \in BOOLEAN
  /\ SenderTask \in Tasks \cup {None}

VARIABLES
  value, waker, closed,  \* struct Shared
  lock, poisoned,        \* its Mutex: "free" or the thread holding it
  senderOp, senderPc,    \* what the Sender is doing and how far it got
  msg,                   \* the argument of send
  taken,                 \* the local waker of send and drop
  owner,                 \* the task that holds the Receiver, None once dropped
  pollPc, pollThread,    \* the poll in progress and the thread running it
  outcome,               \* what the Receiver completed with
  scheduled,             \* tasks with a wake the executor has still to serve
  registrant,            \* history: the task of the last poll to return Pending
  wakes                  \* history: how often the Sender woke a task

sharedVars   == <<value, waker, closed, poisoned>>
senderVars   == <<senderOp, senderPc, msg, taken>>
receiverVars == <<owner, pollPc, pollThread, outcome, registrant>>
vars == <<sharedVars, lock, senderVars, receiverVars, scheduled, wakes>>

Init ==  \* channel()
  /\ value = None /\ waker = None /\ closed = FALSE
  /\ lock = "free" /\ poisoned = FALSE
  /\ senderOp = "none" /\ senderPc = "idle" /\ msg = None /\ taken = None
  /\ owner \in Tasks
  /\ pollPc = "idle" /\ pollThread = "worker" /\ outcome = None
  /\ scheduled = {owner}
  /\ registrant = None /\ wakes = 0

(***************************************************************************)
(* A Sender dropped by the poll that released the last handle of its task  *)
(* runs on the polling thread; every other Sender runs on its own.         *)
(***************************************************************************)
SenderThread == IF pollPc = "replacing" THEN pollThread ELSE "sender"

-----------------------------------------------------------------------------
(* The Sender.  send takes self by value, so Drop::drop always follows it. *)

\* Mutant: the argument is dropped.
CallSendOfNothing(v) ==
  /\ senderOp = "none"
  /\ senderOp' = "send" /\ senderPc' = "lock"
  /\ UNCHANGED <<sharedVars, lock, msg, taken, receiverVars, scheduled, wakes>>

CallSend(v) ==
  /\ senderOp = "none"
  /\ senderOp' = "send" /\ senderPc' = "lock" /\ msg' = v
  /\ UNCHANGED <<sharedVars, lock, taken, receiverVars, scheduled, wakes>>

CallDrop ==
  /\ senderOp = "none"
  /\ senderOp' = "drop" /\ senderPc' = "lock"
  /\ UNCHANGED <<sharedVars, lock, msg, taken, receiverVars, scheduled, wakes>>

\* Mutant: a poisoned Mutex is entered (into_inner) instead of propagated.
SenderLockIgnoringPoison ==
  /\ senderPc = "lock" /\ lock = "free"
  /\ lock' = SenderThread /\ senderPc' = "store"
  /\ UNCHANGED <<sharedVars, senderOp, msg, taken, receiverVars, scheduled, wakes>>

SenderLock ==
  /\ senderPc = "lock" /\ lock = "free" /\ ~poisoned
  /\ lock' = SenderThread /\ senderPc' = "store"
  /\ UNCHANGED <<sharedVars, senderOp, msg, taken, receiverVars, scheduled, wakes>>

(***************************************************************************)
(* lock().expect() on a poisoned Mutex.  A panic in send unwinds through   *)
(* send's frame and drops self, which locks again; a panic while the       *)
(* thread is already unwinding aborts the process.                         *)
(***************************************************************************)
SenderPanic ==
  /\ senderPc = "lock" /\ lock = "free" /\ poisoned
  /\ \/ /\ senderOp = "send"
        /\ senderOp' = "unwind" /\ UNCHANGED senderPc
     \/ /\ senderOp = "drop"
        /\ senderOp' = "gone" /\ senderPc' = "idle"
     \/ /\ senderOp = "unwind"
        /\ senderOp' = "aborted" /\ senderPc' = "idle"
  /\ UNCHANGED <<sharedVars, lock, msg, taken, receiverVars, scheduled, wakes>>

StoreValue ==
  /\ senderPc = "store" /\ senderOp = "send"
  /\ value' = msg /\ senderPc' = "take"
  /\ UNCHANGED <<waker, closed, poisoned, lock, senderOp, msg, taken,
                 receiverVars, scheduled, wakes>>

StoreClosed ==
  /\ senderPc = "store" /\ senderOp = "drop"
  /\ closed' = TRUE /\ senderPc' = "take"
  /\ UNCHANGED <<value, waker, poisoned, lock, senderOp, msg, taken,
                 receiverVars, scheduled, wakes>>

\* Mutant: rule 4 broken, the guard lives until after the wake.
TakeWakerKeepingGuard ==
  /\ senderPc = "take"
  /\ taken' = waker /\ waker' = None
  /\ senderPc' = "wake"
  /\ UNCHANGED <<value, closed, poisoned, lock, senderOp, msg, receiverVars,
                 scheduled, wakes>>

\* shared.waker.take(), the last use of the guard: its block ends here.
TakeWaker ==
  /\ senderPc = "take"
  /\ taken' = waker /\ waker' = None
  /\ lock' = "free" /\ senderPc' = "wake"
  /\ UNCHANGED <<value, closed, poisoned, senderOp, msg, receiverVars,
                 scheduled, wakes>>

\* The end of send, where self is dropped, or of Drop::drop.
SenderReturns ==
  /\ senderOp' = IF senderOp = "send" THEN "drop" ELSE "gone"
  /\ senderPc' = IF senderOp = "send" THEN "lock" ELSE "idle"
  /\ taken' = None
  /\ UNCHANGED msg

NoOneToWake ==
  /\ senderPc = "wake" /\ taken = None
  /\ SenderReturns
  /\ UNCHANGED <<sharedVars, lock, receiverVars, scheduled, wakes>>

Wake ==
  /\ senderPc = "wake" /\ taken # None
  /\ scheduled' = scheduled \cup {taken} /\ wakes' = wakes + 1
  /\ SenderReturns
  /\ UNCHANGED <<sharedVars, lock, receiverVars>>

(***************************************************************************)
(* An executor that polls the woken task inside wake(): the Sender waits   *)
(* in wake() until that poll returns.                                      *)
(***************************************************************************)
WakeInline ==
  /\ InlineExecutor
  /\ senderPc = "wake" /\ taken # None /\ taken = owner
  /\ pollPc = "idle" /\ outcome = None
  /\ senderPc' = "inline" /\ wakes' = wakes + 1
  /\ pollPc' = "lock" /\ pollThread' = "sender"
  /\ UNCHANGED <<sharedVars, lock, senderOp, msg, taken, owner, outcome,
                 registrant, scheduled>>

InlineReturns ==
  /\ senderPc = "inline" /\ pollPc = "idle"
  /\ SenderReturns
  /\ UNCHANGED <<sharedVars, lock, receiverVars, scheduled, wakes>>

-----------------------------------------------------------------------------
(* The Receiver: Future::poll with the owner's waker in cx.                *)

CanPoll == owner # None /\ outcome = None /\ pollPc = "idle"

PollBegin ==
  /\ CanPoll /\ owner \in scheduled
  /\ scheduled' = scheduled \ {owner}
  /\ pollPc' = "lock" /\ pollThread' = "worker"
  /\ UNCHANGED <<sharedVars, lock, senderVars, owner, outcome, registrant, wakes>>

\* Mutant: rule 2 broken, poll checks and registers without the lock.
PollWithoutLock ==
  /\ pollPc = "lock"
  /\ pollPc' = "value"
  /\ UNCHANGED <<sharedVars, lock, senderVars, owner, pollThread, outcome,
                 registrant, scheduled, wakes>>

(***************************************************************************)
(* The expect() on this lock is never reached on a poisoned Mutex: see     *)
(* PoisonEndsTheChannel.                                                   *)
(***************************************************************************)
PollLock ==
  /\ pollPc = "lock" /\ lock = "free"
  /\ lock' = pollThread /\ pollPc' = "value"
  /\ UNCHANGED <<sharedVars, senderVars, owner, pollThread, outcome, registrant,
                 scheduled, wakes>>

\* poll returns and the guard is dropped.
PollReturns == pollPc' = "idle" /\ lock' = "free"

PollReady ==
  /\ pollPc = "value" /\ value # None
  /\ outcome' = value /\ value' = None
  /\ PollReturns
  /\ UNCHANGED <<waker, closed, poisoned, senderVars, owner, pollThread,
                 registrant, scheduled, wakes>>

\* Mutant: the hang-up is looked at before the value.
PollClosedBeforeValue ==
  /\ pollPc = "value" /\ (closed \/ value = None)
  /\ pollPc' = "closed"
  /\ UNCHANGED <<sharedVars, lock, senderVars, owner, pollThread, outcome,
                 registrant, scheduled, wakes>>

PollNoValue ==
  /\ pollPc = "value" /\ value = None
  /\ pollPc' = "closed"
  /\ UNCHANGED <<sharedVars, lock, senderVars, owner, pollThread, outcome,
                 registrant, scheduled, wakes>>

PollClosed ==
  /\ pollPc = "closed" /\ closed
  /\ outcome' = Closed
  /\ PollReturns
  /\ UNCHANGED <<sharedVars, senderVars, owner, pollThread, registrant,
                 scheduled, wakes>>

PollOpen ==
  /\ pollPc = "closed" /\ ~closed
  /\ pollPc' = "register"
  /\ UNCHANGED <<sharedVars, lock, senderVars, owner, pollThread, outcome,
                 registrant, scheduled, wakes>>

\* Mutant: rule 3 broken, a waker that is already stored is kept.
PollKeepsOldWaker ==
  /\ pollPc = "register"
  /\ waker' = (IF waker = None THEN owner ELSE waker) /\ registrant' = owner
  /\ PollReturns
  /\ UNCHANGED <<value, closed, poisoned, senderVars, owner, pollThread, outcome,
                 scheduled, wakes>>

\* will_wake only saves a clone: the stored waker ends up as cx's either way.
PollRegister ==
  /\ pollPc = "register"
  /\ waker' = owner /\ registrant' = owner
  /\ PollReturns
  /\ UNCHANGED <<value, closed, poisoned, senderVars, owner, pollThread, outcome,
                 scheduled, wakes>>

(***************************************************************************)
(* The clone of cx's waker, or the drop of the one it replaces, panics     *)
(* under the guard: the Mutex is poisoned and the unwinding task drops the *)
(* Receiver.  The executor contains the panic.                             *)
(***************************************************************************)
PollPanic ==
  /\ WakersMayPanic
  /\ pollPc = "register" /\ waker # owner
  /\ waker' \in {waker} \cup (IF waker = None THEN {} ELSE {owner})
  /\ poisoned' = TRUE /\ owner' = None
  /\ PollReturns
  /\ UNCHANGED <<value, closed, senderVars, pollThread, outcome, registrant,
                 scheduled, wakes>>

(***************************************************************************)
(* The replaced waker was the last handle of the task it belongs to (an    *)
(* executor whose parked tasks are kept alive by their wakers).  Dropping  *)
(* it drops that task's future and the unused Sender in it, on this thread *)
(* and under this guard.  The poll goes on when that Drop::drop returns,   *)
(* which needs the lock, so there is no step that ends "replacing".        *)
(***************************************************************************)
PollDropsSender ==
  /\ pollPc = "register"
  /\ senderOp = "none"
  /\ waker # None /\ waker = SenderTask /\ waker # owner /\ waker \notin scheduled
  /\ senderOp' = "drop" /\ senderPc' = "lock"
  /\ pollPc' = "replacing"
  /\ UNCHANGED <<sharedVars, lock, msg, taken, owner, pollThread, outcome,
                 registrant, scheduled, wakes>>

-----------------------------------------------------------------------------
(* What tasks and executor do with the Receiver between polls.             *)

\* The Receiver moves to another task, which polls it for the first time.
Migrate(t) ==
  /\ CanPoll /\ t # owner
  /\ owner' = t /\ scheduled' = scheduled \cup {t}
  /\ UNCHANGED <<sharedVars, lock, senderVars, pollPc, pollThread, outcome,
                 registrant, wakes>>

\* The Receiver is dropped before completion.  It has no Drop impl.
Cancel ==
  /\ CanPoll
  /\ owner' = None
  /\ UNCHANGED <<sharedVars, lock, senderVars, pollPc, pollThread, outcome,
                 registrant, scheduled, wakes>>

\* Something else in the owner's task, or the executor itself, wakes it.
OtherWake ==
  /\ owner # None /\ outcome = None
  /\ scheduled' = scheduled \cup {owner}
  /\ UNCHANGED <<sharedVars, lock, senderVars, receiverVars, wakes>>

\* A task that does not hold an unfinished Receiver runs.
OtherTaskRuns(t) ==
  /\ t \in scheduled /\ (t # owner \/ outcome # None)
  /\ scheduled' = scheduled \ {t}
  /\ UNCHANGED <<sharedVars, lock, senderVars, receiverVars, wakes>>

-----------------------------------------------------------------------------
SenderStep ==
  \/ SenderLock \/ SenderPanic \/ StoreValue \/ StoreClosed \/ TakeWaker
  \/ NoOneToWake \/ Wake \/ WakeInline \/ InlineReturns

PollStep ==
  \/ PollLock \/ PollReady \/ PollNoValue \/ PollClosed \/ PollOpen
  \/ PollRegister \/ PollPanic \/ PollDropsSender

Next ==
  /\ senderOp # "aborted"
  /\ \/ (\E v \in Values : CallSend(v)) \/ CallDrop \/ SenderStep
     \/ PollBegin \/ PollStep
     \/ (\E t \in Tasks : Migrate(t) \/ OtherTaskRuns(t))
     \/ Cancel \/ OtherWake

(***************************************************************************)
(* A thread inside send, drop or poll keeps running, and the executor      *)
(* polls a task it has been asked to poll.  Nobody has to use the Sender,  *)
(* move the Receiver or drop it.  The Mutex is not assumed to be fair.     *)
(***************************************************************************)
Fairness == WF_vars(SenderStep) /\ WF_vars(PollStep) /\ WF_vars(PollBegin)

Spec == Init /\ [][Next]_vars /\ Fairness

-----------------------------------------------------------------------------
(* Every variable has its type, and the fields that are None only in some  *)
(* states are None only there: a poll in progress belongs to a task, a     *)
(* send in progress has a value.                                           *)
TypeOK ==
  /\ value \in Values \cup {None}
  /\ waker \in Tasks \cup {None}
  /\ closed \in BOOLEAN /\ poisoned \in BOOLEAN
  /\ lock \in {"free", "sender", "worker"}
  /\ senderOp \in {"none", "send", "drop", "unwind", "gone", "aborted"}
  /\ senderPc \in {"idle", "lock", "store", "take", "wake", "inline"}
  /\ msg \in Values \cup {None} /\ (senderOp = "send" => msg \in Values)
  /\ taken \in Tasks \cup {None}
  /\ owner \in Tasks \cup {None} /\ (pollPc # "idle" => owner \in Tasks)
  /\ pollPc \in {"idle", "lock", "value", "closed", "register", "replacing"}
  /\ pollThread \in {"sender", "worker"}
  /\ outcome \in Values \cup {None, Closed}
  /\ scheduled \in SUBSET Tasks
  /\ registrant \in Tasks \cup {None}
  /\ wakes \in Nat

\* The owner waits: its last poll returned Pending and no wake is queued.
Parked == CanPoll /\ owner \notin scheduled

(* Rules 1, 2 and 3: no lost wakeup.  A parked owner can always be found   *)
(* by the Sender: its own waker, not one of an earlier task, is in the     *)
(* slot or has just been taken out to be woken.  In particular no value    *)
(* and no hang-up is in place that nobody will tell it about.              *)
NoLostWakeup ==
  Parked =>
    \/ waker = owner /\ ((value = None /\ ~closed) \/ senderPc = "take")
    \/ taken = owner /\ senderPc = "wake"

(* The value wins over the close: an unpoisoned Receiver that reports      *)
(* Closed had a Sender that was dropped unused, although every send is     *)
(* followed by the drop that closes the channel.  What it reports as Ok is *)
(* what was sent, delivered once: it is no longer in the slot.             *)
OutcomeIsWhatWasSent ==
  /\ outcome = Closed => msg = None
  /\ outcome \in Values => outcome = msg /\ value = None

(* Rule 4: no thread waits for the lock it holds, neither the thread that  *)
(* polls the woken task inside wake() nor the one that drops a Sender.     *)
NoSelfDeadlock ==
  /\ senderPc = "lock" => lock # SenderThread
  /\ pollPc = "lock" => lock # pollThread

(* A panic that poisons the Mutex ends the channel: the Receiver went with *)
(* it, so only the Sender's expect() can fail, and the Sender never stores *)
(* a value or a hang-up that nobody would take.                            *)
PoisonEndsTheChannel ==
  poisoned => pollPc = "idle" /\ owner = None /\ value = None /\ ~closed

(* However the threads interleave, send and the drop that follows it wake  *)
(* one task between them, once, and it is the task of the last poll to     *)
(* return Pending: a superseded waker is never woken.                      *)
WakesTheLastRegistrantOnce ==
  [][wakes' # wakes => /\ wakes = 0 /\ taken = registrant
                       /\ taken \in scheduled' \/ pollPc' = "lock"]_vars

(* A poisoned lock is propagated as a panic; it does not abort the         *)
(* process (the comment on Sender::lock).                                  *)
PoisonPropagates == senderOp # "aborted"

(* The stored waker is that of a task that waits on the value (the         *)
(* comment on the field waker): the Receiver still exists.                 *)
WakerIsOfAWaiter == waker # None => owner # None
=============================================================================
