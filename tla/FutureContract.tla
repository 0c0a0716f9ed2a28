---------------------------- MODULE FutureContract ----------------------------
(***************************************************************************)
(* What a future promises the task that polls it, whatever it is made of:  *)
(* `Pending` means that the task of this poll will be woken when polling   *)
(* again is worthwhile, or has been already; `Ready` comes once, and only  *)
(* when there is an output.  A poll takes time: other threads act between  *)
(* its first and its last step.                                            *)
(***************************************************************************)
CONSTANTS Tasks, None

VARIABLES
  polling,     \* the task whose poll is under way
  registered,  \* the task that was told Pending and that a wake is owed to
  ready,       \* a poll that begins now would find an output
  answer,      \* the output of the poll that answered Ready
  panicked,    \* a poll has panicked, which is the end of the future
  scheduled    \* tasks with a wake to serve; others add to it and take from it

vars == <<polling, registered, ready, answer, panicked, scheduled>>

Init ==
  /\ polling = None /\ registered = None
  /\ ready \in BOOLEAN /\ answer = None /\ panicked = FALSE

\* The future wakes the task it owes a wake, if any.
Wakes == registered' = None /\ (registered # None => registered \in scheduled')

\* Early, which is allowed.
Wake == Wakes /\ UNCHANGED <<polling, ready, answer, panicked>>

Ripen ==
  /\ ~ready /\ ready'
  /\ Wakes /\ UNCHANGED <<polling, answer, panicked>>

-----------------------------------------------------------------------------
(* A poll: its first step, and how it may end.                             *)

\* Only the waker of the newest poll counts, so no other task is owed a wake.
Begin(t) ==
  /\ polling = None /\ answer = None /\ ~panicked
  /\ polling' = t /\ registered' = None
  /\ UNCHANGED <<ready, answer, panicked>>

Pends(t) ==
  /\ polling = t /\ polling' = None
  /\ \/ ~ready /\ registered' = t
     \/ t \in scheduled' /\ registered' = None
  /\ UNCHANGED <<ready, answer, panicked>>

Completes(t) ==
  /\ polling = t /\ polling' = None
  /\ ready /\ answer' # None
  /\ registered' = None
  /\ UNCHANGED <<ready, panicked>>

Panics(t) ==
  /\ polling = t /\ polling' = None
  /\ panicked' /\ registered' = None
  /\ UNCHANGED <<ready, answer>>

-----------------------------------------------------------------------------
\* The executor and everybody else.
Others == UNCHANGED <<polling, registered, ready, answer, panicked>>

Next ==
  \/ Wake \/ Ripen \/ Others
  \/ \E t \in Tasks : Begin(t) \/ Pends(t) \/ Completes(t) \/ Panics(t)

Spec == Init /\ [][Next]_vars
=============================================================================
