------------------------------ MODULE Branches ------------------------------
(***************************************************************************)
(* What the two-branch combinators run on: two leaf futures that complete  *)
(* from outside, the task that polls the combinator and its executor.      *)
(* Other threads act between the polls of the two branches.                *)
(*                                                                         *)
(* A leaf is any future that keeps FutureContract, in few steps: a poll is *)
(* one step, and what happens during it happens just before or after.      *)
(* Receiver (SharedState) is one that never wakes early.  Like basic::     *)
(* ready a leaf must not be polled again once it has returned Ready.       *)
(* Only the panics that the contract allows are left out.                  *)
(***************************************************************************)
CONSTANTS
  Tasks,    \* the tasks that may hold the combinator; a task is its waker
  Outputs,  \* what a leaf may complete with
  None

ASSUME BranchesAssumption == None \notin Tasks \cup Outputs

Leaf == {"a", "b"}  \* a is polled first: left of Race, value of Timeout

VARIABLES
  fired,       \* what a leaf has completed with, taken by its poll or not
  registered,  \* the waker a leaf has stored
  status,      \* "running", then "ready" once a poll has returned Ready,
               \* "repolled" if it was polled after that
  owner,       \* the task that holds the combinator
  scheduled,   \* tasks with a wake the executor has still to serve
  pc,          \* "idle", or where the poll of the combinator is
  result,      \* what the combinator completed with
  seen         \* history: the leaves completed when the last poll began

leafVars == <<fired, registered, status>>
taskVars == <<owner, scheduled>>
pollVars == <<pc, result, seen>>
envVars  == <<leafVars, taskVars, pollVars>>

\* A leaf that is not live has completed before.
EnvInitWith(live) ==
  /\ fired = [l \in Leaf |-> None]
  /\ registered = [l \in Leaf |-> None]
  /\ status = [l \in Leaf |-> IF l \in live THEN "running" ELSE "ready"]
  /\ owner \in Tasks /\ scheduled = {owner}
  /\ pc = "idle" /\ result = None /\ seen = {}

EnvInit == EnvInitWith(Leaf)

-----------------------------------------------------------------------------
(* A leaf.                                                                 *)

\* Only while it is being polled may a leaf complete without a wake.
Fire(l, v) ==
  /\ fired[l] = None
  /\ fired' = [fired EXCEPT ![l] = v]
  /\ registered' = [registered EXCEPT ![l] = None]
  /\ \/ scheduled' = scheduled \cup ({registered[l]} \ {None})
     \/ pc = l /\ UNCHANGED scheduled
  /\ UNCHANGED <<status, owner, pollVars>>

\* A leaf that has not completed asks to be polled: it has made progress.
WakeEarly(l) ==
  /\ registered[l] # None
  /\ registered' = [registered EXCEPT ![l] = None]
  /\ scheduled' = scheduled \cup {registered[l]}
  /\ UNCHANGED <<fired, status, owner, pollVars>>

LeafReady(l) ==
  /\ fired[l] # None
  /\ status' = [status EXCEPT ![l] = IF @ = "running" THEN "ready" ELSE "repolled"]
  /\ UNCHANGED <<fired, registered, taskVars>>

LeafPending(l) ==
  /\ fired[l] = None
  /\ registered' = [registered EXCEPT ![l] = owner]
  /\ UNCHANGED <<fired, status, taskVars>>

-----------------------------------------------------------------------------
(* The executor and the task that holds the combinator.                    *)

CanPoll == pc = "idle" /\ result = None

PollBegin ==
  /\ CanPoll /\ owner \in scheduled
  /\ scheduled' = scheduled \ {owner}
  /\ pc' = "a" /\ seen' = {l \in Leaf : fired[l] # None}
  /\ UNCHANGED <<leafVars, owner, result>>

\* Poll::Pending.
PollPends == pc' = "idle" /\ UNCHANGED <<result, seen>>

\* Poll::Ready(r).
PollCompletes(r) == pc' = "idle" /\ result' = r /\ UNCHANGED seen

PollGoesTo(where) == pc' = where /\ UNCHANGED <<result, seen>>

\* The combinator moves to another task, which polls it for the first time.
Migrate(t) ==
  /\ CanPoll /\ t # owner
  /\ owner' = t /\ scheduled' = scheduled \cup {t}
  /\ UNCHANGED <<leafVars, pollVars>>

\* Something else in the owner's task, or the executor itself, wakes it.
OtherWake ==
  /\ result = None
  /\ scheduled' = scheduled \cup {owner}
  /\ UNCHANGED <<leafVars, owner, pollVars>>

\* A task that does not hold an unfinished combinator runs.
OtherTaskRuns(t) ==
  /\ t \in scheduled /\ (t # owner \/ result # None)
  /\ scheduled' = scheduled \ {t}
  /\ UNCHANGED <<leafVars, owner, pollVars>>

OutsideNext ==
  \/ \E t \in Tasks : Migrate(t) \/ OtherTaskRuns(t)
  \/ \E l \in Leaf : WakeEarly(l)
  \/ OtherWake

-----------------------------------------------------------------------------
EnvTypeOK ==
  /\ fired \in [Leaf -> Outputs \cup {None}]
  /\ registered \in [Leaf -> Tasks \cup {None}]
  /\ status \in [Leaf -> {"running", "ready", "repolled"}]
  /\ owner \in Tasks /\ scheduled \in SUBSET Tasks
  /\ seen \in SUBSET Leaf

\* The owner waits: its last poll returned Pending and no wake is queued.
Parked == CanPoll /\ owner \notin scheduled

(* A parked owner waits for at least one leaf, and every leaf it waits for *)
(* holds the owner's waker: no completed leaf goes unnoticed, no leaf was  *)
(* left unpolled, and no leaf still holds the waker of an earlier task.    *)
NoLostWakeup ==
  Parked => /\ \E l \in Leaf : status[l] = "running"
            /\ \A l \in Leaf : status[l] = "running" =>
                 fired[l] = None /\ registered[l] = owner

-----------------------------------------------------------------------------
(* The combinator as a future, for FutureContract.                         *)

Polling == IF pc = "idle" THEN None ELSE owner

\* Every leaf the last poll left pending is still to wake t.
AllWillWake(t) ==
  /\ \E l \in Leaf : status[l] = "running"
  /\ \A l \in Leaf : status[l] = "running" => fired[l] = None /\ registered[l] = t

\* The task that is owed a wake.  The first leaf to wake it settles that.
Owed ==
  IF CanPoll /\ \E t \in Tasks : AllWillWake(t)
  THEN CHOOSE t \in Tasks : AllWillWake(t) ELSE None

(* A leaf that has returned Ready is never polled again, which the Future  *)
(* contract forbids and basic::ready answers with a panic.  It is a lemma  *)
(* of the proofs of join and timeout; a race ends with its first Ready.    *)
NeverRepolled == \A l \in Leaf : status[l] # "repolled"
=============================================================================
