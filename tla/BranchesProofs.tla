---------------------------- MODULE BranchesProofs ----------------------------
(***************************************************************************)
(* What every two-branch combinator keeps of its environment, for any sets *)
(* of tasks and outputs: the part of their inductive invariants that is    *)
(* about wakers, and how leaves, tasks and other threads preserve it; and  *)
(* what one poll of a MaybeDone does to its leaf and to itself.            *)
(***************************************************************************)
EXTENDS MaybeDone, TLAPS

\* The leaves that the poll under way, or else the last one, has come to.
Asked ==
  IF pc = "a" THEN {}
  ELSE IF pc \in {"check a", "b"} THEN {"a"}
  ELSE Leaf

\* A leaf still running is to wake the owner and no other, or has done so.
Watched(l) ==
  status[l] = "running" =>
    \/ fired[l] = None /\ registered[l] = owner
    \/ registered[l] = None /\ owner \in scheduled

(***************************************************************************)
(* NoLostWakeup speaks of a parked owner; a poll makes it true branch by   *)
(* branch, while leaves complete, so the invariant speaks of both.         *)
(***************************************************************************)
WakeInv ==
  /\ result = None => \/ pc = "idle" /\ owner \in scheduled
                      \/ \A l \in Asked : Watched(l)
  /\ Parked => \E l \in Leaf : status[l] = "running"

\* A poll is under way only until there is a result.
PollInv == pc # "idle" => result = None

-----------------------------------------------------------------------------
(* WakeInv is what makes a parked owner safe from a lost wakeup.           *)
LEMMA NoWakeIsLost ==
  ASSUME WakeInv PROVE NoLostWakeup
BY DEF WakeInv, NoLostWakeup, Parked, CanPoll, Asked, Watched, Leaf

(* Whichever leaves are live, the owner is scheduled for its first poll.   *)
LEMMA EnvStarts ==
  ASSUME NEW live \in SUBSET Leaf, EnvInitWith(live)
  PROVE  EnvTypeOK /\ WakeInv /\ PollInv
BY DEF EnvInitWith, EnvTypeOK, WakeInv, PollInv, Parked, CanPoll, Leaf

(* What happens around the polls completes no leaf and ends no wait.       *)
LEMMA OutsideChanges ==
  ASSUME OutsideNext PROVE UNCHANGED <<fired, status, pollVars>>
BY DEF OutsideNext, Migrate, OtherTaskRuns, OtherWake, WakeEarly, leafVars

(* A leaf that completes on another thread wakes the task it knows; only a *)
(* leaf that the poll is about to ask may do without.                      *)
LEMMA FireKeeps ==
  ASSUME EnvTypeOK, WakeInv, PollInv, NEW l \in Leaf, NEW v \in Outputs, Fire(l, v)
  PROVE  EnvTypeOK' /\ WakeInv' /\ PollInv'
<1> USE BranchesAssumption DEF EnvTypeOK, Fire, leafVars, pollVars
<1>1. EnvTypeOK' /\ PollInv' /\ Asked' = Asked
  BY DEF PollInv, Asked
<1>2. ASSUME NEW k \in Asked, Watched(k) PROVE Watched(k)'
  <2>1. k \in Leaf
    BY DEF Asked, Leaf
  <2>2. CASE k = l
    <3>1. pc # l
      BY <1>2, <2>2 DEF Asked, Leaf
    <3> QED
      BY <1>2, <2>2, <3>1 DEF Watched
  <2>3. CASE k # l
    BY <1>2, <2>1, <2>3 DEF Watched
  <2> QED BY <2>2, <2>3
<1>3. WakeInv'
  BY <1>1, <1>2 DEF WakeInv, Parked, CanPoll
<1> QED BY <1>1, <1>3

(* A leaf that wakes early has done all it is watched for.                 *)
LEMMA WakeEarlyKeeps ==
  ASSUME EnvTypeOK, WakeInv, PollInv, NEW l \in Leaf, WakeEarly(l)
  PROVE  EnvTypeOK' /\ WakeInv' /\ PollInv'
<1> USE BranchesAssumption DEF EnvTypeOK, WakeEarly, pollVars
<1>1. EnvTypeOK' /\ PollInv' /\ Asked' = Asked
  BY DEF PollInv, Asked
<1>2. ASSUME NEW k \in Asked, Watched(k) PROVE Watched(k)'
  <2>1. k \in Leaf
    BY DEF Asked, Leaf
  <2>2. CASE k = l
    BY <1>2, <2>2 DEF Watched
  <2>3. CASE k # l
    BY <1>2, <2>1, <2>3 DEF Watched
  <2> QED BY <2>2, <2>3
<1>3. WakeInv'
  BY <1>1, <1>2 DEF WakeInv, Parked, CanPoll
<1> QED BY <1>1, <1>3

(* Nothing that happens around the polls loses the owner's wake.           *)
LEMMA OutsideNextKeeps ==
  ASSUME EnvTypeOK, WakeInv, PollInv, OutsideNext
  PROVE  EnvTypeOK' /\ WakeInv' /\ PollInv'
<1> USE DEF EnvTypeOK, leafVars, pollVars, WakeInv, PollInv, Parked, CanPoll, Asked, Watched
<1>1. ASSUME NEW t \in Tasks, Migrate(t) PROVE EnvTypeOK' /\ WakeInv' /\ PollInv'
  BY <1>1 DEF Migrate
<1>2. ASSUME NEW t \in Tasks, OtherTaskRuns(t) PROVE EnvTypeOK' /\ WakeInv' /\ PollInv'
  BY <1>2 DEF OtherTaskRuns
<1>3. CASE OtherWake
  BY <1>3 DEF OtherWake
<1> QED BY <1>1, <1>2, <1>3, WakeEarlyKeeps DEF OutsideNext

(* A poll that begins takes the wake it answers and has asked nobody yet.  *)
LEMMA BeginKeeps ==
  ASSUME EnvTypeOK, PollBegin
  PROVE  EnvTypeOK' /\ WakeInv' /\ PollInv'
BY DEF EnvTypeOK, PollBegin, CanPoll, leafVars, WakeInv, PollInv, Parked, Asked

(* A leaf that answers Ready needs no watching, and disturbs no other.     *)
LEMMA ReadyKeeps ==
  ASSUME EnvTypeOK, NEW l \in Leaf, LeafReady(l), UNCHANGED seen
  PROVE  EnvTypeOK' /\ Watched(l)' /\ \A k \in Leaf : Watched(k) => Watched(k)'
BY DEF EnvTypeOK, LeafReady, taskVars, Watched

(* A leaf that answers Pending holds the waker of the task that asked.     *)
LEMMA PendingKeeps ==
  ASSUME EnvTypeOK, NEW l \in Leaf, LeafPending(l), UNCHANGED seen
  PROVE  EnvTypeOK' /\ Watched(l)' /\ \A k \in Leaf : Watched(k) => Watched(k)'
BY DEF EnvTypeOK, LeafPending, taskVars, Watched

-----------------------------------------------------------------------------
\* What a poll saw completed when it began stays completed.
SeenInv == \A l \in seen : fired[l] # None

(* Nothing outside a poll makes it forget what it saw.                     *)
LEMMA SeenKeeps ==
  ASSUME EnvTypeOK, SeenInv,
         \/ PollBegin \/ OutsideNext
         \/ \E l \in Leaf, v \in Outputs : Fire(l, v)
         \/ UNCHANGED <<fired, seen>>
  PROVE  SeenInv'
<1> USE DEF EnvTypeOK, SeenInv, leafVars, pollVars
<1>1. CASE PollBegin
  BY <1>1 DEF PollBegin
<1>2. CASE OutsideNext
  BY <1>2, OutsideChanges
<1>3. ASSUME NEW l \in Leaf, NEW v \in Outputs, Fire(l, v) PROVE SeenInv'
  BY <1>3, BranchesAssumption DEF Fire
<1> QED BY <1>1, <1>2, <1>3

-----------------------------------------------------------------------------
\* The output of l is where it belongs before anybody has taken it.
Held(l, m) ==
  \/ m = Future /\ status[l] = "running"
  \/ m = Done(fired[l]) /\ status[l] = "ready"

(* The three variants differ, and output_mut finds what Done holds.        *)
LEMMA Variants ==
  /\ Future # Gone /\ ~IsDone(Future) /\ ~IsDone(Gone)
  /\ AfterTake(Future) = Future /\ AfterTake(Gone) = Gone
  /\ \A v : /\ Done(v) # Future /\ Done(v) # Gone /\ IsDone(Done(v))
            /\ OutputMut(Done(v)) = v /\ AfterTake(Done(v)) = Gone
            /\ Done(v) \in MaybeDones <=> v \in Outputs
BY DEF Future, Gone, Done, IsDone, OutputMut, AfterTake, MaybeDones

(* A leaf that has been polled to completion has completed for good.       *)
LEMMA HeldHasFired ==
  ASSUME NEW l \in Leaf, NEW m \in MaybeDones, Held(l, m), m # Future
  PROVE  m = Done(fired[l]) /\ fired[l] \in Outputs
<1>1. m = Done(fired[l])
  BY DEF Held
<1> QED BY <1>1, Variants

(* One poll keeps the output in one place, leaves the leaf watched unless  *)
(* it is done, and disturbs nothing of the other leaf.                     *)
LEMMA PollKeeps ==
  ASSUME EnvTypeOK, NEW l \in Leaf, NEW m \in MaybeDones, NEW n,
         Held(l, m), PollMaybeDone(l, m, n), UNCHANGED seen
  PROVE  /\ EnvTypeOK' /\ n \in MaybeDones /\ Held(l, n)'
         /\ UNCHANGED <<fired, scheduled>> /\ (n = Future => fired[l] = None)
         /\ Watched(l)' /\ \A k \in Leaf : Watched(k) => Watched(k)'
         /\ \A k \in Leaf \ {l} : status'[k] = status[k]
<1>1. CASE m = Future /\ LeafReady(l) /\ n = Done(fired[l])
  <2>1. EnvTypeOK' /\ Watched(l)' /\ \A k \in Leaf : Watched(k) => Watched(k)'
    BY <1>1, ReadyKeeps
  <2>2. status[l] = "running"
    BY <1>1, Variants DEF Held
  <2>3. /\ fired[l] \in Outputs /\ UNCHANGED <<fired, scheduled>>
        /\ status' = [status EXCEPT ![l] = "ready"]
    BY <1>1, <2>2 DEF LeafReady, EnvTypeOK, taskVars
  <2>4. n \in MaybeDones /\ n # Future /\ Held(l, n)'
    BY <1>1, <2>3, Variants DEF Held, EnvTypeOK
  <2> QED
    BY <2>1, <2>3, <2>4 DEF EnvTypeOK
<1>2. CASE m = Future /\ LeafPending(l) /\ n = m
  <2>1. EnvTypeOK' /\ Watched(l)' /\ \A k \in Leaf : Watched(k) => Watched(k)'
    BY <1>2, PendingKeeps
  <2> QED
    BY <1>2, <2>1 DEF LeafPending, Held, taskVars
<1>3. CASE IsDone(m) /\ UNCHANGED <<leafVars, taskVars>> /\ n = m
  <2>1. m # Future
    BY <1>3, Variants
  <2> QED
    BY <1>3, <2>1 DEF leafVars, taskVars, EnvTypeOK, Held, Watched
<1> QED BY <1>1, <1>2, <1>3 DEF PollMaybeDone

(* A leaf that completes elsewhere disturbs no output that is held.        *)
LEMMA FireHolds ==
  ASSUME EnvTypeOK, NEW l \in Leaf, NEW v \in Outputs, Fire(l, v),
         NEW k \in Leaf, NEW m \in MaybeDones, Held(k, m)
  PROVE  Held(k, m)'
<1>1. CASE m = Future
  BY <1>1, Variants DEF Held, Fire
<1>2. CASE m # Future
  <2>1. k # l
    BY <1>2, HeldHasFired, BranchesAssumption DEF Fire
  <2> QED
    BY <2>1 DEF Held, Fire, EnvTypeOK
<1> QED BY <1>1, <1>2

-----------------------------------------------------------------------------
(* What the combinators share of the proofs that they keep FutureContract. *)

LEMMA OwedBy ==
  ASSUME NEW t \in Tasks, CanPoll, AllWillWake(t)
  PROVE  Owed = t
BY DEF Owed, AllWillWake

(* Where a wake is owed every leaf still running is pending and can do it. *)
LEMMA OwedMeans ==
  ASSUME Owed # None
  PROVE  CanPoll /\ Owed \in Tasks /\ AllWillWake(Owed)
BY DEF Owed

(* Nothing is owed before the first poll.                                  *)
LEMMA OwesNothingAtFirst ==
  ASSUME EnvInit PROVE Polling = None /\ Owed = None /\ result = None
BY BranchesAssumption DEF EnvInit, EnvInitWith, Polling, Owed, AllWillWake

(* A step of a poll that is neither its first nor its last shows nothing.  *)
LEMMA PollGoesOn ==
  ASSUME pc # "idle", pc' # "idle", UNCHANGED owner
  PROVE  UNCHANGED <<Polling, Owed>>
BY DEF Polling, Owed, CanPoll

LEMMA PollIsBegun ==
  ASSUME EnvTypeOK, PollBegin
  PROVE  /\ Polling = None /\ Polling' = owner /\ owner \in Tasks /\ Owed' = None
         /\ result = None /\ result' = None /\ UNCHANGED fired
BY DEF EnvTypeOK, PollBegin, CanPoll, Polling, Owed, leafVars

\* The last poll has answered Pending, to the task that still holds the leaves.
Pended ==
  /\ EnvTypeOK /\ WakeInv /\ pc = "idle" /\ result = None
  /\ \E l \in Leaf : status[l] = "running" /\ Watched(l)

\* That task has a wake to come from every leaf that runs, or one already there.
Honest ==
  /\ Polling = None
  /\ (AllWillWake(owner) /\ Owed = owner) \/ (owner \in scheduled /\ Owed = None)

LEMMA PendingIsHonest == Pended => Honest
<1> SUFFICES ASSUME Pended PROVE Honest
  OBVIOUS
<1> USE DEF Pended, Honest
<1>1. CanPoll /\ owner \in Tasks /\ Polling = None
  BY DEF CanPoll, Polling, EnvTypeOK
<1>2. CASE Owed # None
  <2>1. Owed = owner
    BY <1>2, OwedMeans, BranchesAssumption DEF AllWillWake, Watched
  <2> QED
    BY <1>1, <1>2, <2>1, OwedMeans
<1>3. CASE Owed = None
  <2>1. ~AllWillWake(owner)
    BY <1>1, <1>3, OwedBy, BranchesAssumption
  <2>2. owner \in scheduled
    BY <1>1, <2>1, NoWakeIsLost DEF NoLostWakeup, Parked, AllWillWake
  <2> QED
    BY <1>1, <1>3, <2>2
<1> QED BY <1>2, <1>3

(* A poll that ends in Pending has kept its promise when it returns.       *)
LEMMA PendsHonestly == Pended' => Honest'
BY PendingIsHonest, PTL

(* A leaf that completes under a waiting task wakes it, and once.          *)
LEMMA FireWakes ==
  ASSUME EnvTypeOK, NEW l \in Leaf, NEW v \in Outputs, Fire(l, v),
         CanPoll => status[l] = "running"
  PROVE  /\ Owed' = None /\ (Owed # None => Owed \in scheduled')
         /\ UNCHANGED <<Polling, result>>
         /\ \A k \in Leaf : fired[k] # None => fired'[k] = fired[k]
<1>1. Owed' = None
  BY BranchesAssumption DEF Owed, AllWillWake, Fire, CanPoll, EnvTypeOK, pollVars
<1>2. ASSUME Owed # None PROVE Owed \in scheduled'
  <2>1. CanPoll /\ Owed \in Tasks /\ registered[l] = Owed
    BY <1>2, OwedMeans DEF AllWillWake
  <2>2. pc # l
    BY <2>1 DEF CanPoll, Leaf
  <2> QED
    BY <2>1, <2>2, BranchesAssumption DEF Fire
<1> QED BY <1>1, <1>2 DEF Fire, Polling, pollVars, EnvTypeOK

(* Around the polls a wait is ended by a wake and by nothing else.         *)
LEMMA OutsideWakes ==
  ASSUME EnvTypeOK, OutsideNext
  PROVE  /\ \/ Owed' = None /\ (Owed # None => Owed \in scheduled')
            \/ UNCHANGED Owed
         /\ UNCHANGED <<Polling, result, fired>>
<1>1. UNCHANGED <<fired, status, pollVars>>
  BY OutsideChanges
<1>2. UNCHANGED Polling
  BY <1>1 DEF OutsideNext, Migrate, OtherTaskRuns, OtherWake, WakeEarly, CanPoll, Polling, pollVars
<1>3. CASE UNCHANGED registered
  BY <1>1, <1>2, <1>3 DEF Owed, AllWillWake, CanPoll, pollVars
<1>4. ASSUME NEW l \in Leaf, WakeEarly(l), status[l] = "running"
      PROVE  Owed' = None /\ (Owed # None => Owed \in scheduled')
  <2>1. registered'[l] = None /\ registered[l] \in scheduled'
    BY <1>4 DEF WakeEarly, EnvTypeOK
  <2>2. Owed' = None
    BY <1>1, <1>4, <2>1, BranchesAssumption DEF Owed, AllWillWake
  <2> QED
    BY <1>4, <2>1, <2>2, OwedMeans DEF AllWillWake
<1>5. ASSUME NEW l \in Leaf, WakeEarly(l), status[l] # "running"
      PROVE  UNCHANGED Owed
  <2>1. \A t \in Tasks : AllWillWake(t)' <=> AllWillWake(t)
    BY <1>1, <1>5 DEF AllWillWake, WakeEarly, EnvTypeOK
  <2> QED
    BY <1>1, <2>1 DEF Owed, CanPoll, pollVars
<1>6. UNCHANGED registered \/ \E l \in Leaf : WakeEarly(l)
  BY DEF OutsideNext, Migrate, OtherTaskRuns, OtherWake, leafVars
<1> QED BY <1>1, <1>2, <1>3, <1>4, <1>5, <1>6 DEF pollVars
=============================================================================
