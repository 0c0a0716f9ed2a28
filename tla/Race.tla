-------------------------------- MODULE Race --------------------------------
(***************************************************************************)
(* The race combinator of src/src/composition/race.rs: left (leaf a) is    *)
(* polled first, right (leaf b) only if left is pending, and the first     *)
(* Ready is the result.                                                    *)
(***************************************************************************)
EXTENDS Branches

ASSUME RaceAssumption == None \notin [side : {"Left", "Right"}, output : Outputs]

vars == envVars

Init == EnvInit

Either(l) == IF l = "a" THEN "Left" ELSE "Right"
After(l)  == IF l = "a" THEN "b" ELSE "idle"

\* Mutant: right is skipped while left is pending.
PendsOnLeftAlone(l) ==
  /\ pc = l /\ LeafPending(l)
  /\ PollPends

\* The branch is pending: on to the next one, after the last Poll::Pending.
Pends(l) ==
  /\ pc = l /\ LeafPending(l)
  /\ PollGoesTo(After(l))

\* Mutant: the side is that of the last branch, whichever was ready.
WinsAsRight(l) ==
  /\ pc = l /\ LeafReady(l)
  /\ PollCompletes([side |-> "Right", output |-> fired[l]])

\* Mutant: the result of a ready left is kept only once right was polled.
WinsAfterBoth(l) ==
  /\ pc = l /\ LeafReady(l)
  /\ IF l = "a" THEN PollGoesTo("b")
     ELSE PollCompletes([side |-> "Right", output |-> fired[l]])

Wins(l) ==
  /\ pc = l /\ LeafReady(l)
  /\ PollCompletes([side |-> Either(l), output |-> fired[l]])

PollStep == \E l \in Leaf : Pends(l) \/ Wins(l)

Next ==
  \/ PollStep \/ PollBegin
  \/ \E l \in Leaf, v \in Outputs : Fire(l, v)
  \/ OutsideNext

\* As for Join: only a poll that is due or under way is driven on.
Fairness == WF_vars(PollStep) /\ WF_vars(PollBegin)

Spec == Init /\ [][Next]_vars /\ Fairness

-----------------------------------------------------------------------------
(* Every variable has its type.                                            *)
TypeOK ==
  /\ EnvTypeOK
  /\ pc \in {"idle", "a", "b"}
  /\ result \in {None} \cup [side : {"Left", "Right"}, output : Outputs]

(* Left bias: right wins only a poll that began before left was ready, and *)
(* a winning left leaves right's output where it is.                       *)
LeftBias ==
  result # None =>
    IF result.side = "Right" THEN "a" \notin seen ELSE status["b"] = "running"
=============================================================================
