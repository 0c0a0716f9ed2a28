------------------------------- MODULE Timeout -------------------------------
(***************************************************************************)
(* The timeout of src/src/time/timeout.rs: a value (leaf a) raced against  *)
(* a Sleep (leaf b), the value polled first.  The clock, the Sleep and the *)
(* cooperative budget belong to tokio and are modelled from what the       *)
(* module's comments say the code relies on.                               *)
(***************************************************************************)
EXTENDS Branches, Naturals

CONSTANTS
  Elapsed,    \* the output of the Sleep and the error of a timeout
  MaxTime,    \* bound: the clock stops here
  MaxDrains   \* bound: how often the value exhausts the budget of a poll

ASSUME TimeoutAssumption ==
  /\ Elapsed \in Outputs /\ MaxTime \in Nat /\ MaxDrains \in Nat
  /\ None \notin [ok : Outputs] \cup [err : {Elapsed}]

VARIABLES
  now, deadline,
  drains   \* how often the budget was exhausted

clockVars == <<now, deadline>>
vars == <<envVars, clockVars, drains>>

\* timeout() and timeout_at(): the deadline may have passed already.
Init ==
  /\ EnvInit
  /\ now = 0 /\ deadline \in 0 .. MaxTime
  /\ drains = 0

-----------------------------------------------------------------------------
(* The outside: the clock, the value and tokio's timer.                    *)

Tick ==
  /\ now < MaxTime
  /\ now' = now + 1
  /\ UNCHANGED <<envVars, deadline, drains>>

ValueCompletes ==
  /\ \E v \in Outputs \ {Elapsed} : Fire("a", v)
  /\ UNCHANGED <<clockVars, drains>>

TimerFires ==
  /\ now >= deadline /\ Fire("b", Elapsed)
  /\ UNCHANGED <<clockVars, drains>>

-----------------------------------------------------------------------------
(* poll.                                                                   *)

\* Mutant: the clock is asked, and a value that came late is refused.
PollValueReadyInTime ==
  /\ pc = "a" /\ LeafReady("a")
  /\ PollCompletes(IF now >= deadline THEN [err |-> Elapsed] ELSE [ok |-> fired["a"]])
  /\ UNCHANGED <<clockVars, drains>>

PollValueReady ==
  /\ pc = "a" /\ LeafReady("a")
  /\ PollCompletes([ok |-> fired["a"]])
  /\ UNCHANGED <<clockVars, drains>>

\* Mutant: the poll ends here and the Sleep never learns of the task.
PollValueAlone ==
  /\ pc = "a" /\ LeafPending("a")
  /\ PollPends
  /\ UNCHANGED <<clockVars, drains>>

PollValuePending ==
  /\ pc = "a" /\ LeafPending("a")
  /\ PollGoesTo("b")
  /\ UNCHANGED <<clockVars, drains>>

PollDelayReady ==
  /\ pc = "b" /\ LeafReady("b")
  /\ PollCompletes([err |-> Elapsed])
  /\ UNCHANGED <<clockVars, drains>>

\* Mutant: the error is returned without asking the Sleep.
PollDelayImpatient ==
  /\ pc = "b" /\ LeafPending("b")
  /\ PollCompletes([err |-> Elapsed])
  /\ UNCHANGED <<clockVars, drains>>

PollDelayPending ==
  /\ pc = "b" /\ LeafPending("b")
  /\ PollPends
  /\ UNCHANGED <<clockVars, drains>>

(***************************************************************************)
(* The value has exhausted the task's budget: the Sleep returns Pending    *)
(* whatever the time is, and tokio polls the task again soon.              *)
(***************************************************************************)
PollDelayOutOfBudget ==
  /\ pc = "b" /\ drains < MaxDrains
  /\ drains' = drains + 1 /\ scheduled' = scheduled \cup {owner}
  /\ PollPends
  /\ UNCHANGED <<leafVars, owner, clockVars>>

PollStep ==
  \/ PollValueReady \/ PollValuePending
  \/ PollDelayReady \/ PollDelayPending \/ PollDelayOutOfBudget

Begin == PollBegin /\ UNCHANGED <<clockVars, drains>>

Next ==
  \/ Tick \/ ValueCompletes \/ TimerFires
  \/ Begin \/ PollStep
  \/ OutsideNext /\ UNCHANGED <<clockVars, drains>>

(***************************************************************************)
(* A poll that is due or under way is driven on, time passes, and tokio    *)
(* fires a timer that is due.  The value need never complete.              *)
(***************************************************************************)
Fairness ==
  /\ WF_vars(PollStep) /\ WF_vars(Begin)
  /\ WF_vars(Tick) /\ WF_vars(TimerFires)

Spec == Init /\ [][Next]_vars /\ Fairness

-----------------------------------------------------------------------------
(* Every variable has its type.                                            *)
TypeOK ==
  /\ EnvTypeOK
  /\ pc \in {"idle", "a", "b"}
  /\ result \in {None} \cup [ok : Outputs \ {Elapsed}] \cup [err : {Elapsed}]
  /\ now \in 0 .. MaxTime /\ deadline \in 0 .. MaxTime
  /\ drains \in 0 .. MaxDrains

(* No spurious timeout: an Elapsed is never reported before the deadline,  *)
(* nor when the value was there before the poll that reports it began.     *)
NoSpuriousTimeout ==
  result = [err |-> Elapsed] => now >= deadline /\ "a" \notin seen

(* The promise of a time limit: even around a value that never completes,  *)
(* even if the task moves, wakes are spurious or the budget runs out       *)
(* finitely often, the timeout completes.                                  *)
AlwaysCompletes == <>(result # None)
=============================================================================
