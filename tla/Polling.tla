------------------------------- MODULE Polling -------------------------------
(***************************************************************************)
(* Who polls the futures of Futures.  By hand, as the crate's tests do     *)
(* with poll_once: at any time, after completion too, and in between the   *)
(* holder may move the future or take it apart, as far as the types let    *)
(* it.  Or an executor with one thread and a queue: it polls a task that   *)
(* was woken, when its turn comes, and shares the thread with a task that  *)
(* does nothing but `loop { yield_now().await }`.                          *)
(***************************************************************************)
EXTENDS Futures

CONSTANTS
  Fut,       \* the values of the futures' types: whatever they may become
  Depth(_),  \* how deep a future nests
  Given,     \* the futures the driver may be given
  MaxPolls   \* bound on the polls of one future by hand

-----------------------------------------------------------------------------
(* Poll, and what can be said of a future from what it holds.  These are   *)
(* functions on Fut, which has what lies in a future as well.              *)

Poll[f \in Fut] ==
  CASE Holds(f)    -> PollWrapper(f, Poll[f.inner])
    [] Branches(f) -> PollBranches(f, Poll[f.a], Poll[f.b])
    [] OTHER       -> PollLeaf(f)

\* f, and every future that lies somewhere in f.
Within[f \in Fut] == {f} \cup UNION {Within[g] : g \in PartsOf(f)}

\* Mutant: `impl<F> Unpin for Structural<F> {}`, and so for every wrapper.
UnpinByHand(f) == ~PinnedItself(f)

(***************************************************************************)
(* Whether f may be moved after it was pinned: a wrapper whose pin reaches *)
(* what it holds is Unpin when that is; Ready and NotStructural never pin  *)
(* their value.                                                            *)
(***************************************************************************)
Unpin(f) == \A g \in Within[f] : ~PinnedItself(g)

(***************************************************************************)
(* poll_until_ready of testing.rs with so many turns of its loop left: the *)
(* output and the number of the turn that brought it, or the panic of a    *)
(* poll or of the helper itself.                                           *)
(***************************************************************************)
Turns[left \in Nat] ==
  [f \in Fut |->
    IF left = 0 THEN Panic
    ELSE LET p    == Poll[f]
             rest == Turns[left - 1][p.next]
         IN CASE IsReady(p) -> [output |-> p.answer.value, polls |-> 1]
              [] p.answer = Pending /\ rest # Panic -> [rest EXCEPT !.polls = @ + 1]
              [] OTHER -> Panic]

\* Mutant: `1..max_polls`.
PollUntilReadyShort(f, max) == IF max = 0 THEN Panic ELSE Turns[max - 1][f]

PollUntilReady(f, max) == Turns[max][f]

\* Somewhere in f lies an async block that has started and borrows from itself.
NeedsItsPlace(f) == \E g \in Within[f] : g.kind = "Async" /\ g.started /\ g.inner # None

\* A MaybeDone that is not a branch of a join or try_join has not completed.
Fresh(f) == f.kind = "MaybeDone" => f.variant = "Future"

\* g has not given up what it moves out on completion, no error waits in it, and
\* nothing in it has completed without its completing too.
Unspent(g) ==
  /\ g.kind \in {"Ready", "NotStructural"} => g.value # None
  /\ g.kind = "Map" => g.fn # None
  /\ g.kind = "Async" => g.inner # None
  /\ g.kind = "MaybeDone" => g.variant # "Gone"
  /\ g.kind = "TryJoin" => ~FindsError(g.a) /\ ~FindsError(g.b)
  /\ g.kind \notin {"Join", "TryJoin"} => \A h \in PartsOf(g) : Fresh(h)

\* f has not completed.
Live(f) == Fresh(f) /\ \A g \in Within[f] : Unspent(g)

-----------------------------------------------------------------------------
ASSUME PollingAssumption ==
  /\ MaxPolls \in Nat
  /\ None \notin Fut
  /\ \A f \in Fut :
       /\ WellFormed(f) /\ Depth(f) \in Nat
       /\ \A g \in PartsOf(f) : g \in Fut /\ Depth(g) < Depth(f)
       \* &mut self leaves a value of the same type.
       /\ Poll[f].next \in Fut
       /\ f.kind = "MaybeDone" => take_output(f) \in Fut
       /\ f.kind = "Option" => clear(f) \in Fut
  \* They are given before the first poll.
  /\ \A f \in Given : f \in Fut /\ Live(f) /\ ~NeedsItsPlace(f)

VARIABLES
  driver,  \* "hand" or "executor"
  start,   \* the future as it was given
  fut,     \* what it is now
  place,   \* where fut lies in memory
  answer,  \* the answer of the last poll, Pending before the first
  polls,
  woken,   \* a wake has come that no poll has answered
  readyAt, \* the poll that first answered Ready, 0 before
  queue,   \* the tasks waiting for the thread, the one that has it first
  spin     \* the yield_now the looping task awaits

futVars  == <<start, fut, place, answer, polls, woken, readyAt>>
taskVars == <<queue, spin>>
vars == <<driver, futVars, taskVars>>

Places == {"here", "there"}

Init ==
  /\ driver \in {"hand", "executor"}
  /\ start \in Given /\ fut = start /\ place = "here"
  /\ answer = Pending
  /\ polls = 0 /\ woken = TRUE /\ readyAt = 0
  /\ queue \in IF driver = "hand" THEN {<<>>} ELSE {<<"it", "loop">>, <<"loop", "it">>}
  /\ spin = yield_now

-----------------------------------------------------------------------------
\* poll_once; a panicked future is not polled again.
PollOnce ==
  /\ answer # Panic
  /\ LET p == Poll[fut] IN
       /\ fut' = p.next /\ answer' = p.answer
       /\ woken' = (p.wakes > 0)
       /\ readyAt' = IF readyAt = 0 /\ IsReady(p) THEN polls + 1 ELSE readyAt
  /\ polls' = polls + 1
  /\ UNCHANGED <<driver, start, place>>

PollByHand ==
  /\ driver = "hand" /\ polls < MaxPolls
  /\ PollOnce
  /\ UNCHANGED taskVars

\* MaybeDone::take_output on a Done.
TakeOutput ==
  /\ driver = "hand" /\ fut.kind = "MaybeDone" /\ fut.variant = "Done"
  /\ fut' = take_output(fut)
  /\ UNCHANGED <<driver, start, place, answer, polls, woken, readyAt, taskVars>>

Clear ==
  /\ driver = "hand" /\ fut.kind = "Option" /\ fut.inner # None
  /\ fut' = clear(fut)
  /\ UNCHANGED <<driver, start, place, answer, polls, woken, readyAt, taskVars>>

\* A poll needs a Pin, and the holder keeps `&mut` or ownership past the first
\* one only if the type is Unpin.
MayMove == polls = 0 \/ Unpin(start)

Move ==
  /\ driver = "hand" /\ MayMove
  /\ place' \in Places \ {place}
  /\ UNCHANGED <<driver, start, fut, answer, polls, woken, readyAt, taskVars>>

\* The future taken out of Finished, OptionFuture or Timeout.
TakenOut ==
  CASE fut.kind \in {"Finished", "Option"} -> into_inner(fut)
    [] fut.kind = "Timeout"                -> value(fut)
    [] OTHER                               -> None

\* Mutant: `into_inner(self: Pin<&mut Self>)`.
IntoInnerThroughPin ==
  /\ driver = "hand" /\ readyAt = 0 /\ TakenOut # None
  /\ start' = TakenOut /\ fut' = TakenOut
  /\ place' \in Places \ {place}
  /\ answer' = Pending /\ polls' = 0 /\ woken' = TRUE
  /\ UNCHANGED <<driver, readyAt, taskVars>>

\* into_inner takes the wrapper by value; the next holder starts over.
IntoInner ==
  /\ driver = "hand" /\ readyAt = 0 /\ TakenOut # None /\ MayMove
  /\ start' = TakenOut /\ fut' = TakenOut
  /\ place' \in Places \ {place}
  /\ answer' = Pending /\ polls' = 0 /\ woken' = TRUE
  /\ UNCHANGED <<driver, readyAt, taskVars>>

-----------------------------------------------------------------------------
\* A wake puts the task at the end of the queue, behind whoever waits there.
Requeued(task, wakes) == Tail(queue) \o IF wakes > 0 THEN <<task>> ELSE <<>>

\* The task of the future has the thread and polls it; at Ready it is over.
RunIt ==
  /\ queue # <<>> /\ Head(queue) = "it"
  /\ PollOnce
  /\ queue' = Requeued("it", IF IsReady(Poll[fut]) THEN 0 ELSE Poll[fut].wakes)
  /\ UNCHANGED spin

\* The looping task keeps the thread until a yield_now answers Pending.
RunLoop ==
  /\ queue # <<>> /\ Head(queue) = "loop"
  /\ LET p == PollYieldNow(spin) IN
       IF IsReady(p) THEN spin' = yield_now /\ UNCHANGED queue
       ELSE spin' = p.next /\ queue' = Requeued("loop", p.wakes)
  /\ UNCHANGED <<driver, futVars>>

Next == PollByHand \/ TakeOutput \/ Clear \/ Move \/ IntoInner \/ RunIt \/ RunLoop

\* The executor's thread goes on; a driver by hand may stop whenever it likes.
Spec == Init /\ [][Next]_vars /\ WF_vars(RunIt \/ RunLoop)
-----------------------------------------------------------------------------
(* What a future comes to: in how many polls, with which output, what it   *)
(* keeps then, which is not its output if it is a MaybeDone, and whether   *)
(* this happens only once, as something is moved out of it.                *)

Coming(n, output, kept, once) ==
  [polls |-> n, output |-> output, kept |-> kept, once |-> once]

At(n, v)       == Coming(n, v, v, FALSE)
OnlyOnce(n, v) == Coming(n, v, v, TRUE)
Keeping(n, v)  == Coming(n, Unit, v, FALSE)
Never          == At(0, None)

Comes(o)      == o.polls # 0
First(oa, ob) == Comes(oa) /\ (Comes(ob) => oa.polls <= ob.polls)
Later(oa, ob) == IF oa.polls < ob.polls THEN ob.polls ELSE oa.polls

\* What f makes of the output v of the future it holds.
Output(f, v) ==
  CASE f.kind = "ShutdownSignal" -> IF "ok" \in DOMAIN v THEN [ok |-> Unit] ELSE v
    [] f.kind = "Map"            -> Apply(f.fn, v)
    [] f.kind \in {"Option", "SimpleOption"} -> [some |-> v]
    [] OTHER                     -> v

OutcomeJoin(oa, ob) ==
  IF Comes(oa) /\ Comes(ob)
  THEN OnlyOnce(Later(oa, ob), Pair(oa.kept, ob.kept)) ELSE Never

Fails(o) == Comes(o) /\ "err" \in DOMAIN o.kept

OutcomeTryJoin(oa, ob) ==
  IF Fails(oa) /\ (Fails(ob) => First(oa, ob)) THEN At(oa.polls, oa.kept)
  ELSE IF Fails(ob) THEN At(ob.polls, ob.kept)
  ELSE IF Comes(oa) /\ Comes(ob)
  THEN At(Later(oa, ob), [ok |-> Pair(oa.kept.ok, ob.kept.ok)])
  ELSE Never

OutcomeRace(oa, ob) ==
  IF First(oa, ob) THEN At(oa.polls, [left |-> oa.output])
  ELSE IF Comes(ob) THEN At(ob.polls, [right |-> ob.output]) ELSE Never

OutcomeTimeout(oa, ob) ==
  IF First(oa, ob) THEN At(oa.polls, [ok |-> oa.output])
  ELSE IF Comes(ob) THEN At(ob.polls, [err |-> "Elapsed"]) ELSE Never

\* Not pending(), what has completed and is spent, or a Sleep: no time passes here.
OutcomeLeaf(f) ==
  CASE f.kind \in {"Ready", "NotStructural"} /\ f.value # None -> OnlyOnce(1, f.value)
    [] f.kind = "YieldNow"  -> At(IF f.yielded THEN 1 ELSE 2, Unit)
    [] f.kind = "CountDown" -> At(f.remaining + 1, f.total)
    [] f.kind = "PollFn"    -> LET last == f.calls[Len(f.calls)].answer IN
                                 IF last = Pending THEN Never ELSE At(Len(f.calls), last.value)
    [] f.kind = "Sleep" /\ f.left = 0 -> At(1, Unit)
    [] f.kind \in {"Option", "SimpleOption"} -> At(1, [none |-> Unit])
    [] f.kind = "MaybeDone" /\ f.variant = "Done" -> Keeping(1, f.output)
    [] OTHER -> Never

OutcomeWrapper(f, o) ==
  IF ~Comes(o) \/ (f.kind = "Map" /\ f.fn = None) THEN Never
  ELSE IF f.kind = "MaybeDone" THEN Keeping(o.polls, o.output)
  ELSE IF f.kind \in {"Map", "Fuse", "Async"}
          \/ (f.kind \in Forwarding \cup {"ShutdownSignal"} /\ o.once)
  THEN OnlyOnce(o.polls, Output(f, o.output))
  ELSE At(o.polls, Output(f, o.output))

OutcomeBranches(f, oa, ob) ==
  CASE f.kind = "Join"    -> OutcomeJoin(oa, ob)
    [] f.kind = "TryJoin" -> OutcomeTryJoin(oa, ob)
    [] f.kind = "Race"    -> OutcomeRace(oa, ob)
    [] f.kind = "Timeout" -> OutcomeTimeout(oa, ob)

\* The outcome of f as it is composed of the outcomes of what lies in it.
Outcome[f \in Fut] ==
  CASE Holds(f)    -> OutcomeWrapper(f, Outcome[f.inner])
    [] Branches(f) -> OutcomeBranches(f, Outcome[f.a], Outcome[f.b])
    [] OTHER       -> OutcomeLeaf(f)

\* Nothing will wake f for its completion: it needs pending(), a finished
\* Fuse, or a timer that has not fired.
Silent(f) == ~Comes(Outcome[f])

\* Completing moves something out of f that is not there a second time.
MovesOut(f) == Outcome[f].once

(* A poll that answers Pending has woken its own task, because nobody else *)
(* will: only pending(), a finished Fuse or a timer, somewhere inside, may *)
(* keep quiet.  No wrapper swallows a wake of what it holds, and no        *)
(* combinator leaves a branch that would have woken it unpolled.           *)
PendingIsAPromise ==
  [][polls' > polls /\ answer' = Pending => woken' \/ Silent(fut')]_vars

(* A caller that stops at Ready never meets a panic, however deep the      *)
(* nesting, nor if it takes a future out of its wrapper half way: every    *)
(* panic answers a poll after completion.                                  *)
PanicsOnlyAfterReady == answer = Panic => readyAt # 0

(* A value that is moved out on completion is delivered at most once,      *)
(* whether the second poll is answered with a panic or with Pending.       *)
DeliveredAtMostOnce ==
  (readyAt # 0 /\ polls > readyAt /\ MovesOut(start)) => answer.is # "Ready"

(* The contract of FusedFuture: terminated once completed, not before, and *)
(* still so after the output has been taken.                               *)
TerminatedWhenReady ==
  start.kind \in {"Fuse", "MaybeDone"} /\ start.inner # None =>
    (is_terminated(fut) <=> readyAt # 0)

(* Combining is free, and changes no output but as it should: a wrapper    *)
(* completes on the very poll on which what it holds does, join with its   *)
(* slower branch, race and timeout with the faster, try_join with the      *)
(* first error.  Only an OptionFuture that was cleared completes earlier.  *)
CompletesAsComposed ==
  [][LET o == Outcome[start] IN
       /\ polls' > polls /\ readyAt' = 0 => ~Comes(o) \/ polls' < o.polls
       /\ readyAt' # readyAt =>
            \/ /\ readyAt' = o.polls /\ answer' = Ready(o.output)
               /\ fut'.kind = "MaybeDone" => output_mut(fut') = o.kept
            \/ start.kind = "Option" /\ start.inner # None /\ fut.inner = None
               /\ answer' = Ready([none |-> Unit])]_vars

(* poll_until_ready reports how many polls the future takes, the one that  *)
(* completes it included, wherever it has got to, and panics if it may not *)
(* make as many; no limit below that reports anything.                     *)
CountsPolls ==
  readyAt = 0 => \A max \in 0 .. MaxPolls :
    LET o == Outcome[fut] IN
      PollUntilReady(fut, max) =
        IF Comes(o) /\ o.polls <= max THEN [output |-> o.output, polls |-> o.polls] ELSE Panic

(* The promise of pinning: whatever the holder is free to do with a future *)
(* of that type, one that borrows from itself never changes its place.     *)
StaysPut == [][place' # place => ~NeedsItsPlace(fut)]_vars

(* An executor that polls a task only when woken, in turn, completes every *)
(* future that is not silent, although another task never stops: its       *)
(* yield_now gives up the thread.                                          *)
WakesAreEnough == (driver = "executor" /\ ~Silent(start)) ~> readyAt # 0

(* A task that yields gets the thread back, time and again: the wake that  *)
(* comes before Pending has put it into the queue.                         *)
YieldResumes == driver = "executor" => []<>(spin.yielded) /\ []<>(~spin.yielded)

(* "a second poll is caught and turned into a panic" (map.rs).             *)
MapRepollPanics ==
  (start.kind = "Map" /\ readyAt # 0 /\ polls > readyAt) => answer = Panic
=============================================================================
