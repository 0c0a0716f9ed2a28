------------------------------- MODULE Futures -------------------------------
(***************************************************************************)
(* The futures of the crate as values, nested as its wrappers are, and one *)
(* layer of their poll: what a future answers, how often it wakes and what *)
(* it leaves behind, given the polls of the futures it holds.  Nothing     *)
(* here acts or recurses: Polling drives these values and Nesting, which   *)
(* Tests uses, polls one to its depths.                                    *)
(***************************************************************************)
EXTENDS Naturals, Sequences

CONSTANT None

-----------------------------------------------------------------------------
(* Poll results.  A panic ends the future: nothing is said of it after.    *)

Unit       == <<>>
Pair(x, y) == [a |-> x, b |-> y]

Ready(v) == [is |-> "Ready", value |-> v]
Pending  == [is |-> "Pending"]
Panic    == [is |-> "Panic"]

\* What a poll leaves behind, answers, and how often it calls wake_by_ref.
Polled(f, result, wakes) == [next |-> f, answer |-> result, wakes |-> wakes]

\* A future that holds another passes its poll p on, with the answer replaced.
Passed(f, p, result) == Polled([f EXCEPT !.inner = p.next], result, p.wakes)

\* A future with two branches, after the poll of one and of both.
PassedA(f, pa, result) == Polled([f EXCEPT !.a = pa.next], result, pa.wakes)
PassedBoth(f, pa, pb, result) ==
  Polled([f EXCEPT !.a = pa.next, !.b = pb.next], result, pa.wakes + pb.wakes)

IsReady(p) == p.answer.is = "Ready"
Panics(p)  == p.answer = Panic

-----------------------------------------------------------------------------
(* Leaves.                                                                 *)

ready(v) == [kind |-> "Ready", value |-> v]
PollReady(f) ==
  IF f.value = None THEN Polled(f, Panic, 0)
  ELSE Polled([f EXCEPT !.value = None], Ready(f.value), 0)

NotStructural(v) == [kind |-> "NotStructural", value |-> v]

pending == [kind |-> "Pending"]
PollPending(f) == Polled(f, Pending, 0)

\* Mutant: Ready at once, without giving up the turn.
PollYieldNowAtOnce(f) == Polled([f EXCEPT !.yielded = TRUE], Ready(Unit), 0)

\* Mutant: the wake_by_ref is deleted.
PollYieldNowSilent(f) ==
  IF f.yielded THEN Polled(f, Ready(Unit), 0)
  ELSE Polled([f EXCEPT !.yielded = TRUE], Pending, 0)

yield_now == [kind |-> "YieldNow", yielded |-> FALSE]
PollYieldNow(f) ==
  IF f.yielded THEN Polled(f, Ready(Unit), 0)
  ELSE Polled([f EXCEPT !.yielded = TRUE], Pending, 1)

\* Mutant: Pending without a wake.
PollCountDownSilent(f) ==
  IF f.remaining = 0 THEN Polled(f, Ready(f.total), 0)
  ELSE Polled([f EXCEPT !.remaining = @ - 1], Pending, 0)

\* Waiting{0} and the variant Ready answer alike and the one becomes the other.
CountDown(n) == [kind |-> "CountDown", remaining |-> n, total |-> n]
PollCountDown(f) ==
  IF f.remaining = 0 THEN Polled(f, Ready(f.total), 0)
  ELSE Polled([f EXCEPT !.remaining = @ - 1], Pending, 1)

(***************************************************************************)
(* A closure is the list of what its calls will answer and how often each  *)
(* wakes, the last one for good.  PollFn is Unpin as the closure is, which *)
(* here owns plain data; alt::PollFn never is.                             *)
(***************************************************************************)
Call(result, wakes) == [answer |-> result, wakes |-> wakes]
poll_fn(calls)     == [kind |-> "PollFn", calls |-> calls, unpin |-> TRUE]
alt_poll_fn(calls) == [kind |-> "PollFn", calls |-> calls, unpin |-> FALSE]
PollPollFn(f) ==
  Polled([f EXCEPT !.calls = IF Len(@) = 1 THEN @ ELSE Tail(@)],
         Head(f.calls).answer, Head(f.calls).wakes)

\* tokio's Sleep, with the time that is left until its deadline.
sleep(duration) == [kind |-> "Sleep", left |-> duration]
PollSleep(f) == Polled(f, IF f.left = 0 THEN Ready(Unit) ELSE Pending, 0)

-----------------------------------------------------------------------------
(* Wrappers.  p is the poll of what f holds.                               *)

Finished(inner)      == [kind |-> "Finished", inner |-> inner]
SimpleWrapper(inner) == [kind |-> "SimpleWrapper", inner |-> inner]
Structural(inner)    == [kind |-> "Structural", inner |-> inner]
PollFinished(f, p) == Passed(f, p, p.answer)

\* Outputs of the inner future are [ok |-> v] or [err |-> e].
ShutdownSignal(inner) == [kind |-> "ShutdownSignal", inner |-> inner]
PollShutdownSignal(f, p) ==
  IF IsReady(p) /\ "ok" \in DOMAIN p.answer.value
  THEN Passed(f, p, Ready([ok |-> Unit]))
  ELSE Passed(f, p, p.answer)

\* What the function given to map, named fn, makes of v.
Apply(fn, v) ==
  CASE fn = "identity" -> v
    [] fn = "double"   -> 2 * v
    [] fn = "Ok"       -> [ok |-> v]
    [] fn = "Err"      -> [err |-> v]

\* Mutant: the function is looked for before the inner future is polled.
PollMapEagerly(f, p) ==
  IF f.fn = None THEN Polled(f, Panic, 0)
  ELSE Passed([f EXCEPT !.fn = None], p,
              IF IsReady(p) THEN Ready(Apply(f.fn, p.answer.value)) ELSE p.answer)

\* The function is taken when the inner future is Ready, and only then.
map(inner, fn) == [kind |-> "Map", inner |-> inner, fn |-> fn]
PollMap(f, p) ==
  IF ~IsReady(p) THEN Passed(f, p, p.answer)
  ELSE IF f.fn = None THEN Passed(f, p, Panic)
  ELSE Passed([f EXCEPT !.fn = None], p, Ready(Apply(f.fn, p.answer.value)))

\* OptionFuture leaves its slot populated, SimpleOptionFuture clears it.
OptionFuture(inner) == [kind |-> "Option", inner |-> inner]
PollOption(f, p) ==
  IF IsReady(p) THEN Passed(f, p, Ready([some |-> p.answer.value]))
  ELSE Passed(f, p, p.answer)

SimpleOptionFuture(inner) == [kind |-> "SimpleOption", inner |-> inner]
PollSimpleOption(f, p) ==
  IF IsReady(p) THEN Polled([f EXCEPT !.inner = None], Ready([some |-> p.answer.value]), p.wakes)
  ELSE Passed(f, p, p.answer)

\* Mutant: the slot keeps the finished future.
PollFuseKeeping(f, p) == Passed(f, p, p.answer)

fuse(inner) == [kind |-> "Fuse", inner |-> inner]
PollFuse(f, p) ==
  IF IsReady(p) THEN Polled([f EXCEPT !.inner = None], p.answer, p.wakes)
  ELSE Passed(f, p, p.answer)

\* Variant Future, then Done with an output, then Gone with neither.
maybe_done(inner) ==
  [kind |-> "MaybeDone", inner |-> inner, variant |-> "Future", output |-> None]
PollMaybeDone(f, p) ==
  IF IsReady(p)
  THEN Polled([f EXCEPT !.inner = None, !.variant = "Done", !.output = p.answer.value],
              Ready(Unit), p.wakes)
  ELSE Passed(f, p, p.answer)

\* MaybeDone::output_mut, None unless Done.
output_mut(f) == f.output

\* What MaybeDone::take_output leaves behind; it returns output_mut(f).
take_output(f) ==
  [f EXCEPT !.variant = IF @ = "Done" THEN "Gone" ELSE @, !.output = None]

\* An async block that awaits inner and returns its output.  It borrows from
\* itself once it has started, and drops what it holds when it completes.
async(inner) == [kind |-> "Async", inner |-> inner, started |-> FALSE]
PollAsync(f, p) ==
  IF IsReady(p) THEN Polled([f EXCEPT !.inner = None], p.answer, p.wakes)
  ELSE Passed([f EXCEPT !.started = TRUE], p, p.answer)

\* The poll of a wrapper whose slot is empty.
PollEmpty(f) ==
  CASE f.kind \in {"Option", "SimpleOption"} -> Polled(f, Ready([none |-> Unit]), 0)
    [] f.kind = "Fuse"      -> Polled(f, Pending, 0)
    [] f.kind = "MaybeDone" -> Polled(f, IF f.variant = "Done" THEN Ready(Unit) ELSE Panic, 0)
    [] f.kind = "Async"     -> Polled(f, Panic, 0)

-----------------------------------------------------------------------------
(* Two branches.  a is polled first; pb is of use only if b is polled too. *)

join(a, b) == [kind |-> "Join", a |-> maybe_done(a), b |-> maybe_done(b)]
PollJoin(f, pa, pb) ==
  IF Panics(pa) \/ Panics(pb) THEN PassedBoth(f, pa, pb, Panic)
  ELSE IF ~(IsReady(pa) /\ IsReady(pb)) THEN PassedBoth(f, pa, pb, Pending)
  ELSE Polled([f EXCEPT !.a = take_output(pa.next), !.b = take_output(pb.next)],
              Ready(Pair(output_mut(pa.next), output_mut(pb.next))), pa.wakes + pb.wakes)

\* take_error finds an error in m, and leaves an Ok alone.
FindsError(m) == m.variant = "Done" /\ "err" \in DOMAIN output_mut(m)

try_join(a, b) == [kind |-> "TryJoin", a |-> maybe_done(a), b |-> maybe_done(b)]
PollTryJoin(f, pa, pb) ==
  IF Panics(pa) THEN PassedA(f, pa, Panic)
  ELSE IF FindsError(pa.next)
  THEN Polled([f EXCEPT !.a = take_output(pa.next)], Ready(output_mut(pa.next)), pa.wakes)
  ELSE IF Panics(pb) THEN PassedBoth(f, pa, pb, Panic)
  ELSE IF FindsError(pb.next)
  THEN Polled([f EXCEPT !.a = pa.next, !.b = take_output(pb.next)],
              Ready(output_mut(pb.next)), pa.wakes + pb.wakes)
  ELSE IF ~(IsReady(pa) /\ IsReady(pb)) THEN PassedBoth(f, pa, pb, Pending)
  ELSE Polled([f EXCEPT !.a = take_output(pa.next), !.b = take_output(pb.next)],
              Ready([ok |-> Pair(output_mut(pa.next).ok, output_mut(pb.next).ok)]),
              pa.wakes + pb.wakes)

\* Mutant: right is polled although left is ready, and wins if it is too.
PollRaceRightFirst(f, pa, pb) ==
  IF IsReady(pb) THEN PassedBoth(f, pa, pb, Ready([right |-> pb.answer.value]))
  ELSE IF IsReady(pa) THEN PassedBoth(f, pa, pb, Ready([left |-> pa.answer.value]))
  ELSE PassedBoth(f, pa, pb, Pending)

race(left, right) == [kind |-> "Race", a |-> left, b |-> right]
PollRace(f, pa, pb) ==
  IF Panics(pa) THEN PassedA(f, pa, Panic)
  ELSE IF IsReady(pa) THEN PassedA(f, pa, Ready([left |-> pa.answer.value]))
  ELSE IF IsReady(pb) THEN PassedBoth(f, pa, pb, Ready([right |-> pb.answer.value]))
  ELSE PassedBoth(f, pa, pb, pb.answer)

timeout(duration, value) == [kind |-> "Timeout", a |-> value, b |-> sleep(duration)]
PollTimeout(f, pa, pb) ==
  IF Panics(pa) THEN PassedA(f, pa, Panic)
  ELSE IF IsReady(pa) THEN PassedA(f, pa, Ready([ok |-> pa.answer.value]))
  ELSE IF IsReady(pb) THEN PassedBoth(f, pa, pb, Ready([err |-> "Elapsed"]))
  ELSE PassedBoth(f, pa, pb, Pending)

-----------------------------------------------------------------------------
(* A poll of f: of its own, given p, the poll of what it holds, or given   *)
(* pa and pb, the polls of its branches.                                   *)

Forwarding == {"Finished", "SimpleWrapper", "Structural"}
Wrapping   == Forwarding \cup
  {"ShutdownSignal", "Map", "Option", "SimpleOption", "Fuse", "MaybeDone", "Async"}
Combining  == {"Join", "TryJoin", "Race", "Timeout"}

Wraps(f)    == f.kind \in Wrapping
Holds(f)    == Wraps(f) /\ f.inner # None
Branches(f) == f.kind \in Combining

PollLeaf(f) ==
  CASE f.kind \in {"Ready", "NotStructural"} -> PollReady(f)
    [] f.kind = "Pending"   -> PollPending(f)
    [] f.kind = "YieldNow"  -> PollYieldNow(f)
    [] f.kind = "CountDown" -> PollCountDown(f)
    [] f.kind = "PollFn"    -> PollPollFn(f)
    [] f.kind = "Sleep"     -> PollSleep(f)
    [] Wraps(f)             -> PollEmpty(f)

PollWrapper(f, p) ==
  CASE f.kind \in Forwarding       -> PollFinished(f, p)
    [] f.kind = "ShutdownSignal" -> PollShutdownSignal(f, p)
    [] f.kind = "Map"            -> PollMap(f, p)
    [] f.kind = "Option"         -> PollOption(f, p)
    [] f.kind = "SimpleOption"   -> PollSimpleOption(f, p)
    [] f.kind = "Fuse"           -> PollFuse(f, p)
    [] f.kind = "MaybeDone"      -> PollMaybeDone(f, p)
    [] f.kind = "Async"          -> PollAsync(f, p)

PollBranches(f, pa, pb) ==
  CASE f.kind = "Join"    -> PollJoin(f, pa, pb)
    [] f.kind = "TryJoin" -> PollTryJoin(f, pa, pb)
    [] f.kind = "Race"    -> PollRace(f, pa, pb)
    [] f.kind = "Timeout" -> PollTimeout(f, pa, pb)

-----------------------------------------------------------------------------
(* What else can be asked of a future, or done to it.                      *)

\* Mutant: only Done counts, as if Gone could be polled.
is_terminated_done(f) == f.kind = "MaybeDone" /\ f.variant = "Done"

\* FusedFuture, which Fuse and MaybeDone implement.
is_terminated(f) == f.kind \in {"Fuse", "MaybeDone"} /\ f.inner = None

\* OptionFuture::clear, which drops the future where it lies.
clear(f) == [f EXCEPT !.inner = None]

\* Finished::into_inner, and what get_ref and get_mut refer to.
into_inner(f) == f.inner

\* Timeout::into_inner, get_ref and get_mut.
value(f) == f.a

-----------------------------------------------------------------------------
(* What the types guarantee of these values.                               *)

(***************************************************************************)
(* What poll_fn asks of its closure, as a future must: a call that answers *)
(* Pending has woken, unless the closure will never be ready, and the call *)
(* that answers Ready is the last to differ.  No closure panics.           *)
(***************************************************************************)
Honest(calls) ==
  /\ calls # <<>> /\ calls \in Seq({calls[i] : i \in DOMAIN calls})
  /\ \/ calls = <<Call(Pending, 0)>>
     \/ LET last == Len(calls) IN
          /\ \A i \in 1 .. last - 1 :
               calls[i].answer = Pending /\ calls[i].wakes \in Nat \ {0}
          /\ calls[last] = Call(Ready(calls[last].answer.value), calls[last].wakes)
          /\ calls[last].wakes \in Nat

\* The fields f has, and the values that are left to them.
WellFormed(f) ==
  \/ f.kind \in {"Ready", "NotStructural"} /\ f = [kind |-> f.kind, value |-> f.value]
  \/ f = pending
  \/ f.kind = "YieldNow" /\ f \in [kind : {"YieldNow"}, yielded : BOOLEAN]
  \/ /\ f.kind = "CountDown" /\ f.remaining \in Nat
     /\ f = [kind |-> "CountDown", remaining |-> f.remaining, total |-> f.total]
  \/ /\ f.kind = "PollFn" /\ f.unpin \in BOOLEAN /\ Honest(f.calls)
     /\ f = [kind |-> "PollFn", calls |-> f.calls, unpin |-> f.unpin]
  \/ f.kind = "Sleep" /\ f.left \in Nat /\ f = sleep(f.left)
  \/ /\ f.kind \in Forwarding \cup {"ShutdownSignal"} /\ f.inner # None
     /\ f = [kind |-> f.kind, inner |-> f.inner]
  \/ f.kind = "Map" /\ f.inner # None /\ f = map(f.inner, f.fn)
  \/ f.kind \in {"Option", "SimpleOption", "Fuse"} /\ f = [kind |-> f.kind, inner |-> f.inner]
  \/ /\ f.kind = "Async" /\ f.started \in BOOLEAN
     /\ f = [kind |-> "Async", inner |-> f.inner, started |-> f.started]
  \/ /\ f.kind = "MaybeDone" /\ f.variant \in {"Future", "Done", "Gone"}
     /\ f = [kind |-> "MaybeDone", inner |-> f.inner, variant |-> f.variant, output |-> f.output]
     /\ f.inner = None <=> f.variant # "Future"
  \/ /\ f.kind \in Combining /\ f = [kind |-> f.kind, a |-> f.a, b |-> f.b]
     /\ f.kind \in {"Join", "TryJoin"} => f.a.kind = "MaybeDone" /\ f.b.kind = "MaybeDone"
     /\ f.kind = "Timeout" => f.b.kind = "Sleep"

\* The futures that lie directly in f.
PartsOf(f) ==
  IF Holds(f) THEN {f.inner} ELSE IF Branches(f) THEN {f.a, f.b} ELSE {}

\* A future that needs its place whatever it holds: an async block, a Sleep,
\* and the PhantomPinned of alt::PollFn.
PinnedItself(f) == f.kind \in {"Async", "Sleep"} \/ (f.kind = "PollFn" /\ ~f.unpin)
=============================================================================
