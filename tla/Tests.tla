-------------------------------- MODULE Tests --------------------------------
(***************************************************************************)
(* The crate's own tests of its sequential futures, replayed on Nesting.   *)
(* Each definition is the test of that name, prefixed where the name would *)
(* not be unique: the future, and what is done to it and seen of it, step  *)
(* by step.                                                                *)
(***************************************************************************)
EXTENDS Nesting

\* Time passes: every Sleep inside f comes closer to its deadline.
RECURSIVE Advance(_, _)
Advance(f, duration) ==
  CASE f.kind = "Sleep"   -> [f EXCEPT !.left = IF @ < duration THEN 0 ELSE @ - duration]
    [] Holds(f)           -> [f EXCEPT !.inner = Advance(@, duration)]
    [] Branches(f)        -> [f EXCEPT !.a = Advance(@, duration), !.b = Advance(@, duration)]
    [] OTHER              -> f

\* The async blocks inside f that still hold what they captured.
RECURSIVE Alive(_)
Alive(f) ==
  CASE Holds(f)    -> Alive(f.inner) + IF f.kind = "Async" THEN 1 ELSE 0
    [] Branches(f) -> Alive(f.a) + Alive(f.b)
    [] OTHER       -> 0

-----------------------------------------------------------------------------
(* The steps of a test.                                                    *)

Step(do, v)   == [do |-> do, v |-> v]
Polls(result) == Step("poll_once", result)    \* what the poll answers
Woken(n)      == Step("count", n)             \* what the CountingWaker says
Takes(v)      == Step("take_output", v)       \* what take_output returns
Outputs(v)    == Step("output_mut", v)        \* what output_mut refers to
Edits(v)      == Step("edit", v)              \* the output is set through output_mut
Terminated(b) == Step("is_terminated", b)
Called(b)     == Step("called", b)            \* map's function has been called
Holding(n)    == Step("strong_count", n)      \* the clones of an Arc held inside
Clears        == Step("clear", None)
After(d)      == Step("advance", d)           \* the paused clock moves on

RECURSIVE Replay(_, _, _)
Replay(f, count, steps) ==
  IF steps = <<>> THEN TRUE
  ELSE
    LET s    == Head(steps)
        p    == Poll(f)
        go(g) == Replay(g, count, Tail(steps))
    IN CASE s.do = "poll_once" ->
              p.answer = s.v /\ Replay(p.next, count + p.wakes, Tail(steps))
         [] s.do = "count"         -> count = s.v /\ go(f)
         [] s.do = "take_output"   -> output_mut(f) = s.v /\ go(take_output(f))
         [] s.do = "output_mut"    -> output_mut(f) = s.v /\ go(f)
         [] s.do = "edit"          -> output_mut(f) # None /\ go([f EXCEPT !.output = s.v])
         [] s.do = "is_terminated" -> (is_terminated(f) <=> s.v) /\ go(f)
         [] s.do = "called"        -> ((f.fn = None) <=> s.v) /\ go(f)
         [] s.do = "strong_count"  -> Alive(f) = s.v /\ go(f)
         [] s.do = "clear"         -> go(clear(f))
         [] s.do = "advance"       -> go(Advance(f, s.v))

Passes(f, steps) == Replay(f, 0, steps)

\* A test that uses poll_until_ready.
UntilReady(f, max, output, polls) ==
  PollUntilReady(f, 1, max) = [output |-> output, polls |-> polls]

\* One of the awaiting tests: an executor polls it, and the clock jumps when idle.
Awaits(f, output) == Passes(f, <<Polls(Ready(output))>>)

-----------------------------------------------------------------------------
(* basic/ready.rs, pending.rs, yield_now.rs                                *)

ready_completes_on_first_poll == Passes(ready(42), <<Polls(Ready(42))>>)

ready_panics_when_polled_after_completion ==
  Passes(ready(42), <<Polls(Ready(42)), Polls(Panic)>>)

ready_is_unpin_even_when_the_value_is_not ==
  Unpin(ready("PhantomPinned")) /\ Awaits(ready("PhantomPinned"), "PhantomPinned")

never_completes_and_never_wakes ==
  Passes(pending, <<Polls(Pending), Polls(Pending), Woken(0)>>)

pending_auto_traits_do_not_depend_on_t == Unpin(pending)

is_pending_on_the_first_poll_and_wakes_the_task ==
  Passes(yield_now, <<Polls(Pending), Woken(1)>>)

is_ready_on_the_second_poll_and_does_not_wake_again ==
  Passes(yield_now, <<Polls(Pending), Polls(Ready(Unit)), Woken(1)>>)

yield_now_stays_ready_when_polled_after_completion ==
  Passes(yield_now, <<Polls(Pending), Polls(Ready(Unit)), Polls(Ready(Unit))>>)

-----------------------------------------------------------------------------
(* state_machine/two_state.rs                                              *)

\* yields_the_original_count_not_the_remaining_one asserts the first half.
is_pending_for_exactly_count_polls == UntilReady(CountDown(3), 10, 3, 4)

wakes_the_task_on_every_pending_poll ==
  Passes(CountDown(2), <<Polls(Pending), Woken(1), Polls(Pending), Woken(2),
                         Polls(Ready(2)), Woken(2)>>)

zero_is_ready_immediately_without_waking ==
  Passes(CountDown(0), <<Polls(Ready(0)), Woken(0)>>)

two_state_stays_ready_when_polled_after_completion ==
  Passes(CountDown(1), <<Polls(Pending), Polls(Ready(1)), Polls(Ready(1)), Polls(Ready(1))>>)

is_unpin_without_a_manual_impl == Unpin(CountDown(0))

-----------------------------------------------------------------------------
(* basic/wrapper.rs, advanced/pinning.rs, advanced/poll_fn.rs              *)

option_future_polls_the_inner_future ==
  Passes(OptionFuture(ready(42)), <<Polls(Ready([some |-> 42]))>>)

option_future_is_ready_with_none_when_empty ==
  Passes(OptionFuture(None), <<Polls(Ready([none |-> Unit]))>>)

into_inner_recovers_the_future_before_it_is_pinned ==
  UntilReady(into_inner(OptionFuture(ready(42))), 2, 42, 1)

clear_drops_a_pinned_future_in_place ==
  Passes(OptionFuture(pending), <<Polls(Pending), Clears, Polls(Ready([none |-> Unit]))>>)

clear_runs_the_inner_futures_destructor ==
  Passes(OptionFuture(async(pending)), <<Polls(Pending), Holding(1), Clears, Holding(0)>>)

simple_option_future_clears_itself_after_completion ==
  Passes(SimpleOptionFuture(ready(7)),
         <<Polls(Ready([some |-> 7])), Polls(Ready([none |-> Unit]))>>)

finished_forwards_to_the_inner_future == Passes(Finished(ready("done")), <<Polls(Ready("done"))>>)

the_simple_wrappers_are_unpin_exactly_when_the_inner_future_is ==
  \A inner \in {ready(42), async(ready(42))} :
    /\ Unpin(SimpleWrapper(inner)) <=> Unpin(inner)
    /\ Unpin(SimpleOptionFuture(inner)) <=> Unpin(inner)

the_non_structural_wrapper_is_unpin_whatever_it_holds ==
  Unpin(NotStructural("PhantomPinned"))
  /\ Awaits(NotStructural("PhantomPinned"), "PhantomPinned")

\* With the compile_fail example on Structural, which is the negative case.
the_structural_wrapper_is_unpin_when_the_future_is ==
  Unpin(Structural(ready(42))) /\ ~Unpin(Structural(async(ready(Unit))))

the_structural_wrapper_polls_the_future_where_it_lies ==
  Passes(Structural(ready(42)), <<Polls(Ready(42))>>)

calls_the_closure_on_every_poll ==
  Passes(poll_fn(<<Call(Pending, 1), Call(Pending, 1), Call(Ready(3), 0)>>),
         <<Polls(Pending), Polls(Pending), Polls(Ready(3)), Woken(2)>>)

\* With the compile_fail example on the module alt.
alt_polls_like_the_manual_version ==
  LET calls == <<Call(Ready(7), 0)>> IN
    Passes(alt_poll_fn(calls), <<Polls(Ready(7))>>) /\ ~Unpin(alt_poll_fn(calls))

-----------------------------------------------------------------------------
(* composition/map.rs and fuse.rs                                          *)

\* can_change_the_output_type, accepts_a_non_copy_fnonce: other functions.
transforms_the_output == Passes(map(ready(21), "double"), <<Polls(Ready(42))>>)

does_not_call_the_function_until_the_inner_future_is_ready ==
  Passes(map(CountDown(2), "identity"),
         <<Polls(Pending), Called(FALSE), Polls(Pending), Called(FALSE),
           Polls(Ready(2)), Called(TRUE)>>)

calls_the_function_exactly_once == UntilReady(map(CountDown(3), "identity"), 10, 3, 4)

map_panics_when_polled_after_completion ==
  Passes(map(CountDown(0), "identity"), <<Polls(Ready(0)), Polls(Panic)>>)

the_completing_poll_hands_the_output_through == Passes(fuse(ready(42)), <<Polls(Ready(42))>>)

every_later_poll_is_pending ==
  Passes(fuse(ready(42)), <<Polls(Ready(42)), Polls(Pending), Polls(Pending)>>)

\* And does_not_repoll_the_inner_future: ready would panic.
a_later_poll_registers_no_waker ==
  Passes(fuse(ready(42)), <<Polls(Ready(42)), Polls(Pending), Woken(0)>>)

forwards_pending_from_the_inner_future ==
  Passes(fuse(CountDown(2)), <<Polls(Pending), Woken(1), Polls(Pending), Polls(Ready(2))>>)

is_terminated_flips_on_completion ==
  Passes(fuse(ready(42)), <<Terminated(FALSE), Polls(Ready(42)), Terminated(TRUE)>>)

terminated_starts_finished == Passes(fuse(None), <<Terminated(TRUE), Polls(Pending)>>)

completion_drops_the_inner_future ==
  Passes(fuse(async(ready(1))), <<Holding(1), Polls(Ready(1)), Holding(0)>>)

\* One turn of the loop for one branch, and the outputs n turns hand on.
Turn(f) == IF is_terminated(f) THEN Polled(f, Pending, 0) ELSE Poll(f)
Pushed(name, p) == IF IsReady(p) THEN <<<<name, p.answer.value>>>> ELSE <<>>
RECURSIVE FinishedIn(_, _, _)
FinishedIn(n, a, b) ==
  IF n = 0 THEN <<>>
  ELSE Pushed("a", Turn(a)) \o Pushed("b", Turn(b))
       \o FinishedIn(n - 1, Turn(a).next, Turn(b).next)

a_loop_can_skip_a_terminated_branch ==
  FinishedIn(10, fuse(CountDown(1)), fuse(CountDown(3))) = <<<<"a", 1>>, <<"b", 3>>>>

-----------------------------------------------------------------------------
(* state_machine/maybe_done.rs                                             *)

polling_to_completion_yields_unit_not_the_output ==
  Passes(maybe_done(ready(42)), <<Polls(Ready(Unit))>>)

take_output_returns_none_before_completion == Passes(maybe_done(CountDown(3)), <<Takes(None)>>)

take_output_yields_the_value_once_then_none ==
  Passes(maybe_done(ready(42)), <<Polls(Ready(Unit)), Takes(42), Takes(None)>>)

done_absorbs_further_polls_without_touching_the_inner_future ==
  Passes(maybe_done(ready(42)),
         <<Polls(Ready(Unit)), Polls(Ready(Unit)), Polls(Ready(Unit)), Takes(42)>>)

polling_after_the_value_is_taken_panics ==
  Passes(maybe_done(ready(42)), <<Polls(Ready(Unit)), Takes(42), Polls(Panic)>>)

output_mut_allows_editing_the_stored_value ==
  Passes(maybe_done(ready(42)), <<Polls(Ready(Unit)), Outputs(42), Edits(43), Takes(43)>>)

output_mut_is_none_unless_done == Passes(maybe_done(CountDown(3)), <<Outputs(None)>>)

is_terminated_covers_both_finished_states ==
  Passes(maybe_done(ready(42)),
         <<Terminated(FALSE), Polls(Ready(Unit)), Terminated(TRUE), Takes(42), Terminated(TRUE)>>)

unpin_does_not_depend_on_the_output_type == Unpin(maybe_done(ready("PhantomPinned")))

can_be_polled_through_a_plain_pin_when_unpin ==
  Unpin(maybe_done(ready(1))) /\ Passes(maybe_done(ready(1)), <<Polls(Ready(Unit))>>)

-----------------------------------------------------------------------------
(* composition/join.rs and try_join.rs                                     *)

join_yields_both_outputs == Passes(join(ready(1), ready(2)), <<Polls(Ready(Pair(1, 2)))>>)

join_branches_may_have_different_output_types ==
  Passes(join(ready(1), ready("two")), <<Polls(Ready(Pair(1, "two")))>>)

is_pending_until_the_slower_branch_finishes ==
  Passes(join(ready(1), CountDown(2)), <<Polls(Pending), Polls(Pending), Polls(Ready(Pair(1, 2)))>>)

\* The closure makes its poll visible by a wake.
polls_the_second_branch_even_while_the_first_is_pending ==
  Passes(join(pending, poll_fn(<<Call(Pending, 1)>>)), <<Polls(Pending), Woken(1)>>)

both_branches_register_the_waker ==
  Passes(join(CountDown(5), CountDown(5)), <<Polls(Pending), Woken(2)>>)

does_not_repoll_a_branch_that_has_already_finished ==
  Passes(join(ready(1), CountDown(3)),
         <<Polls(Pending), Polls(Pending), Polls(Pending), Polls(Ready(Pair(1, 3)))>>)

runs_the_branches_concurrently_not_in_sequence ==
  UntilReady(join(CountDown(3), CountDown(5)), 20, Pair(3, 5), 6)

join_completes_when_awaited_normally ==
  Awaits(join(async(ready(1)), async(ready("two"))), Pair(1, "two"))

Ok(v)  == ready([ok |-> v])
Err(e) == ready([err |-> e])
Bad    == Polls(Ready([err |-> "bad"]))

yields_both_values_when_both_succeed ==
  Passes(try_join(Ok(1), Ok(2)), <<Polls(Ready([ok |-> Pair(1, 2)]))>>)

returns_the_error_from_the_first_branch == Passes(try_join(Err("bad"), Ok(2)), <<Bad>>)

returns_the_error_from_the_second_branch == Passes(try_join(Ok(1), Err("bad")), <<Bad>>)

fails_fast_without_waiting_for_a_pending_branch == Passes(try_join(Err("bad"), pending), <<Bad>>)

does_not_poll_the_second_branch_once_the_first_has_failed ==
  Passes(try_join(Err("bad"), poll_fn(<<Call(Panic, 0)>>)), <<Bad>>)

waits_for_both_branches_while_they_are_succeeding ==
  Passes(try_join(Ok(1), map(CountDown(2), "Ok")),
         <<Polls(Pending), Polls(Pending), Polls(Ready([ok |-> Pair(1, 2)]))>>)

\* What the drop of the TryJoin then drops is the branch it still holds.
the_abandoned_branch_is_dropped ==
  Passes(try_join(Err("bad"), async(pending)), <<Bad, Holding(1)>>)

try_join_completes_when_awaited_normally ==
  Awaits(try_join(async(Ok(1)), async(Ok(2))), [ok |-> Pair(1, 2)])

-----------------------------------------------------------------------------
(* composition/race.rs and time/timeout.rs                                 *)

left_wins_when_both_are_ready == Passes(race(ready(1), ready(2)), <<Polls(Ready([left |-> 1]))>>)

does_not_poll_the_right_future_when_the_left_is_ready ==
  Passes(race(ready(1), poll_fn(<<Call(Panic, 0)>>)), <<Polls(Ready([left |-> 1]))>>)

right_wins_when_the_left_is_pending ==
  Passes(race(pending, ready(2)), <<Polls(Ready([right |-> 2]))>>)

is_pending_while_both_are_pending == Passes(race(pending, pending), <<Polls(Pending)>>)

polls_both_futures_while_both_are_pending ==
  Passes(race(CountDown(5), CountDown(5)), <<Polls(Pending), Woken(2)>>)

right_wins_when_it_completes_first ==
  Passes(race(CountDown(3), CountDown(1)), <<Polls(Pending), Polls(Ready([right |-> 1]))>>)

race_branches_may_have_different_output_types ==
  Passes(race(ready("left"), ready(2)), <<Polls(Ready([left |-> "left"]))>>)

completes_with_ok_when_the_future_finishes_in_time ==
  Awaits(timeout(30, async(ready(42))), [ok |-> 42])

completes_with_elapsed_when_the_deadline_passes_first ==
  Passes(timeout(30, pending), <<Polls(Pending), After(30), Polls(Ready([err |-> "Elapsed"]))>>)

\* The async block sleeps for 10 and then returns a value, here unit.
a_slow_future_still_wins_if_it_finishes_before_the_deadline ==
  Passes(timeout(30, async(sleep(10))), <<Polls(Pending), After(10), Polls(Ready([ok |-> Unit]))>>)

the_value_is_polled_before_the_timer ==
  Passes(timeout(0, async(ready(42))), <<After(1), Polls(Ready([ok |-> 42]))>>)

is_pending_while_neither_the_value_nor_the_timer_is_ready ==
  Passes(timeout(30, pending), <<Polls(Pending)>>)

timeout_at_expires_for_a_deadline_already_in_the_past ==
  Passes(timeout(0, pending), <<Polls(Ready([err |-> "Elapsed"]))>>)

into_inner_recovers_the_future_so_it_can_be_rewrapped ==
  Awaits(timeout(30, value(timeout(1, async(ready(42))))), [ok |-> 42])
-----------------------------------------------------------------------------
\* The models of the futures pass the tests the crate's own futures pass.
TestsPass ==
  /\ ready_completes_on_first_poll
  /\ ready_panics_when_polled_after_completion
  /\ ready_is_unpin_even_when_the_value_is_not
  /\ never_completes_and_never_wakes
  /\ pending_auto_traits_do_not_depend_on_t
  /\ is_pending_on_the_first_poll_and_wakes_the_task
  /\ is_ready_on_the_second_poll_and_does_not_wake_again
  /\ yield_now_stays_ready_when_polled_after_completion
  /\ is_pending_for_exactly_count_polls
  /\ wakes_the_task_on_every_pending_poll
  /\ zero_is_ready_immediately_without_waking
  /\ two_state_stays_ready_when_polled_after_completion
  /\ is_unpin_without_a_manual_impl
  /\ option_future_polls_the_inner_future
  /\ option_future_is_ready_with_none_when_empty
  /\ into_inner_recovers_the_future_before_it_is_pinned
  /\ clear_drops_a_pinned_future_in_place
  /\ clear_runs_the_inner_futures_destructor
  /\ simple_option_future_clears_itself_after_completion
  /\ finished_forwards_to_the_inner_future
  /\ the_simple_wrappers_are_unpin_exactly_when_the_inner_future_is
  /\ the_non_structural_wrapper_is_unpin_whatever_it_holds
  /\ the_structural_wrapper_is_unpin_when_the_future_is
  /\ the_structural_wrapper_polls_the_future_where_it_lies
  /\ calls_the_closure_on_every_poll
  /\ alt_polls_like_the_manual_version
  /\ transforms_the_output
  /\ does_not_call_the_function_until_the_inner_future_is_ready
  /\ calls_the_function_exactly_once
  /\ map_panics_when_polled_after_completion
  /\ the_completing_poll_hands_the_output_through
  /\ every_later_poll_is_pending
  /\ a_later_poll_registers_no_waker
  /\ forwards_pending_from_the_inner_future
  /\ is_terminated_flips_on_completion
  /\ terminated_starts_finished
  /\ completion_drops_the_inner_future
  /\ a_loop_can_skip_a_terminated_branch
  /\ polling_to_completion_yields_unit_not_the_output
  /\ take_output_returns_none_before_completion
  /\ take_output_yields_the_value_once_then_none
  /\ done_absorbs_further_polls_without_touching_the_inner_future
  /\ polling_after_the_value_is_taken_panics
  /\ output_mut_allows_editing_the_stored_value
  /\ output_mut_is_none_unless_done
  /\ is_terminated_covers_both_finished_states
  /\ unpin_does_not_depend_on_the_output_type
  /\ can_be_polled_through_a_plain_pin_when_unpin
  /\ join_yields_both_outputs
  /\ join_branches_may_have_different_output_types
  /\ is_pending_until_the_slower_branch_finishes
  /\ polls_the_second_branch_even_while_the_first_is_pending
  /\ both_branches_register_the_waker
  /\ does_not_repoll_a_branch_that_has_already_finished
  /\ runs_the_branches_concurrently_not_in_sequence
  /\ join_completes_when_awaited_normally
  /\ yields_both_values_when_both_succeed
  /\ returns_the_error_from_the_first_branch
  /\ returns_the_error_from_the_second_branch
  /\ fails_fast_without_waiting_for_a_pending_branch
  /\ does_not_poll_the_second_branch_once_the_first_has_failed
  /\ waits_for_both_branches_while_they_are_succeeding
  /\ the_abandoned_branch_is_dropped
  /\ try_join_completes_when_awaited_normally
  /\ left_wins_when_both_are_ready
  /\ does_not_poll_the_right_future_when_the_left_is_ready
  /\ right_wins_when_the_left_is_pending
  /\ is_pending_while_both_are_pending
  /\ polls_both_futures_while_both_are_pending
  /\ right_wins_when_it_completes_first
  /\ race_branches_may_have_different_output_types
  /\ completes_with_ok_when_the_future_finishes_in_time
  /\ completes_with_elapsed_when_the_deadline_passes_first
  /\ a_slow_future_still_wins_if_it_finishes_before_the_deadline
  /\ the_value_is_polled_before_the_timer
  /\ is_pending_while_neither_the_value_nor_the_timer_is_ready
  /\ timeout_at_expires_for_a_deadline_already_in_the_past
  /\ into_inner_recovers_the_future_so_it_can_be_rewrapped
=============================================================================
