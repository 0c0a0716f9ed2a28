# Verification of futures-patterns

TLA+ models of the crate in `src/`: hand-written futures, combinators over two
branches, and a one-shot channel whose halves live on different threads. TLC
checks the models on small instances. Safety is also proved, with TLAPS: of the
channel and of the five combinators that wait on other threads, for any number
of tasks and values, and of every future of the crate, polled by hand or by an
executor, for any nesting. That a combinator can be a branch of another is part
of it: `join`, `try_join`, `race`, `timeout` and the Receiver are shown to keep
the very contract that the combinators expect of their branches (of which none
may panic).

Contents: [the system](#the-system) · [modules](#modules) ·
[runs](#runs-and-what-they-show) · [bounds](#bounds) · [fairness](#fairness) ·
[proofs](#what-is-proved) · [findings](#where-code-and-words-disagree) ·
[left out](#what-is-not-modelled) · [plan](#plan)

## The system

A future is a state machine that an executor drives by calling `poll` with the
waker of the current task. `poll` answers `Ready` or `Pending`, and `Pending`
is a promise: that waker, the newest one, will be called when polling again is
worth it. The compiler checks none of this. Four groups of components follow,
by how they can go wrong.

| component (`src/src/…`) | state | operations | who it interacts with | what makes it correct |
|---|---|---|---|---|
| `waking/shared_state.rs` | `Shared {value, waker, closed}` behind a `Mutex` (which may be poisoned) | `channel`, `send`, `Drop for Sender`, `poll` | two threads through the lock; the executor through `wake`; user code through a waker's clone and drop | no lost wakeup (rules 1–3), the value wins over the close, nobody locks twice (rule 4), one wake, a poisoned lock is propagated |
| `composition/join.rs` | two `MaybeDone` | `poll` | polls both branches in every round | no branch is left without the newest waker, both outputs collected once, on their own sides |
| `composition/try_join.rs` | two `MaybeDone` | `poll`, `take_error` | as `join`, stops at an `Err` | fails fast, prefers `a`'s error, loses no `Ok` while waiting |
| `composition/race.rs` | two futures | `poll` | polls left, then right | woken by either, left bias, one result |
| `time/timeout.rs` | a value future and a tokio `Sleep` | `timeout`, `timeout_at`, `poll`, `into_inner`, accessors | tokio's timer and cooperative budget | it completes; no timeout before the deadline or over a value that was there |
| `composition/fuse.rs` | `Option<F>` | `fuse`, `terminated`, `poll`, `is_terminated` | the loop that drives it | silent from the poll that delivers on; the loop never parks on a silent branch alone |
| `state_machine/maybe_done.rs` | `Future`, `Done`, `Gone` | `maybe_done`, `poll`, `output_mut`, `take_output`, `is_terminated` | owned by `join`, `try_join` | the finished future is not polled, the output is kept and moved once |
| `composition/map.rs` | future, `Option<FnOnce>` | `poll` | the future it holds | the function runs once, on the inner `Ready` |
| `basic/ready.rs`, `pending.rs`, `yield_now.rs` | `Option<T>`, nothing, a flag | `poll` | `yield_now` wakes itself | one delivery; never; exactly one round |
| `basic/wrapper.rs` | a future, or an optional one | `poll`, `clear`, accessors, `into_inner` | the future it holds | transparent: same poll, same wakes |
| `state_machine/two_state.rs` | the count left | `poll` | wakes itself | `n` pending polls, then ready for good |
| `fused.rs` | – | `is_terminated` | `Fuse`, `MaybeDone` | terminated exactly from completion on |
| `testing.rs` | a wake counter | `poll_once`, `poll_until_ready` | tests | counts polls from 1 to the limit, inclusive |
| `advanced/pinning.rs` | a value; a future | `poll` | the owner who may move it | what borrows from itself is never moved |
| `advanced/poll_fn.rs` | a closure | `poll` | – | the closure's answers and wakes, unchanged |

The hard behaviours, each listed with its line in `PROJECT.json` (`hazards`):

* *two threads*: the Sender stores and looks for a waker while a poll checks
  and registers; a leaf completes on another thread between the polls of the
  two branches of a combinator;
* *migration*: a future moves to another task between polls, and the waker
  stored for the old task is worth nothing;
* *locks and user code*: `wake`, and the clone and drop of a waker, run code
  of the executor, which may poll on the spot, drop a task or panic;
* *ordering*: value before close, left before right, value before deadline,
  every branch before any decision;
* *protocol*: what a future does when polled after completion, and who keeps
  it from being polled;
* *moving*: who may move a future that has been polled, or take it out of its
  wrapper, and where an `Unpin` written by hand would let them.

## Modules

### The channel

| module | contents |
|---|---|
| `OneShot` | the promise: a value is handed over at most once, a hang-up happens at most once, a Receiver that is not dropped is told, the value first. No lock, waker or thread |
| `SharedState` | the code: every operation split where another thread can observe it |
| `SharedStateInv` | the inductive invariant `IInv`, in named parts |
| `LeafContract` | the strictest future completed from outside: check and register in one step, keep the newest waker, wake it once and not early |
| `FutureContract` | what any future promises the task that polls it, see [below](#the-contract-of-a-future) |
| `SharedStateRefinement` | `SharedState` as an implementation of `OneShot`, `LeafContract` and `FutureContract` |
| `SharedStateProofs` | lemmas and theorems |
| `MCSharedState` | what TLC runs |

The correspondence of `SharedState` to `shared_state.rs`:

* `value`, `waker`, `closed` are the fields of `Shared`; `lock` names the
  thread holding the `Mutex`, `poisoned` is its poison flag.
* `CallSend` → `SenderLock` → `StoreValue` → `TakeWaker` (which ends the block
  of the guard) → `Wake`, `NoOneToWake` or `WakeInline` is `send`. As `send`
  takes `self` by value, `SenderReturns` leads from it into `Drop::drop`, the
  same path with `StoreClosed`. `SenderPanic` is `lock().expect()` on a
  poisoned lock: it unwinds through `send`, drops `self`, and panics again.
* `PollBegin` → `PollLock` → `PollReady`, or `PollNoValue` → `PollClosed`, or
  `PollOpen` → `PollRegister` is `poll`. `PollPanic` and `PollDropsSender` are
  the two things the user code in the assignment of the waker may do:
  panic under the guard, or drop the task that owns the Sender.
* The executor is external. `scheduled` holds the tasks with a wake not served
  yet; `Migrate`, `Cancel` (the drop of the Receiver), `OtherWake` and
  `OtherTaskRuns` are what tasks do between polls. Polls of one Receiver do
  not overlap, as `poll` takes `Pin<&mut Self>`.
* `registrant` and `wakes` are history: only properties read them.

### The combinators

`Branches` is the surroundings of a combinator: two leaves that complete from
outside at any moment, a task, and its executor. A leaf is any future that
keeps `FutureContract`, in few steps: it may wake its task before it has
completed (`WakeEarly`), and complete without a wake while it is being polled,
as nobody waits for one then (`Fire`). `Join`, `TryJoin`
(both over `MaybeDone`), `Race`, `Timeout` and `Fuse` extend it with their
`poll`, one action per step between which another thread may act: the poll of a
branch is one step, the decision another. `Completion` is the promise of
`join`, `try_join`, `race` and `timeout`, parameterised by `Allowed`, the
results that what the leaves have completed with allows; the `MC*` modules
instantiate it and TLC checks the refinement.

`Timeout` adds what belongs to tokio, as far as the comments of `timeout.rs`
say the code relies on it: a clock, a timer that fires at the deadline or
later, and a cooperative budget, which when exhausted makes the Sleep answer
`Pending` at any time and schedules the task again. `Fuse` adds the loop of
the test `a_loop_can_skip_a_terminated_branch`, which is what `Fuse` exists
for. A branch of that loop may start out as `Fuse::terminated()`.

`MaybeDone` has the values of that wrapper and what a poll makes of one; the
variable that holds two of them, `branch`, is of `Join` and `TryJoin`. Each
combinator has a module of proofs (`JoinProofs`, …). What they share is in
`BranchesProofs`.

### The contract of a future

`FutureContract` is the promise in the documentation of `Future` that the
comments of `shared_state.rs`, `join.rs` and `race.rs` refer to, with a poll
that takes time:

* `Pends`: a poll that answers `Pending` either found no output, and from then
  on its task is owed a wake (`registered`), or has had that task scheduled
  already. A later poll replaces the task that is owed one (`Begin`);
* `Ripen` and `Wake`: an output that comes to be there, and a wake that comes
  early, settle what is owed;
* `Completes`: `Ready` is answered once, and only if there was an output;
* `Panics`: a panic is the end of the future.  Of the models here only the
  channel does it; the leaves of `Branches` do not.

The promise is used on both sides. The combinators are modelled over leaves
that keep it and do not panic, and each of `join`, `try_join`, `race` and `timeout` is shown to
keep it (`KeepsContract`, in the `MC*` modules: `Polling` and `Owed` of
`Branches` say what the combinator owes, `Ripe` when a poll would find an
output). Nor does the combinator panic then, so it may be the branch of a
combinator, and what is shown here of the safety of one level holds of any
nesting of them as long as no future in it panics. What is left to words is
that the leaves of `Branches` do all else that a keeper of `FutureContract`
may. Take such a leaf to complete (`Fire`) only during the poll that answers
`Ready`, which needs no wake, and take its poll to be the step in which the
contract ends one. A ripening is then an early wake (`WakeEarly`), as is a wake
that comes during the poll that pends, right after it; and a nested `race`,
which may change its mind until it is polled, has not completed before.

The channel is the other end of such a nesting. Seen through `owedTask` and
`outputIsThere` of `SharedStateRefinement` it keeps `FutureContract` as well,
with polls of many steps, a Sender that stores first and wakes after it has let
go of the lock, and wakers that panic; as a branch it is one that meets no such
waker. That it keeps `LeafContract` too says
more than its users need: its poll has one instant at which it checks and
registers, and it never wakes for nothing. It is seen there through
`completedWith`, `registeredWaker` and `wokenTask`: the channel counts as
completed when the Sender takes the waker out, and a poll that comes in between
the store and that moment waits for the lock.

### The sequential futures

| module | contents |
|---|---|
| `Futures` | every future of the crate as a record, nested as the wrappers are, and one layer of its poll: what it answers, how many times it wakes and what it leaves behind, given the polls of what lies in it; `is_terminated`, `clear`, `take_output`, `into_inner` are operators on the same records; `WellFormed` says which fields and values the types allow |
| `Polling` | who polls them: a driver by hand, or an executor. `Poll`, `Within` (what lies in a future) and `Outcome` (what it comes to) put the layers together, as functions on the set `Fut`; `Turns` is the loop of `poll_until_ready` |
| `PollingProofs` | lemmas and theorems about `Polling` |
| `Nesting` | `Poll`, `Unpin` and `poll_until_ready` once more, as recursive operators: for futures that come one by one |
| `Tests` | the crate's own sequential tests, replayed on `Nesting` step by step |
| `MCPolling` | the futures TLC tries, `TestsHold`, and `NestingAssumption`: `Poll` and `poll_until_ready` of `Polling` and of `Nesting` agree |

*By hand*, as the tests do with `poll_once` and a `CountingWaker`: at any time,
after completion too. In between, the holder may move the future, clear it, or
take it out of its wrapper, as far as the types allow: `MayMove` says that
whoever has pinned a future that is not `Unpin` no longer owns it. `place` is
where the future lies, so that `StaysPut` can say what pinning is for.

*An executor* with one thread and a queue: a wake puts a task at the end of
the queue, and the task at the head keeps the thread until its poll answers
`Pending`. The other task does nothing but `loop { yield_now().await }`, which
is the long loop that the module comment of `yield_now.rs` speaks of.

`Fut` is whatever the values of the types can become: it has the parts of its
futures, what a poll, `take_output` or `clear` makes of them, and no other
demands are put on it (`PollingAssumption`). `Given` has those the driver may
start with: none has completed (`Live`), nor started an async block.

`Outcome` says what a future comes to, on which poll and with which output, as
its documentation would have it: a wrapper on the poll of what it holds, `join`
with the later of its branches, `race` and `timeout` with the earlier. It is
composed of the outcomes of the parts and never looks at `Poll`.

`async` and `sleep` stand for the compiler's async blocks and tokio's `Sleep`;
they are external. A started async block borrows from itself.

`Tests` ties the model to the crate: 78 definitions, each named after a test
of the crate, with the same future, the same steps and the same asserted
answers, wake counts and poll counts. The tests that assert something the
model leaves out (text, size, output types, tokio's absolute clock) and those of
the channel, which are runs of `SharedState`, are not among them.

Definitions marked *Mutant* stand beside what they change. They are plausible
bugs, used by no specification, and each property is known to fail when one of
them takes the place of the definition it follows.

## Runs and what they show

| run | question | properties |
|---|---|---|
| `channel_safety` | do the four rules hold under all interleavings, with migration, cancellation, spurious wakes, inline executors and panicking wakers? | `NoLostWakeup`, `OutcomeIsWhatWasSent`, `NoSelfDeadlock`, `PoisonEndsTheChannel`, `WakesTheLastRegistrantOnce`, `TypeOK` |
| `channel_refines` | is the channel a one-shot hand-over, liveness included, does it check and register as if in one step, and is it a future the combinators may have as a branch, even when a task owns the Sender? | `ImplementsOneShot`, `ImplementsLeaf`, `KeepsContract` |
| `join` | does the round-by-round polling lose a wake or an output, or poll a finished branch again? | `NoLostWakeup`, `OutputsHeldOnce`, `ImplementsCompletion`, `KeepsContract` |
| `try_join` | the same, and which error wins? | `NoLostWakeup`, `OutputsHeldOnce`, `ErrorBias`, `ImplementsCompletion`, `KeepsContract` |
| `race` | who wins, and does either branch wake the task? | `NoLostWakeup`, `LeftBias`, `ImplementsCompletion`, `KeepsContract` |
| `timeout` | does it always end, and never with an unjustified `Elapsed`? | `NoLostWakeup`, `NoSpuriousTimeout`, `AlwaysCompletes`, `ImplementsCompletion`, `KeepsContract` |
| `fuse` | is each output handed on once, and does the loop end? | `NoLostWakeup`, `DeliveredOnce`, `LoopCompletes` |
| `polling` | does any nesting swallow a wake, complete on the wrong poll or with the wrong output, panic too early, deliver twice, move when it must not, or starve the task beside it; and does the model pass the crate's tests? | `PendingIsAPromise`, `WakesAreEnough`, `YieldResumes`, `PanicsOnlyAfterReady`, `DeliveredAtMostOnce`, `TerminatedWhenReady`, `CompletesAsComposed`, `StaysPut`, `TestsHold` |
| `channel_poison`, `channel_selflock`, `channel_stale`, `map_repoll` | violations, see [below](#where-code-and-words-disagree) | one each |

`TestsHold` includes `CountsPolls`: wherever a future has got to,
`poll_until_ready` returns the output and the number of polls that `Outcome`
has for it, or panics if it may make fewer. The type invariants of the
combinators are part of what is proved, and no run checks them on its own.

All runs switch off deadlock checking, because every one of these systems may
stop: a completed future is not polled again, and nothing has to be sent.
`NoSelfDeadlock` and the liveness properties say where stopping is wrong.

`NoLostWakeup` is the central property, in the channel and in `Branches`. It
relates a parked task (not polled, no wake queued) to what is stored: its own
waker, not that of an earlier task, is with whoever will complete it, and
nothing has been completed that it was not told about.

## Bounds

* *Tasks*: three in `channel_safety` (with symmetry), two elsewhere. Migration
  needs two. A third distinguishes "an earlier task" from "the other task".
* *Values*: two, so that a wrong value differs from the right one. `timeout`
  has one and `Elapsed`; `try_join` has two of each of `Ok` and `Err`.
* *Sender*: it is used once, by the type of `send`. The channel has no counter
  that needs a bound, as `wakes` is at most 1 (`WakesTheLastRegistrantOnce`).
* `MaxTime = 2`: a deadline that has passed, that is next, and that is later.
* `MaxDrains = 2`: the budget runs out twice, also in two polls in a row.
* `MaxCount = 2`, wrappers at most two deep, `MaxPolls = 5`: the longest
  future of the run completes on its third poll; two more polls see what comes
  after. Two levels are every pair of wrappers in both orders. `join`, `race`
  and `timeout` are tried over every pair of leaves, over wrapped leaves, over
  each other, and under every wrapper; `try_join` over every combination of
  `Ok`, `Err` and pending, at once and late. The executor needs no bound: it
  stops polling at `Ready`, and a queue of two tasks is the shortest in which
  one can starve the other.

## Fairness

Weak fairness is assumed of the steps of a `send`, `drop` or `poll` that is
under way (a running thread goes on) and of `PollBegin` (an executor polls a
task it was asked to poll). Nothing is assumed of the use of a Sender, the
completion of a leaf, migration or cancellation. `std`'s `Mutex` is not
assumed fair: under weak fairness a spuriously woken Receiver could lock it
time after time while the Sender waits, so the liveness of `OneShot` begins
where the value or the hang-up is in the shared state and not where `send` is
called. `Timeout` adds that time passes and that tokio fires a timer that is
due, which is what a timer is for.

In `Polling` only the thread of the executor is assumed to go on
(`RunIt \/ RunLoop`). That the tasks take turns is not assumed but a matter of
the queue, which is first in, first out, as `yield_now.rs` says ("the task is
re-queued, whatever else is waiting gets a turn"). A driver by hand may stop
whenever it likes.

## What is proved

### The channel

`SharedStateProofs`, for any sets of tasks and values, any executor (inline or
not), wakers that panic or not, and any owner of the Sender, from
`ConstantsAssumption` alone (which says that `None` and `Closed` are not
values or tasks, and what the other constants range over):

| theorem | statement |
|---|---|
| `Invariance` | `Spec => []IInv` |
| `TypeCorrect` | `Spec => []TypeOK` |
| `NeverLosesAWakeup` | `Spec => []NoLostWakeup` |
| `ReportsWhatWasSent` | `Spec => []OutcomeIsWhatWasSent` |
| `PoisonIsFinal` | `Spec => []PoisonEndsTheChannel` |
| `NeverLocksTwice` | `Spec => []NoSelfDeadlock`, if no task owns the Sender |
| `WakesOnce` | `Spec => WakesTheLastRegistrantOnce` |
| `ImplementsOneShotSafely` | `Spec => Channel!Init /\ [][Channel!Next]_Channel!vars` |
| `ImplementsLeafContract` | `Spec => ImplementsLeaf` |
| `KeepsItsContract` | `Spec => KeepsContract` |

Apart from `TypeOK` none of the properties is inductive. `NoLostWakeup`, for
one, is broken by a `PollRegister` in a state where the value is already there, and only the fact
that such a state cannot be reached saves it: the poll looked at `value` under
the lock and has held the lock since. So `IInv` has

* `LockInv`: who holds the Mutex is who is between lock and unlock;
* `ControlInv`: where the operations can be with respect to each other, an
  inline poll inside the `wake` of the Sender and a poisoned lock included;
* `DataInv`: what has been stored, delivered and closed by each point of
  `send` and `drop`;
* `ReadInv`: what poll has found absent under the lock is still absent
  (which needs `LockInv`);
* `WakeInv`: whose waker is stored or taken, and that none is after the wake;
* `TakeInv`: only one critical section completes the channel, that of `send`
  or of the drop of an unused Sender; it finds nobody told and nobody woken,
  and the drop that follows a `send` finds no waker;
* `TypeOK` and `NoLostWakeup` itself.

There is one lemma per part (`TypeStep`, `LockStep`, …), one step per action in
each, joined by `Inductive`. `StepSimulates` shows that under `IInv` a step of
the channel is a step of `OneShot` or a stutter, and `StepKeepsLeafContract`
the same of `LeafContract`, which has no fairness and is therefore implemented
in full. For `FutureContract`, which has none either, a step of the Sender is a
wake, a ripening or hidden (`SenderKeepsContract`), and a step of the Receiver
or of its executor one of a poll or hidden (`ReceiverKeepsContract`): the
value counts as there once its task is told, which `WakeInv` dates. `NeverLocksTwice` needs its hypothesis: without it the property is
false, see `channel_selflock`.

### The combinators

For any sets of tasks and outputs, and any `Errs`, clock and budget:

| module | proved of `Spec`, besides `TypeOK` and `NoLostWakeup` |
|---|---|
| `JoinProofs` | `KeepsContract`, `OutputsHeldOnce`, `NeverRepolled`, the safety part of `Completion` |
| `TryJoinProofs` | `KeepsContract`, `OutputsHeldOnce`, `ErrorBias`, the safety part of `Completion` |
| `RaceProofs` | `KeepsContract`, `LeftBias`, the safety part of `Completion` |
| `TimeoutProofs` | `KeepsContract`, `NoSpuriousTimeout`, the safety part of `Completion` |
| `FuseProofs` | `DeliveredOnce` |

The assumptions say that `None` is none of the tasks, outputs and results
(an `Option` tells `None` from every `Some`), and what the other constants
range over.

`NoLostWakeup` speaks of a parked owner, and is no invariant of a poll: on the
way to `Pending` the poll asks one branch after the other, while leaves
complete and other wakes arrive. `WakeInv` of `BranchesProofs` speaks of the
branches the poll has come to so far (`Asked`): each of them, if it is still
running, is pending and has the owner's waker, or owes it nothing because it
has woken it (`Watched`). At the end of a poll that is every branch, and
`NoLostWakeup` follows (`NoWakeIsLost`). How leaves, tasks and polls of a leaf
preserve it is proved once (`FireKeeps`, `WakeEarlyKeeps`, `OutsideNextKeeps`,
`BeginKeeps`, `ReadyKeeps`, `PendingKeeps`) and used by all five. A combinator adds

* `PollInv`, a poll is under way only until there is a result;
* `SeenInv`, where a property looks back to what had completed when the poll
  began (`seen`): those leaves have completed still;
* where the outputs are: `OutputsHeldOnce` in `Join`, with `ErrorPlace` (an
  `Err` stays in its branch only until it is checked) and `RoundInv` in
  `TryJoin`; `WinnerInv` in `Race`; `RunningInv` and `FiredInv` (the timer not
  before the deadline) in `Timeout`; `LiveInv` in `Fuse`.

`KeepsItsContract`, that the combinator is a future in its turn, follows from
the same invariants, one case per action. A step between the first and the last
of a poll shows nothing (`PollGoesOn`). The last one of a poll that pends is
honest (`PendsHonestly`): either every running branch is still to wake the
owner, and then the combinator is not ripe and owes the owner a wake, or one of
them has, and then the owner is scheduled. Between polls, the first branch to
wake the owner settles what is owed (`FireWakes`, `OutsideWakes`).

Each of these invariants was first checked by TLC on the instance of the run.

### The sequential futures

`PollingProofs`, for any set `Fut` of futures of any kind and nesting and any
bound on the polls:

| theorem | statement |
|---|---|
| `Invariance` | `Spec => []IInv` |
| `NeverPanicsEarly` | `Spec => []PanicsOnlyAfterReady` |
| `DeliversOnce` | `Spec => []DeliveredAtMostOnce` |
| `TerminatesWhenReady` | `Spec => []TerminatedWhenReady` |
| `Composes` | `Spec => CompletesAsComposed` |
| `WakesArePassedOn` | `Spec => PendingIsAPromise` |
| `Pinned` | `Spec => StaysPut` |
| `CountsRight` | `Spec => []CountsPolls` |
| `WokenIsQueued` | `Spec => []Queued` |
| `ProgressIsBounded` | `Spec => EveryStepCounts` |

The run `polling` knows wrappers two deep and combinators three; these know no
bound. They are proved from `PollingAssumption`:

* a future in `Fut` is `WellFormed`, that is, a value of its type, and nests to
  some finite `Depth`. The one demand beyond types is on the closures of
  `poll_fn` (`Honest`), which have the contract of `Future` to keep themselves:
  they wake before they answer `Pending`, unless they never answer anything
  else. A closure that breaks it breaks it for whoever wraps it;
* `Fut` is closed under what lies in a future and under a poll, `take_output`
  and `clear`: `&mut self` leaves a value of the same type;
* the futures in `Given` are in `Fut`, `Live`, and not in need of their place.

TLC checks all of it on the futures of the run. The argument:

1. `Induction`: a set that has every future whose parts it has, has all of
   `Fut`; from the least depth that would be missing (`Least`). It is stated of
   sets, and each use names one (`{f \in Fut : …}`).
2. `Recursion`, `Unfolded`: the recursive functions exist and are what their
   definitions say, for each layer.
3. `PollTyped`, `OutcomeTyped`: a poll answers `Pending`, a panic or `Ready`,
   and leaves a future of the same kind.
4. `AllExact`: if a poll answers `Pending` then the outcome was for a later
   poll and is one poll nearer now, and the poll has woken unless nothing will
   come; if it answers `Ready` then the outcome was for this poll, with this
   output. One lemma per kind: a wrapper hands the outcome through
   (`WrapperExact`); for a combinator the outcome composed of what the branches
   come to one poll later is that of the combinator one poll later
   (`JoinSooner`, `RaceSooner`, `TryJoinSooner`), although a branch that has
   completed is polled on.
5. `AllSteady`: a live future does not panic, and is live if it answers
   `Pending`. `UnpinPolled`: what may be moved may be moved after a poll too.
6. `IInv` is kept by each action (`InitInv`, `PollOnceInv`, …, `NextInv`).
7. `CountsEveryPoll`: by `AllExact` and `AllSteady` the loop of
   `poll_until_ready` counts down the outcome of a live future, for any limit
   (`MaxPolls` or not); and before completion a future is live, by `IInv`.

None of the first six properties is inductive. `CompletesAsComposed` and
`PanicsOnlyAfterReady` hold of a step only if the polls so far have left the
future where it should be, so `IInv` relates the future as it was given to what
it is now:

* `Underway`: before completion, it is live, and what is left of the outcome is
  ahead of it, unless its holder has cleared it;
* `Spent`: after completion, what was moved out is gone for good;
* `Movable`: if the type given is `Unpin`, all that it has become may be moved;
  and before the first poll nothing needs its place. `StaysPut` rests on these
  two, as the holder may move at those two occasions;
* `Slots`: an emptied slot stays empty, and that of a `Fuse` or `MaybeDone`
  empties on completion.

TLC checked `IInv` on the instance of the run before it was proved.

The last two theorems are what the liveness of the executor rests on, all but
the fairness of its thread. `Queued`: the looping task is always in the queue,
once; the other one is in it at most once, and is in it as long as the future
has neither completed nor fallen silent; it has never panicked, so that whoever
heads the queue can run. `EveryStepCounts`: each step of the thread, one for
the looping task included, makes `StepsLeft` smaller, a number that is three
times the polls the future still takes and at most two for its turn. So
`WakesAreEnough` holds with a bound, three steps to a poll, in place of
"eventually".

### Only model-checked

Liveness (`ImplementsOneShot` and `ImplementsCompletion` beyond their safety
parts, `AlwaysCompletes`, `LoopCompletes`, `WakesAreEnough`, `YieldResumes`),
which along with `ENABLED` is out of the prover's reach, even where the
decreasing measure behind it is proved (`ProgressIsBounded`); and the crate's
tests (`TestsPass` in `TestsHold`), which are about single futures and need the
recursive operators of `Nesting`, which tlapm does not take. The other half of
`TestsHold` is `CountsRight`. `NoSelfDeadlock` is proved under a hypothesis only, and is
false without it.

## Where code and words disagree

* **`channel_poison`**: the comment on `Sender::lock` says that a poisoned
  lock is propagated. A waker that panics under the lock in `poll` makes
  `send` panic, unwinding drops the Sender, whose `Drop` calls the same
  `expect()`, and the second panic aborts the process.
* **`channel_selflock`**: rule 4 names, for a wake under the lock, a deadlock
  on the non-reentrant Mutex that the implementation avoids. The drop of the
  replaced waker still happens under the lock. If it is the last handle of a
  task that owns the unused Sender, `Drop for Sender` locks again on the same
  thread.
* **`channel_stale`**: `waker` is documented as "the waker of the task waiting
  on the value, if one is waiting". A dropped Receiver leaves it behind.
* **`map_repoll`**: `map.rs` says the empty `Option` turns a second poll into
  a panic. The inner future is polled first; over a `Fuse`, which answers
  `Pending`, the second poll pends forever.

## What is not modelled

* A branch that panics under `join`, `try_join`, `race`, `timeout` or `Fuse`
  while other threads act: the panic unwinds through the combinator's `poll`,
  which catches nothing, and the contract asks no more of a future that has
  panicked. Panics in nestings polled by hand are in `Polling`.
* A `wake` that panics: it runs outside the lock and poisons nothing.
* A `Receiver` polled after it completed: it would answer once more `Closed`,
  or register, and the contract of `Future` leaves it open.
* That the `unsafe` block of `poll_fn.rs` is sound for the compiler's aliasing
  rules: types, not behaviour. Its `poll` and which `PollFn` is `Unpin` are
  modelled.
* `pinning.rs:47-50` says that `maybe_done` uses `get_unchecked_mut`; it uses
  `pin_project!`. No behaviour depends on it, so no run shows it.
* Of the functions given to `map` only a few stand for all; formatting (`Debug`, the text of
  `Elapsed` and `Closed`) and the atomics of `CountingWaker` are left out.

## Plan

The order is by how hard the code is to test. All of it is done:

1. `OneShot`, `SharedState` and its refinement (two threads, one lock).
2. The inductive invariant and the proofs of the channel's safety.
3. `Branches` with `Join`, `TryJoin`, `Race`, `Timeout`, `Fuse`; `Completion`.
4. `Futures` and `Polling`: every sequential future, nested, and by hand.
5. A run queue under `yield_now`; `Unpin`, moves and `into_inner`; `poll_fn`;
   the crate's tests.
6. Proofs for the combinators.
7. `LeafContract`: the channel checks and registers as if in one step.
8. Proofs for the sequential futures: `Poll` and `Outcome` as functions, the
   induction over futures, and the invariant of whoever drives them.
9. `FutureContract`, expected of every branch and kept by the channel and by
   the four combinators that are futures.
10. `poll_until_ready` for every future and limit; the queue of the executor
    and the bound on its steps.

What could still be added is a model of a combinator over combinators with
threads, to have the composition of contracts as a theorem and not as an
argument. The safety of `Completion` under such a nesting would follow from it.
`Composes` and `WakesArePassedOn` are about nesting with one thread at a time.
