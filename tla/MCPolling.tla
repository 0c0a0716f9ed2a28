------------------------------ MODULE MCPolling ------------------------------
(***************************************************************************)
(* Polling checked by TLC on futures of every type of the crate: leaves    *)
(* under at most two wrappers, combinators over leaves and over wrapped    *)
(* leaves, and wrapped combinators.  Tests comes along.                    *)
(***************************************************************************)
EXTENDS Polling

CONSTANTS v, MaxCount, zero, one, two

N == INSTANCE Tests

\* A CountDown whose output, the number it started from, goes by a name.
Counter(n) == [CountDown(n) EXCEPT !.total = <<zero, one, two>>[n + 1]]

\* The closure of poll_fn.rs: it wakes and pends until it is called a second time.
Calls == <<Call(Pending, 1), Call(Ready(v), 0)>>

Leaves ==
  {ready(v), NotStructural(v), pending, yield_now, poll_fn(Calls), alt_poll_fn(Calls),
   poll_fn(<<Call(Pending, 0)>>)} \cup {Counter(n) : n \in 0 .. MaxCount}

\* SimpleWrapper and SimpleOptionFuture are futures only over an Unpin one.
Wrappers(S) ==
  UNION {{Finished(f), Structural(f), map(f, "identity"), OptionFuture(f), fuse(f),
          maybe_done(f), async(f)} : f \in S}
  \cup UNION {{SimpleWrapper(f), SimpleOptionFuture(f)} : f \in {g \in S : N!Unpin(g)}}

\* OptionFuture::none, SimpleOptionFuture::new(None), Fuse::terminated.
Empty == {OptionFuture(None), SimpleOptionFuture(None), fuse(None)}

Signals == {ShutdownSignal(f) : f \in {ready([ok |-> v]), ready([err |-> v])}}

\* Futures whose output is a Result.
Fallible ==
  {ready([ok |-> v]), ready([err |-> v]), pending}
  \cup {map(Counter(n), fn) : n \in 1 .. MaxCount, fn \in {"Ok", "Err"}}

Some == {ready(v), pending, Counter(1), fuse(Counter(2)), async(yield_now)}

Pairs(S) == {join(a, b) : a, b \in S} \cup {race(a, b) : a, b \in S}

Timeouts(S) == {timeout(d, f) : d \in {0, 1}, f \in S}

Combined ==
  Pairs(Leaves) \cup Pairs(Some) \cup Timeouts(Leaves \cup Some)
  \cup {try_join(a, b) : a, b \in Fallible}

Once == Leaves \cup Empty \cup Signals \cup Wrappers(Leaves)

MCGiven ==
  Once \cup Wrappers(Once) \cup Combined \cup Wrappers(Pairs(Some) \cup Timeouts(Some))
  \cup Pairs({join(Counter(1), async(yield_now)), timeout(1, Counter(1)), pending})

RECURSIVE MCDepth(_)
MCDepth(f) ==
  LET below == {MCDepth(g) : g \in PartsOf(f)} IN
    IF below = {} THEN 0 ELSE 1 + CHOOSE n \in below : \A m \in below : m <= n

\* S, what lies in its futures and what may become of them.
RECURSIVE Closure(_)
Closure(S) ==
  LET T == S \cup UNION {PartsOf(f) \cup {N!Poll(f).next} : f \in S}
             \cup {take_output(f) : f \in {g \in S : g.kind = "MaybeDone"}}
             \cup {clear(f) : f \in {g \in S : g.kind = "Option"}}
  IN IF T = S THEN S ELSE Closure(T)

\* In two steps: TLC keeps the value of a definition, but not of one that is put
\* for a constant.
Reachable == Closure(MCGiven)
MCFut     == Reachable

\* The two ways to look into a future agree.
ASSUME NestingAssumption ==
  /\ \A f \in Fut : Poll[f] = N!Poll(f)
  /\ \A f \in Given, max \in 0 .. MaxPolls : Turns[max][f] = N!PollUntilReady(f, 1, max)
-----------------------------------------------------------------------------
(* What the crate's tests say of poll results, wake counts, poll counts    *)
(* and Unpin holds of the model, and poll_until_ready, with which some of  *)
(* them count, counts right for every future.  No variable occurs in       *)
(* TestsPass, so it is enough to look at it in one initial state.          *)
TestsHold == CountsPolls /\ ((start = pending /\ polls = 0) => N!TestsPass)
=============================================================================
