---------------------------- MODULE PollingProofs ----------------------------
(***************************************************************************)
(* Proofs about Polling for any futures, nested to any depth: by induction *)
(* over the depth of a future, what one poll does to it; from that, what   *)
(* holds of whoever polls it, moves it and takes it apart.                 *)
(***************************************************************************)
EXTENDS Polling, FiniteSets, FiniteSetTheorems, SequenceTheorems, WellFoundedInduction, TLAPS

-----------------------------------------------------------------------------
(* Induction over futures, and functions defined by recursion on them.     *)

(* Every non-empty set of numbers has a least one.                         *)
LEMMA Least ==
  ASSUME NEW T \in SUBSET Nat, T # {}
  PROVE  \E m \in T : \A k \in T : m <= k
<1>1. PICK t \in T : TRUE
  OBVIOUS
<1> DEFINE below == {0 .. k : k \in {j \in T : j <= t}}
<1>2. IsWellFoundedOn(StrictSubsetOrdering(0 .. t), SUBSET (0 .. t))
  <2>1. IsFiniteSet(0 .. t)
    BY FS_Interval
  <2> QED BY <2>1, FS_StrictSubsetOrderingWellFounded, FS_FiniteSubsetsOfFinite
<1>3. below \subseteq SUBSET (0 .. t) /\ below # {}
  BY <1>1
<1>4. PICK x \in below : \A y \in below : ~(<<y, x>> \in StrictSubsetOrdering(0 .. t))
  BY <1>2, <1>3, WFMin
<1>5. PICK m \in T : m <= t /\ x = 0 .. m
  BY <1>4
<1>6. ASSUME NEW k \in T, k < m PROVE FALSE
  <2>1. 0 .. k \in below /\ 0 .. k \subseteq x /\ 0 .. k # x
    BY <1>5, <1>6
  <2> QED
    BY <1>3, <1>4, <2>1 DEF StrictSubsetOrdering
<1> QED BY <1>5, <1>6

(* A set that has every future whose parts it has, has every future.       *)
LEMMA Induction ==
  ASSUME NEW S, \A f \in Fut : PartsOf(f) \subseteq S => f \in S
  PROVE  Fut \subseteq S
<1> SUFFICES ASSUME Fut \ S # {} PROVE FALSE
  OBVIOUS
<1> DEFINE T == {Depth(f) : f \in Fut \ S}
<1>0. T \in SUBSET Nat /\ T # {}
  BY PollingAssumption
<1>1. PICK m \in T : \A k \in T : m <= k
  <2> HIDE DEF T
  <2> QED BY <1>0, Least
<1>2. PICK f \in Fut \ S : m = Depth(f)
  BY <1>1
<1>3. PartsOf(f) \subseteq S
  <2>1. ASSUME NEW g \in PartsOf(f), g \notin S PROVE FALSE
    <3>1. g \in Fut /\ Depth(g) \in Nat /\ Depth(f) \in Nat /\ Depth(g) < Depth(f)
      BY PollingAssumption
    <3>2. Depth(f) <= Depth(g)
      BY <1>1, <1>2, <2>1, <3>1
    <3> QED BY <3>1, <3>2
  <2> QED BY <2>1
<1> QED BY <1>2, <1>3

\* What the three functions of Polling are, given their values w on the parts.
Layer(of, f, w) ==
  CASE of = "poll" ->
         IF Holds(f) THEN PollWrapper(f, w[f.inner])
         ELSE IF Branches(f) THEN PollBranches(f, w[f.a], w[f.b]) ELSE PollLeaf(f)
    [] of = "outcome" ->
         IF Holds(f) THEN OutcomeWrapper(f, w[f.inner])
         ELSE IF Branches(f) THEN OutcomeBranches(f, w[f.a], w[f.b]) ELSE OutcomeLeaf(f)
    [] of = "within" -> {f} \cup UNION {w[g] : g \in PartsOf(f)}

(* A layer looks no further than the parts.                                *)
LEMMA Layered ==
  ASSUME NEW of \in {"poll", "outcome", "within"}, NEW f, NEW v, NEW w,
         \A g \in PartsOf(f) : v[g] = w[g]
  PROVE  Layer(of, f, v) = Layer(of, f, w)
<1>1. {v[g] : g \in PartsOf(f)} = {w[g] : g \in PartsOf(f)}
  OBVIOUS
<1>2. Holds(f) => v[f.inner] = w[f.inner]
  BY DEF PartsOf
<1>3. ~Holds(f) /\ Branches(f) => v[f.a] = w[f.a] /\ v[f.b] = w[f.b]
  BY DEF PartsOf
<1> QED BY <1>1, <1>2, <1>3 DEF Layer

(* There is a function on Fut that is as its layers say.                   *)
LEMMA Recursion ==
  ASSUME NEW of \in {"poll", "outcome", "within"}
  PROVE  \E w : w = [f \in Fut |-> Layer(of, f, w)]
<1> DEFINE Solves(k, w) == \A f \in Fut : Depth(f) < k => w[f] = Layer(of, f, w)
<1>1. ASSUME NEW k \in Nat, NEW j \in Nat, NEW v, NEW w, Solves(k, v), Solves(j, w)
      PROVE  \A f \in Fut : Depth(f) < k /\ Depth(f) < j => v[f] = w[f]
  <2> DEFINE S == {f \in Fut : Depth(f) < k /\ Depth(f) < j => v[f] = w[f]}
  <2>1. ASSUME NEW f \in Fut, PartsOf(f) \subseteq S PROVE f \in S
    <3> SUFFICES ASSUME Depth(f) < k, Depth(f) < j PROVE v[f] = w[f]
      OBVIOUS
    <3>1. \A g \in PartsOf(f) : v[g] = w[g]
      BY <2>1, PollingAssumption
    <3>2. Layer(of, f, v) = Layer(of, f, w)
      BY <3>1, Layered
    <3> QED BY <1>1, <3>2
  <2>2. Fut \subseteq S
    BY <2>1, Induction
  <2> QED BY <2>2
<1>2. ASSUME NEW k \in Nat PROVE \E w : Solves(k, w)
  <2> SUFFICES ASSUME {n \in Nat : ~\E w : Solves(n, w)} # {} PROVE FALSE
    OBVIOUS
  <2>1. PICK m \in {n \in Nat : ~\E w : Solves(n, w)} :
          \A n \in {n \in Nat : ~\E w : Solves(n, w)} : m <= n
    BY Least
  <2>2. m # 0
    BY <2>1, PollingAssumption
  <2>3. PICK v : Solves(m - 1, v)
    BY <2>1, <2>2
  <2> DEFINE w == [f \in Fut |-> Layer(of, f, v)]
  <2>4. ASSUME NEW f \in Fut, Depth(f) < m PROVE w[f] = Layer(of, f, w)
    <3>1. \A g \in PartsOf(f) : v[g] = w[g]
      BY <2>1, <2>2, <2>3, <2>4, PollingAssumption
    <3>2. Layer(of, f, v) = Layer(of, f, w)
      BY <3>1, Layered
    <3> QED BY <3>2
  <2> QED BY <2>1, <2>4
<1> DEFINE at(f) == CHOOSE w : Solves(Depth(f) + 1, w)
           u     == [f \in Fut |-> at(f)[f]]
<1>3. ASSUME NEW f \in Fut PROVE Depth(f) + 1 \in Nat /\ Solves(Depth(f) + 1, at(f))
  BY <1>2, PollingAssumption
<1>4. ASSUME NEW f \in Fut PROVE u[f] = Layer(of, f, u)
  <2>1. ASSUME NEW g \in PartsOf(f) PROVE at(f)[g] = u[g]
    <3>1. g \in Fut /\ Depth(g) < Depth(f) /\ Depth(g) \in Nat /\ Depth(f) \in Nat
      BY PollingAssumption
    <3>2. Depth(g) < Depth(g) + 1 /\ Depth(g) < Depth(f) + 1
      BY <3>1
    <3>3. at(f)[g] = at(g)[g]
      BY <1>1, <1>3, <3>1, <3>2
    <3> QED BY <3>1, <3>3
  <2>2. at(f)[f] = Layer(of, f, at(f))
    <3>1. Depth(f) < Depth(f) + 1
      BY PollingAssumption
    <3> QED BY <1>3, <3>1
  <2>3. Layer(of, f, at(f)) = Layer(of, f, u)
    <3> HIDE DEF u, at
    <3> QED BY <2>1, Layered
  <2> QED BY <2>2, <2>3
<1>5. u = [f \in Fut |-> Layer(of, f, u)]
  BY <1>4
<1> QED BY <1>5

(* Poll, Outcome and Within are what their definitions say.                *)
LEMMA Unfolded ==
  ASSUME NEW f \in Fut
  PROVE  /\ Poll[f] = Layer("poll", f, Poll)
         /\ Outcome[f] = Layer("outcome", f, Outcome)
         /\ Within[f] = Layer("within", f, Within)
<1>1. Poll[f] = Layer("poll", f, Poll)
  <2>1. PICK w : w = [g \in Fut |-> Layer("poll", g, w)]
    BY Recursion
  <2>2. \A g, p : (CASE Holds(g)    -> PollWrapper(g, p[g.inner])
                     [] Branches(g) -> PollBranches(g, p[g.a], p[g.b])
                     [] OTHER       -> PollLeaf(g)) = Layer("poll", g, p)
    BY DEF Layer, Holds, Wraps, Branches, Wrapping, Forwarding, Combining
  <2>3. Poll = [g \in Fut |-> Layer("poll", g, Poll)]
    BY <2>1, <2>2 DEF Poll
  <2> QED BY <2>3
<1>2. Outcome[f] = Layer("outcome", f, Outcome)
  <2>1. PICK w : w = [g \in Fut |-> Layer("outcome", g, w)]
    BY Recursion
  <2>2. \A g, p : (CASE Holds(g)    -> OutcomeWrapper(g, p[g.inner])
                     [] Branches(g) -> OutcomeBranches(g, p[g.a], p[g.b])
                     [] OTHER       -> OutcomeLeaf(g)) = Layer("outcome", g, p)
    BY DEF Layer, Holds, Wraps, Branches, Wrapping, Forwarding, Combining
  <2>3. Outcome = [g \in Fut |-> Layer("outcome", g, Outcome)]
    BY <2>1, <2>2 DEF Outcome
  <2> QED BY <2>3
<1>3. Within[f] = Layer("within", f, Within)
  <2>1. PICK w : w = [g \in Fut |-> Layer("within", g, w)]
    BY Recursion
  <2>2. w = [g \in Fut |-> {g} \cup UNION {w[h] : h \in PartsOf(g)}]
    BY <2>1 DEF Layer
  <2>3. Within = [g \in Fut |-> {g} \cup UNION {Within[h] : h \in PartsOf(g)}]
    BY <2>2, Zenon DEF Within
  <2> QED BY <2>3 DEF Layer
<1> QED BY <1>1, <1>2, <1>3

-----------------------------------------------------------------------------
(* The kinds of futures, and the fields each has.                          *)
LEMMA Shapes ==
  ASSUME NEW f \in Fut
  PROVE  /\ \/ f.kind \in {"Ready", "NotStructural", "Pending", "YieldNow", "CountDown", "PollFn", "Sleep"}
            \/ f.kind \in Wrapping \/ f.kind \in Combining
         /\ f.kind \in {"Ready", "NotStructural"} => f = [kind |-> f.kind, value |-> f.value]
         /\ f.kind = "Pending" => f = [kind |-> "Pending"]
         /\ f.kind = "YieldNow" => /\ f = [kind |-> "YieldNow", yielded |-> f.yielded]
                                   /\ f.yielded \in BOOLEAN
         /\ f.kind = "CountDown" =>
              /\ f = [kind |-> "CountDown", remaining |-> f.remaining, total |-> f.total]
              /\ f.remaining \in Nat
         /\ f.kind = "PollFn" => /\ f = [kind |-> "PollFn", calls |-> f.calls, unpin |-> f.unpin]
                                 /\ f.unpin \in BOOLEAN /\ Honest(f.calls)
         /\ f.kind = "Sleep" => f = [kind |-> "Sleep", left |-> f.left] /\ f.left \in Nat
         /\ f.kind \in Forwarding \cup {"ShutdownSignal"} =>
              f = [kind |-> f.kind, inner |-> f.inner] /\ f.inner # None
         /\ f.kind = "Map" => f = [kind |-> "Map", inner |-> f.inner, fn |-> f.fn] /\ f.inner # None
         /\ f.kind \in {"Option", "SimpleOption", "Fuse"} => f = [kind |-> f.kind, inner |-> f.inner]
         /\ f.kind = "Async" => f = [kind |-> "Async", inner |-> f.inner, started |-> f.started]
         /\ f.kind = "MaybeDone" =>
              /\ f = [kind |-> "MaybeDone", inner |-> f.inner, variant |-> f.variant, output |-> f.output]
              /\ f.variant \in {"Future", "Done", "Gone"} /\ (f.inner = None <=> f.variant # "Future")
         /\ f.kind \in Combining => f = [kind |-> f.kind, a |-> f.a, b |-> f.b]
         /\ f.kind \in {"Join", "TryJoin"} => f.a.kind = "MaybeDone" /\ f.b.kind = "MaybeDone"
         /\ f.kind = "Timeout" => f.b.kind = "Sleep"
<1>1. WellFormed(f)
  BY PollingAssumption
<1>2. CASE f.kind = "YieldNow"
  BY <1>1, <1>2 DEF WellFormed, Wrapping, Forwarding, Combining, pending, sleep, map
<1>3. CASE f.kind # "YieldNow"
  BY <1>1, <1>3 DEF WellFormed, Wrapping, Forwarding, Combining, pending, sleep, map
<1> QED BY <1>2, <1>3

(* A future holds another, or has two branches, or is a leaf; and so are   *)
(* its poll, its outcome and what lies within it.                          *)
LEMMA Cases ==
  ASSUME NEW f \in Fut
  PROVE  \/ /\ Holds(f) /\ ~Branches(f) /\ f.inner \in Fut /\ PartsOf(f) = {f.inner}
            /\ Poll[f] = PollWrapper(f, Poll[f.inner])
            /\ Outcome[f] = OutcomeWrapper(f, Outcome[f.inner])
            /\ Within[f] = {f} \cup Within[f.inner]
         \/ /\ ~Holds(f) /\ Branches(f) /\ f.a \in Fut /\ f.b \in Fut /\ PartsOf(f) = {f.a, f.b}
            /\ Poll[f] = PollBranches(f, Poll[f.a], Poll[f.b])
            /\ Outcome[f] = OutcomeBranches(f, Outcome[f.a], Outcome[f.b])
            /\ Within[f] = {f} \cup Within[f.a] \cup Within[f.b]
         \/ /\ ~Holds(f) /\ ~Branches(f) /\ PartsOf(f) = {}
            /\ Poll[f] = PollLeaf(f) /\ Outcome[f] = OutcomeLeaf(f) /\ Within[f] = {f}
<1>1. \A g \in PartsOf(f) : g \in Fut
  BY PollingAssumption
<1>2. ~(Holds(f) /\ Branches(f))
  BY DEF Holds, Wraps, Branches, Wrapping, Forwarding, Combining
<1>3. CASE Holds(f)
  <2>1. PartsOf(f) = {f.inner}
    BY <1>3 DEF PartsOf
  <2> QED BY <1>1, <1>2, <1>3, <2>1, Unfolded DEF Layer
<1>4. CASE ~Holds(f) /\ Branches(f)
  <2>1. PartsOf(f) = {f.a, f.b}
    BY <1>4 DEF PartsOf
  <2> QED BY <1>1, <1>4, <2>1, Unfolded DEF Layer
<1>5. CASE ~Holds(f) /\ ~Branches(f)
  <2>1. PartsOf(f) = {}
    BY <1>5 DEF PartsOf
  <2> QED BY <1>1, <1>5, <2>1, Unfolded DEF Layer
<1> QED BY <1>3, <1>4, <1>5

\* A poll answers one thing, wakes so many times and leaves the same kind of future.
Answers(p) == p.answer = Pending \/ p.answer = Panic \/ p.answer = Ready(p.answer.value)
Typed(f, p) == Answers(p) /\ p.wakes \in Nat /\ p.next.kind = f.kind

(* The first and the last call of an honest closure.                       *)
LEMMA Calls ==
  ASSUME NEW calls, Honest(calls)
  PROVE  /\ Len(calls) \in Nat \ {0} /\ Head(calls) = calls[1]
         /\ Len(calls) = 1 =>
              \/ calls[1].answer = Pending /\ calls[1].wakes = 0
              \/ calls[1].answer = Ready(calls[1].answer.value) /\ calls[1].wakes \in Nat
         /\ Len(calls) # 1 =>
              /\ calls[1].answer = Pending /\ calls[1].wakes \in Nat \ {0}
              /\ Len(Tail(calls)) = Len(calls) - 1
              /\ Tail(calls)[Len(calls) - 1] = calls[Len(calls)]
              /\ calls[Len(calls)].answer = Ready(calls[Len(calls)].answer.value)
<1> DEFINE S == {calls[i] : i \in DOMAIN calls}
<1>1. calls \in Seq(S) /\ calls # <<>>
  BY DEF Honest
<1> HIDE DEF S
<1>2. Len(calls) \in Nat \ {0} /\ Head(calls) = calls[1]
  BY <1>1
<1>3. CASE calls = <<Call(Pending, 0)>>
  BY <1>3 DEF Call
<1>4. CASE calls # <<Call(Pending, 0)>>
  <2>1. /\ \A i \in 1 .. Len(calls) - 1 : calls[i].answer = Pending /\ calls[i].wakes \in Nat \ {0}
        /\ calls[Len(calls)] = Call(Ready(calls[Len(calls)].answer.value), calls[Len(calls)].wakes)
        /\ calls[Len(calls)].wakes \in Nat
    BY <1>4 DEF Honest
  <2>2. ASSUME Len(calls) # 1
        PROVE  Len(Tail(calls)) = Len(calls) - 1 /\ Tail(calls)[Len(calls) - 1] = calls[Len(calls)]
    <3>1. Len(Tail(calls)) = Len(calls) - 1 /\ \A i \in 1 .. Len(calls) - 1 : Tail(calls)[i] = calls[i + 1]
      BY <1>1, HeadTailProperties
    <3>2. Len(calls) - 1 \in 1 .. Len(calls) - 1 /\ (Len(calls) - 1) + 1 = Len(calls)
      BY <1>2, <2>2
    <3> QED BY <3>1, <3>2
  <2>3. ASSUME Len(calls) # 1 PROVE calls[1].answer = Pending /\ calls[1].wakes \in Nat \ {0}
    <3>1. 1 \in 1 .. Len(calls) - 1
      BY <1>2, <2>3
    <3> QED BY <2>1, <3>1
  <2>4. calls[Len(calls)].answer = Ready(calls[Len(calls)].answer.value)
    <3> DEFINE c == calls[Len(calls)]
    <3>1. c = Call(Ready(c.answer.value), c.wakes)
      BY <2>1
    <3> HIDE DEF c
    <3>2. c.answer = Ready(c.answer.value)
      BY <3>1 DEF Call
    <3> QED BY <3>2 DEF c
  <2> QED BY <1>2, <2>1, <2>2, <2>3, <2>4
<1> QED BY <1>3, <1>4

LEMMA LeafTyped ==
  ASSUME NEW f \in Fut, ~Holds(f), ~Branches(f)
  PROVE  Typed(f, PollLeaf(f))
<1>1. CASE f.kind = "PollFn"
  <2>1. /\ PollLeaf(f) = PollPollFn(f) /\ Honest(f.calls)
        /\ f = [kind |-> "PollFn", calls |-> f.calls, unpin |-> f.unpin]
    BY <1>1, Shapes DEF PollLeaf, Wraps, Wrapping, Forwarding
  <2>2. Len(f.calls) \in Nat \ {0} /\ Head(f.calls) = f.calls[1]
    BY <2>1, Calls
  <2>3. Answers(f.calls[1]) /\ f.calls[1].wakes \in Nat
    BY <2>1, Calls DEF Answers
  <2> QED
    BY <2>1, <2>2, <2>3 DEF PollPollFn, Polled, Typed, Answers
<1>2. CASE Wraps(f)
  <2>1. f.kind \in {"Option", "SimpleOption", "Fuse", "MaybeDone", "Async"}
    BY <1>2, Shapes DEF Holds, Wraps, Wrapping, Forwarding
  <2>2. PollLeaf(f) = PollEmpty(f)
    BY <1>2, <2>1 DEF PollLeaf
  <2> QED BY <2>1, <2>2 DEF PollEmpty, Polled, Typed, Answers, Ready, Pending, Panic
<1>3. CASE f.kind \in {"Ready", "NotStructural", "Pending", "YieldNow", "CountDown", "Sleep"}
  BY <1>3, Shapes DEF Wraps, Wrapping, Forwarding, PollLeaf, PollReady, PollPending, PollYieldNow,
    PollCountDown, PollSleep, Polled, Typed, Answers, Ready, Pending, Panic
<1> QED
  BY <1>1, <1>2, <1>3, Shapes DEF Branches, Wraps

(* The fields of a future that holds another, after a step of its own.      *)
LEMMA WrapperFields ==
  ASSUME NEW f \in Fut, Holds(f), NEW x, NEW y
  PROVE  LET g == [f EXCEPT !.inner = x]
             h == [[f EXCEPT !.fn = None] EXCEPT !.inner = x]
             m == [f EXCEPT !.inner = None, !.variant = "Done", !.output = y]
             s == [[f EXCEPT !.started = TRUE] EXCEPT !.inner = x]
         IN /\ g.kind = f.kind /\ g.inner = x
            /\ f.kind = "Map" => g.fn = f.fn /\ h.kind = f.kind /\ h.inner = x /\ h.fn = None
            /\ f.kind = "MaybeDone" =>
                 /\ g.variant = f.variant
                 /\ m.kind = f.kind /\ m.inner = None /\ m.variant = "Done" /\ m.output = y
            /\ f.kind = "Async" => s.kind = f.kind /\ s.inner = x /\ s.started
<1>1. CASE f.kind \in Forwarding \cup {"ShutdownSignal", "Option", "SimpleOption", "Fuse"}
  <2>1. f = [kind |-> f.kind, inner |-> f.inner]
    BY <1>1, Shapes
  <2> QED BY <1>1, <2>1 DEF Forwarding
<1>2. CASE f.kind = "Map"
  <2>1. f = [kind |-> "Map", inner |-> f.inner, fn |-> f.fn]
    BY <1>2, Shapes
  <2> QED BY <1>2, <2>1
<1>3. CASE f.kind = "MaybeDone"
  <2>1. f = [kind |-> "MaybeDone", inner |-> f.inner, variant |-> f.variant, output |-> f.output]
    BY <1>3, Shapes
  <2> QED BY <1>3, <2>1
<1>4. CASE f.kind = "Async"
  <2>1. f = [kind |-> "Async", inner |-> f.inner, started |-> f.started]
    BY <1>4, Shapes
  <2> QED BY <1>4, <2>1
<1> QED BY <1>1, <1>2, <1>3, <1>4 DEF Holds, Wraps, Wrapping

(* What a wrapper makes of the poll p of what it holds: it passes Pending  *)
(* and a panic on; it changes an output, and may drop what has completed.  *)
LEMMA WrapperPolled ==
  ASSUME NEW f \in Fut, Holds(f), NEW p, Answers(p)
  PROVE  LET r == PollWrapper(f, p)
             w == p.answer.value
         IN /\ r.wakes = p.wakes /\ r.next.kind = f.kind
            /\ ~IsReady(p) =>
                 /\ r.answer = p.answer /\ r.next.inner = p.next
                 /\ f.kind = "Map" => r.next.fn = f.fn
                 /\ f.kind = "MaybeDone" => r.next.variant = f.variant
            /\ IsReady(p) =>
                 /\ IF f.kind = "Map" /\ f.fn = None THEN r.answer = Panic
                    ELSE r.answer = Ready(IF f.kind = "MaybeDone" THEN Unit ELSE Output(f, w))
                 /\ r.next.inner = IF f.kind \in {"SimpleOption", "Fuse", "MaybeDone", "Async"}
                                   THEN None ELSE p.next
                 /\ f.kind = "Map" => r.next.fn = None
                 /\ f.kind = "MaybeDone" => r.next.variant = "Done" /\ r.next.output = w
<1> DEFINE w == p.answer.value
<1>1. IsReady(p) => p.answer = Ready(w)
  BY DEF Answers, IsReady, Pending, Panic
<1>2. f.kind \in Wrapping
  BY DEF Holds, Wraps
<1> DEFINE g == [f EXCEPT !.inner = p.next]
           n == [f EXCEPT !.inner = None]
           h == [[f EXCEPT !.fn = None] EXCEPT !.inner = p.next]
           m == [f EXCEPT !.inner = None, !.variant = "Done", !.output = w]
           s == [[f EXCEPT !.started = TRUE] EXCEPT !.inner = p.next]
<1>a. /\ g.kind = f.kind /\ g.inner = p.next /\ n.kind = f.kind /\ n.inner = None
      /\ f.kind = "Map" => g.fn = f.fn /\ h.kind = f.kind /\ h.inner = p.next /\ h.fn = None
      /\ f.kind = "MaybeDone" =>
           /\ g.variant = f.variant
           /\ m.kind = f.kind /\ m.inner = None /\ m.variant = "Done" /\ m.output = w
      /\ f.kind = "Async" => s.kind = f.kind /\ s.inner = p.next
  BY WrapperFields
<1>b. \A x, y, z : Polled(x, y, z).next = x /\ Polled(x, y, z).answer = y /\ Polled(x, y, z).wakes = z
  BY DEF Polled
<1> HIDE DEF w, g, n, h, m, s
<1>3. CASE f.kind \in Forwarding
  <2>1. /\ PollWrapper(f, p) = Polled(g, p.answer, p.wakes)
        /\ Output(f, w) = w
    BY <1>1, <1>3 DEF PollWrapper, Forwarding, PollFinished, Passed, Output, w, g, n, h, m, s
  <2> QED BY <1>1, <1>3, <2>1, <1>a, <1>b DEF Forwarding, w
<1>4. CASE f.kind = "ShutdownSignal"
  <2>1. /\ PollWrapper(f, p) = IF IsReady(p) THEN Polled(g, Ready(Output(f, w)), p.wakes)
                               ELSE Polled(g, p.answer, p.wakes)
    BY <1>1, <1>4 DEF PollWrapper, Forwarding, PollShutdownSignal, Passed, Output, w, g, n, h, m, s
  <2> QED BY <1>1, <1>4, <2>1, <1>a, <1>b DEF Forwarding, w
<1>5. CASE f.kind = "Map"
  <2>1. /\ PollWrapper(f, p) = IF ~IsReady(p) THEN Polled(g, p.answer, p.wakes)
                               ELSE IF f.fn = None THEN Polled(g, Panic, p.wakes)
                               ELSE Polled(h, Ready(Output(f, w)), p.wakes)
    BY <1>1, <1>5 DEF PollWrapper, Forwarding, PollMap, Passed, Output, w, g, h
  <2> QED BY <1>1, <1>5, <2>1, <1>a, <1>b DEF w
<1>6. CASE f.kind = "Option"
  <2>1. /\ PollWrapper(f, p) = IF IsReady(p) THEN Polled(g, Ready(Output(f, w)), p.wakes)
                               ELSE Polled(g, p.answer, p.wakes)
    BY <1>1, <1>6 DEF PollWrapper, Forwarding, PollOption, Passed, Output, w, g, n, h, m, s
  <2> QED BY <1>1, <1>6, <2>1, <1>a, <1>b DEF Forwarding, w
<1>7. CASE f.kind = "SimpleOption"
  <2>1. /\ PollWrapper(f, p) = IF IsReady(p) THEN Polled(n, Ready(Output(f, w)), p.wakes)
                               ELSE Polled(g, p.answer, p.wakes)
    BY <1>1, <1>7 DEF PollWrapper, Forwarding, PollSimpleOption, Passed, Output, w, g, n, h, m, s
  <2> QED BY <1>1, <1>7, <2>1, <1>a, <1>b DEF Forwarding, w
<1>8. CASE f.kind = "Fuse"
  <2>1. /\ PollWrapper(f, p) = IF IsReady(p) THEN Polled(n, Ready(Output(f, w)), p.wakes)
                               ELSE Polled(g, p.answer, p.wakes)
    BY <1>1, <1>8 DEF PollWrapper, Forwarding, PollFuse, Passed, Output, w, g, n, h, m, s
  <2> QED BY <1>1, <1>8, <2>1, <1>a, <1>b DEF Forwarding, w
<1>9. CASE f.kind = "MaybeDone"
  <2>1. /\ PollWrapper(f, p) = IF IsReady(p) THEN Polled(m, Ready(Unit), p.wakes)
                               ELSE Polled(g, p.answer, p.wakes)
    BY <1>1, <1>9 DEF PollWrapper, Forwarding, PollMaybeDone, Passed, Output, w, g, n, h, m, s
  <2> QED BY <1>1, <1>9, <2>1, <1>a, <1>b DEF Forwarding, w
<1>10. CASE f.kind = "Async"
  <2>1. /\ PollWrapper(f, p) = IF IsReady(p) THEN Polled(n, Ready(Output(f, w)), p.wakes)
                               ELSE Polled(s, p.answer, p.wakes)
    BY <1>1, <1>10 DEF PollWrapper, Forwarding, PollAsync, Passed, Output, w, g, n, h, m, s
  <2> QED BY <1>1, <1>10, <2>1, <1>a, <1>b DEF Forwarding, w
<1> QED BY <1>2, <1>3, <1>4, <1>5, <1>6, <1>7, <1>8, <1>9, <1>10 DEF Wrapping

LEMMA WrapperTyped ==
  ASSUME NEW f \in Fut, Holds(f), NEW p, Typed(f.inner, p)
  PROVE  Typed(f, PollWrapper(f, p))
<1> DEFINE r == PollWrapper(f, p)
<1>1. Answers(p) /\ p.wakes \in Nat
  BY DEF Typed
<1>2. /\ r.wakes = p.wakes /\ r.next.kind = f.kind
      /\ r.answer = p.answer \/ r.answer = Panic \/ \E v : r.answer = Ready(v)
  BY <1>1, WrapperPolled
<1>3. \A v : Ready(v).value = v
  BY DEF Ready
<1> HIDE DEF r
<1> QED BY <1>1, <1>2, <1>3 DEF Typed, Answers, r

LEMMA BranchesTyped ==
  ASSUME NEW f \in Fut, Branches(f), NEW pa, NEW pb, Typed(f.a, pa), Typed(f.b, pb)
  PROVE  Typed(f, PollBranches(f, pa, pb))
BY Shapes DEF Branches, Combining, PollBranches, PollJoin, PollTryJoin, PollRace, PollTimeout,
  Polled, PassedA, PassedBoth, IsReady, Panics, Typed, Answers, Ready, Pending, Panic

(* Every poll does, whatever the future nests.                             *)
LEMMA PollTyped ==
  ASSUME NEW f \in Fut PROVE Typed(f, Poll[f]) /\ Poll[f].next \in Fut
<1> DEFINE S == {g \in Fut : Typed(g, Poll[g])}
<1>1. ASSUME NEW g \in Fut, PartsOf(g) \subseteq S PROVE g \in S
  <2>1. CASE Holds(g)
    BY <1>1, <2>1, Cases, WrapperTyped
  <2>2. CASE Branches(g)
    BY <1>1, <2>2, Cases, BranchesTyped
  <2>3. CASE ~Holds(g) /\ ~Branches(g)
    BY <2>3, Cases, LeafTyped
  <2> QED BY <2>1, <2>2, <2>3
<1>2. Fut \subseteq S
  BY <1>1, Induction
<1> QED BY <1>2, PollingAssumption

-----------------------------------------------------------------------------
(* The outcome of a future is what its polls come to, one at a time.       *)

OutcomeOK(o) ==
  /\ o = [polls |-> o.polls, output |-> o.output, kept |-> o.kept, once |-> o.once]
  /\ o.polls \in Nat /\ (o.polls = 0 => o = Never)

LEMMA ComingOK ==
  ASSUME NEW n \in Nat \ {0}, NEW v
  PROVE  OutcomeOK(At(n, v)) /\ OutcomeOK(OnlyOnce(n, v)) /\ OutcomeOK(Keeping(n, v)) /\ OutcomeOK(Never)
BY DEF OutcomeOK, At, OnlyOnce, Keeping, Never, Coming

LEMMA LeafOutcomeOK ==
  ASSUME NEW f \in Fut, ~Holds(f), ~Branches(f)
  PROVE  OutcomeOK(OutcomeLeaf(f))
<1>1. CASE f.kind = "PollFn"
  <2>1. Len(f.calls) \in Nat \ {0}
    BY <1>1, Shapes, Calls
  <2> QED
    BY <1>1, <2>1, ComingOK DEF OutcomeLeaf
<1>2. CASE f.kind = "CountDown"
  <2>1. f.remaining + 1 \in Nat \ {0}
    BY <1>2, Shapes
  <2> QED
    BY <1>2, <2>1, ComingOK DEF OutcomeLeaf
<1>3. CASE f.kind \notin {"PollFn", "CountDown"}
  <2>1. \/ OutcomeLeaf(f) = OnlyOnce(1, f.value)
        \/ \E n \in {1, 2} : \E v : OutcomeLeaf(f) = At(n, v)
        \/ OutcomeLeaf(f) = Keeping(1, f.output)
        \/ OutcomeLeaf(f) = Never
    BY <1>3 DEF OutcomeLeaf
  <2>2. 1 \in Nat \ {0} /\ 2 \in Nat \ {0}
    OBVIOUS
  <2> QED BY <2>1, <2>2, ComingOK
<1> QED
  BY <1>1, <1>2, <1>3

LEMMA OutcomeTyped ==
  ASSUME NEW f \in Fut PROVE OutcomeOK(Outcome[f])
<1> DEFINE S == {g \in Fut : OutcomeOK(Outcome[g])}
<1>1. ASSUME NEW g \in Fut, PartsOf(g) \subseteq S PROVE g \in S
  <2>1. CASE Holds(g)
    <3>1. OutcomeOK(Outcome[g.inner]) /\ Outcome[g] = OutcomeWrapper(g, Outcome[g.inner])
      BY <1>1, <2>1, Cases
    <3>2. Comes(Outcome[g.inner]) => Outcome[g.inner].polls \in Nat \ {0}
      BY <3>1 DEF Comes, OutcomeOK
    <3> QED
      BY <3>1, <3>2, ComingOK DEF OutcomeWrapper
  <2>2. CASE Branches(g)
    <3> DEFINE oa == Outcome[g.a]
               ob == Outcome[g.b]
    <3>1. OutcomeOK(oa) /\ OutcomeOK(ob) /\ Outcome[g] = OutcomeBranches(g, oa, ob)
      BY <1>1, <2>2, Cases
    <3>2. /\ Comes(oa) => oa.polls \in Nat \ {0}
          /\ Comes(ob) => ob.polls \in Nat \ {0}
      BY <3>1 DEF Comes, OutcomeOK
    <3> HIDE DEF oa, ob
    <3> QED
      BY <2>2, <3>1, <3>2, ComingOK
         DEF Branches, Combining, OutcomeBranches, OutcomeJoin, OutcomeTryJoin, OutcomeRace,
             OutcomeTimeout, Fails, First, Later
  <2>3. CASE ~Holds(g) /\ ~Branches(g)
    BY <2>3, Cases, LeafOutcomeOK
  <2> QED BY <2>1, <2>2, <2>3
<1>2. Fut \subseteq S
  BY <1>1, Induction
<1> QED BY <1>2

\* The outcome o when one poll has been made towards it.
Sooner(o) == IF Comes(o) THEN Coming(o.polls - 1, o.output, o.kept, o.once) ELSE o

\* A poll of f answers Pending if the outcome is not for this one, and has woken if
\* it will come; it answers Ready when it has come, with the output.
Exact(f) ==
  LET p == Poll[f]
      o == Outcome[f]
  IN /\ p.answer = Pending =>
          o.polls # 1 /\ Outcome[p.next] = Sooner(o) /\ (Comes(o) => p.wakes > 0)
     /\ IsReady(p) =>
          /\ o.polls = 1 /\ p.answer = Ready(o.output)
          /\ o.once => ~Comes(Outcome[p.next])
          /\ f.kind = "MaybeDone" => /\ output_mut(p.next) = o.kept /\ Outcome[p.next] = o
                                     /\ p.next.variant = "Done"

(* The fields of an outcome, and of the one a poll later.                   *)
LEMMA Selected ==
  ASSUME NEW n, NEW v, NEW k, NEW b
  PROVE  /\ Coming(n, v, k, b).polls = n /\ Coming(n, v, k, b).output = v
         /\ Coming(n, v, k, b).kept = k /\ Coming(n, v, k, b).once = b
BY DEF Coming

LEMMA Fields ==
  /\ \A v, k, b : \A n \in Nat \ {0} :
       Comes(Coming(n, v, k, b)) /\ Sooner(Coming(n, v, k, b)) = Coming(n - 1, v, k, b)
  /\ ~Comes(Never) /\ Sooner(Never) = Never
<1>1. ASSUME NEW v, NEW k, NEW b, NEW n \in Nat \ {0}
      PROVE  Comes(Coming(n, v, k, b)) /\ Sooner(Coming(n, v, k, b)) = Coming(n - 1, v, k, b)
  BY Selected DEF Comes, Sooner
<1>2. Never.polls = 0
  BY DEF Never, At, Coming
<1> QED BY <1>1, <1>2 DEF Comes, Sooner

LEMMA WrapperOutcome ==
  ASSUME NEW f, NEW o
  PROVE  LET w == OutcomeWrapper(f, o) IN
         /\ ~Comes(o) \/ (f.kind = "Map" /\ f.fn = None) => w = Never
         /\ Comes(o) /\ ~(f.kind = "Map" /\ f.fn = None) =>
              /\ w.polls = o.polls
              /\ w.output = IF f.kind = "MaybeDone" THEN Unit ELSE Output(f, o.output)
              /\ f.kind = "MaybeDone" => w = Keeping(o.polls, o.output) /\ w.kept = o.output
              /\ w.once => \/ f.kind \in {"Map", "Fuse", "Async"}
                           \/ f.kind \in Forwarding \cup {"ShutdownSignal"} /\ o.once
<1>1. CASE ~Comes(o) \/ (f.kind = "Map" /\ f.fn = None)
  BY <1>1 DEF OutcomeWrapper
<1>2. CASE Comes(o) /\ ~(f.kind = "Map" /\ f.fn = None)
  <2> DEFINE w == OutcomeWrapper(f, o)
  <2>1. CASE f.kind = "MaybeDone"
    <3>1. w = Coming(o.polls, Unit, o.output, FALSE) /\ w = Keeping(o.polls, o.output)
      BY <1>2, <2>1 DEF OutcomeWrapper, Keeping
    <3> HIDE DEF w
    <3>2. w.polls = o.polls /\ w.output = Unit /\ w.kept = o.output /\ w.once = FALSE
      BY <3>1 DEF Coming
    <3> QED BY <1>2, <2>1, <3>1, <3>2 DEF w
  <2>2. CASE f.kind # "MaybeDone"
    <3> DEFINE b == f.kind \in {"Map", "Fuse", "Async"}
                    \/ (f.kind \in Forwarding \cup {"ShutdownSignal"} /\ o.once)
               v == Output(f, o.output)
    <3>1. w = IF b THEN Coming(o.polls, v, v, TRUE) ELSE Coming(o.polls, v, v, FALSE)
      BY <1>2, <2>2 DEF OutcomeWrapper, OnlyOnce, At
    <3> HIDE DEF w, b, v
    <3>2. w.polls = o.polls /\ w.output = v /\ (w.once => b)
      BY <3>1 DEF Coming
    <3> QED BY <1>2, <2>2, <3>2 DEF w, b, v
  <2> QED BY <2>1, <2>2
<1> QED BY <1>1, <1>2

LEMMA WrapperSooner ==
  ASSUME NEW f, NEW g, g.kind = f.kind, f.kind = "Map" => g.fn = f.fn,
         NEW o, OutcomeOK(o), o.polls # 1
  PROVE  OutcomeWrapper(g, Sooner(o)) = Sooner(OutcomeWrapper(f, o))
<1>1. CASE ~Comes(o)
  <2>1. Sooner(o) = o
    BY <1>1 DEF Sooner
  <2> QED BY <1>1, <2>1, Fields DEF OutcomeWrapper
<1>2. CASE Comes(o)
  <2> DEFINE n == o.polls
             s == Coming(n - 1, o.output, o.kept, o.once)
  <2>1. Sooner(o) = s /\ n \in Nat \ {0} /\ n - 1 # 0
    BY <1>2 DEF Sooner, OutcomeOK, Comes
  <2>2. s.polls = n - 1 /\ s.output = o.output /\ s.kept = o.kept /\ s.once = o.once /\ Comes(s)
    <3> HIDE DEF n
    <3> QED BY <2>1, Selected DEF Comes
  <2>3. Output(g, o.output) = Output(f, o.output)
    BY DEF Output
  <2> HIDE DEF n, s
  <2>4. CASE f.kind = "Map" /\ f.fn = None
    BY <2>1, <2>4, Fields DEF OutcomeWrapper
  <2>5. CASE ~(f.kind = "Map" /\ f.fn = None)
    <3> DEFINE b == f.kind \in {"Map", "Fuse", "Async"}
                    \/ (f.kind \in Forwarding \cup {"ShutdownSignal"} /\ o.once)
    <3>1. OutcomeWrapper(f, o) =
            IF f.kind = "MaybeDone" THEN Coming(n, Unit, o.output, FALSE)
            ELSE IF b THEN Coming(n, Output(f, o.output), Output(f, o.output), TRUE)
            ELSE Coming(n, Output(f, o.output), Output(f, o.output), FALSE)
      BY <1>2, <2>5 DEF OutcomeWrapper, At, OnlyOnce, Keeping, n
    <3>2. OutcomeWrapper(g, s) =
            IF f.kind = "MaybeDone" THEN Coming(n - 1, Unit, o.output, FALSE)
            ELSE IF b THEN Coming(n - 1, Output(f, o.output), Output(f, o.output), TRUE)
            ELSE Coming(n - 1, Output(f, o.output), Output(f, o.output), FALSE)
      BY <2>2, <2>3, <2>5 DEF OutcomeWrapper, At, OnlyOnce, Keeping
    <3> HIDE DEF b
    <3>3. n \in Nat \ {0}
      BY <2>1
    <3>4. \A v, k : /\ Sooner(Coming(n, v, k, TRUE)) = Coming(n - 1, v, k, TRUE)
                   /\ Sooner(Coming(n, v, k, FALSE)) = Coming(n - 1, v, k, FALSE)
      BY <3>3 DEF Sooner, Comes, Coming
    <3>5. CASE f.kind = "MaybeDone"
      BY <2>1, <3>1, <3>2, <3>4, <3>5 DEF Coming
    <3>6. CASE f.kind # "MaybeDone" /\ b
      BY <2>1, <3>1, <3>2, <3>4, <3>6 DEF Coming
    <3>7. CASE f.kind # "MaybeDone" /\ ~b
      BY <2>1, <3>1, <3>2, <3>4, <3>7 DEF Coming
    <3> QED BY <3>5, <3>6, <3>7
  <2> QED BY <2>4, <2>5
<1> QED BY <1>1, <1>2

LEMMA WrapperExact ==
  ASSUME NEW f \in Fut, Holds(f), Exact(f.inner)
  PROVE  Exact(f)
<1> DEFINE p  == Poll[f]
           q  == Poll[f.inner]
           o  == Outcome[f]
           oi == Outcome[f.inner]
<1>1. /\ f.inner \in Fut /\ p = PollWrapper(f, q) /\ o = OutcomeWrapper(f, oi)
      /\ p.next \in Fut /\ q.next \in Fut /\ q.next # None
      /\ Answers(p) /\ Answers(q)
  BY Cases, PollTyped, PollingAssumption DEF Typed
<1>2. OutcomeOK(oi) /\ OutcomeOK(Outcome[q.next])
  BY <1>1, OutcomeTyped
<1>3. /\ p.wakes = q.wakes /\ p.next.kind = f.kind
      /\ ~IsReady(q) =>
           p.answer = q.answer /\ p.next.inner = q.next /\ (f.kind = "Map" => p.next.fn = f.fn)
      /\ IsReady(q) =>
           /\ IF f.kind = "Map" /\ f.fn = None THEN p.answer = Panic
              ELSE p.answer = Ready(IF f.kind = "MaybeDone" THEN Unit ELSE Output(f, q.answer.value))
           /\ p.next.inner = IF f.kind \in {"SimpleOption", "Fuse", "MaybeDone", "Async"}
                             THEN None ELSE q.next
           /\ f.kind = "Map" => p.next.fn = None
           /\ f.kind = "MaybeDone" => p.next.variant = "Done" /\ p.next.output = q.answer.value
  BY <1>1, WrapperPolled
<1>4. \A v : Ready(v) # Pending /\ Ready(v) # Panic /\ Ready(v).is = "Ready" /\ Ready(v).value = v
  BY DEF Ready, Pending, Panic
<1>5. Pending # Panic /\ Pending.is # "Ready" /\ Panic.is # "Ready"
  BY DEF Pending, Panic
<1>6. p.next.inner = q.next => Outcome[p.next] = OutcomeWrapper(p.next, Outcome[q.next])
  BY <1>1, <1>3, Cases DEF Holds, Wraps
<1>7. /\ q.answer = Pending =>
           oi.polls # 1 /\ Outcome[q.next] = Sooner(oi) /\ (Comes(oi) => q.wakes > 0)
      /\ IsReady(q) =>
           oi.polls = 1 /\ q.answer = Ready(oi.output) /\ (oi.once => ~Comes(Outcome[q.next]))
  BY DEF Exact
<1> HIDE DEF p, q, o, oi
<1>8. CASE q.answer = Pending
  <2>1. p.answer = Pending /\ ~IsReady(p) /\ p.next.inner = q.next
    BY <1>3, <1>5, <1>8 DEF IsReady
  <2>2. Outcome[p.next] = Sooner(o)
    BY <1>1, <1>2, <1>3, <1>5, <1>6, <1>7, <1>8, <2>1, WrapperSooner DEF IsReady
  <2>3. o.polls # 1 /\ (Comes(o) => Comes(oi))
    BY <1>1, <1>7, <1>8, Fields, WrapperOutcome DEF Comes
  <2> QED
    BY <1>3, <1>7, <1>8, <2>1, <2>2, <2>3 DEF Exact, p, o
<1>9. CASE p.answer = Panic
  BY <1>5, <1>9 DEF Exact, IsReady, p
<1>10. CASE IsReady(q) /\ p.answer # Panic
  <2>1. p.answer = Ready(IF f.kind = "MaybeDone" THEN Unit ELSE Output(f, oi.output))
    BY <1>3, <1>4, <1>7, <1>10
  <2>2. Comes(oi) /\ ~(f.kind = "Map" /\ f.fn = None)
    BY <1>3, <1>4, <1>7, <1>10 DEF Comes
  <2>3. o.polls = 1 /\ p.answer = Ready(o.output) /\ p.answer # Pending
    BY <1>1, <1>4, <1>7, <1>10, <2>1, <2>2, WrapperOutcome
  <2>4. ASSUME o.once PROVE ~Comes(Outcome[p.next])
    <3>1. CASE f.kind \in Forwarding \cup {"ShutdownSignal"}
      <4>1. p.next.inner = q.next
        BY <1>3, <1>10, <3>1 DEF Forwarding
      <4>2. oi.once
        BY <1>1, <2>2, <2>4, <3>1, WrapperOutcome DEF Forwarding
      <4> QED BY <1>6, <1>7, <1>10, <4>1, <4>2, Fields DEF OutcomeWrapper
    <3>2. CASE f.kind = "Map"
      <4>1. p.next.inner = q.next /\ p.next.kind = "Map" /\ p.next.fn = None
        BY <1>3, <1>10, <3>2
      <4> QED BY <1>6, <4>1, Fields DEF OutcomeWrapper
    <3>3. CASE f.kind \in {"Fuse", "Async"}
      <4>1. p.next.inner = None /\ p.next.kind = f.kind
        BY <1>3, <1>10, <3>3
      <4>2. Outcome[p.next] = Never
        BY <1>1, <3>3, <4>1, Cases DEF Holds, Branches, Combining, OutcomeLeaf
      <4> QED BY <4>2, Fields
    <3>4. CASE f.kind \in {"MaybeDone", "Option", "SimpleOption"}
      <4>1. ~o.once
        BY <1>1, <2>2, <3>4, WrapperOutcome DEF Forwarding
      <4> QED BY <2>4, <4>1
    <3> QED
      BY <3>1, <3>2, <3>3, <3>4 DEF Holds, Wraps, Wrapping
  <2>5. ASSUME f.kind = "MaybeDone"
        PROVE  output_mut(p.next) = o.kept /\ Outcome[p.next] = o /\ p.next.variant = "Done"
    <3>1. /\ p.next.kind = "MaybeDone" /\ p.next.inner = None
          /\ p.next.variant = "Done" /\ p.next.output = oi.output
      BY <1>3, <1>4, <1>7, <1>10, <2>5
    <3>2. Outcome[p.next] = Keeping(1, oi.output)
      BY <1>1, <3>1, Cases DEF Holds, Branches, Combining, OutcomeLeaf
    <3>3. o = Keeping(1, oi.output) /\ o.kept = oi.output
      BY <1>1, <1>7, <1>10, <2>2, <2>5, WrapperOutcome
    <3> QED BY <3>1, <3>2, <3>3 DEF output_mut
  <2> QED BY <2>3, <2>4, <2>5 DEF Exact, p, o
<1>11. IsReady(q) \/ q.answer = Pending \/ p.answer = Panic
  BY <1>1, <1>3, <1>4, <1>5 DEF Answers, IsReady
<1> QED
  BY <1>8, <1>9, <1>10, <1>11

LEMMA LeafExact ==
  ASSUME NEW f \in Fut, ~Holds(f), ~Branches(f)
  PROVE  Exact(f)
<1> DEFINE p == Poll[f]
           o == Outcome[f]
<1>1. p = PollLeaf(f) /\ o = OutcomeLeaf(f) /\ p.next \in Fut /\ p.next.kind = f.kind
  BY Cases, PollTyped DEF Typed
<1>2. p.next.kind \notin Wrapping => Outcome[p.next] = OutcomeLeaf(p.next)
  BY <1>1, Cases DEF Holds, Wraps, Branches
<1>3. /\ \A v : Ready(v) # Pending /\ Ready(v) # Panic /\ Ready(v).is = "Ready" /\ Ready(v).value = v
      /\ Pending # Panic /\ Pending.is # "Ready" /\ Panic.is # "Ready"
  BY DEF Ready, Pending, Panic
<1>4. \A n, v : /\ At(n, v).polls = n /\ At(n, v).output = v /\ ~At(n, v).once
                /\ OnlyOnce(n, v).polls = n /\ OnlyOnce(n, v).output = v
                /\ Keeping(n, v).polls = n /\ Keeping(n, v).output = Unit
                /\ Keeping(n, v).kept = v /\ ~Keeping(n, v).once
  BY DEF At, OnlyOnce, Keeping, Coming
<1>5. Never.polls = 0
  BY DEF Never, At, Coming
<1> HIDE DEF p, o
<1>6. ASSUME p.answer = Panic PROVE Exact(f)
  BY <1>3, <1>6 DEF Exact, IsReady, p
<1>7. ASSUME p.answer = Pending, p.next = f, o = Never PROVE Exact(f)
  BY <1>3, <1>5, <1>7, Fields DEF Exact, IsReady, p, o
<1>8. ASSUME NEW n \in Nat \ {0}, NEW v, p.answer = Pending, p.wakes > 0,
             o = At(n + 1, v), Outcome[p.next] = At(n, v)
      PROVE  Exact(f)
  <2>1. Sooner(o) = At(n, v) /\ o.polls # 1
    <3>1. n + 1 \in Nat \ {0} /\ (n + 1) - 1 = n /\ n + 1 # 1
      OBVIOUS
    <3> QED BY <1>4, <1>8, <3>1 DEF Sooner, Comes, At, Coming
  <2> QED BY <1>3, <1>8, <2>1 DEF Exact, IsReady, p, o
<1>9. ASSUME NEW v, p.answer = Ready(v), o = At(1, v), f.kind # "MaybeDone" PROVE Exact(f)
  BY <1>3, <1>4, <1>9 DEF Exact, IsReady, p, o
<1>10. CASE f.kind \in {"Ready", "NotStructural"}
  <2>0. f = [kind |-> f.kind, value |-> f.value] /\ PollLeaf(f) = PollReady(f)
    BY <1>10, Shapes DEF Wraps, Wrapping, Forwarding, PollLeaf
  <2>1. CASE f.value = None
    BY <1>1, <1>6, <2>0, <2>1 DEF PollReady, Polled
  <2>2. CASE f.value # None
    <3>1. p.answer = Ready(f.value) /\ p.next.value = None /\ o = OnlyOnce(1, f.value)
      BY <1>1, <1>10, <2>0, <2>2 DEF PollReady, Polled, OutcomeLeaf
    <3>2. p.next.kind \in {"Ready", "NotStructural"}
      BY <1>1, <1>10
    <3>3. Outcome[p.next] = Never
      BY <1>2, <3>1, <3>2 DEF Wrapping, Forwarding, OutcomeLeaf
    <3> QED BY <1>3, <1>4, <1>10, <3>1, <3>3, Fields DEF Exact, IsReady, p, o
  <2> QED BY <2>1, <2>2
<1>11. CASE f.kind = "Pending"
  <2>1. p = Polled(f, Pending, 0) /\ o = Never
    BY <1>1, <1>11 DEF Wraps, Wrapping, Forwarding, PollLeaf, PollPending, OutcomeLeaf
  <2> QED BY <1>7, <2>1 DEF Polled
<1>12. CASE f.kind = "YieldNow"
  <2>0. f = [kind |-> "YieldNow", yielded |-> f.yielded] /\ f.yielded \in BOOLEAN
    BY <1>12, Shapes
  <2>1. CASE f.yielded
    <3>1. p.answer = Ready(Unit) /\ o = At(1, Unit)
      BY <1>1, <1>12, <2>1 DEF Wraps, Wrapping, Forwarding, PollLeaf, PollYieldNow, Polled, OutcomeLeaf
    <3> QED BY <1>9, <1>12, <3>1
  <2>2. CASE ~f.yielded
    <3>1. /\ p.answer = Pending /\ p.wakes > 0 /\ p.next.kind = "YieldNow" /\ p.next.yielded
          /\ o = At(2, Unit)
      BY <1>1, <1>12, <2>0, <2>2 DEF Wraps, Wrapping, Forwarding, PollLeaf, PollYieldNow, Polled, OutcomeLeaf
    <3>2. Outcome[p.next] = At(1, Unit)
      BY <1>2, <3>1 DEF Wrapping, Forwarding, OutcomeLeaf
    <3> QED BY <1>8, <3>1, <3>2
  <2> QED BY <2>1, <2>2
<1>13. CASE f.kind = "CountDown"
  <2>0. /\ f = [kind |-> "CountDown", remaining |-> f.remaining, total |-> f.total]
        /\ f.remaining \in Nat /\ o = At(f.remaining + 1, f.total) /\ p = PollCountDown(f)
    BY <1>1, <1>13, Shapes DEF Wraps, Wrapping, Forwarding, PollLeaf, OutcomeLeaf
  <2>1. CASE f.remaining = 0
    <3>1. p.answer = Ready(f.total) /\ o = At(1, f.total)
      BY <2>0, <2>1 DEF PollCountDown, Polled
    <3> QED BY <1>9, <1>13, <3>1
  <2>2. CASE f.remaining # 0
    <3>1. /\ p.answer = Pending /\ p.wakes > 0 /\ p.next.kind = "CountDown"
          /\ p.next.remaining = f.remaining - 1 /\ p.next.total = f.total
      BY <2>0, <2>2 DEF PollCountDown, Polled
    <3>2. Outcome[p.next] = At((f.remaining - 1) + 1, f.total)
      BY <1>2, <3>1 DEF Wrapping, Forwarding, OutcomeLeaf
    <3>3. (f.remaining - 1) + 1 = f.remaining /\ f.remaining \in Nat \ {0}
      BY <2>0, <2>2
    <3> QED BY <1>8, <2>0, <3>1, <3>2, <3>3
  <2> QED BY <2>1, <2>2
<1>14. CASE f.kind = "PollFn"
  <2> DEFINE calls == f.calls
             last  == calls[Len(calls)].answer
  <2>a. f = [kind |-> "PollFn", calls |-> calls, unpin |-> f.unpin] /\ Honest(calls)
    BY <1>14, Shapes
  <2>b. p = PollPollFn(f)
    BY <1>1, <1>14 DEF Wraps, Wrapping, Forwarding, PollLeaf
  <2>c. o = IF last = Pending THEN Never ELSE At(Len(calls), last.value)
    BY <1>1, <1>14 DEF OutcomeLeaf
  <2>0. /\ f = [kind |-> "PollFn", calls |-> calls, unpin |-> f.unpin] /\ Honest(calls)
        /\ o = IF last = Pending THEN Never ELSE At(Len(calls), last.value)
        /\ p = PollPollFn(f)
    BY <2>a, <2>b, <2>c
  <2>1. /\ Len(calls) \in Nat \ {0} /\ Head(calls) = calls[1]
        /\ Len(calls) = 1 =>
              \/ calls[1].answer = Pending /\ calls[1].wakes = 0
              \/ calls[1].answer = Ready(calls[1].answer.value) /\ calls[1].wakes \in Nat
        /\ Len(calls) # 1 =>
              /\ calls[1].answer = Pending /\ calls[1].wakes \in Nat \ {0}
              /\ Len(Tail(calls)) = Len(calls) - 1
              /\ Tail(calls)[Len(calls) - 1] = calls[Len(calls)]
              /\ last = Ready(last.value)
    BY <2>0, Calls
  <2>2. /\ p.answer = calls[1].answer /\ p.wakes = calls[1].wakes
        /\ Len(calls) = 1 => p.next = f
        /\ Len(calls) = 1 => last = calls[1].answer
        /\ Len(calls) # 1 => p.next.kind = "PollFn" /\ p.next.calls = Tail(calls)
    <3> HIDE DEF calls
    <3> QED BY <1>14, <2>0, <2>1 DEF PollPollFn, Polled
  <2> HIDE DEF calls, last
  <2>3. CASE Len(calls) = 1
    BY <1>3, <1>7, <1>9, <1>14, <2>0, <2>1, <2>2, <2>3
  <2>4. CASE Len(calls) # 1
    <3> DEFINE n == Len(calls) - 1
    <3>1. n \in Nat \ {0} /\ Len(calls) = n + 1
      BY <2>1, <2>4
    <3>2. o = At(n + 1, last.value)
      BY <1>3, <2>0, <2>1, <2>4, <3>1
    <3>3. Outcome[p.next] = At(n, last.value)
      <4>1. p.next.kind = "PollFn" /\ Len(p.next.calls) = n /\ p.next.calls[n].answer = last
        BY <2>1, <2>2, <2>4 DEF last
      <4>2. last # Pending
        BY <1>3, <2>1, <2>4
      <4> HIDE DEF n, last
      <4> QED BY <1>2, <4>1, <4>2 DEF Wrapping, Forwarding, OutcomeLeaf
    <3>4. p.answer = Pending /\ p.wakes > 0
      BY <2>1, <2>2, <2>4
    <3> HIDE DEF n, last
    <3> QED BY <1>8, <3>1, <3>2, <3>3, <3>4
  <2> QED BY <2>3, <2>4
<1>15. CASE f.kind = "Sleep"
  <2>1. p = Polled(f, IF f.left = 0 THEN Ready(Unit) ELSE Pending, 0)
        /\ o = IF f.left = 0 THEN At(1, Unit) ELSE Never
    BY <1>1, <1>15 DEF Wraps, Wrapping, Forwarding, PollLeaf, PollSleep, OutcomeLeaf
  <2> QED BY <1>7, <1>9, <1>15, <2>1 DEF Polled
<1>16. CASE f.kind \in Wrapping
  <2>0. /\ f.inner = None /\ p = PollEmpty(f)
        /\ f.kind \in {"Option", "SimpleOption", "Fuse", "MaybeDone", "Async"}
    BY <1>1, <1>16, Shapes DEF Holds, Wraps, Wrapping, Forwarding, PollLeaf
  <2>1. CASE f.kind \in {"Option", "SimpleOption"}
    <3>1. p.answer = Ready([none |-> Unit]) /\ o = At(1, [none |-> Unit])
      BY <1>1, <2>0, <2>1 DEF PollEmpty, Polled, OutcomeLeaf
    <3> QED BY <1>9, <2>1, <3>1
  <2>2. CASE f.kind = "Fuse"
    <3>1. p = Polled(f, Pending, 0) /\ o = Never
      BY <1>1, <2>0, <2>2 DEF PollEmpty, OutcomeLeaf
    <3> QED BY <1>7, <3>1 DEF Polled
  <2>3. CASE f.kind = "MaybeDone"
    <3>1. CASE f.variant = "Done"
      <4>1. p = Polled(f, Ready(Unit), 0) /\ o = Keeping(1, f.output)
        BY <1>1, <2>0, <2>3, <3>1 DEF PollEmpty, OutcomeLeaf
      <4>2. p.next = f /\ p.answer = Ready(Unit)
        BY <4>1 DEF Polled
      <4> QED BY <1>3, <1>4, <3>1, <4>1, <4>2 DEF Exact, IsReady, output_mut, p, o
    <3>2. CASE f.variant # "Done"
      <4>1. p.answer = Panic
        BY <2>0, <2>3, <3>2 DEF PollEmpty, Polled
      <4> QED BY <1>6, <4>1
    <3> QED BY <3>1, <3>2
  <2>4. CASE f.kind = "Async"
    <3>1. p.answer = Panic
      BY <2>0, <2>4 DEF PollEmpty, Polled
    <3> QED BY <1>6, <3>1
  <2> QED BY <2>0, <2>1, <2>2, <2>3, <2>4
<1> QED
  BY <1>10, <1>11, <1>12, <1>13, <1>14, <1>15, <1>16, Shapes DEF Branches

\* The outcome o of a branch after a poll that did not panic: if it has come it stays.
Moved(o) == IF o.polls > 1 THEN Coming(o.polls - 1, o.output, o.kept, o.once) ELSE o

LEMMA MovedFields ==
  ASSUME NEW o, OutcomeOK(o)
  PROVE  /\ o.polls \in Nat /\ Moved(o).polls = (IF o.polls > 1 THEN o.polls - 1 ELSE o.polls)
         /\ Moved(o).output = o.output /\ Moved(o).kept = o.kept
         /\ Comes(Moved(o)) <=> Comes(o)
         /\ Fails(Moved(o)) <=> Fails(o)
         /\ o.polls # 1 => Sooner(o) = Moved(o)
<1>1. o.polls \in Nat
  BY DEF OutcomeOK
<1>2. /\ Moved(o).polls = (IF o.polls > 1 THEN o.polls - 1 ELSE o.polls)
      /\ Moved(o).output = o.output /\ Moved(o).kept = o.kept
  BY Selected DEF Moved
<1>3. Comes(Moved(o)) <=> Comes(o)
  BY <1>1, <1>2 DEF Comes
<1>4. Fails(Moved(o)) <=> Fails(o)
  BY <1>2, <1>3 DEF Fails
<1>5. o.polls # 1 => Sooner(o) = Moved(o)
  BY <1>1 DEF Sooner, Moved, Comes
<1> QED BY <1>1, <1>2, <1>3, <1>4, <1>5

(* A poll later, the outcome of what combines two branches is composed of  *)
(* theirs a poll later.                                                    *)
LEMMA Earlier ==
  ASSUME NEW n \in Nat \ {0, 1}, NEW v
  PROVE  /\ Sooner(At(n, v)) = At(n - 1, v)
         /\ Sooner(OnlyOnce(n, v)) = OnlyOnce(n - 1, v)
         /\ At(n, v).polls = n /\ OnlyOnce(n, v).polls = n
BY DEF Sooner, Comes, At, OnlyOnce, Coming

LEMMA JoinSooner ==
  ASSUME NEW oa, NEW ob, OutcomeOK(oa), OutcomeOK(ob), ~(oa.polls = 1 /\ ob.polls = 1)
  PROVE  /\ OutcomeJoin(Moved(oa), Moved(ob)) = Sooner(OutcomeJoin(oa, ob))
         /\ OutcomeJoin(oa, ob).polls # 1
<1>1. CASE ~(Comes(oa) /\ Comes(ob))
  BY <1>1, MovedFields, Fields DEF OutcomeJoin, Comes
<1>2. CASE Comes(oa) /\ Comes(ob)
  <2> DEFINE n == Later(oa, ob)
  <2>1. oa.polls \in Nat \ {0} /\ ob.polls \in Nat \ {0}
    BY <1>2 DEF Comes, OutcomeOK
  <2>2. n \in Nat \ {0, 1} /\ Later(Moved(oa), Moved(ob)) = n - 1
    BY <2>1, MovedFields DEF Later
  <2>3. /\ OutcomeJoin(oa, ob) = OnlyOnce(n, Pair(oa.kept, ob.kept))
        /\ OutcomeJoin(Moved(oa), Moved(ob)) = OnlyOnce(n - 1, Pair(oa.kept, ob.kept))
    BY <1>2, <2>2, MovedFields DEF OutcomeJoin
  <2> QED BY <2>2, <2>3, Earlier
<1> QED BY <1>1, <1>2

LEMMA FirstSooner ==
  ASSUME NEW oa, NEW ob, OutcomeOK(oa), OutcomeOK(ob), oa.polls # 1, ob.polls # 1
  PROVE  First(Moved(oa), Moved(ob)) <=> First(oa, ob)
<1>1. oa.polls \in Nat /\ ob.polls \in Nat
  BY DEF OutcomeOK
<1> QED BY <1>1, MovedFields DEF First, Comes

LEMMA RaceSooner ==
  ASSUME NEW oa, NEW ob, OutcomeOK(oa), OutcomeOK(ob), oa.polls # 1, ob.polls # 1
  PROVE  /\ OutcomeRace(Moved(oa), Moved(ob)) = Sooner(OutcomeRace(oa, ob))
         /\ OutcomeTimeout(Moved(oa), Moved(ob)) = Sooner(OutcomeTimeout(oa, ob))
         /\ OutcomeRace(oa, ob).polls # 1 /\ OutcomeTimeout(oa, ob).polls # 1
         /\ Comes(OutcomeRace(oa, ob)) \/ Comes(OutcomeTimeout(oa, ob)) => Comes(oa) \/ Comes(ob)
<1>1. /\ First(Moved(oa), Moved(ob)) <=> First(oa, ob)
      /\ Comes(Moved(ob)) <=> Comes(ob)
      /\ Moved(oa).output = oa.output /\ Moved(ob).output = ob.output
  BY FirstSooner, MovedFields
<1>2. /\ Comes(oa) => oa.polls \in Nat \ {0, 1} /\ Moved(oa).polls = oa.polls - 1
      /\ Comes(ob) => ob.polls \in Nat \ {0, 1} /\ Moved(ob).polls = ob.polls - 1
  BY MovedFields DEF Comes
<1>3. CASE First(oa, ob)
  <2>1. Comes(oa)
    BY <1>3 DEF First
  <2> QED BY <1>1, <1>2, <1>3, <2>1, Earlier DEF OutcomeRace, OutcomeTimeout
<1>4. CASE ~First(oa, ob) /\ Comes(ob)
  BY <1>1, <1>2, <1>4, Earlier DEF OutcomeRace, OutcomeTimeout
<1>5. CASE ~First(oa, ob) /\ ~Comes(ob)
  BY <1>1, <1>2, <1>5, Fields DEF OutcomeRace, OutcomeTimeout, Comes
<1> QED BY <1>3, <1>4, <1>5

LEMMA TryJoinSooner ==
  ASSUME NEW oa, NEW ob, OutcomeOK(oa), OutcomeOK(ob), ~(oa.polls = 1 /\ ob.polls = 1),
         Fails(oa) => oa.polls # 1, Fails(ob) => ob.polls # 1
  PROVE  /\ OutcomeTryJoin(Moved(oa), Moved(ob)) = Sooner(OutcomeTryJoin(oa, ob))
         /\ OutcomeTryJoin(oa, ob).polls # 1
         /\ Comes(OutcomeTryJoin(oa, ob)) => Fails(oa) \/ Fails(ob) \/ (Comes(oa) /\ Comes(ob))
<1>1. /\ Fails(Moved(oa)) <=> Fails(oa)
      /\ Fails(Moved(ob)) <=> Fails(ob)
      /\ Comes(Moved(oa)) <=> Comes(oa)
      /\ Comes(Moved(ob)) <=> Comes(ob)
      /\ Moved(oa).kept = oa.kept /\ Moved(ob).kept = ob.kept
  BY MovedFields
<1>2. /\ Fails(oa) => oa.polls \in Nat \ {0, 1} /\ Moved(oa).polls = oa.polls - 1
      /\ Fails(ob) => ob.polls \in Nat \ {0, 1} /\ Moved(ob).polls = ob.polls - 1
  BY MovedFields DEF Comes, Fails
<1>3. Fails(oa) /\ Fails(ob) => (First(Moved(oa), Moved(ob)) <=> First(oa, ob))
  BY FirstSooner
<1>4. CASE Fails(oa) /\ (Fails(ob) => First(oa, ob))
  BY <1>1, <1>2, <1>3, <1>4, Earlier DEF OutcomeTryJoin
<1>5. CASE ~(Fails(oa) /\ (Fails(ob) => First(oa, ob))) /\ Fails(ob)
  BY <1>1, <1>2, <1>3, <1>5, Earlier DEF OutcomeTryJoin
<1>6. CASE ~Fails(oa) /\ ~Fails(ob) /\ Comes(oa) /\ Comes(ob)
  <2> DEFINE n == Later(oa, ob)
             v == [ok |-> Pair(oa.kept.ok, ob.kept.ok)]
  <2>1. oa.polls \in Nat \ {0} /\ ob.polls \in Nat \ {0}
    BY <1>6 DEF Comes, OutcomeOK
  <2>2. n \in Nat \ {0, 1} /\ Later(Moved(oa), Moved(ob)) = n - 1
    BY <2>1, MovedFields DEF Later
  <2>3. /\ OutcomeTryJoin(oa, ob) = At(n, v)
        /\ OutcomeTryJoin(Moved(oa), Moved(ob)) = At(n - 1, v)
    BY <1>1, <1>6, <2>2 DEF OutcomeTryJoin
  <2> QED BY <1>6, <2>2, <2>3, Earlier
<1>7. CASE ~Fails(oa) /\ ~Fails(ob) /\ ~(Comes(oa) /\ Comes(ob))
  BY <1>1, <1>7, Fields DEF OutcomeTryJoin, Comes
<1> QED BY <1>4, <1>5, <1>6, <1>7

\* What Exact says of a poll that a branch f answers.
PolledBranch(f, p, o) ==
  /\ p = Poll[f] /\ o = Outcome[f]
  /\ OutcomeOK(o) /\ Answers(p) /\ p.wakes \in Nat /\ p.next \in Fut
  /\ p.answer = Pending => o.polls # 1 /\ Outcome[p.next] = Moved(o) /\ (Comes(o) => p.wakes > 0)
  /\ IsReady(p) => o.polls = 1 /\ p.answer = Ready(o.output)
  /\ f.kind = "MaybeDone" => /\ p.next.kind = "MaybeDone"
                             /\ p.answer = Pending => p.next.variant = "Future"
                             /\ IsReady(p) => /\ p.next.variant = "Done" /\ p.next.inner = None
                                              /\ output_mut(p.next) = o.kept
                                              /\ Outcome[p.next] = Moved(o)

LEMMA Results ==
  /\ \A v : Ready(v) # Pending /\ Ready(v) # Panic /\ Ready(v).is = "Ready" /\ Ready(v).value = v
  /\ Pending # Panic /\ Pending.is # "Ready" /\ Panic.is # "Ready"
  /\ \A p : IsReady(p) => p.answer # Pending /\ ~Panics(p)
  /\ \A p : Answers(p) => IsReady(p) \/ p.answer = Pending \/ Panics(p)
BY DEF Ready, Pending, Panic, IsReady, Panics, Answers

(* A MaybeDone that answers Pending still has its future.                  *)
LEMMA BranchPolled ==
  ASSUME NEW f \in Fut, Exact(f)
  PROVE  PolledBranch(f, Poll[f], Outcome[f])
<1> DEFINE p == Poll[f]
           o == Outcome[f]
<1>1. OutcomeOK(o) /\ Typed(f, p) /\ p.next \in Fut
  BY OutcomeTyped, PollTyped
<1>2. p.answer = Pending => o.polls # 1 /\ Outcome[p.next] = Moved(o) /\ (Comes(o) => p.wakes > 0)
  BY <1>1, MovedFields DEF Exact
<1>3. IsReady(p) => /\ o.polls = 1 /\ p.answer = Ready(o.output)
                    /\ f.kind = "MaybeDone" => /\ output_mut(p.next) = o.kept /\ Outcome[p.next] = o
                                               /\ p.next.variant = "Done"
  BY DEF Exact
<1>4. f.kind = "MaybeDone" /\ p.next.variant = "Done" => p.next.inner = None
  BY <1>1, Shapes DEF Typed
<1>5. o.polls = 1 => Moved(o) = o
  BY DEF Moved
<1>6. ASSUME f.kind = "MaybeDone", p.answer = Pending PROVE p.next.variant = "Future"
  <2>1. CASE Holds(f)
    <3>1. ~IsReady(p)
      BY <1>6 DEF IsReady, Pending
    <3>2. p = PollWrapper(f, Poll[f.inner]) /\ Answers(Poll[f.inner])
      BY <2>1, Cases, PollTyped DEF Typed
    <3>3. ~IsReady(Poll[f.inner])
      <4>1. ASSUME IsReady(Poll[f.inner]) PROVE \E v : p.answer = Ready(v)
        <5> HIDE DEF p
        <5> QED BY <1>6, <2>1, <3>2, <4>1, WrapperPolled
      <4> QED BY <3>1, <4>1, Results DEF IsReady
    <3>4. p.next.variant = f.variant /\ f.variant = "Future"
      BY <1>6, <2>1, <3>2, <3>3, WrapperPolled, Shapes DEF Holds
    <3> QED BY <3>4
  <2>2. CASE ~Holds(f)
    <3>1. p = PollLeaf(f)
      BY <1>6, <2>2, Cases DEF Branches, Combining
    <3>2. p.answer \in {Ready(Unit), Panic}
      BY <1>6, <3>1 DEF PollLeaf, PollEmpty, Polled, Wraps, Wrapping, Forwarding
    <3> QED BY <1>6, <3>2 DEF Ready, Pending, Panic
  <2> QED BY <2>1, <2>2
<1> HIDE DEF p, o
<1>7. PolledBranch(f, p, o)
  BY <1>1, <1>2, <1>3, <1>4, <1>5, <1>6 DEF PolledBranch, Typed, p, o
<1> QED BY <1>7 DEF p, o

(* The fields of a future with branches, after a step of its own.          *)
LEMMA BranchFields ==
  ASSUME NEW f \in Fut, Branches(f), NEW x, NEW y
  PROVE  LET g == [f EXCEPT !.a = x]
             h == [f EXCEPT !.a = x, !.b = y]
         IN /\ g.kind = f.kind /\ g.a = x /\ g.b = f.b
            /\ h.kind = f.kind /\ h.a = x /\ h.b = y
<1>1. f = [kind |-> f.kind, a |-> f.a, b |-> f.b]
  BY Shapes DEF Branches
<1> QED BY <1>1

(* The branches of a Race or Timeout are not polled after completion; what *)
(* counts is who completes first.                                          *)
LEMMA RaceExact ==
  ASSUME NEW f \in Fut, f.kind \in {"Race", "Timeout"}, Exact(f.a), Exact(f.b)
  PROVE  Exact(f)
<1> DEFINE p  == Poll[f]
           pa == Poll[f.a]
           pb == Poll[f.b]
           o  == Outcome[f]
           oa == Outcome[f.a]
           ob == Outcome[f.b]
<1>1. /\ Branches(f) /\ f.a \in Fut /\ f.b \in Fut
      /\ p = PollBranches(f, pa, pb) /\ o = OutcomeBranches(f, oa, ob)
      /\ p.next \in Fut /\ p.next.kind = f.kind
  BY Cases, PollTyped DEF Branches, Combining, Holds, Wraps, Wrapping, Forwarding, Typed
<1>2. PolledBranch(f.a, pa, oa) /\ PolledBranch(f.b, pb, ob)
  BY <1>1, BranchPolled
<1>3. f.kind = "Race"    => p = PollRace(f, pa, pb) /\ o = OutcomeRace(oa, ob)
  BY <1>1 DEF PollBranches, OutcomeBranches
<1>4. f.kind = "Timeout" => p = PollTimeout(f, pa, pb) /\ o = OutcomeTimeout(oa, ob)
  BY <1>1 DEF PollBranches, OutcomeBranches
<1>5. f.kind = "Timeout" => ~Panics(pb)
  <2> SUFFICES ASSUME f.kind = "Timeout" PROVE ~Panics(pb)
    OBVIOUS
  <2>1. f.b.kind = "Sleep" /\ f.b \in Fut
    BY <1>1, Shapes
  <2>2. pb = PollSleep(f.b)
    BY <2>1, Cases DEF Holds, Branches, Combining, Wraps, Wrapping, Forwarding, PollLeaf
  <2> QED BY <2>2, Results DEF PollSleep, Polled, Panics
<1>6. \A n, v : At(n, v).polls = n /\ At(n, v).output = v /\ ~At(n, v).once
  BY DEF At, Coming
<1> HIDE DEF p, pa, pb, o, oa, ob
<1>7. CASE Panics(pa) \/ (Panics(pb) /\ ~IsReady(pa))
  <2>1. p.answer = Panic
    BY <1>3, <1>4, <1>5, <1>7, Results DEF PollRace, PollTimeout, PassedA, PassedBoth, Polled, Panics, IsReady
  <2> QED BY <2>1, Results DEF Exact, IsReady, p
<1>8. CASE IsReady(pa)
  <2>1. First(oa, ob) /\ oa.polls = 1 /\ pa.answer.value = oa.output
    BY <1>2, <1>8, Results DEF PolledBranch, First, Comes, OutcomeOK
  <2>2. /\ f.kind = "Race" => p.answer = Ready([left |-> oa.output]) /\ o = At(1, [left |-> oa.output])
        /\ f.kind = "Timeout" => p.answer = Ready([ok |-> oa.output]) /\ o = At(1, [ok |-> oa.output])
    BY <1>3, <1>4, <1>8, <2>1, Results
       DEF PollRace, PollTimeout, PassedA, Polled, OutcomeRace, OutcomeTimeout
  <2> QED BY <1>6, <2>2, Results DEF Exact, p, o
<1>9. CASE pa.answer = Pending /\ IsReady(pb)
  <2>1. ~First(oa, ob) /\ Comes(ob) /\ ob.polls = 1 /\ pb.answer.value = ob.output
    BY <1>2, <1>9, Results DEF PolledBranch, First, Comes, OutcomeOK
  <2>2. ~Panics(pa) /\ ~IsReady(pa)
    BY <1>9, Results DEF Panics, IsReady
  <2>3. /\ f.kind = "Race" => p.answer = Ready([right |-> ob.output]) /\ o = At(1, [right |-> ob.output])
        /\ f.kind = "Timeout" => p.answer = Ready([err |-> "Elapsed"]) /\ o = At(1, [err |-> "Elapsed"])
    BY <1>3, <1>4, <1>9, <2>1, <2>2
       DEF PollRace, PollTimeout, PassedBoth, Polled, OutcomeRace, OutcomeTimeout
  <2> QED BY <1>6, <2>3, Results DEF Exact, p, o
<1>10. CASE pa.answer = Pending /\ pb.answer = Pending
  <2>1. ~Panics(pa) /\ ~IsReady(pa) /\ ~IsReady(pb)
    BY <1>10, Results DEF Panics, IsReady
  <2>2. p = Polled([f EXCEPT !.a = pa.next, !.b = pb.next], Pending, pa.wakes + pb.wakes)
    BY <1>3, <1>4, <1>10, <2>1 DEF PollRace, PollTimeout, PassedBoth
  <2>3. /\ p.answer = Pending /\ p.wakes = pa.wakes + pb.wakes
        /\ p.next.a = pa.next /\ p.next.b = pb.next
    <3> DEFINE g == [f EXCEPT !.a = pa.next, !.b = pb.next]
    <3>1. g.a = pa.next /\ g.b = pb.next
      BY <1>1, BranchFields
    <3> HIDE DEF g
    <3>2. p = Polled(g, Pending, pa.wakes + pb.wakes)
      BY <2>2 DEF g
    <3> QED BY <3>1, <3>2 DEF Polled
  <2>4. /\ OutcomeOK(oa) /\ OutcomeOK(ob) /\ oa.polls # 1 /\ ob.polls # 1
        /\ Outcome[pa.next] = Moved(oa) /\ Outcome[pb.next] = Moved(ob)
        /\ pa.wakes \in Nat /\ pb.wakes \in Nat
        /\ Comes(oa) => pa.wakes > 0
        /\ Comes(ob) => pb.wakes > 0
    BY <1>2, <1>10 DEF PolledBranch
  <2>5. Outcome[p.next] = OutcomeBranches(p.next, Moved(oa), Moved(ob))
    BY <1>1, <2>3, <2>4, Cases DEF Branches, Holds, Wraps
  <2>6. /\ Outcome[p.next] = Sooner(o) /\ o.polls # 1
        /\ Comes(o) => Comes(oa) \/ Comes(ob)
    BY <1>1, <1>3, <1>4, <2>4, <2>5, RaceSooner DEF OutcomeBranches
  <2> QED BY <2>3, <2>4, <2>6, Results DEF Exact, IsReady, p, o
<1> QED
  BY <1>2, <1>7, <1>8, <1>9, <1>10, Results DEF PolledBranch

(* A Join takes the outputs of its branches when both have completed.      *)
LEMMA JoinExact ==
  ASSUME NEW f \in Fut, f.kind = "Join", Exact(f.a), Exact(f.b)
  PROVE  Exact(f)
<1> DEFINE p  == Poll[f]
           pa == Poll[f.a]
           pb == Poll[f.b]
           o  == Outcome[f]
           oa == Outcome[f.a]
           ob == Outcome[f.b]
<1>1. /\ Branches(f) /\ f.a \in Fut /\ f.b \in Fut /\ f.a.kind = "MaybeDone" /\ f.b.kind = "MaybeDone"
      /\ p = PollBranches(f, pa, pb) /\ o = OutcomeBranches(f, oa, ob)
      /\ p.next \in Fut /\ p.next.kind = f.kind
  BY Cases, Shapes, PollTyped DEF Branches, Combining, Holds, Wraps, Wrapping, Forwarding, Typed
<1>2. PolledBranch(f.a, pa, oa) /\ PolledBranch(f.b, pb, ob)
  BY <1>1, BranchPolled
<1>3. p = PollJoin(f, pa, pb) /\ o = OutcomeJoin(oa, ob)
  BY <1>1 DEF PollBranches, OutcomeBranches
<1> DEFINE g == [f EXCEPT !.a = pa.next, !.b = pb.next]
           h == [f EXCEPT !.a = take_output(pa.next), !.b = take_output(pb.next)]
<1>4. /\ g.a = pa.next /\ g.b = pb.next
      /\ h.a = take_output(pa.next) /\ h.b = take_output(pb.next)
  BY <1>1, BranchFields
<1>5. p = IF Panics(pa) \/ Panics(pb) THEN Polled(g, Panic, pa.wakes + pb.wakes)
          ELSE IF ~(IsReady(pa) /\ IsReady(pb)) THEN Polled(g, Pending, pa.wakes + pb.wakes)
          ELSE Polled(h, Ready(Pair(output_mut(pa.next), output_mut(pb.next))), pa.wakes + pb.wakes)
  BY <1>3 DEF PollJoin, PassedBoth
<1>6. /\ \A x, y, z : Polled(x, y, z).next = x /\ Polled(x, y, z).answer = y /\ Polled(x, y, z).wakes = z
      /\ \A n, v : OnlyOnce(n, v).polls = n /\ OnlyOnce(n, v).output = v
  BY DEF Polled, OnlyOnce, Coming
<1>7. Outcome[p.next] = OutcomeJoin(Outcome[p.next.a], Outcome[p.next.b])
      /\ p.next.a \in Fut /\ p.next.b \in Fut
  BY <1>1, Cases DEF OutcomeBranches, Branches, Holds, Wraps, Combining, Wrapping, Forwarding
<1> HIDE DEF p, pa, pb, o, oa, ob, g, h
<1>8. CASE Panics(pa) \/ Panics(pb)
  <2>1. p.answer = Panic
    BY <1>5, <1>6, <1>8
  <2> QED BY <2>1, Results DEF Exact, IsReady, p
<1>9. CASE ~Panics(pa) /\ ~Panics(pb) /\ IsReady(pa) /\ IsReady(pb)
  <2>1. /\ p.answer = Ready(Pair(oa.kept, ob.kept)) /\ p.next.a = take_output(pa.next)
        /\ oa.polls = 1 /\ ob.polls = 1
    BY <1>1, <1>2, <1>4, <1>5, <1>6, <1>9 DEF PolledBranch
  <2>2. o = OnlyOnce(1, Pair(oa.kept, ob.kept))
    BY <1>3, <2>1 DEF OutcomeJoin, Comes, Later
  <2>3. Outcome[p.next.a] = Never
    <3>1. pa.next.kind = "MaybeDone" /\ pa.next.variant = "Done" /\ pa.next.inner = None
      BY <1>1, <1>2, <1>9 DEF PolledBranch
    <3>2. pa.next = [kind |-> "MaybeDone", inner |-> pa.next.inner,
                     variant |-> pa.next.variant, output |-> pa.next.output]
      BY <1>2, <3>1, Shapes DEF PolledBranch
    <3>3. p.next.a.kind = "MaybeDone" /\ p.next.a.variant = "Gone" /\ p.next.a.inner = None
      BY <2>1, <3>1, <3>2 DEF take_output
    <3> QED BY <1>7, <3>3, Cases DEF Holds, Branches, Combining, OutcomeLeaf
  <2>4. ~Comes(Outcome[p.next])
    BY <1>7, <2>3, Fields DEF OutcomeJoin
  <2> QED BY <1>1, <1>6, <2>1, <2>2, <2>4, Results DEF Exact, IsReady, p, o
<1>10. CASE ~Panics(pa) /\ ~Panics(pb) /\ ~(IsReady(pa) /\ IsReady(pb))
  <2>1. p.answer = Pending /\ p.next.a = pa.next /\ p.next.b = pb.next /\ p.wakes = pa.wakes + pb.wakes
    BY <1>4, <1>5, <1>6, <1>10
  <2>2. /\ OutcomeOK(oa) /\ OutcomeOK(ob) /\ ~(oa.polls = 1 /\ ob.polls = 1)
        /\ Outcome[pa.next] = Moved(oa) /\ Outcome[pb.next] = Moved(ob)
        /\ pa.wakes \in Nat /\ pb.wakes \in Nat
        /\ Comes(oa) /\ Comes(ob) => pa.wakes > 0 \/ pb.wakes > 0
    BY <1>1, <1>2, <1>10, Results DEF PolledBranch
  <2>3. Outcome[p.next] = Sooner(o) /\ o.polls # 1 /\ (Comes(o) => Comes(oa) /\ Comes(ob))
    BY <1>3, <1>7, <2>1, <2>2, JoinSooner, Fields DEF OutcomeJoin
  <2> QED BY <2>1, <2>2, <2>3, Results DEF Exact, IsReady, p, o
<1> QED
  BY <1>8, <1>9, <1>10

(* A TryJoin takes an error as soon as it finds one.                       *)
LEMMA TryJoinExact ==
  ASSUME NEW f \in Fut, f.kind = "TryJoin", Exact(f.a), Exact(f.b)
  PROVE  Exact(f)
<1> DEFINE p  == Poll[f]
           pa == Poll[f.a]
           pb == Poll[f.b]
           o  == Outcome[f]
           oa == Outcome[f.a]
           ob == Outcome[f.b]
<1>1. /\ Branches(f) /\ f.a \in Fut /\ f.b \in Fut /\ f.a.kind = "MaybeDone" /\ f.b.kind = "MaybeDone"
      /\ p = PollBranches(f, pa, pb) /\ o = OutcomeBranches(f, oa, ob)
      /\ p.next \in Fut /\ p.next.kind = f.kind
  BY Cases, Shapes, PollTyped DEF Branches, Combining, Holds, Wraps, Wrapping, Forwarding, Typed
<1>2. PolledBranch(f.a, pa, oa) /\ PolledBranch(f.b, pb, ob)
  BY <1>1, BranchPolled
<1>3. p = PollTryJoin(f, pa, pb) /\ o = OutcomeTryJoin(oa, ob)
  BY <1>1 DEF PollBranches, OutcomeBranches
<1> DEFINE g == [f EXCEPT !.a = pa.next, !.b = pb.next]
<1>4. g.a = pa.next /\ g.b = pb.next
  BY <1>1, BranchFields
<1>5. /\ \A x, y, z : Polled(x, y, z).next = x /\ Polled(x, y, z).answer = y /\ Polled(x, y, z).wakes = z
      /\ \A n, v : At(n, v).polls = n /\ At(n, v).output = v /\ ~At(n, v).once
  BY DEF Polled, At, Coming
<1>6. Outcome[p.next] = OutcomeTryJoin(Outcome[p.next.a], Outcome[p.next.b])
  BY <1>1, Cases DEF OutcomeBranches, Branches, Holds, Wraps, Combining, Wrapping, Forwarding
<1> HIDE DEF p, pa, pb, o, oa, ob
<1>7. /\ ~Panics(pa) => (FindsError(pa.next) <=> IsReady(pa) /\ Fails(oa))
      /\ ~Panics(pb) => (FindsError(pb.next) <=> IsReady(pb) /\ Fails(ob))
  BY <1>1, <1>2, Results DEF PolledBranch, FindsError, Fails, Comes, Panics
<1>8. /\ OutcomeOK(oa) /\ OutcomeOK(ob)
      /\ IsReady(pa) => oa.polls = 1 /\ output_mut(pa.next) = oa.kept
      /\ IsReady(pb) => ob.polls = 1 /\ output_mut(pb.next) = ob.kept
      /\ pa.answer = Pending => oa.polls # 1
      /\ pb.answer = Pending => ob.polls # 1
      /\ IsReady(pa) \/ pa.answer = Pending \/ Panics(pa)
      /\ IsReady(pb) \/ pb.answer = Pending \/ Panics(pb)
  BY <1>1, <1>2, Results DEF PolledBranch
<1>9. ASSUME p.answer = Panic PROVE Exact(f)
  BY <1>9, Results DEF Exact, IsReady, p
<1>10. ASSUME NEW v, p.answer = Ready(v), o = At(1, v) PROVE Exact(f)
  BY <1>1, <1>5, <1>10, Results DEF Exact, p, o
<1>11. CASE Panics(pa)
  <2>1. p.answer = Panic
    BY <1>3, <1>5, <1>11 DEF PollTryJoin, PassedA
  <2> QED BY <1>9, <2>1
<1>12. CASE ~Panics(pa) /\ FindsError(pa.next)
  <2>1. p.answer = Ready(oa.kept)
    BY <1>3, <1>5, <1>7, <1>8, <1>12 DEF PollTryJoin
  <2>2. o = At(1, oa.kept)
    BY <1>3, <1>7, <1>8, <1>12 DEF OutcomeTryJoin, First, Fails, Comes, OutcomeOK
  <2> QED BY <1>10, <2>1, <2>2
<1>13. CASE ~Panics(pa) /\ ~FindsError(pa.next) /\ Panics(pb)
  <2>1. p.answer = Panic
    BY <1>3, <1>5, <1>13 DEF PollTryJoin, PassedBoth
  <2> QED BY <1>9, <2>1
<1>14. CASE ~Panics(pa) /\ ~FindsError(pa.next) /\ ~Panics(pb) /\ FindsError(pb.next)
  <2>1. p.answer = Ready(ob.kept)
    BY <1>3, <1>5, <1>7, <1>8, <1>14 DEF PollTryJoin
  <2>2. ~(Fails(oa) /\ First(oa, ob)) /\ Fails(ob) /\ ob.polls = 1
    BY <1>7, <1>8, <1>14 DEF First, Fails, Comes, OutcomeOK
  <2>3. o = At(1, ob.kept)
    BY <1>3, <2>2 DEF OutcomeTryJoin
  <2> QED BY <1>10, <2>1, <2>3
<1>15. CASE ~Panics(pa) /\ ~FindsError(pa.next) /\ ~Panics(pb) /\ ~FindsError(pb.next)
            /\ IsReady(pa) /\ IsReady(pb)
  <2>1. p.answer = Ready([ok |-> Pair(oa.kept.ok, ob.kept.ok)])
    BY <1>3, <1>5, <1>7, <1>8, <1>15 DEF PollTryJoin
  <2>2. ~Fails(oa) /\ ~Fails(ob) /\ oa.polls = 1 /\ ob.polls = 1
    BY <1>7, <1>8, <1>15
  <2>3. o = At(1, [ok |-> Pair(oa.kept.ok, ob.kept.ok)])
    BY <1>3, <2>2 DEF OutcomeTryJoin, Comes, Later
  <2> QED BY <1>10, <2>1, <2>3
<1>16. CASE ~Panics(pa) /\ ~FindsError(pa.next) /\ ~Panics(pb) /\ ~FindsError(pb.next)
            /\ ~(IsReady(pa) /\ IsReady(pb))
  <2>1. p = Polled(g, Pending, pa.wakes + pb.wakes)
    BY <1>3, <1>16 DEF PollTryJoin, PassedBoth, pa, pb
  <2> HIDE DEF g
  <2>2. p.answer = Pending /\ p.next.a = pa.next /\ p.next.b = pb.next /\ p.wakes = pa.wakes + pb.wakes
    BY <1>4, <1>5, <2>1 DEF pa, pb
  <2>3. /\ Outcome[pa.next] = Moved(oa) /\ Outcome[pb.next] = Moved(ob)
        /\ pa.wakes \in Nat /\ pb.wakes \in Nat
        /\ pa.answer = Pending /\ Comes(oa) => pa.wakes > 0
        /\ pb.answer = Pending /\ Comes(ob) => pb.wakes > 0
    BY <1>1, <1>2, <1>16, Results DEF PolledBranch
  <2>4. /\ ~(oa.polls = 1 /\ ob.polls = 1)
        /\ Fails(oa) => oa.polls # 1 /\ pa.answer = Pending
        /\ Fails(ob) => ob.polls # 1 /\ pb.answer = Pending
    BY <1>7, <1>8, <1>16
  <2>5. /\ Outcome[p.next] = Sooner(o) /\ o.polls # 1
        /\ Comes(o) => Fails(oa) \/ Fails(ob) \/ (Comes(oa) /\ Comes(ob))
    BY <1>3, <1>6, <1>8, <2>2, <2>3, <2>4, TryJoinSooner
  <2>6. Comes(o) => p.wakes > 0
    BY <1>8, <1>16, <2>2, <2>3, <2>4, <2>5 DEF Fails
  <2> QED BY <2>2, <2>5, <2>6, Results DEF Exact, IsReady, p, o
<1> QED
  BY <1>11, <1>12, <1>13, <1>14, <1>15, <1>16

(* The outcome of every future is what its polls come to.                  *)
LEMMA AllExact ==
  ASSUME NEW f \in Fut PROVE Exact(f)
<1> DEFINE S == {g \in Fut : Exact(g)}
<1>1. ASSUME NEW g \in Fut, PartsOf(g) \subseteq S PROVE g \in S
  <2>1. CASE Holds(g)
    BY <1>1, <2>1, Cases, WrapperExact
  <2>2. CASE Branches(g)
    BY <1>1, <2>2, Cases, RaceExact, JoinExact, TryJoinExact DEF Branches, Combining
  <2>3. CASE ~Holds(g) /\ ~Branches(g)
    BY <2>3, LeafExact
  <2> QED BY <2>1, <2>2, <2>3
<1>2. Fut \subseteq S
  BY <1>1, Induction
<1> QED BY <1>2

-----------------------------------------------------------------------------
(* A future that has not completed does not panic.                         *)

\* Nothing in f has given up what it needs to be polled.
Sound(f) == \A g \in Within[f] : Unspent(g)

LEMMA SoundParts ==
  ASSUME NEW f \in Fut
  PROVE  Sound(f) <=> Unspent(f) /\ \A g \in PartsOf(f) : Sound(g)
BY Unfolded DEF Layer, Sound

\* A poll of f does not panic, and leaves f sound if it is to be polled again.
Steady(f) ==
  LET p == Poll[f] IN
    Sound(f) =>
      /\ ~Panics(p)
      /\ p.answer = Pending => Sound(p.next) /\ (Fresh(f) => Fresh(p.next))
      /\ f.kind = "MaybeDone" => Sound(p.next)

LEMMA LeafSteady ==
  ASSUME NEW f \in Fut, ~Holds(f), ~Branches(f)
  PROVE  Steady(f)
<1> DEFINE p == Poll[f]
<1>1. /\ p = PollLeaf(f) /\ p.next \in Fut /\ p.next.kind = f.kind /\ PartsOf(f) = {}
      /\ Answers(p)
  BY Cases, PollTyped DEF Typed
<1> SUFFICES ASSUME Sound(f)
             PROVE  /\ ~Panics(p)
                    /\ p.answer = Pending => Sound(p.next) /\ (Fresh(f) => Fresh(p.next))
                    /\ f.kind = "MaybeDone" => Sound(p.next)
  BY DEF Steady
<1>2. Unspent(f)
  BY SoundParts
<1> HIDE DEF p
<1>3. CASE f.kind \in {"YieldNow", "CountDown", "PollFn"}
  <2>1. ~Panics(p)
    <3>1. CASE f.kind = "PollFn"
      <4>1. p = PollPollFn(f) /\ Honest(f.calls)
        BY <1>1, <3>1, Shapes DEF PollLeaf, Wraps, Wrapping, Forwarding
      <4>2. Head(f.calls).answer # Panic
        BY <4>1, Calls, Results
      <4> QED BY <4>1, <4>2 DEF PollPollFn, Polled, Panics
    <3>2. CASE f.kind \in {"YieldNow", "CountDown"}
      BY <1>1, <3>2, Results DEF PollLeaf, Wraps, Wrapping, Forwarding, PollYieldNow, PollCountDown,
        Polled, Panics
    <3> QED BY <1>3, <3>1, <3>2
  <2>2. Sound(p.next) /\ Fresh(p.next)
    <3>1. PartsOf(p.next) = {}
      BY <1>1, <1>3 DEF PartsOf, Holds, Wraps, Branches, Combining, Wrapping, Forwarding
    <3>2. Unspent(p.next) /\ Fresh(p.next)
      BY <1>1, <1>3, <3>1 DEF Unspent, Fresh
    <3> QED BY <1>1, <3>1, <3>2, SoundParts
  <2> QED BY <1>3, <2>1, <2>2
<1>4. CASE f.kind \in {"Ready", "NotStructural"}
  <2>1. p.answer = Ready(f.value)
    BY <1>1, <1>2, <1>4 DEF PollLeaf, PollReady, Polled, Unspent, Wraps, Wrapping, Forwarding
  <2> QED BY <1>4, <2>1, Results DEF Panics
<1>5. CASE f.kind \in {"Pending", "Sleep"} \cup Wrapping
  <2>1. p.answer \in {Pending, Ready(Unit), Ready([none |-> Unit])} /\ p.next = f
    <3>1. CASE f.kind = "Pending"
      BY <1>1, <3>1 DEF PollLeaf, PollPending, Polled, Wraps, Wrapping, Forwarding
    <3>2. CASE f.kind = "Sleep"
      BY <1>1, <3>2 DEF PollLeaf, PollSleep, Polled, Wraps, Wrapping, Forwarding
    <3>3. CASE f.kind \in Wrapping
      <4>1. /\ f.kind \in {"Option", "SimpleOption", "Fuse", "MaybeDone", "Async"} /\ f.inner = None
            /\ p = PollEmpty(f)
        BY <1>1, <3>3, Shapes DEF Holds, Wraps, Wrapping, Forwarding, PollLeaf
      <4>2. f.kind # "Async" /\ (f.kind = "MaybeDone" => f.variant = "Done")
        BY <1>2, <4>1, Shapes DEF Unspent
      <4> QED BY <4>1, <4>2 DEF PollEmpty, Polled
    <3> QED BY <1>5, <3>1, <3>2, <3>3
  <2> QED BY <2>1, Results DEF Panics
<1> QED
  BY <1>3, <1>4, <1>5, Shapes DEF Branches

LEMMA WrapperSteady ==
  ASSUME NEW f \in Fut, Holds(f), Steady(f.inner)
  PROVE  Steady(f)
<1> DEFINE p == Poll[f]
           q == Poll[f.inner]
<1>1. /\ f.inner \in Fut /\ PartsOf(f) = {f.inner} /\ p = PollWrapper(f, q)
      /\ p.next \in Fut /\ p.next.kind = f.kind /\ q.next \in Fut /\ q.next # None
      /\ Answers(p) /\ Answers(q)
  BY Cases, PollTyped, PollingAssumption DEF Typed
<1> SUFFICES ASSUME Sound(f)
             PROVE  /\ ~Panics(p)
                    /\ p.answer = Pending => Sound(p.next) /\ (Fresh(f) => Fresh(p.next))
                    /\ f.kind = "MaybeDone" => Sound(p.next)
  BY DEF Steady
<1>2. Unspent(f) /\ Sound(f.inner)
  BY <1>1, SoundParts
<1>3. /\ ~Panics(q) /\ Fresh(f.inner)
      /\ q.answer = Pending => Sound(q.next) /\ Fresh(q.next)
  BY <1>1, <1>2 DEF Steady, Unspent, Holds, Wraps, Wrapping, Forwarding
<1> HIDE DEF p, q
<1>4. CASE IsReady(q)
  <2>1. \E v : p.answer = Ready(v)
    BY <1>1, <1>2, <1>4, WrapperPolled DEF Unspent
  <2>2. f.kind = "MaybeDone" => Sound(p.next)
    <3> SUFFICES ASSUME f.kind = "MaybeDone" PROVE Sound(p.next)
      OBVIOUS
    <3>1. p.next.inner = None /\ p.next.variant = "Done"
      BY <1>1, <1>4, WrapperPolled
    <3>2. PartsOf(p.next) = {}
      BY <1>1, <3>1 DEF PartsOf, Holds, Branches, Combining
    <3>3. Unspent(p.next)
      BY <1>1, <3>1, <3>2 DEF Unspent
    <3> QED BY <1>1, <3>2, <3>3, SoundParts
  <2> QED BY <2>1, <2>2, Results DEF Panics
<1>5. CASE q.answer = Pending
  <2>1. /\ p.answer = Pending /\ p.next.inner = q.next
        /\ f.kind = "Map" => p.next.fn = f.fn
        /\ f.kind = "MaybeDone" => p.next.variant = f.variant
    BY <1>1, <1>5, WrapperPolled, Results DEF IsReady
  <2>2. PartsOf(p.next) = {q.next}
    BY <1>1, <2>1 DEF PartsOf, Holds, Wraps
  <2>3. Unspent(p.next)
    BY <1>1, <1>2, <1>3, <1>5, <2>1, <2>2 DEF Unspent, Holds, Wraps, Wrapping, Forwarding
  <2>4. Sound(p.next)
    BY <1>1, <1>3, <1>5, <2>2, <2>3, SoundParts
  <2>5. Fresh(f) => Fresh(p.next)
    BY <1>1, <2>1 DEF Fresh
  <2> QED BY <2>1, <2>4, <2>5, Results DEF Panics
<1> QED
  BY <1>1, <1>3, <1>4, <1>5, Results

(* What a poll leaves of the branches of f: each as its own poll left it,  *)
(* or without its output, or, the second one, as it was.                   *)
LEMMA BranchesNext ==
  ASSUME NEW f \in Fut, Branches(f)
  PROVE  LET n  == Poll[f].next
             pa == Poll[f.a]
             pb == Poll[f.b]
         IN /\ n \in Fut /\ n.kind = f.kind /\ f.a \in Fut /\ f.b \in Fut
            /\ PartsOf(f) = {f.a, f.b} /\ PartsOf(n) = {n.a, n.b} /\ n.a \in Fut /\ n.b \in Fut
            /\ n.a \in {pa.next, take_output(pa.next)}
            /\ n.b \in {f.b, pb.next, take_output(pb.next)}
            /\ f.kind \in {"Race", "Timeout"} => n.a = pa.next /\ n.b \in {f.b, pb.next}
            /\ f.kind \in {"Join", "TryJoin"} => pa.next.kind = "MaybeDone" /\ pb.next.kind = "MaybeDone"
<1> DEFINE p  == Poll[f]
           pa == Poll[f.a]
           pb == Poll[f.b]
<1>1. /\ f.a \in Fut /\ f.b \in Fut /\ PartsOf(f) = {f.a, f.b}
      /\ p = PollBranches(f, pa, pb) /\ p.next \in Fut /\ p.next.kind = f.kind
      /\ pa.next.kind = f.a.kind /\ pb.next.kind = f.b.kind
  BY Cases, PollTyped DEF Typed
<1>2. Branches(p.next) /\ ~Holds(p.next)
  BY <1>1 DEF Branches, Holds, Wraps, Combining, Wrapping, Forwarding
<1>3. PartsOf(p.next) = {p.next.a, p.next.b} /\ p.next.a \in Fut /\ p.next.b \in Fut
  BY <1>1, <1>2, Cases
<1>4. f.kind \in {"Join", "TryJoin"} => pa.next.kind = "MaybeDone" /\ pb.next.kind = "MaybeDone"
  BY <1>1, Shapes
<1> DEFINE T(x, y) == [f EXCEPT !.a = x, !.b = y]
           A(x)    == [f EXCEPT !.a = x]
<1>5. \A x, y : T(x, y).a = x /\ T(x, y).b = y /\ A(x).a = x /\ A(x).b = f.b
  BY BranchFields
<1>6. \A x, y, z : Polled(x, y, z).next = x
  BY DEF Polled
<1> DEFINE ta == take_output(pa.next)
           tb == take_output(pb.next)
<1> HIDE DEF p, pa, pb, ta, tb
<1>7. CASE f.kind = "Join"
  <2>1. p.next \in {T(pa.next, pb.next), T(ta, tb)}
    BY <1>1, <1>6, <1>7 DEF PollBranches, PollJoin, PassedBoth, ta, tb
  <2> HIDE DEF T
  <2> QED BY <1>1, <1>3, <1>4, <1>5, <1>7, <2>1 DEF p, pa, pb, ta, tb
<1>8. CASE f.kind = "TryJoin"
  <2>1. p.next \in {A(pa.next), A(ta), T(pa.next, pb.next), T(pa.next, tb), T(ta, tb)}
    BY <1>1, <1>6, <1>8 DEF PollBranches, PollTryJoin, PassedA, PassedBoth, ta, tb
  <2> HIDE DEF T, A
  <2> QED BY <1>1, <1>3, <1>4, <1>5, <1>8, <2>1 DEF p, pa, pb, ta, tb
<1>9. CASE f.kind \in {"Race", "Timeout"}
  <2>1. p.next \in {A(pa.next), T(pa.next, pb.next)}
    BY <1>1, <1>6, <1>9 DEF PollBranches, PollRace, PollTimeout, PassedA, PassedBoth
  <2> HIDE DEF T, A
  <2> QED BY <1>1, <1>3, <1>4, <1>5, <1>9, <2>1 DEF p, pa, pb
<1> QED
  BY <1>7, <1>8, <1>9 DEF Branches, Combining

LEMMA BranchesSteady ==
  ASSUME NEW f \in Fut, Branches(f), Steady(f.a), Steady(f.b)
  PROVE  Steady(f)
<1> DEFINE p  == Poll[f]
           pa == Poll[f.a]
           pb == Poll[f.b]
<1>1. /\ f.a \in Fut /\ f.b \in Fut /\ PartsOf(f) = {f.a, f.b}
      /\ p = PollBranches(f, pa, pb) /\ p.next \in Fut /\ p.next.kind = f.kind
      /\ Answers(p) /\ Answers(pa) /\ Answers(pb) /\ f.kind \in Combining
      /\ PartsOf(p.next) = {p.next.a, p.next.b}
  BY Cases, PollTyped, BranchesNext DEF Typed, Branches
<1> SUFFICES ASSUME Sound(f)
             PROVE  ~Panics(p) /\ (p.answer = Pending => Sound(p.next))
  BY <1>1 DEF Steady, Combining, Fresh
<1>2. Unspent(f) /\ Sound(f.a) /\ Sound(f.b)
  BY <1>1, SoundParts
<1>3. /\ ~Panics(pa) /\ (pa.answer = Pending => Sound(pa.next) /\ (Fresh(f.a) => Fresh(pa.next)))
      /\ ~Panics(pb) /\ (pb.answer = Pending => Sound(pb.next) /\ (Fresh(f.b) => Fresh(pb.next)))
      /\ f.a.kind = "MaybeDone" => Sound(pa.next)
      /\ f.b.kind = "MaybeDone" => Sound(pb.next)
  BY <1>2 DEF Steady
<1> DEFINE g == [f EXCEPT !.a = pa.next, !.b = pb.next]
<1>4. g.a = pa.next /\ g.b = pb.next
  BY BranchFields
<1>5. Sound(p.next) <=> Unspent(p.next) /\ Sound(p.next.a) /\ Sound(p.next.b)
  BY <1>1, SoundParts
<1>6. \A x, y, z : Polled(x, y, z).next = x /\ Polled(x, y, z).answer = y
  BY DEF Polled
<1> HIDE DEF p, pa, pb, g
<1> DEFINE goesOn ==
      /\ p.answer = Pending /\ p.next = g
      /\ f.kind \in {"Race", "Timeout"} => pa.answer = Pending /\ pb.answer = Pending
      /\ f.kind = "TryJoin" => ~FindsError(pa.next) /\ ~FindsError(pb.next)
<1>7. goesOn \/ \E v : p.answer = Ready(v)
  <2>0. /\ ~IsReady(pa) => pa.answer = Pending
        /\ ~IsReady(pb) => pb.answer = Pending
    BY <1>1, <1>3, Results
  <2>1. CASE f.kind = "Race"
    <3>1. p = PollRace(f, pa, pb)
      BY <1>1, <2>1 DEF PollBranches
    <3>2. CASE IsReady(pa) \/ IsReady(pb)
      BY <1>3, <1>6, <3>1, <3>2 DEF PollRace, PassedA, PassedBoth
    <3>3. CASE ~IsReady(pa) /\ ~IsReady(pb)
      BY <1>3, <1>6, <2>0, <2>1, <3>1, <3>3 DEF PollRace, PassedBoth, g
    <3> QED BY <3>2, <3>3
  <2>2. CASE f.kind = "Timeout"
    <3>1. p = PollTimeout(f, pa, pb)
      BY <1>1, <2>2 DEF PollBranches
    <3>2. CASE IsReady(pa) \/ IsReady(pb)
      BY <1>3, <1>6, <3>1, <3>2 DEF PollTimeout, PassedA, PassedBoth
    <3>3. CASE ~IsReady(pa) /\ ~IsReady(pb)
      BY <1>3, <1>6, <2>0, <2>2, <3>1, <3>3 DEF PollTimeout, PassedBoth, g
    <3> QED BY <3>2, <3>3
  <2>3. CASE f.kind = "Join"
    <3>1. p = PollJoin(f, pa, pb)
      BY <1>1, <2>3 DEF PollBranches
    <3>2. CASE IsReady(pa) /\ IsReady(pb)
      BY <1>3, <1>6, <3>1, <3>2 DEF PollJoin
    <3>3. CASE ~(IsReady(pa) /\ IsReady(pb))
      BY <1>3, <1>6, <2>3, <3>1, <3>3 DEF PollJoin, PassedBoth, g
    <3> QED BY <3>2, <3>3
  <2>4. CASE f.kind = "TryJoin"
    <3>1. p = PollTryJoin(f, pa, pb)
      BY <1>1, <2>4 DEF PollBranches
    <3>2. CASE FindsError(pa.next) \/ FindsError(pb.next) \/ (IsReady(pa) /\ IsReady(pb))
      BY <1>3, <1>6, <3>1, <3>2 DEF PollTryJoin
    <3>3. CASE ~(FindsError(pa.next) \/ FindsError(pb.next) \/ (IsReady(pa) /\ IsReady(pb)))
      BY <1>3, <1>6, <2>4, <3>1, <3>3 DEF PollTryJoin, PassedBoth, g
    <3> QED BY <3>2, <3>3
  <2> QED BY <1>1, <2>1, <2>2, <2>3, <2>4 DEF Combining
<1>8. ASSUME goesOn PROVE Sound(p.next)
  <2>1. p.next.a = pa.next /\ p.next.b = pb.next
    BY <1>4, <1>8 DEF pa, pb, g
  <2>2. CASE f.kind \in {"Race", "Timeout"}
    <3>1. Fresh(f.a) /\ Fresh(f.b)
      BY <1>1, <1>2, <2>2 DEF Unspent
    <3>2. Unspent(p.next)
      BY <1>1, <1>3, <1>8, <2>1, <2>2, <3>1 DEF Unspent
    <3> QED BY <1>3, <1>5, <1>8, <2>1, <2>2, <3>2
  <2>3. CASE f.kind \in {"Join", "TryJoin"}
    <3>1. f.a.kind = "MaybeDone" /\ f.b.kind = "MaybeDone"
      BY <2>3, Shapes
    <3>2. Unspent(p.next)
      BY <1>1, <1>8, <2>1, <2>3 DEF Unspent
    <3> QED BY <1>3, <1>5, <2>1, <3>1, <3>2
  <2> QED BY <1>1, <2>2, <2>3 DEF Combining
<1> HIDE DEF goesOn
<1>9. goesOn => p.answer = Pending
  BY DEF goesOn
<1> QED
  BY <1>7, <1>8, <1>9, Results DEF Panics

LEMMA AllSteady ==
  ASSUME NEW f \in Fut PROVE Steady(f)
<1> DEFINE S == {g \in Fut : Steady(g)}
<1>1. ASSUME NEW g \in Fut, PartsOf(g) \subseteq S PROVE g \in S
  BY <1>1, Cases, WrapperSteady, BranchesSteady, LeafSteady
<1>2. Fut \subseteq S
  BY <1>1, Induction
<1> QED BY <1>2

-----------------------------------------------------------------------------
(* Which futures need their place.                                         *)

LEMMA PlaceParts ==
  ASSUME NEW f \in Fut
  PROVE  /\ Unpin(f) <=> ~PinnedItself(f) /\ \A g \in PartsOf(f) : Unpin(g)
         /\ NeedsItsPlace(f) <=> \/ f.kind = "Async" /\ f.started /\ f.inner # None
                                 \/ \E g \in PartsOf(f) : NeedsItsPlace(g)
BY Unfolded DEF Layer, Unpin, NeedsItsPlace

LEMMA UnpinNeedsNoPlace ==
  ASSUME NEW f, Unpin(f) PROVE ~NeedsItsPlace(f)
BY DEF Unpin, NeedsItsPlace, PinnedItself

(* Taking the output of a MaybeDone leaves its future alone.               *)
LEMMA OutputTaken ==
  ASSUME NEW m \in Fut, m.kind = "MaybeDone"
  PROVE  LET n == take_output(m) IN
         /\ n \in Fut /\ n.kind = "MaybeDone" /\ n.inner = m.inner /\ PartsOf(n) = PartsOf(m)
         /\ Unpin(m) => Unpin(n)
         /\ NeedsItsPlace(n) => NeedsItsPlace(m)
<1> DEFINE n == take_output(m)
<1>1. n \in Fut
  BY PollingAssumption
<1>2. m = [kind |-> "MaybeDone", inner |-> m.inner, variant |-> m.variant, output |-> m.output]
  BY Shapes
<1>3. n.kind = "MaybeDone" /\ n.inner = m.inner
  BY <1>2 DEF take_output
<1> HIDE DEF n
<1>4. PartsOf(n) = PartsOf(m)
  BY <1>3 DEF PartsOf, Holds, Wraps, Branches, Combining
<1>5. ~PinnedItself(n)
  BY <1>3 DEF PinnedItself
<1>6. /\ Unpin(m) => Unpin(n)
      /\ NeedsItsPlace(n) => NeedsItsPlace(m)
  BY <1>1, <1>3, <1>4, <1>5, PlaceParts
<1> QED BY <1>1, <1>3, <1>4, <1>6 DEF n

(* Dropping the future in an OptionFuture leaves nothing that lies in it.  *)
LEMMA Cleared ==
  ASSUME NEW f \in Fut, f.kind = "Option"
  PROVE  LET n == clear(f) IN
         /\ n \in Fut /\ n.kind = "Option" /\ n.inner = None /\ PartsOf(n) = {}
         /\ Unpin(n) /\ ~NeedsItsPlace(n)
<1> DEFINE n == clear(f)
<1>1. n \in Fut
  BY PollingAssumption
<1>2. f = [kind |-> "Option", inner |-> f.inner]
  BY Shapes
<1>3. n.kind = "Option" /\ n.inner = None
  BY <1>2 DEF clear
<1> HIDE DEF n
<1>4. PartsOf(n) = {}
  BY <1>3 DEF PartsOf, Holds, Wraps, Branches, Combining
<1>5. ~PinnedItself(n)
  BY <1>3 DEF PinnedItself
<1>6. Unpin(n) /\ ~NeedsItsPlace(n)
  BY <1>1, <1>3, <1>4, <1>5, PlaceParts
<1> QED BY <1>1, <1>3, <1>4, <1>6 DEF n

(* A poll of a leaf leaves a leaf, as free to be moved.                    *)
LEMMA LeafNext ==
  ASSUME NEW f \in Fut, ~Holds(f), ~Branches(f)
  PROVE  LET n == Poll[f].next IN
         /\ n.kind = f.kind /\ PartsOf(n) = {}
         /\ f.kind = "PollFn" => n.unpin = f.unpin
         /\ f.kind \in Wrapping => n = f
<1> DEFINE p == Poll[f]
<1>1. p = PollLeaf(f) /\ p.next \in Fut /\ p.next.kind = f.kind /\ PartsOf(f) = {}
  BY Cases, PollTyped DEF Typed
<1> HIDE DEF p
<1>2. CASE f.kind \in Wrapping
  <2>1. /\ f.kind \in {"Option", "SimpleOption", "Fuse", "MaybeDone", "Async"}
        /\ p = PollEmpty(f)
    BY <1>1, <1>2, Shapes DEF Holds, Wraps, Wrapping, Forwarding, PollLeaf
  <2>2. p.next = f
    BY <2>1 DEF PollEmpty, Polled
  <2> QED BY <1>1, <2>1, <2>2 DEF p
<1>3. CASE f.kind \notin Wrapping
  <2>1. PartsOf(p.next) = {}
    BY <1>1, <1>3 DEF PartsOf, Holds, Wraps, Branches
  <2>2. f.kind = "PollFn" => p.next.unpin = f.unpin
    BY <1>1, Shapes DEF PollLeaf, Wraps, Wrapping, Forwarding, PollPollFn, Polled
  <2> QED BY <1>1, <1>3, <2>1, <2>2 DEF p
<1> QED BY <1>2, <1>3

(* What may be moved may still be moved after a poll.                      *)
LEMMA UnpinPolled ==
  ASSUME NEW f \in Fut, Unpin(f) PROVE Unpin(Poll[f].next)
<1> DEFINE S == {g \in Fut : Unpin(g) => Unpin(Poll[g].next)}
<1>1. ASSUME NEW g \in Fut, PartsOf(g) \subseteq S, Unpin(g) PROVE Unpin(Poll[g].next)
  <2> DEFINE n == Poll[g].next
  <2>1. n \in Fut /\ n.kind = g.kind /\ ~PinnedItself(g) /\ \A h \in PartsOf(g) : Unpin(h) /\ h \in S
    BY <1>1, PollTyped, PlaceParts DEF Typed
  <2>2. CASE Holds(g)
    <3> DEFINE q == Poll[g.inner]
    <3>1. /\ g.inner \in Fut /\ Poll[g] = PollWrapper(g, q) /\ Answers(q) /\ Unpin(g.inner)
          /\ Unpin(q.next)
      BY <2>1, <2>2, Cases, PollTyped DEF Typed
    <3>2. n.inner = None \/ n.inner = q.next
      BY <2>2, <3>1, WrapperPolled
    <3> HIDE DEF q, n
    <3>3. PartsOf(n) \subseteq {q.next}
      BY <2>1, <2>2, <3>2 DEF PartsOf, Holds, Wraps, Branches, Wrapping, Forwarding, Combining
    <3>4. ~PinnedItself(n)
      BY <2>1, <2>2 DEF PinnedItself, Holds, Wraps, Wrapping, Forwarding
    <3>5. Unpin(n)
      BY <2>1, <3>1, <3>3, <3>4, PlaceParts
    <3> QED BY <3>5 DEF n
  <2>3. CASE Branches(g)
    <3>1. Unpin(g.a) /\ Unpin(g.b) /\ Unpin(Poll[g.a].next) /\ Unpin(Poll[g.b].next)
      BY <2>1, <2>3, BranchesNext
    <3>2. /\ g.a \in Fut /\ g.b \in Fut /\ Poll[g.a].next \in Fut /\ Poll[g.b].next \in Fut
      BY <2>3, BranchesNext, PollTyped
    <3>3. CASE g.kind \in {"Join", "TryJoin"}
      <4>1. Unpin(take_output(Poll[g.a].next)) /\ Unpin(take_output(Poll[g.b].next))
        BY <2>3, <3>1, <3>2, <3>3, BranchesNext, OutputTaken
      <4> QED BY <2>1, <2>3, <3>1, <3>3, <4>1, BranchesNext, PlaceParts DEF PinnedItself
    <3>4. CASE g.kind \in {"Race", "Timeout"}
      BY <2>1, <2>3, <3>1, <3>4, BranchesNext, PlaceParts DEF PinnedItself
    <3> QED BY <2>3, <3>3, <3>4 DEF Branches, Combining
  <2>4. CASE ~Holds(g) /\ ~Branches(g)
    <3>1. PartsOf(n) = {} /\ ~PinnedItself(n)
      BY <2>1, <2>4, LeafNext DEF PinnedItself
    <3> QED BY <2>1, <3>1, PlaceParts
  <2> QED BY <2>2, <2>3, <2>4
<1>2. Fut \subseteq S
  BY <1>1, Induction
<1> QED BY <1>2

-----------------------------------------------------------------------------
(* What one poll of a future does to what its driver relies on.            *)

LEMMA LivePolled ==
  ASSUME NEW f \in Fut, Live(f)
  PROVE  LET p == Poll[f] IN ~Panics(p) /\ (p.answer = Pending => Live(p.next))
<1>1. Sound(f) /\ Fresh(f)
  BY DEF Live, Sound
<1> QED BY <1>1, AllSteady DEF Steady, Live, Sound

LEMMA PartAlive ==
  ASSUME NEW f \in Fut, Live(f), f.kind \notin {"Join", "TryJoin"}, NEW g \in PartsOf(f)
  PROVE  Live(g)
<1>1. Unspent(f) /\ Sound(g)
  BY SoundParts DEF Live, Sound
<1> QED BY <1>1 DEF Unspent, Live, Sound

(* An empty slot stays empty; a Fuse or MaybeDone empties its when it is   *)
(* Ready, and not before.                                                  *)
LEMMA Emptied ==
  ASSUME NEW f \in Fut, f.kind \in {"Option", "SimpleOption", "Fuse", "MaybeDone", "Async"}
  PROVE  LET p == Poll[f] IN
         /\ f.inner = None => p.next = f
         /\ f.inner # None /\ f.kind \in {"Fuse", "MaybeDone"} /\ ~Panics(p) =>
              (p.next.inner = None <=> IsReady(p))
<1> DEFINE p == Poll[f]
           q == Poll[f.inner]
<1>1. ~Branches(f) /\ f.kind \in Wrapping
  BY DEF Branches, Combining, Wrapping
<1>2. ASSUME f.inner = None PROVE p.next = f
  BY <1>1, <1>2, LeafNext DEF Holds
<1>3. ASSUME f.inner # None, f.kind \in {"Fuse", "MaybeDone"}, ~Panics(p)
      PROVE  p.next.inner = None <=> IsReady(p)
  <2>1. Holds(f)
    BY <1>1, <1>3 DEF Holds, Wraps
  <2>2. p = PollWrapper(f, q) /\ q.next # None /\ Answers(q)
    BY <2>1, Cases, PollTyped, PollingAssumption DEF Typed
  <2> HIDE DEF p, q
  <2>3. CASE IsReady(q)
    <3>1. p.next.inner = None /\ \E v : p.answer = Ready(v)
      BY <1>3, <2>1, <2>2, <2>3, WrapperPolled
    <3> QED BY <3>1, Results DEF IsReady
  <2>4. CASE ~IsReady(q)
    <3>1. p.next.inner = q.next /\ p.answer = q.answer
      BY <1>3, <2>1, <2>2, <2>4, WrapperPolled
    <3> QED BY <2>2, <2>4, <3>1 DEF IsReady
  <2> QED BY <2>3, <2>4
<1> QED BY <1>2, <1>3

(* An OptionFuture, or a MaybeDone, moves out nothing it cannot repeat.    *)
LEMMA NotMovedOut ==
  ASSUME NEW f \in Fut, f.kind \in {"Option", "MaybeDone"}
  PROVE  ~MovesOut(f)
<1>1. ~Never.once /\ \A n, v : ~At(n, v).once /\ ~Keeping(n, v).once
  BY DEF Never, At, Keeping, Coming
<1>2. ~Branches(f)
  BY DEF Branches, Combining
<1>3. CASE Holds(f)
  <2>1. Outcome[f] \in {OutcomeWrapper(f, Outcome[f.inner])}
    BY <1>2, <1>3, Cases
  <2> QED BY <1>1, <2>1 DEF OutcomeWrapper, MovesOut, Forwarding
<1>4. CASE ~Holds(f)
  <2>1. Outcome[f] = OutcomeLeaf(f)
    BY <1>2, <1>4, Cases
  <2> QED BY <1>1, <2>1 DEF OutcomeLeaf, MovesOut
<1> QED BY <1>3, <1>4

\* What is left of the outcome of s when n polls have made f of it.
Remaining(s, f, n) ==
  LET o == Outcome[s] IN
    IF Comes(o) THEN n < o.polls /\ Outcome[f] = Coming(o.polls - n, o.output, o.kept, o.once)
    ELSE ~Comes(Outcome[f])

LEMMA RemainingPolled ==
  ASSUME NEW s \in Fut, NEW f \in Fut, NEW n \in Nat, Remaining(s, f, n)
  PROVE  LET p == Poll[f]
             o == Outcome[s]
         IN /\ p.answer = Pending => Remaining(s, p.next, n + 1)
            /\ IsReady(p) =>
                 /\ o.polls = n + 1 /\ p.answer = Ready(o.output)
                 /\ o.once => ~Comes(Outcome[p.next])
                 /\ f.kind = "MaybeDone" => output_mut(p.next) = o.kept
<1> DEFINE p  == Poll[f]
           o  == Outcome[s]
           of == Outcome[f]
<1>1. OutcomeOK(o) /\ Exact(f)
  BY OutcomeTyped, AllExact
<1>2. /\ p.answer = Pending => of.polls # 1 /\ Outcome[p.next] = Sooner(of)
      /\ IsReady(p) => /\ of.polls = 1 /\ p.answer = Ready(of.output)
                       /\ of.once => ~Comes(Outcome[p.next])
                       /\ f.kind = "MaybeDone" => output_mut(p.next) = of.kept
  BY <1>1 DEF Exact
<1> HIDE DEF p, o, of
<1>3. CASE ~Comes(o)
  <2>1. ~Comes(of)
    BY <1>3 DEF Remaining, o, of
  <2>2. p.answer = Pending => Remaining(s, p.next, n + 1)
    BY <1>2, <1>3, <2>1 DEF Sooner, Remaining, o
  <2> QED BY <1>2, <2>1, <2>2 DEF Comes, p, o
<1>4. CASE Comes(o)
  <2> DEFINE k == o.polls - n
  <2>1. k \in Nat \ {0} /\ of = Coming(k, o.output, o.kept, o.once) /\ o.polls \in Nat
    BY <1>1, <1>4 DEF Remaining, OutcomeOK, o, of
  <2>2. of.polls = k /\ of.output = o.output /\ of.kept = o.kept /\ of.once = o.once
    <3> HIDE DEF k
    <3> QED BY <2>1, Selected
  <2>3. ASSUME p.answer = Pending PROVE Remaining(s, p.next, n + 1)
    <3>1. k # 1 /\ Outcome[p.next] = Coming(k - 1, o.output, o.kept, o.once)
      BY <1>2, <2>1, <2>2, <2>3, Fields
    <3>2. k - 1 = o.polls - (n + 1) /\ n + 1 < o.polls
      BY <2>1, <3>1
    <3> QED BY <1>4, <3>1, <3>2 DEF Remaining, o
  <2>4. IsReady(p) => o.polls = n + 1
    BY <1>2, <2>1, <2>2
  <2> QED BY <1>2, <2>2, <2>3, <2>4 DEF p, o
<1> QED BY <1>3, <1>4

-----------------------------------------------------------------------------
(* The invariant of whoever drives the future.                             *)

TypeOK ==
  /\ start \in Fut /\ fut \in Fut /\ fut.kind = start.kind
  /\ polls \in Nat /\ readyAt \in Nat

\* The OptionFuture had a future and has been cleared.
WasCleared(s, f) == s.kind = "Option" /\ s.inner # None /\ f.inner = None

\* Before completion, f is alive and what is left of the outcome of s is ahead of it.
Underway(s, f, n) == Live(f) /\ (Remaining(s, f, n) \/ WasCleared(s, f))

\* What was moved out of f is gone.
Spent(s, f) == MovesOut(s) => ~Comes(Outcome[f])

\* If it may be moved, it may be moved wherever it has got to.
Movable(s, f) == Unpin(s) => Unpin(f)

\* No OptionFuture is filled, and a Fuse or MaybeDone empties when it has completed.
Slots(s, f, at) ==
  /\ s.kind = "Option" /\ f.inner # None => s.inner # None
  /\ s.kind \in {"Fuse", "MaybeDone"} /\ s.inner # None => (is_terminated(f) <=> at # 0)

IInv ==
  /\ TypeOK
  /\ readyAt = 0 => answer # Panic /\ Underway(start, fut, polls)
  /\ readyAt # 0 => answer = Panic \/ Spent(start, fut)
  /\ polls = 0 => ~NeedsItsPlace(fut)
  /\ Movable(start, fut)
  /\ Slots(start, fut, readyAt)
  /\ DeliveredAtMostOnce

(* A future as it is given, or taken out of another, has all ahead of it.  *)
LEMMA Begins ==
  ASSUME NEW f \in Fut, Live(f)
  PROVE  Underway(f, f, 0) /\ Movable(f, f) /\ Slots(f, f, 0)
<1> DEFINE o == Outcome[f]
<1>1. OutcomeOK(o)
  BY OutcomeTyped
<1>2. Comes(o) => 0 < o.polls /\ o = Coming(o.polls - 0, o.output, o.kept, o.once)
  BY <1>1 DEF OutcomeOK, Comes, Coming
<1>3. Remaining(f, f, 0)
  BY <1>2 DEF Remaining
<1>4. Movable(f, f) /\ Slots(f, f, 0)
  BY DEF Movable, Slots, is_terminated
<1> QED BY <1>3, <1>4 DEF Underway

(* What one poll does to a future underway, and to one that is spent.      *)
LEMMA Polls ==
  ASSUME NEW s \in Fut, NEW f \in Fut, f.kind = s.kind, NEW n \in Nat
  PROVE  LET p == Poll[f]
             o == Outcome[s]
         IN /\ p.next \in Fut /\ p.next.kind = s.kind /\ Answers(p)
            /\ Movable(s, f) => Movable(s, p.next)
            /\ Underway(s, f, n) =>
                 /\ ~Panics(p)
                 /\ p.answer = Pending => Live(p.next) /\ Remaining(s, p.next, n + 1)
                 /\ Slots(s, f, 0) /\ ~IsReady(p) => Slots(s, p.next, 0)
                 /\ Slots(s, f, 0) /\ IsReady(p) => Slots(s, p.next, n + 1)
                 /\ IsReady(p) =>
                      /\ Spent(s, p.next)
                      /\ \/ /\ o.polls = n + 1 /\ p.answer = Ready(o.output)
                            /\ p.next.kind = "MaybeDone" => output_mut(p.next) = o.kept
                         \/ WasCleared(s, f) /\ p.answer = Ready([none |-> Unit])
            /\ \A k \in Nat \ {0} : Slots(s, f, k) => Slots(s, p.next, k)
            /\ Spent(s, f) => /\ MovesOut(s) => ~IsReady(p)
                              /\ p.answer = Panic \/ Spent(s, p.next)
            /\ p.answer = Pending => p.wakes > 0 \/ ~Comes(Outcome[p.next])
<1> DEFINE p == Poll[f]
           o == Outcome[s]
           n1 == n + 1
<1>1. p.next \in Fut /\ p.next.kind = s.kind /\ Answers(p) /\ p.wakes \in Nat
  BY PollTyped DEF Typed
<1>2. Movable(s, f) => Movable(s, p.next)
  BY UnpinPolled DEF Movable
<1>3. p.answer = Pending => p.wakes > 0 \/ ~Comes(Outcome[p.next])
  BY AllExact DEF Exact, Sooner
<1>4. s.kind \in {"Option", "Fuse", "MaybeDone"} =>
        /\ f.inner = None => p.next = f
        /\ f.inner # None /\ s.kind # "Option" /\ ~Panics(p) => (p.next.inner = None <=> IsReady(p))
  BY Emptied
<1>5. \A k \in Nat \ {0} : Slots(s, f, k) => Slots(s, p.next, k)
  BY <1>1, <1>4 DEF Slots, is_terminated
<1>6. Slots(s, f, 0) /\ ~Panics(p) => /\ ~IsReady(p) => Slots(s, p.next, 0)
                                      /\ IsReady(p) => Slots(s, p.next, n1)
  BY <1>1, <1>4 DEF Slots, is_terminated
<1>7. ASSUME Spent(s, f) PROVE (MovesOut(s) => ~IsReady(p)) /\ (p.answer = Panic \/ Spent(s, p.next))
  <2>1. Exact(f)
    BY AllExact
  <2>2. CASE MovesOut(s)
    <3>1. ~Comes(Outcome[f])
      BY <1>7, <2>2 DEF Spent
    <3>2. ~IsReady(p)
      BY <2>1, <3>1 DEF Exact, Comes
    <3>3. p.answer = Pending => ~Comes(Outcome[p.next])
      BY <2>1, <3>1 DEF Exact, Sooner
    <3> QED BY <1>1, <3>2, <3>3, Results DEF Spent, Panics
  <2>3. CASE ~MovesOut(s)
    BY <2>3 DEF Spent
  <2> QED BY <2>2, <2>3
<1>8. ASSUME Underway(s, f, n)
      PROVE  /\ ~Panics(p) /\ (p.answer = Pending => Live(p.next) /\ Remaining(s, p.next, n1))
             /\ IsReady(p) =>
                  /\ Spent(s, p.next)
                  /\ \/ /\ o.polls = n1 /\ p.answer = Ready(o.output)
                        /\ p.next.kind = "MaybeDone" => output_mut(p.next) = o.kept
                     \/ WasCleared(s, f) /\ p.answer = Ready([none |-> Unit])
  <2>1. ~Panics(p) /\ (p.answer = Pending => Live(p.next))
    BY <1>8, LivePolled DEF Underway
  <2>2. CASE Remaining(s, f, n)
    <3>1. /\ p.answer = Pending => Remaining(s, p.next, n1)
          /\ IsReady(p) =>
               /\ o.polls = n1 /\ p.answer = Ready(o.output)
               /\ o.once => ~Comes(Outcome[p.next])
               /\ f.kind = "MaybeDone" => output_mut(p.next) = o.kept
      BY <2>2, RemainingPolled
    <3> QED BY <1>1, <2>1, <3>1 DEF Spent, MovesOut
  <2>3. CASE WasCleared(s, f)
    <3>1. s.kind = "Option" /\ s.inner # None /\ f.inner = None /\ p.next = f /\ ~MovesOut(s)
      BY <1>4, <2>3, NotMovedOut DEF WasCleared
    <3>2. p = PollEmpty(f)
      BY <3>1, Cases DEF Holds, Branches, Combining, PollLeaf, Wraps, Wrapping, Forwarding
    <3>3. p.answer = Ready([none |-> Unit])
      BY <3>1, <3>2 DEF PollEmpty, Polled
    <3>4. p.answer # Pending
      BY <3>3, Results
    <3> QED BY <2>1, <3>1, <3>3, <3>4 DEF Spent, WasCleared
  <2> QED BY <1>8, <2>2, <2>3 DEF Underway
<1> QED BY <1>1, <1>2, <1>3, <1>5, <1>6, <1>7, <1>8

LEMMA InitInv == Init => IInv
<1> SUFFICES ASSUME Init PROVE IInv
  OBVIOUS
<1>1. /\ start \in Fut /\ fut = start /\ Live(start) /\ ~NeedsItsPlace(start)
      /\ polls = 0 /\ readyAt = 0 /\ answer = Pending
  BY PollingAssumption DEF Init
<1> QED BY <1>1, Begins, Results DEF IInv, TypeOK, DeliveredAtMostOnce

LEMMA PollOnceInv ==
  ASSUME IInv, PollOnce PROVE IInv'
<1> DEFINE p == Poll[fut]
<1>1. /\ fut' = p.next /\ answer' = p.answer /\ polls' = polls + 1 /\ start' = start
      /\ readyAt' = IF readyAt = 0 /\ IsReady(p) THEN polls + 1 ELSE readyAt
      /\ answer # Panic
  BY DEF PollOnce
<1>2. /\ start \in Fut /\ fut \in Fut /\ fut.kind = start.kind /\ polls \in Nat /\ readyAt \in Nat
  BY DEF IInv, TypeOK
<1>3. /\ p.next \in Fut /\ p.next.kind = start.kind /\ Answers(p)
      /\ Movable(start, fut) => Movable(start, p.next)
      /\ Underway(start, fut, polls) =>
           /\ ~Panics(p)
           /\ p.answer = Pending => Live(p.next) /\ Remaining(start, p.next, polls + 1)
           /\ Slots(start, fut, 0) /\ ~IsReady(p) => Slots(start, p.next, 0)
           /\ Slots(start, fut, 0) /\ IsReady(p) => Slots(start, p.next, polls + 1)
           /\ IsReady(p) => Spent(start, p.next)
      /\ \A k \in Nat \ {0} : Slots(start, fut, k) => Slots(start, p.next, k)
      /\ Spent(start, fut) => /\ MovesOut(start) => ~IsReady(p)
                              /\ p.answer = Panic \/ Spent(start, p.next)
  BY <1>2, Polls
<1> HIDE DEF p
<1>4. TypeOK' /\ polls' # 0 /\ Movable(start, p.next)
  BY <1>1, <1>2, <1>3 DEF TypeOK, IInv
<1>5. CASE readyAt = 0 /\ ~IsReady(p)
  <2>1. ~Panics(p) /\ p.answer = Pending
    BY <1>3, <1>5, Results DEF IInv
  <2>2. Underway(start, p.next, polls + 1)
    BY <1>3, <1>5, <2>1 DEF IInv, Underway
  <2>3. Slots(start, p.next, 0)
    BY <1>3, <1>5 DEF IInv
  <2>4. readyAt' = 0
    BY <1>1, <1>5
  <2> QED BY <1>1, <1>4, <2>1, <2>2, <2>3, <2>4, Results DEF IInv, DeliveredAtMostOnce
<1>6. CASE readyAt = 0 /\ IsReady(p)
  <2>1. Spent(start, p.next) /\ Slots(start, p.next, polls + 1)
    BY <1>3, <1>6 DEF IInv
  <2>2. readyAt' = polls' /\ readyAt' # 0
    BY <1>1, <1>2, <1>6
  <2> QED BY <1>1, <1>2, <1>4, <2>1, <2>2 DEF IInv, DeliveredAtMostOnce
<1>7. CASE readyAt # 0
  <2>1. Spent(start, fut) /\ Slots(start, fut, readyAt)
    BY <1>1, <1>7 DEF IInv
  <2>2. readyAt' = readyAt
    BY <1>1, <1>7
  <2>3. Slots(start, p.next, readyAt)
    BY <1>2, <1>3, <1>7, <2>1
  <2>4. (p.answer = Panic \/ Spent(start, p.next)) /\ (MovesOut(start) => ~IsReady(p))
    BY <1>3, <2>1
  <2> QED BY <1>1, <1>4, <1>7, <2>2, <2>3, <2>4 DEF IInv, DeliveredAtMostOnce, IsReady
<1> QED BY <1>5, <1>6, <1>7

LEMMA TakeOutputInv ==
  ASSUME IInv, TakeOutput PROVE IInv'
<1>1. /\ fut.kind = "MaybeDone" /\ fut.variant = "Done" /\ fut' = take_output(fut)
      /\ UNCHANGED <<start, answer, polls, readyAt>>
  BY DEF TakeOutput
<1>2. start \in Fut /\ fut \in Fut /\ start.kind = "MaybeDone"
  BY <1>1 DEF IInv, TypeOK
<1>3. /\ fut' \in Fut /\ fut'.kind = "MaybeDone" /\ fut'.inner = fut.inner
      /\ Unpin(fut) => Unpin(fut')
      /\ NeedsItsPlace(fut') => NeedsItsPlace(fut)
  BY <1>1, <1>2, OutputTaken
<1>4. readyAt # 0
  BY <1>1 DEF IInv, Underway, Live, Fresh
<1>5. ~MovesOut(start)
  BY <1>2, NotMovedOut
<1>6. Slots(start, fut, readyAt) => Slots(start, fut', readyAt)
  BY <1>1, <1>2, <1>3 DEF Slots, is_terminated
<1> QED
  BY <1>1, <1>2, <1>3, <1>4, <1>5, <1>6
     DEF IInv, TypeOK, Movable, Spent, DeliveredAtMostOnce

LEMMA ClearInv ==
  ASSUME IInv, Clear PROVE IInv'
<1>1. /\ fut.kind = "Option" /\ fut.inner # None /\ fut' = clear(fut)
      /\ UNCHANGED <<start, answer, polls, readyAt>>
  BY DEF Clear
<1>2. start \in Fut /\ fut \in Fut /\ start.kind = "Option" /\ start.inner # None
  BY <1>1 DEF IInv, TypeOK, Slots
<1>3. /\ fut' \in Fut /\ fut'.kind = "Option" /\ fut'.inner = None /\ PartsOf(fut') = {}
      /\ Unpin(fut') /\ ~NeedsItsPlace(fut')
  BY <1>1, <1>2, Cleared
<1>4. ~MovesOut(start)
  BY <1>2, NotMovedOut
<1>5. Live(fut')
  <2>1. Unspent(fut') /\ Fresh(fut')
    BY <1>3 DEF Unspent, Fresh
  <2> QED BY <1>3, <2>1, SoundParts DEF Live, Sound
<1>6. Underway(start, fut', polls)
  BY <1>2, <1>3, <1>5 DEF Underway, WasCleared
<1>7. Slots(start, fut', readyAt)
  BY <1>2, <1>3 DEF Slots
<1> QED
  BY <1>1, <1>2, <1>3, <1>4, <1>6, <1>7 DEF IInv, TypeOK, Movable, Spent, DeliveredAtMostOnce

(* Who may move the future finds nothing in it that needs its place.       *)
LEMMA NothingInPlace ==
  ASSUME IInv, MayMove PROVE ~NeedsItsPlace(fut)
BY UnpinNeedsNoPlace DEF IInv, MayMove, Movable

LEMMA IntoInnerInv ==
  ASSUME IInv, IntoInner PROVE IInv'
<1>1. /\ readyAt = 0 /\ TakenOut # None /\ MayMove
      /\ start' = TakenOut /\ fut' = TakenOut /\ answer' = Pending /\ polls' = 0 /\ readyAt' = 0
  BY DEF IntoInner
<1>2. fut \in Fut /\ Live(fut) /\ ~NeedsItsPlace(fut)
  BY <1>1, NothingInPlace DEF IInv, TypeOK, Underway
<1>3. TakenOut \in PartsOf(fut) /\ fut.kind \notin {"Join", "TryJoin"}
  BY <1>1 DEF TakenOut, into_inner, value, PartsOf, Holds, Wraps, Wrapping, Forwarding,
    Branches, Combining
<1>4. TakenOut \in Fut /\ Live(TakenOut) /\ ~NeedsItsPlace(TakenOut)
  BY <1>2, <1>3, PartAlive, PlaceParts, PollingAssumption
<1> HIDE DEF TakenOut
<1>5. Underway(TakenOut, TakenOut, 0) /\ Movable(TakenOut, TakenOut) /\ Slots(TakenOut, TakenOut, 0)
  BY <1>4, Begins
<1> QED
  BY <1>1, <1>4, <1>5, Results DEF IInv, TypeOK, DeliveredAtMostOnce

LEMMA NextInv == IInv /\ [Next]_vars => IInv'
<1> SUFFICES ASSUME IInv, [Next]_vars PROVE IInv'
  OBVIOUS
<1>1. CASE PollOnce
  BY <1>1, PollOnceInv
<1>2. CASE TakeOutput
  BY <1>2, TakeOutputInv
<1>3. CASE Clear
  BY <1>3, ClearInv
<1>4. CASE IntoInner
  BY <1>4, IntoInnerInv
<1>5. CASE UNCHANGED <<start, fut, answer, polls, readyAt>>
  BY <1>5 DEF IInv, TypeOK, DeliveredAtMostOnce
<1>6. PollByHand \/ RunIt => PollOnce
  BY DEF PollByHand, RunIt
<1>7. Move \/ RunLoop \/ UNCHANGED vars => UNCHANGED <<start, fut, answer, polls, readyAt>>
  BY DEF Move, RunLoop, vars, futVars
<1> QED
  BY <1>1, <1>2, <1>3, <1>4, <1>5, <1>6, <1>7 DEF Next

(* IInv holds in every state.                                              *)
THEOREM Invariance == Spec => []IInv
BY InitInv, NextInv, PTL DEF Spec

(* A caller that stops at Ready never meets a panic, whatever it polls.    *)
THEOREM NeverPanicsEarly == Spec => []PanicsOnlyAfterReady
<1>1. IInv => PanicsOnlyAfterReady
  BY DEF IInv, PanicsOnlyAfterReady
<1> QED BY Invariance, <1>1, PTL

(* Nothing that is moved out on completion comes a second time.            *)
THEOREM DeliversOnce == Spec => []DeliveredAtMostOnce
<1>1. IInv => DeliveredAtMostOnce
  BY DEF IInv
<1> QED BY Invariance, <1>1, PTL

(* A Fuse or MaybeDone says it is terminated exactly from its completion.  *)
THEOREM TerminatesWhenReady == Spec => []TerminatedWhenReady
<1>1. IInv => TerminatedWhenReady
  BY DEF IInv, Slots, TerminatedWhenReady
<1> QED BY Invariance, <1>1, PTL

-----------------------------------------------------------------------------
(* poll_until_ready.                                                       *)

\* What Turns is with so many turns left, given its values w for fewer.
Turn(left, w) ==
  [f \in Fut |->
    IF left = 0 THEN Panic
    ELSE LET p    == Poll[f]
             rest == w[left - 1][p.next]
         IN CASE IsReady(p) -> [output |-> p.answer.value, polls |-> 1]
              [] p.answer = Pending /\ rest # Panic -> [rest EXCEPT !.polls = @ + 1]
              [] OTHER -> Panic]

(* A turn looks no further than the one after it.                          *)
LEMMA NextTurn ==
  ASSUME NEW n \in Nat, NEW v, NEW w, n # 0 => v[n - 1] = w[n - 1]
  PROVE  Turn(n, v) = Turn(n, w)
BY DEF Turn

(* There is a function on Nat that is as its turns say.                    *)
LEMMA TurnsExist == \E w : w = [n \in Nat |-> Turn(n, w)]
<1> DEFINE Solves(k, w) == \A n \in 0 .. k : w[n] = Turn(n, w)
<1>1. ASSUME NEW k \in Nat, NEW j \in Nat, NEW v, NEW w, Solves(k, v), Solves(j, w)
      PROVE  \A n \in Nat : n <= k /\ n <= j => v[n] = w[n]
  <2> DEFINE T == {n \in Nat : n <= k /\ n <= j /\ v[n] # w[n]}
  <2> SUFFICES ASSUME T # {} PROVE FALSE
    OBVIOUS
  <2>1. PICK m \in T : \A n \in T : m <= n
    BY Least
  <2>2. m # 0 => v[m - 1] = w[m - 1]
    BY <2>1
  <2>3. Turn(m, v) = Turn(m, w)
    BY <2>2, NextTurn
  <2> QED BY <1>1, <2>3
<1>2. ASSUME NEW k \in Nat PROVE \E w : Solves(k, w)
  <2> DEFINE T == {n \in Nat : ~\E w : Solves(n, w)}
  <2> SUFFICES ASSUME T # {} PROVE FALSE
    OBVIOUS
  <2>1. PICK m \in T : \A n \in T : m <= n
    BY Least
  <2>2. PICK v : m # 0 => Solves(m - 1, v)
    <3>1. m # 0 => m - 1 \in Nat /\ m - 1 \notin T
      BY <2>1
    <3> QED BY <3>1
  <2> DEFINE w == [n \in Nat |-> Turn(n, v)]
  <2>3. ASSUME NEW n \in 0 .. m PROVE w[n] = Turn(n, w)
    <3>1. n # 0 => v[n - 1] = w[n - 1]
      BY <2>2, <2>3
    <3>2. Turn(n, v) = Turn(n, w)
      <4> HIDE DEF w
      <4> QED BY <3>1, NextTurn
    <3> QED BY <3>2
  <2>4. Solves(m, w)
    BY <2>3
  <2> QED BY <2>4
<1> DEFINE at(n) == CHOOSE w : Solves(n, w)
           u     == [n \in Nat |-> at(n)[n]]
<1>3. ASSUME NEW n \in Nat PROVE Solves(n, at(n))
  BY <1>2
<1>4. ASSUME NEW n \in Nat PROVE u[n] = Turn(n, u)
  <2>1. n # 0 => at(n)[n - 1] = u[n - 1]
    <3> SUFFICES ASSUME n # 0 PROVE at(n)[n - 1] = at(n - 1)[n - 1]
      OBVIOUS
    <3> HIDE DEF at, Solves
    <3>1. n - 1 \in Nat /\ n - 1 <= n
      OBVIOUS
    <3>2. Solves(n, at(n)) /\ Solves(n - 1, at(n - 1))
      BY <1>3, <3>1
    <3> QED BY <1>1, <3>1, <3>2
  <2>2. at(n)[n] = Turn(n, at(n))
    BY <1>3
  <2>3. Turn(n, at(n)) = Turn(n, u)
    <3> HIDE DEF at, u
    <3> QED BY <2>1, NextTurn
  <2> QED BY <2>2, <2>3
<1>5. u = [n \in Nat |-> Turn(n, u)]
  BY <1>4
<1> QED BY <1>5

LEMMA TurnsUnfolded ==
  ASSUME NEW n \in Nat PROVE Turns[n] = Turn(n, Turns)
<1>1. Turns = [k \in Nat |-> Turn(k, Turns)]
  BY TurnsExist, Zenon DEF Turns, Turn
<1> QED BY <1>1

\* What poll_until_ready makes of the outcome o if it may poll max times.
Counted(o, max) ==
  IF Comes(o) /\ o.polls <= max THEN [output |-> o.output, polls |-> o.polls] ELSE Panic

(* poll_until_ready counts the polls of every future that has not          *)
(* completed, whatever it may make of them.                                *)
LEMMA CountsEveryPoll ==
  ASSUME NEW max \in Nat
  PROVE  \A f \in Fut : Live(f) => PollUntilReady(f, max) = Counted(Outcome[f], max)
<1> DEFINE Right(n) == \A f \in Fut : Live(f) => Turns[n][f] = Counted(Outcome[f], n)
           T == {n \in Nat : ~Right(n)}
<1>1. SUFFICES ASSUME T # {} PROVE FALSE
  BY DEF PollUntilReady
<1>2. PICK n \in T : \A k \in T : n <= k
  <2> HIDE DEF T
  <2>1. T \subseteq Nat
    BY DEF T
  <2> QED BY <1>1, <2>1, Least
<1>3. PICK f \in Fut : Live(f) /\ Turns[n][f] # Counted(Outcome[f], n)
  BY <1>2
<1> DEFINE p == Poll[f]
           o == Outcome[f]
<1>4. /\ p.next \in Fut /\ Answers(p) /\ ~Panics(p) /\ Exact(f) /\ OutcomeOK(o)
      /\ p.answer = Pending => Live(p.next)
  BY <1>3, PollTyped, LivePolled, AllExact, OutcomeTyped DEF Typed
<1>5. n # 0
  <2>1. n = 0 => Turns[n][f] = Panic
    <3>1. Turns[n] = Turn(n, Turns)
      BY TurnsUnfolded
    <3> QED BY <3>1 DEF Turn
  <2>2. n = 0 => Counted(o, n) = Panic
    BY <1>4 DEF Counted, OutcomeOK, Comes
  <2> QED BY <1>3, <2>1, <2>2
<1> DEFINE rest == Turns[n - 1][p.next]
<1>6. Turns[n][f] = CASE IsReady(p) -> [output |-> p.answer.value, polls |-> 1]
                      [] p.answer = Pending /\ rest # Panic -> [rest EXCEPT !.polls = @ + 1]
                      [] OTHER -> Panic
  <2>1. Turns[n] = Turn(n, Turns)
    BY TurnsUnfolded
  <2> QED BY <1>5, <2>1 DEF Turn
<1>7. CASE IsReady(p)
  <2>1. o.polls = 1 /\ p.answer = Ready(o.output)
    BY <1>4, <1>7 DEF Exact
  <2>2. Turns[n][f] = [output |-> o.output, polls |-> 1]
    BY <1>6, <1>7, <2>1, Results DEF Ready
  <2>3. Counted(o, n) = [output |-> o.output, polls |-> 1]
    BY <1>5, <2>1 DEF Counted, Comes
  <2> QED BY <1>3, <2>2, <2>3
<1>8. CASE p.answer = Pending
  <2>1. o.polls # 1 /\ Outcome[p.next] = Sooner(o) /\ ~IsReady(p)
    BY <1>4, <1>8, Results DEF Exact, IsReady
  <2>2. rest = Counted(Sooner(o), n - 1)
    <3>1. n - 1 \in Nat /\ n - 1 \notin T
      BY <1>2, <1>5
    <3> QED BY <1>4, <1>8, <2>1, <3>1
  <2> HIDE DEF p, o, rest
  <2>3. CASE Comes(o) /\ o.polls <= n
    <3>1. Sooner(o).polls = o.polls - 1 /\ Sooner(o).output = o.output
      BY <2>3, Selected DEF Sooner
    <3>2. o.polls \in Nat /\ o.polls - 1 # 0 /\ o.polls - 1 <= n - 1
      BY <1>4, <1>5, <2>1, <2>3 DEF OutcomeOK, Comes
    <3>3. rest = [output |-> o.output, polls |-> o.polls - 1]
      BY <2>2, <3>1, <3>2 DEF Counted, Comes
    <3>4. rest # Panic /\ [rest EXCEPT !.polls = @ + 1] = [output |-> o.output, polls |-> o.polls]
      BY <3>2, <3>3 DEF Panic
    <3>5. Counted(o, n) = [output |-> o.output, polls |-> o.polls]
      BY <2>3 DEF Counted
    <3> QED BY <1>3, <1>6, <1>8, <2>1, <3>4, <3>5 DEF o, p, rest
  <2>4. CASE ~(Comes(o) /\ o.polls <= n)
    <3>1. ~(Comes(Sooner(o)) /\ Sooner(o).polls <= n - 1)
      BY <1>4, <1>5, <2>4, Selected DEF OutcomeOK, Sooner, Comes
    <3>2. rest = Panic
      BY <2>2, <3>1 DEF Counted
    <3> QED BY <1>3, <1>6, <1>8, <2>1, <2>4, <3>2 DEF Counted, o, p, rest
  <2> QED BY <2>3, <2>4
<1> QED BY <1>4, <1>7, <1>8, Results

(* Wherever a future has got to, poll_until_ready counts the polls it      *)
(* still takes, and panics exactly if it may not make as many.             *)
THEOREM CountsRight == Spec => []CountsPolls
<1>1. ASSUME IInv PROVE CountsPolls
  <2>1. fut \in Fut /\ (readyAt = 0 => Live(fut))
    BY <1>1 DEF IInv, TypeOK, Underway
  <2>2. 0 .. MaxPolls \subseteq Nat
    BY PollingAssumption
  <2> QED BY <2>1, <2>2, CountsEveryPoll DEF CountsPolls, Counted
<1> QED BY Invariance, <1>1, PTL

(* No step but a poll makes the number of polls larger.                    *)
LEMMA OnlyPollsCount ==
  ASSUME IInv, [Next]_vars
  PROVE  /\ PollOnce \/ (polls' = polls /\ readyAt' = readyAt) \/ (polls' = 0 /\ readyAt' = readyAt)
         /\ PollOnce \/ ~(polls' > polls)
<1>1. PollByHand \/ RunIt => PollOnce
  BY DEF PollByHand, RunIt
<1>2. TakeOutput \/ Clear \/ Move \/ RunLoop \/ UNCHANGED vars => polls' = polls /\ readyAt' = readyAt
  BY DEF TakeOutput, Clear, Move, RunLoop, vars, futVars
<1>3. IntoInner => polls' = 0 /\ readyAt' = readyAt
  BY DEF IntoInner
<1>4. polls \in Nat
  BY DEF IInv, TypeOK
<1> QED BY <1>1, <1>2, <1>3, <1>4 DEF Next

(* Every wrapper and combinator, however nested, completes on the poll and *)
(* with the output that follow from what lies in it.                       *)
THEOREM Composes == Spec => CompletesAsComposed
<1>1. ASSUME IInv, [Next]_vars
      PROVE  [LET o == Outcome[start] IN
                /\ polls' > polls /\ readyAt' = 0 => ~Comes(o) \/ polls' < o.polls
                /\ readyAt' # readyAt =>
                     \/ /\ readyAt' = o.polls /\ answer' = Ready(o.output)
                        /\ fut'.kind = "MaybeDone" => output_mut(fut') = o.kept
                     \/ start.kind = "Option" /\ start.inner # None /\ fut.inner = None
                        /\ answer' = Ready([none |-> Unit])]_vars
  <2> DEFINE o == Outcome[start]
             p == Poll[fut]
  <2>1. CASE PollOnce
    <3>1. /\ fut' = p.next /\ answer' = p.answer /\ polls' = polls + 1
          /\ readyAt' = IF readyAt = 0 /\ IsReady(p) THEN polls + 1 ELSE readyAt
      BY <2>1 DEF PollOnce
    <3>2. /\ start \in Fut /\ fut \in Fut /\ fut.kind = start.kind /\ polls \in Nat /\ readyAt \in Nat
          /\ readyAt = 0 => Underway(start, fut, polls)
      BY <1>1 DEF IInv, TypeOK
    <3>3. /\ Answers(p)
          /\ Underway(start, fut, polls) =>
               /\ ~Panics(p)
               /\ p.answer = Pending => Remaining(start, p.next, polls + 1)
               /\ IsReady(p) =>
                    \/ /\ o.polls = polls + 1 /\ p.answer = Ready(o.output)
                       /\ p.next.kind = "MaybeDone" => output_mut(p.next) = o.kept
                    \/ WasCleared(start, fut) /\ p.answer = Ready([none |-> Unit])
      BY <3>2, Polls
    <3>4. Remaining(start, p.next, polls + 1) => ~Comes(o) \/ polls + 1 < o.polls
      BY DEF Remaining
    <3> HIDE DEF p, o
    <3>5. CASE readyAt = 0 /\ IsReady(p)
      <4>1. readyAt' # 0 /\ readyAt' = polls + 1
        BY <3>1, <3>2, <3>5
      <4> QED BY <3>1, <3>2, <3>3, <3>5, <4>1 DEF WasCleared, o
    <3>6. CASE readyAt = 0 /\ ~IsReady(p)
      <4>1. ~Comes(o) \/ polls + 1 < o.polls
        BY <3>2, <3>3, <3>4, <3>6, Results
      <4>2. readyAt' = readyAt
        BY <3>1, <3>6
      <4> QED BY <3>1, <4>1, <4>2 DEF o
    <3>7. CASE readyAt # 0
      <4>1. readyAt' = readyAt
        BY <3>1, <3>7
      <4> QED BY <3>7, <4>1
    <3> QED BY <3>5, <3>6, <3>7
  <2>2. CASE ~PollOnce
    BY <1>1, <2>2, OnlyPollsCount
  <2> QED BY <2>1, <2>2
<1> QED BY Invariance, <1>1, PTL DEF Spec, CompletesAsComposed

(* No wrapper swallows a wake, and no combinator leaves a branch unpolled  *)
(* that would have woken it: a Pending is followed by a poll.              *)
THEOREM WakesArePassedOn == Spec => PendingIsAPromise
<1>1. ASSUME IInv, [Next]_vars
      PROVE  [polls' > polls /\ answer' = Pending => woken' \/ Silent(fut')]_vars
  <2>1. CASE PollOnce
    <3> DEFINE p == Poll[fut]
    <3>1. fut' = p.next /\ answer' = p.answer /\ woken' = (p.wakes > 0)
      BY <2>1 DEF PollOnce
    <3>2. fut \in Fut /\ start \in Fut /\ fut.kind = start.kind /\ polls \in Nat
      BY <1>1 DEF IInv, TypeOK
    <3>3. p.answer = Pending => p.wakes > 0 \/ ~Comes(Outcome[p.next])
      BY <3>2, Polls
    <3> HIDE DEF p
    <3> QED BY <3>1, <3>3 DEF Silent
  <2>2. CASE ~PollOnce
    BY <1>1, <2>2, OnlyPollsCount
  <2> QED BY <2>1, <2>2
<1> QED BY Invariance, <1>1, PTL DEF Spec, PendingIsAPromise

(* Whatever the types let the holder do, nothing that borrows from itself  *)
(* is moved.                                                               *)
THEOREM Pinned == Spec => StaysPut
<1>1. ASSUME IInv, [Next]_vars PROVE [place' # place => ~NeedsItsPlace(fut)]_vars
  <2>1. Move \/ IntoInner => MayMove
    BY DEF Move, IntoInner
  <2>2. PollByHand \/ TakeOutput \/ Clear \/ RunIt \/ RunLoop \/ UNCHANGED vars => place' = place
    BY DEF PollByHand, RunIt, PollOnce, TakeOutput, Clear, RunLoop, vars, futVars
  <2> QED BY <1>1, <2>1, <2>2, NothingInPlace DEF Next
<1> QED BY Invariance, <1>1, PTL DEF Spec, StaysPut

-----------------------------------------------------------------------------
(* The executor: what WakesAreEnough and YieldResumes rest on, apart from  *)
(* the fairness of its thread.                                             *)

(***************************************************************************)
(* The looping task is always in the queue, once; the future's task is at  *)
(* most once, never after a panic or after completion, and, while the      *)
(* future is not complete, unless it has fallen silent.                    *)
(***************************************************************************)
Queued ==
  /\ driver = "hand" => queue = <<>>
  /\ driver = "executor" =>
       /\ spin \in [kind : {"YieldNow"}, yielded : BOOLEAN]
       /\ queue \in {<<"loop">>, <<"it", "loop">>, <<"loop", "it">>}
       /\ queue # <<"loop">> => answer = Pending /\ readyAt = 0
       /\ readyAt = 0 => Remaining(start, fut, polls) /\ (Silent(fut) \/ queue # <<"loop">>)

\* The steps of the executor before the future's task has its turn.
Waiting == IF Head(queue) = "it" THEN 0 ELSE IF spin.yielded THEN 2 ELSE 1

\* At most so many steps of the executor are ahead of the future.
StepsLeft == 3 * (Outcome[start].polls - polls) + Waiting

(* Whoever is not silent comes nearer to its completion with every step    *)
(* the executor makes, those for the other task included.                  *)
EveryStepCounts ==
  [][driver = "executor" /\ readyAt = 0 /\ ~Silent(start) =>
       StepsLeft \in Nat /\ (readyAt' # 0 \/ StepsLeft' < StepsLeft)]_vars

(* The queues there are, and what becomes of them.                         *)
LEMMA Queues ==
  ASSUME NEW x, NEW y
  PROVE  /\ <<x>> # <<>> /\ <<x, y>> # <<>> /\ <<x>> # <<x, y>> /\ <<y>> # <<x, y>>
         /\ Head(<<x>>) = x /\ Head(<<x, y>>) = x
         /\ Tail(<<x>>) \o <<x>> = <<x>> /\ Tail(<<x, y>>) \o <<x>> = <<y, x>>
         /\ Tail(<<x, y>>) \o <<>> = <<y>>
<1>1. Len(<<>>) = 0 /\ Len(<<x>>) = 1 /\ Len(<<y>>) = 1 /\ Len(<<x, y>>) = 2
  OBVIOUS
<1>2. <<x>> # <<>> /\ <<x, y>> # <<>> /\ <<x>> # <<x, y>> /\ <<y>> # <<x, y>>
  BY <1>1
<1>3. Head(<<x>>) = x /\ Head(<<x, y>>) = x
  OBVIOUS
<1>4. Tail(<<x>>) = <<>> /\ Tail(<<x, y>>) = <<y>>
  OBVIOUS
<1>5. <<>> \o <<x>> = <<x>> /\ <<y>> \o <<>> = <<y>>
  <2>1. <<x>> \in Seq({x, y}) /\ <<y>> \in Seq({x, y})
    OBVIOUS
  <2> QED BY <2>1, ConcatEmptySeq
<1>6. <<y>> \o <<x>> = <<y, x>>
  <2> DEFINE s == <<y>> \o <<x>>
  <2>1. <<x>> \in Seq({x, y}) /\ <<y>> \in Seq({x, y}) /\ <<y, x>> \in Seq({x, y})
    OBVIOUS
  <2>2. s \in Seq({x, y}) /\ Len(s) = 2 /\ s[1] = y /\ s[2] = x
    <3>1. <<x>>[1] = x /\ <<y>>[1] = y
      OBVIOUS
    <3> QED BY <1>1, <2>1, <3>1, ConcatProperties
  <2>3. <<y, x>>[1] = y /\ <<y, x>>[2] = x /\ Len(<<y, x>>) = 2
    OBVIOUS
  <2> HIDE DEF s
  <2>4. \A i \in 1 .. Len(s) : s[i] = <<y, x>>[i]
    <3>1. \A i \in 1 .. 2 : i = 1 \/ i = 2
      OBVIOUS
    <3> QED BY <2>2, <2>3, <3>1
  <2> QED BY <2>1, <2>2, <2>3, <2>4, SeqEqual DEF s
<1> QED BY <1>2, <1>3, <1>4, <1>5, <1>6

LEMMA Yields ==
  ASSUME NEW y \in [kind : {"YieldNow"}, yielded : BOOLEAN]
  PROVE  LET p == PollYieldNow(y) IN
         /\ IsReady(p) <=> y.yielded
         /\ ~y.yielded => p.next \in [kind : {"YieldNow"}, yielded : BOOLEAN] /\ p.next.yielded /\ p.wakes = 1
<1>1. CASE y.yielded
  BY <1>1 DEF PollYieldNow, Polled, IsReady, Ready
<1>2. CASE ~y.yielded
  <2>1. PollYieldNow(y) = [next |-> [y EXCEPT !.yielded = TRUE], answer |-> Pending, wakes |-> 1]
    BY <1>2 DEF PollYieldNow, Polled
  <2>2. [y EXCEPT !.yielded = TRUE] \in [kind : {"YieldNow"}, yielded : BOOLEAN] /\ [y EXCEPT !.yielded = TRUE].yielded
    OBVIOUS
  <2> QED BY <1>2, <2>1, <2>2, Results DEF IsReady
<1> QED BY <1>1, <1>2

LEMMA QueuedAtFirst == Init => Queued
<1> SUFFICES ASSUME Init PROVE Queued
  OBVIOUS
<1>1. /\ start \in Fut /\ fut = start /\ Live(start)
      /\ polls = 0 /\ readyAt = 0 /\ answer = Pending
  BY PollingAssumption DEF Init
<1>2. Remaining(start, fut, polls)
  BY <1>1, Begins DEF Underway, WasCleared
<1>3. driver = "hand" => queue = <<>>
  BY DEF Init
<1>4. driver = "executor" => queue \in {<<"it", "loop">>, <<"loop", "it">>}
  BY DEF Init
<1>5. spin \in [kind : {"YieldNow"}, yielded : BOOLEAN] /\ ~spin.yielded
  BY DEF Init, yield_now
<1>6. \A x, y : <<x>> # <<x, y>> /\ <<y>> # <<x, y>>
  BY Queues
<1> QED BY <1>1, <1>2, <1>3, <1>4, <1>5, <1>6 DEF Queued

(* The turn of the future's task.                                          *)
LEMMA ItsTurn ==
  ASSUME IInv, Queued, driver = "executor", RunIt
  PROVE  /\ queue = <<"it", "loop">> /\ readyAt = 0 /\ polls' = polls + 1
         /\ UNCHANGED <<driver, start, spin>>
         /\ \/ readyAt' # 0 /\ queue' = <<"loop">>
            \/ /\ readyAt' = 0 /\ answer' = Pending
               /\ Remaining(start, fut', polls')
               /\ queue' = <<"loop", "it">> \/ (Silent(fut') /\ queue' = <<"loop">>)
<1> DEFINE p == Poll[fut]
<1>1. /\ fut' = p.next /\ answer' = p.answer /\ polls' = polls + 1
      /\ readyAt' = IF readyAt = 0 /\ IsReady(p) THEN polls + 1 ELSE readyAt
      /\ UNCHANGED <<driver, start, spin>>
      /\ Head(queue) = "it"
      /\ queue' = Requeued("it", IF IsReady(p) THEN 0 ELSE p.wakes)
  BY DEF RunIt, PollOnce
<1>2. queue = <<"it", "loop">>
  BY <1>1, Queues DEF Queued
<1>3. readyAt = 0 /\ Remaining(start, fut, polls)
  BY <1>2, Queues DEF Queued
<1>4. /\ start \in Fut /\ fut \in Fut /\ fut.kind = start.kind /\ polls \in Nat
      /\ Underway(start, fut, polls)
  BY <1>3 DEF IInv, TypeOK
<1>5. /\ Answers(p) /\ ~Panics(p)
      /\ p.answer = Pending => Remaining(start, p.next, polls + 1)
      /\ p.answer = Pending => p.wakes > 0 \/ ~Comes(Outcome[p.next])
  BY <1>4, Polls
<1>6. p.wakes \in Nat
  BY <1>4, PollTyped DEF Typed
<1> HIDE DEF p
<1>7. CASE IsReady(p)
  <2>1. readyAt' # 0
    BY <1>1, <1>3, <1>4, <1>7
  <2>2. queue' = <<"loop">>
    BY <1>1, <1>2, <1>7, Queues DEF Requeued
  <2> QED BY <1>1, <1>2, <1>3, <2>1, <2>2
<1>8. CASE ~IsReady(p)
  <2>1. p.answer = Pending /\ readyAt' = 0
    BY <1>1, <1>3, <1>5, <1>8, Results
  <2>2. queue' = IF p.wakes > 0 THEN <<"loop", "it">> ELSE <<"loop">>
    BY <1>1, <1>2, <1>8, Queues DEF Requeued
  <2> QED BY <1>1, <1>2, <1>3, <1>5, <2>1, <2>2 DEF Silent
<1> QED BY <1>7, <1>8

(* The turn of the looping task.                                           *)
LEMMA LoopsTurn ==
  ASSUME Queued, driver = "executor", RunLoop
  PROVE  /\ UNCHANGED <<driver, start, fut, answer, polls, readyAt>>
         /\ spin' \in [kind : {"YieldNow"}, yielded : BOOLEAN] /\ spin'.yielded = ~spin.yielded
         /\ \/ queue = <<"loop">> /\ queue' = queue
            \/ /\ queue = <<"loop", "it">>
               /\ queue' = IF spin.yielded THEN queue ELSE <<"it", "loop">>
<1> DEFINE p == PollYieldNow(spin)
<1>1. /\ UNCHANGED <<driver, start, fut, answer, polls, readyAt>> /\ Head(queue) = "loop"
      /\ IF IsReady(p) THEN spin' = yield_now /\ UNCHANGED queue
         ELSE spin' = p.next /\ queue' = Requeued("loop", p.wakes)
  BY DEF RunLoop, futVars
<1>2. queue \in {<<"loop">>, <<"loop", "it">>}
  BY <1>1, Queues DEF Queued
<1>3. /\ spin.yielded \in BOOLEAN /\ (IsReady(p) <=> spin.yielded)
      /\ ~spin.yielded => p.next \in [kind : {"YieldNow"}, yielded : BOOLEAN] /\ p.next.yielded /\ p.wakes = 1
  BY Yields DEF Queued
<1> HIDE DEF p
<1>4. CASE spin.yielded
  <2>1. queue' = queue /\ spin' = yield_now
    BY <1>1, <1>3, <1>4
  <2>2. yield_now \in [kind : {"YieldNow"}, yielded : BOOLEAN] /\ ~yield_now.yielded
    BY DEF yield_now
  <2> QED BY <1>1, <1>2, <1>4, <2>1, <2>2
<1>5. CASE ~spin.yielded
  <2>1. spin' \in [kind : {"YieldNow"}, yielded : BOOLEAN] /\ spin'.yielded /\ queue' = Tail(queue) \o <<"loop">>
    <3>1. spin' = p.next /\ queue' = Requeued("loop", p.wakes) /\ p.wakes = 1
      BY <1>1, <1>3, <1>5
    <3> QED BY <1>3, <1>5, <3>1 DEF Requeued
  <2>2. /\ queue = <<"loop">> => queue' = <<"loop">>
        /\ queue = <<"loop", "it">> => queue' = <<"it", "loop">>
    BY <2>1, Queues
  <2> QED BY <1>1, <1>2, <1>3, <1>5, <2>1, <2>2
<1> QED BY <1>4, <1>5

(* Who else may act when whom the executor drives.                         *)
LEMMA WhoActs ==
  ASSUME [Next]_vars, Queued
  PROVE  /\ driver = "hand" => UNCHANGED <<driver, queue>>
         /\ driver = "executor" => RunIt \/ RunLoop \/ UNCHANGED vars
         /\ driver' = driver
<1>1. driver' = driver
  BY DEF Next, PollByHand, PollOnce, TakeOutput, Clear, Move, IntoInner, RunIt, RunLoop, vars
<1>2. driver = "executor" => RunIt \/ RunLoop \/ UNCHANGED vars
  BY DEF Next, PollByHand, TakeOutput, Clear, Move, IntoInner
<1>3. driver = "hand" => ~RunIt /\ ~RunLoop
  BY DEF Queued, RunIt, RunLoop
<1>4. PollByHand \/ TakeOutput \/ Clear \/ Move \/ IntoInner \/ UNCHANGED vars => UNCHANGED queue
  BY DEF PollByHand, TakeOutput, Clear, Move, IntoInner, vars, taskVars
<1> QED BY <1>1, <1>2, <1>3, <1>4 DEF Next

LEMMA QueuedKeeps == IInv /\ Queued /\ [Next]_vars => Queued'
<1> SUFFICES ASSUME IInv, Queued, [Next]_vars PROVE Queued'
  OBVIOUS
<1>1. /\ driver' = driver
      /\ driver = "hand" => UNCHANGED queue
      /\ driver = "executor" => RunIt \/ RunLoop \/ UNCHANGED vars
  BY WhoActs
<1>2. CASE driver # "executor"
  BY <1>1, <1>2 DEF Queued
<1>3. CASE driver = "executor" /\ RunIt
  <2>1. /\ UNCHANGED spin /\ UNCHANGED start
        /\ \/ readyAt' # 0 /\ queue' = <<"loop">>
           \/ /\ readyAt' = 0 /\ answer' = Pending
              /\ Remaining(start, fut', polls')
              /\ queue' = <<"loop", "it">> \/ (Silent(fut') /\ queue' = <<"loop">>)
    BY <1>3, ItsTurn
  <2>2. <<"loop", "it">> # <<"loop">>
    BY Queues
  <2> QED BY <1>1, <1>3, <2>1, <2>2 DEF Queued
<1>4. CASE driver = "executor" /\ RunLoop
  <2>1. /\ UNCHANGED <<start, fut, answer, polls, readyAt>>
        /\ spin' \in [kind : {"YieldNow"}, yielded : BOOLEAN] /\ spin'.yielded = ~spin.yielded
        /\ \/ queue = <<"loop">> /\ queue' = queue
           \/ /\ queue = <<"loop", "it">>
              /\ queue' = IF spin.yielded THEN queue ELSE <<"it", "loop">>
    BY <1>4, LoopsTurn
  <2>2. <<"loop", "it">> # <<"loop">> /\ <<"it", "loop">> # <<"loop">>
    BY Queues
  <2>3. spin'.yielded = ~spin.yielded /\ spin'.yielded \in BOOLEAN
    BY <2>1
  <2> QED BY <1>1, <1>4, <2>1, <2>2, <2>3 DEF Queued
<1>5. CASE UNCHANGED vars
  BY <1>5 DEF Queued, vars, futVars, taskVars
<1> QED BY <1>1, <1>2, <1>3, <1>4, <1>5

(* No wake is lost on the way to the queue: a task of the executor that    *)
(* waits for a poll is in it, once, and the one that has the thread can    *)
(* run.                                                                    *)
THEOREM WokenIsQueued == Spec => []Queued
<1>1. Init => IInv /\ Queued
  BY InitInv, QueuedAtFirst
<1>2. (IInv /\ Queued) /\ [Next]_vars => (IInv /\ Queued)'
  BY NextInv, QueuedKeeps
<1> QED BY <1>1, <1>2, PTL DEF Spec

(* A task that loops on yield_now holds the other up for two steps at most *)
(* between two polls: a future of n polls is done within 3 * n steps.      *)
THEOREM ProgressIsBounded == Spec => EveryStepCounts
<1>1. ASSUME IInv, Queued, [Next]_vars
      PROVE  [driver = "executor" /\ readyAt = 0 /\ ~Silent(start) =>
                StepsLeft \in Nat /\ (readyAt' # 0 \/ StepsLeft' < StepsLeft)]_vars
  <2> SUFFICES ASSUME driver = "executor", readyAt = 0, ~Silent(start), vars' # vars
               PROVE  StepsLeft \in Nat /\ (readyAt' # 0 \/ StepsLeft' < StepsLeft)
    OBVIOUS
  <2> DEFINE n == Outcome[start].polls
  <2>1. n \in Nat /\ polls \in Nat /\ polls < n
    <3>1. Remaining(start, fut, polls) /\ Comes(Outcome[start])
      BY <1>1 DEF Queued, Silent
    <3>2. start \in Fut /\ polls \in Nat
      BY <1>1 DEF IInv, TypeOK
    <3> QED BY <3>1, <3>2, OutcomeTyped DEF OutcomeOK, Remaining
  <2>2. Waiting \in 0 .. 2 /\ StepsLeft = 3 * (n - polls) + Waiting
    BY DEF Waiting, StepsLeft
  <2>3. StepsLeft \in Nat
    BY <2>1, <2>2
  <2>4. CASE RunIt
    <3>1. /\ queue = <<"it", "loop">> /\ polls' = polls + 1 /\ UNCHANGED start
      BY <1>1, <2>4, ItsTurn
    <3>2. Waiting = 0 /\ Waiting' \in 0 .. 2 /\ StepsLeft' = 3 * (n - polls') + Waiting'
      BY <3>1, Queues DEF Waiting, StepsLeft
    <3> QED BY <2>1, <2>2, <2>3, <3>1, <3>2
  <2>5. CASE RunLoop
    <3>1. /\ UNCHANGED <<start, polls>> /\ spin.yielded \in BOOLEAN
          /\ spin'.yielded = ~spin.yielded
          /\ \/ queue = <<"loop">>
             \/ /\ queue = <<"loop", "it">>
                /\ queue' = IF spin.yielded THEN queue ELSE <<"it", "loop">>
      BY <1>1, <2>5, LoopsTurn DEF Queued
    <3>2. queue # <<"loop">>
      BY <1>1, <2>1 DEF Queued, Silent, Remaining, Comes, Coming
    <3>3. Waiting' < Waiting
      <4>1. Head(queue) = "loop" /\ Head(queue') = IF spin.yielded THEN "loop" ELSE "it"
        BY <3>1, <3>2, Queues
      <4>2. spin.yielded => Waiting = 2 /\ Waiting' = 1
        BY <3>1, <4>1 DEF Waiting
      <4>3. ~spin.yielded => Waiting = 1 /\ Waiting' = 0
        BY <3>1, <4>1 DEF Waiting
      <4> QED BY <4>2, <4>3
    <3>4. StepsLeft' = 3 * (n - polls) + Waiting' /\ Waiting' \in 0 .. 2
      BY <3>1 DEF Waiting, StepsLeft
    <3> QED BY <2>1, <2>2, <2>3, <3>3, <3>4
  <2> QED BY <1>1, <2>4, <2>5, WhoActs
<1> QED BY Invariance, WokenIsQueued, <1>1, PTL DEF Spec, EveryStepCounts
=============================================================================
