------------------------------- MODULE Nesting -------------------------------
(***************************************************************************)
(* The futures of Futures polled and looked into as deep as they nest, for *)
(* futures that come one at a time, as those of Tests do.                  *)
(***************************************************************************)
EXTENDS Futures

RECURSIVE Poll(_)
Poll(f) ==
  CASE Holds(f)    -> PollWrapper(f, Poll(f.inner))
    [] Branches(f) -> PollBranches(f, Poll(f.a), Poll(f.b))
    [] OTHER       -> PollLeaf(f)

(***************************************************************************)
(* Whether f may be moved after it was pinned.  A wrapper whose pin        *)
(* reaches what it holds is Unpin when that is; Ready and NotStructural    *)
(* never pin their value.                                                  *)
(***************************************************************************)
RECURSIVE Unpin(_)
Unpin(f) == ~PinnedItself(f) /\ \A g \in PartsOf(f) : Unpin(g)

\* poll_until_ready of testing.rs, from its poll-th turn on.
RECURSIVE PollUntilReady(_, _, _)
PollUntilReady(f, poll, max) ==
  IF poll > max THEN Panic
  ELSE LET p == Poll(f) IN
    IF IsReady(p) THEN [output |-> p.answer.value, polls |-> poll]
    ELSE IF p.answer = Panic THEN Panic
    ELSE PollUntilReady(p.next, poll + 1, max)
=============================================================================
