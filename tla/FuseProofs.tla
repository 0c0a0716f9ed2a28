------------------------------ MODULE FuseProofs ------------------------------
(***************************************************************************)
(* Proofs about Fuse under a loop, for any sets of tasks and outputs.      *)
(***************************************************************************)
EXTENDS Fuse, Naturals, BranchesProofs

\* Only a branch that was given a future holds one.
LiveInv == \A l \in Leaf : inner[l] = "Some" => l \in live

IInv == TypeOK /\ WakeInv /\ PollInv /\ LiveInv /\ DeliveredOnce

(* What the completing poll of a branch hands on is the last thing handed. *)
LEMMA HandsOn ==
  ASSUME delivered \in Seq(Items), NEW l \in Leaf, NEW v \in Outputs,
         delivered' = Append(delivered, [branch |-> l, output |-> v])
  PROVE  /\ delivered' \in Seq(Items)
         /\ Handed(l)' = Handed(l) \cup {Len(delivered) + 1}
         /\ \A k \in Leaf \ {l} : Handed(k)' = Handed(k)
         /\ delivered'[Len(delivered) + 1].output = v
         /\ \A i \in DOMAIN delivered : delivered'[i] = delivered[i]
<1> DEFINE d == [branch |-> l, output |-> v]
<1>1. d \in Items /\ d.branch = l /\ d.output = v
  BY DEF Items
<1>2. /\ delivered' \in Seq(Items) /\ DOMAIN delivered' = DOMAIN delivered \cup {Len(delivered) + 1}
      /\ delivered'[Len(delivered) + 1] = d
      /\ \A i \in DOMAIN delivered : delivered'[i] = delivered[i]
      /\ Len(delivered) + 1 \notin DOMAIN delivered
  BY <1>1
<1> HIDE DEF d
<1> QED BY <1>1, <1>2 DEF Handed

(* The three outcomes of polling one Fuse.                                 *)
LEMMA FuseReadyKeeps ==
  ASSUME IInv, NEW l \in Leaf, FuseReady(l) PROVE IInv'
<1> USE DEF IInv, TypeOK
<1>1. /\ pc = l /\ pc' = After(l) /\ result = None /\ UNCHANGED <<fired, result, seen, live>>
      /\ inner[l] = "Some" /\ inner' = [inner EXCEPT ![l] = "None"]
  BY DEF FuseReady, PollGoesTo, PollInv, LeafReady, Leaf
<1>2. EnvTypeOK' /\ Watched(l)' /\ \A k \in Leaf : Watched(k) => Watched(k)'
  BY <1>1, ReadyKeeps DEF FuseReady
<1>3. /\ fired[l] \in Outputs /\ status[l] = "running" /\ Handed(l) = {}
      /\ status' = [status EXCEPT ![l] = "ready"]
  BY <1>1 DEF FuseReady, LeafReady, EnvTypeOK, DeliveredOnce, is_terminated
<1>4. /\ delivered' \in Seq(Items) /\ Handed(l)' = {Len(delivered) + 1}
      /\ delivered'[Len(delivered) + 1].output = fired[l]
      /\ \A k \in Leaf \ {l} : Handed(k)' = Handed(k)
      /\ \A i \in DOMAIN delivered : delivered'[i] = delivered[i]
  BY <1>3, HandsOn DEF FuseReady
<1>5. l \in live
  BY <1>1 DEF LiveInv
<1>6. DeliveredOnce'
  <2>1. ASSUME NEW k \in Leaf, k # l
        PROVE  /\ (status'[k] = IF is_terminated(k)' THEN "ready" ELSE "running")
               /\ \A i \in Handed(k)' : delivered'[i].output = fired'[k]
               /\ IF k \in live' /\ is_terminated(k)' THEN \E i \in Handed(k)' : Handed(k)' = {i}
                  ELSE Handed(k)' = {}
    <3>1. inner'[k] = inner[k] /\ status'[k] = status[k]
      BY <1>1, <1>3, <2>1 DEF EnvTypeOK
    <3>2. \A i \in Handed(k) : delivered'[i] = delivered[i]
      BY <1>4 DEF Handed
    <3>3. Handed(k)' = Handed(k) /\ fired'[k] = fired[k] /\ live' = live
      BY <1>1, <1>4, <2>1
    <3>4. is_terminated(k)' <=> is_terminated(k)
      BY <3>1 DEF is_terminated
    <3>5. /\ (status[k] = IF is_terminated(k) THEN "ready" ELSE "running")
          /\ \A i \in Handed(k) : delivered[i].output = fired[k]
          /\ IF k \in live /\ is_terminated(k) THEN \E i \in Handed(k) : Handed(k) = {i}
             ELSE Handed(k) = {}
      BY DEF DeliveredOnce
    <3> HIDE DEF IInv, TypeOK
    <3> QED
      BY <3>1, <3>2, <3>3, <3>4, <3>5
  <2>2. is_terminated(l)' /\ status'[l] = "ready"
    BY <1>1, <1>3 DEF is_terminated, EnvTypeOK
  <2>3. /\ \A i \in Handed(l)' : delivered'[i].output = fired'[l]
        /\ \E i \in Handed(l)' : Handed(l)' = {i}
    BY <1>1, <1>4
  <2> QED
    BY <1>1, <1>5, <2>1, <2>2, <2>3 DEF DeliveredOnce
<1>7. WakeInv' /\ PollInv' /\ LiveInv'
  BY <1>1, <1>2 DEF WakeInv, PollInv, LiveInv, Asked, Parked, CanPoll, After, Leaf
<1> QED BY <1>1, <1>2, <1>4, <1>6, <1>7 DEF After, Leaf

LEMMA FusePendingKeeps ==
  ASSUME IInv, NEW l \in Leaf, FusePending(l) \/ FuseTerminated(l) PROVE IInv'
<1> USE DEF IInv, TypeOK
<1>1. /\ pc = l /\ pc' = After(l) /\ result = None /\ UNCHANGED <<fired, status, result, seen, fuseVars>>
  BY DEF FusePending, FuseTerminated, PollGoesTo, PollInv, LeafPending, leafVars, Leaf
<1>2. EnvTypeOK' /\ Watched(l)' /\ \A k \in Leaf : Watched(k) => Watched(k)'
  <2>1. CASE FusePending(l)
    BY <1>1, <2>1, PendingKeeps DEF FusePending
  <2>2. CASE FuseTerminated(l)
    <3>1. status[l] = "ready"
      BY <2>2 DEF FuseTerminated, DeliveredOnce, is_terminated
    <3> QED
      BY <1>1, <2>2, <3>1 DEF FuseTerminated, leafVars, taskVars, EnvTypeOK, Watched
  <2> QED BY <2>1, <2>2
<1>3. DeliveredOnce' /\ LiveInv'
  BY <1>1 DEF fuseVars, DeliveredOnce, Handed, is_terminated, LiveInv
<1>4. WakeInv' /\ PollInv'
  BY <1>1, <1>2 DEF WakeInv, PollInv, Asked, Parked, CanPoll, After, Leaf
<1> QED BY <1>1, <1>2, <1>3, <1>4 DEF After, Leaf, fuseVars

(* The loop goes round again, or ends.                                     *)
LEMMA LoopKeeps ==
  ASSUME IInv, LoopGoesOn \/ LoopEnds PROVE IInv'
<1> USE DEF IInv, TypeOK
<1>1. /\ pc = "decide" /\ pc' = "idle" /\ result = None
      /\ UNCHANGED <<leafVars, taskVars, seen, fuseVars>>
  BY DEF LoopGoesOn, LoopEnds, PollPends, PollCompletes, PollInv
<1>2. EnvTypeOK' /\ DeliveredOnce' /\ LiveInv' /\ PollInv'
  BY <1>1 DEF leafVars, taskVars, fuseVars, EnvTypeOK, DeliveredOnce, Handed, is_terminated, LiveInv, PollInv
<1>3. CASE LoopGoesOn
  <2>1. \E l \in Leaf : status[l] = "running"
    BY <1>3 DEF LoopGoesOn, DeliveredOnce
  <2>2. WakeInv'
    BY <1>1, <1>3, <2>1
       DEF LoopGoesOn, PollPends, leafVars, taskVars, WakeInv, Parked, CanPoll, Asked, Watched
  <2> QED
    BY <1>1, <1>2, <1>3, <2>2 DEF LoopGoesOn, PollPends, fuseVars
<1>4. CASE LoopEnds
  BY <1>1, <1>2, <1>4, FuseAssumption
     DEF LoopEnds, PollCompletes, fuseVars, WakeInv, Parked, CanPoll
<1> QED BY <1>3, <1>4

(* What happens between and around the steps of a poll.                    *)
LEMMA OutsideKeeps ==
  ASSUME IInv, UNCHANGED fuseVars,
         PollBegin \/ OutsideNext \/ \E l \in Leaf, v \in Outputs : Fire(l, v)
  PROVE  IInv'
<1> USE DEF IInv, TypeOK
<1>1. EnvTypeOK' /\ WakeInv' /\ PollInv'
  BY BeginKeeps, OutsideNextKeeps, FireKeeps
<1>2. /\ UNCHANGED <<status, result>> /\ pc' \in {pc, "a"}
      /\ \A l \in Leaf : fired[l] # None => fired'[l] = fired[l]
  BY OutsideChanges DEF PollBegin, Fire, leafVars, pollVars, EnvTypeOK
<1>3. ASSUME NEW l \in Leaf, NEW i \in Handed(l) PROVE fired'[l] = fired[l]
  <2>1. delivered[i] \in Items
    BY DEF Handed
  <2> QED
    BY <1>2, <2>1, BranchesAssumption DEF DeliveredOnce, Items
<1>4. DeliveredOnce' /\ LiveInv'
  BY <1>2, <1>3 DEF DeliveredOnce, is_terminated, LiveInv, Handed, fuseVars
<1> QED BY <1>1, <1>2, <1>4 DEF fuseVars

-----------------------------------------------------------------------------
(* The invariant holds in every reachable state.                           *)
THEOREM Invariance == Spec => []IInv
<1>1. Init => IInv
  <2> SUFFICES ASSUME Init PROVE IInv
    OBVIOUS
  <2>1. EnvTypeOK /\ WakeInv /\ PollInv
    BY EnvStarts DEF Init
  <2>2. DeliveredOnce
    BY DEF Init, EnvInitWith, DeliveredOnce, Handed, is_terminated
  <2> QED
    BY <2>1, <2>2 DEF Init, EnvInitWith, IInv, TypeOK, LiveInv
<1>2. ASSUME IInv, [Next]_vars PROVE IInv'
  <2>1. CASE UNCHANGED vars
    <3>1. TypeOK'
      BY <1>2, <2>1
         DEF vars, envVars, leafVars, taskVars, pollVars, fuseVars, IInv, TypeOK, EnvTypeOK
    <3>2. WakeInv' /\ PollInv'
      BY <1>2, <2>1
         DEF vars, envVars, leafVars, taskVars, pollVars, IInv, WakeInv, PollInv, Asked, Watched,
             Parked, CanPoll
    <3>3. LiveInv' /\ DeliveredOnce'
      BY <1>2, <2>1
         DEF vars, envVars, leafVars, fuseVars, IInv, LiveInv, DeliveredOnce, Handed, is_terminated
    <3> QED
      BY <3>1, <3>2, <3>3 DEF IInv
  <2> QED
    BY <1>2, <2>1, FuseReadyKeeps, FusePendingKeeps, LoopKeeps, OutsideKeeps DEF Next, PollStep
<1> QED BY <1>1, <1>2, PTL DEF Spec

(* Types; the result is what was delivered.                                *)
THEOREM TypeCorrect == Spec => []TypeOK
BY Invariance, PTL DEF IInv

(* While the loop waits, a branch that is not terminated can wake it: the  *)
(* silence of a finished Fuse is never all there is to wait for.           *)
THEOREM NeverLosesAWakeup == Spec => []NoLostWakeup
<1>1. IInv => NoLostWakeup
  BY NoWakeIsLost DEF IInv
<1> QED BY <1>1, Invariance, PTL

(* Each output reaches the loop exactly once, and its leaf is left alone.  *)
THEOREM DeliversOnce == Spec => []DeliveredOnce
BY Invariance, PTL DEF IInv
=============================================================================
