---------------------------- MODULE MCSharedState ----------------------------
(***************************************************************************)
(* The channel of SharedState checked by TLC.                              *)
(***************************************************************************)
EXTENDS SharedStateRefinement, TLC

\* Tasks and values are interchangeable while no task owns the Sender.
Symmetry == Permutations(Tasks) \cup Permutations(Values)
=============================================================================
