------------------------- MODULE MCCleanupRegistry -------------------------
(***************************************************************************)
(* State objects and agents are interchangeable; the resources differ in   *)
(* whether they hold a grant and in how they are constructed.              *)
(***************************************************************************)
EXTENDS CleanupRegistry, TLC

Symmetry == Permutations(Ids) \cup Permutations(Agents)
=============================================================================
