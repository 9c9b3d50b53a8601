------------------------------ MODULE MCRegions ------------------------------
(***************************************************************************)
(* Instances of Regions for TLC.                                           *)
(***************************************************************************)
EXTENDS Regions, TLC

\* The objects other than the global one are interchangeable.
Symmetry == Permutations(Obj \ {Global})
=============================================================================
