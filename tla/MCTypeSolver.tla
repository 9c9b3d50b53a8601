---------------------------- MODULE MCTypeSolver ----------------------------
(***************************************************************************)
(* Instances of TypeSolver for TLC.                                        *)
(***************************************************************************)
EXTENDS TypeSolver, TLC

\* Neither nodes nor types have an order.
Symmetry == Permutations(Node) \cup Permutations(Type)
=============================================================================
