------------------------------ MODULE MCCkSync ------------------------------
(* Instances of CkSync for TLC.                                             *)
EXTENDS CkSync, TLC

\* The callers differ in nothing but their names.
Symmetry == Permutations(Caller)
=============================================================================
