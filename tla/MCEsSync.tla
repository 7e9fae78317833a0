------------------------------ MODULE MCEsSync ------------------------------
(* Instances of EsSync for TLC.                                             *)
EXTENDS EsSync, TLC

CONSTANTS c1, c2, p1, p2

OneProcess   == [c \in Caller |-> p1]
TwoProcesses == (c1 :> p1) @@ (c2 :> p2)

\* With one process the callers differ in nothing but their names.
Symmetry == Permutations(Caller)
=============================================================================
