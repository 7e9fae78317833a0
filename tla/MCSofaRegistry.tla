--------------------------- MODULE MCSofaRegistry ---------------------------
(* Instances of SofaRegistry for TLC.                                       *)
EXTENDS SofaRegistry

CONSTANTS f1, f2

MCWanted == [interface |-> "I", group |-> "SOFA", version |-> "1.0"]

\* A provider of this service that says little of itself, and one of another group.
MCInfo == [f \in {f1, f2} |->
              IF f = f1 THEN [interface |-> "", category |-> "", enabled |-> "", group |-> "", version |-> "1.0"]
              ELSE [interface |-> "I", category |-> "providers", enabled |-> "true", group |-> "OTHER", version |-> ""]]
=============================================================================
