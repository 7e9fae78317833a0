----------------------------- MODULE MCGrpcCall -----------------------------
(* Instances of GrpcCall for TLC.                                           *)
EXTENDS GrpcCall
=============================================================================
