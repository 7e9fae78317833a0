------------------------------ MODULE MCRpcCall -----------------------------
(* Instances of RpcCall for TLC.                                            *)
EXTENDS RpcCall
=============================================================================
