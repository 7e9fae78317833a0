--------------------------- MODULE MCAddressGroup ---------------------------
(* Instances of AddressGroup for TLC.                                       *)
EXTENDS AddressGroup, TLC
=============================================================================
