------------------------- MODULE MCContractBackend -------------------------
(***************************************************************************)
(* Instances of ContractBackend for TLC: two calls on one signer.          *)
(***************************************************************************)
EXTENDS ContractBackend, TLC

CONSTANTS c1, c2, Other
=============================================================================
