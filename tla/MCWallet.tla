------------------------------ MODULE MCWallet ------------------------------
(***************************************************************************)
(* An instance of Wallet for TLC: three calls, two given accounts with one *)
(* Solana address, and a rng that repeats its keys.                        *)
(***************************************************************************)
EXTENDS Wallet, TLC

CONSTANTS c1, c2, c3, S, PubA, PubB

GivenDef == {[sol |-> S, pub |-> PubA, cc |-> NoCc], [sol |-> S, pub |-> PubB, cc |-> NoCc]}

=============================================================================
