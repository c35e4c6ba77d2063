------------------------------- MODULE MCNode -------------------------------
(***************************************************************************)
(* An instance of Node for TLC: party A, and one other goroutine.          *)
(***************************************************************************)
EXTENDS Node, MCFunder

CONSTANTS o1

NodeRequests == {SolSwap, Refused, TooLarge}
=============================================================================
