--------------------------- MODULE PerunProgram ---------------------------
(***************************************************************************)
(* External: the Perun program on Solana and its channel account, as far   *)
(* as this backend uses them.  The account (encoding.Channel) exists once  *)
(* an Open instruction has been executed; of its Control the funder reads  *)
(* FundedA and FundedB, here the set of parties whose flag is up.          *)
(*                                                                         *)
(* Only finalized state is modelled: the backend reads accounts and waits  *)
(* for transactions at commitment "finalized" alone, so that what happens  *)
(* on forks that are abandoned cannot be observed.                         *)
(***************************************************************************)
EXTENDS Naturals

CONSTANT RejectsRefund  \* does the program refuse a party that is funded?

ASSUME RejectsRefundAssumption == RejectsRefund \in BOOLEAN

Parties == {0, 1}       \* A and B: the flag funderIdx of a Fund instruction

VARIABLES open,         \* does the channel account exist?
          funded,       \* the parties whose Funded flag is up
          deposits      \* history: how often the program took a party's share

chainVars == <<open, funded, deposits>>

ChainTypeOK ==
    /\ open \in BOOLEAN
    /\ funded \in SUBSET Parties
    /\ deposits \in [Parties -> Nat]

ChainInit ==
    /\ open = FALSE
    /\ funded = {}
    /\ deposits = [p \in Parties |-> 0]

\* Open creates the account, once.  Parties with nothing to deposit may be
\* marked as funded right away.
ExecuteOpen(free) ==
    /\ open' = TRUE
    /\ funded' \in IF open THEN {funded} ELSE SUBSET free
    /\ UNCHANGED deposits

OpenAccepted == ~open

FundAccepted(p) == open /\ (RejectsRefund => p \notin funded)

\* Fund takes the share of party p and raises its flag.
ExecuteFund(p) ==
    /\ funded' = funded \cup {p}
    /\ deposits' = [deposits EXCEPT ![p] = @ + 1]
    /\ UNCHANGED open

============================================================================
