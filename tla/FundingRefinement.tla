------------------------- MODULE FundingRefinement -------------------------
(***************************************************************************)
(* Funder implements ChannelFunding, as long as Fund is not called again   *)
(* while a transaction of an earlier call is in flight.                    *)
(***************************************************************************)
EXTENDS Funder

\* A nil that was returned with the counter at its limit comes from the last
\* line of fundParty.
Outcome(p) ==
    IF pc[p] = "idle"           THEN "notCalled"
    ELSE IF pc[p] \in Running   THEN "working"
    ELSE IF ret[p] # "nil"      THEN "failed"
    ELSE IF iter[p] = MaxIters  THEN "gaveUp"
    ELSE "succeeded"

Funding == INSTANCE ChannelFunding WITH
    Party   <- Parties,
    terms   <- [asked |-> {p \in Parties : shouldFund(p, alloc) # "no"}, free |-> Free],
    opened  <- open,
    paid    <- funded,
    shares  <- deposits,
    outcome <- [p \in Parties |-> Outcome(p)]

\* Every behaviour of the two Fund calls is one of ChannelFunding: the channel
\* is opened once, a share is taken only from a party that has none in the
\* channel and whose Fund has not returned nil, and success is never reported
\* while a deposit that was asked for is missing.
FundingSpec == Funding!Spec

=============================================================================
