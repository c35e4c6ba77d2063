--------------------------- MODULE ChannelFunding ---------------------------
(***************************************************************************)
(* What Funder.Fund promises for one channel, without transactions, polls  *)
(* or processes.  The channel is opened once; every party deposits at most *)
(* once, in an open channel, and never after its Fund has returned nil; a  *)
(* success means that both parties have deposited or that this one was     *)
(* asked for nothing.  A Fund that runs out of iterations gives up: it     *)
(* returns nil too (AbortChannel), and promises nothing.                   *)
(***************************************************************************)
EXTENDS Naturals

CONSTANT Party

VARIABLES
    terms,    \* what the allocation asks for: [asked, free], two sets of parties
    opened,   \* is the channel open?
    paid,     \* the parties that count as funded
    shares,   \* how often each party's share has been taken
    outcome   \* of each party's Fund

vars == <<terms, opened, paid, shares, outcome>>

Outcomes == {"notCalled", "working", "failed", "succeeded", "gaveUp"}

Init ==
    /\ terms \in [asked : SUBSET Party, free : SUBSET Party]
    /\ opened = FALSE
    /\ paid = {}
    /\ shares = [p \in Party |-> 0]
    /\ outcome = [p \in Party |-> "notCalled"]

\* The final outcomes: nothing is done for the party any more.
Settled(p) == outcome[p] \in {"succeeded", "gaveUp"}

\* A call, the first or after a failure.
Start(p) ==
    /\ outcome[p] \in {"notCalled", "failed"}
    /\ outcome' = [outcome EXCEPT ![p] = "working"]
    /\ UNCHANGED <<terms, opened, paid, shares>>

Open(opener) ==
    /\ ~opened /\ ~Settled(opener)
    /\ opened' = TRUE
    /\ paid' \in SUBSET terms.free
    /\ UNCHANGED <<terms, shares, outcome>>

Deposit(p) ==
    /\ opened /\ p \notin paid /\ ~Settled(p)
    /\ paid' = paid \cup {p}
    /\ shares' = [shares EXCEPT ![p] = @ + 1]
    /\ UNCHANGED <<terms, opened, outcome>>

End(p, result) ==
    /\ outcome[p] = "working"
    /\ result = "succeeded" => paid = Party \/ (opened /\ p \notin terms.asked)
    /\ result = "gaveUp" => opened
    /\ outcome' = [outcome EXCEPT ![p] = result]
    /\ UNCHANGED <<terms, opened, paid, shares>>

Next ==
    \E p \in Party :
        \/ Start(p) \/ Open(p) \/ Deposit(p)
        \/ \E result \in {"failed", "succeeded", "gaveUp"} : End(p, result)

Spec == Init /\ [][Next]_vars

=============================================================================
