------------------------------- MODULE Funder -------------------------------
(***************************************************************************)
(* Funder.Fund (package funder) of the two parties of one channel, run     *)
(* concurrently against the same channel account.  Party 0 opens the       *)
(* channel; then each party polls for the account, deposits its share, and *)
(* polls until both have deposited.                                        *)
(*                                                                         *)
(* Fund is split where it waits: at every RPC call.  A transaction goes    *)
(* through ContractBackend (Open, Fund, InvokeAndConfirmSignedTx), seen    *)
(* here as: an error with nothing sent, or a transaction in flight whose   *)
(* fate the caller learns, or fails to learn, later.                       *)
(*                                                                         *)
(* The environment may cancel the context of a call, make RPC calls fail,  *)
(* crash the process (nothing is persisted), and call Fund again after an  *)
(* error or a crash.  The polling interval is not modelled: a poll may     *)
(* happen at any time, and MaxIters bounds their number as in the code.    *)
(***************************************************************************)
EXTENDS FundingChecks, PerunProgram

CONSTANTS
    Requests,       \* FundingReqs: records [params, state]; both parties get the same
    MaxIters,       \* Funder.maxIters
    MaxCalls,       \* bound: how often one party calls Fund
    RetryInFlight,  \* may Fund be called again while an earlier transaction is in flight?
    Faults,         \* the faults that happen: a subset of FaultKinds
    RandomKey       \* a key made by randomAddress

FaultKinds == {"rpc", "cancel", "crash"}

ASSUME FunderAssumption ==
    /\ MaxIters \in Nat
    /\ MaxCalls \in Nat
    /\ RetryInFlight \in BOOLEAN
    /\ Faults \subseteq FaultKinds
    /\ RandomKey \notin AssetAddrs

VARIABLES
    req,        \* the request
    pc,         \* where each party's Fund is
    iter,       \* i, the counter of the loop the party is in
    cancelled,  \* has ctx been cancelled (or timed out)?
    ret,        \* the error Fund returned; "none": it has not returned
    calls,      \* how often the party has called Fund
    tx,         \* the transaction the party waits for
    lateOpen,   \* Open transactions in flight that nobody waits for any more
    lateFund    \* likewise the Fund transactions, per party

vars == <<req, pc, iter, cancelled, ret, calls, tx, lateOpen, lateFund,
          open, funded, deposits>>

alloc == req.state.alloc

\* "open", "fund": about to send the transaction; "openWait", "fundWait":
\* waiting for its confirmation; "pollOpen": the loop of Fund; "fundLoop": the
\* loop of fundParty; "balance": party 0's wait for a balance after its deposit.
Running == {"open", "openWait", "pollOpen", "fundLoop", "fund", "fundWait", "balance"}
PCs     == Running \cup {"idle", "returned", "panicked", "crashed"}
Errors  == {"openErr", "fundErr", "timeout", "notOpened"}
Results == Errors \cup {"none", "nil"}
TxState == {"none", "inflight", "executed", "rejected"}

Active(p) == pc[p] \in Running

TypeOK ==
    /\ ChainTypeOK
    /\ req \in Requests
    /\ pc \in [Parties -> PCs]
    /\ iter \in [Parties -> 0..MaxIters]
    /\ cancelled \in [Parties -> BOOLEAN]
    /\ ret \in [Parties -> Results]
    /\ calls \in [Parties -> 0..MaxCalls]
    /\ tx \in [Parties -> TxState]
    /\ lateOpen \in Nat
    /\ lateFund \in [Parties -> Nat]

Init ==
    /\ ChainInit
    /\ req \in Requests
    /\ pc = [p \in Parties |-> "idle"]
    /\ iter = [p \in Parties |-> 0]
    /\ cancelled = [p \in Parties |-> FALSE]
    /\ ret = [p \in Parties |-> "none"]
    /\ calls = [p \in Parties |-> 0]
    /\ tx = [p \in Parties |-> "none"]
    /\ lateOpen = 0
    /\ lateFund = [p \in Parties |-> 0]

-----------------------------------------------------------------------------
\* Steps of control

Goto(p, label) == pc' = [pc EXCEPT ![p] = label] /\ UNCHANGED ret
Return(p, err) == pc' = [pc EXCEPT ![p] = "returned"] /\ ret' = [ret EXCEPT ![p] = err]

NextIteration_Forgotten(p) == UNCHANGED iter  \* mutant: for { ... } instead of a bounded loop
NextIteration(p) == iter' = [iter EXCEPT ![p] = @ + 1]

\* GetChannelInfo returns the account, or an error: there is no account, the
\* context has ended, or the RPC call fails.
ChannelFound(p)    == open /\ ~cancelled[p]
ChannelNotFound(p) == ~open \/ cancelled[p] \/ "rpc" \in Faults

\* The test of both loops on the account they found.
BothFunded_Either == funded # {}  \* mutant: FundedA || FundedB
BothFunded == funded = Parties

\* AbortChannel: ContractBackend.Abort does nothing and returns nil.
AbortChannel == "nil"

\* Fund is called.  An application calls it again only after an error, a panic
\* or a crash, and with RetryInFlight = FALSE only once its own transactions
\* are settled.
Call(p) ==
    /\ \/ pc[p] \in {"idle", "panicked", "crashed"}
       \/ pc[p] = "returned" /\ ret[p] # "nil"
    /\ calls[p] < MaxCalls
    /\ RetryInFlight \/ (lateFund[p] = 0 /\ (p = 0 => lateOpen = 0))
    /\ pc' = [pc EXCEPT ![p] = IF p = 0 THEN "open" ELSE "pollOpen"]
    /\ iter' = [iter EXCEPT ![p] = 0]
    /\ ret' = [ret EXCEPT ![p] = "none"]
    /\ tx' = [tx EXCEPT ![p] = "none"]
    /\ cancelled' = [cancelled EXCEPT ![p] = FALSE]
    /\ calls' = [calls EXCEPT ![p] = @ + 1]
    /\ UNCHANGED <<req, lateOpen, lateFund, open, funded, deposits>>

-----------------------------------------------------------------------------
\* Transactions, as the funder sees them

fresh(r) == [i \in DOMAIN r.state.alloc.assets |-> RandomKey]

\* Whether a request gets through Open and FundChannel; it is all that matters.
OpenPasses == [r \in Requests |-> MakeOpenInstruction(r.params, r.state, fresh(r)).ok]
FundPasses == [r \in Requests |-> FundChannelPasses(r.state.alloc, fresh(r))]

Encodes(p) == IF pc[p] = "open" THEN OpenPasses[req] ELSE FundPasses[req]

\* openChannel, FundChannel: the transaction is sent.
Send(p) ==
    /\ pc[p] \in {"open", "fund"}
    /\ ~cancelled[p] /\ Encodes(p)
    /\ Goto(p, IF pc[p] = "open" THEN "openWait" ELSE "fundWait")
    /\ tx' = [tx EXCEPT ![p] = "inflight"]
    /\ UNCHANGED <<req, iter, cancelled, calls, lateOpen, lateFund, open, funded, deposits>>

\* The instruction cannot be made, the asset check fails, or an RPC call before
\* the submission does.
SendFails(p) ==
    /\ pc[p] \in {"open", "fund"}
    /\ cancelled[p] \/ ~Encodes(p) \/ "rpc" \in Faults
    /\ Return(p, IF pc[p] = "open" THEN "openErr" ELSE "fundErr")
    /\ UNCHANGED <<req, iter, cancelled, calls, tx, lateOpen, lateFund, open, funded, deposits>>

\* openChannel returns nil: Fund enters its loop.
OpenConfirmed(p) ==
    /\ pc[p] = "openWait" /\ tx[p] = "executed"
    /\ Goto(p, "pollOpen")
    /\ UNCHANGED <<req, iter, cancelled, calls, tx, lateOpen, lateFund, open, funded, deposits>>

AfterDeposit_Assets2(p) ==  \* mutant: Assets[2] for Assets[1]
    IF Len(alloc.assets) < 3 THEN Goto(p, "panicked") /\ UNCHANGED iter
                             ELSE Goto(p, "fundLoop") /\ NextIteration(p)

\* The end of an iteration in which the party deposited.  The code indexes
\* Assets[1], which panics in a channel of one asset.
AfterDeposit(p) ==
    IF Len(alloc.assets) < 2 THEN Goto(p, "panicked") /\ UNCHANGED iter
                             ELSE Goto(p, "fundLoop") /\ NextIteration(p)

\* FundChannel returns nil.  Party 0 then asks for the balance of the first
\* asset, if that lives on Solana, until it gets an answer.
FundConfirmed(p) ==
    /\ pc[p] = "fundWait" /\ tx[p] = "executed"
    /\ IF p = 0 /\ IsSolana(alloc.assets[1]) THEN Goto(p, "balance") /\ UNCHANGED iter
                                             ELSE AfterDeposit(p)
    /\ UNCHANGED <<req, cancelled, calls, tx, lateOpen, lateFund, open, funded, deposits>>

\* GetBalance answers.  (An error changes nothing: the code sleeps and asks
\* again, for as long as it takes, whatever becomes of ctx.)
BalanceRead(p) ==
    /\ pc[p] = "balance"
    /\ AfterDeposit(p)
    /\ UNCHANGED <<req, cancelled, calls, tx, lateOpen, lateFund, open, funded, deposits>>

\* The transaction the party waited for, if it is still in flight, stays so.
AbandonTx(p) ==
    /\ lateOpen' = IF pc[p] = "openWait" /\ tx[p] = "inflight" THEN lateOpen + 1 ELSE lateOpen
    /\ lateFund' = IF pc[p] = "fundWait" /\ tx[p] = "inflight"
                   THEN [lateFund EXCEPT ![p] = @ + 1] ELSE lateFund

ConfirmFails_Retries(p) ==  \* mutant: fundParty continues after an error of FundChannel
    /\ pc[p] \in {"openWait", "fundWait"}
    /\ tx[p] = "rejected" \/ cancelled[p] \/ "rpc" \in Faults
    /\ IF pc[p] = "openWait" THEN Return(p, "openErr") /\ UNCHANGED iter
                             ELSE Goto(p, "fundLoop") /\ NextIteration(p)
    /\ AbandonTx(p)
    /\ UNCHANGED <<req, cancelled, calls, tx, open, funded, deposits>>

\* The transaction was executed with an error, or the wait for it ended: ctx,
\* the confirmation timeout, the websocket, or the answer to its submission.
ConfirmFails(p) ==
    /\ pc[p] \in {"openWait", "fundWait"}
    /\ tx[p] = "rejected" \/ cancelled[p] \/ "rpc" \in Faults
    /\ Return(p, IF pc[p] = "openWait" THEN "openErr" ELSE "fundErr")
    /\ AbandonTx(p)
    /\ UNCHANGED <<req, iter, cancelled, calls, tx, open, funded, deposits>>

-----------------------------------------------------------------------------
\* The loop of Fund

PollOpenCancelled(p) ==
    /\ pc[p] = "pollOpen" /\ iter[p] < MaxIters /\ cancelled[p]
    /\ Return(p, "timeout")
    /\ UNCHANGED <<req, iter, cancelled, calls, tx, lateOpen, lateFund, open, funded, deposits>>

PollOpenMisses_GoesOn(p) ==  \* mutant: an error of GetChannelInfo is only logged
    /\ pc[p] = "pollOpen" /\ iter[p] < MaxIters
    /\ ChannelNotFound(p)
    /\ Goto(p, "fund")
    /\ UNCHANGED <<req, iter, cancelled, calls, tx, lateOpen, lateFund, open, funded, deposits>>

PollOpenMisses(p) ==
    /\ pc[p] = "pollOpen" /\ iter[p] < MaxIters
    /\ ChannelNotFound(p)
    /\ NextIteration(p)
    /\ UNCHANGED <<req, pc, ret, cancelled, calls, tx, lateOpen, lateFund, open, funded, deposits>>

PollOpenFinds(p) ==
    /\ pc[p] = "pollOpen" /\ iter[p] < MaxIters /\ ChannelFound(p)
    /\ \/ BothFunded /\ Return(p, "nil") /\ UNCHANGED iter
       \/ ~BothFunded /\ Goto(p, "fundLoop") /\ iter' = [iter EXCEPT ![p] = 0]
    /\ UNCHANGED <<req, cancelled, calls, tx, lateOpen, lateFund, open, funded, deposits>>

PollOpenEnds(p) ==
    /\ pc[p] = "pollOpen" /\ iter[p] >= MaxIters
    /\ Return(p, "notOpened")
    /\ UNCHANGED <<req, iter, cancelled, calls, tx, lateOpen, lateFund, open, funded, deposits>>

-----------------------------------------------------------------------------
\* The loop of fundParty

FundLoopCancelled(p) ==
    /\ pc[p] = "fundLoop" /\ iter[p] < MaxIters /\ cancelled[p]
    /\ Return(p, IF AbortChannel # "nil" THEN AbortChannel ELSE "timeout")
    /\ UNCHANGED <<req, iter, cancelled, calls, tx, lateOpen, lateFund, open, funded, deposits>>

FundLoopMisses_CountsOn(p) ==  \* mutant: i <= maxIters
    /\ pc[p] = "fundLoop" /\ iter[p] <= MaxIters
    /\ ChannelNotFound(p)
    /\ NextIteration(p)
    /\ UNCHANGED <<req, pc, ret, cancelled, calls, tx, lateOpen, lateFund, open, funded, deposits>>

FundLoopMisses(p) ==
    /\ pc[p] = "fundLoop" /\ iter[p] < MaxIters
    /\ ChannelNotFound(p)
    /\ NextIteration(p)
    /\ UNCHANGED <<req, pc, ret, cancelled, calls, tx, lateOpen, lateFund, open, funded, deposits>>

\* The account is found: return if both have deposited; deposit if the party
\* has not (unless needFunding says there is nothing to deposit); else go on
\* waiting for the other party.
FundLoopFinds(p) ==
    /\ pc[p] = "fundLoop" /\ iter[p] < MaxIters /\ ChannelFound(p)
    /\ \/ BothFunded /\ Return(p, "nil") /\ UNCHANGED iter
       \/ ~BothFunded /\ p \notin funded /\ UNCHANGED iter
          /\ \/ shouldFund(p, alloc) = "yes"   /\ Goto(p, "fund")
             \/ shouldFund(p, alloc) = "no"    /\ Return(p, "nil")
             \/ shouldFund(p, alloc) = "panic" /\ Goto(p, "panicked")
       \/ ~BothFunded /\ p \in funded /\ NextIteration(p) /\ UNCHANGED <<pc, ret>>
    /\ UNCHANGED <<req, cancelled, calls, tx, lateOpen, lateFund, open, funded, deposits>>

FundLoopEnds(p) ==
    /\ pc[p] = "fundLoop" /\ iter[p] >= MaxIters
    /\ Return(p, AbortChannel)
    /\ UNCHANGED <<req, iter, cancelled, calls, tx, lateOpen, lateFund, open, funded, deposits>>

-----------------------------------------------------------------------------
\* The environment: contexts, processes, and the network

Cancel(p) ==
    /\ "cancel" \in Faults /\ Active(p) /\ ~cancelled[p]
    /\ cancelled' = [cancelled EXCEPT ![p] = TRUE]
    /\ UNCHANGED <<req, pc, iter, ret, calls, tx, lateOpen, lateFund, open, funded, deposits>>

Crash(p) ==
    /\ "crash" \in Faults /\ Active(p)
    /\ Goto(p, "crashed")
    /\ AbandonTx(p)
    /\ UNCHANGED <<req, iter, cancelled, calls, tx, open, funded, deposits>>

\* The parties the program may mark as funded when it opens the channel.
Free == {p \in Parties : ~Owes(p, alloc)}

\* The transaction a party waits for is finalized.
FinalizeOpen(p) ==
    /\ pc[p] = "openWait" /\ tx[p] = "inflight"
    /\ IF OpenAccepted THEN ExecuteOpen(Free) ELSE UNCHANGED chainVars
    /\ tx' = [tx EXCEPT ![p] = IF OpenAccepted THEN "executed" ELSE "rejected"]
    /\ UNCHANGED <<req, pc, iter, cancelled, ret, calls, lateOpen, lateFund>>

FinalizeFund(p) ==
    /\ pc[p] = "fundWait" /\ tx[p] = "inflight"
    /\ IF FundAccepted(p) THEN ExecuteFund(p) ELSE UNCHANGED chainVars
    /\ tx' = [tx EXCEPT ![p] = IF FundAccepted(p) THEN "executed" ELSE "rejected"]
    /\ UNCHANGED <<req, pc, iter, cancelled, ret, calls, lateOpen, lateFund>>

\* A transaction nobody waits for is finalized, or expires with its blockhash.
SettleLateOpen ==
    /\ lateOpen > 0
    /\ lateOpen' = lateOpen - 1
    /\ \/ OpenAccepted /\ ExecuteOpen(Free)
       \/ UNCHANGED chainVars
    /\ UNCHANGED <<req, pc, iter, cancelled, ret, calls, tx, lateFund>>

SettleLateFund(p) ==
    /\ lateFund[p] > 0
    /\ lateFund' = [lateFund EXCEPT ![p] = @ - 1]
    /\ \/ FundAccepted(p) /\ ExecuteFund(p)
       \/ UNCHANGED chainVars
    /\ UNCHANGED <<req, pc, iter, cancelled, ret, calls, tx, lateOpen>>

-----------------------------------------------------------------------------
\* Every step of Fund except the answer to GetBalance.
Step(p) ==
    \/ Send(p) \/ SendFails(p)
    \/ OpenConfirmed(p) \/ FundConfirmed(p) \/ ConfirmFails(p)
    \/ PollOpenCancelled(p) \/ PollOpenMisses(p) \/ PollOpenFinds(p) \/ PollOpenEnds(p)
    \/ FundLoopCancelled(p) \/ FundLoopMisses(p) \/ FundLoopFinds(p) \/ FundLoopEnds(p)

Next ==
    \/ \E p \in Parties :
        \/ Call(p) \/ Step(p) \/ BalanceRead(p)
        \/ Cancel(p) \/ Crash(p)
        \/ FinalizeOpen(p) \/ FinalizeFund(p) \/ SettleLateFund(p)
    \/ SettleLateOpen

Spec == Init /\ [][Next]_vars

\* A goroutine that can run does run: select always finds its timer expired in
\* the end, and a confirmation ends by its own timeout at the latest.
FairSpec == Spec /\ \A p \in Parties : WF_vars(Step(p))

\* Moreover both parties call Fund, the network finalizes what is sent, and
\* GetBalance answers in the end.
LiveSpec ==
    /\ FairSpec
    /\ \A p \in Parties :
        /\ WF_vars(Call(p)) /\ WF_vars(BalanceRead(p))
        /\ WF_vars(FinalizeOpen(p)) /\ WF_vars(FinalizeFund(p))

-----------------------------------------------------------------------------
\* Safety

\* No party's share is taken twice.  A Fund call sends its second Fund
\* transaction only after it has read a finalized account without its deposit,
\* and gives up for good on any error: so this needs no help from the program,
\* as long as Fund is not called again while a transaction is in flight.
AtMostOneDeposit == \A p \in Parties : deposits[p] <= 1

\* A Fund that returned nil left none of the party's transactions in flight:
\* nothing more will be taken from it later.
NilLeavesNothingInFlight ==
    \A p \in Parties : ret[p] = "nil" => lateFund[p] = 0 /\ (p = 0 => lateOpen = 0)

\* A Fund transaction is sent, and stays in flight, only when the channel account
\* exists: no deposit is wasted on a channel that is not open.
FundTxNeedsOpenChannel ==
    \A p \in Parties :
        (pc[p] = "fundWait" /\ tx[p] = "inflight") \/ lateFund[p] > 0 => open

\* Fund returns nil for one of three reasons: both parties have deposited, this
\* party has nothing to deposit, or fundParty ran out of iterations.
NilReturnJustified ==
    \A p \in Parties : ret[p] = "nil" =>
        \/ funded = Parties
        \/ shouldFund(p, alloc) = "no"
        \/ iter[p] = MaxIters

\* Fund panics only in a channel of one asset, where it looks for a second.
PanicOnlyOneAsset ==
    (\E p \in Parties : pc[p] = "panicked") => Len(alloc.assets) < 2

\* funder.go:57, "Fund first calls open if the channel is not opened": it does
\* not call open on a channel that is.
OpensOnlyUnopened ==
    [][\A p \in Parties : pc[p] = "open" /\ pc'[p] = "openWait" => ~open]_vars

\* funder.go:57, "... and then funds the channel": a party that owes a share has
\* deposited it when its Fund returns nil.
NilMeansDeposited ==
    \A p \in Parties : ret[p] = "nil" /\ Owes(p, alloc) => p \in funded

-----------------------------------------------------------------------------
\* Liveness

\* A Fund call ends, whatever the other party does.
FundReturns == \A p \in Parties : Active(p) ~> ~Active(p)

\* If nothing fails, every share that is owed is deposited, but for party B's
\* when it stopped waiting for the channel before party A had opened it.
DepositedUnlessNotOpened ==
    <>(\A p \in Parties : Owes(p, alloc) =>
        deposits[p] = 1 \/ (p = 1 /\ ret[p] = "notOpened"))

=============================================================================
