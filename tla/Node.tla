-------------------------------- MODULE Node --------------------------------
(***************************************************************************)
(* One party's node: Fund of package funder on top of the ContractBackend  *)
(* of package client, which the node shares with other goroutines, and the *)
(* other party as Funder has it.                                           *)
(*                                                                         *)
(* Funder sees the backend as "an error with nothing sent, or a            *)
(* transaction in flight whose fate the caller learns, or fails to learn,  *)
(* later".  Here every such event is a step of ContractBackend: the call   *)
(* is prepared, queues for the mutex, connects, sends and waits; Fund goes *)
(* on when it has returned.  The context of the call is that of Fund.      *)
(***************************************************************************)
EXTENDS Funder, FiniteSets

CONSTANTS
    Me,              \* the party: 0 or 1
    Others,          \* calls of Open or Fund by other goroutines of the node
    Local, Unset, NoCaller, Validity, ConfirmTimeout  \* as in ContractBackend

ASSUME NodeAssumption == Me \in Parties /\ "rpc" \in Faults

VARIABLES  \* those of ContractBackend, but for ctxDone
    bpc, bresult, bmutex, brpc, bhash, bage, bwaited, btx, bsent

bvars == <<bpc, bresult, bmutex, brpc, bhash, bage, bwaited, btx, bsent>>
nvars == <<vars, bvars>>

\* The n-th call of Fund makes at most one call of Open and one of Fund.
Own     == {"open", "fund"} \X (1..MaxCalls)
Callers == Own \cup Others

ASSUME OthersAssumption == Own \cap Others = {}

B == INSTANCE ContractBackend WITH
    Unconfirmed <- {},
    Networks    <- {Local},
    pc      <- bpc,     result   <- bresult, mutex  <- bmutex,  rpcClient <- brpc,
    hashFrom <- bhash,  age      <- bage,    waited <- bwaited, tx        <- btx,
    sentTo  <- bsent,
    ctxDone <- [c \in Callers |-> c \in Own /\ c[2] = calls[Me] /\ cancelled[Me]]

ASSUME CallersAssumption == B!BackendAssumption

\* The call Fund is in, or about to make.
Mine == <<IF pc[Me] \in {"open", "openWait"} THEN "open" ELSE "fund", calls[Me]>>

NodeInit == Init /\ B!Init

-----------------------------------------------------------------------------
\* Fund calls the backend.  FundChannel looks at the allocation first, Open when it
\* has a blockhash.

BackendBegins ==
    /\ pc[Me] \in {"open", "fund"}
    /\ UNCHANGED vars
    /\ B!Begin(Mine)
    /\ pc[Me] = "fund" => Encodes(Me)

AssetsRefused ==
    /\ pc[Me] = "fund" /\ bpc[Mine] = "idle" /\ ~Encodes(Me)
    /\ SendFails(Me)
    /\ UNCHANGED bvars

BackendSends ==
    /\ pc[Me] \in {"open", "fund"} /\ bpc[Mine] = "send"
    /\ Send(Me)
    /\ B!Sent(Mine) \/ B!SentUnanswered(Mine)

\* What Fund does not see until the call returns.
BackendWorks ==
    /\ pc[Me] \in {"open", "fund", "openWait", "fundWait"}
    /\ UNCHANGED vars
    /\ \/ B!Prepared(Mine) /\ Encodes(Me)
       \/ B!PrepareFails(Mine) \/ B!Lock(Mine) \/ B!Connected(Mine) \/ B!ConnectFails(Mine)
       \/ B!NotSent(Mine) \/ B!Notified(Mine) \/ B!TimedOut(Mine)

WebsocketBreaks ==
    /\ pc[Me] \in {"openWait", "fundWait"}
    /\ UNCHANGED vars
    /\ B!WatchFails(Mine)

BackendReturns ==
    /\ pc[Me] \in {"open", "fund", "openWait", "fundWait"} /\ bpc[Mine] = "done"
    /\ IF bresult[Mine] = "ok" THEN OpenConfirmed(Me) \/ FundConfirmed(Me)
                               ELSE SendFails(Me) \/ ConfirmFails(Me)
    /\ UNCHANGED bvars

\* A poll uses the client of the TxSender, too.
Poll ==
    /\ \/ PollOpenMisses(Me) \/ PollOpenFinds(Me) \/ FundLoopMisses(Me) \/ FundLoopFinds(Me)
       \/ BalanceRead(Me)
    /\ B!GetRPCClient
    /\ UNCHANGED <<bpc, bresult, bmutex, bhash, bage, bwaited, btx, bsent>>

LoopEnds ==
    /\ \/ PollOpenCancelled(Me) \/ PollOpenEnds(Me)
       \/ FundLoopCancelled(Me) \/ FundLoopEnds(Me)
    /\ UNCHANGED bvars

FundCalled    == Call(Me) /\ UNCHANGED bvars
FundCancelled == Cancel(Me) /\ UNCHANGED bvars

-----------------------------------------------------------------------------
\* The network finalizes a transaction of Fund, or drops it with its blockhash: what
\* the program makes of it is what the backend, if it waits, is notified of.
AwaitedFinalized ==
    /\ pc[Me] \in {"openWait", "fundWait"} /\ tx[Me] = "inflight"
    /\ \/ FinalizeOpen(Me) \/ FinalizeFund(Me)
       \/ UNCHANGED vars
    /\ B!Finalize(Mine)
    /\ btx'[Mine] = IF tx' = tx THEN "expired" ELSE tx'[Me]

\* The same, when Fund waits for it no more.
LateFinalized ==
    \E c \in Own :
        /\ c # Mine \/ pc[Me] \notin {"openWait", "fundWait"}
        /\ IF c[1] = "open" THEN SettleLateOpen ELSE SettleLateFund(Me)
        /\ B!Finalize(c)
        /\ (btx'[c] = "executed") = (open' # open \/ deposits' # deposits)

-----------------------------------------------------------------------------
\* The rest of the system

\* The other party, which has a node of its own.  Its context does not end.
Peer ==
    /\ LET p == 1 - Me
       IN  \/ Call(p) \/ Step(p) \/ BalanceRead(p)
           \/ FinalizeOpen(p) \/ FinalizeFund(p) \/ SettleLateFund(p)
           \/ p = 0 /\ SettleLateOpen
    /\ UNCHANGED bvars

\* The other goroutines of this node; their transactions are about other channels.
OtherCall(o) ==
    /\ UNCHANGED vars
    /\ B!Begin(o) \/ B!Step(o) \/ B!WatchFails(o)
OtherFinalized(o) == UNCHANGED vars /\ B!Finalize(o)

Finalized == AwaitedFinalized \/ LateFinalized \/ \E o \in Others : OtherFinalized(o)

Time == UNCHANGED vars /\ B!Tick

\* Every step of the node that Fund takes or waits for.
Works ==
    \/ BackendBegins \/ AssetsRefused \/ BackendSends \/ BackendWorks \/ BackendReturns
    \/ LoopEnds \/ (Poll /\ pc[Me] # "balance")

NodeNext ==
    \/ Works \/ Poll \/ WebsocketBreaks \/ FundCalled \/ FundCancelled
    \/ Finalized \/ Peer \/ Time
    \/ \E o \in Others : OtherCall(o)

NodeSpec == NodeInit /\ [][NodeNext]_nvars

\* As in ContractBackend: goroutines run, a transaction past its blockhash is dropped,
\* and time passes.  No more is said of Fund.
NodeFairSpec ==
    /\ NodeSpec
    /\ WF_nvars(Works) /\ WF_nvars(Finalized) /\ WF_nvars(Time)
    /\ WF_nvars(UNCHANGED bvars /\ Step(1 - Me))
    /\ \A o \in Others : WF_nvars(UNCHANGED vars /\ B!Step(o))

-----------------------------------------------------------------------------
\* Fund on the real backend is the Fund of Funder, whose fairness takes for granted
\* that a call of the backend comes back: that follows from the backend's own timeout,
\* and from the mutex being released by those who are ahead in the queue.
FunderSpec == FairSpec

\* A Fund call on the real backend ends, or asks for the balance of party 0's asset
\* for ever.
ReturnsOrAwaitsBalance == Active(Me) ~> (~Active(Me) \/ pc[Me] = "balance")

\* Fund and the backend agree on the fate of a transaction: what a call says has been
\* executed is on chain, and the party's share has been taken as often as its Fund
\* transactions have been executed, those included that nobody waited for any more.
FatesAgree ==
    /\ \A c \in Own : bresult[c] = "ok" =>
        IF c[1] = "open" THEN open ELSE Me \in funded /\ deposits[Me] > 0
    /\ deposits[Me] = Cardinality({c \in Own : c[1] = "fund" /\ btx[c] = "executed"})

\* When Fund returns nil, the network has none of its transactions left to execute,
\* if Fund is not called again while one of them is in flight.
NothingLeftInFlight ==
    ~RetryInFlight /\ ret[Me] = "nil" => \A c \in Own : btx[c] # "inflight"

=============================================================================
