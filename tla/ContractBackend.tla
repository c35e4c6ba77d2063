-------------------------- MODULE ContractBackend --------------------------
(***************************************************************************)
(* ContractBackend (package client) with its TxSender: goroutines that     *)
(* share one signer submit transactions through Open, Fund and             *)
(* InvokeSignedTx.  cbMutex serialises them from the websocket connection  *)
(* to the confirmation; the blockhash is fetched before the mutex is taken.*)
(*                                                                         *)
(* A goroutine makes one call.  Time is counted in blocks.  An RPC round   *)
(* trip takes less than a block; what takes time is waiting for the mutex  *)
(* and waiting for a confirmation.  External: the network, and solana-go's *)
(* SendAndConfirmTransaction, which sends a transaction and waits for its  *)
(* finalization, an error of its context, or its timeout.                  *)
(***************************************************************************)
EXTENDS Naturals, FiniteSets

CONSTANTS
    Callers,         \* the calls
    Unconfirmed,     \* those made through InvokeSignedTx
    NoCaller,        \* nobody holds the mutex
    Networks,        \* the clusters an RPC client may point at
    Local,           \* LocalNet
    Unset,           \* a TxSender without an RPC client
    Validity,        \* for how many blocks a blockhash can be used
    ConfirmTimeout,  \* for how many blocks a confirmation is waited for
    Faults           \* the faults that happen: a subset of {"rpc", "cancel"}

ASSUME BackendAssumption ==
    /\ Unconfirmed \subseteq Callers /\ NoCaller \notin Callers
    /\ Local \in Networks /\ Unset \notin Networks
    /\ Validity \in Nat /\ ConfirmTimeout \in Nat

VARIABLES
    pc,         \* where each call is
    ctxDone,    \* has its context ended?
    result,     \* what it returned: "none", "ok", "err", "stale" or "panic"
    mutex,      \* the call that holds cbMutex
    rpcClient,  \* TxSender.rpcClient: the network it points at
    hashFrom,   \* the network that gave each call its blockhash
    age,        \* how many blocks ago
    waited,     \* blocks since the wait for the confirmation began
    tx,         \* the transaction: "unsent", "inflight", "executed", "rejected", "expired"
    sentTo      \* the network it was sent to

vars == <<pc, ctxDone, result, mutex, rpcClient, hashFrom, age, waited, tx, sentTo>>

\* "lock": at cbMutex.Lock(); "connect", "send", "confirm": inside the mutex.
Holding == {"connect", "send", "confirm"}
PCs     == {"idle", "blockhash", "lock", "done"} \cup Holding

TypeOK ==
    /\ pc \in [Callers -> PCs]
    /\ ctxDone \in [Callers -> BOOLEAN]
    /\ result \in [Callers -> {"none", "ok", "err", "stale", "panic"}]
    /\ mutex \in Callers \cup {NoCaller}
    /\ rpcClient \in Networks \cup {Unset}
    /\ hashFrom \in [Callers -> Networks]
    /\ age \in [Callers -> Nat]
    /\ waited \in [Callers -> 0..ConfirmTimeout]
    /\ tx \in [Callers -> {"unsent", "inflight", "executed", "rejected", "expired"}]
    /\ sentTo \in [Callers -> Networks \cup {Unset}]

Init ==
    /\ pc = [c \in Callers |-> "idle"]
    /\ ctxDone = [c \in Callers |-> FALSE]
    /\ result = [c \in Callers |-> "none"]
    /\ mutex = NoCaller
    /\ rpcClient \in Networks \cup {Unset}
    /\ hashFrom = [c \in Callers |-> Local]
    /\ age = [c \in Callers |-> 0]
    /\ waited = [c \in Callers |-> 0]
    /\ tx = [c \in Callers |-> "unsent"]
    /\ sentTo = [c \in Callers |-> Unset]

-----------------------------------------------------------------------------
\* The TxSender

GetRPCClient_Forgets ==  \* mutant: the default client is returned, not kept
    UNCHANGED rpcClient

\* GetRPCClient: without a client it makes one, for the local network.
GetRPCClient == rpcClient' = IF rpcClient = Unset THEN Local ELSE rpcClient

\* SetRPCClient may be called at any time; it does not accept nil.
SetRPCClient ==
    /\ rpcClient' \in Networks
    /\ UNCHANGED <<pc, ctxDone, result, mutex, hashFrom, age, waited, tx, sentTo>>

-----------------------------------------------------------------------------
\* Steps of control

Goto(c, label) == pc' = [pc EXCEPT ![c] = label] /\ UNCHANGED <<result, mutex>>

\* Every return inside the mutex runs the deferred Unlock.
End(c, r) ==
    /\ pc' = [pc EXCEPT ![c] = "done"]
    /\ result' = [result EXCEPT ![c] = r]
    /\ mutex' = IF mutex = c THEN NoCaller ELSE mutex

-----------------------------------------------------------------------------
\* Open and Fund, up to the mutex

\* Open or Fund is called and gets the RPC client.
Begin(c) ==
    /\ pc[c] = "idle" /\ c \notin Unconfirmed
    /\ Goto(c, "blockhash")
    /\ GetRPCClient
    /\ hashFrom' = [hashFrom EXCEPT ![c] = rpcClient']
    /\ UNCHANGED <<ctxDone, age, waited, tx, sentTo>>

\* GetLatestBlockhash answers, and the instruction and the transaction are made.
Prepared(c) ==
    /\ pc[c] = "blockhash" /\ ~ctxDone[c]
    /\ Goto(c, "lock")
    /\ UNCHANGED <<ctxDone, rpcClient, hashFrom, age, waited, tx, sentTo>>

\* GetLatestBlockhash fails, or the instruction cannot be made.
PrepareFails(c) ==
    /\ pc[c] = "blockhash"
    /\ End(c, "err")
    /\ UNCHANGED <<ctxDone, rpcClient, hashFrom, age, waited, tx, sentTo>>

\* InvokeSignedTx is called with a transaction somebody else has made.
Invoke(c) ==
    /\ pc[c] = "idle" /\ c \in Unconfirmed
    /\ Goto(c, "lock")
    /\ \E n \in Networks : hashFrom' = [hashFrom EXCEPT ![c] = n]
    /\ UNCHANGED <<ctxDone, rpcClient, age, waited, tx, sentTo>>

-----------------------------------------------------------------------------
\* InvokeSignedTx and InvokeAndConfirmSignedTx, inside the mutex

Lock_Confirming(c) ==  \* mutant: only InvokeSignedTx takes the mutex
    /\ pc[c] = "lock" /\ (c \in Unconfirmed => mutex = NoCaller)
    /\ pc' = [pc EXCEPT ![c] = IF c \in Unconfirmed THEN "send" ELSE "connect"]
    /\ mutex' = IF c \in Unconfirmed THEN c ELSE mutex
    /\ UNCHANGED <<ctxDone, result, rpcClient, hashFrom, age, waited, tx, sentTo>>

\* cbMutex.Lock() returns.  It does not look at the context.
Lock(c) ==
    /\ pc[c] = "lock" /\ mutex = NoCaller
    /\ pc' = [pc EXCEPT ![c] = IF c \in Unconfirmed THEN "send" ELSE "connect"]
    /\ mutex' = c
    /\ UNCHANGED <<ctxDone, result, rpcClient, hashFrom, age, waited, tx, sentTo>>

\* ws.Connect; then the transaction is signed.
Connected(c) ==
    /\ pc[c] = "connect" /\ ~ctxDone[c]
    /\ Goto(c, "send")
    /\ UNCHANGED <<ctxDone, rpcClient, hashFrom, age, waited, tx, sentTo>>

ConnectFails(c) ==
    /\ pc[c] = "connect" /\ (ctxDone[c] \/ "rpc" \in Faults)
    /\ End(c, "err")
    /\ UNCHANGED <<ctxDone, rpcClient, hashFrom, age, waited, tx, sentTo>>

\* Does the node know the blockhash of the transaction?
Fresh(c) == hashFrom[c] = rpcClient /\ age[c] <= Validity

\* The transaction is sent, through the client of this moment.
Sent(c) ==
    /\ pc[c] = "send" /\ ~ctxDone[c] /\ rpcClient # Unset /\ Fresh(c)
    /\ IF c \in Unconfirmed THEN End(c, "ok") ELSE Goto(c, "confirm")
    /\ tx' = [tx EXCEPT ![c] = "inflight"]
    /\ sentTo' = [sentTo EXCEPT ![c] = rpcClient]
    /\ UNCHANGED <<ctxDone, rpcClient, hashFrom, age, waited>>

\* The node has it, but its answer is lost.
SentUnanswered(c) ==
    /\ pc[c] = "send" /\ ~ctxDone[c] /\ rpcClient # Unset /\ Fresh(c) /\ "rpc" \in Faults
    /\ End(c, "err")
    /\ tx' = [tx EXCEPT ![c] = "inflight"]
    /\ sentTo' = [sentTo EXCEPT ![c] = rpcClient]
    /\ UNCHANGED <<ctxDone, rpcClient, hashFrom, age, waited>>

\* The node cannot be reached, or its preflight check finds that the program
\* rejects the transaction, or that it does not know the blockhash; a TxSender
\* without a client dereferences nil.
NotSent(c) ==
    /\ pc[c] = "send"
    /\ \/ rpcClient # Unset /\ (Fresh(c) \/ ctxDone[c]) /\ End(c, "err")
       \/ rpcClient # Unset /\ ~Fresh(c) /\ ~ctxDone[c] /\ End(c, "stale")
       \/ rpcClient = Unset /\ End(c, "panic")
    /\ UNCHANGED <<ctxDone, rpcClient, hashFrom, age, waited, tx, sentTo>>

-----------------------------------------------------------------------------
\* The wait for the confirmation, on a websocket of the local network

Notified(c) ==
    /\ pc[c] = "confirm" /\ sentTo[c] = Local
    /\ \/ tx[c] = "executed" /\ End(c, "ok")
       \/ tx[c] = "rejected" /\ End(c, "err")
    /\ UNCHANGED <<ctxDone, rpcClient, hashFrom, age, waited, tx, sentTo>>

TimedOut_AsDone(c) ==  \* mutant: a timeout is taken for a confirmation
    /\ pc[c] = "confirm" /\ (ctxDone[c] \/ waited[c] = ConfirmTimeout)
    /\ End(c, IF waited[c] = ConfirmTimeout THEN "ok" ELSE "err")
    /\ UNCHANGED <<ctxDone, rpcClient, hashFrom, age, waited, tx, sentTo>>

TimedOut_WaitsAgain(c) ==  \* mutant: after its timeout the wait starts anew
    /\ pc[c] = "confirm" /\ (ctxDone[c] \/ waited[c] = ConfirmTimeout)
    /\ IF ctxDone[c] THEN End(c, "err") /\ UNCHANGED waited
                     ELSE waited' = [waited EXCEPT ![c] = 0] /\ UNCHANGED <<pc, result, mutex>>
    /\ UNCHANGED <<ctxDone, rpcClient, hashFrom, age, tx, sentTo>>

TimedOut_OnlyContext(c) ==  \* mutant: the wait has no timeout of its own
    /\ pc[c] = "confirm" /\ ctxDone[c]
    /\ End(c, "err")
    /\ UNCHANGED <<ctxDone, rpcClient, hashFrom, age, waited, tx, sentTo>>

\* The context ends, or the timeout of the wait.
TimedOut(c) ==
    /\ pc[c] = "confirm" /\ (ctxDone[c] \/ waited[c] = ConfirmTimeout)
    /\ End(c, "err")
    /\ UNCHANGED <<ctxDone, rpcClient, hashFrom, age, waited, tx, sentTo>>

\* The websocket breaks.
WatchFails(c) ==
    /\ pc[c] = "confirm" /\ "rpc" \in Faults
    /\ End(c, "err")
    /\ UNCHANGED <<ctxDone, rpcClient, hashFrom, age, waited, tx, sentTo>>

-----------------------------------------------------------------------------
\* The environment: contexts, the network, and time

Cancel(c) ==
    /\ "cancel" \in Faults /\ pc[c] \notin {"idle", "done"} /\ ~ctxDone[c]
    /\ ctxDone' = [ctxDone EXCEPT ![c] = TRUE]
    /\ UNCHANGED <<pc, result, mutex, rpcClient, hashFrom, age, waited, tx, sentTo>>

\* A transaction is executed while its blockhash is valid, or expires with it.
Finalize(c) ==
    /\ tx[c] = "inflight"
    /\ \E fate \in IF age[c] <= Validity THEN {"executed", "rejected"} ELSE {"expired"} :
            tx' = [tx EXCEPT ![c] = fate]
    /\ UNCHANGED <<pc, ctxDone, result, mutex, rpcClient, hashFrom, age, waited, sentTo>>

\* A block passes, once all that takes no time has been done.
Waiting(c) ==
    \/ pc[c] \in {"idle", "done"}
    \/ pc[c] = "lock" /\ mutex # NoCaller
    \/ pc[c] = "confirm" /\ waited[c] < ConfirmTimeout /\ ~ctxDone[c]

Tick ==
    /\ \A c \in Callers : Waiting(c) /\ (tx[c] = "inflight" => age[c] <= Validity)
    /\ age' = [c \in Callers |->
                  IF pc[c] \in {"lock", "confirm"} \/ tx[c] = "inflight" THEN age[c] + 1
                                                                         ELSE age[c]]
    /\ waited' = [c \in Callers |-> IF pc[c] = "confirm" THEN waited[c] + 1 ELSE waited[c]]
    /\ UNCHANGED <<pc, ctxDone, result, mutex, rpcClient, hashFrom, tx, sentTo>>

-----------------------------------------------------------------------------
Step(c) ==
    \/ Prepared(c) \/ PrepareFails(c) \/ Lock(c) \/ Connected(c) \/ ConnectFails(c)
    \/ Sent(c) \/ SentUnanswered(c) \/ NotSent(c) \/ Notified(c) \/ TimedOut(c)

Next ==
    \/ \E c \in Callers :
        Begin(c) \/ Invoke(c) \/ Step(c) \/ WatchFails(c) \/ Cancel(c) \/ Finalize(c)
    \/ SetRPCClient \/ Tick

Spec == Init /\ [][Next]_vars

\* Goroutines run, an RPC request is answered or fails, a transaction past its
\* blockhash is dropped, and time passes.  Nothing has to break the websocket: a
\* wait ends by an answer, its context, or its timeout.
FairSpec ==
    /\ Spec
    /\ \A c \in Callers : WF_vars(Step(c)) /\ WF_vars(Finalize(c))
    /\ WF_vars(Tick)

-----------------------------------------------------------------------------
\* Two calls are never between the connection and the confirmation at once: while
\* a transaction of the signer is waited for, no other one is sent.
OneAtATime ==
    \A c, d \in Callers : pc[c] \in Holding /\ pc[d] \in Holding => c = d

\* Open and Fund do not run into a TxSender without a client, which SendAndConfirmTx
\* would dereference; InvokeSignedTx may.
ClientAtHand == \A c \in Callers : result[c] = "panic" => c \in Unconfirmed

\* A call is done with its blockhash after one confirmation timeout per call, its
\* own and those it queues behind.
QueueIsBounded ==
    \A c \in Callers :
        pc[c] \in {"lock"} \cup Holding => age[c] <= Cardinality(Callers) * ConfirmTimeout

\* Nothing but the confirmations of other calls makes a blockhash grow old before it is
\* used: each of those that were waited for costs at most its timeout.
AgedBehindConfirmations ==
    \A c \in Callers :
        pc[c] \in {"connect", "send"} \/ result[c] = "stale" =>
            age[c] <= Cardinality({d \in Callers \ {c} : waited[d] > 0}) * ConfirmTimeout

\* client.go:37 and 70, Open and Fund send a transaction with the "latest blockhash":
\* they are not refused for one that has expired.
NeverStale == \A c \in Callers \ Unconfirmed : result[c] # "stale"

\* contractbackend.go:38, rpcURL is "the RPC URL to connect to the Solana network":
\* a confirmation is waited for on the network the transaction was sent to.
WatchesItsNetwork ==
    \A c \in Callers : pc[c] = "confirm" => sentTo[c] = Local

\* Every call returns, whatever becomes of its transaction and of its context.
CallsReturn == \A c \in Callers : pc[c] # "idle" ~> pc[c] = "done"

-----------------------------------------------------------------------------
Phase(c) == IF pc[c] = "idle" THEN "idle"
            ELSE IF pc[c] # "done" THEN "pending"
            ELSE IF result[c] = "ok" THEN "ok" ELSE "err"

Submission == INSTANCE TxSubmission WITH
    Call  <- Callers,
    phase <- [c \in Callers |-> Phase(c)],
    fate  <- [c \in Callers |-> IF tx[c] \in {"rejected", "expired"} THEN "void" ELSE tx[c]]

\* nil means executed (for InvokeSignedTx: sent), nothing is sent after a call has
\* returned, and nothing is sent twice.
SubmissionSpec == Submission!Spec

=============================================================================
