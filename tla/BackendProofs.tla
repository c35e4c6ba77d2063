--------------------------- MODULE BackendProofs ---------------------------
(***************************************************************************)
(* Proofs about ContractBackend, for any set of calls and networks, any    *)
(* lifetime of a blockhash and any confirmation timeout.                   *)
(***************************************************************************)
EXTENDS ContractBackend, TLAPS

\* A call inside the mutex holds it.
MutexInv == \A c \in Callers : pc[c] \in Holding => mutex = c

\* Once Open or Fund has begun, the TxSender has a client.
ClientInv ==
    \A c \in Callers :
        /\ pc[c] # "idle" /\ c \notin Unconfirmed => rpcClient # Unset
        /\ result[c] = "panic" => c \in Unconfirmed

\* A transaction is sent on the way from "send" to the wait or to the end.
TxInv ==
    \A c \in Callers :
        /\ pc[c] \in {"idle", "blockhash", "lock", "connect", "send"} => tx[c] = "unsent"
        /\ pc[c] = "confirm" => tx[c] # "unsent"

IInv == TypeOK /\ MutexInv /\ ClientInv /\ TxInv

CallerStep(c) ==
    Begin(c) \/ Invoke(c) \/ Step(c) \/ WatchFails(c) \/ Cancel(c) \/ Finalize(c)

\* No call has begun: the inductive invariant holds initially.
LEMMA InitIInv == Init => IInv
BY BackendAssumption
   DEF Init, IInv, TypeOK, PCs, Holding, MutexInv, ClientInv, TxInv

\* No step of a call, or of the network for it, breaks the inductive invariant.
LEMMA StepKeepsIInv ==
    ASSUME IInv, NEW c \in Callers, CallerStep(c)
    PROVE  IInv'
<1> USE BackendAssumption DEF IInv, TypeOK, PCs, Holding, MutexInv, ClientInv, TxInv, Goto, End
<1>1. CASE Begin(c)
  BY <1>1 DEF Begin, GetRPCClient
<1>2. CASE Prepared(c)
  BY <1>2 DEF Prepared
<1>3. CASE PrepareFails(c)
  BY <1>3 DEF PrepareFails
<1>4. CASE Invoke(c)
  BY <1>4 DEF Invoke
<1>5. CASE Lock(c)
  BY <1>5 DEF Lock
<1>6. CASE Connected(c)
  BY <1>6 DEF Connected
<1>7. CASE ConnectFails(c)
  BY <1>7 DEF ConnectFails
<1>8. CASE Sent(c)
  BY <1>8 DEF Sent
<1>9. CASE SentUnanswered(c)
  BY <1>9 DEF SentUnanswered
<1>10. CASE NotSent(c)
  BY <1>10 DEF NotSent
<1>11. CASE Notified(c)
  BY <1>11 DEF Notified
<1>12. CASE TimedOut(c) \/ WatchFails(c)
  BY <1>12 DEF TimedOut, WatchFails
<1>13. CASE Cancel(c)
  BY <1>13 DEF Cancel
<1>14. CASE Finalize(c)
  BY <1>14 DEF Finalize
<1> QED
  BY <1>1, <1>2, <1>3, <1>4, <1>5, <1>6, <1>7, <1>8, <1>9, <1>10, <1>11, <1>12, <1>13, <1>14
     DEF CallerStep, Step

\* Neither do the contexts of the calls, whatever becomes of them, or a client that
\* points elsewhere.
LEMMA ContextKeepsIInv ==
    ASSUME IInv, UNCHANGED <<pc, result, mutex, hashFrom, age, waited, tx, sentTo>>,
           ctxDone' \in [Callers -> BOOLEAN], rpcClient' \in Networks \cup {rpcClient}
    PROVE  IInv'
BY BackendAssumption DEF IInv, TypeOK, MutexInv, ClientInv, TxInv

\* Neither does any other step of the system: SetRPCClient, time, a stutter.
LEMMA NextKeepsIInv == IInv /\ [Next]_vars => IInv'
<1> SUFFICES ASSUME IInv, [Next]_vars PROVE IInv'
  OBVIOUS
<1>1. CASE \E c \in Callers : CallerStep(c)
  BY <1>1, StepKeepsIInv
<1>2. CASE SetRPCClient
  BY <1>2, BackendAssumption DEF SetRPCClient, IInv, TypeOK, MutexInv, ClientInv, TxInv
<1>3. CASE Tick
  BY <1>3, BackendAssumption DEF Tick, Waiting, IInv, TypeOK, MutexInv, ClientInv, TxInv
<1>4. CASE UNCHANGED vars
  BY <1>4 DEF vars, IInv, TypeOK, MutexInv, ClientInv, TxInv
<1> QED
  BY <1>1, <1>2, <1>3, <1>4 DEF Next, CallerStep

\* The inductive invariant holds in every reachable state.
THEOREM Inductive == Spec => []IInv
<1> QED
  BY InitIInv, NextKeepsIInv, PTL DEF Spec

\* Type correctness.
THEOREM TypeCorrect == Spec => []TypeOK
<1>1. IInv => TypeOK
  BY DEF IInv
<1> QED
  BY Inductive, <1>1, PTL

\* cbMutex does its work: one transaction of the signer at a time.
THEOREM MutualExclusion == Spec => []OneAtATime
<1>1. IInv => OneAtATime
  BY DEF IInv, MutexInv, OneAtATime
<1> QED
  BY Inductive, <1>1, PTL

\* Open and Fund always find a client in the TxSender.
THEOREM ClientPresent == Spec => []ClientAtHand
<1>1. IInv => ClientAtHand
  BY DEF IInv, ClientInv, ClientAtHand
<1> QED
  BY Inductive, <1>1, PTL

-----------------------------------------------------------------------------
\* The refinement of TxSubmission

Fate(c) == IF tx[c] \in {"rejected", "expired"} THEN "void" ELSE tx[c]

\* A step that moves a pending call on is a stutter.
LEMMA Internal ==
    ASSUME NEW c \in Callers, pc \in [Callers -> PCs], pc[c] \in PCs \ {"idle", "done"},
           NEW label \in PCs \ {"idle", "done"}, pc' = [pc EXCEPT ![c] = label],
           UNCHANGED <<result, tx>>
    PROVE  UNCHANGED Submission!vars
<1>1. \A d \in Callers : Phase(d)' = Phase(d)
  BY DEF Phase
<1> QED
  BY <1>1 DEF Submission!vars

\* A step that makes an idle call a pending one is Begin of TxSubmission.
LEMMA Begins ==
    ASSUME NEW c \in Callers, pc \in [Callers -> PCs], pc[c] = "idle",
           NEW label \in PCs \ {"idle", "done"}, pc' = [pc EXCEPT ![c] = label],
           UNCHANGED <<result, tx>>
    PROVE  Submission!Next
<1>1. \A d \in Callers : Phase(d)' = IF d = c THEN "pending" ELSE Phase(d)
  BY DEF Phase
<1>2. Submission!Begin(c)
  BY <1>1 DEF Submission!Begin, Phase
<1> QED
  BY <1>2 DEF Submission!Next

\* A step that ends a call and sends nothing is Return of TxSubmission.
LEMMA Returns ==
    ASSUME TypeOK, NEW c \in Callers, pc[c] \notin {"idle", "done"},
           NEW r \in {"ok", "err", "stale", "panic"}, End(c, r),
           r = "ok" => tx[c] = "executed", UNCHANGED tx
    PROVE  Submission!Next
<1> DEFINE ph == IF r = "ok" THEN "ok" ELSE "err"
<1>1. \A d \in Callers : Phase(d)' = IF d = c THEN ph ELSE Phase(d)
  BY DEF Phase, End, TypeOK
<1>2. Phase(c) = "pending"
  BY DEF Phase
<1>3. Submission!Return(c, ph)
  BY <1>1, <1>2 DEF Submission!Return
<1> QED
  BY <1>3 DEF Submission!Next

\* Sending, with or without an end of the call, is Submit of TxSubmission.
LEMMA Submits ==
    ASSUME TypeOK, NEW c \in Callers, pc[c] = "send", tx[c] = "unsent",
           tx' = [tx EXCEPT ![c] = "inflight"],
           \/ Goto(c, "confirm") \/ (c \in Unconfirmed /\ End(c, "ok")) \/ End(c, "err")
    PROVE  Submission!Next
<1>1. \A d \in Callers : Fate(d)' = IF d = c THEN "inflight" ELSE Fate(d)
  BY DEF Fate, TypeOK
<1>2. Phase(c) = "pending" /\ Fate(c) = "unsent"
  BY DEF Phase, Fate
<1>3. CASE Goto(c, "confirm")
  <2>1. \A d \in Callers : Phase(d)' = Phase(d)
    BY <1>3 DEF Phase, Goto, TypeOK
  <2>2. Submission!Submit(c)
    BY <1>1, <1>2, <2>1 DEF Submission!Submit, Fate
  <2> QED
    BY <2>2 DEF Submission!Next
<1>4. ASSUME NEW r \in {"ok", "err"}, End(c, r), r = "ok" => c \in Unconfirmed
      PROVE  Submission!Next
  <2>1. \A d \in Callers : Phase(d)' = IF d = c THEN r ELSE Phase(d)
    BY <1>4 DEF Phase, End, TypeOK
  <2>2. Submission!Submit(c)
    BY <1>1, <1>2, <1>4, <2>1 DEF Submission!Submit, Fate
  <2> QED
    BY <2>2 DEF Submission!Next
<1> QED
  BY <1>3, <1>4

\* Every step of a call is a step of TxSubmission or a stutter.
LEMMA StepRefines ==
    ASSUME IInv, NEW c \in Callers, CallerStep(c)
    PROVE  Submission!Next \/ UNCHANGED Submission!vars
<1>0. TypeOK /\ TxInv
  BY DEF IInv
<1> USE <1>0 DEF TypeOK, PCs, Holding
<1>1. CASE Begin(c)
  BY <1>1, Begins DEF Begin, Goto
<1>2. CASE Prepared(c)
  BY <1>2, Internal DEF Prepared, Goto
<1>3. CASE PrepareFails(c)
  BY <1>3, Returns DEF PrepareFails
<1>4. CASE Invoke(c)
  BY <1>4, Begins DEF Invoke, Goto
<1>5. CASE Lock(c)
  BY <1>5, Internal DEF Lock
<1>6. CASE Connected(c)
  BY <1>6, Internal DEF Connected, Goto
<1>7. CASE ConnectFails(c)
  BY <1>7, Returns DEF ConnectFails
<1>8. CASE Sent(c)
  BY <1>8, Submits DEF Sent, TxInv
<1>9. CASE SentUnanswered(c)
  BY <1>9, Submits DEF SentUnanswered, TxInv
<1>10. CASE NotSent(c)
  BY <1>10, Returns DEF NotSent
<1>11. CASE Notified(c)
  BY <1>11, Returns DEF Notified
<1>12. CASE TimedOut(c) \/ WatchFails(c)
  BY <1>12, Returns DEF TimedOut, WatchFails
<1>13. CASE Cancel(c)
  BY <1>13 DEF Cancel, Submission!vars, Phase
<1>14. CASE Finalize(c)
  <2>1. PICK fate \in {"executed", "rejected", "expired"} : tx' = [tx EXCEPT ![c] = fate]
    BY <1>14 DEF Finalize
  <2> DEFINE f == IF fate = "executed" THEN "executed" ELSE "void"
  <2>2. \A d \in Callers : Fate(d)' = IF d = c THEN f ELSE Fate(d)
    BY <2>1 DEF Fate
  <2>3. \A d \in Callers : Phase(d)' = Phase(d)
    BY <1>14 DEF Finalize, Phase
  <2>4. Submission!Settle(c)
    BY <1>14, <2>2, <2>3 DEF Finalize, Submission!Settle, Fate
  <2> QED
    BY <2>4 DEF Submission!Next
<1> QED
  BY <1>1, <1>2, <1>3, <1>4, <1>5, <1>6, <1>7, <1>8, <1>9, <1>10, <1>11, <1>12, <1>13, <1>14
     DEF CallerStep, Step

\* An initial state of ContractBackend is one of TxSubmission.
LEMMA InitRefines == Init => Submission!Init
BY DEF Init, Submission!Init, Phase

\* Every step of the system is one of TxSubmission or a stutter.
LEMMA NextRefines == IInv /\ [Next]_vars => [Submission!Next]_Submission!vars
<1> SUFFICES ASSUME IInv, [Next]_vars PROVE Submission!Next \/ UNCHANGED Submission!vars
  BY DEF Submission!vars
<1>1. CASE \E c \in Callers : CallerStep(c)
  BY <1>1, StepRefines
<1>2. CASE UNCHANGED <<pc, result, tx>>
  BY <1>2 DEF Submission!vars, Phase
<1>3. Next => (\E c \in Callers : CallerStep(c)) \/ SetRPCClient \/ Tick
  BY DEF Next, CallerStep
<1> QED
  BY <1>1, <1>2, <1>3 DEF SetRPCClient, Tick, vars

\* The calls of ContractBackend, with the mutex, the websocket and all their
\* failures, do nothing that TxSubmission does not allow.
THEOREM Implements == Spec => SubmissionSpec
<1> QED
  BY Inductive, InitRefines, NextRefines, PTL DEF Spec, SubmissionSpec, Submission!Spec


=============================================================================
