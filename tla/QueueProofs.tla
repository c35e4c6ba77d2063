---------------------------- MODULE QueueProofs ----------------------------
(***************************************************************************)
(* Proofs about the queue for cbMutex: how old a blockhash gets that was   *)
(* fetched before the queue and is used behind it, for any number of calls,*)
(* any lifetime of a blockhash and any confirmation timeout.               *)
(*                                                                         *)
(* A block passes only while the holder of the mutex waits for its         *)
(* confirmation.  So the age of the blockhash of a call is paid for by the *)
(* calls that are done and have waited, each with one timeout, and by the  *)
(* wait of the holder that is going on.                                    *)
(***************************************************************************)
EXTENDS BackendProofs, FiniteSetTheorems

\* The calls whose confirmations are out of the way of c, and the time these took at most.
Served(c) == {d \in Callers \ {c} : pc[d] = "done" /\ waited[d] > 0}
Paid(c)   == Cardinality(Served(c)) * ConfirmTimeout

\* How long the holder of the mutex has waited.
HolderWait == IF mutex # NoCaller /\ pc[mutex] = "confirm" THEN waited[mutex] ELSE 0

AgeInv ==
    \A c \in Callers :
        /\ pc[c] \in {"idle", "blockhash"} => age[c] = 0
        /\ pc[c] = "lock"                  => age[c] <= Paid(c) + HolderWait
        /\ pc[c] \in {"connect", "send"}   => age[c] <= Paid(c)
        /\ pc[c] = "confirm"               => age[c] <= Paid(c) + waited[c]

\* A call that was refused for its blockhash is over, and has sent nothing.
StaleInv ==
    \A c \in Callers : result[c] = "stale" =>
        pc[c] = "done" /\ tx[c] = "unsent" /\ age[c] <= Paid(c)

\* The mutex is held by a call that is inside it.
HolderInv == mutex # NoCaller => pc[mutex] \in Holding

QInv == IInv /\ HolderInv /\ AgeInv /\ StaleInv

-----------------------------------------------------------------------------
\* What has been paid for

\* The time the finished calls may have taken is a number of blocks.
LEMMA PaidType ==
    ASSUME IsFiniteSet(Callers), NEW c
    PROVE  IsFiniteSet(Served(c)) /\ Paid(c) \in Nat
<1>1. IsFiniteSet(Served(c))
  BY FS_Subset DEF Served
<1>2. Cardinality(Served(c)) \in Nat
  BY <1>1, FS_CardinalityType
<1> QED
  BY <1>1, <1>2, BackendAssumption DEF Paid

\* It is at most one timeout for every other call.
LEMMA PaidBound ==
    ASSUME IsFiniteSet(Callers), NEW c \in Callers
    PROVE  /\ Paid(c) <= (Cardinality(Callers) - 1) * ConfirmTimeout
           /\ Paid(c) + ConfirmTimeout <= Cardinality(Callers) * ConfirmTimeout
<1> DEFINE n == Cardinality(Callers)
           k == Cardinality(Served(c))
<1>1. IsFiniteSet(Callers \ {c}) /\ Cardinality(Callers \ {c}) = n - 1 /\ n \in Nat
  BY FS_RemoveElement, FS_CardinalityType
<1>2. k <= n - 1 /\ k \in Nat
  <2>1. Served(c) \subseteq Callers \ {c}
    BY DEF Served
  <2> QED
    BY <1>1, <2>1, FS_Subset, FS_CardinalityType
<1>3. \A m \in Nat : k * m <= (n - 1) * m /\ k * m + m <= n * m
  <2> HIDE DEF n, k
  <2> SUFFICES ASSUME NEW m \in Nat PROVE k * m <= (n - 1) * m /\ k * m + m <= n * m
    OBVIOUS
  <2>1. (n - 1 - k) \in Nat
    BY <1>1, <1>2
  <2>2. (n - 1 - k) * m \in Nat
    BY <2>1
  <2>3. (n - 1 - k) * m = (n - 1) * m - k * m /\ (n - 1) * m = n * m - m
    BY <1>1, <1>2
  <2> QED
    BY <1>1, <1>2, <2>2, <2>3
<1> QED
  BY <1>3, BackendAssumption DEF Paid

\* It is at most one timeout for every other call that has waited.
LEMMA PaidByWaiters ==
    ASSUME IsFiniteSet(Callers), NEW c \in Callers
    PROVE  Paid(c) <= Cardinality({d \in Callers \ {c} : waited[d] > 0}) * ConfirmTimeout
<1> DEFINE waiters == {d \in Callers \ {c} : waited[d] > 0}
           n == Cardinality(waiters)
           k == Cardinality(Served(c))
<1>1. IsFiniteSet(waiters) /\ n \in Nat
  BY FS_Subset, FS_CardinalityType
<1>2. k <= n /\ k \in Nat
  <2>1. Served(c) \subseteq waiters
    BY DEF Served
  <2> QED
    BY <1>1, <2>1, FS_Subset, FS_CardinalityType
<1>3. \A m \in Nat : k * m <= n * m
  <2> HIDE DEF n, k
  <2> SUFFICES ASSUME NEW m \in Nat PROVE k * m <= n * m
    OBVIOUS
  <2>1. (n - k) * m \in Nat
    BY <1>1, <1>2
  <2>2. (n - k) * m = n * m - k * m
    BY <1>1, <1>2
  <2> QED
    BY <1>1, <1>2, <2>1, <2>2
<1> QED
  BY <1>3, BackendAssumption DEF Paid

\* A step that ends no call pays for nothing.
LEMMA PaidKept ==
    ASSUME \A d \in Callers : /\ pc'[d] = "done" <=> pc[d] = "done"
                              /\ pc[d] = "done" => waited'[d] = waited[d]
    PROVE  \A d \in Callers : Paid(d)' = Paid(d)
<1>1. \A d \in Callers : Served(d)' = Served(d)
  BY DEF Served
<1> QED
  BY <1>1 DEF Paid

\* What a call that ends pays for every other one.
Pays(c) == IF waited[c] > 0 THEN ConfirmTimeout ELSE 0

\* A call that ends pays for every other one if it has waited, and not for itself.
LEMMA PaidByEnd ==
    ASSUME IsFiniteSet(Callers), TypeOK, NEW c \in Callers, pc[c] # "done",
           pc' = [pc EXCEPT ![c] = "done"], UNCHANGED waited
    PROVE  \A d \in Callers :
               Paid(d)' = IF d = c THEN Paid(d) ELSE Paid(d) + Pays(c)
<1> SUFFICES ASSUME NEW d \in Callers
             PROVE  Paid(d)' = IF d = c THEN Paid(d) ELSE Paid(d) + Pays(c)
  OBVIOUS
<1>1. CASE d = c \/ ~(waited[c] > 0)
  <2>1. Served(d)' = Served(d)
    BY <1>1 DEF Served, TypeOK
  <2>2. Paid(d) \in Nat
    BY PaidType
  <2> QED
    BY <1>1, <2>1, <2>2 DEF Paid, Pays
<1>2. CASE d # c /\ waited[c] > 0
  <2>1. Served(d)' = Served(d) \cup {c} /\ c \notin Served(d)
    BY <1>2 DEF Served, TypeOK
  <2>2. Cardinality(Served(d)') = Cardinality(Served(d)) + 1 /\ Cardinality(Served(d)) \in Nat
    BY <2>1, PaidType, FS_AddElement, FS_CardinalityType
  <2>3. \A k, m \in Nat : (k + 1) * m = k * m + m
    OBVIOUS
  <2> QED
    BY <1>2, <2>2, <2>3, BackendAssumption DEF Paid, Pays
<1> QED
  BY <1>1, <1>2

-----------------------------------------------------------------------------
\* The inductive invariant

\* No call has begun: nothing has aged.
LEMMA InitQInv == ASSUME IsFiniteSet(Callers) PROVE Init => QInv
BY InitIInv, PaidType
   DEF Init, QInv, HolderInv, AgeInv, StaleInv, HolderWait

\* A step that ends no call, changes no age and leaves no wait behind keeps the
\* ages paid for, if the one call that moves is paid for at its new place.
LEMMA MoveKeepsQInv ==
    ASSUME IsFiniteSet(Callers), QInv, IInv', NEW c \in Callers,
           NEW label \in PCs \ {"idle", "done"}, pc' = [pc EXCEPT ![c] = label],
           pc[c] \notin {"confirm", "done"},
           UNCHANGED <<result, age, waited>>,
           mutex' = mutex \/ (mutex = NoCaller /\ mutex' = c),
           mutex' = c <=> label \in Holding,
           pc[c] \in {"idle", "blockhash"} \/ label # "lock",
           label # "blockhash" \/ pc[c] = "idle",
           \A d \in Callers \ {c} : tx'[d] = tx[d]
    PROVE  QInv'
<1>1. \A d \in Callers : Paid(d)' = Paid(d) /\ Paid(d) \in Nat
  BY PaidKept, PaidType DEF QInv, IInv, TypeOK
<1>2. HolderWait \in Nat /\ HolderWait <= HolderWait'
  BY BackendAssumption DEF QInv, HolderWait, IInv, TypeOK, MutexInv, HolderInv, PCs, Holding
<1>3. (pc[c] = "lock" => HolderWait = 0) /\ HolderWait' \in Nat
  BY BackendAssumption DEF QInv, HolderWait, IInv, TypeOK, MutexInv, HolderInv, PCs, Holding
<1>4. AgeInv'
  BY <1>1, <1>2, <1>3, BackendAssumption DEF QInv, AgeInv, IInv, TypeOK, PCs, Holding
<1>5. StaleInv'
  BY <1>1 DEF QInv, StaleInv, IInv, TypeOK
<1>6. HolderInv'
  BY BackendAssumption DEF QInv, HolderInv, IInv, TypeOK, Holding
<1> QED
  BY <1>4, <1>5, <1>6 DEF QInv

\* A call that ends pays with its own wait for the waits of the others.
LEMMA EndKeepsQInv ==
    ASSUME IsFiniteSet(Callers), QInv, IInv', NEW c \in Callers, NEW r,
           pc[c] # "done", End(c, r), UNCHANGED <<age, waited>>,
           \A d \in Callers \ {c} : tx'[d] = tx[d],
           r = "stale" => pc[c] = "send" /\ tx'[c] = tx[c]
    PROVE  QInv'
<1>1. \A d \in Callers : Paid(d)' = IF d = c THEN Paid(d) ELSE Paid(d) + Pays(c)
  BY PaidByEnd DEF QInv, IInv, End
<1>2. \A d \in Callers : Paid(d) \in Nat
  BY PaidType
<1>3. HolderWait \in Nat /\ HolderWait' \in Nat /\ HolderWait <= HolderWait' + Pays(c)
  BY BackendAssumption DEF Pays, QInv, End, HolderWait, HolderInv, IInv, TypeOK, Holding
<1>4. AgeInv'
  <2> SUFFICES ASSUME NEW d \in Callers \ {c}
               PROVE  /\ pc[d] \in {"idle", "blockhash"} => age[d] = 0
                      /\ pc[d] = "lock"                  => age[d] <= Paid(d)' + HolderWait'
                      /\ pc[d] \in {"connect", "send"}   => age[d] <= Paid(d)'
                      /\ pc[d] = "confirm"               => age[d] <= Paid(d)' + waited[d]
    BY DEF AgeInv, End, QInv, IInv, TypeOK
  <2>1. age[d] \in Nat /\ waited[d] \in Nat
    BY BackendAssumption DEF QInv, IInv, TypeOK
  <2>2. Paid(d)' = Paid(d) + Pays(c) /\ Paid(d) \in Nat /\ Pays(c) \in Nat
    BY <1>1, <1>2, BackendAssumption DEF Pays
  <2>3. AgeInv
    BY DEF QInv
  <2>4. pc[d] = "lock" => age[d] <= Paid(d) + HolderWait
    BY <2>3 DEF AgeInv
  <2>5. pc[d] = "confirm" => age[d] <= Paid(d) + waited[d]
    BY <2>3 DEF AgeInv
  <2>6. pc[d] \in {"connect", "send"} => age[d] <= Paid(d)
    BY <2>3 DEF AgeInv
  <2>7. pc[d] \in {"idle", "blockhash"} => age[d] = 0
    BY <2>3 DEF AgeInv
  <2>8. pc[d] = "lock" => age[d] <= Paid(d)' + HolderWait'
    <3>1. \A a, p, h, g, t \in Nat : a <= p + h /\ h <= g + t => a <= p + t + g
      OBVIOUS
    <3>2. pc[d] = "lock" => age[d] <= Paid(d) + Pays(c) + HolderWait'
      BY <1>3, <2>1, <2>2, <2>4, <3>1
    <3> QED
      BY <2>2, <3>2
  <2>9. pc[d] = "confirm" => age[d] <= Paid(d)' + waited[d]
    BY <2>1, <2>2, <2>5, BackendAssumption
  <2>10. pc[d] \in {"connect", "send"} => age[d] <= Paid(d)'
    BY <2>1, <2>2, <2>6, BackendAssumption
  <2> QED
    BY <2>7, <2>8, <2>9, <2>10
<1>5. StaleInv'
  BY <1>1, <1>2, BackendAssumption
     DEF Pays, QInv, AgeInv, StaleInv, End, IInv, TypeOK, TxInv
<1>6. HolderInv'
  BY BackendAssumption DEF QInv, HolderInv, MutexInv, End, IInv, TypeOK, Holding
<1> QED
  BY <1>4, <1>5, <1>6 DEF QInv

\* A step of a call, of its context, or of the network for its transaction.
LEMMA CallerKeepsQInv ==
    ASSUME IsFiniteSet(Callers), QInv, NEW c \in Callers, CallerStep(c)
    PROVE  QInv'
<1>1. IInv /\ IInv' /\ TypeOK
  BY StepKeepsIInv DEF QInv, IInv
<1> USE <1>1 DEF PCs, Holding, TypeOK
<1>2. \A d \in Callers \ {c} : tx'[d] = tx[d]
  BY DEF CallerStep, Step, Begin, Prepared, PrepareFails, Invoke, Lock, Connected, ConnectFails,
         Sent, SentUnanswered, NotSent, Notified, TimedOut, WatchFails, Cancel, Finalize
<1>3. mutex = c => pc[c] \in Holding
  BY BackendAssumption DEF QInv, HolderInv
<1>4. pc[c] \in Holding => mutex = c
  BY DEF IInv, MutexInv
<1> HIDE DEF Holding
<1>5. CASE Begin(c) \/ Prepared(c) \/ Invoke(c)
  BY <1>2, <1>3, <1>5, MoveKeepsQInv DEF Begin, Prepared, Invoke, Goto, Holding
<1>6. CASE Lock(c) \/ Connected(c) \/ (Sent(c) /\ Goto(c, "confirm"))
  BY <1>2, <1>3, <1>4, <1>6, MoveKeepsQInv DEF Lock, Connected, Sent, Goto, Holding
<1>7. CASE PrepareFails(c) \/ ConnectFails(c) \/ (Sent(c) /\ End(c, "ok")) \/ SentUnanswered(c)
  BY <1>2, <1>7, EndKeepsQInv DEF PrepareFails, ConnectFails, Sent, SentUnanswered
<1>8. CASE NotSent(c) \/ Notified(c) \/ TimedOut(c) \/ WatchFails(c)
  BY <1>2, <1>8, EndKeepsQInv DEF NotSent, Notified, TimedOut, WatchFails
<1>9. CASE Cancel(c) \/ Finalize(c)
  <2>1. UNCHANGED <<pc, result, mutex, age, waited>> /\ (tx[c] = "unsent" => tx'[c] = tx[c])
    BY <1>9 DEF Cancel, Finalize
  <2>2. \A d \in Callers : Paid(d)' = Paid(d)
    BY <2>1, PaidKept
  <2> QED
    BY <1>2, <2>1, <2>2 DEF QInv, HolderInv, AgeInv, StaleInv, HolderWait
<1> QED
  BY <1>5, <1>6, <1>7, <1>8, <1>9 DEF CallerStep, Step, Sent

\* While a block passes, a call in the queue has a holder of the mutex before it
\* that waits for its confirmation: both grow older by the block.
LEMMA TickKeepsQInv ==
    ASSUME IsFiniteSet(Callers), QInv, IInv', Tick
    PROVE  QInv'
<1>1. IInv /\ TypeOK /\ HolderInv /\ AgeInv /\ StaleInv
  BY DEF QInv, IInv
<1>2. UNCHANGED <<pc, result, mutex, tx>>
  BY DEF Tick
<1>3. \A d \in Callers : Paid(d)' = Paid(d) /\ Paid(d) \in Nat
  <2>1. \A d \in Callers : pc[d] = "done" => waited'[d] = waited[d]
    BY <1>1 DEF Tick, TypeOK
  <2> QED
    BY <1>2, <2>1, PaidKept, PaidType
<1>4. \A d \in Callers : pc[d] \in {"idle", "done", "lock", "confirm"}
  BY DEF Tick, Waiting
<1>5. AgeInv'
  <2> SUFFICES ASSUME NEW d \in Callers
               PROVE  /\ pc[d] \in {"idle", "blockhash"} => age'[d] = 0
                      /\ pc[d] = "lock"    => age'[d] <= Paid(d) + HolderWait'
                      /\ pc[d] = "confirm" => age'[d] <= Paid(d) + waited'[d]
    BY <1>2, <1>3, <1>4 DEF AgeInv
  <2>1. CASE pc[d] \in {"idle", "blockhash"}
    BY <1>1, <2>1 DEF Tick, IInv, TxInv, AgeInv
  <2>2. CASE pc[d] = "lock"
    <3>1. mutex \in Callers /\ pc[mutex] = "confirm"
      BY <1>1, <1>4, <2>2 DEF Tick, Waiting, HolderInv, Holding, TypeOK
    <3>2. HolderWait = waited[mutex] /\ HolderWait' = waited[mutex] + 1 /\ waited[mutex] \in Nat
      BY <1>1, <1>2, <3>1, BackendAssumption DEF Tick, HolderWait, TypeOK
    <3>3. age'[d] = age[d] + 1 /\ age[d] \in Nat /\ age[d] <= Paid(d) + HolderWait
      BY <1>1, <2>2 DEF Tick, TypeOK, AgeInv
    <3> QED
      BY <1>3, <2>2, <3>2, <3>3
  <2>3. CASE pc[d] = "confirm"
    <3>1. waited'[d] = waited[d] + 1 /\ waited[d] \in Nat
      BY <1>1, <2>3, BackendAssumption DEF Tick, TypeOK
    <3>2. age'[d] = age[d] + 1 /\ age[d] \in Nat /\ age[d] <= Paid(d) + waited[d]
      BY <1>1, <2>3 DEF Tick, TypeOK, AgeInv
    <3> QED
      BY <1>3, <2>3, <3>1, <3>2
  <2> QED
    BY <2>1, <2>2, <2>3
<1>6. StaleInv'
  BY <1>1, <1>2, <1>3 DEF StaleInv, Tick
<1> QED
  BY <1>1, <1>2, <1>5, <1>6 DEF QInv, HolderInv

\* No step of the system makes a blockhash older than what has been paid for.
LEMMA NextKeepsQInv ==
    ASSUME IsFiniteSet(Callers), QInv, [Next]_vars
    PROVE  QInv'
<1>1. IInv'
  BY NextKeepsIInv DEF QInv
<1>2. CASE \E c \in Callers : CallerStep(c)
  BY <1>2, CallerKeepsQInv
<1>3. CASE Tick
  BY <1>1, <1>3, TickKeepsQInv
<1>4. CASE UNCHANGED <<pc, result, mutex, age, waited, tx>>
  <2>1. \A d \in Callers : Paid(d)' = Paid(d)
    BY <1>4, PaidKept
  <2> QED
    BY <1>1, <1>4, <2>1 DEF QInv, HolderInv, AgeInv, StaleInv, HolderWait
<1> QED
  BY <1>2, <1>3, <1>4 DEF Next, CallerStep, SetRPCClient, vars

\* The contexts of the calls and the client make nothing older, whatever becomes of them.
LEMMA ContextKeepsQInv ==
    ASSUME QInv, UNCHANGED <<pc, result, mutex, hashFrom, age, waited, tx, sentTo>>,
           ctxDone' \in [Callers -> BOOLEAN], rpcClient' \in Networks \cup {rpcClient}
    PROVE  QInv'
<1>1. IInv'
  BY ContextKeepsIInv DEF QInv
<1>2. \A d \in Callers : Paid(d)' = Paid(d)
  BY PaidKept
<1> QED
  BY <1>1, <1>2 DEF QInv, HolderInv, AgeInv, StaleInv, HolderWait

\* The ages are paid for in every reachable state.
THEOREM AgesPaidFor == ASSUME IsFiniteSet(Callers) PROVE Spec => []QInv
<1>1. QInv /\ [Next]_vars => QInv'
  BY NextKeepsQInv
<1> QED
  BY InitQInv, <1>1, PTL DEF Spec

-----------------------------------------------------------------------------
\* The theorems

\* What has been paid for is at most one timeout per call.
LEMMA QInvBounds == ASSUME IsFiniteSet(Callers), QInv PROVE QueueIsBounded
<1> SUFFICES ASSUME NEW c \in Callers, pc[c] \in {"lock"} \cup Holding
             PROVE  age[c] <= Cardinality(Callers) * ConfirmTimeout
  BY DEF QueueIsBounded
<1> DEFINE all == Cardinality(Callers) * ConfirmTimeout
<1>1. IInv /\ TypeOK /\ AgeInv
  BY DEF QInv, IInv
<1>2. Paid(c) + ConfirmTimeout <= all /\ all \in Nat
  BY PaidBound, FS_CardinalityType, BackendAssumption
<1>3. age[c] <= Paid(c) + ConfirmTimeout
  <2>1. HolderWait \in Nat /\ HolderWait <= ConfirmTimeout /\ waited[c] \in 0..ConfirmTimeout
    BY <1>1, BackendAssumption DEF HolderWait, TypeOK
  <2> QED
    BY <1>1, <2>1, PaidType, BackendAssumption DEF AgeInv, Holding, TypeOK
<1>4. age[c] \in Nat /\ Paid(c) \in Nat /\ ConfirmTimeout \in Nat
  BY <1>1, PaidType, BackendAssumption DEF TypeOK
<1> HIDE DEF all
<1>5. age[c] <= all
  BY <1>2, <1>3, <1>4
<1> QED
  BY <1>5 DEF all

\* A call about to use its blockhash, or refused for it, has been paid for by those that
\* have waited for their confirmations.
LEMMA QInvAged == ASSUME IsFiniteSet(Callers), QInv PROVE AgedBehindConfirmations
<1> SUFFICES ASSUME NEW c \in Callers, pc[c] \in {"connect", "send"} \/ result[c] = "stale"
             PROVE  age[c] <= Cardinality({d \in Callers \ {c} : waited[d] > 0}) * ConfirmTimeout
  BY DEF AgedBehindConfirmations
<1> DEFINE bound == Cardinality({d \in Callers \ {c} : waited[d] > 0}) * ConfirmTimeout
<1>1. age[c] <= Paid(c) /\ age[c] \in Nat /\ Paid(c) \in Nat
  BY PaidType DEF QInv, AgeInv, StaleInv, IInv, TypeOK
<1>2. Paid(c) <= bound
  BY PaidByWaiters
<1>3. bound \in Nat
  BY FS_Subset, FS_RemoveElement, FS_CardinalityType, BackendAssumption
<1> HIDE DEF bound
<1>4. age[c] <= bound
  BY <1>1, <1>2, <1>3
<1> QED
  BY <1>4 DEF bound

\* However many calls share the signer, a call is done with its blockhash after
\* one confirmation timeout per call.
THEOREM QueueBound == ASSUME IsFiniteSet(Callers) PROVE Spec => []QueueIsBounded
<1> QED
  BY AgesPaidFor, QInvBounds, PTL

\* However long the timeout and however short the lifetime of a blockhash, only the
\* confirmations of other calls make one expire in the queue: a call that had none before
\* it uses the blockhash at its age zero.
THEOREM AgedInQueue == ASSUME IsFiniteSet(Callers) PROVE Spec => []AgedBehindConfirmations
<1> QED
  BY AgesPaidFor, QInvAged, PTL

=============================================================================
