----------------------------- MODULE FunderProofs ----------------------------
(***************************************************************************)
(* Proofs about Funder, for every set of requests, every number of         *)
(* iterations and calls, every set of faults and both kinds of program.    *)
(***************************************************************************)
EXTENDS Funder, TLAPS

\* The counter of fundParty is below its limit in the body of the loop.
InBody(p)  == pc[p] \in {"fund", "fundWait", "balance"}
BodyBound  == \A p \in Parties : InBody(p) => iter[p] < MaxIters

TypeInv == TypeOK /\ BodyBound

InFlight(p)   == pc[p] = "fundWait" /\ tx[p] = "inflight"
Depositing(p) == pc[p] = "fund" \/ InFlight(p)

\* fundParty runs, and its transactions are in flight, only if the channel is open.
OpenInv ==
    /\ ~open => funded = {}
    /\ \A p \in Parties : pc[p] = "fundLoop" \/ InBody(p) \/ lateFund[p] > 0 => open

\* A result belongs to a call that returned; a nil has its reason, which lasts.
ResultInv ==
    \A p \in Parties :
        /\ ret[p] # "none" => pc[p] = "returned"
        /\ ret[p] = "nil"  => \/ funded = Parties
                              \/ shouldFund(p, alloc) = "no"
                              \/ iter[p] = MaxIters

\* Without retries in flight, a transaction of a party is waited for or late,
\* never both, and a deposit is under way only if there was none before.
SoleInv ==
    \A p \in Parties :
        /\ Depositing(p) => p \notin funded
        /\ lateFund[p] > 0 => lateFund[p] = 1 /\ p \notin funded
        /\ Active(p) \/ ret[p] = "nil" => lateFund[p] = 0 /\ (p = 0 => lateOpen = 0)
        /\ pc[p] \in {"open", "openWait"} => p = 0

CountInv == \A p \in Parties : deposits[p] <= 1 /\ (deposits[p] > 0 => p \in funded)

IInv ==
    /\ TypeInv
    /\ OpenInv
    /\ ResultInv
    /\ ~RetryInFlight => SoleInv
    /\ ~RetryInFlight \/ RejectsRefund => CountInv

\* One step of the whole system.
PartyStep(p) ==
    \/ Call(p) \/ Step(p) \/ BalanceRead(p) \/ Cancel(p) \/ Crash(p)
    \/ FinalizeOpen(p) \/ FinalizeFund(p) \/ SettleLateFund(p) \/ SettleLateOpen

\* The system starts with every variable in its type and both counters below the limit.
LEMMA TypeInit == Init => TypeInv
<1> SUFFICES ASSUME Init PROVE TypeInv
  OBVIOUS
<1>1. ChainTypeOK
  BY DEF Init, ChainInit, ChainTypeOK
<1>2. TypeOK
  BY <1>1, FunderAssumption DEF Init, TypeOK, PCs, Results, TxState
<1>3. BodyBound
  BY DEF Init, BodyBound, InBody
<1> QED
  BY <1>2, <1>3 DEF TypeInv

\* No step of a party or of the network breaks the inductive invariant.
LEMMA StepKeepsIInv ==
    ASSUME IInv, NEW p \in Parties, PartyStep(p)
    PROVE  IInv'
<1> USE FunderAssumption DEF IInv, TypeInv, TypeOK, ChainTypeOK, BodyBound, InBody, OpenInv,
        ResultInv, SoleInv, CountInv, Depositing, InFlight, Active, alloc, PCs, Running, Results,
        Errors, TxState, Goto, Return, NextIteration, ChannelFound, chainVars
<1>1. CASE Call(p)
  BY <1>1 DEF Call
<1>2. CASE Send(p)
  BY <1>2 DEF Send
<1>3. CASE SendFails(p)
  BY <1>3 DEF SendFails
<1>4. CASE OpenConfirmed(p)
  BY <1>4 DEF OpenConfirmed
<1>5. CASE FundConfirmed(p)
  <2>1. CASE Goto(p, "balance") /\ UNCHANGED iter
    BY <1>5, <2>1 DEF FundConfirmed
  <2>2. CASE Goto(p, "panicked") /\ UNCHANGED iter
    BY <1>5, <2>2 DEF FundConfirmed
  <2>3. CASE Goto(p, "fundLoop") /\ NextIteration(p)
    BY <1>5, <2>3 DEF FundConfirmed
  <2> QED
    BY <1>5, <2>1, <2>2, <2>3, Zenon DEF FundConfirmed, AfterDeposit
<1>6. CASE ConfirmFails(p)
  BY <1>6 DEF ConfirmFails, AbandonTx
<1>7. CASE PollOpenCancelled(p)
  BY <1>7 DEF PollOpenCancelled
<1>8. CASE PollOpenMisses(p)
  BY <1>8 DEF PollOpenMisses
<1>9. CASE PollOpenFinds(p)
  BY <1>9 DEF PollOpenFinds, BothFunded
<1>10. CASE PollOpenEnds(p)
  BY <1>10 DEF PollOpenEnds
<1>11. CASE FundLoopCancelled(p)
  BY <1>11 DEF FundLoopCancelled, AbortChannel
<1>12. CASE FundLoopMisses(p)
  BY <1>12 DEF FundLoopMisses
<1>13. CASE FundLoopFinds(p)
  BY <1>13 DEF FundLoopFinds, BothFunded
<1>14. CASE FundLoopEnds(p)
  BY <1>14 DEF FundLoopEnds, AbortChannel
<1>15. CASE BalanceRead(p)
  <2>1. CASE Goto(p, "panicked") /\ UNCHANGED iter
    BY <1>15, <2>1 DEF BalanceRead
  <2>2. CASE Goto(p, "fundLoop") /\ NextIteration(p)
    BY <1>15, <2>2 DEF BalanceRead
  <2> QED
    BY <1>15, <2>1, <2>2, Zenon DEF BalanceRead, AfterDeposit
<1>16. CASE Cancel(p)
  BY <1>16 DEF Cancel
<1>17. CASE Crash(p)
  BY <1>17 DEF Crash, AbandonTx
<1>18. CASE FinalizeOpen(p)
  BY <1>18 DEF FinalizeOpen, ExecuteOpen, OpenAccepted, Free
<1>19. CASE FinalizeFund(p)
  BY <1>19 DEF FinalizeFund, ExecuteFund, FundAccepted
<1>20. CASE SettleLateFund(p)
  <2>1. TypeInv'
    BY <1>20 DEF SettleLateFund, ExecuteFund, FundAccepted
  <2>2. OpenInv'
    BY <1>20 DEF SettleLateFund, ExecuteFund, FundAccepted
  <2>3. ResultInv'
    <3>1. funded = Parties => funded' = Parties
      BY <1>20 DEF SettleLateFund, ExecuteFund, FundAccepted
    <3>2. UNCHANGED <<req, pc, ret, iter>>
      BY <1>20 DEF SettleLateFund
    <3> QED
      BY <3>1, <3>2
  <2>4. (~RetryInFlight => SoleInv)'
    BY <1>20 DEF SettleLateFund, ExecuteFund, FundAccepted
  <2>5. (~RetryInFlight \/ RejectsRefund => CountInv)'
    BY <1>20 DEF SettleLateFund, ExecuteFund, FundAccepted
  <2> QED
    BY <2>1, <2>2, <2>3, <2>4, <2>5 DEF IInv
<1>21. CASE SettleLateOpen
  <2>1. TypeInv'
    <3>1. lateOpen' \in Nat
      BY <1>21 DEF SettleLateOpen
    <3>2. open' \in BOOLEAN /\ funded' \in SUBSET Parties /\ UNCHANGED deposits
      BY <1>21 DEF SettleLateOpen, ExecuteOpen, OpenAccepted, Free
    <3> QED
      BY <1>21, <3>1, <3>2 DEF SettleLateOpen
  <2>2. OpenInv'
    BY <1>21 DEF SettleLateOpen, ExecuteOpen, OpenAccepted, Free
  <2>3. ResultInv'
    <3>1. funded = Parties => funded' = Parties
      BY <1>21 DEF SettleLateOpen, ExecuteOpen, OpenAccepted, Free, Parties
    <3>2. UNCHANGED <<req, pc, ret, iter>>
      BY <1>21 DEF SettleLateOpen
    <3> QED
      BY <3>1, <3>2
  <2>4. (~RetryInFlight => SoleInv)'
    BY <1>21 DEF SettleLateOpen, ExecuteOpen, OpenAccepted, Free
  <2>5. (~RetryInFlight \/ RejectsRefund => CountInv)'
    BY <1>21 DEF SettleLateOpen, ExecuteOpen, OpenAccepted, Free
  <2> QED
    BY <2>1, <2>2, <2>3, <2>4, <2>5 DEF IInv
<1> QED
  BY <1>1, <1>2, <1>3, <1>4, <1>5, <1>6, <1>7, <1>8, <1>9, <1>10, <1>11, <1>12, <1>13,
     <1>14, <1>15, <1>16, <1>17, <1>18, <1>19, <1>20, <1>21 DEF PartyStep, Step


-----------------------------------------------------------------------------
\* No Fund has been called: the inductive invariant holds initially.
LEMMA InitIInv == Init => IInv
<1> SUFFICES ASSUME Init PROVE IInv
  OBVIOUS
<1>1. TypeInv
  BY TypeInit
<1>2. OpenInv /\ ResultInv /\ SoleInv /\ CountInv
  BY DEF Init, ChainInit, OpenInv, InBody, ResultInv, SoleInv, CountInv, Depositing, InFlight,
     Active, Running
<1> QED
  BY <1>1, <1>2 DEF IInv

\* Every step of the system keeps the inductive invariant.
LEMMA NextKeepsIInv == IInv /\ [Next]_vars => IInv'
<1> SUFFICES ASSUME IInv, [Next]_vars PROVE IInv'
  OBVIOUS
<1>1. CASE \E p \in Parties : PartyStep(p)
  BY <1>1, StepKeepsIInv
<1>2. CASE UNCHANGED vars
  BY <1>2 DEF vars, IInv, TypeInv, TypeOK, ChainTypeOK, BodyBound, InBody, OpenInv, ResultInv,
     SoleInv, CountInv, Depositing, InFlight, Active, alloc
<1>3. Next => \E p \in Parties : PartyStep(p)
  BY DEF Next, PartyStep, Parties
<1> QED
  BY <1>1, <1>2, <1>3

\* The inductive invariant holds in every reachable state.
THEOREM Inductive == Spec => []IInv
<1> QED
  BY InitIInv, NextKeepsIInv, PTL DEF Spec

\* Type correctness; in particular no loop of Fund counts past maxIters.
THEOREM TypeCorrect == Spec => []TypeOK
<1>1. IInv => TypeOK
  BY DEF IInv, TypeInv
<1> QED
  BY Inductive, <1>1, PTL

\* No share is taken twice, whatever fails and however often Fund is called, if
\* Fund is not called again with a transaction in flight, or if the program
\* refuses a party that has deposited.
THEOREM SingleDeposit ==
    ASSUME ~RetryInFlight \/ RejectsRefund
    PROVE  Spec => []AtMostOneDeposit
<1>1. IInv => AtMostOneDeposit
  BY DEF IInv, CountInv, AtMostOneDeposit
<1> QED
  BY Inductive, <1>1, PTL

\* A Fund transaction is sent only into an open channel.
THEOREM DepositIntoOpen == Spec => []FundTxNeedsOpenChannel
<1>1. IInv => FundTxNeedsOpenChannel
  BY DEF IInv, OpenInv, InBody, FundTxNeedsOpenChannel
<1> QED
  BY Inductive, <1>1, PTL

\* A Fund that returned nil left no transaction of the party behind.
THEOREM NilIsFinal ==
    ASSUME ~RetryInFlight
    PROVE  Spec => []NilLeavesNothingInFlight
<1>1. IInv => NilLeavesNothingInFlight
  BY DEF IInv, SoleInv, NilLeavesNothingInFlight
<1> QED
  BY Inductive, <1>1, PTL

\* Fund returns nil for one of the three reasons, and the reason lasts.
THEOREM NilJustified == Spec => []NilReturnJustified
<1>1. IInv => NilReturnJustified
  BY DEF IInv, ResultInv, NilReturnJustified
<1> QED
  BY Inductive, <1>1, PTL

=============================================================================
