-------------------------- MODULE RefinementProofs --------------------------
(***************************************************************************)
(* Funder implements ChannelFunding, for every value of its constants with *)
(* RetryInFlight = FALSE.                                                  *)
(***************************************************************************)
EXTENDS FunderProofs, FundingRefinement

\* A step that leaves a running Fund running, and the chain alone, is a stutter
\* of ChannelFunding.
LEMMA Internal ==
    ASSUME NEW p \in Parties, pc \in [Parties -> PCs],
           pc[p] \in Running, NEW label \in Running, Goto(p, label),
           \A q \in Parties \ {p} : iter'[q] = iter[q],
           UNCHANGED <<req, chainVars>>
    PROVE  UNCHANGED Funding!vars
<1>1. \A q \in Parties : Outcome(q)' = Outcome(q)
  <2> SUFFICES ASSUME NEW q \in Parties PROVE Outcome(q)' = Outcome(q)
    OBVIOUS
  <2>1. CASE q = p
    <3>1. Outcome(p) = "working"
      BY DEF Outcome, Running
    <3>2. pc'[p] \in Running
      BY DEF Goto
    <3>3. Outcome(p)' = "working"
      BY <3>2 DEF Outcome, Running
    <3> QED
      BY <2>1, <3>1, <3>3
  <2>2. CASE q # p
    BY <2>2 DEF Outcome, Goto
  <2> QED
    BY <2>1, <2>2
<1>2. [q \in Parties |-> Outcome(q)]' = [q \in Parties |-> Outcome(q)]
  BY <1>1
<1> QED
  BY <1>2 DEF Funding!vars, chainVars, alloc, Free

\* A step that ends a Fund, and leaves the chain alone, is End of ChannelFunding.
LEMMA Ends ==
    ASSUME NEW p \in Parties, pc \in [Parties -> PCs], pc[p] \in Running,
           NEW label \in PCs \ (Running \cup {"idle"}), pc' = [pc EXCEPT ![p] = label],
           \A q \in Parties \ {p} : iter'[q] = iter[q] /\ ret'[q] = ret[q],
           UNCHANGED <<req, chainVars>>,
           NEW r \in {"failed", "succeeded", "gaveUp"}, Outcome(p)' = r,
           r = "succeeded" => funded = Parties \/ (open /\ shouldFund(p, alloc) = "no"),
           r = "gaveUp" => open
    PROVE  Funding!Next
<1>1. \A q \in Parties \ {p} : Outcome(q)' = Outcome(q)
  BY DEF Outcome
<1>2. Outcome(p) = "working"
  BY DEF Outcome, Running
<1>3. [q \in Parties |-> Outcome(q)]' = [[q \in Parties |-> Outcome(q)] EXCEPT ![p] = r]
  BY <1>1
<1>4. Funding!End(p, r)
  BY <1>2, <1>3 DEF Funding!End, chainVars, alloc, Free
<1> QED
  BY <1>4 DEF Funding!Next

\* A step of the network leaves all outcomes alone.
LEMMA SameOutcomes ==
    ASSUME UNCHANGED <<pc, ret, iter>>
    PROVE  UNCHANGED [q \in Parties |-> Outcome(q)]
BY DEF Outcome

\* Executing an Open is Open of ChannelFunding, by a party that is not settled.
LEMMA Opens ==
    ASSUME NEW p \in Parties, ret[p] # "nil", OpenAccepted, ExecuteOpen(Free),
           UNCHANGED <<req, pc, ret, iter>>
    PROVE  Funding!Next
<1>1. ~Funding!Settled(p)
  BY DEF Funding!Settled, Outcome
<1>2. Funding!Open(p)
  BY <1>1, SameOutcomes DEF Funding!Open, OpenAccepted, ExecuteOpen, alloc, Free
<1> QED
  BY <1>2 DEF Funding!Next

\* Executing a Fund for a party without a deposit is Deposit of ChannelFunding.
LEMMA Deposits ==
    ASSUME NEW p \in Parties, ret[p] # "nil", p \notin funded, FundAccepted(p),
           ExecuteFund(p), UNCHANGED <<req, pc, ret, iter>>
    PROVE  Funding!Next
<1>1. ~Funding!Settled(p)
  BY DEF Funding!Settled, Outcome
<1>2. Funding!Deposit(p)
  BY <1>1, SameOutcomes DEF Funding!Deposit, FundAccepted, ExecuteFund, alloc, Free
<1> QED
  BY <1>2 DEF Funding!Next

\* A call of Fund is Start of ChannelFunding.
LEMMA Starts ==
    ASSUME TypeOK, ResultInv, NEW p \in Parties, Call(p)
    PROVE  Funding!Next
<1>1. \A q \in Parties \ {p} : Outcome(q)' = Outcome(q)
  BY DEF Outcome, Call, TypeOK
<1>2. Outcome(p) \in {"notCalled", "failed"}
  BY DEF Outcome, Call, Running, ResultInv
<1>3. Outcome(p)' = "working"
  BY DEF Outcome, Call, Running, TypeOK
<1>4. [q \in Parties |-> Outcome(q)]' =
          [[q \in Parties |-> Outcome(q)] EXCEPT ![p] = "working"]
  BY <1>1, <1>3
<1>5. Funding!Start(p)
  BY <1>2, <1>4 DEF Funding!Start, Call, alloc, Free
<1> QED
  BY <1>5 DEF Funding!Next


-----------------------------------------------------------------------------
\* Every step of the system is a step of ChannelFunding or a stutter.
LEMMA StepRefines ==
    ASSUME ~RetryInFlight, IInv, NEW p \in Parties, PartyStep(p)
    PROVE  Funding!Next \/ UNCHANGED Funding!vars
<1>0. TypeOK /\ OpenInv /\ ResultInv /\ SoleInv
  BY DEF IInv, TypeInv
<1> USE <1>0 DEF TypeOK, ChannelFound
<1>1. CASE Call(p)
  BY <1>1, Starts
<1>2. CASE Send(p)
  BY <1>2, Internal DEF Send, Running, chainVars
<1>3. CASE SendFails(p)
  <2>1. Outcome(p)' = "failed"
    BY <1>3 DEF SendFails, Return, Outcome, Running
  <2> QED
    BY <1>3, <2>1, Ends DEF SendFails, Return, Running, PCs, chainVars
<1>4. CASE OpenConfirmed(p)
  BY <1>4, Internal DEF OpenConfirmed, Running, chainVars
<1>5. CASE FundConfirmed(p)
  <2>1. CASE Goto(p, "balance") /\ UNCHANGED iter
    BY <1>5, <2>1, Internal DEF FundConfirmed, Running, chainVars
  <2>2. CASE Goto(p, "fundLoop") /\ NextIteration(p)
    BY <1>5, <2>2, Internal DEF FundConfirmed, NextIteration, Running, chainVars
  <2>3. CASE Goto(p, "panicked") /\ UNCHANGED iter
    <3>1. Outcome(p)' = "failed"
      BY <1>5, <2>3 DEF FundConfirmed, Goto, Outcome, Running, ResultInv
    <3> QED
      BY <1>5, <2>3, <3>1, Ends DEF FundConfirmed, Goto, Running, PCs, chainVars
  <2> QED
    BY <1>5, <2>1, <2>2, <2>3, Zenon DEF FundConfirmed, AfterDeposit
<1>6. CASE ConfirmFails(p)
  <2>1. Outcome(p)' = "failed"
    BY <1>6 DEF ConfirmFails, Return, Outcome, Running
  <2> QED
    BY <1>6, <2>1, Ends DEF ConfirmFails, Return, Running, PCs, chainVars
<1>7. CASE PollOpenCancelled(p)
  <2>1. Outcome(p)' = "failed"
    BY <1>7 DEF PollOpenCancelled, Return, Outcome, Running
  <2> QED
    BY <1>7, <2>1, Ends DEF PollOpenCancelled, Return, Running, PCs, chainVars
<1>8. CASE PollOpenMisses(p)
  BY <1>8, Internal DEF PollOpenMisses, Goto, NextIteration, Running, chainVars
<1>9. CASE PollOpenFinds(p)
  <2>1. CASE BothFunded
    <3>1. Outcome(p)' = "succeeded"
      BY <1>9, <2>1 DEF PollOpenFinds, Return, Outcome, Running
    <3> QED
      BY <1>9, <2>1, <3>1, Ends DEF PollOpenFinds, BothFunded, Return, Running, PCs, chainVars
  <2>2. CASE ~BothFunded
    BY <1>9, <2>2, Internal DEF PollOpenFinds, Running, chainVars
  <2> QED
    BY <2>1, <2>2
<1>10. CASE PollOpenEnds(p)
  <2>1. Outcome(p)' = "failed"
    BY <1>10 DEF PollOpenEnds, Return, Outcome, Running
  <2> QED
    BY <1>10, <2>1, Ends DEF PollOpenEnds, Return, Running, PCs, chainVars
<1>11. CASE FundLoopCancelled(p)
  <2>1. Outcome(p)' = "failed"
    BY <1>11 DEF FundLoopCancelled, AbortChannel, Return, Outcome, Running
  <2> QED
    BY <1>11, <2>1, Ends DEF FundLoopCancelled, AbortChannel, Return, Running, PCs, chainVars
<1>12. CASE FundLoopMisses(p)
  BY <1>12, Internal DEF FundLoopMisses, Goto, NextIteration, Running, chainVars
<1>13. CASE FundLoopFinds(p)
  <2>1. CASE Return(p, "nil")
    <3>1. Outcome(p)' = "succeeded"
      BY <1>13, <2>1 DEF FundLoopFinds, Goto, Return, NextIteration, Outcome, Running, ResultInv
    <3>2. funded = Parties \/ shouldFund(p, alloc) = "no"
      BY <1>13, <2>1 DEF FundLoopFinds, BothFunded, Goto, Return, Running, ResultInv
    <3> QED
      BY <1>13, <2>1, <3>1, <3>2, Ends DEF FundLoopFinds, Return, NextIteration, Running, PCs,
         chainVars
  <2>2. CASE Goto(p, "fund") /\ UNCHANGED iter
    BY <1>13, <2>2, Internal DEF FundLoopFinds, Running, chainVars
  <2>3. CASE Goto(p, "panicked") /\ UNCHANGED iter
    <3>1. Outcome(p)' = "failed"
      BY <1>13, <2>3 DEF FundLoopFinds, Goto, Outcome, Running, ResultInv
    <3> QED
      BY <1>13, <2>3, <3>1, Ends DEF FundLoopFinds, Goto, Running, PCs, chainVars
  <2>4. CASE NextIteration(p) /\ UNCHANGED <<pc, ret>>
    BY <1>13, <2>4, Internal DEF FundLoopFinds, Goto, NextIteration, Running, chainVars
  <2> QED
    BY <1>13, <2>1, <2>2, <2>3, <2>4, Zenon DEF FundLoopFinds
<1>14. CASE FundLoopEnds(p)
  <2>1. Outcome(p)' = "gaveUp"
    BY <1>14, FunderAssumption DEF FundLoopEnds, AbortChannel, Return, Outcome, Running
  <2> QED
    BY <1>14, <2>1, Ends DEF FundLoopEnds, Return, Running, PCs, chainVars, OpenInv
<1>15. CASE BalanceRead(p)
  <2>1. CASE Goto(p, "fundLoop") /\ NextIteration(p)
    BY <1>15, <2>1, Internal DEF BalanceRead, NextIteration, Running, chainVars
  <2>2. CASE Goto(p, "panicked") /\ UNCHANGED iter
    <3>1. Outcome(p)' = "failed"
      BY <1>15, <2>2 DEF BalanceRead, Goto, Outcome, Running, ResultInv
    <3> QED
      BY <1>15, <2>2, <3>1, Ends DEF BalanceRead, Goto, Running, PCs, chainVars
  <2> QED
    BY <1>15, <2>1, <2>2, Zenon DEF BalanceRead, AfterDeposit
<1>16. CASE Cancel(p)
  BY <1>16, SameOutcomes DEF Cancel, Funding!vars, alloc, Free
<1>17. CASE Crash(p)
  <2>1. Outcome(p)' = "failed"
    BY <1>17 DEF Crash, Active, Goto, Outcome, Running, ResultInv
  <2> QED
    BY <1>17, <2>1, Ends DEF Crash, Active, Goto, Running, PCs, chainVars
<1>18. CASE FinalizeOpen(p)
  <2>1. CASE OpenAccepted
    BY <1>18, <2>1, Opens DEF FinalizeOpen, ResultInv
  <2>2. CASE ~OpenAccepted
    BY <1>18, <2>2, SameOutcomes DEF FinalizeOpen, chainVars, Funding!vars, alloc, Free
  <2> QED
    BY <2>1, <2>2
<1>19. CASE FinalizeFund(p)
  <2>1. CASE FundAccepted(p)
    BY <1>19, <2>1, Deposits DEF FinalizeFund, ResultInv, SoleInv, Depositing, InFlight
  <2>2. CASE ~FundAccepted(p)
    BY <1>19, <2>2, SameOutcomes DEF FinalizeFund, chainVars, Funding!vars, alloc, Free
  <2> QED
    BY <2>1, <2>2
<1>20. CASE SettleLateFund(p)
  <2>1. CASE FundAccepted(p) /\ ExecuteFund(p)
    BY <1>20, <2>1, Deposits DEF SettleLateFund, SoleInv
  <2>2. CASE UNCHANGED chainVars
    BY <1>20, <2>2, SameOutcomes DEF SettleLateFund, chainVars, Funding!vars, alloc, Free
  <2> QED
    BY <1>20, <2>1, <2>2 DEF SettleLateFund
<1>21. CASE SettleLateOpen
  <2>1. CASE OpenAccepted /\ ExecuteOpen(Free)
    <3>1. 0 \in Parties /\ ret[0] # "nil"
      BY <1>21 DEF SettleLateOpen, SoleInv, Parties
    <3> QED
      BY <1>21, <2>1, <3>1, Opens DEF SettleLateOpen
  <2>2. CASE UNCHANGED chainVars
    BY <1>21, <2>2, SameOutcomes DEF SettleLateOpen, chainVars, Funding!vars, alloc, Free
  <2> QED
    BY <1>21, <2>1, <2>2 DEF SettleLateOpen
<1> QED
  BY <1>1, <1>2, <1>3, <1>4, <1>5, <1>6, <1>7, <1>8, <1>9, <1>10, <1>11, <1>12, <1>13,
     <1>14, <1>15, <1>16, <1>17, <1>18, <1>19, <1>20, <1>21 DEF PartyStep, Step

\* An initial state of Funder is one of ChannelFunding.
LEMMA InitRefines == Init => Funding!Init
<1> SUFFICES ASSUME Init PROVE Funding!Init
  OBVIOUS
<1>1. [q \in Parties |-> Outcome(q)] = [q \in Parties |-> "notCalled"]
  BY DEF Init, Outcome
<1> QED
  BY <1>1 DEF Init, ChainInit, Funding!Init, Free

\* The next-state relation of Funder implements that of ChannelFunding.
LEMMA NextRefines ==
    ASSUME ~RetryInFlight
    PROVE  IInv /\ [Next]_vars => [Funding!Next]_Funding!vars
<1> SUFFICES ASSUME IInv, [Next]_vars PROVE Funding!Next \/ UNCHANGED Funding!vars
  BY DEF Funding!vars
<1>1. CASE \E p \in Parties : PartyStep(p)
  BY <1>1, StepRefines
<1>2. CASE UNCHANGED vars
  BY <1>2, SameOutcomes DEF vars, Funding!vars, alloc, Free
<1>3. Next => \E p \in Parties : PartyStep(p)
  BY DEF Next, PartyStep, Parties
<1> QED
  BY <1>1, <1>2, <1>3

\* The two Fund calls, with all their transactions, failures and retries, do
\* nothing that ChannelFunding does not allow.
THEOREM Implements ==
    ASSUME ~RetryInFlight
    PROVE  Spec => FundingSpec
<1> QED
  BY Inductive, InitRefines, NextRefines, PTL DEF Spec, FundingSpec, Funding!Spec


=============================================================================
