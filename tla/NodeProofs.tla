----------------------------- MODULE NodeProofs -----------------------------
(***************************************************************************)
(* Proofs about Node: Fund on the real backend behaves as Funder says, and *)
(* the two agree on what became of every transaction.  For every set of    *)
(* requests, every number of calls, every program, and any number of other *)
(* goroutines that share the backend.                                      *)
(***************************************************************************)
EXTENDS Node, RefinementProofs, FiniteSetTheorems

-----------------------------------------------------------------------------
\* Every step of the node is a step of Funder, or one that Fund does not see

\* A step that the environment of Fund takes, or the other party.
LEMMA PeerRefines == Peer => Next
<1>1. 1 - Me \in Parties
  BY NodeAssumption DEF Parties
<1> QED
  BY <1>1 DEF Peer, Next

\* Whatever the node does, Fund does what Funder allows.
LEMMA NodeRefines == [NodeNext]_nvars => [Next]_vars
<1> SUFFICES ASSUME [NodeNext]_nvars PROVE Next \/ UNCHANGED vars
  OBVIOUS
<1> USE NodeAssumption
<1>1. CASE Works
  BY <1>1 DEF Works, BackendBegins, AssetsRefused, BackendSends, BackendWorks, BackendReturns,
              LoopEnds, Poll, Next, Step
<1>2. CASE Poll
  BY <1>2 DEF Poll, Next, Step
<1>3. CASE WebsocketBreaks \/ FundCalled \/ FundCancelled
  BY <1>3 DEF WebsocketBreaks, FundCalled, FundCancelled, Next
<1>4. CASE Finalized
  BY <1>4 DEF Finalized, AwaitedFinalized, LateFinalized, OtherFinalized, Next
<1>5. CASE Peer
  BY <1>5, PeerRefines
<1>6. CASE Time \/ \E o \in Others : OtherCall(o)
  BY <1>6 DEF Time, OtherCall
<1>7. CASE UNCHANGED nvars
  BY <1>7 DEF nvars
<1> QED
  BY <1>1, <1>2, <1>3, <1>4, <1>5, <1>6, <1>7 DEF NodeNext

\* Fund on the real backend does nothing that Funder does not: the safety part of
\* FunderSpec, and with it every theorem about Funder.
THEOREM RefinesFunder == NodeSpec => Spec
<1>1. NodeInit => Init
  BY DEF NodeInit
<1> QED
  BY <1>1, NodeRefines, PTL DEF NodeSpec, Spec

-----------------------------------------------------------------------------
\* The fate of a transaction

BackendTypeOK ==
    /\ bpc \in [Callers -> B!PCs]
    /\ bresult \in [Callers -> {"none", "ok", "err", "stale", "panic"}]
    /\ btx \in [Callers -> {"unsent", "inflight", "executed", "rejected", "expired"}]

\* A call has sent nothing before it sends, and says "ok" of what has been executed.
BackendInv ==
    /\ BackendTypeOK
    /\ \A c \in Callers :
        /\ bpc[c] \in {"idle", "blockhash", "lock", "connect", "send"} => btx[c] = "unsent"
        /\ bresult[c] = "ok" => btx[c] = "executed"

Executed(kind) == {c \in Own : c[1] = kind /\ btx[c] = "executed"}

\* At most one Fund transaction is executed.
ExecutedOnce == \A c, d \in Executed("fund") : c = d

\* The two sides agree: an Open that has been executed has made the channel, and
\* every Fund that has been executed has taken the party's share.
FateInv ==
    /\ Executed("open") # {} => open
    /\ deposits[Me] = Cardinality(Executed("fund"))
    /\ \A p \in Parties : deposits[p] > 0 => p \in funded

\* A Fund that runs, or has run, has been called.
CalledInv == \A p \in Parties : pc[p] # "idle" => calls[p] \in 1..MaxCalls

JointInv == IInv /\ CalledInv /\ BackendInv /\ FateInv

\* There are finitely many calls of the backend that Fund makes.
LEMMA OwnFinite == IsFiniteSet(Own) /\ \A S \in SUBSET Own : IsFiniteSet(S)
<1>1. IsFiniteSet({"open", "fund"}) /\ IsFiniteSet(1..MaxCalls)
  <2>1. IsFiniteSet({"open"} \cup {"fund"})
    BY FS_Singleton, FS_Union
  <2>2. {"open", "fund"} = {"open"} \cup {"fund"}
    OBVIOUS
  <2> QED
    BY <2>1, <2>2, FS_Interval, FunderAssumption
<1>2. IsFiniteSet(Own)
  BY <1>1, FS_Product DEF Own
<1> QED
  BY <1>2, FS_Subset

\* A step of a call: what it does to that call, and that it does nothing to others.
MovesCall(c) ==
    /\ \A d \in Callers \ {c} : bpc'[d] = bpc[d] /\ bresult'[d] = bresult[d] /\ btx'[d] = btx[d]
    /\ btx'[c] \in {btx[c], "inflight"}
    /\ btx'[c] # btx[c] => bpc[c] = "send"

\* A step of a call executes nothing by itself, and keeps what holds of the backend.
LEMMA CallStep ==
    ASSUME BackendInv, NEW c \in Callers, B!Begin(c) \/ B!Step(c) \/ B!WatchFails(c)
    PROVE  BackendInv' /\ MovesCall(c)
<1> USE DEF BackendInv, BackendTypeOK, MovesCall, B!PCs, B!Holding, B!Goto, B!End
<1>1. CASE B!Begin(c)
  BY <1>1 DEF B!Begin
<1>2. CASE B!Prepared(c) \/ B!PrepareFails(c)
  BY <1>2 DEF B!Prepared, B!PrepareFails
<1>3. CASE B!Lock(c)
  BY <1>3 DEF B!Lock
<1>4. CASE B!Connected(c) \/ B!ConnectFails(c)
  BY <1>4 DEF B!Connected, B!ConnectFails
<1>5. CASE B!Sent(c)
  BY <1>5 DEF B!Sent
<1>6. CASE B!SentUnanswered(c)
  BY <1>6 DEF B!SentUnanswered
<1>7. CASE B!NotSent(c)
  BY <1>7 DEF B!NotSent
<1>8. CASE B!Notified(c)
  BY <1>8 DEF B!Notified
<1>9. CASE B!TimedOut(c) \/ B!WatchFails(c)
  BY <1>9 DEF B!TimedOut, B!WatchFails
<1> QED
  BY <1>1, <1>2, <1>3, <1>4, <1>5, <1>6, <1>7, <1>8, <1>9 DEF B!Step

\* So the transactions that have been executed stay the same.
LEMMA CallExecutesNothing ==
    ASSUME BackendInv, NEW c \in Callers, B!Begin(c) \/ B!Step(c) \/ B!WatchFails(c)
    PROVE  \A kind : Executed(kind)' = Executed(kind)
<1>1. \A d \in Callers : btx'[d] = "executed" <=> btx[d] = "executed"
  BY CallStep DEF MovesCall, BackendInv
<1> QED
  BY <1>1 DEF Executed, Callers

\* The end of a transaction that was in flight.
LEMMA FinalizeStep ==
    ASSUME BackendInv, NEW c \in Callers, B!Finalize(c)
    PROVE  /\ BackendInv'
           /\ btx[c] = "inflight" /\ \A d \in Callers \ {c} : btx'[d] = btx[d]
BY DEF B!Finalize, BackendInv, BackendTypeOK, B!PCs, B!Holding

-----------------------------------------------------------------------------
\* The joint invariant

\* Only a call of Fund leaves the label "idle".
LEMMA CalledStep ==
    ASSUME IInv, CalledInv, NEW p \in Parties, PartyStep(p)
    PROVE  CalledInv'
<1> USE FunderAssumption DEF IInv, TypeInv, TypeOK, CalledInv, Goto, Return, Active, Running
<1>1. CASE Call(p)
  <2>1. calls'[p] \in 1..MaxCalls
    BY <1>1 DEF Call
  <2> QED
    BY <1>1, <2>1 DEF Call
<1>2. CASE Send(p) \/ SendFails(p) \/ OpenConfirmed(p) \/ ConfirmFails(p)
  BY <1>2 DEF Send, SendFails, OpenConfirmed, ConfirmFails
<1>3. CASE FundConfirmed(p) \/ BalanceRead(p)
  <2>1. pc[p] # "idle" /\ UNCHANGED calls
    BY <1>3 DEF FundConfirmed, BalanceRead
  <2>2. \A d \in Parties \ {p} : pc'[d] = pc[d]
    BY <1>3 DEF FundConfirmed, BalanceRead, AfterDeposit
  <2> QED
    BY <2>1, <2>2
<1>4. CASE PollOpenCancelled(p) \/ PollOpenMisses(p) \/ PollOpenFinds(p) \/ PollOpenEnds(p)
  BY <1>4 DEF PollOpenCancelled, PollOpenMisses, PollOpenFinds, PollOpenEnds
<1>5. CASE FundLoopCancelled(p) \/ FundLoopMisses(p) \/ FundLoopEnds(p)
  BY <1>5 DEF FundLoopCancelled, FundLoopMisses, FundLoopEnds
<1>6. CASE FundLoopFinds(p)
  BY <1>6 DEF FundLoopFinds
<1>7. CASE Cancel(p) \/ Crash(p)
  BY <1>7 DEF Cancel, Crash
<1>8. CASE FinalizeOpen(p) \/ FinalizeFund(p) \/ SettleLateFund(p) \/ SettleLateOpen
  BY <1>8 DEF FinalizeOpen, FinalizeFund, SettleLateFund, SettleLateOpen
<1> QED
  BY <1>1, <1>2, <1>3, <1>4, <1>5, <1>6, <1>7, <1>8 DEF PartyStep, Step

\* What holds of Funder alone holds of the Funder in a node.
LEMMA FunderPart ==
    ASSUME IInv, CalledInv, [NodeNext]_nvars
    PROVE  IInv' /\ CalledInv'
<1>1. [Next]_vars
  BY NodeRefines
<1>2. IInv'
  BY <1>1, NextKeepsIInv
<1>3. CASE UNCHANGED vars
  BY <1>2, <1>3 DEF vars, CalledInv
<1>4. CASE Next
  <2>1. \E p \in Parties : PartyStep(p)
    BY <1>4 DEF Next, PartyStep, Parties
  <2> QED
    BY <1>2, <2>1, CalledStep
<1> QED
  BY <1>1, <1>2, <1>3, <1>4

\* A Fund that runs is in a call of the backend that is its own.
LEMMA MineIsOwn ==
    ASSUME IInv, CalledInv, pc[Me] # "idle"
    PROVE  Mine \in Own /\ Mine \in Callers
BY NodeAssumption DEF CalledInv, Mine, Own, Callers

\* The program takes the shares one by one, and only those of an open channel.
LEMMA ChainStep ==
    ASSUME IInv, FateInv, NEW p \in Parties,
           \/ UNCHANGED chainVars
           \/ OpenAccepted /\ ExecuteOpen(Free)
           \/ FundAccepted(p) /\ ExecuteFund(p)
    PROVE  /\ open => open'
           /\ \A d \in Parties : deposits'[d] > 0 => d \in funded'
<1> USE DEF IInv, TypeInv, TypeOK, ChainTypeOK, OpenInv, FateInv
<1>1. CASE UNCHANGED chainVars
  BY <1>1 DEF chainVars
<1>2. CASE OpenAccepted /\ ExecuteOpen(Free)
  BY <1>2 DEF OpenAccepted, ExecuteOpen
<1>3. CASE FundAccepted(p) /\ ExecuteFund(p)
  BY <1>3 DEF FundAccepted, ExecuteFund
<1> QED
  BY <1>1, <1>2, <1>3

\* A step that executes nothing of Fund's, and takes no share of the party.
LEMMA NothingExecuted ==
    ASSUME IInv, FateInv, NEW p \in Parties,
           \A kind : Executed(kind)' = Executed(kind),
           \/ UNCHANGED chainVars
           \/ OpenAccepted /\ ExecuteOpen(Free)
           \/ p # Me /\ FundAccepted(p) /\ ExecuteFund(p)
    PROVE  FateInv'
<1>1. deposits'[Me] = deposits[Me]
  BY NodeAssumption DEF IInv, TypeInv, TypeOK, ChainTypeOK, chainVars, ExecuteOpen, ExecuteFund
<1> QED
  BY <1>1, ChainStep DEF FateInv

\* An Open of Fund's is executed: the channel is open then.
LEMMA OpenExecuted ==
    ASSUME IInv, FateInv, UNCHANGED chainVars \/ (OpenAccepted /\ ExecuteOpen(Free)), open',
           Executed("fund")' = Executed("fund")
    PROVE  FateInv'
<1>1. deposits' = deposits
  BY DEF chainVars, ExecuteOpen
<1> QED
  BY <1>1, ChainStep DEF FateInv, Parties

\* A Fund of Fund's is executed: one more has been, and one more share taken.
LEMMA FundExecuted ==
    ASSUME IInv, FateInv, NEW c \in Own, c[1] = "fund", btx[c] # "executed", btx'[c] = "executed",
           \A d \in Callers \ {c} : btx'[d] = btx[d],
           FundAccepted(Me), ExecuteFund(Me)
    PROVE  FateInv'
<1>1. Executed("fund")' = Executed("fund") \cup {c} /\ c \notin Executed("fund")
  BY DEF Executed, Callers
<1>2. Executed("open")' = Executed("open")
  BY DEF Executed, Callers
<1>3. Cardinality(Executed("fund")') = Cardinality(Executed("fund")) + 1
  <2>1. IsFiniteSet(Executed("fund"))
    BY OwnFinite DEF Executed
  <2> QED
    BY <1>1, <2>1, FS_AddElement
<1>4. deposits'[Me] = deposits[Me] + 1
  BY NodeAssumption DEF IInv, TypeInv, TypeOK, ChainTypeOK, ExecuteFund
<1> QED
  BY <1>2, <1>3, <1>4, ChainStep, NodeAssumption DEF FateInv

\* Every step of the node keeps the two sides in agreement.
LEMMA JointStep ==
    ASSUME JointInv, [NodeNext]_nvars
    PROVE  BackendInv' /\ FateInv'
<1>0. IInv /\ CalledInv /\ BackendInv /\ FateInv /\ TypeOK
  BY DEF JointInv, IInv, TypeInv
<1> USE <1>0, NodeAssumption
<1>1. ASSUME UNCHANGED <<bpc, bresult, btx>>
      PROVE  BackendInv' /\ \A kind : Executed(kind)' = Executed(kind)
  BY <1>1 DEF BackendInv, BackendTypeOK, Executed
<1>2. ASSUME UNCHANGED chainVars, NEW c \in Callers, B!Begin(c) \/ B!Step(c) \/ B!WatchFails(c)
      PROVE  BackendInv' /\ FateInv'
  BY <1>2, CallStep, CallExecutesNothing, NothingExecuted
<1>3. ASSUME UNCHANGED chainVars, UNCHANGED <<bpc, bresult, btx>>
      PROVE  BackendInv' /\ FateInv'
  BY <1>1, <1>3, NothingExecuted
<1>4. pc[Me] # "idle" => Mine \in Callers /\ Mine \in Own
  BY MineIsOwn
<1>5. CASE BackendBegins \/ BackendWorks \/ WebsocketBreaks
  BY <1>2, <1>4, <1>5 DEF BackendBegins, BackendWorks, WebsocketBreaks, B!Step, vars, chainVars
<1>6. CASE BackendSends
  BY <1>2, <1>4, <1>6 DEF BackendSends, B!Step, Send, chainVars
<1>7. CASE AssetsRefused \/ BackendReturns
  BY <1>3, <1>7 DEF AssetsRefused, BackendReturns, bvars, chainVars, SendFails, OpenConfirmed,
                    FundConfirmed, ConfirmFails
<1>8. CASE Poll \/ LoopEnds
  BY <1>3, <1>8 DEF Poll, LoopEnds, bvars, chainVars, PollOpenMisses, PollOpenFinds, FundLoopMisses,
                    FundLoopFinds, BalanceRead, PollOpenCancelled, PollOpenEnds,
                    FundLoopCancelled, FundLoopEnds
<1>9. CASE FundCalled \/ FundCancelled
  BY <1>3, <1>9 DEF FundCalled, FundCancelled, bvars, chainVars, Call, Cancel
<1>10. CASE AwaitedFinalized
  <2>1. Mine \in Own /\ Mine \in Callers /\ B!Finalize(Mine)
    BY <1>4, <1>10 DEF AwaitedFinalized
  <2>2. BackendInv' /\ btx[Mine] = "inflight" /\ \A d \in Callers \ {Mine} : btx'[d] = btx[d]
    BY <2>1, FinalizeStep
  <2>3. btx'[Mine] = IF tx' = tx THEN "expired" ELSE tx'[Me]
    BY <1>10 DEF AwaitedFinalized
  <2>4. btx'[Mine] # "executed" => \A kind : Executed(kind)' = Executed(kind)
    BY <2>1, <2>2 DEF Executed, Callers
  <2>5. CASE FinalizeOpen(Me) /\ OpenAccepted
    <3>1. Mine[1] = "open" /\ open' /\ OpenAccepted /\ ExecuteOpen(Free)
      BY <2>5 DEF FinalizeOpen, Mine, ExecuteOpen
    <3>2. Executed("fund")' = Executed("fund")
      BY <2>2, <3>1 DEF Executed, Callers
    <3> QED
      BY <2>2, <3>1, <3>2, OpenExecuted
  <2>6. CASE FinalizeFund(Me) /\ FundAccepted(Me)
    <3>1. Mine[1] = "fund" /\ FundAccepted(Me) /\ ExecuteFund(Me)
      BY <2>6 DEF FinalizeFund, Mine
    <3>2. tx'[Me] = "executed" /\ tx' # tx
      BY <1>10, <2>6 DEF AwaitedFinalized, FinalizeFund, TypeOK
    <3> QED
      BY <2>1, <2>2, <2>3, <3>1, <3>2, FundExecuted
  <2>7. CASE (FinalizeOpen(Me) /\ ~OpenAccepted) \/ (FinalizeFund(Me) /\ ~FundAccepted(Me))
    <3>1. UNCHANGED chainVars /\ tx'[Me] = "rejected"
      BY <2>7 DEF FinalizeOpen, FinalizeFund, TypeOK
    <3> QED
      BY <2>2, <2>3, <2>4, <3>1, NothingExecuted
  <2>8. CASE UNCHANGED vars
    BY <2>2, <2>3, <2>4, <2>8, NothingExecuted DEF vars, chainVars
  <2> QED
    BY <1>10, <2>5, <2>6, <2>7, <2>8 DEF AwaitedFinalized
<1>11. CASE LateFinalized
  <2>1. PICK c \in Own :
            /\ IF c[1] = "open" THEN SettleLateOpen ELSE SettleLateFund(Me)
            /\ B!Finalize(c)
            /\ (btx'[c] = "executed") = (open' # open \/ deposits' # deposits)
    BY <1>11 DEF LateFinalized
  <2>2. BackendInv' /\ btx[c] = "inflight" /\ \A d \in Callers \ {c} : btx'[d] = btx[d]
    BY <2>1, FinalizeStep DEF Callers
  <2>3. CASE UNCHANGED chainVars
    <3>1. btx'[c] # "executed"
      BY <2>1, <2>3 DEF chainVars
    <3>2. \A kind : Executed(kind)' = Executed(kind)
      BY <2>2, <3>1 DEF Executed, Callers
    <3> QED
      BY <2>2, <2>3, <3>2, NothingExecuted
  <2>4. CASE c[1] = "open" /\ OpenAccepted /\ ExecuteOpen(Free)
    <3>1. Executed("fund")' = Executed("fund")
      BY <2>2, <2>4 DEF Executed, Callers
    <3> QED
      BY <2>2, <2>4, <3>1, OpenExecuted DEF ExecuteOpen
  <2>5. CASE c[1] # "open" /\ FundAccepted(Me) /\ ExecuteFund(Me)
    <3>1. c[1] = "fund"
      BY <2>5 DEF Own
    <3>2. deposits' # deposits
      BY <2>5 DEF ExecuteFund, TypeOK, ChainTypeOK
    <3> QED
      BY <2>1, <2>2, <2>5, <3>1, <3>2, FundExecuted
  <2> QED
    BY <2>1, <2>3, <2>4, <2>5 DEF SettleLateOpen, SettleLateFund
<1>12. CASE Peer
  <2>1. 1 - Me \in Parties /\ 1 - Me # Me
    BY DEF Parties
  <2>2. \/ UNCHANGED chainVars
        \/ OpenAccepted /\ ExecuteOpen(Free)
        \/ FundAccepted(1 - Me) /\ ExecuteFund(1 - Me)
    BY <1>12 DEF Peer, Step, Call, Send, SendFails, OpenConfirmed, FundConfirmed, ConfirmFails,
                 PollOpenCancelled, PollOpenMisses, PollOpenFinds, PollOpenEnds,
                 FundLoopCancelled, FundLoopMisses, FundLoopFinds, FundLoopEnds, BalanceRead,
                 FinalizeOpen, FinalizeFund, SettleLateFund, SettleLateOpen, chainVars
  <2> QED
    BY <1>1, <1>12, <2>1, <2>2, NothingExecuted DEF Peer, bvars
<1>13. CASE \E o \in Others : OtherCall(o)
  BY <1>2, <1>13 DEF OtherCall, Callers, vars, chainVars
<1>14. CASE \E o \in Others : OtherFinalized(o)
  <2>1. PICK o \in Others : UNCHANGED vars /\ B!Finalize(o)
    BY <1>14 DEF OtherFinalized
  <2>2. BackendInv' /\ \A d \in Own : btx'[d] = btx[d]
    BY <2>1, FinalizeStep, OthersAssumption DEF Callers
  <2>3. \A kind : Executed(kind)' = Executed(kind)
    BY <2>2 DEF Executed
  <2> QED
    BY <2>1, <2>2, <2>3, NothingExecuted DEF vars, chainVars
<1>15. CASE Time \/ UNCHANGED nvars
  BY <1>3, <1>15 DEF Time, B!Tick, nvars, bvars, vars, chainVars
<1> QED
  BY <1>5, <1>6, <1>7, <1>8, <1>9, <1>10, <1>11, <1>12, <1>13, <1>14, <1>15
     DEF NodeNext, Works, Finalized

-----------------------------------------------------------------------------
\* What is in flight

\* Fund's transactions in flight are those of its last call, and Funder knows of them.
FlightInv ==
    \A c \in Own : btx[c] = "inflight" =>
        /\ c[2] = calls[Me]
        /\ c[1] = "fund" => lateFund[Me] > 0 \/ InFlight(Me)
        /\ c[1] = "open" => Me = 0 /\ (lateOpen > 0 \/ (pc[Me] = "openWait" /\ tx[Me] = "inflight"))

\* The flight of each transaction is ended where Funder takes it to be.
LEMMA FlightStep ==
    ASSUME ~RetryInFlight, JointInv, FlightInv, [NodeNext]_nvars
    PROVE  FlightInv'
<1>0. IInv /\ CalledInv /\ BackendInv /\ SoleInv /\ TypeOK
  BY DEF JointInv, IInv, TypeInv
<1> USE <1>0, NodeAssumption DEF TypeOK, ChainTypeOK, InFlight
<1>1. ASSUME UNCHANGED vars, NEW c \in Callers, B!Begin(c) \/ B!Step(c) \/ B!WatchFails(c),
             bpc[c] # "send" \/ UNCHANGED btx
      PROVE  FlightInv'
  <2>1. \A d \in Callers : btx'[d] = btx[d]
    BY <1>1, CallStep DEF MovesCall
  <2> QED
    BY <1>1, <2>1 DEF FlightInv, Callers, vars
<1>2. pc[Me] # "idle" => Mine \in Callers /\ Mine \in Own
  BY MineIsOwn
<1>3. CASE BackendBegins \/ BackendWorks \/ WebsocketBreaks
  BY <1>1, <1>2, <1>3
     DEF BackendBegins, BackendWorks, WebsocketBreaks, B!Step, B!Begin, B!Prepared,
         B!PrepareFails, B!Lock, B!Connected, B!ConnectFails, B!NotSent, B!Notified, B!TimedOut,
         B!WatchFails
<1>4. CASE BackendSends
  <2>1. \A d \in Own \ {Mine} : btx'[d] = btx[d]
    BY <1>2, <1>4, CallStep DEF BackendSends, B!Step, MovesCall, Callers
  <2>2. SUFFICES ASSUME NEW c \in Own, btx'[c] = "inflight"
                 PROVE  /\ c[2] = calls'[Me]
                        /\ c[1] = "fund" => lateFund'[Me] > 0 \/ InFlight(Me)'
                        /\ c[1] = "open" =>
                              /\ Me = 0
                              /\ lateOpen' > 0 \/ (pc'[Me] = "openWait" /\ tx'[Me] = "inflight")
    BY DEF FlightInv
  <2>3. Send(Me)
    BY <1>4 DEF BackendSends
  <2>4. CASE c = Mine
    BY <2>3, <2>4 DEF Mine, Send, Goto, SoleInv, PCs, Running
  <2>5. CASE c # Mine
    BY <2>1, <2>2, <2>3, <2>5 DEF FlightInv, Send, Goto
  <2> QED
    BY <2>4, <2>5
<1>5. CASE AssetsRefused \/ BackendReturns
  <2>1. SendFails(Me) \/ OpenConfirmed(Me) \/ FundConfirmed(Me) \/ ConfirmFails(Me)
    BY <1>5 DEF AssetsRefused, BackendReturns
  <2>2. UNCHANGED <<btx, calls>>
    BY <1>5, <2>1 DEF AssetsRefused, BackendReturns, bvars, SendFails, OpenConfirmed,
                      FundConfirmed, ConfirmFails
  <2>3. CASE SendFails(Me) \/ OpenConfirmed(Me) \/ FundConfirmed(Me)
    BY <2>2, <2>3 DEF FlightInv, SendFails, OpenConfirmed, FundConfirmed
  <2>4. CASE ConfirmFails(Me)
    BY <2>2, <2>4 DEF FlightInv, ConfirmFails, AbandonTx, Return, SoleInv
  <2> QED
    BY <2>1, <2>3, <2>4
<1>6. CASE Poll \/ LoopEnds
  <2>1. pc[Me] \notin {"openWait", "fundWait"} /\ UNCHANGED <<btx, calls, lateOpen, lateFund>>
    BY <1>6 DEF Poll, LoopEnds, bvars, PollOpenMisses, PollOpenFinds, FundLoopMisses,
                FundLoopFinds, BalanceRead, PollOpenCancelled, PollOpenEnds,
                FundLoopCancelled, FundLoopEnds
  <2> QED
    BY <2>1 DEF FlightInv
<1>7. CASE FundCalled
  <2>1. lateFund[Me] = 0 /\ (Me = 0 => lateOpen = 0) /\ pc[Me] \notin {"openWait", "fundWait"}
    BY <1>7 DEF FundCalled, Call
  <2>2. UNCHANGED btx
    BY <1>7 DEF FundCalled, bvars
  <2>3. \A c \in Own : c[1] \in {"open", "fund"}
    BY DEF Own
  <2>4. \A c \in Own : btx[c] # "inflight"
    BY <2>1, <2>3 DEF FlightInv
  <2> QED
    BY <2>2, <2>4 DEF FlightInv
<1>8. CASE FundCancelled \/ Time \/ UNCHANGED nvars
  BY <1>8 DEF FundCancelled, Cancel, Time, B!Tick, nvars, bvars, vars, FlightInv
<1>9. CASE AwaitedFinalized
  <2>1. \A d \in Own \ {Mine} : btx'[d] = btx[d]
    BY <1>2, <1>9, FinalizeStep DEF AwaitedFinalized, Callers
  <2>2. UNCHANGED <<pc, calls, lateFund, lateOpen>>
    BY <1>9 DEF AwaitedFinalized, FinalizeOpen, FinalizeFund, vars
  <2>3. btx'[Mine] # "inflight"
    BY <1>9, <1>2 DEF AwaitedFinalized, B!Finalize, BackendInv, BackendTypeOK
  <2>4. SUFFICES ASSUME NEW c \in Own, btx'[c] = "inflight"
                 PROVE  /\ c[2] = calls'[Me]
                        /\ c[1] = "fund" => lateFund'[Me] > 0 \/ InFlight(Me)'
                        /\ c[1] = "open" =>
                              /\ Me = 0
                              /\ lateOpen' > 0 \/ (pc'[Me] = "openWait" /\ tx'[Me] = "inflight")
    BY DEF FlightInv
  <2>5. c # Mine /\ btx[c] = "inflight" /\ c[2] = calls[Me]
    BY <2>1, <2>3, <2>4 DEF FlightInv
  <2>6. c[1] # Mine[1]
    BY <2>5 DEF Own, Mine
  <2> QED
    BY <1>9, <2>2, <2>5, <2>6 DEF FlightInv, AwaitedFinalized, Mine
<1>10. CASE LateFinalized
  <2>1. PICK c \in Own : /\ IF c[1] = "open" THEN SettleLateOpen ELSE SettleLateFund(Me)
                         /\ B!Finalize(c)
    BY <1>10 DEF LateFinalized
  <2>2. btx'[c] # "inflight" /\ btx[c] = "inflight" /\ \A d \in Own \ {c} : btx'[d] = btx[d]
    BY <2>1, FinalizeStep DEF B!Finalize, BackendInv, BackendTypeOK, Callers
  <2>3. SUFFICES ASSUME NEW d \in Own, btx'[d] = "inflight"
                 PROVE  /\ d[2] = calls'[Me]
                        /\ d[1] = "fund" => lateFund'[Me] > 0 \/ InFlight(Me)'
                        /\ d[1] = "open" =>
                              /\ Me = 0
                              /\ lateOpen' > 0 \/ (pc'[Me] = "openWait" /\ tx'[Me] = "inflight")
    BY DEF FlightInv
  <2>4. d # c /\ btx[d] = "inflight" /\ c[2] = calls[Me] /\ d[2] = calls[Me]
    BY <2>2, <2>3 DEF FlightInv
  <2>5. d[1] # c[1] /\ d[1] \in {"open", "fund"} /\ c[1] \in {"open", "fund"}
    BY <2>4 DEF Own
  <2>6. UNCHANGED <<pc, calls, tx>>
    BY <2>1 DEF SettleLateOpen, SettleLateFund
  <2> QED
    BY <2>1, <2>4, <2>5, <2>6 DEF FlightInv, SettleLateOpen, SettleLateFund
<1>11. CASE Peer
  <2>1. 1 - Me \in Parties /\ 1 - Me # Me /\ (Me = 0 => 1 - Me = 1)
    BY DEF Parties
  <2> DEFINE p == 1 - Me
  <2>2. UNCHANGED btx
    BY <1>11 DEF Peer, bvars
  <2>3. \/ Call(p) \/ Step(p) \/ BalanceRead(p)
        \/ FinalizeOpen(p) \/ FinalizeFund(p) \/ SettleLateFund(p)
        \/ Me = 1 /\ SettleLateOpen
    BY <1>11 DEF Peer, Parties
  <2> HIDE DEF p
  <2> USE DEF Goto, Return, SoleInv
  <2>4. UNCHANGED <<pc[Me], tx[Me], calls[Me], lateFund[Me]>> /\ (Me = 0 => UNCHANGED lateOpen)
    <3>1. p \in Parties /\ p # Me /\ (Me = 0 => p = 1)
      BY <2>1 DEF p
    <3>2. CASE Call(p) \/ Send(p) \/ SendFails(p) \/ OpenConfirmed(p)
      BY <3>1, <3>2 DEF Call, Send, SendFails, OpenConfirmed
    <3>3. CASE FundConfirmed(p) \/ BalanceRead(p)
      BY <3>1, <3>3 DEF FundConfirmed, BalanceRead, AfterDeposit
    <3>4. CASE ConfirmFails(p)
      BY <3>1, <3>4 DEF ConfirmFails, AbandonTx
    <3>5. CASE \/ PollOpenCancelled(p) \/ PollOpenMisses(p) \/ PollOpenFinds(p) \/ PollOpenEnds(p)
               \/ FundLoopCancelled(p) \/ FundLoopMisses(p) \/ FundLoopFinds(p) \/ FundLoopEnds(p)
      BY <3>1, <3>5 DEF PollOpenCancelled, PollOpenMisses, PollOpenFinds, PollOpenEnds,
                        FundLoopCancelled, FundLoopMisses, FundLoopFinds, FundLoopEnds
    <3>6. CASE FinalizeOpen(p) \/ FinalizeFund(p) \/ SettleLateFund(p) \/ (Me = 1 /\ SettleLateOpen)
      BY <3>1, <3>6 DEF FinalizeOpen, FinalizeFund, SettleLateFund, SettleLateOpen
    <3> QED
      BY <2>3, <3>2, <3>3, <3>4, <3>5, <3>6 DEF Step
  <2> QED
    BY <2>2, <2>4 DEF FlightInv
<1>12. CASE \E o \in Others : OtherCall(o)
  <2>1. PICK o \in Others : UNCHANGED vars /\ (B!Begin(o) \/ B!Step(o) \/ B!WatchFails(o))
    BY <1>12 DEF OtherCall
  <2>2. \A d \in Own : btx'[d] = btx[d]
    BY <2>1, CallStep, OthersAssumption DEF MovesCall, Callers
  <2> QED
    BY <2>1, <2>2 DEF FlightInv, vars
<1>13. CASE \E o \in Others : OtherFinalized(o)
  <2>1. PICK o \in Others : UNCHANGED vars /\ B!Finalize(o)
    BY <1>13 DEF OtherFinalized
  <2>2. \A d \in Own : btx'[d] = btx[d]
    BY <2>1, FinalizeStep, OthersAssumption DEF Callers
  <2> QED
    BY <2>1, <2>2 DEF FlightInv, vars
<1> QED
  BY <1>3, <1>4, <1>5, <1>6, <1>7, <1>8, <1>9, <1>10, <1>11, <1>12, <1>13
     DEF NodeNext, Works, Finalized

-----------------------------------------------------------------------------
\* The theorems

\* Nothing has been called, sent or taken.
LEMMA JointInit == NodeInit => JointInv /\ FlightInv
<1> SUFFICES ASSUME NodeInit PROVE JointInv /\ FlightInv
  OBVIOUS
<1>1. IInv
  BY InitIInv DEF NodeInit
<1>2. CalledInv /\ (\A p \in Parties : deposits[p] = 0) /\ ~open
  BY DEF NodeInit, Init, ChainInit, CalledInv
<1>3. BackendInv /\ \A c \in Callers : btx[c] = "unsent"
  BY DEF NodeInit, B!Init, BackendInv, BackendTypeOK, B!PCs
<1>4. Executed("fund") = {} /\ Executed("open") = {} /\ FlightInv
  BY <1>3 DEF Executed, FlightInv, Callers
<1>5. FateInv
  BY <1>2, <1>4, FS_EmptySet, NodeAssumption DEF FateInv
<1> QED
  BY <1>1, <1>2, <1>3, <1>4, <1>5 DEF JointInv

\* The joint invariant holds in every reachable state.
THEOREM JointInductive == NodeSpec => []JointInv
<1>1. JointInv /\ [NodeNext]_nvars => JointInv'
  BY FunderPart, JointStep DEF JointInv
<1> QED
  BY JointInit, <1>1, PTL DEF NodeSpec

\* Fund and the backend agree: "ok" means executed, and the party's share has been
\* taken as often as its Fund transactions have been executed, late ones included.
THEOREM FateAgreement == NodeSpec => []FatesAgree
<1>1. JointInv => FatesAgree
  <2> SUFFICES ASSUME JointInv PROVE FatesAgree
    OBVIOUS
  <2>1. BackendInv /\ FateInv /\ Executed("fund") \in SUBSET Own
    BY DEF JointInv, Executed
  <2>2. ASSUME NEW c \in Own, bresult[c] = "ok"
        PROVE  IF c[1] = "open" THEN open ELSE Me \in funded /\ deposits[Me] > 0
    <3>1. c \in Executed(c[1]) /\ c[1] \in {"open", "fund"}
      BY <2>1, <2>2 DEF BackendInv, Executed, Callers, Own
    <3>2. CASE c[1] = "open"
      BY <2>1, <3>1, <3>2 DEF FateInv
    <3>3. CASE c[1] = "fund"
      <4>1. Cardinality(Executed("fund")) \in Nat /\ Cardinality(Executed("fund")) # 0
        BY <2>1, <3>1, <3>3, OwnFinite, FS_CardinalityType, FS_EmptySet
      <4>2. deposits[Me] > 0
        BY <2>1, <4>1 DEF FateInv
      <4> QED
        BY <2>1, <3>3, <4>2, NodeAssumption DEF FateInv
    <3> QED
      BY <3>1, <3>2, <3>3
  <2> QED
    BY <2>1, <2>2 DEF FatesAgree, FateInv, Executed
<1> QED
  BY JointInductive, <1>1, PTL

\* When Fund has returned nil, the network has none of its transactions left.
THEOREM NothingLeft == NodeSpec => []NothingLeftInFlight
<1>1. CASE RetryInFlight
  <2>1. NothingLeftInFlight
    BY <1>1 DEF NothingLeftInFlight
  <2> QED
    BY <2>1, PTL
<1>2. CASE ~RetryInFlight
  <2>1. JointInv /\ FlightInv => NothingLeftInFlight
    <3> SUFFICES ASSUME JointInv, FlightInv, ret[Me] = "nil", NEW c \in Own
                 PROVE  btx[c] # "inflight"
      BY DEF NothingLeftInFlight
    <3>1. SoleInv /\ ResultInv
      BY <1>2 DEF JointInv, IInv
    <3>2. pc[Me] = "returned" /\ lateFund[Me] = 0 /\ (Me = 0 => lateOpen = 0)
      BY <3>1, NodeAssumption DEF SoleInv, ResultInv
    <3>3. c[1] \in {"open", "fund"}
      BY DEF Own
    <3> QED
      BY <3>2, <3>3 DEF FlightInv, InFlight
  <2>2. JointInv /\ FlightInv /\ [NodeNext]_nvars => FlightInv'
    BY <1>2, FlightStep
  <2> QED
    BY <2>1, <2>2, JointInit, JointInductive, PTL DEF NodeSpec
<1> QED
  BY <1>1, <1>2, FunderAssumption

\* At most one of the Fund transactions of the party is ever executed, however often
\* Fund is called and whatever its calls returned.
THEOREM OneExecution ==
    ASSUME ~RetryInFlight \/ RejectsRefund
    PROVE  NodeSpec => []ExecutedOnce
<1>1. JointInv => ExecutedOnce
  <2> SUFFICES ASSUME JointInv, NEW c \in Executed("fund"), NEW d \in Executed("fund")
               PROVE  c = d
    BY DEF ExecutedOnce
  <2> DEFINE S == Executed("fund")
  <2>1. IsFiniteSet(S) /\ Cardinality(S) \in Nat
    BY OwnFinite, FS_CardinalityType DEF Executed
  <2>2. Cardinality(S) <= 1
    BY NodeAssumption DEF JointInv, IInv, CountInv, FateInv
  <2>3. ASSUME c # d PROVE FALSE
    <3>1. Cardinality({c}) = 1 /\ IsFiniteSet({c})
      BY FS_Singleton
    <3>2. Cardinality({c} \cup {d}) = 2 /\ IsFiniteSet({c} \cup {d})
      BY <2>3, <3>1, FS_AddElement
    <3>3. Cardinality({c} \cup {d}) <= Cardinality(S)
      BY <2>1, FS_Subset
    <3> QED
      BY <2>1, <2>2, <3>2, <3>3
  <2> QED
    BY <2>3
<1> QED
  BY JointInductive, <1>1, PTL

-----------------------------------------------------------------------------
\* The backend of the node

\* Fund on the real backend keeps the promises of ChannelFunding, too.
THEOREM ImplementsFunding == ASSUME ~RetryInFlight PROVE NodeSpec => FundingSpec
<1> QED
  BY RefinesFunder, Implements, PTL

\* The backend of the node, with all that has been proved about a ContractBackend.
Q == INSTANCE QueueProofs WITH
    Unconfirmed <- {},
    Networks    <- {Local},
    pc      <- bpc,     result   <- bresult, mutex  <- bmutex,  rpcClient <- brpc,
    hashFrom <- bhash,  age      <- bage,    waited <- bwaited, tx        <- btx,
    sentTo  <- bsent,
    ctxDone <- [c \in Callers |-> c \in Own /\ c[2] = calls[Me] /\ cancelled[Me]]

\* It is the backend B of Node: what B does is a step of it.
LEMMA CallIsStep ==
    ASSUME NEW c \in Callers, B!Begin(c) \/ B!Step(c) \/ B!WatchFails(c) \/ B!Finalize(c)
    PROVE  Q!Next
<1>1. CASE B!Begin(c)
  <2>1. Q!Begin(c)
    BY <1>1 DEF B!Begin, B!Goto, B!GetRPCClient, Q!Begin, Q!Goto, Q!GetRPCClient
  <2> QED
    BY <2>1 DEF Q!Next
<1>2. CASE B!Step(c)
  <2>1. Q!Step(c)
    BY <1>2
       DEF B!Step, B!Goto, B!End, B!Prepared, B!PrepareFails, B!Lock, B!Connected, B!ConnectFails,
           B!Fresh, B!Sent, B!SentUnanswered, B!NotSent, B!Notified, B!TimedOut,
           Q!Step, Q!Goto, Q!End, Q!Prepared, Q!PrepareFails, Q!Lock, Q!Connected, Q!ConnectFails,
           Q!Fresh, Q!Sent, Q!SentUnanswered, Q!NotSent, Q!Notified, Q!TimedOut
  <2> QED
    BY <2>1 DEF Q!Next
<1>3. CASE B!WatchFails(c)
  <2>1. Q!WatchFails(c)
    BY <1>3 DEF B!WatchFails, B!End, Q!WatchFails, Q!End
  <2> QED
    BY <2>1 DEF Q!Next
<1>4. CASE B!Finalize(c)
  <2>1. Q!Finalize(c)
    BY <1>4 DEF B!Finalize, Q!Finalize
  <2> QED
    BY <2>1 DEF Q!Next
<1> QED
  BY <1>1, <1>2, <1>3, <1>4

\* A block that passes for B passes for it.
LEMMA TickIsStep == B!Tick => Q!Next
<1>1. B!Tick => Q!Tick
  BY DEF B!Tick, B!Waiting, Q!Tick, Q!Waiting
<1> QED
  BY <1>1 DEF Q!Next

\* What a step of the node may do to the backend, if not one of its own steps: a poll
\* makes a client, and a new call of Fund has a new context.
Aside ==
    /\ UNCHANGED <<bpc, bresult, bmutex, bhash, bage, bwaited, btx, bsent>>
    /\ brpc' \in {Local, brpc}

\* Every step of the node is one of the backend, or leaves it aside.
LEMMA BackendStep ==
    ASSUME IInv, CalledInv, [NodeNext]_nvars
    PROVE  Q!Next \/ Aside
<1>1. pc[Me] # "idle" => Mine \in Callers
  BY MineIsOwn
<1>2. CASE BackendBegins \/ BackendSends \/ BackendWorks \/ WebsocketBreaks
  BY <1>1, <1>2, CallIsStep
     DEF BackendBegins, BackendSends, BackendWorks, WebsocketBreaks, B!Step
<1>3. CASE AssetsRefused \/ BackendReturns \/ LoopEnds \/ FundCalled \/ FundCancelled \/ Peer
  BY <1>3 DEF AssetsRefused, BackendReturns, LoopEnds, FundCalled, FundCancelled, Peer, Aside, bvars
<1>4. CASE Poll
  BY <1>4 DEF Poll, B!GetRPCClient, Aside
<1>5. CASE Finalized
  BY <1>1, <1>5, CallIsStep
     DEF Finalized, AwaitedFinalized, LateFinalized, OtherFinalized, Callers
<1>6. CASE Time
  BY <1>6, TickIsStep DEF Time
<1>7. CASE \E o \in Others : OtherCall(o)
  BY <1>7, CallIsStep DEF OtherCall, Callers
<1>8. CASE UNCHANGED nvars
  BY <1>8 DEF nvars, bvars, Aside
<1> QED
  BY <1>2, <1>3, <1>4, <1>5, <1>6, <1>7, <1>8 DEF NodeNext, Works

\* The assumption about the constants, and the calls, are the backend's.
LEMMA SameAssumptions ==
    /\ Q!BackendAssumption
    /\ IsFiniteSet(Others) => Q!IsFiniteSet(Callers)
<1>1. IsFiniteSet(Others) => IsFiniteSet(Callers)
  BY OwnFinite, FS_Union DEF Callers
<1> QED
  BY <1>1, CallersAssumption
     DEF B!BackendAssumption, Q!BackendAssumption, IsFiniteSet, Q!IsFiniteSet

\* What is left aside does not break the invariants of the backend.
LEMMA AsideKeeps ==
    ASSUME Aside
    PROVE  /\ Q!IInv => Q!IInv'
           /\ Q!QInv => Q!QInv'
<1>1. /\ [c \in Callers |-> c \in Own /\ c[2] = calls'[Me] /\ cancelled'[Me]] \in [Callers -> BOOLEAN]
      /\ brpc' \in {Local} \cup {brpc}
  BY DEF Aside
<1> QED
  BY <1>1, SameAssumptions, Q!ContextKeepsIInv, Q!ContextKeepsQInv DEF Aside

\* The backend of a node keeps its invariants.
LEMMA BackendOfNode ==
    /\ NodeSpec => []Q!IInv
    /\ IsFiniteSet(Others) => (NodeSpec => []Q!QInv)
<1>1. NodeInit => Q!Init
  BY DEF NodeInit, B!Init, Q!Init
<1>2. NodeInit => Q!IInv
  BY <1>1, SameAssumptions, Q!InitIInv
<1>3. JointInv /\ Q!IInv /\ [NodeNext]_nvars => Q!IInv'
  BY BackendStep, AsideKeeps, SameAssumptions, Q!NextKeepsIInv DEF JointInv
<1>4. ASSUME IsFiniteSet(Others) PROVE NodeInit => Q!QInv
  BY <1>1, <1>4, SameAssumptions, Q!InitQInv
<1>5. ASSUME IsFiniteSet(Others) PROVE JointInv /\ Q!QInv /\ [NodeNext]_nvars => Q!QInv'
  BY <1>5, BackendStep, AsideKeeps, SameAssumptions, Q!NextKeepsQInv DEF JointInv
<1>6. NodeSpec => []Q!IInv
  BY <1>2, <1>3, JointInductive, PTL DEF NodeSpec
<1>7. ASSUME IsFiniteSet(Others) PROVE NodeSpec => []Q!QInv
  BY <1>4, <1>5, <1>7, JointInductive, PTL DEF NodeSpec
<1> QED
  BY <1>6, <1>7

\* One transaction of the node at a time is between the connection and the
\* confirmation, Fund's and the other goroutines' alike, and none of them meets a
\* TxSender without a client.
THEOREM NodeMutex ==
    NodeSpec => [](B!OneAtATime /\ \A c \in Callers : bresult[c] # "panic")
<1>1. Q!IInv => B!OneAtATime
  BY DEF Q!IInv, Q!MutexInv, Q!Holding, B!OneAtATime, B!Holding
<1>2. Q!IInv => \A c \in Callers : bresult[c] # "panic"
  BY DEF Q!IInv, Q!ClientInv
<1> QED
  BY BackendOfNode, <1>1, <1>2, PTL

\* Behind however many goroutines Fund queues, it is done with its blockhash after one
\* confirmation timeout for each call of the node, and only the confirmations of other
\* calls have aged it when it is used.
THEOREM NodeQueue ==
    ASSUME IsFiniteSet(Others)
    PROVE  NodeSpec => [](B!QueueIsBounded /\ B!AgedBehindConfirmations)
<1>1. \A S : Q!Cardinality(S) = B!Cardinality(S)
  BY DEF Q!Cardinality, B!Cardinality
<1>2. Q!QInv => B!QueueIsBounded
  BY <1>1, SameAssumptions, Q!QInvBounds DEF Q!QueueIsBounded, Q!Holding, B!QueueIsBounded, B!Holding
<1>3. Q!QInv => B!AgedBehindConfirmations
  BY <1>1, SameAssumptions, Q!QInvAged DEF Q!AgedBehindConfirmations, B!AgedBehindConfirmations
<1> QED
  BY BackendOfNode, <1>2, <1>3, PTL

\* The calls that Fund and the others make of the backend keep the promises of
\* TxSubmission, also when a later Fund has a context of its own.
THEOREM NodeSubmits == NodeSpec => B!SubmissionSpec
<1>1. NodeInit => B!Submission!Init
  BY DEF NodeInit, B!Init, B!Submission!Init, B!Phase
<1>2. Q!IInv /\ JointInv /\ [NodeNext]_nvars => [B!Submission!Next]_B!Submission!vars
  <2> SUFFICES ASSUME Q!IInv, JointInv, [NodeNext]_nvars
               PROVE  [B!Submission!Next]_B!Submission!vars
    OBVIOUS
  <2>1. CASE Q!Next
    <3>1. [Q!Submission!Next]_Q!Submission!vars
      BY <2>1, SameAssumptions, Q!NextRefines
    <3>2. Q!Submission!Next => B!Submission!Next
      BY DEF Q!Phase, Q!Submission!Next, Q!Submission!Begin, Q!Submission!Submit,
             Q!Submission!Settle, Q!Submission!Return,
             B!Phase, B!Submission!Next, B!Submission!Begin, B!Submission!Submit,
             B!Submission!Settle, B!Submission!Return
    <3>3. UNCHANGED Q!Submission!vars => UNCHANGED B!Submission!vars
      BY DEF Q!Phase, Q!Submission!vars, B!Phase, B!Submission!vars
    <3> QED
      BY <3>1, <3>2, <3>3
  <2>2. CASE Aside
    BY <2>2 DEF Aside, B!Submission!vars, B!Phase
  <2> QED
    BY <2>1, <2>2, BackendStep DEF JointInv
<1> QED
  BY BackendOfNode, JointInductive, <1>1, <1>2, PTL DEF NodeSpec, B!SubmissionSpec, B!Submission!Spec

=============================================================================
