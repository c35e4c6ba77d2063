---------------------------- MODULE PanicProofs ----------------------------
(***************************************************************************)
(* Proof that Funder panics only in channels of one asset.  The funder     *)
(* itself checks nothing: what protects it is that a channel it finds open *)
(* was opened with the request it holds, and that Open encodes only valid  *)
(* allocations.                                                            *)
(***************************************************************************)
EXTENDS FunderProofs

\* What Go's types and go-perun guarantee of a request: assets and balances are
\* slices, and the state has as many participants as the parameters.
WellFormed(r) ==
    /\ Len(r.state.alloc.assets) \in Nat
    /\ r.state.alloc.bals \in Seq(Seq(Int))
    /\ NumParts(r.state.alloc) = Len(r.params.parts)

Openable == MakeOpenInstruction(req.params, req.state, fresh(req)).ok

\* An Open that was sent, waits to be executed, or has been executed was encoded.
OpenSent  == open \/ lateOpen > 0 \/ \E p \in Parties : pc[p] = "openWait"
EncodeInv == OpenSent => Openable

PanicInv == EncodeInv /\ PanicOnlyOneAsset

-----------------------------------------------------------------------------
\* An allocation that Open encodes is valid, and its channel has two participants.
LEMMA OpenEncodes ==
    ASSUME NEW params, NEW state, NEW keys,
           MakeOpenInstruction(params, state, keys).ok
    PROVE  AllocValid(state.alloc) /\ Len(params.parts) = 2
<1>1. MakeParams(params).ok /\ MakeChannelState(state, keys).ok
  BY DEF MakeOpenInstruction, Ok, Fail
<1>2. MakeBalances(state.alloc, keys).ok
  BY <1>1 DEF MakeChannelState, Ok, Fail
<1>3. AllocValid(state.alloc)
  BY <1>2 DEF MakeBalances, Ok, Fail
<1>4. Len(params.parts) = 2
  BY <1>1 DEF MakeParams, Ok, Fail
<1> QED
  BY <1>3, <1>4

\* needFunding, as fundParty calls it, does not run past the last asset of a valid
\* allocation of two participants and at least two assets.
LEMMA NoPanic ==
    ASSUME NEW r, WellFormed(r), AllocValid(r.state.alloc), Len(r.params.parts) = 2,
           NEW p \in Parties, shouldFund(p, r.state.alloc) = "panic"
    PROVE  Len(r.state.alloc.assets) < 2
<1> DEFINE a == r.state.alloc
<1> SUFFICES ASSUME Len(a.assets) >= 2 PROVE FALSE
  BY DEF WellFormed
<1>1. Len(a.bals) = Len(a.assets) /\ Len(a.bals) \in Nat
  BY DEF AllocValid, WellFormed
<1>2. needFunding(a.bals[p + 1], a.assets) = "panic"
  BY <1>1 DEF shouldFund, Parties
<1>3. Len(a.bals[p + 1]) > Len(a.assets)
  BY <1>2 DEF needFunding
<1>4. p + 1 \in DOMAIN a.bals => Len(a.bals[p + 1]) = NumParts(a)
  BY DEF AllocValid
<1>5. p + 1 \in DOMAIN a.bals
  BY <1>1 DEF WellFormed, Parties
<1>6. Len(a.bals[p + 1]) = 2
  BY <1>4, <1>5 DEF WellFormed
<1> HIDE DEF a
<1> QED
  BY <1>1, <1>3, <1>6

-----------------------------------------------------------------------------
\* The request does not change, and neither does what Open makes of it.
LEMMA SameRequest == req' = req => alloc' = alloc /\ (Openable' <=> Openable)
BY DEF alloc, Openable

\* Before the first call nothing is open and nothing has panicked.
LEMMA InitPanicInv == Init => PanicInv
BY DEF Init, ChainInit, PanicInv, EncodeInv, OpenSent, PanicOnlyOneAsset

\* No step of a party or of the network breaks PanicInv.
LEMMA StepKeepsPanicInv ==
    ASSUME \A r \in Requests : WellFormed(r),
           IInv, PanicInv, NEW p \in Parties, PartyStep(p)
    PROVE  PanicInv'
<1>0. /\ WellFormed(req) /\ req \in Requests
      /\ pc \in [Parties -> PCs] /\ lateOpen \in Nat /\ open \in BOOLEAN
      /\ pc[p] = "fundLoop" => open
  BY DEF IInv, TypeInv, TypeOK, ChainTypeOK, OpenInv
<1>1. req' = req
  BY DEF PartyStep, Step, Call, Send, SendFails, OpenConfirmed, FundConfirmed, BalanceRead,
     ConfirmFails, PollOpenCancelled, PollOpenMisses, PollOpenFinds, PollOpenEnds,
     FundLoopCancelled, FundLoopMisses, FundLoopFinds, FundLoopEnds, Cancel, Crash,
     FinalizeOpen, FinalizeFund, SettleLateOpen, SettleLateFund
<1>2. alloc' = alloc /\ (Openable' <=> Openable)
  BY <1>1, SameRequest
<1>3. OpenSent' => OpenSent \/ Openable
  <2>1. CASE Send(p)
    BY <1>0, <2>1 DEF Send, Encodes, OpenPasses, Openable, Goto, OpenSent
  <2>2. CASE FinalizeOpen(p) \/ SettleLateOpen
    BY <1>0, <2>2 DEF FinalizeOpen, SettleLateOpen, ExecuteOpen, chainVars, OpenSent
  <2>3. CASE ConfirmFails(p) \/ Crash(p)
    BY <1>0, <2>3 DEF ConfirmFails, Crash, AbandonTx, Goto, Return, OpenSent
  <2>4. CASE ~(Send(p) \/ FinalizeOpen(p) \/ SettleLateOpen \/ ConfirmFails(p) \/ Crash(p))
    BY <1>0, <2>4 DEF PartyStep, Step, Call, SendFails, OpenConfirmed, FundConfirmed,
       AfterDeposit, BalanceRead, PollOpenCancelled, PollOpenMisses, PollOpenFinds,
       PollOpenEnds, FundLoopCancelled, FundLoopMisses, FundLoopFinds, FundLoopEnds,
       Cancel, FinalizeFund, SettleLateFund, ExecuteFund, chainVars, Goto, Return, OpenSent
  <2> QED
    BY <2>1, <2>2, <2>3, <2>4
<1>4. (\E q \in Parties : pc'[q] = "panicked") => Len(alloc.assets) < 2
  <2>1. CASE FundConfirmed(p) \/ BalanceRead(p)
    BY <1>0, <2>1 DEF FundConfirmed, BalanceRead, AfterDeposit, Goto, PanicInv, PanicOnlyOneAsset
  <2>2. CASE FundLoopFinds(p)
    <3>1. AllocValid(alloc) /\ Len(req.params.parts) = 2
      BY <1>0, <2>2, OpenEncodes
         DEF FundLoopFinds, PanicInv, EncodeInv, OpenSent, Openable, alloc
    <3>2. shouldFund(p, alloc) = "panic" => Len(alloc.assets) < 2
      BY <1>0, <3>1, NoPanic DEF alloc
    <3> QED
      BY <1>0, <2>2, <3>2 DEF FundLoopFinds, Goto, Return, PanicInv, PanicOnlyOneAsset
  <2>3. CASE ~(FundConfirmed(p) \/ BalanceRead(p) \/ FundLoopFinds(p))
    BY <1>0, <2>3 DEF PartyStep, Step, Call, Send, SendFails, OpenConfirmed, ConfirmFails,
       PollOpenCancelled, PollOpenMisses, PollOpenFinds, PollOpenEnds, FundLoopCancelled,
       FundLoopMisses, FundLoopEnds, Cancel, Crash, FinalizeOpen, FinalizeFund,
       SettleLateOpen, SettleLateFund, Goto, Return, PanicInv, PanicOnlyOneAsset
  <2> QED
    BY <2>1, <2>2, <2>3
<1> QED
  BY <1>2, <1>3, <1>4 DEF PanicInv, EncodeInv, PanicOnlyOneAsset

-----------------------------------------------------------------------------
\* Fund panics in channels of one asset only, also if calls are repeated with
\* transactions in flight.
THEOREM PanicsOnlyWithOneAsset ==
    ASSUME \A r \in Requests : WellFormed(r)
    PROVE  Spec => []PanicOnlyOneAsset
<1>1. IInv /\ PanicInv /\ [Next]_vars => PanicInv'
  <2> SUFFICES ASSUME IInv, PanicInv, [Next]_vars PROVE PanicInv'
    OBVIOUS
  <2>1. CASE \E p \in Parties : PartyStep(p)
    BY <2>1, StepKeepsPanicInv
  <2>2. CASE UNCHANGED vars
    BY <2>2, SameRequest DEF vars, PanicInv, EncodeInv, OpenSent, PanicOnlyOneAsset
  <2>3. Next => \E p \in Parties : PartyStep(p)
    BY DEF Next, PartyStep, Parties
  <2> QED
    BY <2>1, <2>2, <2>3
<1>2. PanicInv => PanicOnlyOneAsset
  BY DEF PanicInv
<1> QED
  BY <1>1, <1>2, InitPanicInv, Inductive, PTL DEF Spec

=============================================================================
