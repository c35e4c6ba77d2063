--------------------------- MODULE AgreementProofs ---------------------------
(***************************************************************************)
(* Proofs about Agreement: what is signed, what goes on chain and what the *)
(* funder decides fit together, for all copies of a state that the two     *)
(* sides may hold, all random keys, ledger IDs and assets a funder serves. *)
(*                                                                         *)
(* The variables only remember where they come from (OriginInv); what has  *)
(* to be proved is about the operators of Assets, Encoding, Signing and    *)
(* FundingChecks.                                                          *)
(***************************************************************************)
EXTENDS Agreement, SequenceTheorems, TLAPS

\* Each result is the result of its operation on the copy it was applied to.
OriginInv ==
    /\ IsCopy(mine) /\ IsCopy(peer)
    /\ sig = Pending \/ \E bit \in {0, 1} : sig = Sign(mine.params.parts[1].pub, mine.state, bit)
    /\ \/ verdict = "pending"
       \/ /\ sig.ok
          /\ verdict = Verify(UnmarshalParticipant(MarshalParticipant(peer.params.parts[1])),
                              peer.state, DecodeSig(sig.val))
          /\ peer.params.parts[1].kind = "good"
    /\ opened = Pending \/ \E fresh \in Fresh : opened = OnChain(mine, fresh)
    /\ funding = Pending \/ \E fresh \in Fresh : funding = MakeBalances(mine.state.alloc, fresh)

\* Nothing but the two copies is there at first.
LEMMA InitOrigin == Init => OriginInv
BY InputsAssumption DEF Init, OriginInv

\* Every operation is done once, on a copy that does not change.
LEMMA NextOrigin == OriginInv /\ [Next]_vars => OriginInv'
<1> SUFFICES ASSUME OriginInv, [Next]_vars PROVE OriginInv'
  OBVIOUS
<1>1. CASE SignState
  <2>1. verdict = "pending"
    BY <1>1 DEF SignState, OriginInv, Pending
  <2> QED
    BY <1>1, <2>1 DEF SignState, OriginInv
<1>2. CASE VerifyState
  BY <1>2 DEF VerifyState, OriginInv
<1>3. CASE Open
  BY <1>3 DEF Open, OriginInv, OnChain
<1>4. CASE FundChannel
  BY <1>4 DEF FundChannel, OriginInv
<1>5. CASE UNCHANGED vars
  BY <1>5 DEF vars, OriginInv
<1> QED
  BY <1>1, <1>2, <1>3, <1>4, <1>5 DEF Next

\* The variables remember where they come from, in every reachable state.
THEOREM Origin == Spec => []OriginInv
<1> QED
  BY InitOrigin, NextOrigin, PTL DEF Spec

-----------------------------------------------------------------------------
\* What the encoding accepts

\* A sequence is its entries.
LEMMA SequenceIs ==
    ASSUME NEW s, IsSequence(s)
    PROVE  Len(s) \in Nat /\ DOMAIN s = 1..Len(s) /\ s = [i \in 1..Len(s) |-> s[i]]
BY DEF IsSequence

\* What Go's types say of an allocation.
AllocTypes(a) ==
    /\ Len(a.assets) \in Nat /\ DOMAIN a.assets = 1..Len(a.assets)
    /\ Len(a.bals) \in Nat /\ DOMAIN a.bals = 1..Len(a.bals)
    /\ \A i \in DOMAIN a.bals :
        /\ Len(a.bals[i]) \in Nat /\ DOMAIN a.bals[i] = 1..Len(a.bals[i])
        /\ \A j \in DOMAIN a.bals[i] : a.bals[i][j] \in Int

\* The allocation of a copy has its types, and its parameters a list of parties.
LEMMA CopyTypes ==
    ASSUME NEW copy, IsCopy(copy)
    PROVE  /\ AllocTypes(copy.state.alloc)
           /\ Len(copy.params.parts) \in Nat
           /\ DOMAIN copy.params.parts = 1..Len(copy.params.parts)
<1> DEFINE a == copy.state.alloc
<1>1. IsSequence(a.assets) /\ IsSequence(a.bals) /\ IsSequence(copy.params.parts)
  BY DEF IsCopy
<1>2. \A i \in DOMAIN a.bals : a.bals[i] \in Seq(Int)
  BY DEF IsCopy
<1>3. \A s \in Seq(Int) : /\ Len(s) \in Nat /\ DOMAIN s = 1..Len(s)
                          /\ \A j \in DOMAIN s : s[j] \in Int
  OBVIOUS
<1> QED
  BY <1>1, <1>2, <1>3, SequenceIs DEF AllocTypes

\* A uint64 is made of an amount that fits, and is that amount.
LEMMA Uint64Made ==
    ASSUME NEW i \in Int, MakeUint64(i).ok
    PROVE  i \in 0..MaxUint64 /\ MakeUint64(i).val = i
BY MaxUint64Assumption DEF MakeUint64, Ok, Fail

\* MakeBalances accepts a valid allocation of amounts that fit, and changes none.
LEMMA BalancesMade ==
    ASSUME NEW a, AllocTypes(a), NEW fresh, MakeBalances(a, fresh).ok
    PROVE  /\ AllocValid(a) /\ a.locked = <<>> /\ NumParts(a) >= 2
           /\ MakeTokens(a.assets, fresh).ok
           /\ \A i \in DOMAIN a.bals : \A j \in 1..NumParts(a) : a.bals[i][j] \in 0..MaxUint64
           /\ MakeBalances(a, fresh).val =
                 [Tokens |-> MakeTokens(a.assets, fresh).val,
                  BalA   |-> [i \in DOMAIN a.bals |-> a.bals[i][1]],
                  BalB   |-> [i \in DOMAIN a.bals |-> a.bals[i][2]]]
<1> DEFINE part(j) == [i \in DOMAIN a.bals |-> MakeUint64(a.bals[i][j]).val]
<1>1. /\ AllocValid(a) /\ a.locked = <<>> /\ MakeTokens(a.assets, fresh).ok /\ NumParts(a) >= 2
      /\ \A i \in DOMAIN a.bals : \A j \in 1..NumParts(a) : MakeUint64(a.bals[i][j]).ok
      /\ MakeBalances(a, fresh) =
            Ok([Tokens |-> MakeTokens(a.assets, fresh).val, BalA |-> part(1), BalB |-> part(2)])
  BY DEF MakeBalances, Fail
<1>2. /\ NumParts(a) \in Nat
      /\ \A i \in DOMAIN a.bals : \A j \in 1..NumParts(a) : a.bals[i][j] \in Int
  BY <1>1 DEF AllocValid, AllocTypes, NumParts
<1>3. \A i \in DOMAIN a.bals : \A j \in 1..NumParts(a) :
          a.bals[i][j] \in 0..MaxUint64 /\ MakeUint64(a.bals[i][j]).val = a.bals[i][j]
  BY <1>1, <1>2, Uint64Made
<1>4. 1 \in 1..NumParts(a) /\ 2 \in 1..NumParts(a)
  BY <1>1, <1>2
<1>5. /\ part(1) = [i \in DOMAIN a.bals |-> a.bals[i][1]]
      /\ part(2) = [i \in DOMAIN a.bals |-> a.bals[i][2]]
  BY <1>3, <1>4
<1> HIDE DEF part
<1> QED
  BY <1>1, <1>3, <1>5 DEF Ok

\* The tokens are made asset by asset.
LEMMA TokensMade ==
    ASSUME NEW assets, NEW fresh, MakeTokens(assets, fresh).ok
    PROVE  /\ \A i \in DOMAIN assets : ~TokenFails(assets[i])
           /\ MakeTokens(assets, fresh).val =
                [i \in DOMAIN assets |->
                    [chain |-> assets[i].lid,
                     addr  |-> IF IsSolana(assets[i]) THEN MakeAddress(assets[i]) ELSE fresh[i],
                     eth   |-> IF IsSolana(assets[i]) THEN ZeroEth ELSE assets[i].holder]]
BY DEF MakeTokens, Ok, Fail

\* Whether they can be made does not depend on the random keys.
LEMMA BalancesFresh ==
    ASSUME NEW a, NEW f, NEW g, MakeBalances(a, f).ok
    PROVE  MakeBalances(a, g).ok
BY DEF MakeBalances, MakeTokens, Ok, Fail

\* What is encoded for Open.
LEMMA Opened ==
    ASSUME NEW copy, NEW fresh, OnChain(copy, fresh).ok
    PROVE  /\ Len(copy.params.parts) = 2 /\ copy.params.noApp /\ copy.params.nonce < Word
           /\ \A i \in 1..2 : copy.params.parts[i].kind = "good"
           /\ copy.state.noApp /\ copy.state.noData
           /\ MakeBalances(copy.state.alloc, fresh).ok
           /\ OnChain(copy, fresh).val =
                [Params |-> [A |-> MakeParticipant(copy.params.parts[1]),
                             B |-> MakeParticipant(copy.params.parts[2]),
                             Nonce |-> copy.params.nonce,
                             ChallengeDuration |-> copy.params.duration],
                 State  |-> [ChannelID |-> copy.state.id,
                             Balances  |-> MakeBalances(copy.state.alloc, fresh).val,
                             Version   |-> copy.state.version,
                             Finalized |-> copy.state.isFinal]]
<1>1. MakeParams(copy.params).ok /\ MakeChannelState(copy.state, fresh).ok
  BY DEF OnChain, MakeOpenInstruction, Ok, Fail
<1> QED
  BY <1>1 DEF OnChain, MakeOpenInstruction, MakeParams, MakeChannelState, Ok, Fail

\* Whether a copy can be opened does not depend on the random keys.
LEMMA OpenableFresh ==
    ASSUME NEW copy, NEW f, NEW g, OnChain(copy, f).ok
    PROVE  OnChain(copy, g).ok
<1>1. MakeParams(copy.params).ok /\ MakeChannelState(copy.state, f).ok
  BY DEF OnChain, MakeOpenInstruction, Ok, Fail
<1>2. MakeChannelState(copy.state, g).ok
  BY <1>1, BalancesFresh DEF MakeChannelState, Ok, Fail
<1> QED
  BY <1>1, <1>2 DEF OnChain, MakeOpenInstruction, Ok

-----------------------------------------------------------------------------
\* What goes on chain, and what the funder makes of it

\* An open instruction puts on chain exactly the shares of the allocation.
THEOREM ExactShares == Spec => []SharesExactOnChain
<1>1. OriginInv => SharesExactOnChain
  <2> SUFFICES ASSUME OriginInv, opened.ok,
                      NEW i \in DOMAIN alloc.bals
               PROVE  LET bals == opened.val.State.Balances
                      IN  /\ alloc.bals[i] = <<bals.BalA[i], bals.BalB[i]>>
                          /\ bals.BalA[i] \in 0..MaxUint64 /\ bals.BalB[i] \in 0..MaxUint64
    BY DEF SharesExactOnChain
  <2>1. PICK fresh \in Fresh : opened = OnChain(mine, fresh)
    BY DEF OriginInv, Pending
  <2>2. IsCopy(mine) /\ AllocTypes(alloc)
    BY CopyTypes DEF OriginInv, alloc
  <2>3. /\ MakeBalances(alloc, fresh).ok /\ Len(mine.params.parts) = 2
        /\ opened.val.State.Balances = MakeBalances(alloc, fresh).val
    <3>1. OnChain(mine, fresh).ok
      BY <2>1
    <3>2. MakeBalances(alloc, fresh).ok /\ Len(mine.params.parts) = 2
      BY <3>1, Opened DEF alloc
    <3>3. \E bp, id, v, f :
            OnChain(mine, fresh).val =
                [Params |-> bp,
                 State  |-> [ChannelID |-> id, Balances |-> MakeBalances(alloc, fresh).val,
                             Version |-> v, Finalized |-> f]]
      BY <3>1, Opened, Zenon DEF alloc
    <3> QED
      BY <2>1, <3>2, <3>3
  <2>4. /\ \A k \in DOMAIN alloc.bals : \A j \in 1..NumParts(alloc) : alloc.bals[k][j] \in 0..MaxUint64
        /\ AllocValid(alloc)
        /\ opened.val.State.Balances.BalA[i] = alloc.bals[i][1]
        /\ opened.val.State.Balances.BalB[i] = alloc.bals[i][2]
    <3>1. /\ \A k \in DOMAIN alloc.bals : \A j \in 1..NumParts(alloc) : alloc.bals[k][j] \in 0..MaxUint64
          /\ AllocValid(alloc)
          /\ MakeBalances(alloc, fresh).val =
                [Tokens |-> MakeTokens(alloc.assets, fresh).val,
                 BalA   |-> [k \in DOMAIN alloc.bals |-> alloc.bals[k][1]],
                 BalB   |-> [k \in DOMAIN alloc.bals |-> alloc.bals[k][2]]]
      BY <2>2, <2>3, BalancesMade, Zenon
    <3> QED
      BY <2>3, <3>1
  <2>5. alloc.bals[i] \in Seq(Int) /\ Len(alloc.bals[i]) = 2 /\ NumParts(alloc) = 2
    <3>1. Len(alloc.bals) > 0
      BY <2>2, <2>4 DEF AllocValid, AllocTypes
    <3>2. NumParts(alloc) = 2 /\ \A k \in DOMAIN alloc.bals : alloc.bals[k] \in Seq(Int)
      BY <2>2, <2>3, <3>1 DEF IsCopy, alloc
    <3> QED
      BY <2>4, <3>2 DEF AllocValid
  <2>6. alloc.bals[i] = <<alloc.bals[i][1], alloc.bals[i][2]>>
    BY <2>5
  <2> QED
    BY <2>4, <2>5, <2>6
<1> QED
  BY Origin, <1>1, PTL

\* A party that has to deposit is not turned away by the asset check.
THEOREM PayerAccepted == Spec => []PayerNotRefused
<1>1. OriginInv => PayerNotRefused
  <2> SUFFICES ASSUME OriginInv, funding.ok, NEW p \in {0, 1}, shouldFund(p, alloc) = "yes",
                      \A i \in DOMAIN alloc.assets : IsSolana(alloc.assets[i]) =>
                            MakeAddress(alloc.assets[i]) \in AssetAddrs
               PROVE  containsAllAssets(funding.val.Tokens, AssetAddrs)
    BY DEF PayerNotRefused
  <2>1. PICK fresh \in Fresh : funding = MakeBalances(alloc, fresh)
    BY DEF OriginInv, Pending, alloc
  <2>2. IsCopy(mine) /\ AllocTypes(alloc)
    BY CopyTypes DEF OriginInv, alloc
  <2>3. MakeTokens(alloc.assets, fresh).ok /\ AllocValid(alloc)
        /\ funding.val.Tokens = MakeTokens(alloc.assets, fresh).val
    <3>1. MakeBalances(alloc, fresh).ok
      BY <2>1
    <3>2. /\ MakeTokens(alloc.assets, fresh).ok /\ AllocValid(alloc)
          /\ MakeBalances(alloc, fresh).val =
                [Tokens |-> MakeTokens(alloc.assets, fresh).val,
                 BalA   |-> [k \in DOMAIN alloc.bals |-> alloc.bals[k][1]],
                 BalB   |-> [k \in DOMAIN alloc.bals |-> alloc.bals[k][2]]]
      BY <2>2, <3>1, BalancesMade, Zenon
    <3> QED
      BY <2>1, <3>2
  <2>4. /\ Len(alloc.assets) \in Nat /\ DOMAIN alloc.assets = 1..Len(alloc.assets)
        /\ Len(alloc.bals) \in Nat /\ DOMAIN alloc.bals = 1..Len(alloc.bals)
        /\ \A i \in DOMAIN alloc.bals : DOMAIN alloc.bals[i] = 1..Len(alloc.bals[i])
        /\ \A i \in DOMAIN alloc.bals : Len(alloc.bals[i]) \in Nat
    BY <2>2 DEF AllocTypes
  <2>5. PICK i \in DOMAIN alloc.assets : IsSolana(alloc.assets[i])
    <3>1. p + 1 \in DOMAIN alloc.bals /\ needFunding(alloc.bals[p + 1], alloc.assets) = "yes"
      BY <2>4 DEF shouldFund
    <3>2. PICK i \in DOMAIN alloc.bals[p + 1] : i <= Len(alloc.assets) /\ IsSolana(alloc.assets[i])
      BY <3>1 DEF needFunding
    <3> QED
      BY <2>4, <3>1, <3>2
  <2>6. i \in DOMAIN funding.val.Tokens /\ funding.val.Tokens[i].addr = MakeAddress(alloc.assets[i])
    <3>1. funding.val.Tokens =
            [k \in DOMAIN alloc.assets |->
                [chain |-> alloc.assets[k].lid,
                 addr  |-> IF IsSolana(alloc.assets[k]) THEN MakeAddress(alloc.assets[k])
                                                        ELSE fresh[k],
                 eth   |-> IF IsSolana(alloc.assets[k]) THEN ZeroEth
                                                        ELSE alloc.assets[k].holder]]
      BY <2>3, TokensMade, Zenon
    <3> QED
      BY <2>5, <3>1
  <2> QED
    BY <2>5, <2>6 DEF containsAllAssets
<1> QED
  BY Origin, <1>1, PTL

\* needFunding is exact on a swap.
THEOREM ExactOnSwaps == Spec => []NeedFundingExactOnSwaps
<1>1. OriginInv => NeedFundingExactOnSwaps
  <2> SUFFICES ASSUME OriginInv, Swap, NEW p \in {0, 1}
               PROVE  shouldFund(p, alloc) = (IF Owes(p, alloc) THEN "yes" ELSE "no")
    BY DEF NeedFundingExactOnSwaps
  <2> DEFINE b == alloc.bals
             solana(i) == IsSolana(alloc.assets[i])
  <2>1. AllocTypes(alloc)
    BY CopyTypes DEF OriginInv, alloc
  <2>2. /\ DOMAIN alloc.assets = 1..Len(alloc.assets) /\ DOMAIN b = 1..Len(b)
        /\ \A i \in DOMAIN b : DOMAIN b[i] = 1..Len(b[i])
    BY <2>1 DEF AllocTypes
  <2>3. /\ Len(alloc.assets) = 2 /\ Len(b) = 2 /\ NumParts(alloc) = 2
        /\ \A i \in DOMAIN b : Len(b[i]) = 2
    BY DEF Swap, AllocValid
  <2>4. DOMAIN alloc.assets = {1, 2} /\ DOMAIN b = {1, 2} /\ DOMAIN b[1] = {1, 2} /\ DOMAIN b[2] = {1, 2}
    BY <2>2, <2>3
  <2>5. ASSUME NEW i \in 1..2
        PROVE  \E q \in 1..2 : b[i][q] # 0 /\ b[i][3 - q] = 0 /\ b[3 - i][3 - q] # 0
    BY DEF Swap
  <2>6. \/ b[1][1] # 0 /\ b[1][2] = 0 /\ b[2][2] # 0
        \/ b[1][2] # 0 /\ b[1][1] = 0 /\ b[2][1] # 0
    BY <2>5
  <2>7. \/ b[2][1] # 0 /\ b[2][2] = 0 /\ b[1][2] # 0
        \/ b[2][2] # 0 /\ b[2][1] = 0 /\ b[1][1] # 0
    BY <2>5
  <2>8. b[1][2] = 0 <=> b[2][1] = 0
    BY <2>6, <2>7
  <2>9. Owes(p, alloc) <=> (solana(1) /\ b[1][p + 1] # 0) \/ (solana(2) /\ b[2][p + 1] # 0)
    BY <2>4 DEF Owes
  <2>10. /\ DOMAIN b[p + 1] = {1, 2} /\ Len(b[p + 1]) = 2
         /\ shouldFund(p, alloc) = needFunding(b[p + 1], alloc.assets)
    BY <2>3, <2>4 DEF shouldFund
  <2>11. shouldFund(p, alloc) =
            (IF (b[p + 1][1] # 0 /\ solana(1)) \/ (b[p + 1][2] # 0 /\ solana(2)) THEN "yes" ELSE "no")
    BY <2>3, <2>10 DEF needFunding
  <2> HIDE DEF b, solana
  <2>12. CASE p = 0
    BY <2>8, <2>9, <2>11, <2>12
  <2>13. CASE p = 1
    BY <2>8, <2>9, <2>11, <2>13
  <2> QED
    BY <2>12, <2>13
<1> QED
  BY Origin, <1>1, PTL

\* What arrives as an asset on the wire never gets on chain.
THEOREM WireRefused == Spec => []WireAssetRefused
<1>1. WireAssetRefused
  <2>1. ASSUME NEW data, Received(data).ok
        PROVE  ~MakeTokens(<<Received(data).val>>, <<ZeroKey>>).ok
    <3>1. Received(data).val.type = "single"
      BY <2>1 DEF Received, UnmarshalAsset, NewAsset, Ok, Fail
    <3>2. TokenFails(Received(data).val)
      BY <3>1 DEF TokenFails
    <3>3. 1 \in DOMAIN <<Received(data).val>> /\ <<Received(data).val>>[1] = Received(data).val
      OBVIOUS
    <3> QED
      BY <3>2, <3>3 DEF MakeTokens, Fail
  <2> QED
    BY <2>1 DEF WireAssetRefused
<1> QED
  BY <1>1, PTL

-----------------------------------------------------------------------------
\* The codec of the assets

Framed(l, b) == Prefixed(l) \o <<BackendID>> \o Prefixed(b)

\* Two byte strings come out of their frame as they went in.
LEMMA Frame ==
    ASSUME NEW S, Nat \subseteq S, NEW l \in Seq(S), NEW b \in Seq(S)
    PROVE  /\ Framed(l, b)[1] = Len(l)
           /\ SubSeq(Framed(l, b), 3, Len(l) + 2) = l
           /\ SubSeq(Framed(l, b), Len(l) + 6, Len(Framed(l, b))) = b
<1> DEFINE n == Len(l)
           m == Len(b)
           P == Prefixed(l) \o <<BackendID>>
           D == Framed(l, b)
<1>1. n \in Nat /\ m \in Nat /\ 0 \in S /\ BackendID \in S
  BY DEF BackendID
<1>2. \A s \in Seq(S) : /\ Prefixed(s) \in Seq(S) /\ Len(Prefixed(s)) = Len(s) + 2
                        /\ Prefixed(s)[1] = Len(s)
                        /\ \A i \in 1..Len(s) : Prefixed(s)[i + 2] = s[i]
  BY <1>1 DEF Prefixed
<1>3. /\ P \in Seq(S) /\ Len(P) = n + 3
      /\ \A i \in 1..(n + 2) : P[i] = Prefixed(l)[i]
  BY <1>1, <1>2
<1>4. D = P \o Prefixed(b)
  BY DEF Framed
<1>5. Prefixed(b) \in Seq(S) /\ Len(Prefixed(b)) = m + 2
  BY <1>2
<1> HIDE DEF D, P, n, m
<1>6. /\ D \in Seq(S) /\ Len(D) = n + m + 5
      /\ \A i \in 1..(n + 3) : D[i] = P[i]
      /\ \A i \in 1..(m + 2) : D[n + 3 + i] = Prefixed(b)[i]
  <2> DEFINE Q == Prefixed(b)
  <2>1. /\ P \o Q \in Seq(S) /\ Len(P \o Q) = Len(P) + Len(Q)
        /\ \A i \in 1..(Len(P) + Len(Q)) :
              (P \o Q)[i] = IF i <= Len(P) THEN P[i] ELSE Q[i - Len(P)]
    BY <1>3, <1>5, ConcatProperties
  <2>2. /\ D \in Seq(S) /\ Len(D) = (n + 3) + (m + 2)
        /\ \A i \in 1..((n + 3) + (m + 2)) :
              D[i] = IF i <= n + 3 THEN P[i] ELSE Q[i - (n + 3)]
    BY <1>3, <1>4, <1>5, <2>1
  <2> HIDE DEF Q
  <2>3. \A i \in 1..(m + 2) : D[n + 3 + i] = Q[i]
    <3> SUFFICES ASSUME NEW i \in 1..(m + 2) PROVE D[n + 3 + i] = Q[i]
      OBVIOUS
    <3>1. /\ n + 3 + i \in 1..((n + 3) + (m + 2)) /\ ~(n + 3 + i <= n + 3)
          /\ (n + 3 + i) - (n + 3) = i
      BY <1>1
    <3>2. D[n + 3 + i] = Q[(n + 3 + i) - (n + 3)]
      BY <2>2, <3>1
    <3> QED
      BY <3>1, <3>2
  <2> QED
    BY <1>1, <2>2, <2>3 DEF Q
<1>7. D[1] = n
  <2>1. 1 \in 1..(n + 3) /\ 1 \in 1..(n + 2)
    BY <1>1
  <2>2. D[1] = Prefixed(l)[1]
    BY <1>3, <1>6, <2>1
  <2> QED
    BY <1>2, <2>2 DEF n
<1>8. SubSeq(D, 3, n + 2) = l
  <2>1. /\ SubSeq(D, 3, n + 2) \in Seq(S) /\ Len(SubSeq(D, 3, n + 2)) = n
        /\ \A i \in 1..n : SubSeq(D, 3, n + 2)[i] = D[i + 2]
    BY <1>1, <1>6, SubSeqProperties
  <2>2. \A i \in 1..n : D[i + 2] = l[i]
    <3> SUFFICES ASSUME NEW i \in 1..n PROVE D[i + 2] = l[i]
      OBVIOUS
    <3>1. i + 2 \in 1..(n + 3) /\ i + 2 \in 1..(n + 2)
      BY <1>1
    <3>2. D[i + 2] = Prefixed(l)[i + 2]
      BY <1>3, <1>6, <3>1
    <3> QED
      BY <1>2, <3>2 DEF n
  <2> QED
    BY <2>1, <2>2, SeqEqual DEF n
<1>9. SubSeq(D, n + 6, Len(D)) = b
  <2> DEFINE t == SubSeq(D, n + 6, Len(D))
  <2>1. /\ t \in Seq(S) /\ Len(t) = m
        /\ \A i \in 1..m : t[i] = D[n + 5 + i]
    BY <1>1, <1>6, SubSeqProperties
  <2>2. \A i \in 1..m : D[n + 5 + i] = b[i]
    <3> SUFFICES ASSUME NEW i \in 1..m PROVE D[n + 5 + i] = b[i]
      OBVIOUS
    <3>1. i + 2 \in 1..(m + 2) /\ n + 3 + (i + 2) = n + 5 + i
      BY <1>1
    <3>2. D[n + 3 + (i + 2)] = Prefixed(b)[i + 2]
      BY <1>6, <3>1
    <3> QED
      BY <1>2, <3>1, <3>2 DEF m
  <2> HIDE DEF t
  <2>3. t = b
    BY <2>1, <2>2, SeqEqual DEF m
  <2> QED
    BY <2>3 DEF t
<1> QED
  BY <1>7, <1>8, <1>9 DEF D, n

\* The bytes of a valid asset, and what becomes of an asset they are decoded into.
Body(asset) == IF asset.isSOL THEN <<SOLMagic>> ELSE <<SPLMagic, asset.mint>>
Decoded(prior, asset) == [prior EXCEPT !.isSOL = asset.isSOL,
                                       !.mint  = IF asset.isSOL THEN NoMint ELSE asset.mint]

\* What MarshalBinary makes of a cross asset.
LEMMA CrossMade ==
    ASSUME NEW asset, asset.isSOL \in BOOLEAN, MarshalCross(asset).ok
    PROVE  /\ asset.lid \in DOMAIN Base58
           /\ MarshalCross(asset).val = Framed(Base58[asset.lid], Body(asset))
BY DEF Body, MarshalCross, MarshalLID, MarshalAsset, Framed, Ok, Fail

\* A ledger ID comes out of its bytes.
LEMMA LIDRoundTrip ==
    ASSUME NEW lid \in DOMAIN Base58
    PROVE  UnmarshalLID(Base58[lid]) = Ok(lid)
<1>1. Base58[lid] # <<>>
  BY Base58Assumption
<1>2. \A other \in DOMAIN Base58 : Base58[other] = Base58[lid] => other = lid
  BY Base58Assumption
<1>3. (CHOOSE other \in DOMAIN Base58 : Base58[other] = Base58[lid]) = lid
  BY <1>2
<1> QED
  BY <1>1, <1>3 DEF UnmarshalLID

\* A valid asset comes out of its bytes, but for what the bytes do not hold.
LEMMA AssetRoundTrip ==
    ASSUME NEW asset, asset.isSOL \in BOOLEAN, NEW prior
    PROVE  UnmarshalAsset(prior, Body(asset)) = Ok(Decoded(prior, asset))
<1>1. CASE asset.isSOL
  <2>1. <<SOLMagic>> # <<>> /\ <<SOLMagic>>[1] = SOLMagic
    OBVIOUS
  <2> QED
    BY <1>1, <2>1 DEF UnmarshalAsset, Body, Decoded
<1>2. CASE asset.isSOL = FALSE
  <2> DEFINE m == asset.mint
             body == <<SPLMagic, m>>
  <2>1. body # <<>> /\ body[1] # SOLMagic /\ body[1] = SPLMagic
    BY DEF SPLMagic, SOLMagic
  <2>2. Tail(body) = <<m>> /\ <<m>> # <<>> /\ Len(<<m>>) = 1 /\ <<m>>[1] = m
    <3> DEFINE T == Nat \cup {m}
    <3>1. body \in Seq(T) /\ Len(body) = 2 /\ body[2] = m
      BY DEF SPLMagic
    <3>2. Tail(body) \in Seq(T) /\ Len(Tail(body)) = 1 /\ Tail(body)[1] = m
      BY <3>1, <2>1, HeadTailProperties
    <3>3. <<m>> \in Seq(T) /\ Len(<<m>>) = 1 /\ <<m>>[1] = m
      OBVIOUS
    <3>4. Tail(body) = <<m>>
      BY <3>2, <3>3, SeqEqual
    <3> QED
      BY <3>3, <3>4
  <2>3. KeyFromBytes(Tail(body)) = m
    BY <2>2 DEF KeyFromBytes
  <2> HIDE DEF m
  <2> QED
    BY <1>2, <2>1, <2>3 DEF UnmarshalAsset, m, Body, Decoded
<1> QED
  BY <1>1, <1>2

\* A cross asset comes out of its bytes, whatever it is decoded into.
LEMMA CrossRoundTrip ==
    ASSUME NEW asset, IsAsset(asset), IsSolana(asset), ~IsInvalid(asset), MarshalCross(asset).ok,
           NEW prior, IsAsset(prior), IsSolana(prior), asset.ledger = prior.ledger
    PROVE  UnmarshalCross(prior, MarshalCross(asset).val) = Ok(asset)
<1> DEFINE l == Base58[asset.lid]
           D == Framed(l, Body(asset))
           S == Nat \cup {asset.mint}
<1>1. asset.isSOL \in BOOLEAN /\ prior.isSOL \in BOOLEAN
  BY DEF IsAsset
<1>2. asset.lid \in DOMAIN Base58 /\ MarshalCross(asset).val = D
  BY <1>1, CrossMade
<1>3. l \in Seq(S) /\ Body(asset) \in Seq(S) /\ Nat \subseteq S
  <2>1. l \in Seq(0..255)
    BY <1>2, Base58Assumption
  <2>2. 0..255 \subseteq S /\ Nat \subseteq S
    OBVIOUS
  <2>3. Body(asset) \in Seq(S)
    BY DEF Body, SOLMagic, SPLMagic
  <2> HIDE DEF S, l
  <2>4. l \in Seq(S)
    BY <2>1, <2>2, SeqMonotonic
  <2> QED
    BY <2>2, <2>3, <2>4
<1>4. /\ D[1] = Len(l)
      /\ SubSeq(D, 3, Len(l) + 2) = l
      /\ SubSeq(D, Len(l) + 6, Len(D)) = Body(asset)
  <2> HIDE DEF S, l
  <2> QED
    BY <1>3, Frame
<1>5. UnmarshalLID(l) = Ok(asset.lid)
  BY <1>2, LIDRoundTrip
<1>6. UnmarshalAsset(prior, Body(asset)) = Ok(Decoded(prior, asset))
  BY <1>1, AssetRoundTrip
<1>7. [Decoded(prior, asset) EXCEPT !.lid = asset.lid] = asset
  <2>1. asset.mint = IF asset.isSOL THEN NoMint ELSE asset.mint
    BY <1>1 DEF IsInvalid
  <2> QED
    BY <1>1, <2>1 DEF IsAsset, NewAsset, Decoded
<1> HIDE DEF D, l
<1>8. UnmarshalCross(prior, D) = Ok([Decoded(prior, asset) EXCEPT !.lid = asset.lid])
  <2>1. UnmarshalLID(SubSeq(D, 3, D[1] + 2)) = Ok(asset.lid)
    BY <1>4, <1>5
  <2>2. UnmarshalAsset(prior, SubSeq(D, D[1] + 6, Len(D))) = Ok(Decoded(prior, asset))
    BY <1>4, <1>6
  <2>3. \A v : Ok(v).ok /\ Ok(v).val = v
    BY DEF Ok
  <2> QED
    BY <2>1, <2>2, <2>3 DEF UnmarshalCross
<1> QED
  BY <1>2, <1>7, <1>8

\* A cross asset survives its codec, into whatever variable it is decoded.
THEOREM RoundTrip == Spec => []CodecRoundTrip
<1>1. OriginInv => CodecRoundTrip
  <2>1. OriginInv => /\ \A i \in DOMAIN mine.state.alloc.assets : IsAsset(mine.state.alloc.assets[i])
                     /\ \A i \in DOMAIN peer.state.alloc.assets : IsAsset(peer.state.alloc.assets[i])
    BY DEF OriginInv, IsCopy
  <2> QED
    BY <2>1, CrossRoundTrip DEF CodecRoundTrip
<1> QED
  BY Origin, <1>1, PTL

-----------------------------------------------------------------------------
\* Signatures

\* What is signed, and verified, of a state.
Signed(state) == EncodeEthState(ToEthState(state).val)

\* A signature is accepted, on the way it takes, by whoever holds the same message;
\* if it is accepted by somebody who knows a key, the message is the same.
LEMMA SignAndVerify ==
    ASSUME NEW pub, NEW mineState, NEW bit \in {0, 1}, Sign(pub, mineState, bit).ok,
           NEW part, NEW state, ToEthState(state).ok
    PROVE  LET v == Verify(part, state, DecodeSig(Sign(pub, mineState, bit).val))
           IN  /\ Signed(state) = Signed(mineState) /\ part.pub = pub => v = "true"
               /\ v = "true" /\ part.pub # NoPubKey => Signed(state) = Signed(mineState)
<1> DEFINE msg == Signed(mineState)
           got == DecodeSig(Sign(pub, mineState, bit).val)
<1>1. got = [by |-> pub, of |-> msg, bit |-> bit, v |-> bit + 27]
  BY DEF Sign, SignData, DecodeSig, Signed, Ok, Fail
<1>2. got.by = pub /\ got.of = msg /\ got.bit = bit /\ got.v >= 27 /\ got.v - 27 = bit
  BY <1>1
<1> HIDE DEF got, msg
<1>3. VerifySignature(Signed(state), got, part) <=>
        (IF Signed(state) = msg THEN pub ELSE NoPubKey) = part.pub
  BY <1>2 DEF VerifySignature, SigToPub
<1>4. Verify(part, state, got) = (IF VerifySignature(Signed(state), got, part) THEN "true" ELSE "false")
  BY DEF Verify, Signed
<1> QED
  BY <1>3, <1>4 DEF msg, got

\* A peer with the same copy accepts the signature.
THEOREM OwnVerifies == Spec => []OwnSignatureVerifies
<1>1. OriginInv => OwnSignatureVerifies
  <2> SUFFICES ASSUME OriginInv, mine = peer, verdict # "pending"
               PROVE  verdict = "true"
    BY DEF OwnSignatureVerifies
  <2> DEFINE part == UnmarshalParticipant(MarshalParticipant(peer.params.parts[1]))
             pub  == mine.params.parts[1].pub
  <2>1. sig.ok /\ verdict = Verify(part, peer.state, DecodeSig(sig.val))
    BY DEF OriginInv
  <2>2. PICK bit \in {0, 1} : sig = Sign(pub, mine.state, bit)
    BY <2>1 DEF OriginInv, Pending
  <2>3. ToEthState(mine.state).ok
    BY <2>1, <2>2 DEF Sign, Fail
  <2>4. part.pub = pub
    BY DEF UnmarshalParticipant, MarshalParticipant
  <2> HIDE DEF part, pub
  <2> QED
    BY <2>1, <2>2, <2>3, <2>4, SignAndVerify
<1> QED
  BY Origin, <1>1, PTL

\* What can be opened can be signed, with the two exceptions.
THEOREM OpenableSignable == Spec => []OpenableIsSignable
<1>1. OriginInv => OpenableIsSignable
  <2> SUFFICES ASSUME OriginInv, Openable(mine), Consistent(alloc),
                      Len(alloc.backends) = Len(alloc.assets), checkBackends(alloc.backends),
                      \A i \in DOMAIN alloc.backends :
                            alloc.backends[i] \in {BackendID, ethBackendID},
                      \A i \in DOMAIN alloc.assets :
                            IsSolana(alloc.assets[i]) => alloc.assets[i].lid \in DOMAIN Base58,
                      sig # Pending
               PROVE  sig.ok
    BY DEF OpenableIsSignable, alloc
  <2>1. PICK fresh \in Fresh : OnChain(mine, fresh).ok
    BY DEF Openable
  <2>2. AllocTypes(alloc) /\ MakeBalances(alloc, fresh).ok
    BY <2>1, CopyTypes, Opened DEF OriginInv, alloc
  <2>3. AllocValid(alloc) /\ alloc.locked = <<>> /\ MakeTokens(alloc.assets, fresh).ok
    BY <2>2, BalancesMade
  <2>4. \A i \in DOMAIN alloc.assets : ~TokenFails(alloc.assets[i]) /\ IsAsset(alloc.assets[i])
    BY <2>3, TokensMade DEF OriginInv, IsCopy, alloc
  <2>5. DOMAIN alloc.backends = DOMAIN alloc.assets
    BY SequenceIs DEF OriginInv, IsCopy, alloc
  <2>6. ASSUME NEW i \in DOMAIN alloc.assets
        PROVE  ChannelAsset(alloc.assets[i], alloc.backends[i]).ok
    <3> DEFINE asset == alloc.assets[i]
               b     == alloc.backends[i]
    <3>1. b \in {BackendID, ethBackendID} /\ (b = BackendID <=> IsSolana(asset))
      BY <2>5, <2>6 DEF Consistent
    <3>2. ~TokenFails(asset) /\ asset.isSOL \in BOOLEAN
      BY <2>4 DEF IsAsset
    <3>3. IsSolana(asset) => asset.lid \in DOMAIN Base58
      BY <2>6
    <3> HIDE DEF asset, b
    <3>4. CASE IsSolana(asset)
      <4>1. MarshalCross(asset).ok
        BY <3>2, <3>3, <3>4 DEF TokenFails, IsInvalid, MarshalCross, MarshalLID, MarshalAsset, Ok, Fail
      <4>2. ChannelAsset(asset, b) = SolanaChannelAsset(asset)
        BY <3>1, <3>4 DEF ChannelAsset, BackendID, ethBackendID
      <4>3. SolanaChannelAsset(asset) =
              Ok([ChainID |-> BackendID, EthAsset |-> ZeroEth, CCAsset |-> MarshalCross(asset).val])
        BY <3>4, <4>1 DEF SolanaChannelAsset
      <4> QED
        BY <4>2, <4>3 DEF Ok, asset, b
    <3>5. CASE ~IsSolana(asset)
      <4>1. ChannelAsset(asset, b) = EthChannelAsset(asset)
        BY <3>1, <3>5 DEF ChannelAsset
      <4>2. asset.type # "single" /\ asset.ledger = "decimal"
        BY <3>2 DEF TokenFails
      <4>3. EthChannelAsset(asset) =
              Ok([ChainID |-> asset.lid, EthAsset |-> asset.holder, CCAsset |-> NoCcAddress])
        BY <3>5, <4>2 DEF EthChannelAsset
      <4> QED
        BY <4>1, <4>3 DEF Ok, asset, b
    <3> QED
      BY <3>4, <3>5 DEF asset, b
  <2>7. ToEthState(mine.state).ok
    <3>1. ~ToEthStatePanics(alloc)
      BY <2>3, <2>6 DEF ToEthStatePanics, AllocValid
    <3> QED
      BY <3>1 DEF ToEthState, Ok, alloc
  <2>8. PICK bit \in {0, 1} : sig = Sign(mine.params.parts[1].pub, mine.state, bit)
    BY DEF OriginInv
  <2> QED
    BY <2>7, <2>8 DEF Sign, Ok, alloc
<1> QED
  BY Origin, <1>1, PTL

-----------------------------------------------------------------------------
\* What a signature binds

\* An amount that fits in a word is what is left of it.
LEMMA WordHolds ==
    ASSUME NEW w \in Nat, NEW x \in 0..(w - 1)
    PROVE  x % w = x
OBVIOUS

\* The fields of what is signed.
LEMMA SignedFields ==
    ASSUME NEW state, ToEthState(state).ok
    PROVE  LET a == state.alloc
           IN  /\ ~ToEthStatePanics(a)
               /\ Signed(state).ChannelID = state.id
               /\ Signed(state).Version   = state.version
               /\ Signed(state).IsFinal   = state.isFinal
               /\ Signed(state).Backends  = a.backends
               /\ Signed(state).Assets    = [i \in DOMAIN a.assets |->
                                                ChannelAsset(a.assets[i], a.backends[i]).val]
               /\ Signed(state).Balances  = [i \in DOMAIN a.bals |-> Wrap(a.bals[i])]
<1>1. ~ToEthStatePanics(state.alloc)
  BY DEF ToEthState, Fail
<1> QED
  BY <1>1 DEF Signed, EncodeEthState, ToEthState, Ok

\* The channel ID binds the parameters that go on chain.
LEMMA IDBinds ==
    ASSUME NEW p, NEW q, p.noApp, q.noApp, IsSequence(p.parts), IsSequence(q.parts),
           Len(p.parts) = 2, Len(q.parts) = 2,
           \A i \in 1..2 : p.parts[i].kind = "good" /\ q.parts[i].kind = "good",
           p.nonce \in 0..(Word - 1), q.nonce \in 0..(Word - 1),
           CalcID(p).val = CalcID(q).val
    PROVE  /\ p.nonce = q.nonce /\ p.duration = q.duration
           /\ \A i \in 1..2 : MakeParticipant(p.parts[i]) = MakeParticipant(q.parts[i])
<1> DEFINE form(r) == [ChallengeDuration |-> r.duration,
                       Nonce             |-> r.nonce % Word,
                       Participants      |-> [i \in 1..2 |-> EthParticipant(r.parts[i])],
                       LedgerChannel     |-> r.ledger,
                       VirtualChannel    |-> r.virtual]
<1>1. DOMAIN p.parts = 1..2 /\ DOMAIN q.parts = 1..2
  BY SequenceIs
<1>2. ToEthParams(p).ok /\ CalcID(p).val = form(p)
  BY <1>1 DEF CalcID, ToEthParams, EncodeChannelParams, Ok
<1>3. ToEthParams(q).ok /\ CalcID(q).val = form(q)
  BY <1>1 DEF CalcID, ToEthParams, EncodeChannelParams, Ok
<1>4. form(p) = form(q)
  BY <1>2, <1>3
<1>5. /\ p.duration = q.duration /\ p.nonce % Word = q.nonce % Word
      /\ [i \in 1..2 |-> EthParticipant(p.parts[i])] = [i \in 1..2 |-> EthParticipant(q.parts[i])]
  BY <1>4
<1>6. p.nonce = q.nonce
  BY <1>5, WordHolds, WordAssumption
<1>7. ASSUME NEW i \in 1..2
      PROVE  MakeParticipant(p.parts[i]) = MakeParticipant(q.parts[i])
  <2>1. EthParticipant(p.parts[i]) = EthParticipant(q.parts[i])
    BY <1>5
  <2>2. MarshalParticipant(p.parts[i]) = MarshalParticipant(q.parts[i])
    BY <2>1 DEF EthParticipant
  <2>3. /\ p.parts[i].pub = q.parts[i].pub
        /\ p.parts[i].sol = q.parts[i].sol
        /\ p.parts[i].cc = q.parts[i].cc
    BY <2>2 DEF MarshalParticipant
  <2> QED
    BY <2>3 DEF MakeParticipant
<1> QED
  BY <1>5, <1>6, <1>7

\* A cross asset that goes on chain is given by its bytes.
LEMMA CrossBinds ==
    ASSUME NEW a, NEW b, IsAsset(a), IsAsset(b), IsSolana(a), IsSolana(b),
           ~TokenFails(a), ~TokenFails(b), MarshalCross(a).ok, MarshalCross(b).ok,
           MarshalCross(a).val = MarshalCross(b).val
    PROVE  a = b
<1> DEFINE prior == [NewAsset EXCEPT !.type = "solana", !.ledger = "decimal"]
<1>1. IsAsset(prior) /\ IsSolana(prior) /\ prior.ledger = "decimal"
  BY DEF IsAsset, IsSolana, NewAsset
<1>2. a.ledger = "decimal" /\ ~IsInvalid(a) /\ b.ledger = "decimal" /\ ~IsInvalid(b)
  BY DEF TokenFails
<1> HIDE DEF prior
<1>3. UnmarshalCross(prior, MarshalCross(a).val) = Ok(a)
  BY <1>1, <1>2, CrossRoundTrip
<1>4. UnmarshalCross(prior, MarshalCross(b).val) = Ok(b)
  BY <1>1, <1>2, CrossRoundTrip
<1> QED
  BY <1>3, <1>4 DEF Ok

\* The signed form of an asset binds the token that it becomes on chain.
LEMMA AssetBinds ==
    ASSUME NEW a, NEW b, NEW backend, IsAsset(a), IsAsset(b), ~TokenFails(a), ~TokenFails(b),
           backend = BackendID <=> IsSolana(a), backend = BackendID <=> IsSolana(b),
           ChannelAsset(a, backend).ok, ChannelAsset(b, backend).ok,
           ChannelAsset(a, backend).val = ChannelAsset(b, backend).val
    PROVE  /\ IsSolana(a) <=> IsSolana(b)
           /\ a.lid = b.lid
           /\ IsSolana(a) => MakeAddress(a) = MakeAddress(b)
           /\ ~IsSolana(a) => a.holder = b.holder
<1>1. CASE backend = BackendID
  <2>1. /\ ChannelAsset(a, backend) = SolanaChannelAsset(a)
        /\ ChannelAsset(b, backend) = SolanaChannelAsset(b)
    BY <1>1 DEF ChannelAsset, BackendID, ethBackendID
  <2>2. /\ MarshalCross(a).ok /\ SolanaChannelAsset(a).val.CCAsset = MarshalCross(a).val
        /\ MarshalCross(b).ok /\ SolanaChannelAsset(b).val.CCAsset = MarshalCross(b).val
    BY <2>1 DEF SolanaChannelAsset, Ok, Fail
  <2>3. a = b
    BY <1>1, <2>1, <2>2, CrossBinds
  <2> QED
    BY <1>1, <2>3
<1>2. CASE backend # BackendID
  <2>1. backend = ethBackendID
    BY <1>2 DEF ChannelAsset, Fail
  <2>2. /\ ChannelAsset(a, backend) = EthChannelAsset(a)
        /\ ChannelAsset(b, backend) = EthChannelAsset(b)
    BY <2>1 DEF ChannelAsset
  <2>3. /\ EthChannelAsset(a).val.ChainID = a.lid /\ EthChannelAsset(a).val.EthAsset = a.holder
        /\ EthChannelAsset(b).val.ChainID = b.lid /\ EthChannelAsset(b).val.EthAsset = b.holder
    BY <1>2, <2>2 DEF EthChannelAsset, Ok, Fail
  <2> QED
    BY <1>2, <2>2, <2>3
<1> QED
  BY <1>1, <1>2

\* The signed form of an allocation binds the balances and the tokens on chain.
LEMMA AllocationBinds ==
    ASSUME NEW x, IsCopy(x), NEW y, IsCopy(y), NEW fresh,
           MakeBalances(x.state.alloc, fresh).ok, MakeBalances(y.state.alloc, fresh).ok,
           Consistent(x.state.alloc), Consistent(y.state.alloc),
           ToEthState(x.state).ok, ToEthState(y.state).ok, Signed(x.state) = Signed(y.state)
    PROVE  MakeBalances(x.state.alloc, fresh).val = MakeBalances(y.state.alloc, fresh).val
<1> DEFINE a == x.state.alloc
           b == y.state.alloc
<1>1. AllocTypes(a) /\ AllocTypes(b)
  BY CopyTypes
<1>2. /\ IsSequence(a.backends) /\ IsSequence(b.backends)
      /\ \A i \in DOMAIN a.assets : IsAsset(a.assets[i])
      /\ \A i \in DOMAIN b.assets : IsAsset(b.assets[i])
  BY DEF IsCopy
<1>3. /\ ~ToEthStatePanics(a) /\ ~ToEthStatePanics(b) /\ a.backends = b.backends
      /\ [i \in DOMAIN a.assets |-> ChannelAsset(a.assets[i], a.backends[i]).val]
            = [i \in DOMAIN b.assets |-> ChannelAsset(b.assets[i], b.backends[i]).val]
      /\ [i \in DOMAIN a.bals |-> Wrap(a.bals[i])] = [i \in DOMAIN b.bals |-> Wrap(b.bals[i])]
  <2>1. /\ ~ToEthStatePanics(a) /\ Signed(x.state).Backends = a.backends
        /\ Signed(x.state).Assets = [i \in DOMAIN a.assets |->
                                        ChannelAsset(a.assets[i], a.backends[i]).val]
        /\ Signed(x.state).Balances = [i \in DOMAIN a.bals |-> Wrap(a.bals[i])]
    BY SignedFields
  <2>2. /\ ~ToEthStatePanics(b) /\ Signed(y.state).Backends = b.backends
        /\ Signed(y.state).Assets = [i \in DOMAIN b.assets |->
                                        ChannelAsset(b.assets[i], b.backends[i]).val]
        /\ Signed(y.state).Balances = [i \in DOMAIN b.bals |-> Wrap(b.bals[i])]
    BY SignedFields
  <2> HIDE DEF a, b
  <2> QED
    BY <2>1, <2>2
<1> HIDE DEF a, b
<1>4. /\ Len(a.backends) = Len(a.assets) /\ Len(b.backends) = Len(b.assets)
      /\ DOMAIN a.assets = 1..Len(a.assets) /\ DOMAIN b.assets = DOMAIN a.assets
      /\ DOMAIN a.backends = DOMAIN a.assets
      /\ \A i \in DOMAIN a.assets : /\ ChannelAsset(a.assets[i], a.backends[i]).ok
                                    /\ ChannelAsset(b.assets[i], a.backends[i]).ok
  <2>1. /\ Len(a.backends) = Len(a.assets) /\ Len(b.backends) = Len(b.assets)
        /\ \A i \in DOMAIN a.assets : ChannelAsset(a.assets[i], a.backends[i]).ok
        /\ \A i \in DOMAIN b.assets : ChannelAsset(b.assets[i], b.backends[i]).ok
    BY <1>3 DEF ToEthStatePanics
  <2>2. DOMAIN a.assets = 1..Len(a.assets) /\ DOMAIN b.assets = 1..Len(b.assets)
    BY <1>1 DEF AllocTypes
  <2>3. DOMAIN a.backends = 1..Len(a.backends)
    BY <1>2, SequenceIs
  <2> QED
    BY <1>3, <2>1, <2>2, <2>3
<1>5. /\ AllocValid(a) /\ AllocValid(b) /\ NumParts(a) >= 2 /\ NumParts(b) >= 2
      /\ MakeTokens(a.assets, fresh).ok /\ MakeTokens(b.assets, fresh).ok
      /\ \A i \in DOMAIN a.bals : \A j \in 1..NumParts(a) : a.bals[i][j] \in 0..MaxUint64
      /\ \A i \in DOMAIN b.bals : \A j \in 1..NumParts(b) : b.bals[i][j] \in 0..MaxUint64
      /\ MakeBalances(a, fresh).val =
            [Tokens |-> MakeTokens(a.assets, fresh).val,
             BalA   |-> [i \in DOMAIN a.bals |-> a.bals[i][1]],
             BalB   |-> [i \in DOMAIN a.bals |-> a.bals[i][2]]]
      /\ MakeBalances(b, fresh).val =
            [Tokens |-> MakeTokens(b.assets, fresh).val,
             BalA   |-> [i \in DOMAIN b.bals |-> b.bals[i][1]],
             BalB   |-> [i \in DOMAIN b.bals |-> b.bals[i][2]]]
  BY <1>1, BalancesMade DEF a, b
<1>6. MakeTokens(a.assets, fresh).val = MakeTokens(b.assets, fresh).val
  <2>1. \A i \in DOMAIN a.assets : ~TokenFails(a.assets[i]) /\ ~TokenFails(b.assets[i])
    BY <1>4, <1>5, TokensMade
  <2>2. \A i \in DOMAIN a.assets :
            /\ IsSolana(a.assets[i]) <=> IsSolana(b.assets[i])
            /\ a.assets[i].lid = b.assets[i].lid
            /\ IsSolana(a.assets[i]) => MakeAddress(a.assets[i]) = MakeAddress(b.assets[i])
            /\ ~IsSolana(a.assets[i]) => a.assets[i].holder = b.assets[i].holder
    <3> SUFFICES ASSUME NEW i \in DOMAIN a.assets
                 PROVE  /\ IsSolana(a.assets[i]) <=> IsSolana(b.assets[i])
                        /\ a.assets[i].lid = b.assets[i].lid
                        /\ IsSolana(a.assets[i]) =>
                                MakeAddress(a.assets[i]) = MakeAddress(b.assets[i])
                        /\ ~IsSolana(a.assets[i]) => a.assets[i].holder = b.assets[i].holder
      OBVIOUS
    <3>1. /\ a.backends[i] = BackendID <=> IsSolana(a.assets[i])
          /\ a.backends[i] = BackendID <=> IsSolana(b.assets[i])
      BY <1>3, <1>4 DEF Consistent, a, b
    <3>2. ChannelAsset(a.assets[i], a.backends[i]).val = ChannelAsset(b.assets[i], a.backends[i]).val
      BY <1>3, <1>4
    <3>3. IsAsset(a.assets[i]) /\ IsAsset(b.assets[i])
      BY <1>2, <1>4 DEF a, b
    <3> QED
      BY <1>4, <2>1, <3>1, <3>2, <3>3, AssetBinds
  <2> DEFINE token(asset, i) ==
                [chain |-> asset.lid,
                 addr  |-> IF IsSolana(asset) THEN MakeAddress(asset) ELSE fresh[i],
                 eth   |-> IF IsSolana(asset) THEN ZeroEth ELSE asset.holder]
  <2>3. \A i \in DOMAIN a.assets : token(a.assets[i], i) = token(b.assets[i], i)
    BY <2>2
  <2>4. MakeTokens(a.assets, fresh).val = [i \in DOMAIN a.assets |-> token(a.assets[i], i)]
    BY <1>5, TokensMade
  <2>5. MakeTokens(b.assets, fresh).val = [i \in DOMAIN b.assets |-> token(b.assets[i], i)]
    BY <1>5, TokensMade
  <2> HIDE DEF token
  <2> QED
    BY <1>4, <2>3, <2>4, <2>5
<1>7. /\ DOMAIN a.bals = DOMAIN b.bals
      /\ \A i \in DOMAIN a.bals : a.bals[i][1] = b.bals[i][1] /\ a.bals[i][2] = b.bals[i][2]
  <2>1. DOMAIN a.bals = DOMAIN b.bals /\ \A i \in DOMAIN a.bals : Wrap(a.bals[i]) = Wrap(b.bals[i])
    BY <1>3
  <2>2. ASSUME NEW i \in DOMAIN a.bals, NEW j \in {1, 2}
        PROVE  a.bals[i][j] = b.bals[i][j]
    <3>1. NumParts(a) \in Nat /\ NumParts(b) \in Nat
      BY <1>1, <1>5 DEF AllocValid, AllocTypes, NumParts
    <3>2. j \in 1..NumParts(a) /\ j \in 1..NumParts(b)
      BY <1>5, <3>1
    <3>3. /\ DOMAIN a.bals[i] = 1..NumParts(a) /\ DOMAIN b.bals[i] = 1..NumParts(b)
          /\ a.bals[i][j] \in 0..MaxUint64 /\ b.bals[i][j] \in 0..MaxUint64
      BY <1>1, <1>5, <2>1, <3>2 DEF AllocTypes, AllocValid
    <3>4. a.bals[i][j] % Word = Wrap(a.bals[i])[j] /\ b.bals[i][j] % Word = Wrap(b.bals[i])[j]
      BY <3>2, <3>3 DEF Wrap
    <3>5. a.bals[i][j] \in 0..(Word - 1) /\ b.bals[i][j] \in 0..(Word - 1)
      BY <3>3, WordAssumption, MaxUint64Assumption
    <3>6. a.bals[i][j] % Word = a.bals[i][j] /\ b.bals[i][j] % Word = b.bals[i][j]
      BY <3>5, WordHolds, WordAssumption
    <3> QED
      BY <2>1, <3>4, <3>6
  <2> QED
    BY <2>1, <2>2
<1>8. /\ [i \in DOMAIN a.bals |-> a.bals[i][1]] = [i \in DOMAIN b.bals |-> b.bals[i][1]]
      /\ [i \in DOMAIN a.bals |-> a.bals[i][2]] = [i \in DOMAIN b.bals |-> b.bals[i][2]]
  BY <1>7
<1>9. MakeBalances(a, fresh).val = MakeBalances(b, fresh).val
  BY <1>5, <1>6, <1>8
<1> QED
  BY <1>9 DEF a, b

\* A signature that the peer accepts binds all that is put on chain.
THEOREM SignatureBinds == Spec => []SignatureBindsChannel
<1>1. OriginInv => SignatureBindsChannel
  <2> SUFFICES ASSUME OriginInv, verdict = "true",
                      \A copy \in {mine, peer} : Openable(copy) /\ Consistent(copy.state.alloc),
                      NEW fresh \in Fresh
               PROVE  OnChain(mine, fresh) = OnChain(peer, fresh)
    BY DEF SignatureBindsChannel
  <2> DEFINE part == UnmarshalParticipant(MarshalParticipant(peer.params.parts[1]))
             pub  == mine.params.parts[1].pub
  <2>1. OnChain(mine, fresh).ok /\ OnChain(peer, fresh).ok
    BY OpenableFresh DEF Openable
  <2>2. /\ IsCopy(mine) /\ IsCopy(peer)
        /\ sig.ok /\ verdict = Verify(part, peer.state, DecodeSig(sig.val))
    BY DEF OriginInv
  <2>3. PICK bit \in {0, 1} : sig = Sign(pub, mine.state, bit)
    BY <2>2 DEF OriginInv, Pending
  <2>4. ToEthState(mine.state).ok /\ ToEthState(peer.state).ok
    BY <2>2, <2>3 DEF Sign, Verify, Fail
  <2>5. part.pub # NoPubKey
    <3>1. Len(peer.params.parts) = 2
      BY <2>1, Opened
    <3>2. 1 \in DOMAIN peer.params.parts /\ peer.params.parts[1].kind = "good"
      BY <2>2, <3>1, CopyTypes DEF OriginInv
    <3>3. peer.params.parts[1].pub # NoPubKey
      BY <2>2, <3>2 DEF IsCopy
    <3> QED
      BY <3>3 DEF UnmarshalParticipant, MarshalParticipant
  <2>6. Signed(mine.state) = Signed(peer.state)
    <3> HIDE DEF part, pub
    <3> QED
      BY <2>2, <2>3, <2>4, <2>5, SignAndVerify
  <2>7. /\ mine.state.id = peer.state.id /\ mine.state.version = peer.state.version
        /\ mine.state.isFinal = peer.state.isFinal
    <3>1. /\ Signed(mine.state).ChannelID = mine.state.id
          /\ Signed(mine.state).Version = mine.state.version
          /\ Signed(mine.state).IsFinal = mine.state.isFinal
      BY <2>4, SignedFields
    <3>2. /\ Signed(peer.state).ChannelID = peer.state.id
          /\ Signed(peer.state).Version = peer.state.version
          /\ Signed(peer.state).IsFinal = peer.state.isFinal
      BY <2>4, SignedFields
    <3> QED
      BY <2>6, <3>1, <3>2
  <2>8. MakeBalances(mine.state.alloc, fresh).val = MakeBalances(peer.state.alloc, fresh).val
    BY <2>1, <2>2, <2>4, <2>6, Opened, AllocationBinds
  <2>9. /\ mine.params.nonce = peer.params.nonce /\ mine.params.duration = peer.params.duration
        /\ \A i \in 1..2 : MakeParticipant(mine.params.parts[i]) = MakeParticipant(peer.params.parts[i])
    <3>1. CalcID(mine.params).val = CalcID(peer.params).val
      BY <2>2, <2>7 DEF IsCopy
    <3>2. /\ IsSequence(mine.params.parts) /\ mine.params.nonce \in Nat
          /\ IsSequence(peer.params.parts) /\ peer.params.nonce \in Nat
      BY <2>2 DEF IsCopy
    <3>3. /\ Len(mine.params.parts) = 2 /\ mine.params.noApp /\ mine.params.nonce < Word
          /\ Len(peer.params.parts) = 2 /\ peer.params.noApp /\ peer.params.nonce < Word
          /\ \A i \in 1..2 : mine.params.parts[i].kind = "good" /\ peer.params.parts[i].kind = "good"
      BY <2>1, Opened
    <3>4. mine.params.nonce \in 0..(Word - 1) /\ peer.params.nonce \in 0..(Word - 1)
      BY <3>2, <3>3, WordAssumption
    <3> QED
      BY <3>1, <3>2, <3>3, <3>4, IDBinds
  <2>10. OnChain(mine, fresh).val = OnChain(peer, fresh).val
    <3> DEFINE form(copy) ==
          [Params |-> [A |-> MakeParticipant(copy.params.parts[1]),
                       B |-> MakeParticipant(copy.params.parts[2]),
                       Nonce |-> copy.params.nonce,
                       ChallengeDuration |-> copy.params.duration],
           State  |-> [ChannelID |-> copy.state.id,
                       Balances  |-> MakeBalances(copy.state.alloc, fresh).val,
                       Version   |-> copy.state.version,
                       Finalized |-> copy.state.isFinal]]
    <3>1. OnChain(mine, fresh).val = form(mine)
      BY <2>1, Opened
    <3>2. OnChain(peer, fresh).val = form(peer)
      BY <2>1, Opened
    <3>3. form(mine) = form(peer)
      BY <2>7, <2>8, <2>9
    <3> QED
      BY <3>1, <3>2, <3>3
  <2>11. \A copy \in {mine, peer} : OnChain(copy, fresh) = Ok(OnChain(copy, fresh).val)
    BY <2>1 DEF OnChain, MakeOpenInstruction, Ok, Fail
  <2> QED
    BY <2>10, <2>11
<1> QED
  BY Origin, <1>1, PTL

=============================================================================
