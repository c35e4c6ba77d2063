------------------------------ MODULE Encoding ------------------------------
(***************************************************************************)
(* The package encoding: how a go-perun channel (parameters, allocation,   *)
(* state) becomes the data that the Perun program keeps on Solana.         *)
(*                                                                         *)
(* The order of the checks of a Go function is immaterial here: every      *)
(* caller treats all errors alike.                                         *)
(*                                                                         *)
(* Abstractions.  A public key is a member of a set of keys.  A balance is *)
(* an integer, and MaxUint64 stands for 2^64-1, Word for 2^256.            *)
(***************************************************************************)
EXTENDS Assets

CONSTANTS
    MaxUint64,  \* the largest amount a uint64 holds
    Word        \* one more than the largest nonce a [32]byte holds

ASSUME MaxUint64Assumption == MaxUint64 \in Nat
ASSUME WordAssumption      == Word \in Nat /\ Word > MaxUint64

(***************************************************************************)
(* Tokens                                                                  *)
(***************************************************************************)

\* MakeAddress of a valid asset
MakeAddress(asset) == IF asset.isSOL THEN ZeroKey ELSE asset.mint

TokenFails_AnyAsset(asset) ==  \* mutant: an asset that is not a multi.Asset passes
    \/ asset.type # "single" /\ asset.ledger # "decimal"
    \/ asset.type \in {"solana", "single"} /\ IsInvalid(asset)
    \/ asset.type \in {"eth", "multi"} /\ ~asset.len20

TokenFails(asset) ==
    \/ asset.type = "single"
    \/ asset.ledger # "decimal"
    \/ IsSolana(asset) /\ IsInvalid(asset)
    \/ ~IsSolana(asset) /\ ~asset.len20

\* MakeTokens: the Solana address of an asset that does not live on Solana is
\* a key generated on the spot (randomAddress): fresh[i] is the one asset i
\* would get.
MakeTokens(assets, fresh) ==
    IF \E i \in DOMAIN assets : TokenFails(assets[i])
    THEN Fail
    ELSE Ok([i \in DOMAIN assets |->
             [chain |-> assets[i].lid,
              addr  |-> IF IsSolana(assets[i]) THEN MakeAddress(assets[i]) ELSE fresh[i],
              eth   |-> IF IsSolana(assets[i]) THEN ZeroEth ELSE assets[i].holder]])

(***************************************************************************)
(* Balances                                                                *)
(***************************************************************************)

\* MakeUint64
MakeUint64(i) == IF i < 0 \/ i > MaxUint64 THEN Fail ELSE Ok(i)

\* Allocation.NumParts of go-perun: the length of a row of Balances, which is
\* indexed by asset first and by participant second.
NumParts(alloc) == Len(alloc.bals[1])

\* Allocation.Valid of go-perun: one row of balances per asset, all rows of
\* one length, no negative entry.
AllocValid(alloc) ==
    /\ Len(alloc.assets) > 0
    /\ Len(alloc.bals) = Len(alloc.assets)
    /\ NumParts(alloc) > 0
    /\ \A i \in DOMAIN alloc.bals :
        /\ Len(alloc.bals[i]) = NumParts(alloc)
        /\ \A j \in DOMAIN alloc.bals[i] : alloc.bals[i][j] >= 0

\* MakeBalances: the balances of the first two participants, asset by asset.
MakeBalances(alloc, fresh) ==
    LET tokens  == MakeTokens(alloc.assets, fresh)
        part(j) == [i \in DOMAIN alloc.bals |-> MakeUint64(alloc.bals[i][j]).val]
    IN  IF /\ AllocValid(alloc)
           /\ alloc.locked = <<>>
           /\ tokens.ok
           /\ NumParts(alloc) >= 2
           /\ \A i \in DOMAIN alloc.bals : \A j \in 1..NumParts(alloc) :
                  MakeUint64(alloc.bals[i][j]).ok
        THEN Ok([Tokens |-> tokens.val, BalA |-> part(1), BalB |-> part(2)])
        ELSE Fail

(***************************************************************************)
(* Parameters, states and instructions                                     *)
(***************************************************************************)

\* What ToParticipant and MakeParticipant make of params.Parts[i]: only a Solana
\* participant (entry 6 of the map) with a key on the curve is accepted.
PartKinds == {"good", "noSolanaPart", "noKey", "offCurve"}

MakeParticipant(part) ==
    [SolanaAddress |-> part.sol, CcAddress |-> part.cc, L2Pubkey |-> part.pub]

MakeParams_AnyPartCount(params) ==  \* mutant: the length check is forgotten
    IF /\ params.ledger /\ ~params.virtual /\ params.noApp
       /\ \A i \in DOMAIN params.parts : params.parts[i].kind = "good"
    THEN Ok([A |-> MakeParticipant(params.parts[1]), B |-> MakeParticipant(params.parts[2]),
             Nonce |-> params.nonce, ChallengeDuration |-> params.duration])
    ELSE Fail

\* MakeParams.  MakeNonce panics if the nonce needs more than 32 bytes.
MakeParams(params) ==
    IF /\ params.ledger
       /\ ~params.virtual
       /\ params.noApp
       /\ Len(params.parts) = 2
       /\ \A i \in 1..2 : params.parts[i].kind = "good"
       /\ params.nonce < Word
    THEN Ok([A |-> MakeParticipant(params.parts[1]), B |-> MakeParticipant(params.parts[2]),
             Nonce |-> params.nonce, ChallengeDuration |-> params.duration])
    ELSE Fail

\* MakeChannelState.  State.Valid of go-perun asks for a valid allocation,
\* which MakeBalances asks for again.
MakeChannelState(state, fresh) ==
    LET balances == MakeBalances(state.alloc, fresh)
    IN  IF state.noApp /\ state.noData /\ balances.ok
        THEN Ok([ChannelID |-> state.id,      Balances  |-> balances.val,
                 Version   |-> state.version, Finalized |-> state.isFinal])
        ELSE Fail

\* MakeOpenInstruction
MakeOpenInstruction(params, state, fresh) ==
    LET bParams == MakeParams(params)
        bState  == MakeChannelState(state, fresh)
    IN  IF bParams.ok /\ bState.ok
        THEN Ok([Params |-> bParams.val, State |-> bState.val])
        ELSE Fail

=============================================================================
