----------------------------- MODULE Agreement -----------------------------
(***************************************************************************)
(* One state of a channel on its way to the chain.  A participant signs    *)
(* its copy; the peer verifies the signature against its own copy, which   *)
(* need not be the same.  Whoever goes on chain encodes its copy twice:    *)
(* for Open, and in FundChannel, each time with fresh random keys for the  *)
(* assets that do not live on Solana.                                      *)
(*                                                                         *)
(* The packages channel, wallet, encoding and funder are pure here: what   *)
(* may go wrong is that they disagree on what a state is.                  *)
(***************************************************************************)
EXTENDS Signing, FundingChecks

CONSTANTS
    Inputs,  \* records [mine, peer], both [params, state]
    Fresh    \* the random keys, one for each asset

\* What go-perun sees to: a state belongs to its parameters, by its ID and by the
\* number of its participants.  The rest is what the Go types say.
IsSequence(s) == s \in Seq({s[i] : i \in DOMAIN s})

IsAsset(asset) ==
    /\ asset.isSOL \in BOOLEAN
    /\ IsSolana(asset) => asset = [NewAsset EXCEPT !.type   = "solana",    !.ledger = asset.ledger,
                                                  !.lid    = asset.lid,   !.isSOL  = asset.isSOL,
                                                  !.mint   = asset.mint]

IsCopy(copy) ==
    LET params == copy.params
        a      == copy.state.alloc
    IN  /\ copy.state.id = CalcID(params).val
        /\ IsSequence(params.parts) /\ params.nonce \in Nat
        /\ \A i \in DOMAIN params.parts :
                params.parts[i].kind = "good" => params.parts[i].pub # NoPubKey
        /\ IsSequence(a.assets) /\ \A i \in DOMAIN a.assets : IsAsset(a.assets[i])
        /\ IsSequence(a.backends) /\ IsSequence(a.bals)
        /\ \A i \in DOMAIN a.bals : a.bals[i] \in Seq(Int)
        /\ Len(a.bals) > 0 => NumParts(a) = Len(params.parts)

ASSUME InputsAssumption ==
    \A input \in Inputs : IsCopy(input.mine) /\ IsCopy(input.peer)

VARIABLES
    mine,    \* what the signer holds; it is participant 1, party A
    peer,    \* what the verifier holds
    sig,     \* result of Sign, or Pending
    verdict, \* result of Verify, or "pending"
    opened,  \* result of MakeOpenInstruction, or Pending
    funding  \* result of MakeBalances in FundChannel, or Pending

vars == <<mine, peer, sig, verdict, opened, funding>>

Pending == [ok |-> FALSE, pending |-> TRUE]

Init ==
    /\ \E input \in Inputs : mine = input.mine /\ peer = input.peer
    /\ sig = Pending
    /\ verdict = "pending"
    /\ opened  = Pending
    /\ funding = Pending

-----------------------------------------------------------------------------
\* The signer signs with its account.
SignState ==
    /\ sig = Pending
    /\ \E bit \in {0, 1} : sig' = Sign(mine.params.parts[1].pub, mine.state, bit)
    /\ UNCHANGED <<mine, peer, verdict, opened, funding>>

\* The signature and the signer's participant come over the wire.  The peer knows
\* the signer by what its copy of the parameters says.
VerifyState ==
    /\ sig.ok /\ verdict = "pending"
    /\ peer.params.parts[1].kind = "good"
    /\ LET signer == UnmarshalParticipant(MarshalParticipant(peer.params.parts[1]))
       IN  verdict' = Verify(signer, peer.state, DecodeSig(sig.val))
    /\ UNCHANGED <<mine, peer, sig, opened, funding>>

Open ==
    /\ opened = Pending
    /\ \E fresh \in Fresh : opened' = MakeOpenInstruction(mine.params, mine.state, fresh)
    /\ UNCHANGED <<mine, peer, sig, verdict, funding>>

FundChannel ==
    /\ funding = Pending
    /\ \E fresh \in Fresh : funding' = MakeBalances(mine.state.alloc, fresh)
    /\ UNCHANGED <<mine, peer, sig, verdict, opened>>

Next == SignState \/ VerifyState \/ Open \/ FundChannel

Spec == Init /\ [][Next]_vars

-----------------------------------------------------------------------------
\* What the signature is for

\* Backends says on which chain an asset lives, as its Go type does.
Consistent(alloc) ==
    \A i \in DOMAIN alloc.assets :
        i \in DOMAIN alloc.backends =>
            (alloc.backends[i] = BackendID) = IsSolana(alloc.assets[i])

\* What a copy becomes on chain.
OnChain(copy, fresh) == MakeOpenInstruction(copy.params, copy.state, fresh)
Openable(copy) == \E fresh \in Fresh : OnChain(copy, fresh).ok

\* A signature binds all that is put on chain: if the peer accepts it, then the two
\* copies would open the same channel with the same state (parameters by way of the
\* channel ID, tokens by way of the codec of the assets), although the signed form
\* and the on-chain form are made by different code from different parts of a state.
SignatureBindsChannel ==
    /\ verdict = "true"
    /\ \A copy \in {mine, peer} : Openable(copy) /\ Consistent(copy.state.alloc)
    => \A fresh \in Fresh : OnChain(mine, fresh) = OnChain(peer, fresh)

\* A signature is accepted by a peer with the same copy: neither its recovery byte
\* nor the signer's public key is lost on the wire.
OwnSignatureVerifies ==
    mine = peer => verdict \in {"pending", "true"}

\* A channel with assets on Solana that can be opened can be signed, with two
\* exceptions, in which Sign panics or refuses: Backends does not fit the assets,
\* which Open never looks at, or the decimal ledger ID of an asset is not base58.
OpenableIsSignable ==
    /\ Openable(mine)
    /\ Consistent(mine.state.alloc)
    /\ Len(mine.state.alloc.backends) = Len(mine.state.alloc.assets)
    /\ checkBackends(mine.state.alloc.backends)
    /\ \A i \in DOMAIN mine.state.alloc.backends :
            mine.state.alloc.backends[i] \in {BackendID, ethBackendID}
    /\ \A i \in DOMAIN mine.state.alloc.assets :
            IsSolana(mine.state.alloc.assets[i]) => mine.state.alloc.assets[i].lid \in DOMAIN Base58
    => sig.ok \/ sig = Pending

\* A cross asset survives its codec, into whatever variable it is decoded.
CodecRoundTrip ==
    \A i \in DOMAIN mine.state.alloc.assets, j \in DOMAIN peer.state.alloc.assets :
        LET asset == mine.state.alloc.assets[i]
            prior == peer.state.alloc.assets[j]
            data  == MarshalCross(asset)
        IN  IsSolana(asset) /\ IsSolana(prior) /\ ~IsInvalid(asset) /\ data.ok
            /\ asset.ledger = prior.ledger => UnmarshalCross(prior, data.val) = Ok(asset)

\* What go-perun decodes from the bytes of a cross asset, by way of NewAsset, is
\* another type and, if the decoding does not fail, another asset: it is refused
\* before it gets on chain.
WireAssetRefused ==
    \A i \in DOMAIN mine.state.alloc.assets :
        LET asset == mine.state.alloc.assets[i]
        IN  IsSolana(asset) /\ MarshalCross(asset).ok =>
                LET got == Received(MarshalCross(asset).val)
                IN  got.ok => ~MakeTokens(<<got.val>>, <<ZeroKey>>).ok

-----------------------------------------------------------------------------
\* What the encoding and the funder make of an allocation

alloc == mine.state.alloc

\* Two assets and two participants, each of whom holds all of one asset.
Swap ==
    /\ AllocValid(alloc) /\ Len(alloc.assets) = 2 /\ NumParts(alloc) = 2
    /\ \A i \in 1..2 : \E p \in 1..2 :
        /\ alloc.bals[i][p] # 0
        /\ alloc.bals[i][3 - p] = 0
        /\ alloc.bals[3 - i][3 - p] # 0

\* An open instruction puts on chain exactly the shares of the allocation: no
\* amount is truncated, handed to the other party or left out.  (The balances
\* of a third participant would be left out by MakeBalances; only the checks of
\* MakeParams keep such a channel from being opened.)
SharesExactOnChain ==
    opened.ok =>
        LET bals == opened.val.State.Balances
        IN  \A i \in DOMAIN alloc.bals :
                /\ alloc.bals[i] = <<bals.BalA[i], bals.BalB[i]>>
                /\ bals.BalA[i] \in 0..MaxUint64 /\ bals.BalB[i] \in 0..MaxUint64

\* In a swap (two assets, each party holds all of one of them) needFunding tells
\* each party to deposit exactly when the asset it holds lives on Solana.
NeedFundingExactOnSwaps ==
    Swap => \A p \in {0, 1} : shouldFund(p, alloc) = (IF Owes(p, alloc) THEN "yes" ELSE "no")

\* A party that is told to deposit, in a channel all of whose Solana assets its
\* funder serves, is not turned away by the asset check of FundChannel, whatever
\* random keys the other assets got.
PayerNotRefused ==
    funding.ok =>
        ( /\ \E p \in {0, 1} : shouldFund(p, alloc) = "yes"
          /\ \A i \in DOMAIN alloc.assets : IsSolana(alloc.assets[i]) =>
                MakeAddress(alloc.assets[i]) \in AssetAddrs
          => containsAllAssets(funding.val.Tokens, AssetAddrs) )

\* funder.go:288: "needFunding checks if a participant needs to fund the channel",
\* read as: in a channel that can be opened it says yes exactly to a participant with
\* a share of a Solana asset.
NeedFundingExact ==
    opened.ok /\ Len(alloc.assets) = 2 =>
        \A p \in {0, 1} : (shouldFund(p, alloc) = "yes") = Owes(p, alloc)

\* funder.go:265: "Function to check if all assets in state.Allocation are present
\* in f.assetAddrs".
AllAssetsServed ==
    funding.ok /\ containsAllAssets(funding.val.Tokens, AssetAddrs) =>
        \A i \in DOMAIN funding.val.Tokens :
            IsSolana(alloc.assets[i]) => funding.val.Tokens[i].addr \in AssetAddrs

=============================================================================
