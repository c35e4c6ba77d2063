------------------------------- MODULE Signing -------------------------------
(***************************************************************************)
(* What the participants of a channel sign: the channel ID (CalcID), the   *)
(* Ethereum form of a state (ToEthState, EncodeEthState), Sign and Verify. *)
(*                                                                         *)
(* Hashes are the identity, on what is hashed; the ABI keeps every field   *)
(* it is given, integers modulo Word.  A signature is what it determines:  *)
(* the signer's key, what was signed, and the recovery bit.                *)
(***************************************************************************)
EXTENDS Encoding

CONSTANT NoPubKey  \* the key recovered from a signature with a wrong digest or bit

-----------------------------------------------------------------------------
\* Participants

\* Participant.MarshalBinary: public key, Solana address, cross-chain address.
MarshalParticipant(part) == <<part.pub, part.sol, part.cc>>

\* Participant.UnmarshalBinary, of something MarshalBinary made.
UnmarshalParticipant(data) ==
    [kind |-> "good", pub |-> data[1], sol |-> data[2], cc |-> data[3]]

-----------------------------------------------------------------------------
\* The channel ID

NoCcAddress == <<>>  \* 32 zero bytes

\* ToEthParams, for one participant.  One without an Ethereum address has
\* eth = ZeroEth, one without a Solana participant is of kind "noSolanaPart".
EthParticipant(part) ==
    [EthAddress |-> part.eth,
     CcAddress  |-> IF part.kind = "noSolanaPart" THEN NoCcAddress ELSE MarshalParticipant(part)]

\* ToEthParams.  MarshalBinary panics without a public key, or with one off the curve.
ToEthParams(params) ==
    IF params.noApp /\ \A i \in DOMAIN params.parts :
                            params.parts[i].kind \in {"good", "noSolanaPart"}
    THEN Ok([ChallengeDuration |-> params.duration,
             Nonce             |-> params.nonce,
             Participants      |-> [i \in DOMAIN params.parts |-> EthParticipant(params.parts[i])],
             LedgerChannel     |-> params.ledger,
             VirtualChannel    |-> params.virtual])
    ELSE Fail

EncodeChannelParams(ethParams) == [ethParams EXCEPT !.Nonce = @ % Word]

CalcID(params) ==
    IF ToEthParams(params).ok THEN Ok(EncodeChannelParams(ToEthParams(params).val)) ELSE Fail

-----------------------------------------------------------------------------
\* The Ethereum form of a state

EthChannelAsset_OnlyEthAsset(asset) ==  \* mutant: the cast is to *EthAsset
    IF asset.type # "eth" \/ asset.ledger # "decimal" THEN Fail
    ELSE Ok([ChainID |-> asset.lid, EthAsset |-> asset.holder, CCAsset |-> NoCcAddress])

\* assetToEthAsset.  The address of an asset on Solana is its mint, or empty.
EthChannelAsset(asset) ==
    IF asset.type = "single" \/ asset.ledger # "decimal" THEN Fail
    ELSE Ok([ChainID  |-> asset.lid,
             EthAsset |-> IF ~IsSolana(asset) THEN asset.holder
                          ELSE IF asset.isSOL \/ asset.mint = NoMint THEN ZeroEth
                          ELSE asset.mint,
             CCAsset  |-> NoCcAddress])

SolanaChannelAsset_ByAddress(asset) ==  \* mutant: Address() for MarshalBinary()
    IF ~IsSolana(asset) THEN Fail
    ELSE Ok([ChainID |-> BackendID, EthAsset |-> ZeroEth, CCAsset |-> <<MakeAddress(asset)>>])

\* assetToSolanaAsset
SolanaChannelAsset(asset) ==
    IF ~IsSolana(asset) \/ ~MarshalCross(asset).ok THEN Fail
    ELSE Ok([ChainID |-> BackendID, EthAsset |-> ZeroEth, CCAsset |-> MarshalCross(asset).val])

ChannelAsset(asset, backend) ==
    IF backend = ethBackendID   THEN EthChannelAsset(asset)
    ELSE IF backend = BackendID THEN SolanaChannelAsset(asset)
    ELSE Fail

\* The index map of a sub-allocation, for n participants: the identity if there
\* is none, filled up with zeros if it is too short.
IndexMap(sub, n) ==
    [i \in 1..n |-> IF sub.indexMap = <<>>         THEN i - 1
                    ELSE IF i > Len(sub.indexMap)  THEN 0
                    ELSE sub.indexMap[i]]

\* ToEthState panics: an entry of Backends for each asset and no more, known
\* backends, assets that fit them, a row of balances for each asset, and index
\* maps that fit the participants are taken for granted.
ToEthStatePanics(alloc) ==
    \/ Len(alloc.backends) # Len(alloc.assets)
    \/ Len(alloc.bals) # Len(alloc.assets)
    \/ \E i \in DOMAIN alloc.assets : ~ChannelAsset(alloc.assets[i], alloc.backends[i]).ok
    \/ \E i \in DOMAIN alloc.locked : Len(alloc.locked[i].indexMap) > NumParts(alloc)

ToEthState(state) ==
    LET alloc == state.alloc
    IN  IF ToEthStatePanics(alloc) THEN Fail
        ELSE Ok([ChannelID |-> state.id,
                 Version   |-> state.version,
                 Assets    |-> [i \in DOMAIN alloc.assets |->
                                 ChannelAsset(alloc.assets[i], alloc.backends[i]).val],
                 Backends  |-> alloc.backends,
                 Balances  |-> alloc.bals,
                 Locked    |-> [i \in DOMAIN alloc.locked |->
                                 [ID       |-> alloc.locked[i].id,
                                  Balances |-> alloc.locked[i].bals,
                                  IndexMap |-> IndexMap(alloc.locked[i], NumParts(alloc))]],
                 AppData   |-> state.noData,
                 IsFinal   |-> state.isFinal])

\* uint256 amounts
Wrap(amounts) == [i \in DOMAIN amounts |-> amounts[i] % Word]

\* EncodeEthState
EncodeEthState(ethState) ==
    [ethState EXCEPT
        !.Balances = [i \in DOMAIN @ |-> Wrap(@[i])],
        !.Locked   = [i \in DOMAIN @ |-> [@[i] EXCEPT !.Balances = Wrap(@)]]]

-----------------------------------------------------------------------------
\* Signatures

\* Account.SignData: the last of the 65 bytes is the recovery bit plus 27.
SignData(pub, msg, bit) == [by |-> pub, of |-> msg, bit |-> bit, v |-> bit + 27]

\* checkBackends
checkBackends(backends) == \E i \in DOMAIN backends : backends[i] = BackendID

\* backend.Sign
Sign(pub, state, bit) ==
    IF checkBackends(state.alloc.backends) /\ ToEthState(state).ok
    THEN Ok(SignData(pub, EncodeEthState(ToEthState(state).val), bit))
    ELSE Fail

DecodeSig_64(sig) ==  \* mutant: SignatureLength bytes are read; VerifySignature fills up
    [sig EXCEPT !.v = 0]

\* DecodeSig reads 65 bytes, not SignatureLength = 64.
DecodeSig(sig) == sig

\* crypto.SigToPub
SigToPub(msg, sig, v) == IF msg = sig.of /\ v = sig.bit THEN sig.by ELSE NoPubKey

\* VerifySignature
VerifySignature(msg, sig, part) ==
    SigToPub(msg, sig, IF sig.v >= 27 THEN sig.v - 27 ELSE sig.v) = part.pub

\* backend.Verify, which does not look at the backends first.
Verify(part, state, sig) ==
    IF ~ToEthState(state).ok THEN "panic"
    ELSE IF VerifySignature(EncodeEthState(ToEthState(state).val), sig, part) THEN "true" ELSE "false"

=============================================================================
