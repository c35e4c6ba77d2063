------------------------------- MODULE Assets -------------------------------
(***************************************************************************)
(* The asset types of package channel and their binary forms.              *)
(*                                                                         *)
(* An asset is a record of what the code distinguishes: its Go type, its   *)
(* ledger ID lid (and whether that parses as a decimal number), for a      *)
(* Solana asset isSOL and mint, for every other asset its 20-byte holder   *)
(* address (and whether it has 20 bytes).                                  *)
(*                                                                         *)
(* A Go function that returns (value, error) is an operator that returns   *)
(* Fail, or Ok(value); a panic is a Fail too, since no caller recovers.    *)
(* Bytes are sequences whose elements are the units the code writes at     *)
(* once: a magic byte, a length, a key.                                    *)
(***************************************************************************)
EXTENDS Integers, Sequences, FiniteSets

CONSTANTS
    ZeroKey,    \* solana.PublicKey{}: the address that stands for SOL
    NoMint,     \* the nil pointer in SolanaAsset.Mint
    ZeroEth,    \* common.Address{}
    Base58      \* a function: the ledger IDs that are base58 strings to their bytes

ASSUME Base58Assumption ==
    \A i, j \in DOMAIN Base58 :
        /\ Base58[i] \in Seq(0..255) /\ Base58[i] # <<>>
        /\ Base58[i] = Base58[j] => i = j

Fail  == [ok |-> FALSE]
Ok(v) == [ok |-> TRUE, val |-> v]

BackendID    == 6
ethBackendID == 1

\* The ledger ID of an asset: a nil LedgerID, one whose map key is not a
\* decimal number, or a number.
LedgerKinds == {"nil", "text", "decimal"}

\* *channel.SolanaCrossAsset, *channel.EthAsset, any other multi.Asset, and
\* an asset that is not a multi.Asset at all (*channel.SolanaAsset).
AssetTypes == {"solana", "eth", "multi", "single"}

IsSolana(asset) == asset.type = "solana"

\* SolanaAsset.IsInvalid
IsInvalid(asset) == asset.isSOL = (asset.mint # NoMint)

-----------------------------------------------------------------------------
\* Binary forms

SOLMagic == 0
SPLMagic == 1

\* ContractLID.MarshalBinary: the string is taken for base58.
MarshalLID(lid) == IF lid \in DOMAIN Base58 THEN Ok(Base58[lid]) ELSE Fail

\* ContractLID.UnmarshalBinary
UnmarshalLID(data) ==
    IF data = <<>> THEN Fail ELSE Ok(CHOOSE lid \in DOMAIN Base58 : Base58[lid] = data)

\* SolanaAsset.MarshalBinary; it dereferences the mint of a token.
MarshalAsset(asset) ==
    IF asset.isSOL             THEN Ok(<<SOLMagic>>)
    ELSE IF asset.mint = NoMint THEN Fail
    ELSE Ok(<<SPLMagic, asset.mint>>)

\* solana.PublicKeyFromBytes never fails: what is not a key becomes one.
KeyFromBytes(data) == IF data = <<>> THEN ZeroKey ELSE IF Len(data) = 1 THEN data[1] ELSE data

UnmarshalAsset_KeepsMint(prior, data) ==  \* mutant: sa.Mint = nil is forgotten
    IF data = <<>>               THEN Fail
    ELSE IF data[1] = SOLMagic   THEN Ok([prior EXCEPT !.isSOL = TRUE])
    ELSE IF data[1] = SPLMagic   THEN Ok([prior EXCEPT !.isSOL = FALSE,
                                                       !.mint  = KeyFromBytes(Tail(data))])
    ELSE Fail

\* SolanaAsset.UnmarshalBinary, into the asset prior.
UnmarshalAsset(prior, data) ==
    IF data = <<>>               THEN Fail
    ELSE IF data[1] = SOLMagic   THEN Ok([prior EXCEPT !.isSOL = TRUE, !.mint = NoMint])
    ELSE IF data[1] = SPLMagic   THEN Ok([prior EXCEPT !.isSOL = FALSE,
                                                       !.mint  = KeyFromBytes(Tail(data))])
    ELSE Fail

\* perunio writes what a MarshalBinary returns behind its length, in two bytes,
\* the low one first.
Prefixed(data) == <<Len(data), 0>> \o data

\* SolanaCrossAsset.MarshalBinary
MarshalCross(asset) ==
    LET lid  == MarshalLID(asset.lid)
        body == MarshalAsset(asset)
    IN  IF lid.ok /\ body.ok
        THEN Ok(Prefixed(lid.val) \o <<BackendID>> \o Prefixed(body.val))
        ELSE Fail

\* SolanaCrossAsset.UnmarshalBinary, of something MarshalBinary made.
UnmarshalCross(prior, data) ==
    LET n    == data[1]
        lid  == UnmarshalLID(SubSeq(data, 3, n + 2))
        body == UnmarshalAsset(prior, SubSeq(data, n + 6, Len(data)))
    IN  IF lid.ok /\ body.ok THEN Ok([body.val EXCEPT !.lid = lid.val]) ELSE Fail

\* What becomes of an asset that arrives in a message of go-perun, which decodes it
\* into backend.NewAsset(): that is a *SolanaAsset, not a *SolanaCrossAsset.
NewAsset == [type |-> "single", ledger |-> "nil", lid |-> 0, isSOL |-> TRUE, mint |-> NoMint,
             len20 |-> FALSE, holder |-> ZeroEth]
Received(data) == UnmarshalAsset(NewAsset, data)

=============================================================================
