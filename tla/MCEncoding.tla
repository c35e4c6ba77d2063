---------------------------- MODULE MCEncoding ----------------------------
(***************************************************************************)
(* Instances of Agreement for TLC.  On the first set of inputs both sides  *)
(* hold the same copy, and the allocation varies; on the second, the two   *)
(* copies are independent variants of one channel.                         *)
(***************************************************************************)
EXTENDS Agreement, TLC

CONSTANTS Mint1, Mint2, Rnd1, Rnd2, Holder, PubA, PubB, SolA, SolB, CcA, CcB

\* The base58 bytes of the IDs 6, 11 and 1; 10 is not base58, which has no digit 0.
Base58Def == (6 :> <<5>>) @@ (11 :> <<0, 0>>) @@ (1 :> <<0>>)

SolAsset(mint, isSOL) == [type |-> "solana", ledger |-> "decimal", lid |-> 6, isSOL |-> isSOL,
                          mint |-> mint, len20 |-> FALSE, holder |-> ZeroEth]
OtherAsset(type, ledger, len20) == [type |-> type, ledger |-> ledger, lid |-> 1, isSOL |-> FALSE,
                          mint |-> NoMint, len20 |-> len20, holder |-> Holder]

GoodAssets == {SolAsset(NoMint, TRUE), SolAsset(Mint1, FALSE), OtherAsset("eth", "decimal", TRUE)}
OddAssets  == {SolAsset(Mint2, FALSE), SolAsset(NoMint, FALSE), SolAsset(Mint1, TRUE),
               [SolAsset(Mint1, FALSE) EXCEPT !.lid = 10],
               OtherAsset("multi", "decimal", TRUE), OtherAsset("multi", "decimal", FALSE),
               OtherAsset("multi", "nil", TRUE), OtherAsset("multi", "text", TRUE),
               OtherAsset("single", "nil", TRUE)}

Backend(asset)   == IF asset.type = "solana" THEN BackendID ELSE ethBackendID
Backends(assets) == SubSeq(<<Backend(assets[1]), Backend(assets[Len(assets)])>>, 1, Len(assets))

Alloc(assets, bals) ==
    [assets |-> assets, backends |-> Backends(assets), bals |-> bals, locked |-> <<>>]
Pairs(S, T) == (S \X T) \cup (T \X S)

Sub(indexMap) == [id |-> 1, bals |-> <<1, 0>>, indexMap |-> indexMap]

\* Amounts around the limits of a uint64, every zero pattern on two assets, and
\* three participants.
Kinds == GoodAssets \cup OddAssets
Rows(amounts) == amounts \X amounts
TestAllocs ==
    {Alloc(<<a>>, <<b>>) : a \in Kinds, b \in Rows({-1, 0, MaxUint64, MaxUint64 + 1})}
    \cup {Alloc(a, b) : a \in Pairs(GoodAssets, Kinds), b \in Rows(Rows({0, 1}))}
    \cup {Alloc(a, b) : a \in GoodAssets \X GoodAssets, b \in Rows(Rows({1, MaxUint64 + 1}))}
    \cup {Alloc(<<a>>, <<b>>) : a \in GoodAssets, b \in {0, 1} \X {0, 1} \X {0, 1}}

-----------------------------------------------------------------------------
PartA == [kind |-> "good", pub |-> PubA, sol |-> SolA, cc |-> CcA, eth |-> Holder]
PartB == [kind |-> "good", pub |-> PubB, sol |-> SolB, cc |-> CcB, eth |-> ZeroEth]

Params(n) == [ledger |-> TRUE, virtual |-> FALSE, noApp |-> TRUE, nonce |-> 0, duration |-> 0,
              parts |-> SubSeq(<<PartA, PartB, PartB>>, 1, n)]
\* go-perun makes a channel from its parameters: the ID is theirs, and the state
\* has as many participants.
Copy(params, alloc0, noData) ==
    [params |-> params,
     state  |-> [id |-> CalcID(params).val, version |-> 0, isFinal |-> FALSE, alloc |-> alloc0,
                 noApp |-> TRUE, noData |-> noData]]

SameCopy ==
    { [mine |-> c, peer |-> c] : c \in { Copy(Params(NumParts(a)), a, TRUE) : a \in TestAllocs } }

\* One field changed, or none: of the parameters, ...
Base == Copy(Params(2), [assets |-> <<SolAsset(Mint1, FALSE), OtherAsset("eth", "decimal", TRUE)>>,
                         backends |-> <<BackendID, ethBackendID>>,
                         bals |-> <<<<1, 0>>, <<0, 1>>>>, locked |-> <<>>], TRUE)
ParamVariants ==
    { Copy(p, Base.state.alloc, TRUE) : p \in
        { [Params(2) EXCEPT !.nonce = 1], [Params(2) EXCEPT !.nonce = Word],
          [Params(2) EXCEPT !.duration = 1], [Params(2) EXCEPT !.virtual = TRUE],
          [Params(2) EXCEPT !.ledger = FALSE],
          [Params(2) EXCEPT !.parts[1].pub = PubB], [Params(2) EXCEPT !.parts[1].sol = SolB],
          [Params(2) EXCEPT !.parts[2].cc = CcA],   [Params(2) EXCEPT !.parts[2].eth = Holder],
          [Params(2) EXCEPT !.parts[2].kind = "noSolanaPart"] } }

\* ... of the state, ...
StateVariants ==
    { Base, [Base EXCEPT !.state.version = 1], [Base EXCEPT !.state.isFinal = TRUE],
      [Base EXCEPT !.state.noData = FALSE] }

\* ... of the allocation.
AllocVariants ==
    { [Base EXCEPT !.state.alloc.assets[1] = a] :
        a \in { SolAsset(Mint2, FALSE), SolAsset(NoMint, TRUE), SolAsset(Mint1, TRUE),
                [SolAsset(Mint1, FALSE) EXCEPT !.lid = 11],
                [SolAsset(Mint1, FALSE) EXCEPT !.lid = 10] } }
    \cup { [Base EXCEPT !.state.alloc.assets[2] = a] :
        a \in { [Base.state.alloc.assets[2] EXCEPT !.lid = 11],
                [Base.state.alloc.assets[2] EXCEPT !.holder = ZeroEth],
                OtherAsset("multi", "decimal", TRUE), OtherAsset("multi", "decimal", FALSE) } }
    \cup { [Base EXCEPT !.state.alloc.bals = b] :
        b \in { <<<<0, 1>>, <<0, 1>>>>, <<<<1, 0>>, <<1, 0>>>>,
                <<<<1 - Word, 0>>, <<0, 1>>>>, <<<<1 + Word, 0>>, <<0, 1>>>> } }
    \cup { [Base EXCEPT !.state.alloc.backends = b] :
        b \in { <<>>, <<BackendID>>, <<ethBackendID, ethBackendID>>, <<BackendID, BackendID>>,
                <<BackendID, ethBackendID, ethBackendID>>, <<BackendID, 2>> } }
    \cup { [Base EXCEPT !.state.alloc.locked = <<Sub(m)>>] :
        m \in { <<>>, <<0, 1>>, <<1>>, <<1, 0>>, <<0, 1, 2>> } }

Variants == ParamVariants \cup StateVariants \cup AllocVariants

TestInputs == SameCopy \cup [mine : Variants, peer : Variants]

FreshDef == [1..2 -> {Rnd1, Rnd2}]
AssetAddrsDef == {ZeroKey, Mint1}

=============================================================================
