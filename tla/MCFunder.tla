------------------------------ MODULE MCFunder ------------------------------
(***************************************************************************)
(* Instances of Funder for TLC.  Requests name the shapes of channel that  *)
(* make the funder behave differently.                                     *)
(***************************************************************************)
EXTENDS FundingRefinement, TLC

CONSTANTS Mint, OtherMint

Part   == [kind |-> "good", pub |-> 0, sol |-> 0, cc |-> 0, eth |-> ZeroEth]
Params == [ledger |-> TRUE, virtual |-> FALSE, noApp |-> TRUE, nonce |-> 0, duration |-> 0,
           parts |-> <<Part, Part>>]
Asset(type, isSOL, mint) ==
    [type |-> type, ledger |-> "decimal", lid |-> 6, isSOL |-> isSOL, mint |-> mint,
     len20 |-> type # "solana", holder |-> ZeroEth]
Request(assets, bals) ==
    [params |-> Params,
     state  |-> [id |-> 0, version |-> 0, isFinal |-> FALSE, noApp |-> TRUE, noData |-> TRUE,
                 alloc |-> [assets |-> assets, backends |-> [i \in DOMAIN assets |-> BackendID],
                            bals |-> bals, locked |-> <<>>]]]

Sol   == Asset("solana", TRUE, NoMint)
Token == Asset("solana", FALSE, Mint)
Alien == Asset("solana", FALSE, OtherMint)  \* a token the funder does not serve
Eth   == Asset("eth", FALSE, NoMint)

SolSwap    == Request(<<Sol, Token>>, <<<<1, 0>>, <<0, 1>>>>)  \* both deposit
CrossSwap  == Request(<<Eth, Sol>>, <<<<0, 1>>, <<1, 0>>>>)    \* only A deposits
CrossSwapB == Request(<<Sol, Eth>>, <<<<0, 1>>, <<1, 0>>>>)    \* only B deposits
OneAsset   == Request(<<Sol>>, <<<<1, 1>>>>)                   \* panics
OneAssetB  == Request(<<Eth>>, <<<<1, 1>>>>)                   \* panics earlier
Refused    == Request(<<Alien, Eth>>, <<<<1, 1>>, <<1, 1>>>>)  \* opened, never funded
TooLarge   == Request(<<Sol, Eth>>, <<<<1, 0>>, <<0, MaxUint64 + 1>>>>)  \* never opened
AllWithA   == Request(<<Sol, Token>>, <<<<1, 0>>, <<1, 0>>>>)  \* B is told to deposit nothing

Swaps       == {SolSwap, CrossSwap, CrossSwapB}
AllRequests == Swaps \cup {OneAsset, OneAssetB, Refused, TooLarge, AllWithA}

\* The funder reads no binary form of an asset.
Base58Def     == <<>>
AssetAddrsDef == {ZeroKey, Mint}
=============================================================================
