SPECIFICATION Spec
CONSTANTS
    MaxUint64 = 2
    Word = 4
    ZeroKey = ZeroKey
    NoMint = NoMint
    ZeroEth = ZeroEth
    NoPubKey = NoPubKey
    Mint1 = Mint1
    Mint2 = Mint2
    Rnd1 = Rnd1
    Rnd2 = Rnd2
    Holder = Holder
    PubA = PubA
    PubB = PubB
    SolA = SolA
    SolB = SolB
    CcA = CcA
    CcB = CcB
    Base58 <- Base58Def
    AssetAddrs <- AssetAddrsDef
    Inputs <- TestInputs
    Fresh <- FreshDef
INVARIANT NeedFundingExact
CHECK_DEADLOCK FALSE
