SPECIFICATION Spec
CONSTANTS
    MaxUint64 = 2
    Word = 4
    ZeroKey = ZeroKey
    NoMint = NoMint
    ZeroEth = ZeroEth
    Base58 <- Base58Def
    Mint = Mint
    OtherMint = OtherMint
    RandomKey = RandomKey
    AssetAddrs <- AssetAddrsDef
    Requests <- Swaps
    MaxIters = 2
    MaxCalls = 2
    RetryInFlight = FALSE
    RejectsRefund = FALSE
    Faults = {"rpc", "cancel", "crash"}
PROPERTY OpensOnlyUnopened
CHECK_DEADLOCK FALSE
