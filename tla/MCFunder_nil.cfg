SPECIFICATION Spec
CONSTANTS
    MaxUint64 = 2
    Word = 4
    ZeroKey = ZeroKey
    NoMint = NoMint
    ZeroEth = ZeroEth
    Base58 <- Base58Def
    Mint = Mint
    OtherMint = OtherMint
    RandomKey = RandomKey
    AssetAddrs <- AssetAddrsDef
    Requests <- Swaps
    MaxIters = 2
    MaxCalls = 1
    RetryInFlight = FALSE
    RejectsRefund = FALSE
    Faults = {"rpc"}
INVARIANT NilMeansDeposited
CHECK_DEADLOCK FALSE
