SPECIFICATION LiveSpec
CONSTANTS
    MaxUint64 = 2
    Word = 4
    ZeroKey = ZeroKey
    NoMint = NoMint
    ZeroEth = ZeroEth
    Base58 <- Base58Def
    Mint = Mint
    OtherMint = OtherMint
    RandomKey = RandomKey
    AssetAddrs <- AssetAddrsDef
    Requests <- Swaps
    MaxIters = 3
    MaxCalls = 1
    RetryInFlight = FALSE
    RejectsRefund = FALSE
    Faults = {}
PROPERTIES
    FundReturns
    DepositedUnlessNotOpened
CHECK_DEADLOCK FALSE
