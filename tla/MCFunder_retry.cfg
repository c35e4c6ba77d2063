SPECIFICATION Spec
CONSTANTS
    MaxUint64 = 2
    Word = 4
    ZeroKey = ZeroKey
    NoMint = NoMint
    ZeroEth = ZeroEth
    Base58 <- Base58Def
    Mint = Mint
    OtherMint = OtherMint
    RandomKey = RandomKey
    AssetAddrs <- AssetAddrsDef
    Requests <- AllRequests
    MaxIters = 2
    MaxCalls = 2
    RetryInFlight = FALSE
    RejectsRefund = FALSE
    Faults = {"rpc", "cancel", "crash"}
INVARIANTS
    TypeOK
    AtMostOneDeposit
    NilLeavesNothingInFlight
    FundTxNeedsOpenChannel
    NilReturnJustified
    PanicOnlyOneAsset
PROPERTY FundingSpec
CHECK_DEADLOCK FALSE
