SPECIFICATION NodeFairSpec
CONSTANTS
    MaxUint64 = 2
    Word = 4
    ZeroKey = ZeroKey
    NoMint = NoMint
    ZeroEth = ZeroEth
    Base58 <- Base58Def
    Mint = Mint
    OtherMint = OtherMint
    RandomKey = RandomKey
    AssetAddrs <- AssetAddrsDef
    Requests <- NodeRequests
    MaxIters = 1
    MaxCalls = 1
    RetryInFlight = FALSE
    RejectsRefund = FALSE
    Faults = {"rpc", "cancel"}
    Me = 0
    o1 = o1
    Others = {o1}
    Local = Local
    Unset = Unset
    NoCaller = NoCaller
    Validity = 1
    ConfirmTimeout = 1
INVARIANTS
    FatesAgree
    NothingLeftInFlight
PROPERTIES
    FunderSpec
    ReturnsOrAwaitsBalance
CHECK_DEADLOCK FALSE
