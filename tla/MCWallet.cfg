SPECIFICATION FairSpec
CONSTANTS
    c1 = c1
    c2 = c2
    c3 = c3
    S = S
    PubA = PubA
    PubB = PubB
    NoCc = NoCc
    Nothing = Nothing
    NoCaller = NoCaller
    Callers = {c1, c2, c3}
    PubKeys = {PubA}
    Given <- GivenDef
INVARIANTS
    TypeOK
    NewAccountNeverOrphaned
PROPERTIES
    RegistrySpec
    CallsReturn
CHECK_DEADLOCK FALSE
