SPECIFICATION FairSpec
CONSTANTS
    c1 = c1
    c2 = c2
    Other = Other
    Local = Local
    Unset = Unset
    NoCaller = NoCaller
    Callers = {c1, c2}
    Unconfirmed = {c2}
    Networks = {Local, Other}
    Validity = 1
    ConfirmTimeout = 2
    Faults = {"rpc", "cancel"}
INVARIANTS
    TypeOK
    ClientAtHand
    OneAtATime
    QueueIsBounded
    AgedBehindConfirmations
PROPERTIES
    SubmissionSpec
    CallsReturn
CHECK_DEADLOCK FALSE
