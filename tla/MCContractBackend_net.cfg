SPECIFICATION Spec
CONSTANTS
    c1 = c1
    c2 = c2
    Other = Other
    Local = Local
    Unset = Unset
    NoCaller = NoCaller
    Callers = {c1, c2}
    Unconfirmed = {}
    Networks = {Local, Other}
    Validity = 2
    ConfirmTimeout = 1
    Faults = {}
INVARIANT WatchesItsNetwork
CHECK_DEADLOCK FALSE
