SPECIFICATION Spec
CONSTANTS
    c1 = c1
    c2 = c2
    Other = Other
    Local = Local
    Unset = Unset
    NoCaller = NoCaller
    Callers = {c1, c2}
    Unconfirmed = {}
    Networks = {Local}
    Validity = 1
    ConfirmTimeout = 2
    Faults = {}
INVARIANT NeverStale
CHECK_DEADLOCK FALSE
