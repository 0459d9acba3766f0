\* Two clients of one account, two attempts a minute.
CONSTANTS
    Clients = {cli, tablet}
    Diligent = cli
    None = none
    MaxPerMinute = 2
    MaxCodes = 1
    MaxMishaps = 2
SPECIFICATION Spec
CHECK_DEADLOCK FALSE
INVARIANTS TypeOK OneLoginPerCode
PROPERTIES EventuallyLoggedIn
