\* One address with two requests under way at once; a lockout of two seconds after three
\* failures, an attempt counts for seven.  A tick is half a second.
SPECIFICATION Spec
CONSTANTS
    IPs = {ip1}
    Requests = {r1, r2}
    None = None
    Threshold = 3
    Base = 4
    Window = 14
    PerSecond = 2
INVARIANTS TypeOK GuessesBetweenLogins RetryAfterSuffices
PROPERTIES LockoutShrinks LockoutEnds
