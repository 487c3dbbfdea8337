\* One page and one socket, with a user who may take more than ten seconds.
SPECIFICATION Spec
CONSTANTS
    p1 = p1
    p2 = p2
    u1 = u1
    Pages = {p1}
    PageUser <- OnePage
    Handlers = {h1}
    None = None
    MaxTransfers = 2
    Faults = {"timeout"}
INVARIANT CopiedWithConsent
CHECK_DEADLOCK FALSE
