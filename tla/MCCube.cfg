\* Two lambdas of two users on two nodes; a lambda's time is two ticks and the sweep
\* comes every second tick.
SPECIFICATION Spec
CONSTANTS
    Lambdas = {l1, l2}
    Users = {u1, u2}
    None = None
    Nodes = 2
    TTL = 2
    SweepEvery = 2
    MaxRestarts = 1
INVARIANTS TypeOK ExpiresInTime LeaksAreFailures Balanced
CHECK_DEADLOCK FALSE
