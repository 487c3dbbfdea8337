\* ASYNC hookers of one user: two connections that compete for its queue,
\* batches of up to two of its three events.
SPECIFICATION FairSpec
CONSTANTS
    Users = {u1}
    Codes = {c1}
    Sessions = {s1, s2}
    NoUser = NoUser
    NoCode = NoCode
    Modes = {"async"}
    MaxBatch = 2
    MaxEvents = 3
    MaxInbox = 1
    MaxRestarts = 0
INVARIANTS AckedWasRead AsyncInOrder
PROPERTY EventSettles
CHECK_DEADLOCK FALSE
