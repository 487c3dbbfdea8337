\* One SYNC hooker that confirms what it reads.
SPECIFICATION Spec
CONSTANTS
    Users = {u1}
    Codes = {c1}
    Sessions = {s1}
    NoUser = NoUser
    NoCode = NoCode
    Modes = {"sync"}
    MaxBatch = 2
    MaxEvents = 2
    MaxInbox = 1
    MaxRestarts = 0
INVARIANT RemovedWasRead
CHECK_DEADLOCK FALSE
