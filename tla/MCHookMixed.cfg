\* Two users, codes that are revoked and issued again, two connections of
\* either mode, one restart.
SPECIFICATION Spec
CONSTANTS
    Users = {u1, u2}
    Codes = {c1, c2}
    Sessions = {s1, s2}
    NoUser = NoUser
    NoCode = NoCode
    Modes = {"sync", "async"}
    MaxBatch = 2
    MaxEvents = 2
    MaxInbox = 1
    MaxRestarts = 1
SYMMETRY Symmetry
INVARIANTS TypeOK Isolation OnePlace OfferedStaysQueued
CHECK_DEADLOCK FALSE
