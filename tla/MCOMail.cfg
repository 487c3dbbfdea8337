\* Two users, a handler at the lock while another works, two ids: a message and a reply to it or
\* one more, with an attachment or none, one taken id, and one failure or restart.
SPECIFICATION Spec
CONSTANTS
    Users = {u1, u2}
    Requests = {r1}
    None = None
    Ids = {i1, i2}
    BatchNames = {"unread"}
    MaxAttachments = 1
    MaxTaken = 1
    MaxFailures = 1
SYMMETRY Symmetry
INVARIANTS TypeOK ThreadsAddUp AttachmentsOnDisk
PROPERTIES Delivers
CHECK_DEADLOCK FALSE
