\* Two sockets, two pages of one user that compete for its mailbox; offers time
\* out, connections break, the server restarts.
SPECIFICATION FairSpec
CONSTANTS
    p1 = p1
    p2 = p2
    u1 = u1
    Pages = {p1, p2}
    PageUser <- TwoPages
    Handlers = {h1, h2}
    None = None
    MaxTransfers = 2
    Faults = {"timeout", "flap", "restart"}
INVARIANTS TypeOK OneHolder CopyNeedsTickedCard
PROPERTIES Lifecycle MailSettles
CHECK_DEADLOCK FALSE
