\* One username with two accounts after one another, two handlers at once, two paths and
\* one link.
SPECIFICATION Spec
CONSTANTS
    Users = {u1}
    Paths = {p1, p2}
    Shares = {h1}
    Requests = {r1, r2}
    None = None
    LastFor = 2
    SweepEvery = 1
    MaxAccounts = 2
    MaxRestarts = 1
SYMMETRY Symmetry
INVARIANTS TypeOK NoInheritance LinksGo
PROPERTIES RemovesItsOwn
CHECK_DEADLOCK FALSE
