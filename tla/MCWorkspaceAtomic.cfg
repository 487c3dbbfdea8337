\* One name and two uploads of it.
SPECIFICATION Spec
CONSTANTS
    Names = {f}
    Uploads = {u1, u2}
    None = None
    Gone = Gone
    Chunks = 2
SYMMETRY Symmetry
PROPERTIES WritesAreAtomic
