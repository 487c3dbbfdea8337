\* Two names, two uploads of one to three chunks, of which two pass the limit.
SPECIFICATION Spec
CONSTANTS
    Names = {f, g}
    Uploads = {u1, u2}
    None = None
    Gone = Gone
    Chunks = 2
SYMMETRY Symmetry
INVARIANTS TypeOK DocumentsWhole DocumentsClosed
