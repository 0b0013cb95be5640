SPECIFICATION Spec
CONSTANTS
    a = a
    b = b
    c = c
    p = p
    q = q
    Leases = {a, b, c}
    Processes = {p, q}
    ProcessOf <- MCProcessOf
    Paths = {here}
    Directories = {one, two}
    Disturbed = {two}
    Inodes = {i1, i2}
    None = None
    MaxOwners = 1
SYMMETRY MCSymmetry
INVARIANTS
    OneConfirmedWriter
    NothingLeaks
PROPERTIES
    ImplementsExclusiveLease
