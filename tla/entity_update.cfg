SPECIFICATION Spec
CONSTANTS
    h1 = h1  h2 = h2
    None = None
    Threads = {h1, h2}
    Values = {"a", "b", "p", "q", "x", "y"}
    Contents <- MCContents
    MaxLength = 2
    MaxVersion = 2
SYMMETRY MCSymmetry
CHECK_DEADLOCK FALSE
INVARIANTS
    TypeOK
    StoredWhole
    CopiesAreTrue
PROPERTIES
    StoresTheObject
    ImplementsStore
