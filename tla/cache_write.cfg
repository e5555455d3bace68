SPECIFICATION Spec
CONSTANTS
    h1 = h1  h2 = h2  h3 = h3
    A = A  B = B  C = C
    i1 = i1  i2 = i2  i3 = i3  i4 = i4  i5 = i5  i6 = i6
    NoThread = NoThread
    NoItem = NoItem
    Threads = {h1, h2}
    Classes = {A, B}
    Items = {i1, i2, i3, i4, i5, i6}
    Ref <- ChainRef
    Kinds = {"write", "read"}
    Isolations = {"current", "snapshot"}
    LoadMayFail = FALSE
    MaxVersion = 1
SYMMETRY MCSymmetry
VIEW MCView
INVARIANTS
    TypeOK
    NothingCachedFromBeforeWrite
    OnlyLoaderSeesUnloaded
    ReferencesResolved
