SPECIFICATION Spec
CONSTANTS
    h1 = h1  h2 = h2  h3 = h3
    A = A  B = B  C = C
    i1 = i1  i2 = i2  i3 = i3  i4 = i4  i5 = i5  i6 = i6
    NoThread = NoThread
    NoItem = NoItem
    Threads = {h1, h2}
    Classes = {A, B}
    Items = {i1, i2, i3, i4, i5, i6}
    Ref <- SelfRef
    Kinds = {}
    Isolations = {}
    LoadMayFail = FALSE
    MaxVersion = 0
SYMMETRY MCSymmetry
VIEW MCView
CHECK_DEADLOCK FALSE
INVARIANTS
    ReferencesResolved
