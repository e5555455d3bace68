SPECIFICATION Spec
CONSTANTS
    h1 = h1  h2 = h2  h3 = h3
    A = A  B = B  C = C
    i1 = i1  i2 = i2  i3 = i3  i4 = i4  i5 = i5  i6 = i6
    NoThread = NoThread
    NoItem = NoItem
    Threads = {h1, h2, h3}
    Classes = {A, B, C}
    Items = {i1, i2, i3, i4, i5, i6}
    Ref <- MixedRef
    Kinds = {}
    Isolations = {}
    LoadMayFail = TRUE
    MaxVersion = 0
SYMMETRY MCSymmetry
VIEW MCView
INVARIANTS
    NoMonitorDeadlock
