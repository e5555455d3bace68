SPECIFICATION FairSpec
CONSTANTS
    d1 = d1
    d2 = d2
    d3 = d3
    Dialogs = {d1, d2, d3}
    Focusable = {d1, d2}
    Centered = {d1}
    ZLow = 10
    ZHigh = 16
    MaxRecords = 2
    Hasty = FALSE
INVARIANTS
    TypeOK
    StackIsModal
    WellStacked
    NoStaleModal
    FocusIsTrapped
    CenteringIsUndone
PROPERTIES
    KeepsItsPlace
    ReaddedBecomesNormal
    ImplementsTopLayer
