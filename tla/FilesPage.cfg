SPECIFICATION PageSpec
CONSTANTS
    d1 = d1
    d2 = d2
    percent = percent
    b1 = b1
    b2 = b2
    NoDir = NoDir
    Dirs <- MCDirs
    Lands <- MCLands
    Batches <- MCBatches
    MaxClicks = 3
    MaxMoves = 1
SYMMETRY MCSymmetry
INVARIANTS
    PageTypeOK
    ShownFresh
    PanelTells
PROPERTIES
    EveryFileTried
CHECK_DEADLOCK FALSE
