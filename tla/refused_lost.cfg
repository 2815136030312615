SPECIFICATION Spec
CONSTANTS
    NoBlock = NoBlock
    Genesis = "g"
    MaxHeight = 4
    TieBreaks = TRUE
    Block <- LineBlocks
    Parent <- LineParent
    HeightOf <- LineHeights
    AncestorAt <- LineAncestors
    EmptyBlocks = {}
    RescanLastBlockCount = 1
    UintMod = 8
    MaxNotices = 1
    Budget <- RefuseBudget
    ResetHeights = {}
    ResetWhileScanning = FALSE
INVARIANTS
    NoHeightLost
