SPECIFICATION Spec
CONSTANTS
    NoBlock = NoBlock
    Genesis = "g"
    MaxHeight = 4
    TieBreaks = TRUE
    Block <- LineBlocks
    Parent <- LineParent
    HeightOf <- LineHeights
    AncestorAt <- LineAncestors
    EmptyBlocks = {}
    RescanLastBlockCount = 1
    UintMod = 8
    MaxNotices = 1
    Budget <- OneResetBudget
    ResetHeights = {1}
    ResetWhileScanning = FALSE
INVARIANTS
    NoHeightLost
