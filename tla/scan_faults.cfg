SPECIFICATION Spec
CONSTANTS
    NoBlock = NoBlock
    Genesis = "g"
    MaxHeight = 4
    TieBreaks = TRUE
    Block <- LineBlocks
    Parent <- LineParent
    HeightOf <- LineHeights
    AncestorAt <- LineAncestors
    EmptyBlocks = {"a3"}
    RescanLastBlockCount = 1
    UintMod = 8
    MaxNotices = 1
    Budget <- UnreliableBudget
    ResetHeights = {2}
    ResetWhileScanning = FALSE
INVARIANTS
    TypeOK
    NoWrap
    NoHeightLost
