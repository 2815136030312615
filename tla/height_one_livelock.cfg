SPECIFICATION FairSpec
CONSTANTS
    NoBlock = NoBlock
    Genesis = "g"
    MaxHeight = 3
    TieBreaks = FALSE
    Block <- ForkAtOneBlocks
    Parent <- ForkAtOneParent
    HeightOf <- ForkAtOneHeights
    AncestorAt <- ForkAtOneAncestors
    EmptyBlocks = {}
    RescanLastBlockCount = 1
    UintMod = 8
    MaxNotices = 1
    Budget <- OneReorgBudget
    ResetHeights = {}
    ResetWhileScanning = FALSE
PROPERTIES
    Settles
