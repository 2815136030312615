SPECIFICATION Spec
CONSTANTS
    NoBlock = NoBlock
    Genesis = "g"
    MaxHeight = 4
    TieBreaks = TRUE
    Block <- ForkBlocks
    Parent <- ForkParent
    HeightOf <- ForkHeights
    AncestorAt <- ForkAncestors
    EmptyBlocks = {}
    RescanLastBlockCount = 1
    UintMod = 8
    MaxNotices = 1
    Budget <- LostAnswersBudget
    ResetHeights = {}
    ResetWhileScanning = FALSE
INVARIANTS
    ChainCovered
