SPECIFICATION FairSpec
CONSTANTS
    NoBlock = NoBlock
    Genesis = "g"
    MaxHeight = 4
    TieBreaks = FALSE
    Block <- ForkBlocks
    Parent <- ForkParent
    HeightOf <- ForkHeights
    AncestorAt <- ForkAncestors
    EmptyBlocks = {"b2"}
    RescanLastBlockCount = 1
    UintMod = 8
    MaxNotices = 1
    Budget <- ConvergeBudget
    ResetHeights = {}
    ResetWhileScanning = FALSE
PROPERTIES
    Settles
    ObserversConverge
