SPECIFICATION FairSpec
CONSTANTS
    NoBlock = NoBlock
    Genesis = "g"
    MaxHeight = 4
    TieBreaks = FALSE
    Block <- OvertakeBlocks
    Parent <- OvertakeParent
    HeightOf <- OvertakeHeights
    AncestorAt <- OvertakeAncestors
    EmptyBlocks = {"b2"}
    RescanLastBlockCount = 1
    UintMod = 8
    MaxNotices = 1
    Budget <- LiveBudget
    ResetHeights = {2}
    ResetWhileScanning = TRUE
PROPERTIES
    Settles
