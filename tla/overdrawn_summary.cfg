SPECIFICATION Spec
CONSTANTS
    Account = {"alice", "bob"}
    Address = {"a1", "a2", "b", "x"}
    NoAddress = NoAddress
    OwnerOf <- TheOwnerOf
    Scale = 2
    UintMod = 64
    Request = {"sum"}
    Order <- DustOrder
    Book <- TheBook
    Faucet <- DustFaucet
    RecreateCompleted = FALSE
    Budget <- TheBudget
CHECK_DEADLOCK FALSE
INVARIANT FundsSuffice
