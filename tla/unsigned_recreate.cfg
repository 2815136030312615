SPECIFICATION Spec
CONSTANTS
    Account = {"alice", "bob"}
    Address = {"a1", "a2", "b", "x"}
    NoAddress = NoAddress
    OwnerOf <- TheOwnerOf
    Scale = 2
    UintMod = 64
    Request = {"pay"}
    Order <- TheOrder
    Book <- TheBook
    Faucet <- TheFaucet
    RecreateCompleted = TRUE
    Budget <- TheBudget
CHECK_DEADLOCK FALSE
INVARIANT SentSigned
