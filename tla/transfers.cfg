SPECIFICATION Spec
CONSTANTS
    Account = {"alice", "bob"}
    Address = {"a1", "a2", "b", "x"}
    NoAddress = NoAddress
    OwnerOf <- TheOwnerOf
    Scale = 2
    UintMod = 64
    Request = {"pay", "sum", "back"}
    Order <- TheOrder
    Book <- TheBook
    Faucet <- TheFaucet
    RecreateCompleted = FALSE
    Budget <- TheBudget
CHECK_DEADLOCK FALSE
INVARIANTS TypeOK SentSigned PaidOnce NothingStranded AmountTrue BooksBalance
PROPERTY Transfers
