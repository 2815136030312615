SPECIFICATION FairSpec
CONSTANTS
    task = task
    client = client
    empty = empty
    Call <- Calls
    Count <- Counts
    MaxExtractingSize = 2
INVARIANTS
    TypeOK
    NoSendOnClosed
    TokensAccounted
PROPERTIES
    Delivers
CHECK_DEADLOCK FALSE
