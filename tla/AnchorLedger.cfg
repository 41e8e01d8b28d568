SPECIFICATION FairSpec
CONSTANTS
    Clients = {"c1", "c2"}
    Accounts = {"alice", "bob"}
    AccountOf <- AllOfAlice
    Resets = {"c1"}
    Starts <- OneWayEach
    Ids = {1}
    Amounts <- HalfAndTooFine
    Decimals = 2
    MemoOf <- Payable
    Batch = 1
    MaxFaults = 3
INVARIANTS LedgerTypeOK OwnRows PaysWhatWasAsked
PROPERTIES RowsCatchUp
CHECK_DEADLOCK FALSE
