SPECIFICATION FairPoolSpec
CONSTANTS
    Accounts = {"alice"}
    Escrow = "escrow"
    Tokens = {"xlm"}
    Cheques = {}
    Amounts = {0, 1}
    InitialBalance = 2
    Fickle = {}
    ForceCollectWindow = 1
    MaxTime = 0
    Devices = {"d1", "d2"}
    OwnerOf <- AllOfAlice
    Pages = {"d1"}
    Token = "xlm"
    Native = "xlm"
    Headroom = 1
    MaxReports = 2
    MaxCached = 2
INVARIANTS PoolTypeOK
PROPERTIES QuietSyncIsExact SelfHeals WithdrawGetsThrough
CHECK_DEADLOCK FALSE
