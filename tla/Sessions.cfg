SPECIFICATION FairSpec
CONSTANTS
    Calls = {"c1", "c2"}
    Wallets = {"alice"}
    ChallengeTTL = 0
    AccessTTL = 1
    RefreshTTL = 2
    FundNewAccounts = TRUE
    MaxTime = 2
    MaxFaults = 1
INVARIANTS SessionTypeOK BearersAreKnown
PROPERTIES SessionComesBack LoginFunds
CHECK_DEADLOCK FALSE
