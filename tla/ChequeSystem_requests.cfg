SPECIFICATION UnattendedSpec
CONSTANTS
    Accounts = {"alice", "bob"}
    Escrow = "escrow"
    Tokens = {"usdc"}
    Token = "usdc"
    Cheques = {c1, c2}
    SenderOf <- AllFromAlice
    ReceiverOf <- AllToBob
    RequestOf <- SameRequest
    Amounts = {1}
    Amount = 1
    InitialBalance = 1
    Fickle = {"bob"}
    Spenders = {"alice"}
    Depositors = {"alice"}
    Validity = 1
    ForceCollectWindow = 1
    MaxTime = 2
INVARIANTS RequestPaidOnce SettledRowsAreTrue
PROPERTIES ConfirmedFundsComeBack
CHECK_DEADLOCK FALSE
