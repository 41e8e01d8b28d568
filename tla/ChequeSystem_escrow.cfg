SPECIFICATION UnattendedSpec
CONSTANTS
    Accounts = {"alice", "bob"}
    Escrow = "escrow"
    Tokens = {"usdc"}
    Token = "usdc"
    Cheques = {c1}
    SenderOf <- AllFromAlice
    ReceiverOf <- AllToBob
    RequestOf <- OwnRequest
    Amounts = {1}
    Amount = 1
    InitialBalance = 1
    Fickle = {}
    Spenders = {}
    Depositors = {}
    Validity = 1
    ForceCollectWindow = 1
    MaxTime = 1
PROPERTIES EscrowAlwaysReturns
CHECK_DEADLOCK FALSE
