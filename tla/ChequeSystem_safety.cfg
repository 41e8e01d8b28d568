SPECIFICATION SystemSpec
CONSTANTS
    Accounts = {"alice", "bob"}
    Escrow = "escrow"
    Tokens = {"usdc"}
    Token = "usdc"
    Cheques = {c1, c2}
    SenderOf <- AllFromAlice
    ReceiverOf <- AllToBob
    RequestOf <- OwnRequest
    Amounts = {1}
    Amount = 1
    InitialBalance = 2
    Fickle = {}
    Spenders = {}
    Depositors = {}
    Validity = 1
    ForceCollectWindow = 1
    MaxTime = 2
SYMMETRY ChequeSymmetry
INVARIANTS SystemTypeOK ReservationDiscipline SettledRowsAreTrue OneFundedPerSender
PROPERTIES FollowsLifecycle
CHECK_DEADLOCK FALSE
