SPECIFICATION FairSpec
CONSTANTS
    Keys = {"k1", "k2"}
    Callers = {"locker", "payer", "payee"}
    KeyOf <- LockThenOffline
    KindOf <- Kinds
    SeqOf <- InOrder
    ReaperRuns = TRUE
    MaxSeq = 2
INVARIANTS TypeOK SingleFlight AnswersAgree HistoryAgrees VerdictsAreTrue
PROPERTIES PendingEnds LandsInTurn
