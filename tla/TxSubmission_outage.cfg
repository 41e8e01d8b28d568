SPECIFICATION Spec
CONSTANTS
    Keys = {"k2"}
    Callers = {"payer"}
    KeyOf <- LockThenOffline
    KindOf <- Kinds
    SeqOf <- InOrder
    ReaperRuns = TRUE
    MaxSeq = 2
INVARIANTS OutagesAreNotVerdicts
