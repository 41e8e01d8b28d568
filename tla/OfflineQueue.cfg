SPECIFICATION Spec
CONSTANTS
    Nonces = {"n1", "n2"}
    MaxResigns = 1
    MaxSeq = 3
INVARIANTS NeverPaidTwice
CHECK_DEADLOCK FALSE
