SPECIFICATION FairSpec
CONSTANTS
    Accounts = {alice, bob}
    Escrow = escrow
    Tokens = {usdc, xlm}
    Cheques = {c1}
    Amounts = {0, 1}
    InitialBalance = 1
    Fickle = {bob}
    ForceCollectWindow = 1
    MaxTime = 2
INVARIANTS TypeOK Solvent PaidOnce
PROPERTIES TermsFixed WindowsDisjoint KeepsPromise NeverStuck
