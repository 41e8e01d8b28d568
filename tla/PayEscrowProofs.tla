-------------------------- MODULE PayEscrowProofs --------------------------
(***************************************************************************)
(* Theorems about the contract for every set of accounts, tokens, cheque   *)
(* ids and amounts, and every horizon.                                     *)
(***************************************************************************)
EXTENDS PayEscrow, FiniteSetTheorems, TLAPS

(* A transfer the token contract accepts leaves every balance a natural    *)
(* number: the payer's cover is checked before anything moves.             *)
LEMMA TransferType ==
    ASSUME NEW t \in Tokens, NEW from \in Holders, NEW to \in Holders, NEW n \in Nat,
           balance \in [Holders -> [Tokens -> Nat]],
           balance[from][t] >= n,
           Transfer(t, from, to, n)
    PROVE  balance' \in [Holders -> [Tokens -> Nat]]
<1>1. Debited(t, from, n) \in [Holders -> [Tokens -> Nat]]
    <2>1. balance[from] \in [Tokens -> Nat] /\ balance[from][t] - n \in Nat
        OBVIOUS
    <2>2. [balance[from] EXCEPT ![t] = @ - n] \in [Tokens -> Nat]
        BY <2>1
    <2> QED BY <2>2 DEF Debited
<1>2. [Debited(t, from, n)[to] EXCEPT ![t] = @ + n] \in [Tokens -> Nat]
    BY <1>1
<1> QED BY <1>1, <1>2 DEF Transfer

LEMMA InitType == Init => TypeOK
BY EscrowAssumption DEF Init, TypeOK, Time, Holders, None, NoPool, Nothing

LEMMA StoredRecord ==
    ASSUME TypeOK, NEW c \in Cheques, Has(c)
    PROVE  /\ record[c] \in ChequeRecord
           /\ record[c].sender \in Accounts /\ record[c].receiver \in Accounts
           /\ record[c].token \in Tokens /\ record[c].amount \in Nat
           /\ record[c].state \in ChequeState
BY DEF TypeOK, Has, ChequeRecord

-----------------------------------------------------------------------------
(* One lemma per call: it keeps the types.  Each says what the call needs  *)
(* of its arguments, so that a caller of any kind can cite it.             *)

LEMMA lockType ==
    ASSUME TypeOK, NEW c \in Cheques, NEW s \in Accounts, NEW r \in Accounts,
           NEW t \in Tokens, NEW n \in Nat, NEW d \in Deadlines,
           lock(s, c, r, t, n, d)
    PROVE  TypeOK'
<1>1. balance' \in [Holders -> [Tokens -> Nat]]
    <2>1. s \in Holders /\ Escrow \in Holders
        BY DEF Holders
    <2>2. balance[s][t] >= n /\ Transfer(t, s, Escrow, n)
        BY DEF lock, CanLock, CanTransfer
    <2> QED BY <2>1, <2>2, TransferType DEF TypeOK
<1>2. record' \in [Cheques -> ChequeRecord \cup {None}]
    BY DEF lock, TypeOK, ChequeRecord, ChequeState
<1>3. moved' \in [Cheques -> [locked : Nat, toReceiver : Nat, toSender : Nat]]
    BY DEF lock, TypeOK
<1> QED BY <1>1, <1>2, <1>3 DEF lock, TypeOK

LEMMA claimType ==
    ASSUME TypeOK, NEW c \in Cheques, claim(c)
    PROVE  TypeOK'
<1> USE DEF claim, CanClaim
<1>1. balance' \in [Holders -> [Tokens -> Nat]]
    <2>1. record[c].receiver \in Holders /\ Escrow \in Holders
        BY StoredRecord DEF Holders
    <2>2. record[c].token \in Tokens /\ record[c].amount \in Nat
        BY StoredRecord
    <2>3. balance[Escrow][record[c].token] >= record[c].amount
        BY DEF CanTransfer
    <2> QED BY <2>1, <2>2, <2>3, TransferType DEF TypeOK
<1>2. record' \in [Cheques -> ChequeRecord \cup {None}]
    BY StoredRecord DEF TypeOK, ChequeRecord, ChequeState
<1>3. moved' \in [Cheques -> [locked : Nat, toReceiver : Nat, toSender : Nat]]
    BY StoredRecord DEF TypeOK
<1> QED BY <1>1, <1>2, <1>3 DEF TypeOK

LEMMA refundType ==
    ASSUME TypeOK, NEW c \in Cheques, refund(c)
    PROVE  TypeOK'
<1> USE DEF refund, CanRefund
<1>1. balance' \in [Holders -> [Tokens -> Nat]]
    <2>1. record[c].sender \in Holders /\ Escrow \in Holders
        BY StoredRecord DEF Holders
    <2>2. record[c].token \in Tokens /\ record[c].amount \in Nat
        BY StoredRecord
    <2>3. balance[Escrow][record[c].token] >= record[c].amount
        BY DEF CanTransfer
    <2> QED BY <2>1, <2>2, <2>3, TransferType DEF TypeOK
<1>2. record' \in [Cheques -> ChequeRecord \cup {None}]
    BY StoredRecord DEF TypeOK, ChequeRecord, ChequeState
<1>3. moved' \in [Cheques -> [locked : Nat, toReceiver : Nat, toSender : Nat]]
    BY StoredRecord DEF TypeOK
<1> QED BY <1>1, <1>2, <1>3 DEF TypeOK

LEMMA force_collectType ==
    ASSUME TypeOK, NEW c \in Cheques, NEW s \in Accounts, NEW r \in Accounts,
           NEW t \in Tokens, NEW n \in Nat, NEW d \in Deadlines,
           force_collect(s, c, r, t, n, d)
    PROVE  TypeOK'
<1> USE DEF force_collect
<1>1. balance' \in [Holders -> [Tokens -> Nat]]
    <2>1. s \in Holders /\ r \in Holders
        BY DEF Holders
    <2>2. CASE Covers(s, t, n)
        <3>1. balance[s][t] >= n /\ Transfer(t, s, r, n)
            BY <2>2 DEF Covers
        <3> QED BY <2>1, <3>1, TransferType DEF TypeOK
    <2>3. CASE ~Covers(s, t, n)
        BY <2>3 DEF TypeOK
    <2> QED BY <2>2, <2>3
<1>2. record' \in [Cheques -> ChequeRecord \cup {None}]
    BY DEF TypeOK, ChequeRecord, ChequeState
<1>3. moved' \in [Cheques -> [locked : Nat, toReceiver : Nat, toSender : Nat]]
    BY DEF TypeOK
<1> QED BY <1>1, <1>2, <1>3 DEF TypeOK

LEMMA depositType ==
    ASSUME TypeOK, NEW o \in Accounts, NEW t \in Tokens, NEW n \in Nat, deposit(o, t, n)
    PROVE  TypeOK'
<1> USE DEF deposit
<1>1. balance' \in [Holders -> [Tokens -> Nat]]
    <2>1. o \in Holders /\ Escrow \in Holders /\ balance[o][t] >= n
        BY DEF Holders, CanDeposit, CanTransfer
    <2> QED BY <2>1, TransferType DEF TypeOK
<1>2. pool[o].amount \in Nat
    BY DEF TypeOK, PoolRecord, NoPool
<1>3. pool' \in [Accounts -> PoolRecord \cup {NoPool}]
    BY <1>2 DEF TypeOK, PoolRecord
<1> QED BY <1>1, <1>3 DEF TypeOK

LEMMA withdrawType ==
    ASSUME TypeOK, NEW o \in Accounts, NEW n \in Nat, withdraw(o, n)
    PROVE  TypeOK'
<1> USE DEF withdraw
<1>1. pool[o] \in PoolRecord /\ pool[o].token \in Tokens /\ pool[o].amount - n \in Nat
    BY DEF TypeOK, PoolRecord, CanWithdraw, HasPool
<1>2. balance' \in [Holders -> [Tokens -> Nat]]
    <2>1. o \in Holders /\ Escrow \in Holders /\ balance[Escrow][pool[o].token] >= n
        BY DEF Holders, CanWithdraw, CanTransfer
    <2> QED BY <1>1, <2>1, TransferType DEF TypeOK
<1>3. pool' \in [Accounts -> PoolRecord \cup {NoPool}]
    BY <1>1 DEF TypeOK, PoolRecord
<1> QED BY <1>2, <1>3 DEF TypeOK

LEMMA WorldType ==
    ASSUME TypeOK, World
    PROVE  TypeOK'
<1>1. CASE Tick
    BY <1>1, EscrowAssumption DEF Tick, TypeOK, Time
<1>2. ASSUME NEW a \in Accounts, NEW h \in Holders, NEW t \in Tokens, NEW n \in Amounts,
             Spend(a, h, t, n)
      PROVE  TypeOK'
    <2>1. a \in Holders /\ n \in Nat /\ balance[a][t] >= n /\ Transfer(t, a, h, n)
        BY <1>2, EscrowAssumption DEF Holders, Spend, CanTransfer
    <2>2. balance' \in [Holders -> [Tokens -> Nat]]
        BY <2>1, TransferType DEF TypeOK
    <2> QED BY <1>2, <2>2 DEF Spend, TypeOK
<1>3. ASSUME NEW a \in Accounts, NEW t \in Tokens, ToggleTrustline(a, t)
      PROVE  TypeOK'
    BY <1>3 DEF ToggleTrustline, TypeOK
<1> QED BY <1>1, <1>2, <1>3 DEF World

LEMMA NextType == TypeOK /\ [Next]_chainVars => TypeOK'
<1> SUFFICES ASSUME TypeOK, [Next]_chainVars PROVE TypeOK'
    OBVIOUS
<1>a. Amounts \subseteq Nat
    BY EscrowAssumption
<1>1. CASE ContractCall
    BY <1>1, <1>a, lockType, claimType, refundType, force_collectType, depositType, withdrawType
    DEF ContractCall
<1>2. CASE World
    BY <1>2, WorldType
<1>3. CASE UNCHANGED chainVars
    BY <1>3 DEF chainVars, TypeOK
<1> QED BY <1>1, <1>2, <1>3 DEF Next

(* No call, in any order, makes a balance of an account, of the contract   *)
(* or of a pool negative, or leaves storage of another shape (D2: nobody   *)
(* goes below zero).                                                       *)
THEOREM TypeCorrect == Spec => []TypeOK
BY InitType, NextType, PTL DEF Spec

-----------------------------------------------------------------------------
(* What a call does to the records, which is all that the theorems about   *)
(* the life of a cheque need to know of it.                                *)

Creates(c, s) ==
    /\ ~Has(c)
    /\ \E r \in ChequeRecord : r.state = s /\ record' = [record EXCEPT ![c] = r]

Resolves(c, s) ==
    /\ Has(c)
    /\ Is(c, "Funded")
    /\ record' = [record EXCEPT ![c].state = s]

RecordStep ==
    \/ \E c \in Cheques :
            \/ \E s \in {"Funded", "Collected", "Bounced"} : Creates(c, s)
            \/ \E s \in {"Claimed", "Refunded"} : Resolves(c, s)
    \/ UNCHANGED record

LEMMA NextRecord == TypeOK /\ [Next]_chainVars => RecordStep
<1> SUFFICES ASSUME TypeOK, [Next]_chainVars PROVE RecordStep
    OBVIOUS
<1>a. Amounts \subseteq Nat
    BY EscrowAssumption
<1>1. ASSUME NEW c \in Cheques, NEW s \in Accounts, NEW r \in Accounts, NEW t \in Tokens,
             NEW n \in Amounts, NEW d \in Deadlines, lock(s, c, r, t, n, d)
      PROVE  RecordStep
    <2> DEFINE new == [sender |-> s, receiver |-> r, token |-> t, amount |-> n,
                       expires_at |-> d, state |-> "Funded"]
    <2>1. new \in ChequeRecord /\ new.state = "Funded"
        BY <1>a DEF ChequeRecord, ChequeState
    <2>2. ~Has(c) /\ record' = [record EXCEPT ![c] = new]
        BY <1>1 DEF lock, CanLock
    <2> HIDE DEF new
    <2>3. Creates(c, "Funded")
        BY <2>1, <2>2 DEF Creates
    <2> QED BY <2>3 DEF RecordStep
<1>2. ASSUME NEW c \in Cheques, NEW s \in Accounts, NEW r \in Accounts, NEW t \in Tokens,
             NEW n \in Amounts, NEW d \in Deadlines, force_collect(s, c, r, t, n, d)
      PROVE  RecordStep
    <2> DEFINE end == IF Covers(s, t, n) THEN "Collected" ELSE "Bounced"
               new == [sender |-> s, receiver |-> r, token |-> t, amount |-> n,
                       expires_at |-> d, state |-> end]
    <2>1. end \in {"Collected", "Bounced"}
        OBVIOUS
    <2>2. ~Has(c) /\ record' = [record EXCEPT ![c] = new]
        BY <1>2 DEF force_collect, CanForceCollect
    <2> HIDE DEF end
    <2>3. new \in ChequeRecord /\ new.state = end
        BY <1>a, <2>1 DEF ChequeRecord, ChequeState
    <2> HIDE DEF new
    <2>4. Creates(c, end)
        BY <2>2, <2>3 DEF Creates
    <2> QED BY <2>1, <2>4 DEF RecordStep
<1>3. ASSUME NEW c \in Cheques, claim(c)
      PROVE  RecordStep
    BY <1>3 DEF claim, CanClaim, Resolves, RecordStep
<1>4. ASSUME NEW c \in Cheques, refund(c)
      PROVE  RecordStep
    BY <1>4 DEF refund, CanRefund, Resolves, RecordStep
<1>5. ASSUME NEW o \in Accounts, NEW n \in Amounts,
             \/ \E t \in Tokens : deposit(o, t, n)
             \/ withdraw(o, n)
      PROVE  RecordStep
    BY <1>5 DEF deposit, withdraw, RecordStep
<1>6. CASE World
    BY <1>6 DEF World, Tick, Spend, ToggleTrustline, RecordStep
<1>7. CASE UNCHANGED chainVars
    BY <1>7 DEF chainVars, RecordStep
<1> QED BY <1>1, <1>2, <1>3, <1>4, <1>5, <1>6, <1>7 DEF Next, ContractCall

(* D4, D5', for every instance: a stored record keeps its parties, token,  *)
(* amount and deadline for ever, and once it is no longer Funded it does   *)
(* not change at all, whatever calls lock, claim, refund and force_collect *)
(* arrive afterwards.                                                      *)
THEOREM RecordsAreFinal == Spec => TermsFixed
<1> DEFINE Fixed == \A c \in Cheques : Has(c) =>
            IF Is(c, "Funded")
              THEN \E s \in {"Funded", "Claimed", "Refunded"} :
                        record'[c] = [record[c] EXCEPT !.state = s]
              ELSE record'[c] = record[c]
<1>1. TypeOK /\ RecordStep => Fixed
    <2> SUFFICES ASSUME TypeOK, RecordStep, NEW c \in Cheques, Has(c)
                 PROVE  IF Is(c, "Funded")
                          THEN \E s \in {"Funded", "Claimed", "Refunded"} :
                                    record'[c] = [record[c] EXCEPT !.state = s]
                          ELSE record'[c] = record[c]
        OBVIOUS
    <2>0. record[c] \in ChequeRecord
        BY StoredRecord
    <2>1. record'[c] = record[c] \/ (Is(c, "Funded") /\ \E s \in {"Claimed", "Refunded"} :
                        record'[c] = [record[c] EXCEPT !.state = s])
        BY DEF RecordStep, Creates, Resolves, TypeOK
    <2>2. CASE record'[c] = record[c]
        <3>1. Is(c, "Funded") => record'[c] = [record[c] EXCEPT !.state = "Funded"]
            BY <2>0, <2>2 DEF Is, ChequeRecord
        <3> QED BY <2>2, <3>1
    <2> QED BY <2>1, <2>2
<1>2. TypeOK /\ [Next]_chainVars => [Fixed]_chainVars
    BY <1>1, NextRecord
<1> QED BY <1>2, TypeCorrect, PTL DEF Spec, TermsFixed

-----------------------------------------------------------------------------
(* The books of a cheque agree with its record: PaidOnce is inductive      *)
(* together with TypeOK, because every call that stores a record starts    *)
(* from none and every call that pays starts from a Funded one.            *)

LEMMA EmptyBooks ==
    ASSUME TypeOK, PaidOnce, NEW c \in Cheques, ~Has(c)
    PROVE  moved[c] = Nothing
BY DEF PaidOnce, Settlement, Has, None, Nothing

LEMMA FundedBooks ==
    ASSUME TypeOK, PaidOnce, NEW c \in Cheques, Has(c), Is(c, "Funded")
    PROVE  moved[c] = [locked |-> record[c].amount, toReceiver |-> 0, toSender |-> 0]
BY DEF PaidOnce, Settlement, Is

LEMMA OtherBooks ==
    ASSUME TypeOK, PaidOnce, NEW c \in Cheques, NEW other \in Cheques, other # c,
           NEW r, NEW m, record' = [record EXCEPT ![c] = r], moved' = [moved EXCEPT ![c] = m]
    PROVE  Settlement(other)'
BY DEF PaidOnce, Settlement, Has, TypeOK

LEMMA PaidOnceStep == TypeOK /\ PaidOnce /\ [Next]_chainVars => PaidOnce'
<1> SUFFICES ASSUME TypeOK, PaidOnce, [Next]_chainVars PROVE PaidOnce'
    OBVIOUS
<1>a. Amounts \subseteq Nat
    BY EscrowAssumption
<1>1. ASSUME NEW c \in Cheques, NEW s \in Accounts, NEW r \in Accounts, NEW t \in Tokens,
             NEW n \in Amounts, NEW d \in Deadlines, lock(s, c, r, t, n, d)
      PROVE  PaidOnce'
    <2>1. moved[c] = Nothing /\ moved'[c] = [locked |-> n, toReceiver |-> 0, toSender |-> 0]
        BY <1>1, <1>a, EmptyBooks DEF lock, CanLock, TypeOK, Nothing
    <2>2. Settlement(c)'
        BY <1>1, <2>1 DEF lock, Settlement, Has, None, TypeOK
    <2>3. \A other \in Cheques : other # c => Settlement(other)'
        BY <1>1, OtherBooks DEF lock
    <2> QED BY <2>2, <2>3 DEF PaidOnce
<1>2. ASSUME NEW c \in Cheques, NEW s \in Accounts, NEW r \in Accounts, NEW t \in Tokens,
             NEW n \in Amounts, NEW d \in Deadlines, force_collect(s, c, r, t, n, d)
      PROVE  PaidOnce'
    <2>1. moved[c] = Nothing
        BY <1>2, EmptyBooks DEF force_collect, CanForceCollect
    <2>2. moved'[c] = [locked |-> 0, toReceiver |-> IF Covers(s, t, n) THEN n ELSE 0, toSender |-> 0]
        BY <1>2, <1>a, <2>1 DEF force_collect, TypeOK, Nothing
    <2>3. Settlement(c)'
        BY <1>2, <2>2 DEF force_collect, Settlement, Has, None, TypeOK
    <2>4. \A other \in Cheques : other # c => Settlement(other)'
        BY <1>2, OtherBooks DEF force_collect
    <2> QED BY <2>3, <2>4 DEF PaidOnce
<1>3. ASSUME NEW c \in Cheques, claim(c)
      PROVE  PaidOnce'
    <2>1. Has(c) /\ record[c].amount \in Nat /\ record[c] \in ChequeRecord
        BY <1>3, StoredRecord DEF claim, CanClaim
    <2>2. moved'[c] = [locked |-> record[c].amount, toReceiver |-> record[c].amount, toSender |-> 0]
        BY <1>3, <2>1, FundedBooks DEF claim, CanClaim, TypeOK
    <2>3. record'[c] = [record[c] EXCEPT !.state = "Claimed"]
        BY <1>3 DEF claim, TypeOK
    <2>4. Settlement(c)'
        BY <2>1, <2>2, <2>3 DEF Settlement, Has, None, ChequeRecord
    <2>5. \A other \in Cheques : other # c => Settlement(other)'
        BY <1>3, OtherBooks DEF claim
    <2> QED BY <2>4, <2>5 DEF PaidOnce
<1>4. ASSUME NEW c \in Cheques, refund(c)
      PROVE  PaidOnce'
    <2>1. Has(c) /\ record[c].amount \in Nat /\ record[c] \in ChequeRecord
        BY <1>4, StoredRecord DEF refund, CanRefund
    <2>2. moved'[c] = [locked |-> record[c].amount, toReceiver |-> 0, toSender |-> record[c].amount]
        BY <1>4, <2>1, FundedBooks DEF refund, CanRefund, TypeOK
    <2>3. record'[c] = [record[c] EXCEPT !.state = "Refunded"]
        BY <1>4 DEF refund, TypeOK
    <2>4. Settlement(c)'
        BY <2>1, <2>2, <2>3 DEF Settlement, Has, None, ChequeRecord
    <2>5. \A other \in Cheques : other # c => Settlement(other)'
        BY <1>4, OtherBooks DEF refund
    <2> QED BY <2>4, <2>5 DEF PaidOnce
<1>5. CASE UNCHANGED <<record, moved>>
    BY <1>5 DEF PaidOnce, Settlement, Has
<1>6. ASSUME NEW o \in Accounts, NEW n \in Amounts,
             \/ \E t \in Tokens : deposit(o, t, n)
             \/ withdraw(o, n)
      PROVE  UNCHANGED <<record, moved>>
    BY <1>6 DEF deposit, withdraw
<1>7. World \/ UNCHANGED chainVars => UNCHANGED <<record, moved>>
    BY DEF World, Tick, Spend, ToggleTrustline, chainVars
<1> QED BY <1>1, <1>2, <1>3, <1>4, <1>5, <1>6, <1>7 DEF Next, ContractCall

(* D1, D8, for every instance: whatever calls arrive and in whatever       *)
(* order, the amount of a cheque id is locked at most once and leaves the  *)
(* contract at most once and in full, to exactly one of its two parties,   *)
(* and force_collect never pays for a cheque that was locked.              *)
THEOREM PaidAtMostOnce == Spec => []PaidOnce
<1>1. Init => PaidOnce
    BY DEF Init, PaidOnce, Settlement, Has, None, Nothing
<1> QED BY <1>1, PaidOnceStep, TypeCorrect, PTL DEF Spec

-----------------------------------------------------------------------------
(* D7, for every instance: judged by where the money goes, the receiver is *)
(* paid only before the deadline and the sender only from the deadline on, *)
(* so a claim and a refund of one cheque never race.                       *)
THEOREM ClaimAndRefundNeverRace == Spec => WindowsDisjoint
<1> DEFINE InWindow == \A c \in Cheques :
             /\ moved'[c].toReceiver > moved[c].toReceiver => now < record'[c].expires_at
             /\ moved'[c].toSender > moved[c].toSender => now >= record'[c].expires_at
<1>1. TypeOK /\ [Next]_chainVars => InWindow
    <2> SUFFICES ASSUME TypeOK, [Next]_chainVars PROVE InWindow
        OBVIOUS
    <2>0. \A c \in Cheques : moved[c].toReceiver \in Nat /\ moved[c].toSender \in Nat
        BY DEF TypeOK
    <2>1. ASSUME NEW c \in Cheques, NEW s \in Accounts, NEW r \in Accounts, NEW t \in Tokens,
                 NEW n \in Amounts, NEW d \in Deadlines, lock(s, c, r, t, n, d)
          PROVE  InWindow
        BY <2>0, <2>1 DEF lock, TypeOK
    <2>2. ASSUME NEW c \in Cheques, NEW s \in Accounts, NEW r \in Accounts, NEW t \in Tokens,
                 NEW n \in Amounts, NEW d \in Deadlines, force_collect(s, c, r, t, n, d)
          PROVE  InWindow
        BY <2>0, <2>2 DEF force_collect, CanForceCollect, TypeOK
    <2>3. ASSUME NEW c \in Cheques, claim(c)
          PROVE  InWindow
        <3>1. record'[c] = [record[c] EXCEPT !.state = "Claimed"] /\ record[c] \in ChequeRecord
            BY <2>3, StoredRecord DEF claim, CanClaim, TypeOK
        <3>2. record'[c].expires_at = record[c].expires_at
            BY <3>1 DEF ChequeRecord
        <3> QED BY <2>0, <2>3, <3>2 DEF claim, CanClaim, TypeOK
    <2>4. ASSUME NEW c \in Cheques, refund(c)
          PROVE  InWindow
        <3>1. record'[c] = [record[c] EXCEPT !.state = "Refunded"] /\ record[c] \in ChequeRecord
            BY <2>4, StoredRecord DEF refund, CanRefund, TypeOK
        <3>2. record'[c].expires_at = record[c].expires_at
            BY <3>1 DEF ChequeRecord
        <3> QED BY <2>0, <2>4, <3>2 DEF refund, CanRefund, TypeOK
    <2>5. CASE UNCHANGED moved
        BY <2>0, <2>5
    <2>6. ASSUME NEW o \in Accounts, NEW n \in Amounts,
                 \/ \E t \in Tokens : deposit(o, t, n)
                 \/ withdraw(o, n)
          PROVE  UNCHANGED moved
        BY <2>6 DEF deposit, withdraw
    <2>7. World \/ UNCHANGED chainVars => UNCHANGED moved
        BY DEF World, Tick, Spend, ToggleTrustline, chainVars
    <2> QED BY <2>1, <2>2, <2>3, <2>4, <2>5, <2>6, <2>7 DEF Next, ContractCall
<1>2. TypeOK /\ [Next]_chainVars => [InWindow]_chainVars
    BY <1>1
<1> QED BY <1>2, TypeCorrect, PTL DEF Spec, WindowsDisjoint

-----------------------------------------------------------------------------
(* The contract implements ChequePromise, for every instance: its storage  *)
(* moves the money of one cheque at a time along the promised edges.       *)
THEOREM ContractKeepsPromise == Spec => KeepsPromise
<1> DEFINE where == [c \in Cheques |-> PlaceOf(record[c].state)]
<1>1. Init => Promise!PlaceInit
    BY DEF Init, Promise!PlaceInit, PlaceOf, None
<1>2. TypeOK /\ RecordStep => Promise!PlaceNext \/ UNCHANGED where
    <2> SUFFICES ASSUME TypeOK, RecordStep PROVE Promise!PlaceNext \/ UNCHANGED where
        OBVIOUS
    <2>1. ASSUME NEW c \in Cheques, NEW s \in {"Funded", "Collected", "Bounced"}, Creates(c, s)
          PROVE  Promise!PlaceNext
        <3>1. PICK r \in ChequeRecord : r.state = s /\ record' = [record EXCEPT ![c] = r]
            BY <2>1 DEF Creates
        <3>2. where[c] = "sender"
            BY <2>1 DEF Creates, Has, None, PlaceOf
        <3>3. where' = [where EXCEPT ![c] = PlaceOf(s)]
            BY <3>1 DEF TypeOK
        <3>4. PlaceOf(s) \in {"escrow", "receiver", "bounced"}
            BY DEF PlaceOf
        <3> QED BY <3>2, <3>3, <3>4
            DEF Promise!PlaceNext, Promise!Fund, Promise!Collect, Promise!Bounce, Promise!Move
    <2>2. ASSUME NEW c \in Cheques, NEW s \in {"Claimed", "Refunded"}, Resolves(c, s)
          PROVE  Promise!PlaceNext
        <3>1. record[c] \in ChequeRecord
            BY <2>2, StoredRecord DEF Resolves
        <3>2. record'[c].state = s /\ \A o \in Cheques : o # c => record'[o] = record[o]
            BY <2>2, <3>1 DEF Resolves, TypeOK, ChequeRecord
        <3>3. where[c] = "escrow"
            BY <2>2 DEF Resolves, Is, PlaceOf
        <3>4. where' = [where EXCEPT ![c] = PlaceOf(s)]
            BY <3>2
        <3>5. PlaceOf(s) \in {"receiver", "returned"}
            BY DEF PlaceOf
        <3> QED BY <3>3, <3>4, <3>5 DEF Promise!PlaceNext, Promise!Pay, Promise!Return, Promise!Move
    <2>3. CASE UNCHANGED record
        BY <2>3
    <2> QED BY <2>1, <2>2, <2>3 DEF RecordStep
<1>3. TypeOK /\ [Next]_chainVars => [Promise!PlaceNext]_where
    BY <1>2, NextRecord
<1> QED BY <1>1, <1>3, TypeCorrect, PTL DEF Spec, KeepsPromise, Promise!PlaceSpec

-----------------------------------------------------------------------------
(* Solvency.  The units a call adds or takes away are those of one key,    *)
(* from one amount to another; everything else is counting finite sets.    *)
(* The books start empty, so they are finite although nothing is assumed   *)
(* of the number of accounts and cheque ids.                               *)

Units(x, from, to) == {x} \X (from + 1 .. to)

LEMMA UnitsCount ==
    ASSUME NEW x, NEW from \in Nat, NEW to \in Nat, from <= to
    PROVE  IsFiniteSet(Units(x, from, to)) /\ Cardinality(Units(x, from, to)) = to - from
<1> DEFINE K == from + 1 .. to
<1>1. IsFiniteSet({x}) /\ Cardinality({x}) = 1
    BY FS_Singleton, Zenon
<1>2. IsFiniteSet(K) /\ Cardinality(K) = IF from + 1 > to THEN 0 ELSE to - (from + 1) + 1
    BY FS_Interval
<1>3. Cardinality(K) = to - from
    BY <1>2
<1>4. IsFiniteSet({x} \X K) /\ Cardinality({x} \X K) = Cardinality({x}) * Cardinality(K)
    <2> HIDE DEF K
    <2> QED BY <1>1, <1>2, FS_Product, Zenon
<1>5. Cardinality({x} \X K) = to - from
    <2> HIDE DEF K
    <2>1. Cardinality({x} \X K) = 1 * (to - from)
        BY <1>1, <1>3, <1>4
    <2> QED BY <2>1
<1> QED BY <1>4, <1>5 DEF Units

LEMMA CountGrows ==
    ASSUME NEW S, IsFiniteSet(S), NEW D, IsFiniteSet(D), NEW T, T \subseteq S \cup D
    PROVE  IsFiniteSet(T) /\ Cardinality(T) <= Cardinality(S) + Cardinality(D)
<1>1. /\ IsFiniteSet(S \cup D)
      /\ Cardinality(S \cup D) = Cardinality(S) + Cardinality(D) - Cardinality(S \cap D)
    BY FS_Union, Zenon
<1>2. IsFiniteSet(S \cap D)
    BY FS_Intersection, Zenon
<1>3. IsFiniteSet(T) /\ Cardinality(T) <= Cardinality(S \cup D)
    BY <1>1, FS_Subset, Zenon
<1>4. /\ Cardinality(S) \in Nat /\ Cardinality(D) \in Nat /\ Cardinality(T) \in Nat
      /\ Cardinality(S \cap D) \in Nat
    BY <1>2, <1>3, FS_CardinalityType, Zenon
<1> QED BY <1>1, <1>3, <1>4

LEMMA CountShrinks ==
    ASSUME NEW S, IsFiniteSet(S), NEW D, D \subseteq S, NEW T, T \subseteq S \ D
    PROVE  IsFiniteSet(T) /\ Cardinality(T) <= Cardinality(S) - Cardinality(D)
<1>1. IsFiniteSet(S \ D) /\ Cardinality(S \ D) = Cardinality(S) - Cardinality(S \cap D)
    BY FS_Difference, Zenon
<1>2. S \cap D = D
    OBVIOUS
<1>3. IsFiniteSet(T) /\ Cardinality(T) <= Cardinality(S \ D)
    BY <1>1, FS_Subset, Zenon
<1> QED BY <1>1, <1>2, <1>3

(* What a transfer does to the contract's own balance.                     *)
LEMMA EscrowReceives ==
    ASSUME TypeOK, NEW t \in Tokens, NEW from \in Accounts, NEW n \in Nat,
           Transfer(t, from, Escrow, n), NEW u \in Tokens
    PROVE  balance'[Escrow][u] = balance[Escrow][u] + (IF u = t THEN n ELSE 0)
<1>1. from # Escrow /\ from \in Holders /\ Escrow \in Holders
    BY EscrowAssumption DEF Holders
<1>2. balance \in [Holders -> [Tokens -> Nat]] /\ balance[Escrow][u] \in Nat
    BY <1>1 DEF TypeOK
<1> QED BY <1>1, <1>2 DEF Transfer, Debited

LEMMA EscrowPays ==
    ASSUME TypeOK, NEW t \in Tokens, NEW to \in Accounts, NEW n \in Nat,
           Transfer(t, Escrow, to, n), NEW u \in Tokens
    PROVE  balance'[Escrow][u] = balance[Escrow][u] - (IF u = t THEN n ELSE 0)
<1>1. to # Escrow /\ to \in Holders /\ Escrow \in Holders
    BY EscrowAssumption DEF Holders
<1>2. balance \in [Holders -> [Tokens -> Nat]] /\ balance[Escrow][u] \in Nat
    BY <1>1 DEF TypeOK
<1> QED BY <1>1, <1>2 DEF Transfer, Debited

(* The inductive invariant: the books are finite, so that counting them    *)
(* means something, and covered.                                           *)
Covered(t) ==
    /\ IsFiniteSet(ChequeUnits(t))
    /\ IsFiniteSet(PoolUnits(t))
    /\ balance[Escrow][t] >= Owed(t)

Books == \A t \in Tokens : Covered(t)

(* What comes in is at least what is newly owed; what goes out is at most  *)
(* what is owed no more.                                                   *)
LEMMA CoveredIn ==
    ASSUME TypeOK, TypeOK', NEW t \in Tokens, Covered(t),
           NEW C, IsFiniteSet(C), ChequeUnits(t)' \subseteq ChequeUnits(t) \cup C,
           NEW P, IsFiniteSet(P), PoolUnits(t)' \subseteq PoolUnits(t) \cup P,
           balance'[Escrow][t] >= balance[Escrow][t] + (Cardinality(C) + Cardinality(P))
    PROVE  Covered(t)'
<1>1. /\ IsFiniteSet(ChequeUnits(t)')
      /\ Cardinality(ChequeUnits(t)') <= Cardinality(ChequeUnits(t)) + Cardinality(C)
    BY CountGrows, Zenon DEF Covered
<1>2. /\ IsFiniteSet(PoolUnits(t)')
      /\ Cardinality(PoolUnits(t)') <= Cardinality(PoolUnits(t)) + Cardinality(P)
    BY CountGrows, Zenon DEF Covered
<1>3. /\ Cardinality(ChequeUnits(t)) \in Nat /\ Cardinality(PoolUnits(t)) \in Nat
      /\ Cardinality(ChequeUnits(t)') \in Nat /\ Cardinality(PoolUnits(t)') \in Nat
      /\ Cardinality(C) \in Nat /\ Cardinality(P) \in Nat
    BY <1>1, <1>2, FS_CardinalityType, Zenon DEF Covered
<1>4. balance[Escrow][t] \in Nat /\ balance'[Escrow][t] \in Nat
    BY DEF TypeOK, Holders
<1> QED BY <1>1, <1>2, <1>3, <1>4 DEF Covered, Owed

LEMMA CoveredOut ==
    ASSUME TypeOK, TypeOK', NEW t \in Tokens, Covered(t),
           NEW C, C \subseteq ChequeUnits(t), ChequeUnits(t)' \subseteq ChequeUnits(t) \ C,
           NEW P, P \subseteq PoolUnits(t), PoolUnits(t)' \subseteq PoolUnits(t) \ P,
           balance'[Escrow][t] >= balance[Escrow][t] - (Cardinality(C) + Cardinality(P))
    PROVE  Covered(t)'
<1>1. /\ IsFiniteSet(ChequeUnits(t)')
      /\ Cardinality(ChequeUnits(t)') <= Cardinality(ChequeUnits(t)) - Cardinality(C)
    BY CountShrinks, Zenon DEF Covered
<1>2. /\ IsFiniteSet(PoolUnits(t)')
      /\ Cardinality(PoolUnits(t)') <= Cardinality(PoolUnits(t)) - Cardinality(P)
    BY CountShrinks, Zenon DEF Covered
<1>3. IsFiniteSet(C) /\ IsFiniteSet(P)
    BY FS_Subset, Zenon DEF Covered
<1>4. /\ Cardinality(ChequeUnits(t)) \in Nat /\ Cardinality(PoolUnits(t)) \in Nat
      /\ Cardinality(ChequeUnits(t)') \in Nat /\ Cardinality(PoolUnits(t)') \in Nat
      /\ Cardinality(C) \in Nat /\ Cardinality(P) \in Nat
    BY <1>1, <1>2, <1>3, FS_CardinalityType, Zenon DEF Covered
<1>5. balance[Escrow][t] \in Nat /\ balance'[Escrow][t] \in Nat
    BY DEF TypeOK, Holders
<1> QED BY <1>1, <1>2, <1>4, <1>5 DEF Covered, Owed

LEMMA CoveredSame ==
    ASSUME TypeOK, TypeOK', NEW t \in Tokens, Covered(t),
           ChequeUnits(t)' \subseteq ChequeUnits(t), PoolUnits(t)' \subseteq PoolUnits(t),
           balance'[Escrow][t] >= balance[Escrow][t]
    PROVE  Covered(t)'
<1>1. IsFiniteSet({}) /\ Cardinality({}) = 0
    BY FS_EmptySet, Zenon
<1>2. balance[Escrow][t] \in Nat
    BY DEF TypeOK, Holders
<1>3. balance'[Escrow][t] >= balance[Escrow][t] + (Cardinality({}) + Cardinality({}))
    BY <1>1, <1>2
<1>4. ChequeUnits(t)' \subseteq ChequeUnits(t) \cup {} /\ PoolUnits(t)' \subseteq PoolUnits(t) \cup {}
    BY Zenon
<1> QED BY <1>1, <1>3, <1>4, CoveredIn, Zenon

-----------------------------------------------------------------------------
(* One lemma per call, again.                                              *)

LEMMA lockCovers ==
    ASSUME TypeOK, TypeOK', Books,
           NEW c \in Cheques, NEW s \in Accounts, NEW r \in Accounts,
           NEW t \in Tokens, NEW n \in Nat, NEW d \in Deadlines,
           lock(s, c, r, t, n, d)
    PROVE  Books'
<1> SUFFICES ASSUME NEW u \in Tokens PROVE Covered(u)'
    BY DEF Books
<1>1. Covered(u)
    BY DEF Books
<1>2. PoolUnits(u)' \subseteq PoolUnits(u)
    BY DEF lock, PoolUnits, PoolsIn, HasPool
<1>3. /\ record'[c].state = "Funded" /\ record'[c].token = t /\ record'[c].amount = n
      /\ \A x \in Cheques : x # c => record'[x] = record[x]
    BY DEF lock, TypeOK
<1>4. balance'[Escrow][u] = balance[Escrow][u] + (IF u = t THEN n ELSE 0)
    <2>1. Transfer(t, s, Escrow, n)
        BY DEF lock
    <2> QED BY <2>1, EscrowReceives, Zenon
<1>5. CASE u = t
    <2>1. ChequeUnits(u)' \subseteq ChequeUnits(u) \cup Units(c, 0, n)
        BY <1>3 DEF ChequeUnits, FundedIn, Is, Units
    <2>2. IsFiniteSet(Units(c, 0, n)) /\ Cardinality(Units(c, 0, n)) = n
        BY UnitsCount
    <2>3. IsFiniteSet({}) /\ Cardinality({}) = 0
        BY FS_EmptySet, Zenon
    <2>4. balance[Escrow][u] \in Nat
        BY DEF TypeOK, Holders
    <2>5. balance'[Escrow][u] >= balance[Escrow][u] + (Cardinality(Units(c, 0, n)) + Cardinality({}))
        BY <1>4, <1>5, <2>2, <2>3, <2>4
    <2>6. PoolUnits(u)' \subseteq PoolUnits(u) \cup {}
        BY <1>2
    <2> QED BY <1>1, <2>1, <2>2, <2>3, <2>5, <2>6, CoveredIn, Zenon
<1>6. CASE u # t
    <2>1. ChequeUnits(u)' \subseteq ChequeUnits(u)
        BY <1>3, <1>6 DEF ChequeUnits, FundedIn, Is
    <2>2. balance'[Escrow][u] >= balance[Escrow][u]
        BY <1>4, <1>6 DEF TypeOK, Holders
    <2> QED BY <1>1, <1>2, <2>1, <2>2, CoveredSame
<1> QED BY <1>5, <1>6

(* claim and refund: a funded cheque is resolved and paid out in full to   *)
(* an account.                                                             *)
LEMMA PayoutCovers ==
    ASSUME TypeOK, TypeOK', Books,
           NEW c \in Cheques, Has(c), Is(c, "Funded"),
           NEW to \in Accounts, NEW state, state # "Funded",
           Transfer(record[c].token, Escrow, to, record[c].amount),
           record' = [record EXCEPT ![c].state = state],
           UNCHANGED pool
    PROVE  Books'
<1> SUFFICES ASSUME NEW u \in Tokens PROVE Covered(u)'
    BY DEF Books
<1> DEFINE t == record[c].token
           n == record[c].amount
<1>0. t \in Tokens /\ n \in Nat /\ record[c] \in ChequeRecord
    BY StoredRecord
<1>1. Covered(u)
    BY DEF Books
<1>2. PoolUnits(u)' \subseteq PoolUnits(u)
    BY DEF PoolUnits, PoolsIn, HasPool
<1>3. record'[c].state # "Funded" /\ \A x \in Cheques : x # c => record'[x] = record[x]
    BY <1>0 DEF TypeOK, ChequeRecord
<1>4. balance'[Escrow][u] = balance[Escrow][u] - (IF u = t THEN n ELSE 0)
    BY <1>0, EscrowPays, Zenon
<1>5. CASE u = t
    <2>1. Units(c, 0, n) \subseteq ChequeUnits(u)
        BY <1>5 DEF ChequeUnits, FundedIn, Units
    <2>2. ChequeUnits(u)' \subseteq ChequeUnits(u) \ Units(c, 0, n)
        BY <1>3 DEF ChequeUnits, FundedIn, Is, Units
    <2>3. Cardinality(Units(c, 0, n)) = n
        BY <1>0, UnitsCount
    <2>4. Cardinality({}) = 0
        BY FS_EmptySet, Zenon
    <2>5. balance[Escrow][u] \in Nat
        BY DEF TypeOK, Holders
    <2>6. balance'[Escrow][u] >= balance[Escrow][u] - (Cardinality(Units(c, 0, n)) + Cardinality({}))
        BY <1>0, <1>4, <1>5, <2>3, <2>4, <2>5
    <2>7. {} \subseteq PoolUnits(u) /\ PoolUnits(u)' \subseteq PoolUnits(u) \ {}
        BY <1>2
    <2> QED BY <1>1, <2>1, <2>2, <2>6, <2>7, CoveredOut, Zenon
<1>6. CASE u # t
    <2>1. ChequeUnits(u)' \subseteq ChequeUnits(u)
        BY <1>3 DEF ChequeUnits, FundedIn, Is
    <2>2. balance'[Escrow][u] >= balance[Escrow][u]
        BY <1>4, <1>6 DEF TypeOK, Holders
    <2> QED BY <1>1, <1>2, <2>1, <2>2, CoveredSame
<1> QED BY <1>5, <1>6

LEMMA force_collectCovers ==
    ASSUME TypeOK, TypeOK', Books,
           NEW c \in Cheques, NEW s \in Accounts, NEW r \in Accounts,
           NEW t \in Tokens, NEW n \in Nat, NEW d \in Deadlines,
           force_collect(s, c, r, t, n, d)
    PROVE  Books'
<1> SUFFICES ASSUME NEW u \in Tokens PROVE Covered(u)'
    BY DEF Books
<1>1. Covered(u)
    BY DEF Books
<1>2. PoolUnits(u)' \subseteq PoolUnits(u)
    BY DEF force_collect, PoolUnits, PoolsIn, HasPool
<1>3. record'[c].state # "Funded" /\ \A x \in Cheques : x # c => record'[x] = record[x]
    BY DEF force_collect, TypeOK
<1>4. ChequeUnits(u)' \subseteq ChequeUnits(u)
    BY <1>3 DEF ChequeUnits, FundedIn, Is
<1>5. balance'[Escrow] = balance[Escrow]
    <2>1. s # Escrow /\ r # Escrow /\ s \in Holders /\ r \in Holders /\ Escrow \in Holders
        BY EscrowAssumption DEF Holders
    <2> QED BY <2>1 DEF force_collect, Transfer, Debited, TypeOK
<1>6. balance'[Escrow][u] >= balance[Escrow][u]
    BY <1>5 DEF TypeOK, Holders
<1> QED BY <1>1, <1>2, <1>4, <1>6, CoveredSame

(* A pool that still holds something only takes more of the same token, so *)
(* a deposit adds units and turns none into another token.                 *)
LEMMA depositCovers ==
    ASSUME TypeOK, TypeOK', Books,
           NEW o \in Accounts, NEW t \in Tokens, NEW n \in Nat, deposit(o, t, n)
    PROVE  Books'
<1> SUFFICES ASSUME NEW u \in Tokens PROVE Covered(u)'
    BY DEF Books
<1> DEFINE m == pool[o].amount
<1>0. m \in Nat /\ m + n \in Nat /\ m <= m + n
    BY DEF TypeOK, PoolRecord, NoPool
<1>1. Covered(u)
    BY DEF Books
<1>2. ChequeUnits(u)' \subseteq ChequeUnits(u)
    BY DEF deposit, ChequeUnits, FundedIn, Is
<1>3. /\ pool'[o] = [token |-> t, amount |-> m + n]
      /\ \A a \in Accounts : a # o => pool'[a] = pool[a]
    BY DEF deposit, TypeOK
<1>4. balance'[Escrow][u] = balance[Escrow][u] + (IF u = t THEN n ELSE 0)
    <2>1. Transfer(t, o, Escrow, n)
        BY DEF deposit
    <2> QED BY <2>1, EscrowReceives, Zenon
<1>5. CASE u = t
    <2>1. PoolUnits(u)' \subseteq PoolUnits(u) \cup Units(o, m, m + n)
        <3> SUFFICES ASSUME NEW a \in Accounts, pool'[a] # NoPool, pool'[a].token = u,
                            NEW k \in 1 .. pool'[a].amount
                     PROVE  <<a, k>> \in PoolUnits(u) \cup Units(o, m, m + n)
            BY DEF PoolUnits, PoolsIn, HasPool
        <3>1. CASE a # o
            BY <1>3, <3>1 DEF PoolUnits, PoolsIn, HasPool
        <3>2. CASE a = o /\ k > m
            BY <1>0, <1>3, <3>2 DEF Units
        <3>3. CASE a = o /\ k <= m
            <4>1. k \in 1 .. m
                BY <1>0, <1>3, <3>3
            <4>2. m > 0
                BY <1>0, <4>1
            <4>3. pool[o].token = u /\ pool[o] # NoPool
                BY <1>5, <4>2 DEF deposit, CanDeposit, NoPool
            <4> HIDE DEF m
            <4> QED BY <3>3, <4>1, <4>3 DEF PoolUnits, PoolsIn, HasPool, m
        <3>4. k > m \/ k <= m
            BY <1>0, <1>3
        <3> QED BY <3>1, <3>2, <3>3, <3>4
    <2>2. IsFiniteSet(Units(o, m, m + n)) /\ Cardinality(Units(o, m, m + n)) = n
        BY <1>0, UnitsCount
    <2>3. IsFiniteSet({}) /\ Cardinality({}) = 0
        BY FS_EmptySet, Zenon
    <2>4. balance[Escrow][u] \in Nat
        BY DEF TypeOK, Holders
    <2>5. balance'[Escrow][u] >= balance[Escrow][u] + (Cardinality({}) + Cardinality(Units(o, m, m + n)))
        BY <1>4, <1>5, <2>2, <2>3, <2>4
    <2>6. ChequeUnits(u)' \subseteq ChequeUnits(u) \cup {}
        BY <1>2
    <2> QED BY <1>1, <2>1, <2>2, <2>3, <2>5, <2>6, CoveredIn, Zenon
<1>6. CASE u # t
    <2>1. PoolUnits(u)' \subseteq PoolUnits(u)
        BY <1>3, <1>6 DEF PoolUnits, PoolsIn, HasPool
    <2>2. balance'[Escrow][u] >= balance[Escrow][u]
        BY <1>4, <1>6 DEF TypeOK, Holders
    <2> QED BY <1>1, <1>2, <2>1, <2>2, CoveredSame
<1> QED BY <1>5, <1>6

LEMMA withdrawCovers ==
    ASSUME TypeOK, TypeOK', Books,
           NEW o \in Accounts, NEW n \in Nat, withdraw(o, n)
    PROVE  Books'
<1> SUFFICES ASSUME NEW u \in Tokens PROVE Covered(u)'
    BY DEF Books
<1> DEFINE m == pool[o].amount
           t == pool[o].token
<1>0. /\ pool[o] \in PoolRecord /\ pool[o] # NoPool
      /\ t \in Tokens /\ m \in Nat /\ m - n \in Nat /\ m - n <= m /\ m - (m - n) = n
    BY DEF withdraw, CanWithdraw, HasPool, TypeOK, PoolRecord
<1>1. Covered(u)
    BY DEF Books
<1>2. ChequeUnits(u)' \subseteq ChequeUnits(u)
    BY DEF withdraw, ChequeUnits, FundedIn, Is
<1>3. /\ pool'[o].token = t /\ pool'[o].amount = m - n
      /\ \A a \in Accounts : a # o => pool'[a] = pool[a]
    BY <1>0 DEF withdraw, TypeOK, PoolRecord
<1>4. balance'[Escrow][u] = balance[Escrow][u] - (IF u = t THEN n ELSE 0)
    <2>1. Transfer(t, Escrow, o, n)
        BY DEF withdraw
    <2> QED BY <1>0, <2>1, EscrowPays, Zenon
<1>5. CASE u = t
    <2>1. Units(o, m - n, m) \subseteq PoolUnits(u)
        <3>1. \A k \in (m - n) + 1 .. m : k \in 1 .. pool[o].amount
            BY <1>0
        <3> QED BY <1>0, <1>5, <3>1 DEF PoolUnits, PoolsIn, HasPool, Units
    <2>2. PoolUnits(u)' \subseteq PoolUnits(u) \ Units(o, m - n, m)
        <3> SUFFICES ASSUME NEW a \in Accounts, pool'[a] # NoPool, pool'[a].token = u,
                            NEW k \in 1 .. pool'[a].amount
                     PROVE  <<a, k>> \in PoolUnits(u) \ Units(o, m - n, m)
            BY DEF PoolUnits, PoolsIn, HasPool
        <3>1. CASE a # o
            BY <1>3, <3>1 DEF PoolUnits, PoolsIn, HasPool, Units
        <3>2. CASE a = o
            <4>1. k \in 1 .. m /\ ~(k \in (m - n) + 1 .. m)
                BY <1>0, <1>3, <3>2
            <4>2. <<a, k>> \in PoolUnits(u)
                BY <1>0, <1>5, <3>2, <4>1 DEF PoolUnits, PoolsIn, HasPool
            <4>3. <<a, k>> \notin Units(o, m - n, m)
                BY <4>1 DEF Units
            <4> QED BY <4>2, <4>3
        <3> QED BY <3>1, <3>2
    <2>3. Cardinality(Units(o, m - n, m)) = n
        <3>1. Cardinality(Units(o, m - n, m)) = m - (m - n)
            BY <1>0, UnitsCount
        <3> QED BY <1>0, <3>1
    <2>4. Cardinality({}) = 0
        BY FS_EmptySet, Zenon
    <2>5. balance[Escrow][u] \in Nat
        BY DEF TypeOK, Holders
    <2>6. balance'[Escrow][u] >= balance[Escrow][u] - (Cardinality({}) + Cardinality(Units(o, m - n, m)))
        BY <1>4, <1>5, <2>3, <2>4, <2>5
    <2>7. {} \subseteq ChequeUnits(u) /\ ChequeUnits(u)' \subseteq ChequeUnits(u) \ {}
        BY <1>2
    <2> QED BY <1>1, <2>1, <2>2, <2>6, <2>7, CoveredOut, Zenon
<1>6. CASE u # t
    <2>1. PoolUnits(u)' \subseteq PoolUnits(u)
        BY <1>3, <1>6 DEF PoolUnits, PoolsIn, HasPool
    <2>2. balance'[Escrow][u] >= balance[Escrow][u]
        BY <1>4, <1>6 DEF TypeOK, Holders
    <2> QED BY <1>1, <1>2, <2>1, <2>2, CoveredSame
<1> QED BY <1>5, <1>6

(* Outside the contract its balance only grows: nobody but the contract    *)
(* spends what its address holds.                                          *)
LEMMA WorldCovers ==
    ASSUME TypeOK, TypeOK', Books, World \/ UNCHANGED chainVars
    PROVE  Books'
<1> SUFFICES ASSUME NEW u \in Tokens PROVE Covered(u)'
    BY DEF Books
<1>1. Covered(u)
    BY DEF Books
<1>2. UNCHANGED <<record, pool>>
    BY DEF World, Tick, Spend, ToggleTrustline, chainVars
<1>3. ChequeUnits(u)' \subseteq ChequeUnits(u) /\ PoolUnits(u)' \subseteq PoolUnits(u)
    BY <1>2 DEF ChequeUnits, FundedIn, Is, PoolUnits, PoolsIn, HasPool
<1>4. balance[Escrow][u] \in Nat
    BY DEF TypeOK, Holders
<1>5. balance'[Escrow][u] >= balance[Escrow][u]
    <2>1. CASE UNCHANGED balance
        BY <1>4, <2>1
    <2>2. ASSUME NEW a \in Accounts, NEW h \in Holders, NEW t \in Tokens, NEW n \in Amounts,
                 Spend(a, h, t, n)
          PROVE  balance'[Escrow][u] >= balance[Escrow][u]
        <3>1. a \in Holders /\ a # Escrow /\ n \in Nat /\ a # h
            BY <2>2, EscrowAssumption DEF Holders, Spend
        <3>2. Transfer(t, a, h, n)
            BY <2>2 DEF Spend
        <3>3. CASE h = Escrow
            <4>1. balance'[Escrow][u] = balance[Escrow][u] + (IF u = t THEN n ELSE 0)
                BY <3>1, <3>2, <3>3, EscrowReceives, Zenon
            <4> QED BY <1>4, <3>1, <4>1
        <3>4. CASE h # Escrow
            <4>1. balance'[Escrow] = balance[Escrow]
                BY <3>1, <3>2, <3>4 DEF Transfer, Debited, TypeOK, Holders
            <4> QED BY <1>4, <4>1
        <3> QED BY <3>3, <3>4
    <2> QED BY <2>1, <2>2 DEF World, Tick, ToggleTrustline, chainVars
<1> QED BY <1>1, <1>3, <1>5, CoveredSame

LEMMA BooksStep == TypeOK /\ Books /\ [Next]_chainVars => Books'
<1> SUFFICES ASSUME TypeOK, Books, [Next]_chainVars PROVE Books'
    OBVIOUS
<1>0. TypeOK' /\ Amounts \subseteq Nat
    BY NextType, EscrowAssumption
<1>1. ASSUME NEW c \in Cheques, claim(c)
      PROVE  Books'
    <2>1. record[c].receiver \in Accounts
        BY <1>1, StoredRecord DEF claim, CanClaim
    <2> QED BY <1>0, <1>1, <2>1, PayoutCovers DEF claim, CanClaim
<1>2. ASSUME NEW c \in Cheques, refund(c)
      PROVE  Books'
    <2>1. record[c].sender \in Accounts
        BY <1>2, StoredRecord DEF refund, CanRefund
    <2> QED BY <1>0, <1>2, <2>1, PayoutCovers DEF refund, CanRefund
<1>3. CASE ContractCall
    BY <1>0, <1>1, <1>2, <1>3, lockCovers, force_collectCovers, depositCovers, withdrawCovers
    DEF ContractCall
<1> QED BY <1>0, <1>3, WorldCovers DEF Next

LEMMA EmptyBooksCovered == Init => Books
<1> SUFFICES ASSUME Init, NEW t \in Tokens PROVE Covered(t)
    BY DEF Books
<1>1. ChequeUnits(t) = {} /\ PoolUnits(t) = {}
    BY DEF Init, ChequeUnits, FundedIn, Is, None, PoolUnits, PoolsIn, HasPool
<1>2. IsFiniteSet({}) /\ Cardinality({}) = 0
    BY FS_EmptySet, Zenon
<1>3. balance[Escrow][t] = 0
    BY DEF Init, Holders
<1> QED BY <1>1, <1>2, <1>3 DEF Covered, Owed

(* D1, for any number of accounts, tokens, cheques and pools: whatever was *)
(* locked, claimed, refunded, collected, deposited and withdrawn before,   *)
(* the contract's balance covers every funded cheque and every pool of     *)
(* each token at the same time; no owner's money pays for another's.       *)
THEOREM EscrowCovers == Spec => []Solvent
<1>1. Books => Solvent
    BY DEF Books, Covered, Solvent
<1> QED BY <1>1, EmptyBooksCovered, BooksStep, TypeCorrect, PTL DEF Spec
=============================================================================
