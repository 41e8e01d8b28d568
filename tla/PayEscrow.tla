------------------------------ MODULE PayEscrow ------------------------------
(***************************************************************************)
(* The pay-escrow Soroban contract (contracts/soroban/pay-escrow).         *)
(*                                                                         *)
(* One contract call is one atomic ledger transaction: either every check  *)
(* passes and the call applies completely, or it traps and the ledger is   *)
(* unchanged.  A call that traps is therefore a disabled action, and the   *)
(* checks of a call are its Can... operator, which is also what a          *)
(* simulateTransaction of that call answers.                               *)
(*                                                                         *)
(* Time is ledger time in units of MaxTime + 1 steps; expires_at is a      *)
(* point of the same clock.                                                *)
(***************************************************************************)
EXTENDS Integers, FiniteSets

CONSTANTS
    Accounts,           \* account addresses
    Escrow,             \* the contract's own address
    Tokens,             \* token contracts
    Cheques,            \* cheque ids (16 raw bytes of a ULID)
    Amounts,            \* amounts a caller may pass, zero included
    InitialBalance,     \* what every account holds of every token at first
    Fickle,             \* accounts that open and close their trustlines
    ForceCollectWindow, \* FORCE_COLLECT_WINDOW_SECONDS
    MaxTime             \* bound: the last instant that is explored

ASSUME EscrowAssumption ==
    /\ Escrow \notin Accounts
    /\ Amounts \subseteq Nat
    /\ InitialBalance \in Nat
    /\ Fickle \subseteq Accounts
    /\ ForceCollectWindow \in Nat
    /\ MaxTime \in Nat

VARIABLES
    now,        \* env.ledger().timestamp()
    balance,    \* token balances of the accounts and of the contract
    trusting,   \* <<account, token>> pairs with an open trustline
    record,     \* persistent storage under DataKey::Cheque
    pool,       \* persistent storage under DataKey::Pool
    moved       \* history: what each cheque's calls moved, and where to

chainVars == <<now, balance, trusting, record, pool, moved>>

-----------------------------------------------------------------------------
Time == 0 .. MaxTime
Holders == Accounts \cup {Escrow}

(* Deadlines a caller may write into a cheque: some already past, some     *)
(* beyond the explored horizon.                                            *)
Deadlines == 0 .. (MaxTime + 1)

ChequeState == {"Funded", "Claimed", "Refunded", "Collected", "Bounced"}

ChequeRecord == [sender : Accounts, receiver : Accounts, token : Tokens,
                 amount : Nat, expires_at : Deadlines, state : ChequeState]

PoolRecord == [token : Tokens, amount : Nat]

(* What Option<Record>::None is: nothing stored under the key.             *)
None == [state |-> "None"]
NoPool == [amount |-> 0]

Has(c) == record[c] # None
HasPool(o) == pool[o] # NoPool

Is(c, s) == record[c].state = s

Nothing == [locked |-> 0, toReceiver |-> 0, toSender |-> 0]

-----------------------------------------------------------------------------
(* The Stellar asset contract behind token::Client.  A transfer traps when *)
(* the payer is short or the payee has no trustline; the contract address  *)
(* needs none.                                                             *)

Trusts(h, t) == h = Escrow \/ <<h, t>> \in trusting

CanTransfer(t, from, to, n) ==
    /\ balance[from][t] >= n
    /\ Trusts(from, t)
    /\ Trusts(to, t)

Debited(t, from, n) == [balance EXCEPT ![from][t] = @ - n]

Transfer(t, from, to, n) ==
    balance' = [Debited(t, from, n) EXCEPT ![to][t] = @ + n]

-----------------------------------------------------------------------------
Init ==
    /\ now = 0
    /\ balance = [h \in Holders |->
                    [t \in Tokens |-> IF h = Escrow THEN 0 ELSE InitialBalance]]
    /\ trusting = Accounts \X Tokens
    /\ record = [c \in Cheques |-> None]
    /\ pool = [a \in Accounts |-> NoPool]
    /\ moved = [c \in Cheques |-> Nothing]

-----------------------------------------------------------------------------
(* lock: sender.require_auth is the caller being the sender.               *)

(* Seeded fault for TermsFixed: the key's previous use is not checked.      *)
CanLock_Reuse(sender, c, receiver, token, amount) ==
    /\ amount > 0
    /\ sender # receiver
    /\ CanTransfer(token, sender, Escrow, amount)

CanLock(sender, c, receiver, token, amount) ==
    /\ amount > 0
    /\ sender # receiver
    /\ ~Has(c)
    /\ CanTransfer(token, sender, Escrow, amount)

lock(sender, c, receiver, token, amount, expires_at) ==
    /\ CanLock(sender, c, receiver, token, amount)
    /\ Transfer(token, sender, Escrow, amount)
    /\ record' = [record EXCEPT ![c] =
            [sender |-> sender, receiver |-> receiver, token |-> token,
             amount |-> amount, expires_at |-> expires_at, state |-> "Funded"]]
    /\ moved' = [moved EXCEPT ![c].locked = @ + amount]
    /\ UNCHANGED <<now, trusting, pool>>

(* claim: the receiver's own authorization, so the receiver is the caller. *)

(* Seeded fault for WindowsDisjoint: the deadline itself still claims.      *)
CanClaim_AtDeadline(c) ==
    /\ Has(c)
    /\ Is(c, "Funded")
    /\ now <= record[c].expires_at
    /\ CanTransfer(record[c].token, Escrow, record[c].receiver, record[c].amount)

CanClaim(c) ==
    /\ Has(c)
    /\ Is(c, "Funded")
    /\ now < record[c].expires_at
    /\ CanTransfer(record[c].token, Escrow, record[c].receiver, record[c].amount)

claim(c) ==
    /\ CanClaim(c)
    /\ Transfer(record[c].token, Escrow, record[c].receiver, record[c].amount)
    /\ record' = [record EXCEPT ![c].state = "Claimed"]
    /\ moved' = [moved EXCEPT ![c].toReceiver = @ + record[c].amount]
    /\ UNCHANGED <<now, trusting, pool>>

(* refund: permissionless.                                                 *)

(* Seeded fault for NeverStuck: only the instant of the deadline refunds.   *)
CanRefund_OnlyAtDeadline(c) ==
    /\ Has(c)
    /\ Is(c, "Funded")
    /\ now = record[c].expires_at
    /\ CanTransfer(record[c].token, Escrow, record[c].sender, record[c].amount)

CanRefund(c) ==
    /\ Has(c)
    /\ Is(c, "Funded")
    /\ now >= record[c].expires_at
    /\ CanTransfer(record[c].token, Escrow, record[c].sender, record[c].amount)

refund(c) ==
    /\ CanRefund(c)
    /\ Transfer(record[c].token, Escrow, record[c].sender, record[c].amount)
    /\ record' = [record EXCEPT ![c].state = "Refunded"]
    /\ moved' = [moved EXCEPT ![c].toSender = @ + record[c].amount]
    /\ UNCHANGED <<now, trusting, pool>>

(* force_collect: authorized by the sender's pre-signed entry.  A short    *)
(* balance bounces the cheque; it does not trap.                           *)

Covers(sender, token, amount) == balance[sender][token] >= amount

(* Seeded fault for PaidOnce: only a funded record stops force_collect, so  *)
(* a cheque that was already claimed or refunded is collected again.        *)
CanForceCollect_AfterTerminal(sender, c, receiver, token, amount, expires_at) ==
    /\ ~Is(c, "Funded")
    /\ now < expires_at
    /\ expires_at - now <= ForceCollectWindow
    /\ amount > 0
    /\ Trusts(sender, token)
    /\ Covers(sender, token, amount) => CanTransfer(token, sender, receiver, amount)

CanForceCollect(sender, c, receiver, token, amount, expires_at) ==
    /\ ~Has(c)
    /\ now < expires_at
    /\ expires_at - now <= ForceCollectWindow
    /\ amount > 0
    /\ Trusts(sender, token)    \* balance() and transfer() read the trustline
    /\ Covers(sender, token, amount) => CanTransfer(token, sender, receiver, amount)

force_collect(sender, c, receiver, token, amount, expires_at) ==
    LET pays == Covers(sender, token, amount)
    IN  /\ CanForceCollect(sender, c, receiver, token, amount, expires_at)
        /\ \/ pays /\ Transfer(token, sender, receiver, amount)
           \/ ~pays /\ UNCHANGED balance
        /\ record' = [record EXCEPT ![c] =
                [sender |-> sender, receiver |-> receiver, token |-> token,
                 amount |-> amount, expires_at |-> expires_at,
                 state |-> IF pays THEN "Collected" ELSE "Bounced"]]
        /\ moved' = [moved EXCEPT ![c].toReceiver = @ + IF pays THEN amount ELSE 0]
        /\ UNCHANGED <<now, trusting, pool>>

-----------------------------------------------------------------------------
(* The pool.  last_deposit_at is legacy metadata no check reads.           *)

(* Seeded fault for Solvent: a second asset joins a pool that is not empty. *)
CanDeposit_MixedAsset(owner, token, amount) ==
    /\ amount > 0
    /\ CanTransfer(token, owner, Escrow, amount)

CanDeposit(owner, token, amount) ==
    /\ amount > 0
    /\ pool[owner].amount > 0 => pool[owner].token = token
    /\ CanTransfer(token, owner, Escrow, amount)

deposit(owner, token, amount) ==
    /\ CanDeposit(owner, token, amount)
    /\ Transfer(token, owner, Escrow, amount)
    /\ pool' = [pool EXCEPT ![owner] =
                    [token |-> token, amount |-> @.amount + amount]]
    /\ UNCHANGED <<now, trusting, record, moved>>

(* Seeded fault for TypeOK: more is withdrawn than the pool holds.          *)
CanWithdraw_Overdraw(owner, amount) ==
    /\ amount > 0
    /\ HasPool(owner)
    /\ CanTransfer(pool[owner].token, Escrow, owner, amount)

CanWithdraw(owner, amount) ==
    /\ amount > 0
    /\ HasPool(owner)
    /\ amount <= pool[owner].amount
    /\ CanTransfer(pool[owner].token, Escrow, owner, amount)

withdraw(owner, amount) ==
    /\ CanWithdraw(owner, amount)
    /\ Transfer(pool[owner].token, Escrow, owner, amount)
    /\ pool' = [pool EXCEPT ![owner].amount = @ - amount]
    /\ UNCHANGED <<now, trusting, record, moved>>

-----------------------------------------------------------------------------
(* The world around the contract: the ledger clock, ordinary token         *)
(* transfers (one to the contract's own address included), trustlines.     *)

Tick ==
    /\ now < MaxTime
    /\ now' = now + 1
    /\ UNCHANGED <<balance, trusting, record, pool, moved>>

Spend(from, to, token, amount) ==
    /\ from # to
    /\ amount > 0
    /\ CanTransfer(token, from, to, amount)
    /\ Transfer(token, from, to, amount)
    /\ UNCHANGED <<now, trusting, record, pool, moved>>

(* Stellar removes a trustline only when nothing is left in it.            *)
ToggleTrustline(a, t) ==
    /\ a \in Fickle
    /\ \/ <<a, t>> \in trusting /\ balance[a][t] = 0 /\ trusting' = trusting \ {<<a, t>>}
       \/ <<a, t>> \notin trusting /\ trusting' = trusting \cup {<<a, t>>}
    /\ UNCHANGED <<now, balance, record, pool, moved>>

-----------------------------------------------------------------------------
ContractCall ==
    \/ \E c \in Cheques, s, r \in Accounts, t \in Tokens, n \in Amounts, d \in Deadlines :
            \/ lock(s, c, r, t, n, d)
            \/ force_collect(s, c, r, t, n, d)
    \/ \E c \in Cheques : claim(c) \/ refund(c)
    \/ \E o \in Accounts, n \in Amounts :
            \/ \E t \in Tokens : deposit(o, t, n)
            \/ withdraw(o, n)

World ==
    \/ Tick
    \/ \E a \in Accounts, h \in Holders, t \in Tokens, n \in Amounts : Spend(a, h, t, n)
    \/ \E a \in Accounts, t \in Tokens : ToggleTrustline(a, t)

Next == ContractCall \/ World

Spec == Init /\ [][Next]_chainVars

(* Anyone may send refund, the scheduler keeps sending it, and time        *)
(* passes; nobody is obliged to claim, lock or collect.                    *)
FairSpec ==
    /\ Spec
    /\ WF_chainVars(Tick)
    /\ \A c \in Cheques : SF_chainVars(refund(c))

-----------------------------------------------------------------------------
(* Properties.                                                             *)

(* Every variable keeps its shape, and no token balance of an account or   *)
(* of the contract is ever negative.                                       *)
TypeOK ==
    /\ now \in Time
    /\ balance \in [Holders -> [Tokens -> Nat]]
    /\ trusting \subseteq Accounts \X Tokens
    /\ record \in [Cheques -> ChequeRecord \cup {None}]
    /\ pool \in [Accounts -> PoolRecord \cup {NoPool}]
    /\ moved \in [Cheques -> [locked : Nat, toReceiver : Nat, toSender : Nat]]

FundedIn(t) == {c \in Cheques : Is(c, "Funded") /\ record[c].token = t}
PoolsIn(t) == {a \in Accounts : HasPool(a) /\ pool[a].token = t}

(* What the contract owes in token t, unit by unit: the k-th unit of every *)
(* funded cheque and the k-th unit of every pool.  Counting them is adding *)
(* up the amounts.                                                         *)
ChequeUnits(t) == UNION {{c} \X (1 .. record[c].amount) : c \in FundedIn(t)}
PoolUnits(t) == UNION {{a} \X (1 .. pool[a].amount) : a \in PoolsIn(t)}

Owed(t) == Cardinality(ChequeUnits(t)) + Cardinality(PoolUnits(t))

(* D1: the contract can always pay all of its funded cheques and all of    *)
(* its pools at once, whatever was claimed, refunded or withdrawn before.  *)
Solvent == \A t \in Tokens : balance[Escrow][t] >= Owed(t)

(* What the record of a cheque says happened is what its calls did with    *)
(* the money.                                                              *)
Settlement(c) ==
    LET r == record[c]
        n == IF Has(c) THEN r.amount ELSE 0
    IN  moved[c] = [locked     |-> IF r.state \in {"Funded", "Claimed", "Refunded"} THEN n ELSE 0,
                    toReceiver |-> IF r.state \in {"Claimed", "Collected"} THEN n ELSE 0,
                    toSender   |-> IF r.state = "Refunded" THEN n ELSE 0]

(* D1, D8: over the whole life of a cheque id, its amount is locked at     *)
(* most once and leaves at most once, in full, to the receiver or back to  *)
(* the sender, never both, and never by force_collect once it was locked.  *)
PaidOnce == \A c \in Cheques : Settlement(c)

(* D4, D5': a resolved cheque never changes again, and no later call       *)
(* rewrites the parties, token, amount or deadline of a stored record.     *)
TermsFixed ==
    [][\A c \in Cheques : Has(c) =>
            IF Is(c, "Funded")
              THEN \E s \in {"Funded", "Claimed", "Refunded"} :
                        record'[c] = [record[c] EXCEPT !.state = s]
              ELSE record'[c] = record[c]]_chainVars

(* D7: a step that pays the receiver happens strictly before the deadline  *)
(* and one that pays the sender back at or after it, so the two windows    *)
(* never overlap: judged by where the money went, not by the state.        *)
WindowsDisjoint ==
    [][\A c \in Cheques :
         /\ moved'[c].toReceiver > moved[c].toReceiver => now < record'[c].expires_at
         /\ moved'[c].toSender > moved[c].toSender => now >= record'[c].expires_at]_chainVars

(* The contract implements ChequePromise: the state of a stored record is  *)
(* where the money of that cheque is.                                      *)
PlaceOf(s) ==
    CASE s = "None" -> "sender"
      [] s = "Funded" -> "escrow"
      [] s \in {"Claimed", "Collected"} -> "receiver"
      [] s = "Refunded" -> "returned"
      [] s = "Bounced" -> "bounced"

Promise == INSTANCE ChequePromise WITH place <- [c \in Cheques |-> PlaceOf(record[c].state)]

(* D1, D4, D8 as a refinement: every contract call, in any order and at    *)
(* any time, moves the money of at most one cheque, along an edge that     *)
(* ChequePromise allows.                                                   *)
KeepsPromise == Promise!PlaceSpec

(* D9: a funded cheque does not stay in escrow for ever.  The sender's     *)
(* trustline must come back now and then, because the refund is a token    *)
(* transfer to the sender, and the explored horizon must reach the         *)
(* deadline.                                                               *)
SenderReachable(c) == Has(c) => Trusts(record[c].sender, record[c].token)

NeverStuck ==
    \A c \in Cheques :
        ([]<>SenderReachable(c)) =>
            (Is(c, "Funded") /\ record[c].expires_at <= MaxTime ~> Has(c) /\ ~Is(c, "Funded"))
=============================================================================
