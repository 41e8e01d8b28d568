------------------------------ MODULE PoolCache ------------------------------
(***************************************************************************)
(* The pool (Havuz) between the contract, cheque-service's cached row and  *)
(* the devices: PoolDepositXDR and PoolWithdrawXDR build a transaction,    *)
(* the device submits it and reports it (ConfirmPool...), and Sync         *)
(* compares the row with the chain and overwrites it.                      *)
(*                                                                         *)
(* A transaction carries the sequence number its owner's account had when  *)
(* it was built, so the first one of an account that lands invalidates the *)
(* others.  Reports may come late, twice or never; every read of the chain *)
(* may fail; Sync's reads and its write are separate steps.                *)
(***************************************************************************)
EXTENDS PayEscrow, FiniteSetsExt

CONSTANTS
    Devices,    \* phones that hold an owner's key
    OwnerOf,    \* the account of each
    Pages,      \* the phones whose pool page is looked at
    Token,      \* TokenContractID: the platform's asset
    Native,     \* the asset that pays for transactions
    Headroom,   \* nativeReserveHeadroomRaw
    MaxReports, \* bound: how often one report is delivered
    MaxCached   \* bound: the largest amount that reports add up to

ASSUME PoolCacheAssumption ==
    /\ OwnerOf \in [Devices -> Accounts]
    /\ Pages \subseteq Devices
    /\ {Token, Native} \subseteq Tokens
    /\ Headroom \in Nat
    /\ MaxReports \in Nat
    /\ MaxCached \in Nat

VARIABLES
    row,    \* pay.pool_deposits: the cached amount, or NoRow
    trip,   \* the pool page of each device
    flying, \* signed transactions a ledger may still include
    sync,   \* each device's Sync call inside the service
    view,   \* the pool of the last Sync answer, as the page shows it
    calm    \* history: nothing else touched this pool since the call began

poolVars == <<row, trip, flying, sync, view, calm>>
vars == <<chainVars, poolVars>>

-----------------------------------------------------------------------------
NoRow == [amount |-> 0, present |-> FALSE]
Row(n) == [amount |-> n, present |-> TRUE]

Ops == {"deposit", "withdraw"}
Idle == [pc |-> "idle", op |-> "deposit", n |-> 0, reports |-> 0]
NoCall == [pc |-> "idle", local |-> 0, chain |-> 0]
NoView == [amount |-> 0, verified |-> FALSE, loaded |-> FALSE]

Envelope == [device : Pages, op : Ops, n : Amounts, watched : BOOLEAN]

PoolInit ==
    /\ Init
    /\ row = [o \in Accounts |-> NoRow]
    /\ trip = [d \in Pages |-> Idle]
    /\ flying = {}
    /\ sync = [d \in Devices |-> NoCall]
    /\ view = [d \in Pages |-> NoView]
    /\ calm = [d \in Devices |-> TRUE]

(* The history variable: part of every step.                               *)
Watch ==
    calm' = [d \in Devices |->
                \/ sync'[d].pc = "idle"
                \/ /\ calm[d]
                   /\ row'[OwnerOf[d]] = row[OwnerOf[d]]
                   /\ pool'[OwnerOf[d]] = pool[OwnerOf[d]]]

-----------------------------------------------------------------------------
(* Building a transaction.                                                 *)

hasSufficientBalance(o, n) ==
    balance[o][Token] - (IF Token = Native THEN Headroom ELSE 0) >= n

(* Seeded fault for WithdrawGetsThrough: the headroom itself is refused.   *)
hasNativeFeeHeadroom_Strict(o) == balance[o][Native] - Headroom > 0

hasNativeFeeHeadroom(o) == balance[o][Native] - Headroom >= 0

GetTrustline(o) == Trusts(o, Token)

Build(d, op, n) ==
    /\ trip[d].pc = "idle"
    /\ trip' = [trip EXCEPT ![d] = [pc |-> "waiting", op |-> op, n |-> n, reports |-> 0]]
    /\ flying' = flying \cup {[device |-> d, op |-> op, n |-> n, watched |-> TRUE]}
    /\ UNCHANGED <<chainVars, row, sync, view>>

PoolDepositXDR(d, n) ==
    LET o == OwnerOf[d]
    IN  /\ n > 0
        /\ Token # Native => GetTrustline(o)
        /\ hasSufficientBalance(o, n)
        /\ CanDeposit(o, Token, n)
        /\ Build(d, "deposit", n)

(* The page offers no more than the pool of the last answer.  What         *)
(* chainPoolRecord refuses early, when it gets an answer, the simulation   *)
(* refuses too.                                                            *)
PoolWithdrawXDR(d, n) ==
    LET o == OwnerOf[d]
    IN  /\ view[d].loaded /\ n <= view[d].amount
        /\ n > 0
        /\ Token # Native => GetTrustline(o)
        /\ hasNativeFeeHeadroom(o)
        /\ CanWithdraw(o, n)
        /\ Build(d, "withdraw", n)

-----------------------------------------------------------------------------
(* The network.                                                            *)

Outdated(o) == {e \in flying : OwnerOf[e.device] = o}

Call(e) == IF e.op = "deposit" THEN deposit(OwnerOf[e.device], Token, e.n)
                               ELSE withdraw(OwnerOf[e.device], e.n)

CanCall(e) == IF e.op = "deposit" THEN CanDeposit(OwnerOf[e.device], Token, e.n)
                                  ELSE CanWithdraw(OwnerOf[e.device], e.n)

(* A ledger includes the transaction; the contract call in it applies or   *)
(* traps, and a device that still waits for it learns which.               *)
Land(e) ==
    /\ e \in flying
    /\ flying' = flying \ Outdated(OwnerOf[e.device])
    /\ \/ CanCall(e) /\ Call(e)
       \/ ~CanCall(e) /\ UNCHANGED chainVars
    /\ trip' = [trip EXCEPT ![e.device] =
                    IF ~e.watched THEN @
                    ELSE IF CanCall(e) THEN [@ EXCEPT !.pc = "applied"] ELSE Idle]
    /\ UNCHANGED <<row, sync, view>>

(* The submit fails or is answered PENDING, or the app is closed.  The     *)
(* transaction may still land; nobody will report it.                      *)
GiveUp(d) ==
    /\ trip[d].pc = "waiting"
    /\ trip' = [trip EXCEPT ![d] = Idle]
    /\ \E lost \in BOOLEAN :
            flying' = {e \in flying : e.device # d \/ ~e.watched}
                      \cup {[e EXCEPT !.watched = FALSE] :
                                e \in {f \in flying : ~lost /\ f.device = d /\ f.watched}}
    /\ UNCHANGED <<chainVars, row, sync, view>>

(* Other payments of the account use up its sequence number as well.       *)
Outside(from, to, n) ==
    /\ Spend(from, to, Token, n)
    /\ flying' = flying \ Outdated(from)
    /\ UNCHANGED <<row, trip, sync, view>>

-----------------------------------------------------------------------------
(* Reports.                                                                *)

RecordDeposit(o, n) == row' = [row EXCEPT ![o] = Row(@.amount + n)]

(* Seeded fault for PoolTypeOK: the plain subtraction.                     *)
RecordWithdraw_Unclamped(o, n) ==
    row' = [row EXCEPT ![o] = IF @.present THEN Row(@.amount - n) ELSE @]

(* GREATEST(amount_raw - n, 0); an owner without a row keeps none.         *)
RecordWithdraw(o, n) ==
    row' = [row EXCEPT ![o] = IF @.present THEN Row(Max({@.amount - n, 0})) ELSE @]

Report(d, op) ==
    /\ trip[d].pc = "applied" /\ trip[d].op = op
    /\ trip[d].n > 0
    /\ trip[d].reports < MaxReports
    /\ trip' = [trip EXCEPT ![d].reports = @ + 1]
    /\ UNCHANGED <<chainVars, flying, sync, view>>

ConfirmPoolDeposit(d) ==
    /\ row[OwnerOf[d]].amount + trip[d].n <= MaxCached
    /\ Report(d, "deposit")
    /\ RecordDeposit(OwnerOf[d], trip[d].n)

(* A missing row is a success for the caller.                              *)
ConfirmPoolWithdraw(d) == Report(d, "withdraw") /\ RecordWithdraw(OwnerOf[d], trip[d].n)

(* The report was delivered, or was lost: its failure is swallowed.        *)
EndTrip(d) ==
    /\ trip[d].pc = "applied"
    /\ trip' = [trip EXCEPT ![d] = Idle]
    /\ UNCHANGED <<chainVars, row, flying, sync, view>>

-----------------------------------------------------------------------------
(* Sync.                                                                   *)

Answer(d, n, verified) ==
    /\ view' = IF d \in Pages
                 THEN [view EXCEPT ![d] = [amount |-> n, verified |-> verified, loaded |-> TRUE]]
                 ELSE view
    /\ sync' = [sync EXCEPT ![d] = NoCall]

(* A row that does not exist is served as "0".                             *)
GetPool(d) ==
    /\ sync[d].pc = "idle"
    /\ sync' = [sync EXCEPT ![d] = [pc |-> "reading", local |-> row[OwnerOf[d]].amount, chain |-> 0]]
    /\ UNCHANGED <<chainVars, row, trip, flying, view>>

(* The trustline, the ledger or the database cannot be read, or the caller *)
(* is gone: the call ends without an answer.                               *)
SyncFails(d) ==
    /\ sync[d].pc # "idle"
    /\ sync' = [sync EXCEPT ![d] = NoCall]
    /\ UNCHANGED <<chainVars, row, trip, flying, view>>

(* No account or no decodable get_pool: "couldn't check".                  *)
CannotCheck(d) ==
    /\ sync[d].pc = "reading"
    /\ Answer(d, sync[d].local, FALSE)
    /\ UNCHANGED <<chainVars, row, trip, flying>>

(* get_pool as the gateway simulates it; no pool on the chain is zero.     *)
chainPoolRecord(o) == pool[o].amount

(* Seeded fault for SelfHeals: only an excess is corrected.                *)
reconcilePoolWithChain_DownOnly(d) ==
    LET chain == chainPoolRecord(OwnerOf[d])
    IN  /\ sync[d].pc = "reading"
        /\ \/ /\ chain >= sync[d].local
              /\ Answer(d, sync[d].local, TRUE)
           \/ /\ chain < sync[d].local
              /\ sync' = [sync EXCEPT ![d].pc = "writing", ![d].chain = chain]
              /\ UNCHANGED view
        /\ UNCHANGED <<chainVars, row, trip, flying>>

reconcilePoolWithChain(d) ==
    LET chain == chainPoolRecord(OwnerOf[d])
    IN  /\ sync[d].pc = "reading"
        /\ \/ /\ chain = sync[d].local
              /\ Answer(d, sync[d].local, TRUE)
           \/ /\ chain # sync[d].local
              /\ sync' = [sync EXCEPT ![d].pc = "writing", ![d].chain = chain]
              /\ UNCHANGED view
        /\ UNCHANGED <<chainVars, row, trip, flying>>

(* The correction is written and served, or the write fails and the known  *)
(* stale row is served as not checked.                                     *)

(* Seeded fault for QuietSyncIsExact: the failed write is not noticed.     *)
SetPoolAmount_Unnoticed(d) ==
    /\ sync[d].pc = "writing"
    /\ Answer(d, sync[d].chain, TRUE)
    /\ \/ row' = [row EXCEPT ![OwnerOf[d]] = Row(sync[d].chain)]
       \/ UNCHANGED row
    /\ UNCHANGED <<chainVars, trip, flying>>

SetPoolAmount(d) ==
    /\ sync[d].pc = "writing"
    /\ \/ /\ row' = [row EXCEPT ![OwnerOf[d]] = Row(sync[d].chain)]
          /\ Answer(d, sync[d].chain, TRUE)
       \/ /\ UNCHANGED row
          /\ Answer(d, sync[d].local, FALSE)
    /\ UNCHANGED <<chainVars, trip, flying>>

-----------------------------------------------------------------------------
Sync(d) == GetPool(d) \/ SyncFails(d) \/ CannotCheck(d) \/ reconcilePoolWithChain(d) \/ SetPoolAmount(d)

Page(d) ==
    \/ \E n \in Amounts : PoolDepositXDR(d, n) \/ PoolWithdrawXDR(d, n)
    \/ GiveUp(d) \/ ConfirmPoolDeposit(d) \/ ConfirmPoolWithdraw(d) \/ EndTrip(d)

PoolNext ==
    /\ \/ \E d \in Pages : Page(d)
       \/ \E d \in Devices : Sync(d)
       \/ \E e \in flying : Land(e)
       \/ \E a \in Accounts, h \in Holders, n \in Amounts : Outside(a, h, n)
    /\ Watch

PoolSpec == PoolInit /\ [][PoolNext]_vars

(* The app refreshes Sync at start, on resume and after every confirm, and *)
(* the chain and the database answer now and then.                         *)
SyncFairness(d) ==
    /\ WF_vars(GetPool(d) /\ Watch)
    /\ SF_vars(reconcilePoolWithChain(d) /\ Watch)
    /\ SF_vars(SetPoolAmount(d) /\ row'[OwnerOf[d]] = Row(sync[d].chain) /\ Watch)

(* An owner who wants the money back and keeps tapping withdraw, over a    *)
(* network that includes a transaction now and then.                       *)
WithdrawLands(d) == \E e \in flying : e.device = d /\ e.op = "withdraw" /\ Land(e)

OwnerFairness(d) ==
    /\ SF_vars((\E n \in Amounts : PoolWithdrawXDR(d, n)) /\ Watch)
    /\ SF_vars(WithdrawLands(d) /\ Watch)
    /\ WF_vars(EndTrip(d) /\ Watch)
    /\ WF_vars(GiveUp(d) /\ Watch)

FairPoolSpec ==
    /\ PoolSpec
    /\ \A d \in Devices : SyncFairness(d)
    /\ \A d \in Pages : OwnerFairness(d)

-----------------------------------------------------------------------------
(* Every variable keeps its shape; above all the cached amount is never    *)
(* negative, whatever reports come twice or in the wrong order.            *)
PoolTypeOK ==
    /\ TypeOK
    /\ row \in [Accounts -> [amount : Nat, present : BOOLEAN]]
    /\ trip \in [Pages -> [pc : {"idle", "waiting", "applied"}, op : Ops,
                             n : Amounts \cup {0}, reports : 0 .. MaxReports]]
    /\ flying \subseteq Envelope
    /\ sync \in [Devices -> [pc : {"idle", "reading", "writing"}, local : Nat, chain : Nat]]
    /\ view \in [Pages -> [amount : Nat, verified : BOOLEAN, loaded : BOOLEAN]]
    /\ calm \in [Devices -> BOOLEAN]

(* An answer marked chainVerified, given by a call during which nobody     *)
(* else touched the pool or its row, is what the chain says now, and the   *)
(* row says the same: one undisturbed Sync repairs any drift.              *)
Answers(d) == sync[d].pc # "idle" /\ view'[d] # view[d]

QuietSyncIsExact ==
    [][\A d \in Pages : calm[d] /\ Answers(d) /\ view'[d].verified =>
            /\ view'[d].amount = pool'[OwnerOf[d]].amount
            /\ row'[OwnerOf[d]].amount = pool'[OwnerOf[d]].amount]_vars

(* reconcilePoolWithChain's promise: a row that drifted (a report lost or  *)
(* recorded twice, a stale Sync that wrote last) does not stay wrong: once *)
(* the owner's pool rests, the row becomes the chain's amount and stays so *)
(* until the pool moves again.                                             *)
Resting(o) == \A d \in Pages : OwnerOf[d] = o => trip[d].pc = "idle"

SelfHeals ==
    \A o \in Accounts :
        (<>[](Resting(o) /\ Outdated(o) = {})) => <>[](row[o].amount = pool[o].amount)

(* Pool funds are withdrawable at any time: an owner who can pay the fee   *)
(* now and then and stops depositing empties the pool, although the page   *)
(* never offers more than the cached row.                                  *)
CanPayFee(o) == balance[o][Native] >= Headroom

WithdrawGetsThrough ==
    \A o \in {OwnerOf[d] : d \in Pages} :
        ([]<>CanPayFee(o)) /\ (<>[][pool'[o].amount <= pool[o].amount]_vars)
            => []<>(pool[o].amount = 0)
=============================================================================
