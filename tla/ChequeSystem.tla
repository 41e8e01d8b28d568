---------------------------- MODULE ChequeSystem ----------------------------
(***************************************************************************)
(* pay-cheque-service, the devices of the two parties and the scheduler's  *)
(* refund sweep, composed with the contract (PayEscrow).                   *)
(*                                                                         *)
(* cheque-service keeps a row, a reservation and a transition log per      *)
(* cheque; it never signs and never submits.  It hands out an unsigned     *)
(* transaction, the caller signs and submits it, and the caller reports    *)
(* back with a confirm call.  Every one of those three legs can be lost.   *)
(*                                                                         *)
(* A job is one such round trip: "lock" (sender), "claim" and "collect"    *)
(* (receiver), "refund" (the scheduler's keeper account).  A call that is  *)
(* refused changes nothing and is no action.                               *)
(***************************************************************************)
EXTENDS PayEscrow

CONSTANTS
    SenderOf,       \* the party that writes cheque c
    ReceiverOf,     \* the party it is written to
    RequestOf,      \* the requestId of the payment request it answers
    Token,          \* the platform asset's token contract
    Amount,         \* the amount of every cheque
    Validity,       \* chequeValidity, in ledger time units
    Spenders,       \* accounts that also spend outside the platform
    Depositors      \* accounts that use the platform's pool

ASSUME SystemAssumption ==
    /\ SenderOf \in [Cheques -> Accounts]
    /\ ReceiverOf \in [Cheques -> Accounts]
    /\ \A c \in Cheques : SenderOf[c] # ReceiverOf[c]
    /\ Token \in Tokens
    /\ Amount \in Amounts \ {0}
    /\ Validity \in Nat
    /\ Spenders \subseteq Accounts
    /\ Depositors \subseteq Accounts

VARIABLES
    row,        \* pay.cheques joined with pay.reservations
    log,        \* pay.cheque_transitions: <<from, to>> pairs per cheque
    phase,      \* how far each job of each cheque has come
    flying      \* envelopes that were built and may still be applied

sysVars == <<row, log, phase, flying>>
vars == <<chainVars, sysVars>>

Life == INSTANCE ChequeLifecycle
            WITH state <- [c \in Cheques |-> row[c].state], taken <- log

Jobs == {"lock", "claim", "collect", "refund"}

(* idle: nobody is working on it; waiting: the caller got its transaction, *)
(* signed it and waits for the submit; success / pending: what the submit  *)
(* answered; the rest are points inside a handler or between two calls.    *)
Phases == {"idle", "waiting", "success", "pending", "confirmed",
           "sawFunded", "sawClaimed", "marking", "acking"}

(* An envelope's time bounds are 300 seconds, far less than one unit of    *)
(* time: it can still land in the unit after the one it was built in.      *)
EnvelopeLife == 1
Envelope == [job : Jobs, cheque : Cheques, until : Nat]

(* Rows of cheques that cheque-service does not know to be funded.         *)
Unfunded == {"IMZALI_REZERVE", "FONLANIYOR"}

NoRow == [state |-> "TASLAK", expires_at |-> 0, reserved |-> FALSE, preauth |-> FALSE]

SystemInit ==
    /\ Init
    /\ row = [c \in Cheques |-> NoRow]
    /\ log = [c \in Cheques |-> {}]
    /\ phase = [j \in Jobs |-> [c \in Cheques |-> "idle"]]
    /\ flying = {}

State(c) == row[c].state
Goto(j, c, p) == phase' = [phase EXCEPT ![j][c] = p]
At(j, c, p) == phase[j][c] = p

(* The caller gets the assembled transaction, signs it and submits it.     *)
Issue(j, c) ==
    /\ Goto(j, c, "waiting")
    /\ flying' = flying \cup {[job |-> j, cheque |-> c, until |-> now + EnvelopeLife]}

-----------------------------------------------------------------------------
(* Repository.Transition: one database transaction; the compare-and-set    *)
(* on the state and the UNIQUE edge either both pass or nothing is         *)
(* written; a terminal state releases the reservation.  Every caller       *)
(* treats "nothing written" as success.                                    *)

(* Seeded fault for ReservationDiscipline: a terminal state releases       *)
(* nothing.                                                                *)
Transition_KeepsReservation(c, from, to) ==
    IF State(c) = from /\ <<from, to>> \notin log[c]
      THEN /\ row' = [row EXCEPT ![c].state = to]
           /\ log' = [log EXCEPT ![c] = @ \cup {<<from, to>>}]
      ELSE UNCHANGED <<row, log>>

(* Seeded fault for FollowsLifecycle: no compare-and-set on the state.      *)
Transition_Blind(c, from, to) ==
    /\ row' = [row EXCEPT ![c].state = to, ![c].reserved = @ /\ to \notin Life!Terminal]
    /\ log' = [log EXCEPT ![c] = @ \cup {<<State(c), to>>}]

Transition(c, from, to) ==
    IF State(c) = from /\ <<from, to>> \notin log[c]
      THEN /\ row' = [row EXCEPT ![c].state = to,
                                 ![c].reserved = @ /\ to \notin Life!Terminal]
           /\ log' = [log EXCEPT ![c] = @ \cup {<<from, to>>}]
      ELSE UNCHANGED <<row, log>>

(* Repository.CreateReservedCheque: the row, the reservation and the first *)
(* edge in one transaction, guarded by the two unique indices.             *)

(* Seeded fault for OneFundedPerSender: a confirmed cheque stops counting.  *)
SenderIsFree_UnfundedOnly(s) ==
    \A d \in Cheques : SenderOf[d] = s => State(d) # "IMZALI_REZERVE"

SenderIsFree(s) == \A d \in Cheques : SenderOf[d] = s => ~row[d].reserved
(* Seeded fault for RequestPaidOnce: the index covers open cheques only.    *)
RequestIsFree_OpenOnly(c) ==
    \A d \in Cheques : ReceiverOf[d] = ReceiverOf[c] /\ RequestOf[d] = RequestOf[c]
                          => ~row[d].reserved

RequestIsFree(c) ==
    \A d \in Cheques : ReceiverOf[d] = ReceiverOf[c] /\ RequestOf[d] = RequestOf[c]
                          => State(d) = "TASLAK"

CreateReservedCheque(c) ==
    /\ RequestIsFree(c)
    /\ SenderIsFree(SenderOf[c])
    /\ row' = [row EXCEPT ![c] = [state |-> "IMZALI_REZERVE", expires_at |-> now + Validity,
                                  reserved |-> TRUE, preauth |-> FALSE]]
    /\ log' = [log EXCEPT ![c] = {<<"TASLAK", "IMZALI_REZERVE">>}]

-----------------------------------------------------------------------------
(* The contract call behind each job.                                      *)

CanApply(j, c) ==
    \/ j = "lock" /\ CanLock(SenderOf[c], c, ReceiverOf[c], Token, Amount)
    \/ j = "claim" /\ CanClaim(c)
    \/ j = "refund" /\ CanRefund(c)
    \/ j = "collect" /\ CanForceCollect(SenderOf[c], c, ReceiverOf[c], Token, Amount,
                                        row[c].expires_at)

Apply(j, c) ==
    \/ j = "lock" /\ lock(SenderOf[c], c, ReceiverOf[c], Token, Amount, row[c].expires_at)
    \/ j = "claim" /\ claim(c)
    \/ j = "refund" /\ refund(c)
    \/ j = "collect" /\ force_collect(SenderOf[c], c, ReceiverOf[c], Token, Amount,
                                      row[c].expires_at)

-----------------------------------------------------------------------------
(* The sender.                                                             *)

(* Service.CreateCheque.  Everything after the reservation (simulation,    *)
(* ledger read, the answer itself) may fail and leaves the reservation in  *)
(* place: answered says whether the device got its transaction.            *)
CreateCheque(c, answered) ==
    /\ State(c) = "TASLAK"
    /\ now + Validity <= MaxTime       \* bound: its deadline is explored
    /\ Trusts(ReceiverOf[c], Token)
    /\ balance[SenderOf[c]][Token] >= Amount
    /\ CreateReservedCheque(c)
    /\ \/ answered /\ CanApply("lock", c) /\ Issue("lock", c)
       \/ ~answered /\ UNCHANGED <<phase, flying>>
    /\ UNCHANGED chainVars

(* Service.StorePreauth: the device that created the cheque uploads the    *)
(* signed force_collect entry; no state is checked.                        *)
StorePreauth(c) ==
    /\ ~At("lock", c, "idle")
    /\ ~row[c].preauth
    /\ row' = [row EXCEPT ![c].preauth = TRUE]
    /\ UNCHANGED <<chainVars, log, phase, flying>>

(* Service.ConfirmLock, called as send_page.dart does: after any submit    *)
(* answer that is not an error, PENDING included.                          *)
(* Seeded fault for SystemTypeOK: the contract's name for the state is     *)
(* written into the row.                                                   *)
ConfirmLock_ContractName(c) ==
    /\ phase["lock"][c] \in {"success", "pending"}
    /\ Transition(c, "IMZALI_REZERVE", "Funded")
    /\ Goto("lock", c, "confirmed")
    /\ UNCHANGED <<chainVars, flying>>

ConfirmLock(c) ==
    /\ phase["lock"][c] \in {"success", "pending"}
    /\ Transition(c, "IMZALI_REZERVE", "HAVUZDA")
    /\ Goto("lock", c, "confirmed")
    /\ UNCHANGED <<chainVars, flying>>

-----------------------------------------------------------------------------
(* The receiver.                                                           *)

(* Service.ClaimXDR ends by simulating the claim; without an answer the    *)
(* receiver simply asks again later.                                       *)
Claimable(c) == now <= row[c].expires_at /\ CanClaim(c)

(* ClaimXDR of a HAVUZDA row.                                              *)
ClaimXDR(c) ==
    /\ At("claim", c, "idle")
    /\ State(c) = "HAVUZDA"
    /\ Claimable(c)
    /\ Issue("claim", c)
    /\ UNCHANGED <<chainVars, row, log>>

(* ClaimXDR of a row not known to be funded reads the chain first.         *)
ClaimReadsChain(c) ==
    /\ At("claim", c, "idle")
    /\ State(c) \in Unfunded
    /\ \/ Is(c, "Funded") /\ Goto("claim", c, "sawFunded")
       \/ Is(c, "Claimed") /\ Goto("claim", c, "sawClaimed")
    /\ UNCHANGED <<chainVars, row, log, flying>>

(* What was read may be old by now, and the row may have moved on: a       *)
(* compare-and-set that does not apply is ignored.  A cheque seen Funded   *)
(* goes on to be claimed; one seen Claimed answers already_claimed, and    *)
(* the client goes on to acknowledge.                                      *)
ClaimRepairs(c) ==
    /\ \/ /\ At("claim", c, "sawFunded")
          /\ Transition(c, "IMZALI_REZERVE", "HAVUZDA")
          /\ \/ Claimable(c) /\ Issue("claim", c)
             \/ ~Claimable(c) /\ Goto("claim", c, "idle") /\ UNCHANGED flying
       \/ /\ At("claim", c, "sawClaimed")
          /\ Transition(c, "IMZALI_REZERVE", "TALEP_EDILDI")
          /\ Goto("claim", c, "confirmed")
          /\ UNCHANGED flying
    /\ UNCHANGED chainVars

(* Service.ConfirmClaim, called by performClaim after a successful submit. *)
ConfirmClaim(c) ==
    /\ At("claim", c, "success")
    /\ Transition(c, "HAVUZDA", "TALEP_EDILDI")
    /\ Goto("claim", c, "confirmed")
    /\ UNCHANGED <<chainVars, flying>>

(* Service.AcknowledgeReceipt: two database transactions.                  *)
AcknowledgeReceipt(c) ==
    /\ \/ /\ At("claim", c, "confirmed")
          /\ Transition(c, "TALEP_EDILDI", "ONAYLANDI")
          /\ Goto("claim", c, "acking")
       \/ /\ At("claim", c, "acking")
          /\ Transition(c, "ONAYLANDI", "KAPANDI")
          /\ Goto("claim", c, "idle")
    /\ UNCHANGED <<chainVars, flying>>

(* Service.ForceCollectXDR: the checks and the simulation first, then the  *)
(* best-effort ZORLA_TAHSIL_DENENDI marker, then the answer.               *)
ForceCollectXDR(c) ==
    /\ \/ /\ At("collect", c, "idle")
          /\ State(c) \in Unfunded
          /\ row[c].preauth
          /\ CanApply("collect", c)
          /\ Goto("collect", c, "marking")
          /\ UNCHANGED <<row, log, flying>>
       \/ /\ At("collect", c, "marking")
          /\ Transition(c, "IMZALI_REZERVE", "ZORLA_TAHSIL_DENENDI")
          /\ Issue("collect", c)
    /\ UNCHANGED chainVars

(* Service.ConfirmForceCollect with the outcome the transaction returned.  *)
ConfirmForceCollect(c) ==
    /\ At("collect", c, "success")
    /\ Transition(c, "ZORLA_TAHSIL_DENENDI", IF Is(c, "Collected") THEN "KAPANDI" ELSE "KARSILIKSIZ")
    /\ Goto("collect", c, "idle")
    /\ UNCHANGED <<chainVars, flying>>

-----------------------------------------------------------------------------
(* The scheduler.  The wait between two attempts (backoff) is arbitrary.   *)

(* SweepExpiredCheques lists HAVUZDA rows past their expiry, and refundOne *)
(* simulates, signs and submits in one go.                                 *)
(* Seeded fault for ConfirmedFundsComeBack: the sweep looks for rows that   *)
(* only the sweep itself could have marked.                                *)
SweepExpiredCheques_WrongState(c) ==
    /\ At("refund", c, "idle")
    /\ State(c) = "IADE_EDILEBILIR"
    /\ row[c].expires_at <= now
    /\ CanRefund(c)
    /\ Issue("refund", c)
    /\ UNCHANGED <<chainVars, row, log>>

SweepExpiredCheques(c) ==
    /\ At("refund", c, "idle")
    /\ State(c) = "HAVUZDA"
    /\ row[c].expires_at <= now
    /\ CanRefund(c)
    /\ Issue("refund", c)
    /\ UNCHANGED <<chainVars, row, log>>

(* Service.MarkRefunded: two database transactions.                        *)
MarkRefunded(c) ==
    /\ \/ /\ At("refund", c, "success")
          /\ Transition(c, "HAVUZDA", "IADE_EDILEBILIR")
          /\ Goto("refund", c, "marking")
       \/ /\ At("refund", c, "marking")
          /\ Transition(c, "IADE_EDILEBILIR", "IADE_EDILDI")
          /\ Goto("refund", c, "idle")
    /\ UNCHANGED <<chainVars, flying>>

-----------------------------------------------------------------------------
(* Submission and the network.                                             *)

(* The network applies an envelope, or the contract call in it traps.      *)
Land(e) ==
    LET j == e.job
        c == e.cheque
        Answer(p) == Goto(j, c, IF At(j, c, "waiting") THEN p ELSE phase[j][c])
    IN  /\ e \in flying
        /\ flying' = flying \ {e}
        /\ \/ CanApply(j, c) /\ Apply(j, c) /\ Answer("success")
           \/ ~CanApply(j, c) /\ UNCHANGED chainVars /\ Answer("idle")
        /\ UNCHANGED <<row, log>>

(* The envelope is never submitted, or no ledger includes it.              *)
Drop(e) ==
    /\ e \in flying
    /\ flying' = flying \ {e}
    /\ UNCHANGED <<chainVars, row, log, phase>>

(* SubmitSoroban stops polling and answers PENDING.  The sender's device   *)
(* goes on to confirm; performClaim and refundOne give up and retry later. *)
(* Seeded fault for SettledRowsAreTrue: PENDING passes for success.         *)
PollTimesOut_AsSuccess(j, c) ==
    /\ At(j, c, "waiting")
    /\ Goto(j, c, "success")
    /\ UNCHANGED <<chainVars, row, log, flying>>

PollTimesOut(j, c) ==
    /\ At(j, c, "waiting")
    /\ Goto(j, c, IF j = "lock" THEN "pending" ELSE "idle")
    /\ UNCHANGED <<chainVars, row, log, flying>>

(* The device or the process is gone, or the next call of the job does not *)
(* get through; what it knew is lost.                                      *)
Abandon(j, c) ==
    /\ ~At(j, c, "idle")
    /\ Goto(j, c, "idle")
    /\ UNCHANGED <<chainVars, row, log, flying>>

(* Time passes, and with it the time bounds of what is in flight.          *)
PassTime ==
    /\ Tick
    /\ flying' = {e \in flying : e.until >= now'}
    /\ UNCHANGED <<row, log, phase>>

(* What else happens on the ledger: trustlines, payments outside the       *)
(* platform, and the pool calls of the same accounts: PoolDepositXDR and   *)
(* PoolWithdrawXDR check no reservation.                                   *)
Outside ==
    /\ \/ \E a \in Spenders, h \in Accounts : Spend(a, h, Token, Amount)
       \/ \E a \in Accounts : ToggleTrustline(a, Token)
       \/ \E a \in Depositors : deposit(a, Token, Amount) \/ withdraw(a, Amount)
    /\ UNCHANGED sysVars

-----------------------------------------------------------------------------
SenderStep(c) == (\E answered \in BOOLEAN : CreateCheque(c, answered)) \/ StorePreauth(c) \/ ConfirmLock(c)
ReceiverStep(c) ==
    \/ ClaimXDR(c) \/ ClaimReadsChain(c) \/ ClaimRepairs(c) \/ ConfirmClaim(c)
    \/ AcknowledgeReceipt(c) \/ ForceCollectXDR(c) \/ ConfirmForceCollect(c)
KeeperStep(c) == SweepExpiredCheques(c) \/ MarkRefunded(c)
JobEnds(j, c) == PollTimesOut(j, c) \/ Abandon(j, c)

SystemNext ==
    \/ \E c \in Cheques :
            \/ SenderStep(c) \/ ReceiverStep(c) \/ KeeperStep(c)
            \/ \E j \in Jobs : JobEnds(j, c)
    \/ \E e \in flying : Land(e) \/ Drop(e)
    \/ PassTime
    \/ Outside

SystemSpec == SystemInit /\ [][SystemNext]_vars

LandJob(j, c) == \E e \in flying : e.job = j /\ e.cheque = c /\ Land(e)

(* What runs without anybody: time, the scheduler's tickers, and a network *)
(* that does not lose the keeper's transactions for ever.                  *)
KeeperFairness ==
    /\ WF_vars(PassTime)
    /\ \A c \in Cheques :
            /\ SF_vars(SweepExpiredCheques(c))
            /\ WF_vars(MarkRefunded(c))
            /\ WF_vars(PollTimesOut("refund", c))
            /\ SF_vars(LandJob("refund", c))

UnattendedSpec == SystemSpec /\ KeeperFairness

-----------------------------------------------------------------------------
(* Safety.                                                                 *)

(* The shapes of the service's rows, jobs and envelopes.                   *)
SystemTypeOK ==
    /\ TypeOK
    /\ row \in [Cheques -> [state : Life!State, expires_at : Time,
                            reserved : BOOLEAN, preauth : BOOLEAN]]
    /\ log \in [Cheques -> SUBSET (Life!State \X Life!State)]
    /\ phase \in [Jobs -> [Cheques -> Phases]]
    /\ flying \subseteq Envelope

(* D4/D5/A3: a reservation is held exactly while its cheque is open, and a *)
(* sender never holds two, whatever confirms, repairs and sweeps race.     *)
ReservationDiscipline ==
    \A c \in Cheques :
        /\ row[c].reserved <=> State(c) \notin Life!Terminal \cup {"TASLAK"}
        /\ \A d \in Cheques : c # d /\ row[c].reserved /\ row[d].reserved
                                => SenderOf[c] # SenderOf[d]

(* What the chain must say when a row claims that a cheque was paid, gave  *)
(* its money back or bounced.                                              *)
Witness(s) ==
    CASE s \in {"TALEP_EDILDI", "ONAYLANDI"} -> {"Claimed"}
      [] s = "KAPANDI" -> {"Claimed", "Collected"}
      [] s \in {"IADE_EDILEBILIR", "IADE_EDILDI"} -> {"Refunded"}
      [] s = "KARSILIKSIZ" -> {"Bounced"}
      [] OTHER -> {"None"} \cup ChequeState

(* D6: the service never tells anyone that money moved when it did not:    *)
(* every settled row has its counterpart on the chain, through lost        *)
(* answers, PENDING submits and repairs.                                   *)
SettledRowsAreTrue == \A c \in Cheques : record[c].state \in Witness(State(c))

(* D5 on the chain: late envelopes and released reservations never leave   *)
(* one sender with two funded cheques.                                     *)
OneFundedPerSender ==
    \A c, d \in Cheques :
        c # d /\ Is(c, "Funded") /\ Is(d, "Funded") => SenderOf[c] # SenderOf[d]

(* A payment request is answered by at most one cheque that ever holds or  *)
(* moves money.                                                            *)
RequestPaidOnce ==
    \A c, d \in Cheques :
        c # d /\ ReceiverOf[c] = ReceiverOf[d] /\ RequestOf[c] = RequestOf[d]
            => ~Has(c) \/ ~Has(d)

(* D3, D4: every row follows ChequeLifecycle: only the documented edges,   *)
(* none of them twice, nothing after a terminal state.                     *)
FollowsLifecycle == Life!LifeSpec

-----------------------------------------------------------------------------
(* Liveness that the code provides.                                        *)

(* D9: once cheque-service knows that a cheque is funded, its money leaves *)
(* the escrow, even when neither party ever comes back: the sweep finds    *)
(* the row again after every lost or timed-out refund.                     *)
ConfirmedFundsComeBack ==
    \A c \in Cheques : State(c) = "HAVUZDA" /\ Is(c, "Funded") ~> ~Is(c, "Funded")

-----------------------------------------------------------------------------
(* What the documents and comments say and the code does not provide.      *)

(* E1, D9: no money stays locked because a party is offline.               *)
EscrowAlwaysReturns ==
    \A c \in Cheques : Is(c, "Funded") ~> ~Is(c, "Funded")
=============================================================================
