---------------------------- MODULE TxSubmission ----------------------------
(***************************************************************************)
(* pay-tx-service: POST /tx/submit forwards a signed envelope to           *)
(* pay-chain-gateway under an Idempotency-Key.  services/tx/service.go and *)
(* repository.go, with services/chain/service.go for what a submit may     *)
(* answer.                                                                 *)
(*                                                                         *)
(* Several callers present the same key: an offline payment is keyed by    *)
(* its own hash and is submitted by the payer's and by the payee's device, *)
(* each of which repeats it.  A call is a sequence of database statements  *)
(* around one network round trip, and it can end between any two of them.  *)
(***************************************************************************)
EXTENDS Integers, FiniteSets

CONSTANTS
    Keys,       \* idempotency keys; a key always carries the same envelope
    Callers,    \* devices that submit
    KeyOf,      \* the key a caller submits under
    KindOf,     \* the key's envelope is "classic" or "soroban"
    SeqOf,      \* the account sequence number its envelope is signed for
    ReaperRuns, \* the process runs the reaper of expired keys
    MaxSeq      \* bound: the last sequence number that is explored

ASSUME SubmissionAssumption ==
    /\ KeyOf \in [Callers -> Keys]
    /\ KindOf \in [Keys -> {"classic", "soroban"}]
    /\ SeqOf \in [Keys -> Nat]
    /\ ReaperRuns \in BOOLEAN
    /\ MaxSeq \in Nat

VARIABLES
    key,            \* pay.idempotency_keys
    submission,     \* pay.submissions: the state column
    call,           \* Submit calls in progress: where they are, what they know
    told,           \* history: the final answers given for each key
    fate,           \* the network's side: what became of the envelope
    seq             \* the account's sequence number

dbVars == <<key, submission>>
netVars == <<fate, seq>>
vars == <<key, submission, call, told, fate, seq>>

-----------------------------------------------------------------------------
(* A response that is cached.  "tx_failed": a ledger included the envelope *)
(* and it failed.  "refused": any other result code (tx_insufficient_fee,  *)
(* tx_insufficient_balance, tx_too_early, tx_too_late...) or, from the     *)
(* Soroban RPC, ERROR with a result XDR; no ledger included the envelope.  *)
(* "no_code": Horizon's own failure, which SubmitClassic reports as a      *)
(* rejection without a result code.                                        *)
Responses == {"ok", "tx_failed", "refused", "no_code", "PENDING"}

(* What a submit can come to: a response, tx_bad_seq, or an error.         *)
Results == Responses \cup {"tx_bad_seq", "error"}

Free == [status |-> "free", response |-> "none"]
Pending == [status |-> "pending", response |-> "none"]
DoneWith(r) == [status |-> "done", response |-> r]

Done(k) == key[k].status = "done"

Idle == [pc |-> "idle", result |-> "none"]
At(a, pc) == call[a].pc = pc
Goto(a, pc, r) == call' = [call EXCEPT ![a] = [pc |-> pc, result |-> r]]

(* The points of Submit between BeginSubmission and the end.               *)
HoldingPoints == {"submit", "polling", "decided", "releasing", "completing"}
Holds(a) == call[a].pc \in HoldingPoints
Points == {"idle", "begin"} \cup HoldingPoints

KeyRows == {Free, Pending} \cup {DoneWith(r) : r \in Responses}
Calls == [pc : Points, result : Results \cup {"none"}]

Init ==
    /\ key = [k \in Keys |-> Free]
    /\ submission = [k \in Keys |-> "none"]
    /\ call = [a \in Callers |-> Idle]
    /\ told = [k \in Keys |-> {}]
    /\ fate = [k \in Keys |-> "unsent"]
    /\ seq = 0

-----------------------------------------------------------------------------
(* The database steps of Submit.                                           *)

(* GetIdempotentResponse: a finished key answers from the cache.           *)

(* Seeded fault for AnswersAgree: only a success is replayed; another      *)
(* cached answer makes way for a fresh attempt.                            *)
GetIdempotentResponse_SuccessOnly(a) ==
    LET k == KeyOf[a]
    IN  /\ At(a, "idle")
        /\ \/ Done(k) /\ key[k].response = "ok" /\ UNCHANGED <<key, call>>
              /\ told' = [told EXCEPT ![k] = @ \cup {"ok"}]
           \/ Done(k) /\ key[k].response # "ok" /\ Goto(a, "begin", "none")
              /\ key' = [key EXCEPT ![k] = Free] /\ UNCHANGED told
           \/ ~Done(k) /\ Goto(a, "begin", "none") /\ UNCHANGED <<key, told>>
        /\ UNCHANGED <<submission, netVars>>

GetIdempotentResponse(a) ==
    LET k == KeyOf[a]
    IN  /\ At(a, "idle")
        /\ \/ Done(k) /\ told' = [told EXCEPT ![k] = @ \cup {key[k].response}] /\ UNCHANGED call
           \/ ~Done(k) /\ Goto(a, "begin", "none") /\ UNCHANGED told
        /\ UNCHANGED <<dbVars, netVars>>

(* BeginSubmission: the INSERT claims the key or the call answers          *)
(* "in flight"; the submissions row is overwritten in the same             *)
(* transaction.                                                            *)

(* Seeded fault for SingleFlight: a pending key is taken over.             *)
BeginSubmission_TakesOver(a) ==
    LET k == KeyOf[a]
    IN  /\ At(a, "begin")
        /\ \/ /\ ~Done(k)
              /\ key' = [key EXCEPT ![k] = Pending]
              /\ submission' = [submission EXCEPT ![k] = "pending"]
              /\ Goto(a, "submit", "none")
           \/ Done(k) /\ Goto(a, "idle", "none") /\ UNCHANGED dbVars
        /\ UNCHANGED <<told, netVars>>

BeginSubmission(a) ==
    LET k == KeyOf[a]
    IN  /\ At(a, "begin")
        /\ \/ /\ key[k] = Free
              /\ key' = [key EXCEPT ![k] = Pending]
              /\ submission' = [submission EXCEPT ![k] = "pending"]
              /\ Goto(a, "submit", "none")
           \/ key[k] # Free /\ Goto(a, "idle", "none") /\ UNCHANGED dbVars
        /\ UNCHANGED <<told, netVars>>

(* What is not the network's last word is not cached.                      *)

(* Seeded fault for LandsInTurn: tx_bad_seq is cached like a rejection.    *)
Retryable_ErrorsOnly(r) == r = "error"

Retryable(r) == r \in {"error", "tx_bad_seq"}

StateFor(r) ==
    CASE r = "ok" -> "success"
      [] r = "PENDING" -> "submitted"
      [] OTHER -> "failed"

(* The first statement of ReleaseSubmission or of CompleteSubmission.      *)
RecordSubmission(a) ==
    LET k == KeyOf[a]
        r == call[a].result
    IN  /\ At(a, "decided")
        /\ submission' = [submission EXCEPT ![k] = IF Retryable(r) THEN "failed" ELSE StateFor(r)]
        /\ Goto(a, IF Retryable(r) THEN "releasing" ELSE "completing", r)
        /\ UNCHANGED <<key, told, netVars>>

(* The second statement of ReleaseSubmission: DELETE ... AND status =      *)
(* 'pending'.                                                              *)
ReleaseSubmission(a) ==
    LET k == KeyOf[a]
    IN  /\ At(a, "releasing")
        /\ key' = [key EXCEPT ![k] = IF @.status = "pending" THEN Free ELSE @]
        /\ Goto(a, "idle", "none")
        /\ UNCHANGED <<submission, told, netVars>>

(* The second statement of CompleteSubmission, and the answer.             *)

(* Seeded fault for HistoryAgrees: every verdict is stored as a success.    *)
CompleteSubmission_AlwaysOk(a) ==
    LET k == KeyOf[a]
    IN  /\ At(a, "completing")
        /\ key' = [key EXCEPT ![k] = DoneWith("ok")]
        /\ told' = [told EXCEPT ![k] = @ \cup {"ok"}]
        /\ Goto(a, "idle", "none")
        /\ UNCHANGED <<submission, netVars>>

CompleteSubmission(a) ==
    LET k == KeyOf[a]
        r == call[a].result
    IN  /\ At(a, "completing")
        /\ key' = [key EXCEPT ![k] = DoneWith(r)]
        /\ told' = [told EXCEPT ![k] = @ \cup {r}]
        /\ Goto(a, "idle", "none")
        /\ UNCHANGED <<submission, netVars>>

(* The process dies, the client hangs up (which cancels the context of     *)
(* every later statement) or a statement fails: the call goes no further.  *)
Die(a) ==
    /\ ~At(a, "idle")
    /\ Goto(a, "idle", "none")
    /\ UNCHANGED <<dbVars, told, netVars>>

(* ReapExpiredPendingKeys.  A key expires a day after it was claimed, when *)
(* the call that claimed it has long ended.                                *)

(* Seeded fault for PendingEnds: only attempts in the history as handed    *)
(* over are reaped, and a call that died earlier is not.                   *)
ReapExpiredPendingKeys_Submitted(k) ==
    /\ ReaperRuns
    /\ key[k] = Pending /\ submission[k] = "submitted"
    /\ \A a \in Callers : KeyOf[a] = k => ~Holds(a)
    /\ key' = [key EXCEPT ![k] = Free]
    /\ UNCHANGED <<submission, call, told, netVars>>

ReapExpiredPendingKeys(k) ==
    /\ ReaperRuns
    /\ key[k] = Pending
    /\ \A a \in Callers : KeyOf[a] = k => ~Holds(a)
    /\ key' = [key EXCEPT ![k] = Free]
    /\ UNCHANGED <<submission, call, told, netVars>>

-----------------------------------------------------------------------------
(* The chain gateway and the network behind it.                            *)

InTurn(k) == fate[k] \in {"unsent", "queued"} /\ SeqOf[k] = seq + 1

(* What the network answers to an envelope it does not take.  Horizon      *)
(* knows an included envelope by its hash, unless its ingestion is behind, *)
(* and gives every other reason as a result code of its own, also to an    *)
(* envelope whose turn it is and of which a copy is already queued.  The   *)
(* Soroban RPC reports every reason, a used-up sequence number included,   *)
(* as ERROR with the result XDR, never as "tx_bad_seq".                    *)

Refusals(k) ==
    CASE KindOf[k] = "soroban" -> {"refused"}
      [] fate[k] = "applied" -> {"ok", "tx_bad_seq", "refused"}
      [] fate[k] = "failed" -> {"tx_failed", "tx_bad_seq", "refused"}
      [] fate[k] = "expired" \/ InTurn(k) -> {"refused"}
      [] OTHER -> {"tx_bad_seq", "refused"}

(* SubmitClassic / SubmitSoroban hand the envelope over: it is queued, it  *)
(* is refused at once, or it is not taken and nobody says so (overload,    *)
(* TRY_AGAIN_LATER).                                                       *)
HandOver(a) ==
    LET k == KeyOf[a]
    IN  /\ At(a, "submit")
        /\ \/ InTurn(k) /\ fate' = [fate EXCEPT ![k] = "queued"] /\ Goto(a, "polling", "none")
           \/ UNCHANGED fate /\ \E r \in Refusals(k) : Goto(a, "decided", r)
           \/ UNCHANGED fate /\ Goto(a, "polling", "none")
        /\ UNCHANGED <<dbVars, told, seq>>

(* Waiting for the ledger: its verdict, or the end of the wait, which is   *)
(* PENDING from SubmitSoroban and a problem document (a 504, say) from     *)
(* Horizon: an error value that carries no result codes.                   *)

(* Seeded fault for VerdictsAreTrue: an envelope that was sent and is not  *)
(* seen to fail passes for applied.                                        *)
Poll_SentMeansApplied(a) ==
    LET k == KeyOf[a]
    IN  /\ At(a, "polling")
        /\ Goto(a, "decided", IF fate[k] = "failed" THEN "tx_failed" ELSE "ok")
        /\ UNCHANGED <<dbVars, told, netVars>>

Poll(a) ==
    LET k == KeyOf[a]
    IN  /\ At(a, "polling")
        /\ \/ fate[k] = "applied" /\ Goto(a, "decided", "ok")
           \/ fate[k] = "failed" /\ Goto(a, "decided", "tx_failed")
           \/ Goto(a, "decided", IF KindOf[k] = "soroban" THEN "PENDING" ELSE "no_code")
        /\ UNCHANGED <<dbVars, told, netVars>>

(* The gateway, Horizon or the RPC cannot be reached, or its answer is     *)
(* lost on the way back.                                                   *)
Unreachable(a) ==
    LET k == KeyOf[a]
    IN  /\ call[a].pc \in {"submit", "polling"}
        /\ \/ InTurn(k) /\ fate' = [fate EXCEPT ![k] = "queued"]
           \/ UNCHANGED fate
        /\ Goto(a, "decided", "error")
        /\ UNCHANGED <<dbVars, told, seq>>

(* A ledger includes a queued envelope.                                    *)
Include(k) ==
    /\ fate[k] = "queued"
    /\ SeqOf[k] = seq + 1
    /\ \E f \in {"applied", "failed"} : fate' = [fate EXCEPT ![k] = f]
    /\ seq' = seq + 1
    /\ UNCHANGED <<dbVars, call, told>>

(* The queue forgets it, or its time bounds pass.                          *)
Evict(k) ==
    /\ fate[k] \in {"unsent", "queued"}
    /\ \E f \in {"unsent", "expired"} : fate' = [fate EXCEPT ![k] = f]
    /\ UNCHANGED <<dbVars, call, told, seq>>

(* Another transaction of the same account.                                *)
OtherTransaction ==
    /\ seq < MaxSeq
    /\ seq' = seq + 1
    /\ UNCHANGED <<dbVars, call, told, fate>>

-----------------------------------------------------------------------------
Submit(a) ==
    \/ GetIdempotentResponse(a) \/ BeginSubmission(a)
    \/ HandOver(a) \/ Poll(a) \/ Unreachable(a)
    \/ RecordSubmission(a) \/ ReleaseSubmission(a) \/ CompleteSubmission(a)

Network == OtherTransaction \/ \E k \in Keys : Include(k) \/ Evict(k)

Next ==
    \/ \E a \in Callers : Submit(a) \/ Die(a)
    \/ \E k \in Keys : ReapExpiredPendingKeys(k)
    \/ Network

Spec == Init /\ [][Next]_vars

(* Devices repeat what is not settled (every 15 seconds), a handler goes   *)
(* on unless it dies, the reaper ticks, and the network is neither down    *)
(* nor forgetful for ever.                                                 *)
CallersOf(k) == {a \in Callers : KeyOf[a] = k}
Begins(k) == \E a \in CallersOf(k) : BeginSubmission(a)
Queues(k) == \E a \in CallersOf(k) : HandOver(a) /\ fate'[k] = "queued"

FairSpec ==
    /\ Spec
    /\ \A k \in Keys :
        /\ WF_vars(ReapExpiredPendingKeys(k))
        /\ SF_vars(Begins(k)) /\ SF_vars(Queues(k)) /\ SF_vars(Include(k))
    /\ \A a \in Callers : WF_vars(Submit(a))

-----------------------------------------------------------------------------
(* The shapes of the tables, the calls and the network.                    *)
TypeOK ==
    /\ key \in [Keys -> KeyRows]
    /\ submission \in [Keys -> {"none", "pending", "submitted", "success", "failed"}]
    /\ call \in [Callers -> Calls]
    /\ told \in [Keys -> SUBSET Responses]
    /\ fate \in [Keys -> {"unsent", "queued", "applied", "failed", "expired"}]
    /\ seq \in Nat

(* B2: two calls never work on the same key at the same time, whatever     *)
(* crashes, releases and reaps came before, and while one does, the key is *)
(* not answered from the cache.                                            *)
SingleFlight ==
    \A a, b \in Callers :
        /\ Holds(a) => ~Done(KeyOf[a])
        /\ Holds(a) /\ Holds(b) /\ KeyOf[a] = KeyOf[b] => a = b

(* D3: every final answer that was ever given for a key, to any device, at *)
(* any time, is the answer that a repeat gets today.                       *)
AnswersAgree ==
    \A k \in Keys : told[k] # {} => Done(k) /\ told[k] = {key[k].response}

(* The history table and the gate table are written by separate            *)
(* statements; once a key is done they say the same.                       *)
HistoryAgrees ==
    \A k \in Keys : Done(k) => submission[k] = StateFor(key[k].response)

(* D6: what is replayed as a ledger's verdict is that verdict, for ever: a *)
(* success was applied by the network, a tx_failed was included and        *)
(* failed.  (Nothing is said of "refused": the envelope kept its sequence  *)
(* number, and a copy that is still queued can be applied.)                *)
VerdictsAreTrue ==
    \A k \in Keys : Done(k) =>
        /\ key[k].response = "ok" => fate[k] = "applied"
        /\ key[k].response = "tx_failed" => fate[k] = "failed"

(* SERVICE.md #14: a key whose call died does not answer "in flight" for   *)
(* ever.                                                                   *)
PendingEnds == \A k \in Keys : key[k] = Pending ~> key[k] # Pending

(* SERVICE.md #23: an envelope that came before its turn is not lost: once *)
(* its turn comes, the repeats bring it to a verdict, unless Submit cached *)
(* a refusal with another result code, or a failure of Horizon itself (see *)
(* OutagesAreNotVerdicts), and so ended the repeats.                       *)
Final(k) == fate[k] \in {"applied", "failed", "expired"}

LandsInTurn ==
    \A k \in Keys : KindOf[k] = "classic" =>
        (<>[](InTurn(k) \/ Final(k)) => <>(Final(k) \/ key[k].response \in {"refused", "no_code"}))

-----------------------------------------------------------------------------
(* What comments and documents say and the code does not provide.          *)

(* Submit's comments: only a genuine verdict is cached, an outage never:   *)
(* what is replayed as failed on Horizon's own failure is not applied.     *)
OutagesAreNotVerdicts ==
    \A k \in Keys : Done(k) /\ submission[k] = "failed" /\ key[k].response = "no_code" => fate[k] # "applied"
=============================================================================
