---------------------------- MODULE OfflineQueue ----------------------------
(***************************************************************************)
(* Paying a request without a connection: SendPage answers a request with  *)
(* a cheque, or with a classic payment that it signs against the cached    *)
(* account snapshot (AccountSnapshotNotifier) and puts into the device's   *)
(* queue (PendingOfflinePaymentsNotifier), while the payee's device keeps  *)
(* and submits a copy.  retryAll works on a copy of the queue, one network *)
(* round trip per item, and replaces the queue at its end; an item that    *)
(* was refused with tx_bad_seq may be signed again.                        *)
(*                                                                         *)
(* One paying account.  Of the snapshot only the sequence number is kept:  *)
(* the balance decides whether a payment is signed at all.                 *)
(***************************************************************************)
EXTENDS Integers, Sequences, FiniteSets

CONSTANTS
    Nonces,      \* the payment requests
    MaxResigns,  \* _maxResignAttempts
    MaxSeq       \* bound: the account's last sequence number

VARIABLES
    seq,      \* the account's sequence number on chain
    applied,  \* the offline payments that the network has applied
    locked,   \* the requests answered by a cheque whose lock has been applied
    expired,  \* the requests whose payments are past their time bounds
    snapshot, \* the cached sequence number
    sending,  \* how far SendPage is with each request
    queue,    \* the stored queue of the payer
    held,     \* the copies in the payee's hands
    round     \* the retryAll that is under way

vars == <<seq, applied, locked, expired, snapshot, sending, queue, held, round>>

-----------------------------------------------------------------------------
(* An envelope is signed against a sequence number: it is applied when the *)
(* account is there, and never again.                                      *)
Envelope(n, base) == [nonce |-> n, base |-> base]
Item(n, base, resigns) == [env |-> Envelope(n, base), resigns |-> resigns]
Applicable(e) == seq = e.base /\ e.nonce \notin expired /\ seq < MaxSeq

NoRound == [pc |-> "idle", todo |-> <<>>, remaining |-> <<>>, changed |-> FALSE]

Init ==
    /\ seq = 0 /\ applied = {} /\ locked = {} /\ expired = {}
    /\ snapshot = 0
    /\ sending = [n \in Nonces |-> "asked"]
    /\ queue = <<>> /\ held = {} /\ round = NoRound

Apply(e) == applied' = applied \cup {e} /\ seq' = seq + 1

-----------------------------------------------------------------------------
(* SendPage.                                                               *)

(* _sendCheque, online: the lock is applied or never sent; when no answer  *)
(* comes back (isNetworkFailure) the request is paid offline instead.      *)
sendCheque(n) ==
    /\ sending[n] = "asked"
    /\ \/ /\ seq < MaxSeq /\ seq' = seq + 1 /\ locked' = locked \cup {n}
          /\ \E s \in {"done", "fallback"} : sending' = [sending EXCEPT ![n] = s]
       \/ UNCHANGED <<seq, locked>> /\ sending' = [sending EXCEPT ![n] = "fallback"]
    /\ UNCHANGED <<applied, expired, snapshot, queue, held, round>>

(* _buildOfflinePayment: signed against the snapshot, which is advanced    *)
(* (reserve), and added to the queue.                                      *)
buildOfflinePayment(n) ==
    /\ sending[n] \in {"asked", "fallback"}
    /\ queue' = Append(queue, Item(n, snapshot, 0))
    /\ snapshot' = snapshot + 1
    /\ sending' = [sending EXCEPT ![n] = "done"]
    /\ UNCHANGED <<seq, applied, locked, expired, held, round>>

(* AccountSnapshotNotifier.refresh: after a submit, when the app comes     *)
(* back, before signing; it fails silently.                                *)
refresh ==
    /\ snapshot' = seq
    /\ UNCHANGED <<seq, applied, locked, expired, sending, queue, held, round>>

(* The handoff is collected, and the payee's own queue submits its copy.   *)
Deliver(i) ==
    /\ held' = held \cup {queue[i].env}
    /\ UNCHANGED <<seq, applied, locked, expired, snapshot, sending, queue, round>>

PayeeSubmits(e) ==
    /\ Applicable(e) /\ Apply(e)
    /\ UNCHANGED <<locked, expired, snapshot, sending, queue, held, round>>

-----------------------------------------------------------------------------
(* retryAll.                                                               *)

retryAll ==
    /\ round.pc = "idle" /\ queue # <<>>
    /\ round' = [NoRound EXCEPT !.pc = "submit", !.todo = queue]
    /\ UNCHANGED <<seq, applied, locked, expired, snapshot, sending, queue, held>>

Keep(item) == round' = [round EXCEPT !.pc = "submit", !.todo = Tail(@), !.remaining = Append(@, item)]
KeepNew(item) ==
    round' = [round EXCEPT !.pc = "submit", !.todo = Tail(@), !.remaining = Append(@, item), !.changed = TRUE]
Leave == round' = [round EXCEPT !.pc = "submit", !.todo = Tail(@), !.changed = TRUE]

Submitting == round.pc = "submit" /\ round.todo # <<>>
Current == Head(round.todo)

(* Applied now or before: dropped, unless the answer is lost.              *)
SubmitApplied ==
    /\ Submitting
    /\ \/ Applicable(Current.env) /\ Apply(Current.env)
       \/ Current.env \in applied /\ UNCHANGED <<seq, applied>>
    /\ Leave \/ Keep(Current)
    /\ UNCHANGED <<locked, expired, snapshot, sending, queue, held>>

(* _isExpired, tx_too_late, tx.bad_request.                                *)
SubmitTooLate ==
    /\ Submitting /\ Current.env.nonce \in expired
    /\ Leave
    /\ UNCHANGED <<seq, applied, locked, expired, snapshot, sending, queue, held>>

SubmitUnreachable ==
    /\ Submitting /\ Keep(Current)
    /\ UNCHANGED <<seq, applied, locked, expired, snapshot, sending, queue, held>>

SubmitBadSeq ==
    /\ Submitting /\ seq # Current.env.base /\ Current.env \notin applied
    /\ round' = [round EXCEPT !.pc = "badseq"]
    /\ UNCHANGED <<seq, applied, locked, expired, snapshot, sending, queue, held>>

(* _recoverFromBadSeq, after its refresh: an envelope at or ahead of the   *)
(* snapshot waits; one behind it is signed again.  A wallet that is locked *)
(* waits too.                                                              *)
recoverFromBadSeq ==
    LET item == Current
        e == item.env
    IN  /\ round.pc = "badseq"
        /\ \/ Keep(item) /\ UNCHANGED snapshot
           \/ item.resigns >= MaxResigns /\ Leave /\ UNCHANGED snapshot
           \/ /\ item.resigns < MaxResigns /\ e.base < snapshot
              /\ KeepNew(Item(e.nonce, snapshot, item.resigns + 1))
              /\ snapshot' = snapshot + 1
        /\ UNCHANGED <<seq, applied, locked, expired, sending, queue, held>>

(* The end of retryAll: what remains replaces the queue.                   *)
writeQueue ==
    /\ round.pc = "submit" /\ round.todo = <<>>
    /\ queue' = IF round.changed THEN round.remaining ELSE queue
    /\ round' = NoRound
    /\ UNCHANGED <<seq, applied, locked, expired, snapshot, sending, held>>

-----------------------------------------------------------------------------
Expire(n) ==
    /\ n \notin expired /\ expired' = expired \cup {n}
    /\ UNCHANGED <<seq, applied, locked, snapshot, sending, queue, held, round>>

Round ==
    \/ retryAll \/ SubmitApplied \/ SubmitTooLate \/ SubmitUnreachable
    \/ SubmitBadSeq \/ recoverFromBadSeq \/ writeQueue

Next ==
    \/ \E n \in Nonces : sendCheque(n) \/ buildOfflinePayment(n) \/ Expire(n)
    \/ \E i \in 1 .. Len(queue) : Deliver(i)
    \/ \E e \in held : PayeeSubmits(e)
    \/ refresh \/ Round

Spec == Init /\ [][Next]_vars

-----------------------------------------------------------------------------
PaymentsFor(n) == {e \in applied : e.nonce = n}

(* send_flow_test.dart: "Spent locally, so the same request can't be paid  *)
(* twice": of all the ways a request is answered, at most one is paid.     *)
NeverPaidTwice ==
    \A n \in Nonces : Cardinality(PaymentsFor(n)) + (IF n \in locked THEN 1 ELSE 0) <= 1
=============================================================================
