------------------------- MODULE TxSubmissionProofs -------------------------
(***************************************************************************)
(* Proofs about TxSubmission for any number of keys and callers.           *)
(*                                                                         *)
(* None of the safety properties is inductive alone.  What makes them so   *)
(* is who owns a key: a call between BeginSubmission and its end finds the *)
(* key pending and is alone on it (Ownership), so nobody rewrites the      *)
(* submissions row between the two statements of CompleteSubmission        *)
(* (Recorded), and what the call was told by the network is still true     *)
(* when it is cached (Truthful).                                           *)
(***************************************************************************)
EXTENDS TxSubmission, TLAPS

USE SubmissionAssumption

(* A call has something to record when it comes to record it.              *)
Answered ==
    \A a \in Callers : /\ At(a, "decided") => call[a].result \in Results
                       /\ At(a, "completing") => call[a].result \in Responses

Ownership ==
    /\ \A a \in Callers : Holds(a) => key[KeyOf[a]] = Pending
    /\ \A a, b \in Callers : Holds(a) /\ Holds(b) /\ KeyOf[a] = KeyOf[b] => a = b

Recorded ==
    \A a \in Callers : At(a, "completing") => submission[KeyOf[a]] = StateFor(call[a].result)

Supports(k, r) ==
    /\ r = "ok" => fate[k] = "applied"
    /\ r = "tx_failed" => fate[k] = "failed"

Truthful ==
    \A a \in Callers : call[a].pc \in {"decided", "completing"} =>
                            Supports(KeyOf[a], call[a].result)

IInv ==
    /\ TypeOK /\ Answered /\ Ownership
    /\ Recorded /\ HistoryAgrees /\ AnswersAgree
    /\ Truthful /\ VerdictsAreTrue

-----------------------------------------------------------------------------
(* Facts about the encodings, so that later leaves need not expand them.   *)

LEMMA RowsDiffer ==
    /\ Free \in KeyRows /\ Pending \in KeyRows /\ Free # Pending
    /\ \A r \in Responses : DoneWith(r) \in KeyRows
    /\ Free.status = "free" /\ Pending.status = "pending"
    /\ \A r : DoneWith(r).status = "done" /\ DoneWith(r).response = r
  BY DEF KeyRows, Free, Pending, DoneWith

LEMMA GotoEffect ==
    ASSUME NEW a \in Callers, NEW pc \in Points, NEW r \in Results \cup {"none"},
           call \in [Callers -> Calls], Goto(a, pc, r)
    PROVE  /\ call' \in [Callers -> Calls]
           /\ call'[a].pc = pc /\ call'[a].result = r
           /\ \A b \in Callers : b # a => call'[b] = call[b]
<1>1. [pc |-> pc, result |-> r] \in Calls
  BY DEF Calls
<1> QED
  BY <1>1 DEF Goto

LEMMA PointsAre ==
    /\ {"idle", "begin", "submit", "polling", "decided", "releasing", "completing"} \subseteq Points
    /\ HoldingPoints \subseteq Points
    /\ "idle" \notin HoldingPoints /\ "begin" \notin HoldingPoints
    /\ {"submit", "polling", "decided", "releasing", "completing"} \subseteq HoldingPoints
  BY DEF Points, HoldingPoints

-----------------------------------------------------------------------------
LEMMA InitType == Init => TypeOK /\ Answered
  BY RowsDiffer DEF Init, TypeOK, Idle, Calls, Points, Answered, At

LEMMA StepType == TypeOK /\ Answered /\ [Next]_vars => TypeOK'
<1> SUFFICES ASSUME TypeOK, Answered, [Next]_vars PROVE TypeOK'
  OBVIOUS
<1> USE DEF TypeOK
<1>1. CASE UNCHANGED vars
  BY <1>1 DEF vars
<1>2. ASSUME NEW a \in Callers, GetIdempotentResponse(a) PROVE TypeOK'
  <2>1. CASE ~Done(KeyOf[a])
    BY <1>2, <2>1, GotoEffect, PointsAre DEF GetIdempotentResponse, dbVars, netVars
  <2>2. CASE Done(KeyOf[a])
    <3>1. key[KeyOf[a]].response \in Responses
      BY <2>2 DEF Done, KeyRows, Free, Pending, DoneWith
    <3> QED BY <1>2, <2>2, <3>1 DEF GetIdempotentResponse, dbVars, netVars
  <2> QED BY <2>1, <2>2
<1>3. ASSUME NEW a \in Callers, BeginSubmission(a) PROVE TypeOK'
  BY <1>3, GotoEffect, PointsAre, RowsDiffer DEF BeginSubmission, dbVars, netVars
<1>4. ASSUME NEW a \in Callers, HandOver(a) PROVE TypeOK'
  <2>1. Refusals(KeyOf[a]) \subseteq Results
    BY DEF Refusals, Results, Responses
  <2>2. /\ fate' \in [Keys -> {"unsent", "queued", "applied", "failed", "expired"}]
        /\ UNCHANGED <<key, submission, told, seq>>
    BY <1>4 DEF HandOver, dbVars
  <2>3. \E pc \in Points, r \in Results \cup {"none"} : Goto(a, pc, r)
    BY <1>4, <2>1, PointsAre DEF HandOver
  <2> QED BY <2>2, <2>3, GotoEffect
<1>5. ASSUME NEW a \in Callers, Poll(a) PROVE TypeOK'
  <2>1. \E pc \in Points, r \in Results \cup {"none"} : Goto(a, pc, r)
    BY <1>5, PointsAre DEF Poll, Results, Responses
  <2> QED BY <1>5, <2>1, GotoEffect DEF Poll, dbVars, netVars
<1>6. ASSUME NEW a \in Callers, Unreachable(a) PROVE TypeOK'
  <2>1. \E pc \in Points, r \in Results \cup {"none"} : Goto(a, pc, r)
    BY <1>6, PointsAre DEF Unreachable, Results
  <2> QED BY <1>6, <2>1, GotoEffect DEF Unreachable, dbVars
<1>7. ASSUME NEW a \in Callers, RecordSubmission(a) PROVE TypeOK'
  <2>1. call[a].result \in Results \cup {"none"}
    BY DEF Calls
  <2>2. \E pc \in Points, r \in Results \cup {"none"} : Goto(a, pc, r)
    BY <1>7, <2>1, PointsAre DEF RecordSubmission
  <2>3. submission' \in [Keys -> {"none", "pending", "submitted", "success", "failed"}]
    BY <1>7 DEF RecordSubmission, StateFor
  <2> QED BY <1>7, <2>2, <2>3, GotoEffect DEF RecordSubmission, netVars
<1>8. ASSUME NEW a \in Callers, ReleaseSubmission(a) PROVE TypeOK'
  BY <1>8, GotoEffect, PointsAre, RowsDiffer DEF ReleaseSubmission, netVars
<1>9. ASSUME NEW a \in Callers, CompleteSubmission(a) PROVE TypeOK'
  <2>1. call[a].result \in Responses
    BY <1>9 DEF CompleteSubmission, Answered
  <2> QED BY <1>9, <2>1, GotoEffect, PointsAre, RowsDiffer DEF CompleteSubmission, netVars
<1>10. ASSUME NEW a \in Callers, Die(a) PROVE TypeOK'
  BY <1>10, GotoEffect, PointsAre DEF Die, dbVars, netVars
<1>11. ASSUME NEW k \in Keys, ReapExpiredPendingKeys(k) PROVE TypeOK'
  BY <1>11, RowsDiffer DEF ReapExpiredPendingKeys, netVars
<1>12. CASE Network
  BY <1>12 DEF Network, OtherTransaction, Include, Evict, dbVars
<1> QED
  BY <1>1, <1>2, <1>3, <1>4, <1>5, <1>6, <1>7, <1>8, <1>9, <1>10, <1>11, <1>12
  DEF Next, Submit

(* Every step either leaves the calls alone or takes one of them along     *)
(* this table of program points.                                           *)
LEMMA CallSteps ==
    ASSUME TypeOK, [Next]_vars
    PROVE  \/ UNCHANGED call
           \/ \E a \in Callers :
                /\ \A b \in Callers : b # a => call'[b] = call[b]
                /\ \/ call'[a].pc \in {"idle", "begin"}
                   \/ BeginSubmission(a) /\ call'[a].pc = "submit"
                   \/ At(a, "submit") /\ HandOver(a) /\ call'[a].pc = "polling"
                   \/ /\ HandOver(a) \/ Poll(a) \/ Unreachable(a)
                      /\ call'[a].pc = "decided" /\ call'[a].result \in Results
                   \/ /\ RecordSubmission(a)
                      /\ call'[a].pc \in {"releasing", "completing"}
                      /\ call'[a].result = call[a].result
<1> USE DEF TypeOK
<1>1. CASE UNCHANGED vars
  BY <1>1 DEF vars
<1>2. ASSUME NEW a \in Callers, GetIdempotentResponse(a) PROVE UNCHANGED call \/ Goto(a, "begin", "none")
  BY <1>2 DEF GetIdempotentResponse
<1>3. ASSUME NEW a \in Callers, BeginSubmission(a) PROVE Goto(a, "submit", "none") \/ Goto(a, "idle", "none")
  BY <1>3 DEF BeginSubmission
<1>4. ASSUME NEW a \in Callers, HandOver(a)
      PROVE  At(a, "submit") /\ (Goto(a, "polling", "none") \/ \E r \in Results : Goto(a, "decided", r))
  <2>1. Refusals(KeyOf[a]) \subseteq Results
    BY DEF Refusals, Results, Responses
  <2> QED BY <1>4, <2>1 DEF HandOver
<1>5. ASSUME NEW a \in Callers, Poll(a) \/ Unreachable(a) PROVE \E r \in Results : Goto(a, "decided", r)
  BY <1>5 DEF Poll, Unreachable, Results, Responses
<1>6. ASSUME NEW a \in Callers, RecordSubmission(a)
      PROVE  Goto(a, "releasing", call[a].result) \/ Goto(a, "completing", call[a].result)
  BY <1>6 DEF RecordSubmission
<1>7. ASSUME NEW a \in Callers, ReleaseSubmission(a) \/ CompleteSubmission(a) \/ Die(a)
      PROVE  Goto(a, "idle", "none")
  BY <1>7 DEF ReleaseSubmission, CompleteSubmission, Die
<1>8. ASSUME NEW k \in Keys, ReapExpiredPendingKeys(k) PROVE UNCHANGED call
  BY <1>8 DEF ReapExpiredPendingKeys
<1>9. ASSUME Network PROVE UNCHANGED call
  BY <1>9 DEF Network, OtherTransaction, Include, Evict
<1>10. \A a \in Callers : call[a].result \in Results \cup {"none"}
  BY DEF Calls
<1> QED
  BY <1>1, <1>2, <1>3, <1>4, <1>5, <1>6, <1>7, <1>8, <1>9, <1>10, GotoEffect, PointsAre
  DEF Next, Submit

LEMMA StepAnswered == TypeOK /\ Answered /\ [Next]_vars => Answered'
<1> SUFFICES ASSUME TypeOK, Answered, [Next]_vars, NEW a \in Callers
             PROVE  (At(a, "decided") => call[a].result \in Results)'
                    /\ (At(a, "completing") => call[a].result \in Responses)'
  BY DEF Answered
<1>1. CASE call'[a] = call[a]
  BY <1>1 DEF Answered, At
<1>2. ASSUME RecordSubmission(a), call'[a].result = call[a].result
      PROVE  call'[a].pc = "completing" => call'[a].result \in Responses
  <2>1. call[a].result \in Results
    BY <1>2 DEF RecordSubmission, Answered
  <2>2. Retryable(call[a].result) => call'[a].pc = "releasing"
    BY <1>2 DEF RecordSubmission, Goto, TypeOK
  <2> QED BY <1>2, <2>1, <2>2 DEF Retryable, Results
<1> QED BY <1>1, <1>2, CallSteps DEF At

(* What a step may do to the key of an envelope.                           *)
LEMMA KeySteps ==
    ASSUME TypeOK, Answered, [Next]_vars, NEW k \in Keys
    PROVE  \/ key'[k] = key[k]
           \/ \E a \in Callers : KeyOf[a] = k /\ BeginSubmission(a) /\ key[k] = Free /\ key'[k] = Pending
           \/ \E a \in Callers : /\ KeyOf[a] = k /\ ReleaseSubmission(a)
                                 /\ key[k].status = "pending" /\ key'[k] = Free
           \/ \E a \in Callers : /\ KeyOf[a] = k /\ CompleteSubmission(a)
                                 /\ key'[k] = DoneWith(call[a].result)
           \/ /\ ReapExpiredPendingKeys(k) /\ key[k] = Pending /\ key'[k] = Free
<1> USE DEF TypeOK
<1>1. CASE UNCHANGED vars
  BY <1>1 DEF vars
<1>2. ASSUME NEW a \in Callers,
             \/ GetIdempotentResponse(a) \/ HandOver(a) \/ Poll(a) \/ Unreachable(a)
             \/ RecordSubmission(a) \/ Die(a)
      PROVE  key' = key
  BY <1>2 DEF GetIdempotentResponse, HandOver, Poll, Unreachable, RecordSubmission, Die, dbVars
<1>3. ASSUME NEW a \in Callers, BeginSubmission(a)
      PROVE  key'[k] = key[k] \/ (KeyOf[a] = k /\ key[k] = Free /\ key'[k] = Pending)
  BY <1>3 DEF BeginSubmission, dbVars
<1>4. ASSUME NEW a \in Callers, ReleaseSubmission(a)
      PROVE  key'[k] = key[k] \/ (KeyOf[a] = k /\ key[k].status = "pending" /\ key'[k] = Free)
  BY <1>4 DEF ReleaseSubmission
<1>5. ASSUME NEW a \in Callers, CompleteSubmission(a)
      PROVE  key'[k] = key[k] \/ (KeyOf[a] = k /\ key'[k] = DoneWith(call[a].result))
  BY <1>5 DEF CompleteSubmission
<1>6. ASSUME NEW l \in Keys, ReapExpiredPendingKeys(l)
      PROVE  key'[k] = key[k] \/ (l = k /\ key[k] = Pending /\ key'[k] = Free)
  BY <1>6 DEF ReapExpiredPendingKeys
<1>7. ASSUME Network PROVE key' = key
  BY <1>7 DEF Network, OtherTransaction, Include, Evict, dbVars
<1> QED
  BY <1>1, <1>2, <1>3, <1>4, <1>5, <1>6, <1>7 DEF Next, Submit

(* A call that holds its key is never overtaken: the INSERT needs a free   *)
(* key, the reaper leaves a held key alone, and the call that frees or     *)
(* finishes a key lets go of it in the same step.                          *)
LEMMA StepOwnership == TypeOK /\ Answered /\ Ownership /\ [Next]_vars => Ownership'
<1> SUFFICES ASSUME TypeOK, Answered, Ownership, [Next]_vars PROVE Ownership'
  OBVIOUS
<1>1. ASSUME NEW a \in Callers, Holds(a)' PROVE Holds(a) \/ (BeginSubmission(a) /\ call'[a].pc = "submit")
  <2>1. ASSUME HandOver(a) \/ Poll(a) \/ Unreachable(a) \/ RecordSubmission(a) PROVE Holds(a)
    BY <2>1, PointsAre DEF HandOver, Poll, Unreachable, RecordSubmission, At, Holds
  <2> QED BY <1>1, <2>1, CallSteps, PointsAre DEF Holds
<1>2. ASSUME NEW a \in Callers, BeginSubmission(a), call'[a].pc = "submit"
      PROVE  key[KeyOf[a]] = Free /\ key'[KeyOf[a]] = Pending
  BY <1>2 DEF BeginSubmission, Goto, TypeOK
<1>3. ASSUME NEW a \in Callers, Holds(a), Holds(a)' PROVE key'[KeyOf[a]] = Pending
  <2>1. key[KeyOf[a]] = Pending
    BY <1>3 DEF Ownership
  <2>2. ASSUME NEW b \in Callers, KeyOf[b] = KeyOf[a], ReleaseSubmission(b) \/ CompleteSubmission(b)
        PROVE  FALSE
    <3>1. Holds(b)
      BY <2>2, PointsAre DEF ReleaseSubmission, CompleteSubmission, At, Holds
    <3>2. b = a
      BY <1>3, <2>2, <3>1 DEF Ownership
    <3>3. call'[a].pc = "idle"
      BY <2>2, <3>2 DEF ReleaseSubmission, CompleteSubmission, Goto, TypeOK
    <3> QED BY <1>3, <3>3, PointsAre DEF Holds
  <2>3. ~ReapExpiredPendingKeys(KeyOf[a])
    BY <1>3 DEF ReapExpiredPendingKeys
  <2> QED BY <2>1, <2>2, <2>3, KeySteps, RowsDiffer
<1>4. ASSUME NEW a \in Callers, Holds(a)' PROVE key'[KeyOf[a]] = Pending
  BY <1>1, <1>2, <1>3, <1>4
<1>5. ASSUME NEW a \in Callers, NEW b \in Callers, Holds(a)', Holds(b)', KeyOf[a] = KeyOf[b]
      PROVE  a = b
  <2>1. CASE Holds(a) /\ Holds(b)
    BY <1>5, <2>1 DEF Ownership
  <2>2. CASE ~Holds(a)
    <3>1. BeginSubmission(a) /\ call'[a].pc = "submit" /\ key[KeyOf[a]] = Free
      BY <1>1, <1>2, <1>5, <2>2
    <3>2. ~Holds(b)
      BY <1>5, <3>1, RowsDiffer DEF Ownership
    <3>3. BeginSubmission(b) /\ call'[b].pc = "submit"
      BY <1>1, <1>5, <3>2
    <3> QED BY <3>1, <3>2, <3>3, PointsAre DEF BeginSubmission, Goto, TypeOK, Holds, At
  <2>3. CASE ~Holds(b)
    <3>1. BeginSubmission(b) /\ call'[b].pc = "submit" /\ key[KeyOf[b]] = Free
      BY <1>1, <1>2, <1>5, <2>3
    <3>2. ~Holds(a)
      BY <1>5, <3>1, RowsDiffer DEF Ownership
    <3> QED BY <2>2, <3>2
  <2> QED BY <2>1, <2>2, <2>3
<1> QED BY <1>4, <1>5 DEF Ownership

-----------------------------------------------------------------------------
(* The submissions row of a key is written only by the call that holds it, *)
(* or by the one that claims it.                                           *)
LEMMA SubmissionSteps ==
    ASSUME TypeOK, [Next]_vars, NEW k \in Keys
    PROVE  \/ submission'[k] = submission[k]
           \/ \E a \in Callers : KeyOf[a] = k /\ BeginSubmission(a) /\ key[k] = Free
           \/ \E a \in Callers : KeyOf[a] = k /\ RecordSubmission(a)
<1> USE DEF TypeOK
<1>1. CASE UNCHANGED vars
  BY <1>1 DEF vars
<1>2. ASSUME NEW a \in Callers,
             \/ GetIdempotentResponse(a) \/ HandOver(a) \/ Poll(a) \/ Unreachable(a)
             \/ ReleaseSubmission(a) \/ CompleteSubmission(a) \/ Die(a)
      PROVE  submission' = submission
  BY <1>2 DEF GetIdempotentResponse, HandOver, Poll, Unreachable, ReleaseSubmission,
              CompleteSubmission, Die, dbVars
<1>3. ASSUME NEW a \in Callers, BeginSubmission(a)
      PROVE  submission'[k] = submission[k] \/ (KeyOf[a] = k /\ key[k] = Free)
  BY <1>3 DEF BeginSubmission, dbVars
<1>4. ASSUME NEW a \in Callers, RecordSubmission(a)
      PROVE  submission'[k] = submission[k] \/ KeyOf[a] = k
  BY <1>4 DEF RecordSubmission
<1>5. ASSUME Network \/ \E l \in Keys : ReapExpiredPendingKeys(l) PROVE submission' = submission
  BY <1>5 DEF Network, OtherTransaction, Include, Evict, ReapExpiredPendingKeys, dbVars
<1> QED
  BY <1>1, <1>2, <1>3, <1>4, <1>5 DEF Next, Submit

LEMMA StepRecorded ==
    TypeOK /\ Answered /\ Ownership /\ Recorded /\ HistoryAgrees /\ [Next]_vars
        => Recorded' /\ HistoryAgrees'
<1> SUFFICES ASSUME TypeOK, Answered, Ownership, Recorded, HistoryAgrees, [Next]_vars
             PROVE  Recorded' /\ HistoryAgrees'
  OBVIOUS
<1>1. ASSUME NEW a \in Callers, call'[a].pc = "completing"
      PROVE  submission'[KeyOf[a]] = StateFor(call'[a].result)
  <2>1. CASE RecordSubmission(a)
    <3>1. ~Retryable(call[a].result) /\ call'[a].result = call[a].result
      BY <1>1, <2>1 DEF RecordSubmission, Goto, TypeOK
    <3> QED BY <2>1, <3>1 DEF RecordSubmission, TypeOK
  <2>2. CASE ~RecordSubmission(a)
    <3>1. call'[a] = call[a] /\ At(a, "completing")
      BY <1>1, <2>2, CallSteps DEF At
    <3>2. Holds(a) /\ key[KeyOf[a]] = Pending
      BY <3>1, PointsAre DEF Ownership, Holds, At
    <3>3. ASSUME NEW b \in Callers, KeyOf[b] = KeyOf[a], RecordSubmission(b) PROVE FALSE
      <4>1. Holds(b)
        BY <3>3, PointsAre DEF RecordSubmission, Holds, At
      <4> QED BY <2>2, <3>2, <3>3, <4>1 DEF Ownership
    <3>4. submission'[KeyOf[a]] = submission[KeyOf[a]]
      BY <3>2, <3>3, SubmissionSteps, RowsDiffer
    <3> QED BY <3>1, <3>4 DEF Recorded
  <2> QED BY <2>1, <2>2
<1>2. ASSUME NEW k \in Keys, Done(k)' PROVE submission'[k] = StateFor(key'[k].response)
  <2>1. CASE Done(k) /\ key'[k] = key[k]
    <3>1. ASSUME NEW a \in Callers, KeyOf[a] = k, RecordSubmission(a) PROVE FALSE
      <4>1. key[k] = Pending
        BY <3>1, PointsAre DEF RecordSubmission, Ownership, Holds, At
      <4> QED BY <2>1, <4>1, RowsDiffer DEF Done
    <3>2. submission'[k] = submission[k]
      BY <2>1, <3>1, SubmissionSteps, RowsDiffer DEF Done
    <3> QED BY <2>1, <3>2 DEF HistoryAgrees
  <2>2. ASSUME NEW a \in Callers, KeyOf[a] = k, CompleteSubmission(a), key'[k] = DoneWith(call[a].result)
        PROVE  submission'[k] = StateFor(key'[k].response)
    <3>1. submission' = submission /\ submission[k] = StateFor(call[a].result)
      BY <2>2 DEF CompleteSubmission, Recorded
    <3> QED BY <2>2, <3>1, RowsDiffer
  <2> QED BY <1>2, <2>1, <2>2, KeySteps, RowsDiffer DEF Done
<1> QED BY <1>1, <1>2 DEF Recorded, HistoryAgrees, At

-----------------------------------------------------------------------------
(* A finished key stays as it is.                                          *)
LEMMA DoneStays ==
    ASSUME TypeOK, Answered, Ownership, [Next]_vars, NEW k \in Keys, Done(k)
    PROVE  key'[k] = key[k]
<1>1. ASSUME NEW a \in Callers, KeyOf[a] = k, CompleteSubmission(a) PROVE FALSE
  <2>1. key[k] = Pending
    BY <1>1, PointsAre DEF CompleteSubmission, Ownership, Holds, At
  <2> QED BY <2>1, RowsDiffer DEF Done
<1> QED BY <1>1, KeySteps, RowsDiffer DEF Done

(* A final answer is given by the cache or by the call that finishes the   *)
(* key.                                                                    *)
LEMMA ToldSteps ==
    ASSUME TypeOK, [Next]_vars, NEW k \in Keys
    PROVE  \/ told'[k] = told[k]
           \/ Done(k) /\ told'[k] = told[k] \cup {key[k].response}
           \/ \E a \in Callers : /\ KeyOf[a] = k /\ CompleteSubmission(a)
                                 /\ told'[k] = told[k] \cup {call[a].result}
<1> USE DEF TypeOK
<1>1. CASE UNCHANGED vars
  BY <1>1 DEF vars
<1>2. ASSUME NEW a \in Callers,
             \/ BeginSubmission(a) \/ HandOver(a) \/ Poll(a) \/ Unreachable(a)
             \/ ReleaseSubmission(a) \/ RecordSubmission(a) \/ Die(a)
      PROVE  told' = told
  BY <1>2 DEF BeginSubmission, HandOver, Poll, Unreachable, ReleaseSubmission,
              RecordSubmission, Die
<1>3. ASSUME Network \/ \E l \in Keys : ReapExpiredPendingKeys(l) PROVE told' = told
  BY <1>3 DEF Network, OtherTransaction, Include, Evict, ReapExpiredPendingKeys
<1>4. ASSUME NEW a \in Callers, GetIdempotentResponse(a)
      PROVE  told'[k] = told[k] \/ (Done(k) /\ told'[k] = told[k] \cup {key[k].response})
  BY <1>4 DEF GetIdempotentResponse
<1>5. ASSUME NEW a \in Callers, CompleteSubmission(a)
      PROVE  told'[k] = told[k] \/ (KeyOf[a] = k /\ told'[k] = told[k] \cup {call[a].result})
  BY <1>5 DEF CompleteSubmission
<1> QED BY <1>1, <1>2, <1>3, <1>4, <1>5 DEF Next, Submit

LEMMA StepAnswersAgree ==
    TypeOK /\ Answered /\ Ownership /\ AnswersAgree /\ [Next]_vars => AnswersAgree'
<1> SUFFICES ASSUME TypeOK, Answered, Ownership, AnswersAgree, [Next]_vars,
                    NEW k \in Keys, told'[k] # {}
             PROVE  Done(k)' /\ told'[k] = {key'[k].response}
  BY DEF AnswersAgree
<1>2. CASE told'[k] = told[k]
  BY <1>2, DoneStays DEF AnswersAgree, Done
<1>3. CASE Done(k) /\ told'[k] = told[k] \cup {key[k].response}
  BY <1>3, DoneStays DEF AnswersAgree, Done
<1>4. ASSUME NEW a \in Callers, KeyOf[a] = k, CompleteSubmission(a),
             told'[k] = told[k] \cup {call[a].result}
      PROVE  Done(k)' /\ told'[k] = {key'[k].response}
  <2>1. key[k] = Pending
    BY <1>4, PointsAre DEF CompleteSubmission, Ownership, Holds, At
  <2>2. told[k] = {}
    BY <2>1, RowsDiffer DEF AnswersAgree, Done
  <2>3. key'[k] = DoneWith(call[a].result)
    BY <1>4 DEF CompleteSubmission, TypeOK
  <2> QED BY <1>4, <2>2, <2>3, RowsDiffer DEF Done
<1> QED BY <1>2, <1>3, <1>4, ToldSteps

-----------------------------------------------------------------------------
(* What the network has decided stays decided.                             *)
LEMMA FateStays ==
    ASSUME TypeOK, [Next]_vars, NEW k \in Keys, fate[k] \in {"applied", "failed", "expired"}
    PROVE  fate'[k] = fate[k]
<1> USE DEF TypeOK
<1>1. CASE UNCHANGED vars
  BY <1>1 DEF vars
<1>2. ASSUME NEW a \in Callers, Submit(a) \/ Die(a) PROVE fate'[k] = fate[k]
  BY <1>2 DEF Submit, Die, GetIdempotentResponse, BeginSubmission, HandOver, Poll, Unreachable,
              ReleaseSubmission, RecordSubmission, CompleteSubmission, InTurn, netVars
<1>3. ASSUME Network \/ \E l \in Keys : ReapExpiredPendingKeys(l) PROVE fate'[k] = fate[k]
  BY <1>3 DEF Network, OtherTransaction, Include, Evict, ReapExpiredPendingKeys, netVars
<1> QED BY <1>1, <1>2, <1>3 DEF Next

LEMMA SupportsStays ==
    ASSUME TypeOK, [Next]_vars, NEW k \in Keys, NEW r, Supports(k, r)
    PROVE  /\ r = "ok" => fate'[k] = "applied"
           /\ r = "tx_failed" => fate'[k] = "failed"
  BY FateStays DEF Supports

LEMMA StepTruthful ==
    TypeOK /\ Answered /\ Ownership /\ Truthful /\ VerdictsAreTrue /\ [Next]_vars
        => Truthful' /\ VerdictsAreTrue'
<1> SUFFICES ASSUME TypeOK, Answered, Ownership, Truthful, VerdictsAreTrue, [Next]_vars
             PROVE  Truthful' /\ VerdictsAreTrue'
  OBVIOUS
<1> DEFINE StillSupports(k, r) ==
             /\ r = "ok" => fate'[k] = "applied"
             /\ r = "tx_failed" => fate'[k] = "failed"
<1>1. ASSUME NEW a \in Callers, call'[a].pc \in {"decided", "completing"}
      PROVE  StillSupports(KeyOf[a], call'[a].result)
  <2>1. CASE call'[a] = call[a]
    BY <1>1, <2>1, SupportsStays DEF Truthful
  <2>2. CASE RecordSubmission(a) /\ call'[a].result = call[a].result
    BY <2>2, SupportsStays DEF RecordSubmission, At, Truthful
  <2>3. ASSUME HandOver(a), call'[a].pc = "decided" PROVE StillSupports(KeyOf[a], call'[a].result)
    <3>1. fate' = fate /\ call'[a].result \in Refusals(KeyOf[a])
      BY <2>3 DEF HandOver, Goto, TypeOK
    <3> QED BY <3>1 DEF Refusals
  <2>4. ASSUME Poll(a) PROVE StillSupports(KeyOf[a], call'[a].result)
    <3>1. fate' = fate
      BY <2>4 DEF Poll, netVars
    <3>2. \/ fate[KeyOf[a]] = "applied" /\ call'[a].result = "ok"
          \/ fate[KeyOf[a]] = "failed" /\ call'[a].result = "tx_failed"
          \/ call'[a].result \in {"PENDING", "no_code"}
      BY <2>4 DEF Poll, Goto, TypeOK
    <3> QED BY <3>1, <3>2
  <2>5. ASSUME Unreachable(a) PROVE StillSupports(KeyOf[a], call'[a].result)
    <3>1. call'[a].result = "error"
      BY <2>5 DEF Unreachable, Goto, TypeOK
    <3> QED BY <3>1
  <2> QED BY <1>1, <2>1, <2>2, <2>3, <2>4, <2>5, CallSteps
<1>2. ASSUME NEW k \in Keys, Done(k)' PROVE StillSupports(k, key'[k].response)
  <2>1. CASE Done(k)
    <3>1. Supports(k, key[k].response)
      BY <2>1 DEF VerdictsAreTrue, Supports
    <3>2. key'[k].response = key[k].response
      BY <2>1, DoneStays
    <3> QED BY <3>1, <3>2, SupportsStays
  <2>2. ASSUME NEW a \in Callers, KeyOf[a] = k, CompleteSubmission(a), key'[k] = DoneWith(call[a].result)
        PROVE  StillSupports(k, key'[k].response)
    <3>1. Supports(k, call[a].result)
      BY <2>2 DEF CompleteSubmission, At, Truthful
    <3> QED BY <2>2, <3>1, SupportsStays, RowsDiffer
  <2> QED BY <1>2, <2>1, <2>2, KeySteps, RowsDiffer DEF Done
<1> QED BY <1>1, <1>2 DEF Truthful, VerdictsAreTrue, Supports

-----------------------------------------------------------------------------
LEMMA InitIInv == Init => IInv
<1> SUFFICES ASSUME Init PROVE IInv
  OBVIOUS
<1>1. \A a \in Callers : call[a].pc = "idle"
  BY DEF Init, Idle
<1>2. \A k \in Keys : key[k] = Free /\ told[k] = {}
  BY DEF Init
<1> QED
  BY <1>1, <1>2, InitType, RowsDiffer, PointsAre
  DEF IInv, Ownership, Recorded, HistoryAgrees, AnswersAgree, Truthful, VerdictsAreTrue,
      Holds, At, Done

LEMMA InductiveInvariant == Spec => []IInv
<1>1. IInv /\ [Next]_vars => IInv'
  BY StepType, StepAnswered, StepOwnership, StepRecorded, StepAnswersAgree, StepTruthful DEF IInv
<1> QED BY InitIInv, <1>1, PTL DEF Spec

(* The tables, the calls and the network keep their shapes.                *)
THEOREM TypeCorrect == Spec => []TypeOK
<1>1. IInv => TypeOK
  BY DEF IInv
<1> QED BY <1>1, InductiveInvariant, PTL

(* B2: for any number of devices and keys, at most one call works on a key *)
(* at a time, through any crashes, releases and reaps.                     *)
THEOREM OneCallPerKey == Spec => []SingleFlight
<1>1. IInv => SingleFlight
  BY RowsDiffer DEF IInv, Ownership, SingleFlight, Done
<1> QED BY <1>1, InductiveInvariant, PTL

(* D3: all final answers ever given for a key agree with what a repeat     *)
(* gets.                                                                   *)
THEOREM RepeatsAgree == Spec => []AnswersAgree
<1>1. IInv => AnswersAgree
  BY DEF IInv
<1> QED BY <1>1, InductiveInvariant, PTL

(* pay.submissions and pay.idempotency_keys say the same of a finished     *)
(* key, although separate statements write them.                           *)
THEOREM TablesAgree == Spec => []HistoryAgrees
<1>1. IInv => HistoryAgrees
  BY DEF IInv
<1> QED BY <1>1, InductiveInvariant, PTL

(* D6: what is replayed as a success was applied, what is replayed as      *)
(* tx_failed was included and failed: a ledger's verdict, once cached,     *)
(* never comes apart from what the ledger did.                             *)
THEOREM ReplayedVerdictsHold == Spec => []VerdictsAreTrue
<1>1. IInv => VerdictsAreTrue
  BY DEF IInv
<1> QED BY <1>1, InductiveInvariant, PTL
=============================================================================
