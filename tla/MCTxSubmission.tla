--------------------------- MODULE MCTxSubmission ---------------------------
(* The account locks a cheque (k1) and pays offline with its next sequence *)
(* number (k2): two devices hold the offline envelope.                     *)
EXTENDS TxSubmission

LockThenOffline == [a \in Callers |-> IF a = "locker" THEN "k1" ELSE "k2"]
Kinds == [k \in Keys |-> IF k = "k1" THEN "soroban" ELSE "classic"]
InOrder == [k \in Keys |-> IF k = "k1" THEN 1 ELSE 2]
=============================================================================
