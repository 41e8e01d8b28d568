--------------------------- MODULE MCChequeSystem ---------------------------
(* ChequeSystem on small instances: alice writes cheques to bob.           *)
EXTENDS ChequeSystem, TLC

AllFromAlice == [c \in Cheques |-> "alice"]
AllToBob == [c \in Cheques |-> "bob"]

(* Two cheques that answer one payment request, and two that do not.       *)
SameRequest == [c \in Cheques |-> "r1"]
OwnRequest == [c \in Cheques |-> c]

(* Every cheque has the same parties, so cheque ids are interchangeable.   *)
ChequeSymmetry == Permutations(Cheques)
=============================================================================
