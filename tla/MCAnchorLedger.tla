--------------------------- MODULE MCAnchorLedger ---------------------------
(* A phone that deposits and withdraws over SEP-6 and a second one of the  *)
(* same account that does so over SEP-24; Bob's name may be put into a     *)
(* request, and his may be the first phone's next wallet.                  *)
EXTENDS AnchorLedger

AllOfAlice == [c \in Clients |-> "alice"]

OneWayEach == [c \in Clients |-> {IF c = "c1" THEN "sep6" ELSE "sep24"} \X Kinds]

Payable == [i \in Ids |-> "id"]

(* 0.5 fits two decimals, 0.025 does not.                                  *)
HalfAndTooFine == {Text(FALSE, 0, 5, 1), Text(FALSE, 0, 25, 3)}
=============================================================================
