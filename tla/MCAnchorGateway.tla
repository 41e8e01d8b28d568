--------------------------- MODULE MCAnchorGateway ---------------------------
(* Two activities of one account and an anchor that serves its home page   *)
(* and its interfaces from two hosts, and comes to publish a quote server. *)
EXTENDS AnchorGateway

AllOfAlice == [c \in Clients |-> "alice"]

TransferAndInteractive == [c \in Clients |-> IF c = "c1" THEN {"sep6"} ELSE {"sep24", "quote"}]

TwoTomls == {[s \in Servers |-> IF s = "quote" THEN q ELSE IF s = "kyc" THEN "home" ELSE "api"] : q \in {"quotes", NoHost}}
=============================================================================
