--------------------------- MODULE ChequePromise ---------------------------
(***************************************************************************)
(* What the platform promises about one cheque, whoever executes it: the   *)
(* money of a cheque is in exactly one place (D1), it moves as a whole     *)
(* (D8), and once it has arrived, gone back or bounced it never moves      *)
(* again (D4).  docs/reference/platform/p2p-cek-ve-havuz-mimarisi.md, 3.   *)
(***************************************************************************)
CONSTANT Cheques

VARIABLE place      \* where the money of each cheque is

Places == {"sender", "escrow", "receiver", "returned", "bounced"}

PlaceInit == place = [c \in Cheques |-> "sender"]

Move(c, from, to) ==
    /\ place[c] = from
    /\ place' = [place EXCEPT ![c] = to]

Fund(c) == Move(c, "sender", "escrow")
Collect(c) == Move(c, "sender", "receiver")     \* force_collect with cover
Bounce(c) == Move(c, "sender", "bounced")       \* force_collect without
Pay(c) == Move(c, "escrow", "receiver")
Return(c) == Move(c, "escrow", "returned")

PlaceNext == \E c \in Cheques : Fund(c) \/ Collect(c) \/ Bounce(c) \/ Pay(c) \/ Return(c)

PlaceSpec == PlaceInit /\ [][PlaceNext]_place
=============================================================================
