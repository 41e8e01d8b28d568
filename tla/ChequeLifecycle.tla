-------------------------- MODULE ChequeLifecycle --------------------------
(***************************************************************************)
(* The life of a cheque row as cheque-service promises it to its readers:  *)
(* the states of services/cheque/model.go and the edges its handlers may   *)
(* take between them.  A terminal state is never left (D4) and no edge is  *)
(* taken twice by one cheque (D3).                                         *)
(***************************************************************************)
CONSTANT Cheques

VARIABLES
    state,      \* the row's state; TASLAK while there is no row
    taken       \* the edges of cheque_transitions

State == {"TASLAK", "IMZALI_REZERVE", "FONLANIYOR", "HAVUZDA", "TALEP_EDILDI",
          "ONAYLANDI", "KAPANDI", "IADE_EDILEBILIR", "IADE_EDILDI", "HUKUMSUZ",
          "ZORLA_TAHSIL_DENENDI", "KARSILIKSIZ"}

Terminal == {"KAPANDI", "IADE_EDILDI", "HUKUMSUZ", "KARSILIKSIZ"}

(* The handlers' edges.  IMZALI_REZERVE -> TALEP_EDILDI is ClaimXDR's      *)
(* repair of a cheque that was locked and claimed without either confirm.  *)
Edges == {<<"TASLAK", "IMZALI_REZERVE">>,
          <<"IMZALI_REZERVE", "HAVUZDA">>,
          <<"IMZALI_REZERVE", "TALEP_EDILDI">>,
          <<"IMZALI_REZERVE", "ZORLA_TAHSIL_DENENDI">>,
          <<"HAVUZDA", "TALEP_EDILDI">>,
          <<"HAVUZDA", "IADE_EDILEBILIR">>,
          <<"TALEP_EDILDI", "ONAYLANDI">>,
          <<"ONAYLANDI", "KAPANDI">>,
          <<"IADE_EDILEBILIR", "IADE_EDILDI">>,
          <<"ZORLA_TAHSIL_DENENDI", "KAPANDI">>,
          <<"ZORLA_TAHSIL_DENENDI", "KARSILIKSIZ">>}

LifeInit ==
    /\ state = [c \in Cheques |-> "TASLAK"]
    /\ taken = [c \in Cheques |-> {}]

Take(c, to) ==
    LET edge == <<state[c], to>>
    IN  /\ edge \in Edges
        /\ edge \notin taken[c]
        /\ state' = [state EXCEPT ![c] = to]
        /\ taken' = [taken EXCEPT ![c] = @ \cup {edge}]

LifeNext == \E c \in Cheques, to \in State : Take(c, to)

LifeSpec == LifeInit /\ [][LifeNext]_<<state, taken>>
=============================================================================
