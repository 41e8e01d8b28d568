------------------------- MODULE ChequeSystemProofs -------------------------
(***************************************************************************)
(* Theorems about cheque-service over the contract, for any number of      *)
(* cheques, parties and requests and any horizon.                          *)
(*                                                                         *)
(* The argument has three layers.  Every step of the system is, for the    *)
(* chain, a step of PayEscrow (ChainStep), so the contract's theorems hold *)
(* here too.  Every step is, for the table, one of four things             *)
(* (TableStep), from which the reservations and the life of a row follow.  *)
(* What a caller knows when it reports back is still true on the chain     *)
(* (KnowledgeIsTrue), because a resolved record never changes; this makes  *)
(* the settled rows true.  And the chain holds nothing that has no row     *)
(* (Rowed), so what the rows exclude, the chain excludes.                  *)
(***************************************************************************)
EXTENDS ChequeSystem, PayEscrowProofs

Rows == [Cheques -> [state : Life!State, expires_at : Time,
                     reserved : BOOLEAN, preauth : BOOLEAN]]
Logs == [Cheques -> SUBSET (Life!State \X Life!State)]

LEMMA SystemTypeParts ==
    SystemTypeOK <=> /\ TypeOK /\ row \in Rows /\ log \in Logs
                     /\ phase \in [Jobs -> [Cheques -> Phases]] /\ flying \subseteq Envelope
BY DEF SystemTypeOK, Rows, Logs

-----------------------------------------------------------------------------
(* The chain.                                                              *)

LEMMA QuietSteps ==
    ASSUME NEW c \in Cheques, NEW j \in Jobs,
           SenderStep(c) \/ ReceiverStep(c) \/ KeeperStep(c) \/ JobEnds(j, c)
    PROVE  UNCHANGED chainVars
BY DEF SenderStep, CreateCheque, StorePreauth, ConfirmLock,
       ReceiverStep, ClaimXDR, ClaimReadsChain, ClaimRepairs, ConfirmClaim,
       AcknowledgeReceipt, ForceCollectXDR, ConfirmForceCollect,
       KeeperStep, SweepExpiredCheques, MarkRefunded, JobEnds, PollTimesOut, Abandon

LEMMA ApplyIsACall ==
    ASSUME SystemTypeOK, NEW j \in Jobs, NEW c \in Cheques, Apply(j, c)
    PROVE  ContractCall
<1>1. /\ SenderOf[c] \in Accounts /\ ReceiverOf[c] \in Accounts
      /\ Token \in Tokens /\ Amount \in Amounts
    BY SystemAssumption
<1>2. row[c].expires_at \in Deadlines
    <2>1. row[c].expires_at \in Time
        BY DEF SystemTypeOK
    <2> QED BY <2>1, EscrowAssumption DEF Time, Deadlines
<1> QED BY <1>1, <1>2 DEF Apply, ContractCall

(* Whatever cheque-service, the devices and the scheduler do is, for the   *)
(* chain, one call of the contract, a step of the world, or nothing.       *)
LEMMA ChainStep == SystemTypeOK /\ [SystemNext]_vars => [Next]_chainVars
<1> SUFFICES ASSUME SystemTypeOK, [SystemNext]_vars PROVE [Next]_chainVars
    OBVIOUS
<1>1. ASSUME NEW c \in Cheques, NEW j \in Jobs,
             SenderStep(c) \/ ReceiverStep(c) \/ KeeperStep(c) \/ JobEnds(j, c)
      PROVE  UNCHANGED chainVars
    BY <1>1, QuietSteps
<1>2. ASSUME NEW e \in flying, Land(e)
      PROVE  [Next]_chainVars
    <2>1. e.job \in Jobs /\ e.cheque \in Cheques
        BY DEF SystemTypeOK, Envelope
    <2>2. Apply(e.job, e.cheque) \/ UNCHANGED chainVars
        BY <1>2 DEF Land
    <2> QED BY <2>1, <2>2, ApplyIsACall DEF Next
<1>3. ASSUME NEW e \in flying, Drop(e)
      PROVE  UNCHANGED chainVars
    BY <1>3 DEF Drop
<1>4. CASE PassTime
    BY <1>4 DEF PassTime, Next, World
<1>5. CASE Outside
    <2>1. /\ Token \in Tokens /\ Amount \in Amounts
          /\ Spenders \subseteq Accounts /\ Depositors \subseteq Accounts
        BY SystemAssumption
    <2>2. ASSUME NEW a \in Spenders, NEW h \in Accounts, Spend(a, h, Token, Amount)
          PROVE  Next
        BY <2>1, <2>2 DEF Next, World, Holders
    <2>3. ASSUME NEW a \in Accounts, ToggleTrustline(a, Token)
          PROVE  Next
        BY <2>1, <2>3 DEF Next, World
    <2>4. ASSUME NEW a \in Depositors, deposit(a, Token, Amount) \/ withdraw(a, Amount)
          PROVE  Next
        BY <2>1, <2>4 DEF Next, ContractCall
    <2> QED BY <1>5, <2>2, <2>3, <2>4 DEF Outside
<1>6. CASE UNCHANGED vars
    BY <1>6 DEF vars
<1>7. "lock" \in Jobs
    BY DEF Jobs
<1> QED BY <1>1, <1>2, <1>3, <1>4, <1>5, <1>6, <1>7 DEF SystemNext

-----------------------------------------------------------------------------
(* The table.                                                              *)

(* What a Transition that takes effect does, and what it needs.            *)
Takes(c, from, to) ==
    /\ State(c) = from
    /\ <<from, to>> \notin log[c]
    /\ row' = [row EXCEPT ![c] = [state |-> to, expires_at |-> row[c].expires_at,
                                  reserved |-> row[c].reserved /\ to \notin Life!Terminal,
                                  preauth |-> row[c].preauth]]
    /\ log' = [log EXCEPT ![c] = @ \cup {<<from, to>>}]

LEMMA RowUpdate ==
    ASSUME NEW S, NEW T, NEW r \in [state : S, expires_at : T, reserved : BOOLEAN, preauth : BOOLEAN],
           NEW to, NEW b
    PROVE  [[r EXCEPT !.state = to] EXCEPT !.reserved = b]
           = [state |-> to, expires_at |-> r.expires_at, reserved |-> b, preauth |-> r.preauth]
<1>1. r = [state |-> r.state, expires_at |-> r.expires_at,
           reserved |-> r.reserved, preauth |-> r.preauth]
    OBVIOUS
<1>2. [r EXCEPT !.state = to] = [state |-> to, expires_at |-> r.expires_at,
                                 reserved |-> r.reserved, preauth |-> r.preauth]
    BY <1>1
<1>3. [[state |-> to, expires_at |-> r.expires_at,
        reserved |-> r.reserved, preauth |-> r.preauth] EXCEPT !.reserved = b]
      = [state |-> to, expires_at |-> r.expires_at, reserved |-> b, preauth |-> r.preauth]
    OBVIOUS
<1> QED BY <1>2, <1>3, Zenon

LEMMA TransitionEffect ==
    ASSUME row \in Rows, NEW c \in Cheques, NEW from, NEW to, Transition(c, from, to)
    PROVE  Takes(c, from, to) \/ UNCHANGED <<row, log>>
<1>1. CASE State(c) = from /\ <<from, to>> \notin log[c]
    <2> DEFINE b == row[c].reserved /\ to \notin Life!Terminal
    <2>1. row' = [row EXCEPT ![c].state = to, ![c].reserved = @ /\ to \notin Life!Terminal]
        BY <1>1 DEF Transition
    <2>2. log' = [log EXCEPT ![c] = @ \cup {<<from, to>>}]
        BY <1>1 DEF Transition
    <2>3. row[c] \in [state : Life!State, expires_at : Time,
                      reserved : BOOLEAN, preauth : BOOLEAN]
        BY DEF Rows
    <2>4. row' = [row EXCEPT ![c] = [[row[c] EXCEPT !.state = to] EXCEPT !.reserved = b]]
        BY <2>1, <2>3 DEF Rows
    <2> HIDE DEF b
    <2>5. row' = [row EXCEPT ![c] = [state |-> to, expires_at |-> row[c].expires_at,
                                     reserved |-> b, preauth |-> row[c].preauth]]
        BY <2>3, <2>4, RowUpdate
    <2> QED BY <1>1, <2>2, <2>5 DEF Takes, b
<1>2. CASE ~(State(c) = from /\ <<from, to>> \notin log[c])
    BY <1>2 DEF Transition
<1> QED BY <1>1, <1>2

(* The moves of the handlers: an edge of the life of a cheque.             *)
Moves(c) ==
    \E from, to \in Life!State :
        /\ <<from, to>> \in Life!Edges
        /\ from # "TASLAK"
        /\ Takes(c, from, to)

Opens(c) ==
    /\ State(c) = "TASLAK"
    /\ now + Validity <= MaxTime
    /\ CreateReservedCheque(c)

Preauthorizes(c) ==
    /\ row' = [row EXCEPT ![c].preauth = TRUE]
    /\ UNCHANGED log

TableStep ==
    \/ \E c \in Cheques : Opens(c) \/ Moves(c) \/ Preauthorizes(c)
    \/ UNCHANGED <<row, log>>

LEMMA HandlersMove ==
    ASSUME row \in Rows, NEW c \in Cheques, NEW from, NEW to,
           <<from, to>> \in Life!Edges, from # "TASLAK", Transition(c, from, to)
    PROVE  Moves(c) \/ UNCHANGED <<row, log>>
<1>1. from \in Life!State /\ to \in Life!State
    BY DEF Life!Edges, Life!State
<1>2. CASE Takes(c, from, to)
    BY <1>1, <1>2 DEF Moves
<1> QED BY <1>2, TransitionEffect

LEMMA StepTable == SystemTypeOK /\ [SystemNext]_vars => TableStep
<1> SUFFICES ASSUME SystemTypeOK, [SystemNext]_vars PROVE TableStep
    OBVIOUS
<1>0. row \in Rows
    BY DEF SystemTypeOK, Rows
<1>1. ASSUME NEW c \in Cheques, SenderStep(c)
      PROVE  TableStep
    <2>1. CASE \E answered \in BOOLEAN : CreateCheque(c, answered)
        BY <2>1 DEF CreateCheque, Opens, TableStep
    <2>2. CASE StorePreauth(c)
        BY <2>2 DEF StorePreauth, Preauthorizes, TableStep
    <2>3. CASE ConfirmLock(c)
        <3>1. Transition(c, "IMZALI_REZERVE", "HAVUZDA")
            BY <2>3 DEF ConfirmLock
        <3>2. <<"IMZALI_REZERVE", "HAVUZDA">> \in Life!Edges
            BY DEF Life!Edges
        <3> QED BY <1>0, <3>1, <3>2, HandlersMove DEF TableStep
    <2> QED BY <1>1, <2>1, <2>2, <2>3 DEF SenderStep
<1>2. ASSUME NEW c \in Cheques, ReceiverStep(c)
      PROVE  TableStep
    <2>1. CASE ClaimXDR(c) \/ ClaimReadsChain(c)
        BY <2>1 DEF ClaimXDR, ClaimReadsChain, TableStep
    <2>2. ASSUME NEW from, NEW to, Transition(c, from, to),
                 <<from, to>> \in {<<"IMZALI_REZERVE", "HAVUZDA">>,
                                   <<"IMZALI_REZERVE", "TALEP_EDILDI">>,
                                   <<"HAVUZDA", "TALEP_EDILDI">>,
                                   <<"TALEP_EDILDI", "ONAYLANDI">>,
                                   <<"ONAYLANDI", "KAPANDI">>,
                                   <<"IMZALI_REZERVE", "ZORLA_TAHSIL_DENENDI">>,
                                   <<"ZORLA_TAHSIL_DENENDI", "KAPANDI">>,
                                   <<"ZORLA_TAHSIL_DENENDI", "KARSILIKSIZ">>}
          PROVE  TableStep
        <3>1. <<from, to>> \in Life!Edges /\ from # "TASLAK"
            BY <2>2 DEF Life!Edges
        <3> QED BY <1>0, <2>2, <3>1, HandlersMove DEF TableStep
    <2>3. CASE ClaimRepairs(c)
        BY <2>2, <2>3 DEF ClaimRepairs
    <2>4. CASE ConfirmClaim(c)
        BY <2>2, <2>4 DEF ConfirmClaim
    <2>5. CASE AcknowledgeReceipt(c)
        BY <2>2, <2>5 DEF AcknowledgeReceipt
    <2>6. CASE ForceCollectXDR(c)
        BY <2>2, <2>6 DEF ForceCollectXDR, TableStep
    <2>7. CASE ConfirmForceCollect(c)
        BY <2>2, <2>7 DEF ConfirmForceCollect
    <2> QED BY <1>2, <2>1, <2>3, <2>4, <2>5, <2>6, <2>7 DEF ReceiverStep
<1>3. ASSUME NEW c \in Cheques, KeeperStep(c)
      PROVE  TableStep
    <2>1. CASE SweepExpiredCheques(c)
        BY <2>1 DEF SweepExpiredCheques, TableStep
    <2>2. ASSUME NEW from, NEW to, Transition(c, from, to),
                 <<from, to>> \in {<<"HAVUZDA", "IADE_EDILEBILIR">>,
                                   <<"IADE_EDILEBILIR", "IADE_EDILDI">>}
          PROVE  TableStep
        <3>1. <<from, to>> \in Life!Edges /\ from # "TASLAK"
            BY <2>2 DEF Life!Edges
        <3> QED BY <1>0, <2>2, <3>1, HandlersMove DEF TableStep
    <2>3. CASE MarkRefunded(c)
        BY <2>2, <2>3 DEF MarkRefunded
    <2> QED BY <1>3, <2>1, <2>3 DEF KeeperStep
<1>4. ASSUME NEW c \in Cheques, NEW j \in Jobs, JobEnds(j, c)
      PROVE  TableStep
    BY <1>4 DEF JobEnds, PollTimesOut, Abandon, TableStep
<1>5. ASSUME NEW e \in flying, Land(e) \/ Drop(e)
      PROVE  TableStep
    BY <1>5 DEF Land, Drop, TableStep
<1>6. CASE PassTime \/ Outside \/ UNCHANGED vars
    BY <1>6 DEF PassTime, Outside, vars, sysVars, TableStep
<1> QED BY <1>1, <1>2, <1>3, <1>4, <1>5, <1>6 DEF SystemNext

LEMMA TableType ==
    ASSUME SystemTypeOK, TableStep
    PROVE  row' \in Rows /\ log' \in Logs
<1>0. row \in Rows /\ log \in Logs
    BY DEF SystemTypeOK, Rows, Logs
<1>1. ASSUME NEW c \in Cheques, Opens(c)
      PROVE  row' \in Rows /\ log' \in Logs
    <2>1. now + Validity \in Time
        BY <1>1, SystemAssumption, EscrowAssumption DEF Opens, SystemTypeOK, TypeOK, Time
    <2>2. {"TASLAK", "IMZALI_REZERVE"} \subseteq Life!State
        BY DEF Life!State
    <2> QED BY <1>0, <1>1, <2>1, <2>2 DEF Opens, CreateReservedCheque, Rows, Logs
<1>2. ASSUME NEW c \in Cheques, Moves(c)
      PROVE  row' \in Rows /\ log' \in Logs
    <2>1. PICK from, to \in Life!State : Takes(c, from, to)
        BY <1>2 DEF Moves
    <2> DEFINE b == row[c].reserved /\ to \notin Life!Terminal
    <2>2. b \in BOOLEAN
        OBVIOUS
    <2>3. row' = [row EXCEPT ![c] = [state |-> to, expires_at |-> row[c].expires_at,
                                     reserved |-> b, preauth |-> row[c].preauth]]
        BY <2>1 DEF Takes
    <2> HIDE DEF b
    <2>4. row' \in Rows
        BY <1>0, <2>2, <2>3 DEF Rows
    <2>5. log' \in Logs
        BY <1>0, <2>1 DEF Takes, Logs
    <2> QED BY <2>4, <2>5
<1>3. ASSUME NEW c \in Cheques, Preauthorizes(c)
      PROVE  row' \in Rows /\ log' \in Logs
    BY <1>0, <1>3 DEF Preauthorizes, Rows
<1>4. CASE UNCHANGED <<row, log>>
    BY <1>0, <1>4
<1> QED BY <1>1, <1>2, <1>3, <1>4 DEF TableStep

LEMMA IssueType ==
    ASSUME SystemTypeOK, NEW j \in Jobs, NEW c \in Cheques, Issue(j, c)
    PROVE  phase' \in [Jobs -> [Cheques -> Phases]] /\ flying' \subseteq Envelope
<1>1. now + EnvelopeLife \in Nat
    BY EscrowAssumption DEF SystemTypeOK, TypeOK, Time, EnvelopeLife
<1>2. [job |-> j, cheque |-> c, until |-> now + EnvelopeLife] \in Envelope
    BY <1>1 DEF Envelope
<1>3. flying' \subseteq Envelope
    BY <1>2 DEF Issue, SystemTypeOK
<1>4. phase' \in [Jobs -> [Cheques -> Phases]]
    BY DEF Issue, Goto, Phases, SystemTypeOK
<1> QED BY <1>3, <1>4

LEMMA GotoType ==
    ASSUME SystemTypeOK, NEW j \in Jobs, NEW c \in Cheques, NEW p \in Phases, Goto(j, c, p)
    PROVE  phase' \in [Jobs -> [Cheques -> Phases]]
BY DEF Goto, SystemTypeOK

LEMMA StepCallers ==
    ASSUME SystemTypeOK, [SystemNext]_vars
    PROVE  phase' \in [Jobs -> [Cheques -> Phases]] /\ flying' \subseteq Envelope
<1> DEFINE Good == phase' \in [Jobs -> [Cheques -> Phases]] /\ flying' \subseteq Envelope
<1>0. phase \in [Jobs -> [Cheques -> Phases]] /\ flying \subseteq Envelope
    BY DEF SystemTypeOK
<1>j. {"lock", "claim", "collect", "refund"} \subseteq Jobs
    BY DEF Jobs
<1>p. {"idle", "waiting", "success", "pending", "confirmed", "sawFunded", "sawClaimed",
       "marking", "acking"} \subseteq Phases
    BY DEF Phases
<1>i. ASSUME NEW j \in Jobs, NEW c \in Cheques, Issue(j, c)
      PROVE  Good
    BY <1>i, IssueType
<1>g. ASSUME NEW j \in Jobs, NEW c \in Cheques, NEW p \in Phases, Goto(j, c, p), flying' \subseteq flying
      PROVE  Good
    BY <1>g, <1>0, GotoType
<1>1. ASSUME NEW c \in Cheques, SenderStep(c)
      PROVE  Good
    BY <1>1, <1>0, <1>j, <1>p, <1>i, <1>g DEF SenderStep, CreateCheque, StorePreauth, ConfirmLock
<1>2. ASSUME NEW c \in Cheques, ReceiverStep(c)
      PROVE  Good
    <2>1. CASE ClaimXDR(c) \/ ClaimReadsChain(c) \/ ClaimRepairs(c)
        BY <2>1, <1>j, <1>p, <1>i, <1>g DEF ClaimXDR, ClaimReadsChain, ClaimRepairs
    <2>2. CASE ConfirmClaim(c) \/ AcknowledgeReceipt(c)
        BY <2>2, <1>j, <1>p, <1>g DEF ConfirmClaim, AcknowledgeReceipt
    <2>3. CASE ForceCollectXDR(c) \/ ConfirmForceCollect(c)
        BY <2>3, <1>j, <1>p, <1>i, <1>g DEF ForceCollectXDR, ConfirmForceCollect
    <2> QED BY <1>2, <2>1, <2>2, <2>3 DEF ReceiverStep
<1>3. ASSUME NEW c \in Cheques, KeeperStep(c)
      PROVE  Good
    BY <1>3, <1>j, <1>p, <1>i, <1>g DEF KeeperStep, SweepExpiredCheques, MarkRefunded
<1>4. ASSUME NEW c \in Cheques, NEW j \in Jobs, JobEnds(j, c)
      PROVE  Good
    BY <1>4, <1>p, <1>g DEF JobEnds, PollTimesOut, Abandon
<1>5. ASSUME NEW e \in flying, Land(e) \/ Drop(e)
      PROVE  Good
    <2>1. e.job \in Jobs /\ e.cheque \in Cheques
        BY <1>0 DEF Envelope
    <2>2. phase[e.job][e.cheque] \in Phases
        BY <1>0, <2>1
    <2>3. CASE Land(e)
        <3>1. PICK p \in Phases : Goto(e.job, e.cheque, p)
            BY <2>2, <2>3, <1>p DEF Land
        <3>2. flying' \subseteq flying
            BY <2>3 DEF Land
        <3> QED BY <2>1, <3>1, <3>2, <1>g
    <2>4. CASE Drop(e)
        BY <1>0, <2>4 DEF Drop
    <2> QED BY <1>5, <2>3, <2>4
<1>6. CASE PassTime \/ Outside \/ UNCHANGED vars
    BY <1>0, <1>6 DEF PassTime, Outside, vars, sysVars
<1> QED BY <1>1, <1>2, <1>3, <1>4, <1>5, <1>6 DEF SystemNext

LEMMA SystemInitType == SystemInit => SystemTypeOK
<1> SUFFICES ASSUME SystemInit PROVE SystemTypeOK
    OBVIOUS
<1>1. TypeOK
    BY InitType DEF SystemInit
<1>2. row \in Rows /\ log \in Logs
    BY EscrowAssumption DEF SystemInit, NoRow, Rows, Logs, Life!State, Time
<1>3. phase \in [Jobs -> [Cheques -> Phases]] /\ flying \subseteq Envelope
    BY DEF SystemInit, Phases
<1> QED BY <1>1, <1>2, <1>3, SystemTypeParts

LEMMA SystemStepType == SystemTypeOK /\ [SystemNext]_vars => SystemTypeOK'
<1> SUFFICES ASSUME SystemTypeOK, [SystemNext]_vars PROVE SystemTypeOK'
    OBVIOUS
<1>1. TypeOK'
    BY ChainStep, NextType DEF SystemTypeOK
<1>2. row' \in Rows /\ log' \in Logs
    BY StepTable, TableType
<1>3. phase' \in [Jobs -> [Cheques -> Phases]] /\ flying' \subseteq Envelope
    BY StepCallers
<1> QED BY <1>1, <1>2, <1>3 DEF SystemTypeOK, Rows, Logs

(* Rows, logs, jobs and envelopes keep their shapes for every instance: no *)
(* handler writes a state that model.go does not have or a deadline off    *)
(* the clock, and the contract beneath stays well-typed.                   *)
THEOREM SystemTypeCorrect == SystemSpec => []SystemTypeOK
BY SystemInitType, SystemStepType, PTL DEF SystemSpec

(* Everything proved of the contract holds of the whole system: no order   *)
(* of service calls, lost answers and late envelopes makes it do what      *)
(* contract calls alone could not do.                                      *)
THEOREM SystemRunsContract == SystemSpec => Spec
<1>1. SystemInit => Init
    BY DEF SystemInit
<1> QED BY <1>1, ChainStep, SystemTypeCorrect, PTL DEF SystemSpec, Spec

-----------------------------------------------------------------------------
(* Reservations.  The discipline is inductive with the types alone: an     *)
(* edge never starts in a terminal state, so a cheque that moves is        *)
(* reserved before, and stays so unless the edge ends its life.            *)

LEMMA EdgesOpen ==
    ASSUME NEW from, NEW to, <<from, to>> \in Life!Edges, from # "TASLAK"
    PROVE  from \notin Life!Terminal \cup {"TASLAK"} /\ to # "TASLAK"
BY DEF Life!Edges, Life!Terminal

LEMMA ReservationStep == SystemTypeOK /\ ReservationDiscipline /\ TableStep => ReservationDiscipline'
<1> SUFFICES ASSUME SystemTypeOK, ReservationDiscipline, TableStep PROVE ReservationDiscipline'
    OBVIOUS
<1>0. row \in Rows
    BY DEF SystemTypeOK, Rows
<1>1. ASSUME NEW c \in Cheques, Opens(c)
      PROVE  ReservationDiscipline'
    <2>1. row'[c].state = "IMZALI_REZERVE" /\ row'[c].reserved
        BY <1>0, <1>1 DEF Opens, CreateReservedCheque, Rows
    <2>2. \A d \in Cheques : d # c => row'[d] = row[d]
        BY <1>0, <1>1 DEF Opens, CreateReservedCheque, Rows
    <2>3. \A d \in Cheques : SenderOf[d] = SenderOf[c] => ~row[d].reserved
        BY <1>1 DEF Opens, CreateReservedCheque, SenderIsFree
    <2> QED BY <2>1, <2>2, <2>3 DEF ReservationDiscipline, State, Life!Terminal
<1>2. ASSUME NEW c \in Cheques, Moves(c)
      PROVE  ReservationDiscipline'
    <2>1. PICK from, to \in Life!State :
                <<from, to>> \in Life!Edges /\ from # "TASLAK" /\ Takes(c, from, to)
        BY <1>2 DEF Moves
    <2>2. row[c].reserved
        BY <2>1, EdgesOpen DEF Takes, ReservationDiscipline
    <2>3. row'[c].state = to /\ (row'[c].reserved <=> to \notin Life!Terminal)
        BY <1>0, <2>1, <2>2 DEF Takes, Rows
    <2>4. \A d \in Cheques : d # c => row'[d] = row[d]
        BY <1>0, <2>1 DEF Takes, Rows
    <2> QED BY <2>1, <2>2, <2>3, <2>4, EdgesOpen DEF ReservationDiscipline, State
<1>3. ASSUME NEW c \in Cheques, Preauthorizes(c)
      PROVE  ReservationDiscipline'
    <2>1. \A d \in Cheques : row'[d].state = row[d].state /\ row'[d].reserved = row[d].reserved
        BY <1>0, <1>3 DEF Preauthorizes, Rows
    <2> QED BY <2>1 DEF ReservationDiscipline, State
<1>4. CASE UNCHANGED <<row, log>>
    BY <1>4 DEF ReservationDiscipline, State
<1> QED BY <1>1, <1>2, <1>3, <1>4 DEF TableStep

(* D4, D5, A3, for every instance: however confirms, repairs and sweeps    *)
(* race, a reservation is held exactly while its cheque is open, and no    *)
(* sender ever holds two.                                                  *)
THEOREM ReservationsFollowState == SystemSpec => []ReservationDiscipline
<1>1. SystemInit => ReservationDiscipline
    BY DEF SystemInit, ReservationDiscipline, State, NoRow
<1>2. SystemTypeOK /\ ReservationDiscipline /\ [SystemNext]_vars => ReservationDiscipline'
    BY StepTable, ReservationStep
<1> QED BY <1>1, <1>2, SystemTypeCorrect, PTL DEF SystemSpec

-----------------------------------------------------------------------------
(* The life of a row.  A cheque without a row has no log, so the first     *)
(* edge is new as well.                                                    *)

Fresh == \A c \in Cheques : State(c) = "TASLAK" => log[c] = {}

LEMMA FreshStep == SystemTypeOK /\ Fresh /\ TableStep => Fresh'
<1> SUFFICES ASSUME SystemTypeOK, Fresh, TableStep PROVE Fresh'
    OBVIOUS
<1>0. row \in Rows /\ log \in Logs
    BY DEF SystemTypeOK, Rows, Logs
<1>1. ASSUME NEW c \in Cheques, Opens(c)
      PROVE  Fresh'
    BY <1>0, <1>1 DEF Opens, CreateReservedCheque, Fresh, State, Rows, Logs
<1>2. ASSUME NEW c \in Cheques, Moves(c)
      PROVE  Fresh'
    BY <1>0, <1>2, EdgesOpen DEF Moves, Takes, Fresh, State, Rows, Logs
<1>3. ASSUME NEW c \in Cheques, Preauthorizes(c)
      PROVE  Fresh'
    BY <1>0, <1>3 DEF Preauthorizes, Fresh, State, Rows
<1>4. CASE UNCHANGED <<row, log>>
    BY <1>4 DEF Fresh, State
<1> QED BY <1>1, <1>2, <1>3, <1>4 DEF TableStep

LEMMA TableStepIsALifeStep ==
    ASSUME SystemTypeOK, Fresh, TableStep
    PROVE  Life!LifeNext \/ UNCHANGED <<[c \in Cheques |-> row[c].state], log>>
<1> DEFINE state == [c \in Cheques |-> row[c].state]
<1>0. row \in Rows /\ log \in Logs
    BY DEF SystemTypeOK, Rows, Logs
<1>1. ASSUME NEW c \in Cheques, Opens(c)
      PROVE  Life!LifeNext
    <2>1. state[c] = "TASLAK" /\ log[c] = {}
        BY <1>1 DEF Opens, State, Fresh
    <2>2. state' = [state EXCEPT ![c] = "IMZALI_REZERVE"]
        BY <1>0, <1>1 DEF Opens, CreateReservedCheque, Rows
    <2>3. log' = [log EXCEPT ![c] = @ \cup {<<"TASLAK", "IMZALI_REZERVE">>}]
        BY <1>0, <1>1, <2>1 DEF Opens, CreateReservedCheque, Logs
    <2>4. "IMZALI_REZERVE" \in Life!State /\ <<"TASLAK", "IMZALI_REZERVE">> \in Life!Edges
        BY DEF Life!State, Life!Edges
    <2> QED BY <2>1, <2>2, <2>3, <2>4 DEF Life!LifeNext, Life!Take
<1>2. ASSUME NEW c \in Cheques, Moves(c)
      PROVE  Life!LifeNext
    <2>1. PICK from, to \in Life!State : <<from, to>> \in Life!Edges /\ Takes(c, from, to)
        BY <1>2 DEF Moves
    <2>2. state[c] = from /\ state' = [state EXCEPT ![c] = to]
        BY <1>0, <2>1 DEF Takes, State, Rows
    <2> QED BY <2>1, <2>2 DEF Takes, Life!LifeNext, Life!Take
<1>3. ASSUME NEW c \in Cheques, Preauthorizes(c)
      PROVE  UNCHANGED <<state, log>>
    BY <1>0, <1>3 DEF Preauthorizes, Rows
<1>4. CASE UNCHANGED <<row, log>>
    BY <1>4
<1> QED BY <1>1, <1>2, <1>3, <1>4 DEF TableStep

(* D3, D4, for every instance: cheque-service implements ChequeLifecycle.  *)
(* No row takes an edge that is not documented, none twice, and none after *)
(* a terminal state.                                                       *)
THEOREM RowsFollowLifecycle == SystemSpec => FollowsLifecycle
<1> DEFINE state == [c \in Cheques |-> row[c].state]
<1>1. SystemInit => Life!LifeInit /\ Fresh
    BY DEF SystemInit, Life!LifeInit, Fresh, State, NoRow
<1>2. SystemTypeOK /\ Fresh /\ [SystemNext]_vars => Fresh'
    BY StepTable, FreshStep
<1>3. SystemTypeOK /\ Fresh /\ [SystemNext]_vars => [Life!LifeNext]_<<state, log>>
    BY StepTable, TableStepIsALifeStep
<1> QED BY <1>1, <1>2, <1>3, SystemTypeCorrect, PTL DEF SystemSpec, FollowsLifecycle, Life!LifeSpec

-----------------------------------------------------------------------------
(* What callers and rows say about the chain.  Both are claims of the form *)
(* "the record is in one of these states", and every such set is either    *)
(* all states or made of resolved ones, which no call changes.             *)

Anything == {"None"} \cup ChequeState
Resolved == {"Claimed", "Refunded", "Collected", "Bounced"}

(* What a caller in phase p of job j has seen happen on the chain.         *)
Seen(j, p) ==
    CASE j = "claim" /\ p \in {"success", "confirmed", "sawClaimed", "acking"} -> {"Claimed"}
      [] j = "refund" /\ p \in {"success", "marking"} -> {"Refunded"}
      [] j = "collect" /\ p = "success" -> {"Collected", "Bounced"}
      [] OTHER -> Anything

KnowledgeIsTrue ==
    \A j \in Jobs : \A c \in Cheques : record[c].state \in Seen(j, phase[j][c])

LEMMA ClaimsAreStable ==
    /\ \A j, p : Seen(j, p) = Anything \/ Seen(j, p) \subseteq Resolved
    /\ \A s : Witness(s) = Anything \/ Witness(s) \subseteq Resolved
BY DEF Seen, Witness, Anything, Resolved

LEMMA RecordStates ==
    ASSUME TypeOK, NEW c \in Cheques
    PROVE  record[c].state \in Anything /\ (record[c].state \in Resolved => Has(c) /\ ~Is(c, "Funded"))
BY DEF TypeOK, ChequeRecord, None, Anything, Resolved, ChequeState, Has, Is

LEMMA ResolvedStays ==
    ASSUME TypeOK, [Next]_chainVars, NEW c \in Cheques, record[c].state \in Resolved
    PROVE  record'[c].state = record[c].state
<1>1. Has(c) /\ ~Is(c, "Funded")
    BY RecordStates
<1>2. RecordStep
    BY NextRecord
<1> QED BY <1>1, <1>2 DEF RecordStep, Creates, Resolves, TypeOK

LEMMA ClaimsStay ==
    ASSUME TypeOK, [Next]_chainVars, NEW c \in Cheques, NEW S,
           S = Anything \/ S \subseteq Resolved, record[c].state \in S
    PROVE  record'[c].state \in S
<1>1. TypeOK'
    BY NextType
<1>2. record'[c].state \in Anything
    BY <1>1 DEF TypeOK, ChequeRecord, None, Anything, ChequeState
<1>3. CASE S = Anything
    BY <1>2, <1>3
<1>4. CASE S \subseteq Resolved
    BY <1>4, ResolvedStays
<1> QED BY <1>3, <1>4

(* A call that was applied shows in the record.                            *)
LEMMA SuccessIsSeen ==
    ASSUME SystemTypeOK, NEW j \in Jobs, NEW c \in Cheques, Apply(j, c)
    PROVE  record'[c].state \in Seen(j, "success")
<1>0. TypeOK /\ TypeOK'
    BY ApplyIsACall, NextType DEF SystemTypeOK, Next
<1>1. CASE j = "lock"
    <2>1. record'[c].state \in Anything
        BY <1>0 DEF TypeOK, ChequeRecord, None, Anything, ChequeState
    <2> QED BY <1>1, <2>1 DEF Seen
<1>2. CASE j = "claim"
    <2>1. claim(c)
        BY <1>2 DEF Apply
    <2>2. record[c] \in ChequeRecord
        BY <1>0, <2>1, StoredRecord DEF claim, CanClaim
    <2>3. record'[c].state = "Claimed"
        BY <1>0, <2>1, <2>2 DEF claim, TypeOK, ChequeRecord
    <2> QED BY <1>2, <2>3 DEF Seen
<1>3. CASE j = "refund"
    <2>1. refund(c)
        BY <1>3 DEF Apply
    <2>2. record[c] \in ChequeRecord
        BY <1>0, <2>1, StoredRecord DEF refund, CanRefund
    <2>3. record'[c].state = "Refunded"
        BY <1>0, <2>1, <2>2 DEF refund, TypeOK, ChequeRecord
    <2> QED BY <1>3, <2>3 DEF Seen
<1>4. CASE j = "collect"
    <2>1. force_collect(SenderOf[c], c, ReceiverOf[c], Token, Amount, row[c].expires_at)
        BY <1>4 DEF Apply
    <2>2. record'[c].state \in {"Collected", "Bounced"}
        BY <1>0, <2>1 DEF force_collect, TypeOK
    <2> QED BY <1>4, <2>2 DEF Seen
<1> QED BY <1>1, <1>2, <1>3, <1>4 DEF Jobs

LEMMA KnowledgeStays ==
    ASSUME SystemTypeOK, KnowledgeIsTrue, [Next]_chainVars,
           NEW j \in Jobs, NEW c \in Cheques
    PROVE  record'[c].state \in Seen(j, phase[j][c])
<1>1. record[c].state \in Seen(j, phase[j][c])
    BY DEF KnowledgeIsTrue
<1>2. Seen(j, phase[j][c]) = Anything \/ Seen(j, phase[j][c]) \subseteq Resolved
    BY ClaimsAreStable
<1> QED BY <1>1, <1>2, ClaimsStay DEF SystemTypeOK

LEMMA GotoKnows ==
    ASSUME SystemTypeOK, KnowledgeIsTrue, [Next]_chainVars,
           NEW j \in Jobs, NEW c \in Cheques, NEW p, Goto(j, c, p),
           record'[c].state \in Seen(j, p)
    PROVE  KnowledgeIsTrue'
<1> SUFFICES ASSUME NEW i \in Jobs, NEW d \in Cheques
             PROVE  record'[d].state \in Seen(i, phase'[i][d])
    BY DEF KnowledgeIsTrue
<1>1. CASE i = j /\ d = c
    <2>1. phase'[i][d] = p
        BY <1>1 DEF Goto, SystemTypeOK
    <2> QED BY <1>1, <2>1
<1>2. CASE ~(i = j /\ d = c)
    <2>1. phase'[i][d] = phase[i][d]
        BY <1>2 DEF Goto, SystemTypeOK
    <2> QED BY <2>1, KnowledgeStays
<1> QED BY <1>1, <1>2

LEMMA KnowledgeStep == SystemTypeOK /\ KnowledgeIsTrue /\ [SystemNext]_vars => KnowledgeIsTrue'
<1> SUFFICES ASSUME SystemTypeOK, KnowledgeIsTrue, [SystemNext]_vars PROVE KnowledgeIsTrue'
    OBVIOUS
<1>c. [Next]_chainVars
    BY ChainStep
<1>j. {"lock", "claim", "collect", "refund"} \subseteq Jobs
    BY DEF Jobs
<1>a. \A c \in Cheques : record'[c].state \in Anything
    BY SystemStepType DEF SystemTypeOK, TypeOK, ChequeRecord, None, Anything, ChequeState
<1>s. UNCHANGED phase => KnowledgeIsTrue'
    BY <1>c, KnowledgeStays DEF KnowledgeIsTrue
(* A phase that claims nothing may always be entered.                      *)
<1>n. ASSUME NEW j \in Jobs, NEW c \in Cheques, NEW p, Goto(j, c, p), Seen(j, p) = Anything
      PROVE  KnowledgeIsTrue'
    BY <1>n, <1>a, <1>c, GotoKnows
(* A phase may be entered from one that claims at least as much.           *)
<1>f. ASSUME NEW j \in Jobs, NEW c \in Cheques, NEW p, Goto(j, c, p),
             Seen(j, phase[j][c]) \subseteq Seen(j, p)
      PROVE  KnowledgeIsTrue'
    BY <1>f, <1>c, KnowledgeStays, GotoKnows
<1>q. \A j \in Jobs : Seen(j, "idle") = Anything /\ Seen(j, "waiting") = Anything
    BY DEF Seen
<1>i. ASSUME NEW j \in Jobs, NEW c \in Cheques, Issue(j, c)
      PROVE  KnowledgeIsTrue'
    BY <1>i, <1>n, <1>q DEF Issue
<1>l. \A p : Seen("lock", p) = Anything
    BY DEF Seen
<1>1. ASSUME NEW c \in Cheques, SenderStep(c)
      PROVE  KnowledgeIsTrue'
    BY <1>1, <1>j, <1>l, <1>n, <1>s, <1>i DEF SenderStep, CreateCheque, StorePreauth, ConfirmLock
<1>2. ASSUME NEW c \in Cheques, ReceiverStep(c)
      PROVE  KnowledgeIsTrue'
    <2>1. CASE ClaimXDR(c)
        BY <2>1, <1>j, <1>i DEF ClaimXDR
    <2>2. CASE ClaimReadsChain(c)
        <3>1. record' = record
            BY <2>2 DEF ClaimReadsChain, chainVars
        <3>2. CASE Goto("claim", c, "sawFunded")
            BY <3>2, <1>j, <1>n DEF Seen
        <3>3. CASE Is(c, "Claimed") /\ Goto("claim", c, "sawClaimed")
            <4>1. record'[c].state \in Seen("claim", "sawClaimed")
                BY <3>1, <3>3 DEF Is, Seen
            <4> QED BY <3>3, <4>1, <1>j, <1>c, GotoKnows
        <3> QED BY <2>2, <3>2, <3>3 DEF ClaimReadsChain
    <2>3. CASE ClaimRepairs(c)
        <3>1. CASE Issue("claim", c) \/ Goto("claim", c, "idle")
            BY <3>1, <1>j, <1>q, <1>i, <1>n
        <3>2. CASE At("claim", c, "sawClaimed") /\ Goto("claim", c, "confirmed")
            BY <3>2, <1>j, <1>f DEF At, Seen
        <3> QED BY <2>3, <3>1, <3>2 DEF ClaimRepairs
    <2>4. CASE ConfirmClaim(c)
        BY <2>4, <1>j, <1>f DEF ConfirmClaim, At, Seen
    <2>5. CASE AcknowledgeReceipt(c)
        <3>1. CASE Goto("claim", c, "idle")
            BY <3>1, <1>j, <1>q, <1>n
        <3>2. CASE At("claim", c, "confirmed") /\ Goto("claim", c, "acking")
            BY <3>2, <1>j, <1>f DEF At, Seen
        <3> QED BY <2>5, <3>1, <3>2 DEF AcknowledgeReceipt
    <2>6. CASE ForceCollectXDR(c)
        <3>1. Seen("collect", "marking") = Anything
            BY DEF Seen
        <3> QED BY <2>6, <3>1, <1>j, <1>i, <1>n DEF ForceCollectXDR
    <2>7. CASE ConfirmForceCollect(c)
        BY <2>7, <1>j, <1>q, <1>n DEF ConfirmForceCollect
    <2> QED BY <1>2, <2>1, <2>2, <2>3, <2>4, <2>5, <2>6, <2>7 DEF ReceiverStep
<1>3. ASSUME NEW c \in Cheques, KeeperStep(c)
      PROVE  KnowledgeIsTrue'
    <2>1. CASE SweepExpiredCheques(c)
        BY <2>1, <1>j, <1>i DEF SweepExpiredCheques
    <2>2. CASE MarkRefunded(c)
        <3>1. CASE Goto("refund", c, "idle")
            BY <3>1, <1>j, <1>q, <1>n
        <3>2. CASE At("refund", c, "success") /\ Goto("refund", c, "marking")
            BY <3>2, <1>j, <1>f DEF At, Seen
        <3> QED BY <2>2, <3>1, <3>2 DEF MarkRefunded
    <2> QED BY <1>3, <2>1, <2>2 DEF KeeperStep
<1>4. ASSUME NEW c \in Cheques, NEW j \in Jobs, JobEnds(j, c)
      PROVE  KnowledgeIsTrue'
    BY <1>4, <1>n, <1>q, <1>l DEF JobEnds, PollTimesOut, Abandon
<1>5. ASSUME NEW e \in flying, Land(e)
      PROVE  KnowledgeIsTrue'
    <2> DEFINE j == e.job
               c == e.cheque
    <2>1. j \in Jobs /\ c \in Cheques
        BY DEF SystemTypeOK, Envelope
    <2>2. CASE Goto(j, c, phase[j][c])
        BY <2>1, <2>2, <1>f
    <2>3. CASE Goto(j, c, "idle")
        BY <2>1, <2>3, <1>q, <1>n
    <2>4. CASE Apply(j, c) /\ Goto(j, c, "success")
        BY <2>1, <2>4, <1>c, SuccessIsSeen, GotoKnows
    <2> QED BY <1>5, <2>2, <2>3, <2>4 DEF Land
<1>6. ASSUME NEW e \in flying, Drop(e)
      PROVE  KnowledgeIsTrue'
    BY <1>6, <1>s DEF Drop
<1>7. CASE PassTime \/ Outside \/ UNCHANGED vars
    BY <1>7, <1>s DEF PassTime, Outside, vars, sysVars
<1> QED BY <1>1, <1>2, <1>3, <1>4, <1>5, <1>6, <1>7 DEF SystemNext

LEMMA KnowledgeHolds == SystemSpec => []KnowledgeIsTrue
<1>1. SystemInit => KnowledgeIsTrue
    BY DEF SystemInit, Init, KnowledgeIsTrue, Seen, None, Anything
<1> QED BY <1>1, KnowledgeStep, SystemTypeCorrect, PTL DEF SystemSpec

-----------------------------------------------------------------------------
(* Settled rows.                                                           *)

LEMMA SettledStays ==
    ASSUME SystemTypeOK, SettledRowsAreTrue, [Next]_chainVars, NEW c \in Cheques
    PROVE  record'[c].state \in Witness(State(c))
<1>1. record[c].state \in Witness(State(c))
    BY DEF SettledRowsAreTrue
<1>2. Witness(State(c)) = Anything \/ Witness(State(c)) \subseteq Resolved
    BY ClaimsAreStable
<1> QED BY <1>1, <1>2, ClaimsStay DEF SystemTypeOK

LEMMA TransitionSettles ==
    ASSUME SystemTypeOK, SettledRowsAreTrue, UNCHANGED chainVars,
           NEW c \in Cheques, NEW from, NEW to, Transition(c, from, to),
           State(c) = from => record[c].state \in Witness(to)
    PROVE  SettledRowsAreTrue'
<1>0. row \in Rows /\ record' = record
    BY DEF SystemTypeOK, Rows, chainVars
<1>1. CASE Takes(c, from, to)
    <2>1. row'[c].state = to /\ \A d \in Cheques : d # c => row'[d] = row[d]
        BY <1>0, <1>1 DEF Takes, Rows
    <2> QED BY <1>0, <1>1, <2>1 DEF Takes, SettledRowsAreTrue, State
<1>2. CASE UNCHANGED <<row, log>>
    BY <1>0, <1>2 DEF SettledRowsAreTrue, State
<1> QED BY <1>0, <1>1, <1>2, TransitionEffect

LEMMA SettledStep ==
    SystemTypeOK /\ KnowledgeIsTrue /\ SettledRowsAreTrue /\ [SystemNext]_vars => SettledRowsAreTrue'
<1> SUFFICES ASSUME SystemTypeOK, KnowledgeIsTrue, SettledRowsAreTrue, [SystemNext]_vars
             PROVE  SettledRowsAreTrue'
    OBVIOUS
<1>c. [Next]_chainVars
    BY ChainStep
<1>r. row \in Rows
    BY DEF SystemTypeOK, Rows
<1>j. {"lock", "claim", "collect", "refund"} \subseteq Jobs
    BY DEF Jobs
<1>a. \A c \in Cheques : record[c].state \in Anything
    BY RecordStates DEF SystemTypeOK
<1>s. UNCHANGED row => SettledRowsAreTrue'
    BY <1>c, SettledStays DEF SettledRowsAreTrue, State
<1>w. /\ Witness("IMZALI_REZERVE") = Anything /\ Witness("HAVUZDA") = Anything
      /\ Witness("ZORLA_TAHSIL_DENENDI") = Anything
      /\ Witness("TALEP_EDILDI") = {"Claimed"} /\ Witness("ONAYLANDI") = {"Claimed"}
      /\ Witness("KAPANDI") = {"Claimed", "Collected"} /\ Witness("KARSILIKSIZ") = {"Bounced"}
      /\ Witness("IADE_EDILEBILIR") = {"Refunded"} /\ Witness("IADE_EDILDI") = {"Refunded"}
    BY DEF Witness, Anything
<1>q. ASSUME NEW c \in Cheques,
             SenderStep(c) \/ ReceiverStep(c) \/ KeeperStep(c)
      PROVE  UNCHANGED chainVars
    BY <1>q, <1>j, QuietSteps
<1>1. ASSUME NEW c \in Cheques, SenderStep(c)
      PROVE  SettledRowsAreTrue'
    <2>0. UNCHANGED chainVars /\ record' = record
        BY <1>1, <1>q DEF chainVars
    <2>1. CASE \E answered \in BOOLEAN : CreateCheque(c, answered)
        <3>1. row'[c].state = "IMZALI_REZERVE" /\ \A d \in Cheques : d # c => row'[d] = row[d]
            BY <2>1, <1>r DEF CreateCheque, CreateReservedCheque, Rows
        <3> QED BY <2>0, <3>1, <1>a, <1>w DEF SettledRowsAreTrue, State
    <2>2. CASE StorePreauth(c)
        <3>1. \A d \in Cheques : row'[d].state = row[d].state
            BY <2>2, <1>r DEF StorePreauth, Rows
        <3> QED BY <2>0, <3>1 DEF SettledRowsAreTrue, State
    <2>3. CASE ConfirmLock(c)
        BY <2>3, <2>0, <1>a, <1>w, TransitionSettles DEF ConfirmLock
    <2> QED BY <1>1, <2>1, <2>2, <2>3 DEF SenderStep
<1>2. ASSUME NEW c \in Cheques, ReceiverStep(c)
      PROVE  SettledRowsAreTrue'
    <2>0. UNCHANGED chainVars
        BY <1>2, <1>q
    <2>k. /\ record[c].state \in Seen("claim", phase["claim"][c])
          /\ record[c].state \in Seen("collect", phase["collect"][c])
        BY <1>j DEF KnowledgeIsTrue
    <2>1. CASE ClaimXDR(c) \/ ClaimReadsChain(c)
        BY <2>1, <1>s DEF ClaimXDR, ClaimReadsChain
    <2>2. CASE ClaimRepairs(c)
        <3>1. CASE Transition(c, "IMZALI_REZERVE", "HAVUZDA")
            BY <3>1, <2>0, <1>a, <1>w, TransitionSettles
        <3>2. CASE At("claim", c, "sawClaimed") /\ Transition(c, "IMZALI_REZERVE", "TALEP_EDILDI")
            <4>1. record[c].state = "Claimed"
                BY <2>k, <3>2 DEF At, Seen
            <4> QED BY <3>2, <4>1, <2>0, <1>w, TransitionSettles
        <3> QED BY <2>2, <3>1, <3>2 DEF ClaimRepairs
    <2>3. CASE ConfirmClaim(c)
        <3>1. record[c].state = "Claimed"
            BY <2>k, <2>3 DEF ConfirmClaim, At, Seen
        <3> QED BY <2>3, <3>1, <2>0, <1>w, TransitionSettles DEF ConfirmClaim
    <2>4. CASE AcknowledgeReceipt(c)
        <3>1. record[c].state = "Claimed"
            BY <2>k, <2>4 DEF AcknowledgeReceipt, At, Seen
        <3> QED BY <2>4, <3>1, <2>0, <1>w, TransitionSettles DEF AcknowledgeReceipt
    <2>5. CASE ForceCollectXDR(c)
        BY <2>5, <2>0, <1>a, <1>w, <1>s, TransitionSettles DEF ForceCollectXDR
    <2>6. CASE ConfirmForceCollect(c)
        <3>1. record[c].state \in {"Collected", "Bounced"}
            BY <2>k, <2>6 DEF ConfirmForceCollect, At, Seen
        <3>2. CASE Is(c, "Collected")
            <4>1. Transition(c, "ZORLA_TAHSIL_DENENDI", "KAPANDI")
                BY <2>6, <3>2 DEF ConfirmForceCollect
            <4> QED BY <4>1, <3>2, <2>0, <1>w, TransitionSettles DEF Is
        <3>3. CASE ~Is(c, "Collected")
            <4>1. Transition(c, "ZORLA_TAHSIL_DENENDI", "KARSILIKSIZ")
                BY <2>6, <3>3 DEF ConfirmForceCollect
            <4> QED BY <4>1, <3>1, <3>3, <2>0, <1>w, TransitionSettles DEF Is
        <3> QED BY <3>2, <3>3
    <2> QED BY <1>2, <2>1, <2>2, <2>3, <2>4, <2>5, <2>6 DEF ReceiverStep
<1>3. ASSUME NEW c \in Cheques, KeeperStep(c)
      PROVE  SettledRowsAreTrue'
    <2>0. UNCHANGED chainVars
        BY <1>3, <1>q
    <2>1. CASE SweepExpiredCheques(c)
        BY <2>1, <1>s DEF SweepExpiredCheques
    <2>2. CASE MarkRefunded(c)
        <3>1. record[c].state \in Seen("refund", phase["refund"][c])
            BY <1>j DEF KnowledgeIsTrue
        <3>2. record[c].state = "Refunded"
            BY <2>2, <3>1 DEF MarkRefunded, At, Seen
        <3> QED BY <2>2, <3>2, <2>0, <1>w, TransitionSettles DEF MarkRefunded
    <2> QED BY <1>3, <2>1, <2>2 DEF KeeperStep
<1>4. ASSUME NEW c \in Cheques, NEW j \in Jobs, JobEnds(j, c)
      PROVE  SettledRowsAreTrue'
    BY <1>4, <1>s DEF JobEnds, PollTimesOut, Abandon
<1>5. ASSUME NEW e \in flying, Land(e) \/ Drop(e)
      PROVE  SettledRowsAreTrue'
    BY <1>5, <1>s DEF Land, Drop
<1>6. CASE PassTime \/ Outside \/ UNCHANGED vars
    BY <1>6, <1>s DEF PassTime, Outside, vars, sysVars
<1> QED BY <1>1, <1>2, <1>3, <1>4, <1>5, <1>6 DEF SystemNext

(* D6, for every instance: through lost answers, PENDING submits, stale    *)
(* chain reads and crashes between two database transactions, a row that   *)
(* says that a cheque was paid, sent back or bounced is right.             *)
THEOREM SettledRowsHold == SystemSpec => []SettledRowsAreTrue
<1>1. SystemInit => SettledRowsAreTrue
    BY DEF SystemInit, Init, SettledRowsAreTrue, State, NoRow, Witness, None
<1> QED BY <1>1, SettledStep, KnowledgeHolds, SystemTypeCorrect, PTL DEF SystemSpec

-----------------------------------------------------------------------------
(* The row comes first: no job, envelope or record of a cheque without one *)
(* exists, and no handler writes HUKUMSUZ, the one terminal state that     *)
(* says nothing of the chain.                                              *)

Rowed ==
    \A c \in Cheques :
        /\ State(c) # "HUKUMSUZ"
        /\ State(c) = "TASLAK" =>
                /\ ~Has(c)
                /\ \A j \in Jobs : phase[j][c] = "idle"
                /\ \A e \in flying : e.cheque # c

LEMMA RowsStay ==
    ASSUME SystemTypeOK, TableStep, NEW c \in Cheques
    PROVE  /\ State(c) # "HUKUMSUZ" => row'[c].state # "HUKUMSUZ"
           /\ State(c) # "TASLAK" => row'[c].state # "TASLAK"
<1>0. row \in Rows
    BY DEF SystemTypeOK, Rows
<1>1. ASSUME NEW d \in Cheques, Opens(d)
      PROVE  row'[c].state \in {State(c), "IMZALI_REZERVE"}
    BY <1>0, <1>1 DEF Opens, CreateReservedCheque, State, Rows
<1>2. ASSUME NEW d \in Cheques, Moves(d)
      PROVE  row'[c].state = State(c) \/ row'[c].state \notin {"TASLAK", "HUKUMSUZ"}
    <2>1. PICK from, to \in Life!State : <<from, to>> \in Life!Edges /\ Takes(d, from, to)
        BY <1>2 DEF Moves
    <2>2. to \notin {"TASLAK", "HUKUMSUZ"}
        BY <2>1 DEF Life!Edges
    <2>3. row'[c].state \in {State(c), to}
        BY <1>0, <2>1 DEF Takes, State, Rows
    <2> QED BY <2>2, <2>3
<1>3. ASSUME NEW d \in Cheques, Preauthorizes(d)
      PROVE  row'[c].state = State(c)
    BY <1>0, <1>3 DEF Preauthorizes, State, Rows
<1>4. CASE UNCHANGED <<row, log>>
    BY <1>4 DEF State
<1> QED BY <1>1, <1>2, <1>3, <1>4 DEF TableStep

(* A step that touches jobs, envelopes and the record of one cheque only.  *)
Concerns(c) ==
    /\ \A d \in Cheques : d # c => record'[d] = record[d]
    /\ \A j \in Jobs : \A d \in Cheques : d # c => phase'[j][d] = phase[j][d]
    /\ \A e \in flying' : e \in flying \/ e.cheque = c

LEMMA RowedBy ==
    ASSUME SystemTypeOK, Rowed, TableStep, NEW c \in Cheques, Concerns(c),
           row'[c].state # "TASLAK"
    PROVE  Rowed'
<1> SUFFICES ASSUME NEW d \in Cheques
             PROVE  /\ row'[d].state # "HUKUMSUZ"
                    /\ row'[d].state = "TASLAK" =>
                            /\ record'[d] = None
                            /\ \A j \in Jobs : phase'[j][d] = "idle"
                            /\ \A e \in flying' : e.cheque # d
    BY DEF Rowed, State, Has
<1>1. row'[d].state # "HUKUMSUZ"
    BY RowsStay DEF Rowed
<1>2. ASSUME row'[d].state = "TASLAK"
      PROVE  d # c /\ State(d) = "TASLAK"
    BY <1>2, RowsStay
<1> QED BY <1>1, <1>2 DEF Concerns, Rowed, Has

LEMMA JobConcerns ==
    ASSUME SystemTypeOK, UNCHANGED chainVars, NEW j \in Jobs, NEW c \in Cheques,
           \/ Issue(j, c)
           \/ \E p : Goto(j, c, p) /\ flying' \subseteq flying
    PROVE  Concerns(c)
<1>1. record' = record
    BY DEF chainVars
<1>2. \E p : Goto(j, c, p)
    BY DEF Issue
<1>3. \A i \in Jobs : \A d \in Cheques : d # c => phase'[i][d] = phase[i][d]
    BY <1>2 DEF Goto, SystemTypeOK
<1>4. \A e \in flying' : e \in flying \/ e.cheque = c
    BY DEF Issue
<1> QED BY <1>1, <1>3, <1>4 DEF Concerns

LEMMA ApplyConcerns ==
    ASSUME SystemTypeOK, NEW j \in Jobs, NEW c \in Cheques, Apply(j, c)
    PROVE  \A d \in Cheques : d # c => record'[d] = record[d]
<1>0. record \in [Cheques -> ChequeRecord \cup {None}]
    BY DEF SystemTypeOK, TypeOK
<1> QED BY <1>0 DEF Apply, lock, claim, refund, force_collect

LEMMA RowedStep == SystemTypeOK /\ Rowed /\ [SystemNext]_vars => Rowed'
<1> SUFFICES ASSUME SystemTypeOK, Rowed, [SystemNext]_vars PROVE Rowed'
    OBVIOUS
<1>t. TableStep
    BY StepTable
<1>j. {"lock", "claim", "collect", "refund"} \subseteq Jobs
    BY DEF Jobs
(* Who acts on a cheque that has a row leaves it with one.                 *)
<1>r. ASSUME NEW c \in Cheques, State(c) # "TASLAK", Concerns(c)
      PROVE  Rowed'
    BY <1>r, <1>t, RowsStay, RowedBy
<1>b. ASSUME NEW c \in Cheques, NEW j \in Jobs, ~At(j, c, "idle")
      PROVE  State(c) # "TASLAK"
    BY <1>b DEF Rowed, At
<1>q. ASSUME NEW c \in Cheques, NEW j \in Jobs,
             SenderStep(c) \/ ReceiverStep(c) \/ KeeperStep(c) \/ JobEnds(j, c)
      PROVE  UNCHANGED chainVars
    BY <1>q, QuietSteps
<1>s. ASSUME UNCHANGED <<record, phase>>, flying' \subseteq flying
      PROVE  Rowed'
    <2> SUFFICES ASSUME NEW c \in Cheques
                 PROVE  /\ row'[c].state # "HUKUMSUZ"
                        /\ row'[c].state = "TASLAK" =>
                                /\ record'[c] = None
                                /\ \A j \in Jobs : phase'[j][c] = "idle"
                                /\ \A e \in flying' : e.cheque # c
        BY DEF Rowed, State, Has
    <2> QED BY <1>s, <1>t, RowsStay DEF Rowed, Has
<1>1. ASSUME NEW c \in Cheques, SenderStep(c)
      PROVE  Rowed'
    <2>0. UNCHANGED chainVars /\ record' = record
        BY <1>1, <1>j, <1>q DEF chainVars
    <2>1. CASE \E answered \in BOOLEAN : CreateCheque(c, answered)
        <3>1. row'[c].state # "TASLAK"
            BY <2>1 DEF CreateCheque, CreateReservedCheque, SystemTypeOK
        <3>2. Issue("lock", c) \/ UNCHANGED <<phase, flying>>
            BY <2>1 DEF CreateCheque
        <3>3. Concerns(c)
            BY <2>0, <3>2, <1>j, JobConcerns DEF Concerns
        <3> QED BY <1>t, <3>1, <3>3, RowedBy
    <2>2. CASE StorePreauth(c)
        BY <2>0, <2>2, <1>s DEF StorePreauth
    <2>3. CASE ConfirmLock(c)
        <3>1. ~At("lock", c, "idle")
            BY <2>3 DEF ConfirmLock, At
        <3>2. Concerns(c)
            BY <2>0, <2>3, <1>j, JobConcerns DEF ConfirmLock
        <3> QED BY <3>1, <3>2, <1>j, <1>b, <1>r
    <2> QED BY <1>1, <2>1, <2>2, <2>3 DEF SenderStep
<1>2. ASSUME NEW c \in Cheques, ReceiverStep(c)
      PROVE  Rowed'
    <2>0. UNCHANGED chainVars
        BY <1>2, <1>j, <1>q
    <2>1. State(c) # "TASLAK"
        <3>1. CASE ClaimXDR(c) \/ ClaimReadsChain(c)
            BY <3>1 DEF ClaimXDR, ClaimReadsChain, Unfunded
        <3>2. CASE ClaimRepairs(c) \/ ConfirmClaim(c) \/ AcknowledgeReceipt(c)
            <4>1. ~At("claim", c, "idle")
                BY <3>2 DEF ClaimRepairs, ConfirmClaim, AcknowledgeReceipt, At
            <4> QED BY <4>1, <1>j, <1>b
        <3>3. CASE ForceCollectXDR(c) \/ ConfirmForceCollect(c)
            <4>1. State(c) \in Unfunded \/ ~At("collect", c, "idle")
                BY <3>3 DEF ForceCollectXDR, ConfirmForceCollect, At
            <4> QED BY <4>1, <1>j, <1>b DEF Unfunded
        <3> QED BY <1>2, <3>1, <3>2, <3>3 DEF ReceiverStep
    <2>2. \E j \in Jobs : \/ Issue(j, c)
                          \/ \E p : Goto(j, c, p) /\ flying' \subseteq flying
        <3>1. CASE ClaimXDR(c) \/ ClaimReadsChain(c) \/ ClaimRepairs(c)
            BY <3>1, <1>j DEF ClaimXDR, ClaimReadsChain, ClaimRepairs
        <3>2. CASE ConfirmClaim(c) \/ AcknowledgeReceipt(c)
            BY <3>2, <1>j DEF ConfirmClaim, AcknowledgeReceipt
        <3>3. CASE ForceCollectXDR(c) \/ ConfirmForceCollect(c)
            BY <3>3, <1>j DEF ForceCollectXDR, ConfirmForceCollect
        <3> QED BY <1>2, <3>1, <3>2, <3>3 DEF ReceiverStep
    <2> QED BY <2>0, <2>1, <2>2, JobConcerns, <1>r
<1>3. ASSUME NEW c \in Cheques, KeeperStep(c)
      PROVE  Rowed'
    <2>0. UNCHANGED chainVars
        BY <1>3, <1>j, <1>q
    <2>1. CASE SweepExpiredCheques(c)
        BY <2>0, <2>1, <1>j, <1>r, JobConcerns DEF SweepExpiredCheques
    <2>2. CASE MarkRefunded(c)
        <3>1. ~At("refund", c, "idle")
            BY <2>2 DEF MarkRefunded, At
        <3>2. Concerns(c)
            BY <2>0, <2>2, <1>j, JobConcerns DEF MarkRefunded
        <3> QED BY <3>1, <3>2, <1>j, <1>b, <1>r
    <2> QED BY <1>3, <2>1, <2>2 DEF KeeperStep
<1>4. ASSUME NEW c \in Cheques, NEW j \in Jobs, JobEnds(j, c)
      PROVE  Rowed'
    <2>1. ~At(j, c, "idle")
        BY <1>4 DEF JobEnds, PollTimesOut, Abandon, At
    <2>2. (\E p : Goto(j, c, p)) /\ flying' = flying
        BY <1>4 DEF JobEnds, PollTimesOut, Abandon
    <2>3. Concerns(c)
        BY <1>4, <1>q, <2>2, JobConcerns
    <2> QED BY <2>1, <2>3, <1>b, <1>r
<1>5. ASSUME NEW e \in flying, Land(e)
      PROVE  Rowed'
    <2> DEFINE j == e.job
               c == e.cheque
    <2>1. j \in Jobs /\ c \in Cheques
        BY DEF SystemTypeOK, Envelope
    <2>2. State(c) # "TASLAK"
        BY <2>1 DEF Rowed
    <2>3. \A d \in Cheques : d # c => record'[d] = record[d]
        BY <1>5, <2>1, ApplyConcerns DEF Land, chainVars
    <2>4. (\E p : Goto(j, c, p)) /\ flying' \subseteq flying
        BY <1>5 DEF Land
    <2>5. \A i \in Jobs : \A d \in Cheques : d # c => phase'[i][d] = phase[i][d]
        BY <2>1, <2>4 DEF Goto, SystemTypeOK
    <2> QED BY <2>1, <2>2, <2>3, <2>4, <2>5, <1>r DEF Concerns
<1>6. ASSUME NEW e \in flying, Drop(e)
      PROVE  Rowed'
    BY <1>6, <1>s DEF Drop, chainVars
<1>7. CASE PassTime \/ Outside \/ UNCHANGED vars
    <2>1. UNCHANGED <<record, phase>> /\ flying' \subseteq flying
        BY <1>7 DEF PassTime, Tick, Outside, Spend, ToggleTrustline, deposit, withdraw,
                    vars, sysVars, chainVars
    <2> QED BY <2>1, <1>s
<1> QED BY <1>1, <1>2, <1>3, <1>4, <1>5, <1>6, <1>7 DEF SystemNext

LEMMA RowedHolds == SystemSpec => []Rowed
<1>1. SystemInit => Rowed
    BY DEF SystemInit, Init, Rowed, State, NoRow, Has
<1> QED BY <1>1, RowedStep, SystemTypeCorrect, PTL DEF SystemSpec

-----------------------------------------------------------------------------
(* What the rows exclude, the chain excludes.                              *)

LEMMA FundedIsReserved ==
    ASSUME SystemTypeOK, Rowed, ReservationDiscipline, SettledRowsAreTrue,
           NEW c \in Cheques, Is(c, "Funded")
    PROVE  row[c].reserved
<1>1. State(c) \notin {"TASLAK", "HUKUMSUZ"}
    <2>1. Has(c)
        BY DEF Is, Has, None
    <2> QED BY <2>1 DEF Rowed
<1>2. State(c) \notin {"KAPANDI", "IADE_EDILDI", "KARSILIKSIZ"}
    BY DEF SettledRowsAreTrue, Witness, Is
<1> QED BY <1>1, <1>2 DEF ReservationDiscipline, Life!Terminal

(* D5 on the chain, for every instance: an envelope that lands late finds  *)
(* its sender's reservation still held, so no second one was handed out.   *)
THEOREM OneFundedEach == SystemSpec => []OneFundedPerSender
<1>1. SystemTypeOK /\ Rowed /\ ReservationDiscipline /\ SettledRowsAreTrue => OneFundedPerSender
    BY FundedIsReserved DEF OneFundedPerSender, ReservationDiscipline
<1> QED BY <1>1, SystemTypeCorrect, RowedHolds, ReservationsFollowState, SettledRowsHold, PTL

(* The unique index on (receiver, request).                                *)
OneRowPerRequest ==
    \A c, d \in Cheques :
        c # d /\ ReceiverOf[c] = ReceiverOf[d] /\ RequestOf[c] = RequestOf[d]
            => State(c) = "TASLAK" \/ State(d) = "TASLAK"

LEMMA RequestStep == SystemTypeOK /\ OneRowPerRequest /\ TableStep => OneRowPerRequest'
<1> SUFFICES ASSUME SystemTypeOK, OneRowPerRequest, TableStep PROVE OneRowPerRequest'
    OBVIOUS
<1>0. row \in Rows
    BY DEF SystemTypeOK, Rows
<1>1. ASSUME NEW c \in Cheques, Opens(c)
      PROVE  OneRowPerRequest'
    <2>1. \A d \in Cheques : d # c => row'[d] = row[d]
        BY <1>0, <1>1 DEF Opens, CreateReservedCheque, Rows
    <2>2. \A d \in Cheques : ReceiverOf[d] = ReceiverOf[c] /\ RequestOf[d] = RequestOf[c]
                                => State(d) = "TASLAK"
        BY <1>1 DEF Opens, CreateReservedCheque, RequestIsFree
    <2> QED BY <2>1, <2>2 DEF OneRowPerRequest, State
<1>2. ASSUME NEW c \in Cheques, Moves(c)
      PROVE  OneRowPerRequest'
    <2>1. State(c) # "TASLAK" /\ \A d \in Cheques : d # c => row'[d] = row[d]
        BY <1>0, <1>2 DEF Moves, Takes, Rows
    <2> QED BY <2>1 DEF OneRowPerRequest, State
<1>3. ASSUME NEW c \in Cheques, Preauthorizes(c)
      PROVE  OneRowPerRequest'
    <2>1. \A d \in Cheques : row'[d].state = row[d].state
        BY <1>0, <1>3 DEF Preauthorizes, Rows
    <2> QED BY <2>1 DEF OneRowPerRequest, State
<1>4. CASE UNCHANGED <<row, log>>
    BY <1>4 DEF OneRowPerRequest, State
<1> QED BY <1>1, <1>2, <1>3, <1>4 DEF TableStep

(* For every instance: whatever is retried, lost or late, at most one      *)
(* cheque of a payment request ever holds or moves money.                  *)
THEOREM RequestsPaidOnce == SystemSpec => []RequestPaidOnce
<1>1. SystemInit => OneRowPerRequest
    BY DEF SystemInit, OneRowPerRequest, State, NoRow
<1>2. SystemTypeOK /\ OneRowPerRequest /\ [SystemNext]_vars => OneRowPerRequest'
    BY StepTable, RequestStep
<1>3. Rowed /\ OneRowPerRequest => RequestPaidOnce
    BY DEF Rowed, OneRowPerRequest, RequestPaidOnce
<1> QED BY <1>1, <1>2, <1>3, SystemTypeCorrect, RowedHolds, PTL DEF SystemSpec
=============================================================================
