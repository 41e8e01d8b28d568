-------------------------- MODULE PoolCacheProofs --------------------------
(***************************************************************************)
(* Theorems about the cached pool for any number of owners and phones, any *)
(* number of lost and repeated reports, and any interleaving of their Sync *)
(* calls.                                                                  *)
(*                                                                         *)
(* Every step is, for the chain, a step of PayEscrow (PoolChainStep), so   *)
(* the contract's theorems hold here too.  The shape of the tables is      *)
(* inductive by itself.  An exact answer needs what a call remembers       *)
(* between its reads and its write (Remembers): while nobody else touches  *)
(* the pool, the row it read is the row, and the chain it read the chain.  *)
(***************************************************************************)
EXTENDS PoolCache, PayEscrowProofs

Rows == [Accounts -> [amount : Nat, present : BOOLEAN]]
Trips == [Pages -> [pc : {"idle", "waiting", "applied"}, op : Ops,
                    n : Amounts \cup {0}, reports : 0 .. MaxReports]]
Calls == [Devices -> [pc : {"idle", "reading", "writing"}, local : Nat, chain : Nat]]
Views == [Pages -> [amount : Nat, verified : BOOLEAN, loaded : BOOLEAN]]

LEMMA PoolTypeParts ==
    PoolTypeOK <=> /\ TypeOK /\ row \in Rows /\ trip \in Trips /\ flying \subseteq Envelope
                   /\ sync \in Calls /\ view \in Views /\ calm \in [Devices -> BOOLEAN]
BY DEF PoolTypeOK, Rows, Trips, Calls, Views

LEMMA Owners ==
    /\ \A d \in Devices : OwnerOf[d] \in Accounts
    /\ \A d \in Pages : d \in Devices /\ OwnerOf[d] \in Accounts
    /\ Token \in Tokens /\ Amounts \subseteq Nat
BY PoolCacheAssumption, EscrowAssumption

(* GREATEST(n, 0).                                                         *)
LEMMA Clamped ==
    ASSUME NEW n \in Int
    PROVE  Max({n, 0}) \in Nat
<1>1. \E x \in {n, 0} : \A y \in {n, 0} : x >= y
    <2>1. CASE n >= 0
        BY <2>1
    <2>2. CASE n < 0
        BY <2>2
    <2> QED BY <2>1, <2>2
<1>2. Max({n, 0}) \in {n, 0} /\ \A y \in {n, 0} : Max({n, 0}) >= y
    BY <1>1 DEF Max
<1> QED BY <1>2

-----------------------------------------------------------------------------
(* The chain.                                                              *)

LEMMA LandIsACall ==
    ASSUME PoolTypeOK, NEW e \in flying, Land(e)
    PROVE  ContractCall \/ UNCHANGED chainVars
<1>1. e \in Envelope
    BY DEF PoolTypeOK
<1>2. OwnerOf[e.device] \in Accounts /\ e.n \in Amounts /\ Token \in Tokens
    BY <1>1, Owners DEF Envelope
<1>3. CASE UNCHANGED chainVars
    BY <1>3
<1>4. CASE Call(e)
    BY <1>2, <1>4 DEF Call, ContractCall
<1> QED BY <1>3, <1>4 DEF Land

LEMMA PageIsQuiet ==
    ASSUME NEW d \in Pages, Page(d)
    PROVE  UNCHANGED chainVars
BY DEF Page, PoolDepositXDR, PoolWithdrawXDR, Build, GiveUp,
       ConfirmPoolDeposit, ConfirmPoolWithdraw, Report, EndTrip

LEMMA SyncIsQuiet ==
    ASSUME NEW d \in Devices, Sync(d)
    PROVE  UNCHANGED <<chainVars, trip, flying>>
BY DEF Sync, GetPool, SyncFails, CannotCheck, reconcilePoolWithChain, SetPoolAmount

LEMMA PoolChainStep == PoolTypeOK /\ [PoolNext]_vars => [Next]_chainVars
<1> SUFFICES ASSUME PoolTypeOK, [PoolNext]_vars PROVE [Next]_chainVars
    OBVIOUS
<1>1. CASE UNCHANGED vars
    BY <1>1 DEF vars
<1>2. ASSUME NEW d \in Pages, Page(d)
      PROVE  UNCHANGED chainVars
    BY <1>2, PageIsQuiet
<1>3. ASSUME NEW d \in Devices, Sync(d)
      PROVE  UNCHANGED chainVars
    BY <1>3, SyncIsQuiet
<1>4. ASSUME NEW e \in flying, Land(e)
      PROVE  ContractCall \/ UNCHANGED chainVars
    BY <1>4, LandIsACall
<1>5. ASSUME NEW a \in Accounts, NEW h \in Holders, NEW n \in Amounts, Outside(a, h, n)
      PROVE  World
    BY <1>5, Owners DEF Outside, World
<1> QED BY <1>1, <1>2, <1>3, <1>4, <1>5 DEF PoolNext, Next

-----------------------------------------------------------------------------
(* The shape of the tables.                                                *)

LEMMA PageTypes ==
    ASSUME PoolTypeOK, NEW d \in Pages, Page(d)
    PROVE  row' \in Rows /\ trip' \in Trips /\ flying' \subseteq Envelope /\ UNCHANGED <<sync, view>>
<1>0. row \in Rows /\ trip \in Trips /\ flying \subseteq Envelope
    BY PoolTypeParts
<1>a. OwnerOf[d] \in Accounts /\ Amounts \subseteq Nat /\ MaxReports \in Nat
    BY Owners, PoolCacheAssumption
<1>1. ASSUME NEW n \in Amounts, NEW op \in Ops, Build(d, op, n)
      PROVE  row' \in Rows /\ trip' \in Trips /\ flying' \subseteq Envelope /\ UNCHANGED <<sync, view>>
    <2>1. trip' \in Trips
        BY <1>0, <1>a, <1>1 DEF Build, Trips
    <2>2. flying' \subseteq Envelope
        <3>1. [device |-> d, op |-> op, n |-> n, watched |-> TRUE] \in Envelope
            BY Zenon DEF Envelope
        <3> QED BY <1>0, <1>1, <3>1 DEF Build
    <2> QED BY <1>0, <1>1, <2>1, <2>2 DEF Build
<1>b. Idle \in [pc : {"idle", "waiting", "applied"}, op : Ops,
                n : Amounts \cup {0}, reports : 0 .. MaxReports]
    BY <1>a DEF Idle, Ops
<1>2. CASE GiveUp(d)
    <2>1. trip' \in Trips
        BY <1>0, <1>b, <1>2 DEF GiveUp, Trips
    <2>2. flying' \subseteq Envelope
        <3>1. \A e \in flying : e \in Envelope /\ [e EXCEPT !.watched = FALSE] \in Envelope
            BY <1>0 DEF Envelope
        <3> QED BY <1>2, <3>1 DEF GiveUp
    <2> QED BY <1>0, <1>2, <2>1, <2>2 DEF GiveUp
<1>3. CASE EndTrip(d)
    <2>1. trip' \in Trips
        BY <1>0, <1>b, <1>3 DEF EndTrip, Trips
    <2> QED BY <1>0, <1>3, <2>1 DEF EndTrip
<1>4. ASSUME NEW op \in Ops, Report(d, op)
      PROVE  trip' \in Trips /\ flying' \subseteq Envelope /\ UNCHANGED <<sync, view>>
    <2>1. trip' \in Trips
        <3>1. trip[d].reports + 1 \in 0 .. MaxReports
            BY <1>0, <1>a, <1>4 DEF Report, Trips
        <3> QED BY <1>0, <1>4, <3>1 DEF Report, Trips
    <2> QED BY <1>0, <1>4, <2>1 DEF Report
<1>c. trip[d].n \in Nat
    <2>1. trip[d].n \in Amounts \cup {0}
        BY <1>0 DEF Trips
    <2>2. \A x \in Amounts \cup {0} : x \in Nat
        BY <1>a
    <2> QED BY <2>1, <2>2, Zenon
<1>5. CASE ConfirmPoolDeposit(d)
    <2>1. row' \in Rows
        BY <1>0, <1>a, <1>c, <1>5 DEF ConfirmPoolDeposit, RecordDeposit, Row, Rows
    <2> QED BY <1>4, <1>5, <2>1 DEF ConfirmPoolDeposit, Ops
<1>6. CASE ConfirmPoolWithdraw(d)
    <2>1. Max({row[OwnerOf[d]].amount - trip[d].n, 0}) \in Nat
        BY <1>0, <1>a, <1>c, Clamped DEF Rows
    <2>2. row' \in Rows
        <3> DEFINE old == row[OwnerOf[d]]
                   new == IF old.present THEN Row(Max({old.amount - trip[d].n, 0})) ELSE old
        <3>1. new \in [amount : Nat, present : BOOLEAN]
            BY <1>0, <1>a, <2>1, Zenon DEF Row, Rows
        <3>2. row' = [row EXCEPT ![OwnerOf[d]] = new]
            BY <1>6 DEF ConfirmPoolWithdraw, RecordWithdraw
        <3> HIDE DEF new
        <3> QED BY <1>0, <3>1, <3>2 DEF Rows
    <2> QED BY <1>4, <1>6, <2>2 DEF ConfirmPoolWithdraw, Ops
<1> QED BY <1>1, <1>2, <1>3, <1>5, <1>6 DEF Page, PoolDepositXDR, PoolWithdrawXDR, Ops

LEMMA AnswerTypes ==
    ASSUME sync \in Calls, view \in Views, NEW d \in Devices, NEW n \in Nat,
           NEW verified \in BOOLEAN, Answer(d, n, verified)
    PROVE  sync' \in Calls /\ view' \in Views
<1>1. sync' \in Calls
    BY DEF Answer, Calls, NoCall
<1>2. [amount |-> n, verified |-> verified, loaded |-> TRUE]
            \in [amount : Nat, verified : BOOLEAN, loaded : BOOLEAN]
    BY Zenon
<1>3. view' \in Views
    BY <1>2 DEF Answer, Views
<1> QED BY <1>1, <1>3

LEMMA ChainAmount ==
    ASSUME TypeOK, NEW o \in Accounts
    PROVE  chainPoolRecord(o) \in Nat
BY DEF chainPoolRecord, TypeOK, PoolRecord, NoPool

LEMMA SyncTypes ==
    ASSUME PoolTypeOK, NEW d \in Devices, Sync(d)
    PROVE  row' \in Rows /\ sync' \in Calls /\ view' \in Views
<1>0. row \in Rows /\ sync \in Calls /\ view \in Views /\ OwnerOf[d] \in Accounts
    BY PoolTypeParts, Owners
<1>a. sync[d].local \in Nat /\ sync[d].chain \in Nat /\ row[OwnerOf[d]].amount \in Nat
    BY <1>0 DEF Calls, Rows
<1>1. CASE GetPool(d)
    BY <1>0, <1>1, <1>a DEF GetPool, Calls
<1>2. CASE SyncFails(d)
    BY <1>0, <1>2 DEF SyncFails, Calls, NoCall
<1>3. CASE CannotCheck(d)
    BY <1>0, <1>3, <1>a, AnswerTypes DEF CannotCheck
<1>4. CASE reconcilePoolWithChain(d)
    <2>1. chainPoolRecord(OwnerOf[d]) \in Nat
        BY <1>0, ChainAmount DEF PoolTypeOK
    <2>2. CASE Answer(d, sync[d].local, TRUE)
        BY <1>0, <1>4, <1>a, <2>2, AnswerTypes DEF reconcilePoolWithChain
    <2>3. CASE /\ sync' = [sync EXCEPT ![d].pc = "writing", ![d].chain = chainPoolRecord(OwnerOf[d])]
               /\ UNCHANGED view
        BY <1>0, <1>4, <2>1, <2>3 DEF reconcilePoolWithChain, Calls
    <2> QED BY <1>4, <2>2, <2>3 DEF reconcilePoolWithChain
<1>5. CASE SetPoolAmount(d)
    <2>1. row' \in Rows
        <3>1. Row(sync[d].chain) \in [amount : Nat, present : BOOLEAN]
            BY <1>a, Zenon DEF Row
        <3> QED BY <1>0, <1>5, <3>1 DEF SetPoolAmount, Rows
    <2> QED BY <1>0, <1>5, <1>a, <2>1, AnswerTypes DEF SetPoolAmount
<1> QED BY <1>1, <1>2, <1>3, <1>4, <1>5 DEF Sync

LEMMA LandTypes ==
    ASSUME PoolTypeOK, NEW e \in flying, Land(e)
    PROVE  trip' \in Trips /\ flying' \subseteq Envelope /\ UNCHANGED <<row, sync, view>>
<1>0. trip \in Trips /\ e \in Envelope /\ flying \subseteq Envelope /\ MaxReports \in Nat
    BY PoolTypeParts, PoolCacheAssumption
<1>1. Idle \in [pc : {"idle", "waiting", "applied"}, op : Ops,
                n : Amounts \cup {0}, reports : 0 .. MaxReports]
    BY <1>0 DEF Idle, Ops
<1>2. e.device \in Pages
    BY <1>0 DEF Envelope
<1>3. trip' \in Trips
    BY <1>0, <1>1, <1>2 DEF Land, Trips
<1> QED BY <1>0, <1>3 DEF Land

LEMMA WatchType ==
    ASSUME Watch
    PROVE  calm' \in [Devices -> BOOLEAN]
BY Zenon DEF Watch

LEMMA PoolStepType == PoolTypeOK /\ [PoolNext]_vars => PoolTypeOK'
<1> SUFFICES ASSUME PoolTypeOK, [PoolNext]_vars PROVE PoolTypeOK'
    OBVIOUS
<1>0. /\ TypeOK /\ row \in Rows /\ trip \in Trips /\ flying \subseteq Envelope
      /\ sync \in Calls /\ view \in Views /\ calm \in [Devices -> BOOLEAN]
    BY PoolTypeParts
<1>1. TypeOK'
    BY <1>0, PoolChainStep, NextType
<1>2. calm' \in [Devices -> BOOLEAN]
    BY <1>0, WatchType DEF PoolNext, vars, poolVars
<1>3. row' \in Rows /\ trip' \in Trips /\ flying' \subseteq Envelope /\ sync' \in Calls /\ view' \in Views
    <2>1. ASSUME NEW d \in Pages, Page(d)
          PROVE  row' \in Rows /\ trip' \in Trips /\ flying' \subseteq Envelope
                 /\ sync' \in Calls /\ view' \in Views
        BY <1>0, <2>1, PageTypes
    <2>2. ASSUME NEW d \in Devices, Sync(d)
          PROVE  row' \in Rows /\ trip' \in Trips /\ flying' \subseteq Envelope
                 /\ sync' \in Calls /\ view' \in Views
        BY <1>0, <2>2, SyncTypes, SyncIsQuiet
    <2>3. ASSUME NEW e \in flying, Land(e)
          PROVE  row' \in Rows /\ trip' \in Trips /\ flying' \subseteq Envelope
                 /\ sync' \in Calls /\ view' \in Views
        BY <1>0, <2>3, LandTypes
    <2>4. ASSUME NEW a \in Accounts, NEW h \in Holders, NEW n \in Amounts, Outside(a, h, n)
          PROVE  row' \in Rows /\ trip' \in Trips /\ flying' \subseteq Envelope
                 /\ sync' \in Calls /\ view' \in Views
        BY <1>0, <2>4 DEF Outside
    <2>5. CASE UNCHANGED vars
        BY <1>0, <2>5 DEF vars, poolVars
    <2> QED BY <2>1, <2>2, <2>3, <2>4, <2>5 DEF PoolNext
<1> QED BY <1>1, <1>2, <1>3, PoolTypeParts DEF PoolTypeOK, Rows, Trips, Calls, Views

LEMMA PoolInitType == PoolInit => PoolTypeOK
<1> SUFFICES ASSUME PoolInit PROVE PoolTypeOK
    OBVIOUS
<1>1. TypeOK
    BY InitType DEF PoolInit
<1>2. row \in Rows
    <2>1. NoRow \in [amount : Nat, present : BOOLEAN]
        BY Zenon DEF NoRow
    <2> QED BY <2>1 DEF PoolInit, Rows
<1>3. trip \in Trips /\ sync \in Calls
    BY PoolCacheAssumption DEF PoolInit, Trips, Calls, Idle, NoCall, Ops
<1>4. view \in Views
    BY DEF PoolInit, Views, NoView
<1>5. calm \in [Devices -> BOOLEAN]
    BY Zenon DEF PoolInit
<1> QED BY <1>1, <1>2, <1>3, <1>4, <1>5, PoolTypeParts DEF PoolInit

(* The cached amount never goes below zero for any number of phones and    *)
(* any pile of late, repeated and lost reports, and the rows, trips, calls *)
(* and envelopes keep their shapes.                                        *)
THEOREM PoolTypeCorrect == PoolSpec => []PoolTypeOK
BY PoolInitType, PoolStepType, PTL DEF PoolSpec

(* Whatever the devices and Sync do, the contract sees a legal sequence of *)
(* its own calls, so its theorems hold of the pools here as well.          *)
THEOREM PoolsRunContract == PoolSpec => Spec
<1>1. PoolInit => Init
    BY DEF PoolInit
<1> QED BY <1>1, PoolChainStep, PoolTypeCorrect, PTL DEF PoolSpec, Spec

(* All pools of all phones can be paid out at once, whichever transactions *)
(* landed late, twice built or unreported.                                 *)
THEOREM PoolsAreCovered == PoolSpec => []Solvent
BY PoolsRunContract, EscrowCovers, PTL

-----------------------------------------------------------------------------
(* Sync.                                                                   *)

(* The inductive invariant: a call that nobody disturbed still knows the   *)
(* row, and once it has read the chain it knows the chain.  Without the    *)
(* first conjunct an answer that found the two equal could be an answer    *)
(* about a row that is no more; without the second the write could store   *)
(* an old amount.                                                          *)
Remembers ==
    \A d \in Devices : calm[d] =>
        /\ sync[d].pc # "idle" => sync[d].local = row[OwnerOf[d]].amount
        /\ sync[d].pc = "writing" => sync[d].chain = pool[OwnerOf[d]].amount

(* What a step does to the calls: nothing, or one step of one of them.     *)
LEMMA OneSyncAtATime ==
    ASSUME PoolTypeOK, [PoolNext]_vars
    PROVE  UNCHANGED <<sync, view>> \/ \E d \in Devices : Sync(d)
<1>1. ASSUME NEW d \in Pages, Page(d)
      PROVE  UNCHANGED <<sync, view>>
    BY <1>1, PageTypes
<1> QED BY <1>1 DEF PoolNext, Land, Outside, vars, poolVars

LEMMA CalmStep ==
    ASSUME PoolTypeOK, [PoolNext]_vars, NEW d \in Devices, calm'[d], sync'[d].pc # "idle"
    PROVE  calm[d] /\ row'[OwnerOf[d]] = row[OwnerOf[d]] /\ pool'[OwnerOf[d]] = pool[OwnerOf[d]]
BY DEF PoolNext, Watch, vars, poolVars, chainVars

LEMMA SyncStepOf ==
    ASSUME PoolTypeOK, NEW d \in Devices, Sync(d)
    PROVE  /\ \A x \in Devices : x # d => sync'[x] = sync[x]
           /\ \A x \in Pages : x # d => view'[x] = view[x]
           /\ \/ sync'[d].pc = "idle"
              \/ sync'[d].pc = "reading" /\ sync'[d].local = row[OwnerOf[d]].amount
              \/ /\ sync[d].pc = "reading" /\ sync'[d].pc = "writing"
                 /\ sync'[d].local = sync[d].local
                 /\ sync'[d].chain = pool[OwnerOf[d]].amount
<1>0. sync \in Calls /\ view \in Views
    BY PoolTypeParts
<1>1. CASE GetPool(d)
    BY <1>0, <1>1 DEF GetPool, Calls, Views
<1>2. CASE SyncFails(d)
    BY <1>0, <1>2 DEF SyncFails, Calls, Views, NoCall
<1>3. ASSUME NEW n, NEW verified, Answer(d, n, verified)
      PROVE  /\ \A x \in Devices : x # d => sync'[x] = sync[x]
             /\ \A x \in Pages : x # d => view'[x] = view[x]
             /\ sync'[d].pc = "idle"
    BY <1>0, <1>3 DEF Answer, Calls, Views, NoCall
<1>4. CASE CannotCheck(d) \/ SetPoolAmount(d)
    BY <1>3, <1>4 DEF CannotCheck, SetPoolAmount
<1>5. CASE reconcilePoolWithChain(d)
    <2>1. CASE Answer(d, sync[d].local, TRUE)
        BY <1>3, <2>1
    <2>2. CASE /\ sync' = [sync EXCEPT ![d].pc = "writing", ![d].chain = chainPoolRecord(OwnerOf[d])]
               /\ UNCHANGED view
        BY <1>0, <1>5, <2>2 DEF reconcilePoolWithChain, chainPoolRecord, Calls, Views
    <2> QED BY <1>5, <2>1, <2>2 DEF reconcilePoolWithChain
<1> QED BY <1>1, <1>2, <1>4, <1>5 DEF Sync

LEMMA RemembersStep == PoolTypeOK /\ Remembers /\ [PoolNext]_vars => Remembers'
<1> SUFFICES ASSUME PoolTypeOK, Remembers, [PoolNext]_vars,
                    NEW d \in Devices, calm'[d], sync'[d].pc # "idle"
             PROVE  /\ sync'[d].local = row'[OwnerOf[d]].amount
                    /\ sync'[d].pc = "writing" => sync'[d].chain = pool'[OwnerOf[d]].amount
    BY DEF Remembers
<1>1. calm[d] /\ row'[OwnerOf[d]] = row[OwnerOf[d]] /\ pool'[OwnerOf[d]] = pool[OwnerOf[d]]
    BY CalmStep
<1>2. CASE sync'[d] = sync[d]
    BY <1>1, <1>2 DEF Remembers
<1>3. CASE Sync(d)
    BY <1>1, <1>3, SyncStepOf DEF Remembers
<1> QED BY <1>2, <1>3, OneSyncAtATime, SyncStepOf

LEMMA RemembersHolds == PoolSpec => []Remembers
<1>1. PoolInit => Remembers
    BY DEF PoolInit, Remembers, NoCall
<1> QED BY <1>1, RemembersStep, PoolTypeCorrect, PTL DEF PoolSpec

(* reconcilePoolWithChain and SetPoolAmount, for any number of phones: an  *)
(* answer marked chainVerified that nothing else disturbed is the chain's  *)
(* amount, and leaves the row saying the same, although the call reads the *)
(* row, reads the chain and writes in three separate steps.                *)
THEOREM QuietSyncExact == PoolSpec => QuietSyncIsExact
<1> DEFINE Exact(d) == /\ view'[d].amount = pool'[OwnerOf[d]].amount
                       /\ row'[OwnerOf[d]].amount = pool'[OwnerOf[d]].amount
<1>1. ASSUME PoolTypeOK, Remembers, [PoolNext]_vars,
             NEW d \in Pages, calm[d], Answers(d), view'[d].verified
      PROVE  Exact(d)
    <2>0. d \in Devices /\ OwnerOf[d] \in Accounts /\ row \in Rows /\ view \in Views
        BY <1>1, Owners, PoolTypeParts
    <2>1. Sync(d)
        BY <1>1, <2>0, OneSyncAtATime, SyncStepOf DEF Answers
    <2>2. UNCHANGED pool
        BY <2>0, <2>1, SyncIsQuiet DEF chainVars
    <2>3. sync[d].local = row[OwnerOf[d]].amount
        BY <1>1, <2>0 DEF Remembers, Answers
    <2>4. ASSUME NEW n, NEW verified, Answer(d, n, verified)
          PROVE  view'[d].amount = n /\ view'[d].verified = verified
        BY <2>0, <2>4 DEF Answer, Views
    <2>5. CASE GetPool(d) \/ SyncFails(d)
        BY <1>1, <2>5 DEF GetPool, SyncFails, Answers
    <2>6. CASE CannotCheck(d)
        BY <1>1, <2>4, <2>6 DEF CannotCheck
    <2>7. CASE reconcilePoolWithChain(d)
        <3>1. /\ sync[d].local = pool[OwnerOf[d]].amount
              /\ Answer(d, sync[d].local, TRUE) /\ UNCHANGED row
            BY <1>1, <2>7 DEF reconcilePoolWithChain, chainPoolRecord, Answers
        <3> QED BY <2>2, <2>3, <2>4, <3>1
    <2>8. CASE SetPoolAmount(d)
        <3>1. CASE Answer(d, sync[d].local, FALSE)
            BY <1>1, <2>4, <3>1
        <3>2. CASE /\ row' = [row EXCEPT ![OwnerOf[d]] = Row(sync[d].chain)]
                   /\ Answer(d, sync[d].chain, TRUE)
            <4>1. sync[d].chain = pool[OwnerOf[d]].amount
                BY <1>1, <2>0, <2>8 DEF SetPoolAmount, Remembers
            <4>2. row'[OwnerOf[d]].amount = sync[d].chain
                BY <2>0, <3>2 DEF Rows, Row
            <4> QED BY <2>2, <2>4, <3>2, <4>1, <4>2
        <3> QED BY <2>8, <3>1, <3>2 DEF SetPoolAmount
    <2> QED BY <2>1, <2>5, <2>6, <2>7, <2>8 DEF Sync
<1>2. PoolTypeOK /\ Remembers /\ [PoolNext]_vars =>
        [\A d \in Pages : calm[d] /\ Answers(d) /\ view'[d].verified => Exact(d)]_vars
    BY <1>1
<1> QED BY <1>2, PoolTypeCorrect, RemembersHolds, PTL DEF PoolSpec, QuietSyncIsExact
=============================================================================
