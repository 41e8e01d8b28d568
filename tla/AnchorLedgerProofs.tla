------------------------- MODULE AnchorLedgerProofs -------------------------
(***************************************************************************)
(* Proofs about AnchorLedger for any number of clients, accounts and       *)
(* transfers.                                                              *)
(*                                                                         *)
(* OwnRows compares a row with the anchor's entry, but the row is written  *)
(* a step after the entry, from what the call remembers: so the invariant  *)
(* also says what a call of the wallet w knows at each point (Fits), that  *)
(* the anchor never gives an entry to somebody else (Kept), and that a     *)
(* wallet is only replaced between calls.                                  *)
(***************************************************************************)
EXTENDS AnchorLedger, MoneyProofs, FiniteSetTheorems, TLAPS

USE LedgerAssumption

Entries == [user : Accounts, account : Accounts, kind : Kinds, way : Ways,
            state : States \cup {"forgotten"}]
Rows == [owner : Accounts, kind : Kinds, state : States]

BookOK ==
    /\ book \in [Ids -> Entries \cup {NoEntry}]
    /\ \A i, j \in Ids : j < i /\ book[i] # NoEntry => book[j] # NoEntry

RowsOK ==
    /\ row \in [Ids -> Rows \cup {NoRow}]
    /\ \A i \in Ids : row[i] # NoRow =>
            book[i] # NoEntry /\ Agrees(book[i], row[i].owner, row[i].kind)

(* What a request k of the wallet w knows about the book B.                *)
Fits(w, k, B) ==
    /\ k \in Requests
    /\ k.pc = "ask" => \/ k.account = w
                       \/ k.account = Nobody /\ k.way = "sep6" /\ k.kind = "withdraw"
    /\ k.pc \in {"record", "pay"} => k.id \in Ids /\ B[k.id] # NoEntry
    /\ k.pc = "record" => Agrees(B[k.id], w, k.kind)
    /\ k.pc \in {"look", "report"} => k.todo # {} /\ \A v \in k.todo : B[v.id] # NoEntry
    /\ k.pc = "report" => k.said \in States

CallsOK ==
    /\ call \in [Clients -> Requests]
    /\ \A c \in Clients : Fits(wallet[c], call[c], book)

(* A start is only under way with some account's anchor token.             *)
IdentityOK ==
    /\ wallet \in [Clients -> Accounts]
    /\ token \in [Clients -> Accounts \cup {Nobody}]
    /\ \A c \in Clients : call[c].pc = "ask" => token[c] \in Accounts

ActiveOK ==
    /\ active \in [Clients -> Ids \cup {0}]
    /\ \A c \in Clients : active[c] # 0 => book[active[c]] # NoEntry

PayingOK == \A p \in paying : p.id \in Ids /\ SameValue(p.asked, p.sent)

IInv == BookOK /\ RowsOK /\ CallsOK /\ IdentityOK /\ ActiveOK /\ PayingOK /\ faults \in 0 .. MaxFaults

(* What the anchor does with its book: entries stay, and only their state  *)
(* changes.                                                                *)
SameTransfer(d, e) == d.user = e.user /\ d.account = e.account /\ d.kind = e.kind /\ d.way = e.way

Kept(B, C) ==
    \A i \in Ids : B[i] # NoEntry => C[i] # NoEntry /\ SameTransfer(B[i], C[i])

-----------------------------------------------------------------------------
(* The encodings.                                                          *)

LEMMA EmptyFacts ==
    /\ NoEntry.state = "none" /\ NoRow.state = "none" /\ NoRow.owner = Nobody
    /\ NoEntry \notin Entries /\ NoRow \notin Rows
    /\ "none" \notin States
  BY DEF NoEntry, NoRow, Entries, Rows, States, Open, Terminal

LEMMA IdleFits ==
    /\ Idle \in Requests /\ Idle.pc = "idle"
    /\ \A w, B : Fits(w, Idle, B)
<1>1. Idle \in Requests /\ Idle.pc = "idle"
  BY DEF Idle, Requests, Ways, Kinds
<1> QED
  BY <1>1 DEF Fits

LEMMA AgreesKept ==
    ASSUME NEW d, NEW e, NEW a, NEW kind, Agrees(d, a, kind), SameTransfer(d, e)
    PROVE  Agrees(e, a, kind)
  BY DEF Agrees, SameTransfer

LEMMA FitsKept ==
    ASSUME NEW w, NEW k, NEW B, NEW C, Fits(w, k, B), Kept(B, C)
    PROVE  Fits(w, k, C)
<1>1. k.todo \subseteq [id : Ids, listed : States \cup {"polled"}]
  BY DEF Fits, Requests
<1>2. \A v \in k.todo : v.id \in Ids
  BY <1>1
<1>3. k.pc \in {"record", "pay"} => k.id \in Ids /\ C[k.id] # NoEntry
  BY DEF Fits, Kept
<1>4. k.pc = "record" => Agrees(C[k.id], w, k.kind)
  BY AgreesKept DEF Fits, Kept
<1>5. k.pc \in {"look", "report"} => k.todo # {} /\ \A v \in k.todo : C[v.id] # NoEntry
  BY <1>2 DEF Fits, Kept
<1> QED
  BY <1>3, <1>4, <1>5 DEF Fits

-----------------------------------------------------------------------------
(* What a step leaves alone stays right.                                   *)

LEMMA BookSame ==
    ASSUME IInv, book' = book
    PROVE  BookOK' /\ Kept(book, book')
  BY DEF IInv, BookOK, Kept, SameTransfer

LEMMA RowsSame ==
    ASSUME IInv, row' = row, Kept(book, book')
    PROVE  RowsOK'
<1>1. row' \in [Ids -> Rows \cup {NoRow}]
  BY DEF IInv, RowsOK
<1>2. ASSUME NEW i \in Ids, row'[i] # NoRow
      PROVE  book'[i] # NoEntry /\ Agrees(book'[i], row'[i].owner, row'[i].kind)
  <2>1. book[i] # NoEntry /\ Agrees(book[i], row'[i].owner, row'[i].kind)
    BY <1>2 DEF IInv, RowsOK
  <2>2. book'[i] # NoEntry /\ SameTransfer(book[i], book'[i])
    BY <2>1 DEF Kept
  <2> QED
    BY <2>1, <2>2, AgreesKept
<1> QED
  BY <1>1, <1>2 DEF RowsOK

LEMMA CallsSame ==
    ASSUME IInv, UNCHANGED <<call, wallet>>, Kept(book, book')
    PROVE  CallsOK'
<1>1. ASSUME NEW c \in Clients
      PROVE  Fits(wallet'[c], call'[c], book')
  BY FitsKept DEF IInv, CallsOK
<1> QED
  BY <1>1 DEF IInv, CallsOK

LEMMA OneCallMoves ==
    ASSUME IInv, NEW c \in Clients, NEW k, call' = [call EXCEPT ![c] = k],
           Fits(wallet[c], k, book'), Kept(book, book'), wallet' = wallet
    PROVE  CallsOK' /\ call'[c] = k /\ \A d \in Clients \ {c} : call'[d] = call[d]
<1>1. k \in Requests
  BY DEF Fits
<1>2. call' \in [Clients -> Requests] /\ call'[c] = k /\ \A d \in Clients \ {c} : call'[d] = call[d]
  BY <1>1 DEF IInv, CallsOK
<1>3. ASSUME NEW d \in Clients
      PROVE  Fits(wallet'[d], call'[d], book')
  <2>1. CASE d = c
    BY <1>2, <2>1
  <2>2. CASE d # c
    <3>1. call'[d] = call[d] /\ Fits(wallet[d], call[d], book)
      BY <1>2, <2>2 DEF IInv, CallsOK
    <3> QED
      BY <3>1, FitsKept
  <2> QED
    BY <2>1, <2>2
<1> QED
  BY <1>2, <1>3 DEF CallsOK

LEMMA IdentitySame ==
    ASSUME IInv, UNCHANGED <<call, wallet, token>>
    PROVE  IdentityOK'
  BY DEF IInv, IdentityOK

(* A request moves on with the token at hand or with another one; only one *)
(* that is to be answered by the anchor needs any.                         *)
LEMMA IdentityMoves ==
    ASSUME IInv, NEW c \in Clients, NEW k, call' = [call EXCEPT ![c] = k], wallet' = wallet,
           \/ token' = token /\ k.pc # "ask"
           \/ \E a \in Accounts : token' = [token EXCEPT ![c] = a]
    PROVE  IdentityOK'
<1>1. call'[c] = k /\ \A d \in Clients \ {c} : call'[d] = call[d]
  BY DEF IInv, CallsOK
<1>2. token \in [Clients -> Accounts \cup {Nobody}] /\ wallet' \in [Clients -> Accounts]
  BY DEF IInv, IdentityOK
<1>3. CASE token' = token /\ k.pc # "ask"
  BY <1>1, <1>2, <1>3 DEF IInv, IdentityOK
<1>4. ASSUME NEW a \in Accounts, token' = [token EXCEPT ![c] = a]
      PROVE  IdentityOK'
  <2>1. /\ token' \in [Clients -> Accounts \cup {Nobody}] /\ token'[c] = a
        /\ \A d \in Clients \ {c} : token'[d] = token[d]
    BY <1>2, <1>4
  <2> QED
    BY <1>1, <1>2, <2>1 DEF IInv, IdentityOK
<1> QED
  BY <1>3, <1>4

LEMMA ActiveSame ==
    ASSUME IInv, Kept(book, book'),
           active' = active \/ \E c \in Clients : active' = [active EXCEPT ![c] = 0]
    PROVE  ActiveOK'
<1>1. active' \in [Clients -> Ids \cup {0}]
  BY DEF IInv, ActiveOK
<1>2. ASSUME NEW d \in Clients, active'[d] # 0
      PROVE  book'[active'[d]] # NoEntry
  <2>1. active'[d] = active[d] /\ active[d] \in Ids
    BY <1>2 DEF IInv, ActiveOK
  <2> QED
    BY <1>2, <2>1 DEF IInv, ActiveOK, Kept
<1> QED
  BY <1>1, <1>2 DEF ActiveOK

LEMMA ActiveMoves ==
    ASSUME IInv, book' = book, NEW c \in Clients, NEW i \in Ids, book[i] # NoEntry,
           active' = [active EXCEPT ![c] = i]
    PROVE  ActiveOK'
<1>1. active' \in [Clients -> Ids \cup {0}]
  BY DEF IInv, ActiveOK
<1>2. ASSUME NEW d \in Clients, active'[d] # 0
      PROVE  book'[active'[d]] # NoEntry
  <2>1. CASE d = c
    BY <2>1 DEF IInv, ActiveOK
  <2>2. CASE d # c
    BY <1>2, <2>2 DEF IInv, ActiveOK
  <2> QED
    BY <2>1, <2>2
<1> QED
  BY <1>1, <1>2 DEF ActiveOK

LEMMA PayingShrinks ==
    ASSUME IInv, paying' \subseteq paying
    PROVE  PayingOK'
  BY DEF IInv, PayingOK

LEMMA FaultType ==
    ASSUME IInv, Fault \/ faults' = faults
    PROVE  faults' \in 0 .. MaxFaults
  BY DEF IInv, Fault

(* The usual step: one request moves on, everything else is left alone.    *)
LEMMA Moves ==
    ASSUME IInv, NEW c \in Clients, NEW k, call' = [call EXCEPT ![c] = k], Fits(wallet[c], k, book),
           UNCHANGED <<book, row, paying, wallet>>, Fault \/ faults' = faults,
           active' = active \/ active' = [active EXCEPT ![c] = 0],
           \/ token' = token /\ k.pc # "ask"
           \/ \E a \in Accounts : token' = [token EXCEPT ![c] = a]
    PROVE  IInv'
<1>1. BookOK' /\ Kept(book, book')
  BY BookSame
<1>2. RowsOK'
  BY <1>1, RowsSame
<1>3. CallsOK' /\ IdentityOK'
  BY <1>1, OneCallMoves, IdentityMoves
<1>4. ActiveOK'
  BY <1>1, ActiveSame
<1>5. PayingOK' /\ faults' \in 0 .. MaxFaults
  BY PayingShrinks, FaultType
<1> QED
  BY <1>1, <1>2, <1>3, <1>4, <1>5 DEF IInv

LEMMA CallFacts ==
    ASSUME IInv, NEW c \in Clients
    PROVE  /\ call[c] \in Requests /\ Fits(wallet[c], call[c], book) /\ wallet[c] \in Accounts
           /\ call[c].pc = "ask" => token[c] \in Accounts
           /\ Tokens(c) \subseteq Accounts
<1>1. /\ call[c] \in Requests /\ Fits(wallet[c], call[c], book) /\ wallet[c] \in Accounts
      /\ call[c].pc = "ask" => token[c] \in Accounts
      /\ token[c] \in Accounts \cup {Nobody}
  BY DEF IInv, CallsOK, IdentityOK
<1> QED
  BY <1>1 DEF Tokens

-----------------------------------------------------------------------------
(* Starting a transfer.                                                    *)

LEMMA StartStep ==
    ASSUME IInv, NEW c \in Clients, Start(c)
    PROVE  IInv'
<1>1. ASSUME NEW kind \in Kinds, startInteractive(c, kind)
      PROVE  IInv'
  <2> DEFINE k == [Idle EXCEPT !.pc = "ask", !.way = "sep24", !.kind = kind, !.account = wallet[c]]
             a == IF token[c] = Nobody THEN wallet[c] ELSE token[c]
  <2>1. k \in Requests /\ k.pc = "ask" /\ k.account = wallet[c]
    BY IdleFits, CallFacts DEF Requests, Ways
  <2>2. Fits(wallet[c], k, book)
    BY <2>1 DEF Fits
  <2>3. a \in Accounts /\ token' = [token EXCEPT ![c] = a]
    BY <1>1, CallFacts DEF startInteractive, IInv, IdentityOK
  <2>4. call' = [call EXCEPT ![c] = k] /\ UNCHANGED <<book, row, paying, active, wallet, faults>>
    BY <1>1 DEF startInteractive
  <2> HIDE DEF k, a
  <2> QED
    BY <2>2, <2>3, <2>4, Moves
<1>2. ASSUME NEW kind \in Kinds, NEW requested \in Accounts \cup {Nobody}, StartSep6(c, kind, requested)
      PROVE  IInv'
  <2>1. PICK a \in sepProxy(c, kind, requested) :
            call' = [call EXCEPT ![c] = [Idle EXCEPT !.pc = "ask", !.kind = kind, !.account = a]]
    BY <1>2 DEF StartSep6
  <2>2. a = wallet[c] \/ (a = Nobody /\ kind = "withdraw")
    BY <2>1 DEF sepProxy, Kinds
  <2> DEFINE k == [Idle EXCEPT !.pc = "ask", !.kind = kind, !.account = a]
  <2>3. k \in Requests /\ k.pc = "ask" /\ k.account = a /\ k.way = "sep6" /\ k.kind = kind
    BY <2>2, IdleFits, CallFacts DEF Requests, Idle
  <2>4. Fits(wallet[c], k, book)
    BY <2>2, <2>3 DEF Fits
  <2>5. \E t \in Accounts : token' = [token EXCEPT ![c] = t]
    BY <1>2, CallFacts DEF StartSep6, withToken
  <2>6. UNCHANGED <<book, row, paying, active, wallet, faults>>
    BY <1>2 DEF StartSep6
  <2> HIDE DEF k
  <2> QED
    BY <2>1, <2>4, <2>5, <2>6, Moves DEF k
<1> QED
  BY <1>1, <1>2 DEF Start

LEMMA AcceptStep ==
    ASSUME IInv, NEW c \in Clients, NEW i \in Ids, AnchorAccepts(c, i)
    PROVE  IInv'
<1> DEFINE k == call[c]
           e == [user |-> token[c], account |-> IF k.account = Nobody THEN token[c] ELSE k.account,
                 kind |-> k.kind, way |-> k.way, state |-> FirstState(k.way)]
           n == [k EXCEPT !.pc = "record", !.id = i, !.account = Nobody]
<1>1. /\ k \in Requests /\ k.pc = "ask" /\ wallet[c] \in Accounts /\ token[c] \in Accounts
      /\ k.account = wallet[c] \/ (k.account = Nobody /\ k.way = "sep6" /\ k.kind = "withdraw")
  BY CallFacts DEF AnchorAccepts, At, Fits
<1>2. e \in Entries /\ Agrees(e, wallet[c], k.kind)
  <2>1. e \in Entries
    BY <1>1 DEF Entries, FirstState, States, Open, Requests
  <2>2. Agrees(e, wallet[c], k.kind)
    BY <1>1 DEF Agrees
  <2> QED
    BY <2>1, <2>2
<1>3. call' = [call EXCEPT ![c] = n]
  BY DEF AnchorAccepts
<1>4. n \in Requests /\ n.pc = "record" /\ n.id = i /\ n.kind = k.kind
  BY <1>1 DEF Requests
<1>5. book \in [Ids -> Entries \cup {NoEntry}]
  BY DEF IInv, BookOK
<1>6. BookOK' /\ Kept(book, book') /\ book'[i] # NoEntry /\ Agrees(book'[i], wallet[c], k.kind)
  <2>1. CASE book[i] = NoEntry /\ (\A j \in Ids : j < i => book[j] # NoEntry) /\ book' = [book EXCEPT ![i] = e]
    <3> HIDE DEF e
    <3>1. book' \in [Ids -> Entries \cup {NoEntry}] /\ book'[i] = e /\ \A j \in Ids \ {i} : book'[j] = book[j]
      BY <1>2, <1>5, <2>1
    <3>2. e # NoEntry
      BY <1>2, EmptyFacts
    <3>3. Kept(book, book')
      BY <2>1, <3>1 DEF Kept, SameTransfer
    <3>4. ASSUME NEW a \in Ids, NEW b \in Ids, b < a, book'[a] # NoEntry
          PROVE  book'[b] # NoEntry
      <4>1. CASE a = i
        <5>1. b # i
          BY <3>4, <4>1
        <5> QED
          BY <2>1, <3>1, <3>4, <4>1, <5>1
      <4>2. CASE a # i
        BY <3>1, <3>2, <3>4, <4>2 DEF IInv, BookOK
      <4> QED
        BY <4>1, <4>2
    <3> QED
      BY <1>2, <3>1, <3>2, <3>3, <3>4 DEF BookOK
  <2>2. CASE book[i] = [e EXCEPT !.state = book[i].state] /\ book[i].state \in Open /\ book' = book
    <3>1. SameTransfer(e, book[i])
      BY <2>2 DEF SameTransfer
    <3>2. book[i] # NoEntry
      BY <2>2, EmptyFacts DEF States
    <3> HIDE DEF e
    <3> QED
      BY <1>2, <2>2, <3>1, <3>2, BookSame, AgreesKept
  <2> QED
    BY <2>1, <2>2 DEF AnchorAccepts
<1>7. Fits(wallet[c], n, book')
  BY <1>4, <1>6 DEF Fits
<1>8. UNCHANGED <<row, paying, active, wallet, token, faults>>
  BY DEF AnchorAccepts, identity
<1>9. CallsOK' /\ IdentityOK'
  <2> HIDE DEF n
  <2> QED
    BY <1>3, <1>4, <1>6, <1>7, <1>8, OneCallMoves, IdentityMoves
<1> QED
  BY <1>6, <1>8, <1>9, RowsSame, ActiveSame, PayingShrinks, FaultType DEF IInv

-----------------------------------------------------------------------------
(* Recording it.                                                           *)

(* What the page does when it is told.                                     *)
LEMMA ToldFacts ==
    ASSUME IInv, NEW c \in Clients, At(c, "record"), Told(c), UNCHANGED <<book, wallet, token>>
    PROVE  CallsOK' /\ IdentityOK' /\ ActiveOK'
<1>1. call[c] \in Requests /\ call[c].id \in Ids /\ book[call[c].id] # NoEntry
  BY CallFacts DEF At, Fits
<1>2. BookOK' /\ Kept(book, book')
  BY BookSame
<1>3. CASE call' = [call EXCEPT ![c].pc = "pay"] /\ UNCHANGED active
  <2> DEFINE n == [call[c] EXCEPT !.pc = "pay"]
  <2>1. call' = [call EXCEPT ![c] = n] /\ active' = active
    BY <1>3 DEF IInv, CallsOK
  <2>2. n \in Requests /\ n.pc = "pay" /\ n.id = call[c].id
    BY <1>1 DEF Requests
  <2>3. Fits(wallet[c], n, book')
    BY <1>1, <2>2 DEF Fits
  <2> HIDE DEF n
  <2> QED
    BY <1>2, <2>1, <2>2, <2>3, OneCallMoves, IdentityMoves, ActiveSame
<1>4. CASE call' = [call EXCEPT ![c] = Idle] /\ (active' = active \/ active' = [active EXCEPT ![c] = call[c].id])
  <2>1. CallsOK' /\ IdentityOK'
    BY <1>2, <1>4, IdleFits, OneCallMoves, IdentityMoves
  <2>2. ActiveOK'
    BY <1>1, <1>2, <1>4, ActiveSame, ActiveMoves
  <2> QED
    BY <2>1, <2>2
<1> QED
  BY <1>3, <1>4 DEF Told

(* A row that is new, or only changes its state.                           *)
LEMMA RowMoves ==
    ASSUME IInv, book' = book, NEW i \in Ids, NEW r,
           row' = [row EXCEPT ![i] = r],
           \/ r = row[i]
           \/ r \in Rows /\ book[i] # NoEntry /\ Agrees(book[i], r.owner, r.kind)
    PROVE  RowsOK'
<1>1. row' \in [Ids -> Rows \cup {NoRow}] /\ row'[i] = r /\ \A j \in Ids \ {i} : row'[j] = row[j]
  BY DEF IInv, RowsOK
<1>2. ASSUME NEW j \in Ids, row'[j] # NoRow
      PROVE  book'[j] # NoEntry /\ Agrees(book'[j], row'[j].owner, row'[j].kind)
  <2>1. CASE j = i
    BY <1>1, <1>2, <2>1 DEF IInv, RowsOK
  <2>2. CASE j # i
    BY <1>1, <1>2, <2>2 DEF IInv, RowsOK
  <2> QED
    BY <2>1, <2>2
<1> QED
  BY <1>1, <1>2 DEF RowsOK

LEMMA RowFacts ==
    ASSUME IInv, NEW i \in Ids, row[i] # NoRow
    PROVE  /\ row[i] \in Rows /\ book[i] # NoEntry /\ Agrees(book[i], row[i].owner, row[i].kind)
           /\ \A s \in States : LET r == [row[i] EXCEPT !.state = s]
                                IN  r \in Rows /\ Agrees(book[i], r.owner, r.kind)
<1>1. row[i] \in Rows /\ book[i] # NoEntry /\ Agrees(book[i], row[i].owner, row[i].kind)
  BY DEF IInv, RowsOK
<1>2. ASSUME NEW s \in States
      PROVE  [row[i] EXCEPT !.state = s] \in Rows /\ [row[i] EXCEPT !.state = s].owner = row[i].owner
             /\ [row[i] EXCEPT !.state = s].kind = row[i].kind
  BY <1>1 DEF Rows
<1> QED
  BY <1>1, <1>2

LEMMA NewRow ==
    ASSUME IInv, NEW c \in Clients, At(c, "record"), NEW s \in States
    PROVE  LET r == [owner |-> wallet[c], kind |-> call[c].kind, state |-> s]
           IN  r \in Rows /\ book[call[c].id] # NoEntry /\ Agrees(book[call[c].id], r.owner, r.kind)
  BY CallFacts DEF Rows, Fits, At, Requests

LEMMA RecordStep ==
    ASSUME IInv, NEW c \in Clients, RecordSep6Transaction(c) \/ RecordInteractive(c)
    PROVE  IInv'
<1> DEFINE i == call[c].id
<1>1. At(c, "record") /\ Told(c) /\ UNCHANGED <<book, paying, faults, wallet, token>>
  BY DEF RecordSep6Transaction, RecordInteractive, identity
<1>2. i \in Ids
  BY <1>1, CallFacts DEF At, Fits
<1>3. "started" \in States /\ "incomplete" \in States
  BY DEF States, Open
<1>4. RowsOK'
  <2>1. CASE RecordSep6Transaction(c)
    <3> DEFINE r == IF row[i] # NoRow THEN row[i]
                    ELSE [owner |-> wallet[c], kind |-> call[c].kind, state |-> "started"]
    <3>1. row' = [row EXCEPT ![i] = r]
      BY <1>2, <2>1 DEF RecordSep6Transaction, CreateTransaction, IInv, RowsOK
    <3>2. \/ r = row[i]
          \/ r \in Rows /\ book[i] # NoEntry /\ Agrees(book[i], r.owner, r.kind)
      BY <1>1, <1>3, NewRow
    <3> QED
      BY <1>1, <1>2, <3>1, <3>2, RowMoves
  <2>2. CASE RecordInteractive(c)
    <3> DEFINE r == IF row[i] # NoRow THEN [row[i] EXCEPT !.state = "incomplete"]
                    ELSE [owner |-> wallet[c], kind |-> call[c].kind, state |-> "incomplete"]
    <3>1. row' = [row EXCEPT ![i] = r]
      BY <1>2, <2>2 DEF RecordInteractive, UpsertTransaction, IInv, RowsOK
    <3>2. r \in Rows /\ book[i] # NoEntry /\ Agrees(book[i], r.owner, r.kind)
      BY <1>1, <1>2, <1>3, NewRow, RowFacts
    <3> QED
      BY <1>1, <1>2, <3>1, <3>2, RowMoves
  <2> QED
    BY <2>1, <2>2
<1> QED
  BY <1>1, <1>4, ToldFacts, BookSame, PayingShrinks, FaultType DEF IInv

LEMMA UnrecordedStep ==
    ASSUME IInv, NEW c \in Clients, AnchorRefuses(c) \/ RecordFails(c) \/ Abandon(c)
    PROVE  IInv'
<1>1. CASE AnchorRefuses(c) \/ Abandon(c)
  BY <1>1, IdleFits, Moves DEF AnchorRefuses, Abandon, identity
<1>2. CASE RecordFails(c)
  <2>1. At(c, "record") /\ UNCHANGED <<book, row, paying, wallet, token>> /\ (Fault \/ faults' = faults)
    BY <1>2 DEF RecordFails, identity
  <2>2. CASE Told(c)
    BY <2>1, <2>2, ToldFacts, BookSame, RowsSame, PayingShrinks, FaultType DEF IInv
  <2>3. CASE call' = [call EXCEPT ![c] = Idle] /\ active' = active
    BY <2>1, <2>3, IdleFits, Moves
  <2> QED
    BY <1>2, <2>2, <2>3 DEF RecordFails
<1> QED
  BY <1>1, <1>2

-----------------------------------------------------------------------------
(* Paying a withdrawal.                                                    *)

LEMMA PayStep ==
    ASSUME IInv, NEW c \in Clients, NEW t \in Amounts, WithdrawPaymentXDR(c, t)
    PROVE  IInv'
<1> DEFINE i == call[c].id
           p == [id |-> i, asked |-> t, sent |-> String(ParseAmount(t, Decimals), Decimals)]
<1>1. i \in Ids /\ book[i] # NoEntry
  BY CallFacts DEF WithdrawPaymentXDR, At, Fits
<1>2. /\ Parses(t, Decimals) /\ paying' = paying \cup {p} /\ call' = [call EXCEPT ![c] = Idle]
      /\ active' \in {active, [active EXCEPT ![c] = i]} /\ UNCHANGED <<book, row, faults, wallet, token>>
  BY DEF WithdrawPaymentXDR, identity
<1>3. SameValue(t, String(ParseAmount(t, Decimals), Decimals))
  BY <1>2, TypedAmountSurvives
<1>4. PayingOK'
  <2>1. p.id \in Ids /\ SameValue(p.asked, p.sent)
    BY <1>1, <1>3
  <2> HIDE DEF p
  <2> QED
    BY <1>2, <2>1 DEF IInv, PayingOK
<1>5. BookOK' /\ Kept(book, book')
  BY <1>2, BookSame
<1>6. ActiveOK'
  BY <1>1, <1>2, <1>5, ActiveSame, ActiveMoves
<1>7. CallsOK' /\ IdentityOK'
  BY <1>2, <1>5, IdleFits, OneCallMoves, IdentityMoves
<1> QED
  BY <1>2, <1>4, <1>5, <1>6, <1>7, RowsSame, FaultType DEF IInv

LEMMA RefusedStep ==
    ASSUME IInv, NEW c \in Clients, NEW t \in Amounts, PaymentRefused(c, t)
    PROVE  IInv'
  BY IdleFits, Moves DEF PaymentRefused, identity

-----------------------------------------------------------------------------
(* The anchor's side.                                                      *)

LEMMA StateMoves ==
    ASSUME IInv, NEW i \in Ids, NEW s \in States \cup {"forgotten"}, book[i] # NoEntry,
           book' = [book EXCEPT ![i].state = s]
    PROVE  BookOK' /\ Kept(book, book')
<1> DEFINE e == [book[i] EXCEPT !.state = s]
<1>1. book \in [Ids -> Entries \cup {NoEntry}] /\ book[i] \in Entries
  BY DEF IInv, BookOK
<1>2. e \in Entries /\ SameTransfer(book[i], e)
  BY <1>1 DEF Entries, SameTransfer
<1>3. e # NoEntry
  BY <1>2, EmptyFacts
<1>4. book' = [book EXCEPT ![i] = e]
  OBVIOUS
<1> HIDE DEF e
<1>5. book' \in [Ids -> Entries \cup {NoEntry}] /\ book'[i] = e /\ \A j \in Ids \ {i} : book'[j] = book[j]
  BY <1>1, <1>2, <1>4
<1>6. \A j \in Ids : book'[j] # NoEntry <=> book[j] # NoEntry
  BY <1>3, <1>5
<1>7. BookOK'
  BY <1>5, <1>6 DEF IInv, BookOK
<1>8. Kept(book, book')
  BY <1>2, <1>5, <1>6 DEF Kept, SameTransfer
<1> QED
  BY <1>7, <1>8

LEMMA AnchorStep ==
    ASSUME IInv, (\E p \in paying : PaymentEnds(p)) \/ (\E i \in Ids : Progress(i) \/ Forget(i))
    PROVE  IInv'
<1>1. paying' \subseteq paying /\ UNCHANGED <<row, call, active, faults, wallet, token>>
  BY DEF PaymentEnds, Progress, Forget, identity
<1>2. BookOK' /\ Kept(book, book')
  <2>1. ASSUME NEW p \in paying, PaymentEnds(p)
        PROVE  BookOK' /\ Kept(book, book')
    <3>1. p.id \in Ids /\ book \in [Ids -> Entries \cup {NoEntry}]
      BY DEF IInv, PayingOK, BookOK
    <3>2. CASE book' = book
      BY <3>2, BookSame
    <3>3. CASE book' = [book EXCEPT ![p.id].state = IF @ = "started" THEN "moving" ELSE @]
      <4>1. CASE book[p.id].state = "started"
        <5>1. book[p.id] # NoEntry /\ "moving" \in States
          BY <4>1, EmptyFacts DEF States, Open
        <5>2. book' = [book EXCEPT ![p.id].state = "moving"]
          BY <3>1, <3>3, <4>1
        <5> QED
          BY <3>1, <5>1, <5>2, StateMoves
      <4>2. CASE book[p.id].state # "started"
        <5>1. book' = book
          BY <3>1, <3>3, <4>2 DEF Entries, NoEntry
        <5> QED
          BY <5>1, BookSame
      <4> QED
        BY <4>1, <4>2
    <3> QED
      BY <2>1, <3>2, <3>3 DEF PaymentEnds
  <2>2. ASSUME NEW i \in Ids, Progress(i) \/ Forget(i)
        PROVE  BookOK' /\ Kept(book, book')
    <3>1. book[i] # NoEntry
      BY <2>2, EmptyFacts DEF Progress, Forget, States
    <3>2. \E s \in States \cup {"forgotten"} : book' = [book EXCEPT ![i].state = s]
      <4>1. "moving" \in States /\ "completed" \in States /\ "expired" \in States
        BY DEF States, Open, Terminal
      <4> QED
        BY <2>2, <4>1 DEF Progress, Forget
    <3> QED
      BY <3>1, <3>2, StateMoves
  <2> QED
    BY <2>1, <2>2
<1> QED
  BY <1>1, <1>2, RowsSame, CallsSame, IdentitySame, ActiveSame, PayingShrinks, FaultType DEF IInv

-----------------------------------------------------------------------------
(* Following it.                                                           *)

(* A finite set of numbers has a largest one.                              *)
LEMMA LargestExists ==
    ASSUME NEW S, S \subseteq Nat, IsFiniteSet(S), S # {}
    PROVE  \E m \in S : \A n \in S : m >= n
<1> DEFINE Good(X) == \E m \in X : \A n \in X : m >= n
           G == {n \in Nat : \A X \in SUBSET Nat :
                                IsFiniteSet(X) /\ X # {} /\ Cardinality(X) = n => Good(X)}
<1>1. 0 \in G
  BY FS_EmptySet
<1>2. ASSUME NEW n \in Nat, n \in G
      PROVE  n + 1 \in G
  <2> SUFFICES ASSUME NEW X \in SUBSET Nat, IsFiniteSet(X), X # {}, Cardinality(X) = n + 1
               PROVE  Good(X)
    OBVIOUS
  <2>1. PICK x : x \in X
    OBVIOUS
  <2>2. IsFiniteSet(X \ {x}) /\ Cardinality(X \ {x}) = n
    <3>1. IsFiniteSet(X \ {x}) /\ Cardinality(X \ {x}) = Cardinality(X) - 1
      BY <2>1, FS_RemoveElement, Zenon
    <3> QED
      BY <3>1
  <2>3. CASE X \ {x} = {}
    BY <2>1, <2>3
  <2>4. CASE X \ {x} # {}
    <3>1. Good(X \ {x})
      BY <1>2, <2>2, <2>4
    <3>2. PICK m \in X \ {x} : \A y \in X \ {x} : m >= y
      BY <3>1
    <3>3. m \in Nat /\ x \in Nat /\ \A y \in X : y \in Nat
      BY <2>1
    <3>4. CASE m >= x
      <4>1. \A y \in X : m >= y
        BY <3>2, <3>4
      <4> QED
        BY <4>1
    <3>5. CASE x >= m
      <4>1. \A y \in X : x >= y
        BY <3>2, <3>3, <3>5
      <4> QED
        BY <2>1, <4>1
    <3> QED
      BY <3>3, <3>4, <3>5
  <2> QED
    BY <2>3, <2>4
<1> HIDE DEF G
<1>3. \A n \in Nat : n \in G
  BY <1>1, <1>2, InductiveSet
<1>4. Cardinality(S) \in Nat
  BY FS_CardinalityType
<1> QED
  BY <1>3, <1>4 DEF G

LEMMA CurrentIsNext ==
    ASSUME IInv, NEW c \in Clients, call[c].pc \in {"look", "report"}
    PROVE  /\ Current(c) \in call[c].todo
           /\ Current(c).id \in Ids /\ book[Current(c).id] # NoEntry /\ book[Current(c).id] \in Entries
<1> DEFINE T == call[c].todo
           I == {w.id : w \in T}
<1>1. T \subseteq [id : Ids, listed : States \cup {"polled"}] /\ T # {} /\ \A w \in T : book[w.id] # NoEntry
  BY CallFacts DEF Fits, Requests
<1>2. I \subseteq Ids /\ I # {} /\ I \in SUBSET Ids
  BY <1>1
<1>3. IsFiniteSet(I) /\ I \subseteq Nat
  BY <1>2, FS_Subset
<1>4. PICK m \in I : \A n \in I : m >= n
  BY <1>2, <1>3, LargestExists
<1>5. PICK w \in T : w.id = m
  BY <1>4
<1>6. \A v \in T : w.id >= v.id
  BY <1>4, <1>5
<1>7. Current(c) \in T
  BY <1>5, <1>6 DEF Current
<1> QED
  BY <1>1, <1>7 DEF IInv, BookOK

LEMMA RestFits ==
    ASSUME IInv, NEW c \in Clients, call[c].pc \in {"look", "report"}
    PROVE  Fits(wallet[c], Rest(c), book)
<1> DEFINE left == call[c].todo \ {Current(c)}
           k == [Idle EXCEPT !.pc = "look", !.todo = left]
<1>1. left \subseteq [id : Ids, listed : States \cup {"polled"}] /\ \A w \in left : book[w.id] # NoEntry
  BY CallFacts DEF Fits, Requests
<1>2. CASE left = {}
  BY <1>2, IdleFits DEF Rest
<1>3. CASE left # {}
  <2>1. Rest(c) = k
    BY <1>3 DEF Rest
  <2> HIDE DEF left
  <2>2. k \in Requests /\ k.pc = "look" /\ k.todo = left
    BY <1>1, IdleFits DEF Requests
  <2>3. Fits(wallet[c], k, book)
    BY <1>1, <1>3, <2>2 DEF Fits
  <2> QED
    BY <2>1, <2>3
<1> QED
  BY <1>2, <1>3

LEMMA RestAsksNot ==
    ASSUME NEW c \in Clients
    PROVE  Rest(c).pc # "ask"
  BY DEF Rest, Idle

LEMMA VisitStep ==
    ASSUME IInv, NEW c \in Clients, ListTransactions(c) \/ pollOnce(c)
    PROVE  IInv'
<1>1. PICK S : /\ S # {} /\ S \subseteq [id : Ids, listed : States \cup {"polled"}]
               /\ \A w \in S : book[w.id] # NoEntry
               /\ call' = [call EXCEPT ![c] = [Idle EXCEPT !.pc = "look", !.todo = S]]
  <2>1. CASE ListTransactions(c)
    <3> DEFINE N == Newest(InFlight(wallet[c]))
               S == {[id |-> i, listed |-> row[i].state] : i \in N}
    <3>1. S # {} /\ call' = [call EXCEPT ![c] = [Idle EXCEPT !.pc = "look", !.todo = S]]
      BY <2>1 DEF ListTransactions
    <3>2. ASSUME NEW i \in N
          PROVE  i \in Ids /\ row[i].state \in States /\ book[i] # NoEntry
      <4>1. i \in Ids /\ row[i].owner = wallet[c]
        BY DEF Newest, InFlight
      <4>2. row[i] # NoRow
        BY <4>1, CallFacts, EmptyFacts
      <4>3. row[i] \in Rows /\ book[i] # NoEntry
        BY <4>1, <4>2, RowFacts
      <4> QED
        BY <4>1, <4>3 DEF Rows
    <3> HIDE DEF N
    <3>3. S \subseteq [id : Ids, listed : States \cup {"polled"}] /\ \A w \in S : book[w.id] # NoEntry
      BY <3>2
    <3> QED
      BY <3>1, <3>3
  <2>2. CASE pollOnce(c)
    <3>1. active[c] \in Ids /\ book[active[c]] # NoEntry
      BY <2>2 DEF pollOnce, IInv, ActiveOK
    <3> DEFINE S == {[id |-> active[c], listed |-> "polled"]}
    <3>2. call' = [call EXCEPT ![c] = [Idle EXCEPT !.pc = "look", !.todo = S]]
      BY <2>2 DEF pollOnce
    <3>3. S # {} /\ S \subseteq [id : Ids, listed : States \cup {"polled"}] /\ \A w \in S : book[w.id] # NoEntry
      BY <3>1
    <3> QED
      BY <3>2, <3>3
  <2> QED
    BY <2>1, <2>2
<1> DEFINE k == [Idle EXCEPT !.pc = "look", !.todo = S]
<1>2. k \in Requests /\ k.pc = "look" /\ k.todo = S
  BY <1>1, IdleFits DEF Requests
<1>3. Fits(wallet[c], k, book)
  BY <1>1, <1>2 DEF Fits
<1>4. UNCHANGED <<book, row, paying, active, faults, wallet, token>>
  BY DEF ListTransactions, pollOnce, identity
<1> HIDE DEF k
<1> QED
  BY <1>1, <1>2, <1>3, <1>4, Moves DEF k

LEMMA LookStep ==
    ASSUME IInv, NEW c \in Clients, Look(c)
    PROVE  IInv'
<1> DEFINE w == Current(c)
           said == book[w.id].state
           worth == IF w.listed = "polled" THEN said \in Terminal ELSE said # w.listed
           k == [call[c] EXCEPT !.pc = "report", !.said = said]
<1>1. call[c].pc = "look" /\ call[c] \in Requests /\ Fits(wallet[c], call[c], book)
  BY CallFacts DEF Look, Asks, At
<1>2. said \in States
  BY DEF Look, Knows
<1>3. k \in Requests /\ k.pc = "report" /\ k.said = said /\ k.todo = call[c].todo
  BY <1>1, <1>2 DEF Requests
<1>4. Fits(wallet[c], k, book)
  BY <1>1, <1>2, <1>3 DEF Fits
<1>5. Fits(wallet[c], Rest(c), book)
  BY <1>1, RestFits
<1>6. UNCHANGED <<book, row, paying, wallet, faults>> /\ (active' = active \/ active' = [active EXCEPT ![c] = 0])
  BY DEF Look
<1>9. \E a \in Accounts : token' = [token EXCEPT ![c] = a]
  BY CallFacts DEF Look, withToken
<1>7. CASE worth
  <2>1. call' = [call EXCEPT ![c] = k]
    BY <1>7 DEF Look, IInv, CallsOK
  <2> QED
    BY <1>4, <1>6, <1>9, <2>1, Moves
<1>8. CASE ~worth
  <2>1. call' = [call EXCEPT ![c] = Rest(c)]
    BY <1>8 DEF Look
  <2> QED
    BY <1>5, <1>6, <1>9, <2>1, Moves
<1> QED
  BY <1>7, <1>8

(* Nothing is known, and nothing is written.                               *)
LEMMA UnknownStep ==
    ASSUME IInv, NEW c \in Clients, Unknown(c) \/ SkipActive(c)
    PROVE  IInv'
<1>1. call[c].pc = "look" /\ call' = [call EXCEPT ![c] = Rest(c)]
  BY DEF Unknown, SkipActive, Asks, At
<1>2. Fits(wallet[c], Rest(c), book) /\ Rest(c).pc # "ask"
  BY <1>1, RestFits, RestAsksNot
<1>3. UNCHANGED <<book, row, paying, active, wallet, faults>>
  BY DEF Unknown, SkipActive, identity
<1>4. token' = token \/ \E a \in Accounts : token' = [token EXCEPT ![c] = a]
  BY CallFacts DEF Unknown, SkipActive, withToken, identity
<1> QED
  BY <1>1, <1>2, <1>3, <1>4, Moves

LEMMA ReportStep ==
    ASSUME IInv, NEW c \in Clients, ReportTransaction(c)
    PROVE  IInv'
<1> DEFINE i == Current(c).id
           mine == row[i] # NoRow /\ row[i].owner = wallet[c]
           r == IF mine THEN [row[i] EXCEPT !.state = call[c].said] ELSE row[i]
<1>1. call[c].pc = "report" /\ call[c].said \in States
  BY CallFacts DEF ReportTransaction, At, Fits
<1>2. i \in Ids
  BY <1>1, CurrentIsNext
<1>3. row' = [row EXCEPT ![i] = r]
  BY <1>2 DEF ReportTransaction, UpdateTransaction, IInv, RowsOK
<1>4. \/ r = row[i]
      \/ r \in Rows /\ book[i] # NoEntry /\ Agrees(book[i], r.owner, r.kind)
  BY <1>1, <1>2, RowFacts
<1>5. UNCHANGED <<book, paying, active, faults, wallet, token>> /\ call' = [call EXCEPT ![c] = Rest(c)]
  BY DEF ReportTransaction, identity
<1>6. RowsOK'
  BY <1>2, <1>3, <1>4, <1>5, RowMoves
<1>7. BookOK' /\ Kept(book, book')
  BY <1>5, BookSame
<1>8. CallsOK' /\ IdentityOK'
  BY <1>1, <1>5, <1>7, RestFits, RestAsksNot, OneCallMoves, IdentityMoves
<1> QED
  BY <1>5, <1>6, <1>7, <1>8, ActiveSame, PayingShrinks, FaultType DEF IInv

LEMMA SilentStep ==
    ASSUME IInv, NEW c \in Clients, NotReported(c) \/ LeavePage(c)
    PROVE  IInv'
<1>1. CASE NotReported(c)
  BY <1>1, RestFits, RestAsksNot, Moves DEF NotReported, identity
<1>2. CASE LeavePage(c)
  <2>1. UNCHANGED <<book, row, paying, call, faults, wallet, token>> /\ active' = [active EXCEPT ![c] = 0]
    BY <1>2 DEF LeavePage, identity
  <2> QED
    BY <2>1, BookSame, RowsSame, CallsSame, IdentitySame, ActiveSame, PayingShrinks, FaultType DEF IInv
<1> QED
  BY <1>1, <1>2

(* Another wallet: no call of the old one is under way.                    *)
LEMMA LogoutStep ==
    ASSUME IInv, NEW c \in Clients, logout(c)
    PROVE  IInv'
<1>1. PICK a \in Accounts : wallet' = [wallet EXCEPT ![c] = a]
  BY DEF logout
<1>2. /\ call[c].pc = "idle" /\ Fault /\ active' = [active EXCEPT ![c] = 0]
      /\ UNCHANGED <<book, row, paying, call, token>>
  BY DEF logout, At
<1>3. BookOK' /\ Kept(book, book')
  BY <1>2, BookSame
<1>4. IdentityOK' /\ \A d \in Clients \ {c} : wallet'[d] = wallet[d]
  BY <1>1, <1>2 DEF IInv, IdentityOK
<1>5. CallsOK'
  <2>1. ASSUME NEW d \in Clients
        PROVE  Fits(wallet'[d], call'[d], book')
    <3>1. CASE d = c
      BY <1>2, <3>1, CallFacts DEF Fits
    <3>2. CASE d # c
      BY <1>2, <1>4, <3>2 DEF IInv, CallsOK
    <3> QED
      BY <3>1, <3>2
  <2> QED
    BY <1>2, <2>1 DEF IInv, CallsOK
<1> QED
  BY <1>2, <1>3, <1>4, <1>5, RowsSame, ActiveSame, PayingShrinks, FaultType DEF IInv

-----------------------------------------------------------------------------
LEMMA InitInv == Init => IInv
<1> SUFFICES ASSUME Init PROVE IInv
  OBVIOUS
<1>1. BookOK /\ RowsOK
  BY DEF Init, BookOK, RowsOK
<1>2. CallsOK /\ IdentityOK
  BY IdleFits DEF Init, CallsOK, IdentityOK
<1>3. ActiveOK /\ PayingOK /\ faults \in 0 .. MaxFaults
  BY DEF Init, ActiveOK, PayingOK
<1> QED
  BY <1>1, <1>2, <1>3 DEF IInv

LEMMA NextInv == IInv /\ [Next]_vars => IInv'
<1> SUFFICES ASSUME IInv, [Next]_vars PROVE IInv'
  OBVIOUS
<1>1. CASE UNCHANGED vars
  BY <1>1, BookSame, RowsSame, CallsSame, IdentitySame, ActiveSame, PayingShrinks, FaultType
     DEF vars, identity, IInv
<1>2. ASSUME NEW c \in Clients, Serve(c)
      PROVE  IInv'
  BY <1>2, AcceptStep, UnrecordedStep, RecordStep, PayStep, RefusedStep, UnknownStep, LookStep, ReportStep,
     SilentStep
     DEF Serve
<1>3. ASSUME NEW c \in Clients, Start(c) \/ ListTransactions(c) \/ pollOnce(c) \/ LeavePage(c) \/ logout(c)
      PROVE  IInv'
  BY <1>3, StartStep, VisitStep, SilentStep, LogoutStep
<1>4. CASE (\E p \in paying : PaymentEnds(p)) \/ (\E i \in Ids : Progress(i) \/ Forget(i))
  BY <1>4, AnchorStep
<1> QED
  BY <1>1, <1>2, <1>3, <1>4 DEF Next

LEMMA Inductive == Spec => []IInv
  BY InitInv, NextInv, PTL DEF Spec

-----------------------------------------------------------------------------
(* Book, rows and requests keep their shapes, and the anchor's numbers     *)
(* leave no gap, however starts, payments, polls and reports overlap.      *)
THEOREM LedgerTypeCorrect == Spec => []LedgerTypeOK
<1>1. IInv => LedgerTypeOK
  <2> SUFFICES ASSUME IInv PROVE LedgerTypeOK
    OBVIOUS
  <2>1. /\ Entries \cup {NoEntry} \subseteq [user : Accounts \cup {Nobody}, account : Accounts \cup {Nobody}, kind : Kinds,
                                            way : Ways, state : States \cup {"none", "forgotten"}]
        /\ Rows \cup {NoRow} \subseteq [owner : Accounts \cup {Nobody}, kind : Kinds, state : States \cup {"none"}]
    BY DEF Entries, Rows, NoEntry, NoRow, Kinds, Ways
  <2>2. /\ book \in [Ids -> [user : Accounts \cup {Nobody}, account : Accounts \cup {Nobody}, kind : Kinds,
                             way : Ways, state : States \cup {"none", "forgotten"}]]
        /\ row \in [Ids -> [owner : Accounts \cup {Nobody}, kind : Kinds, state : States \cup {"none"}]]
    BY <2>1 DEF IInv, BookOK, RowsOK
  <2>3. {p.id : p \in paying} \subseteq Ids
    BY DEF IInv, PayingOK
  <2> QED
    BY <2>2, <2>3 DEF IInv, BookOK, CallsOK, IdentityOK, ActiveOK, LedgerTypeOK
<1> QED
  BY <1>1, Inductive, PTL

(* sepProxy, StartDeposit and RecordSep6Transaction: whoever is named in a *)
(* request, whichever account's anchor token it carries, and whatever      *)
(* happens between the answer and the row, a deposit's or a SEP-24 row     *)
(* belongs to the account for which the anchor booked the transfer; behind *)
(* a SEP-6 withdrawal's row the transfer is that account's or the one's    *)
(* whose anchor token the request carried.                                 *)
THEOREM RowsAreOwn == Spec => []OwnRows
<1>1. IInv => OwnRows
  BY DEF IInv, RowsOK, OwnRows
<1> QED
  BY <1>1, Inductive, PTL

(* WithdrawPaymentXDR: every payment that leaves the wallet is of the      *)
(* number that was typed, at any number of decimals.                       *)
THEOREM PaymentsAreExact == Spec => []PaysWhatWasAsked
<1>1. IInv => PaysWhatWasAsked
  BY DEF IInv, PayingOK, PaysWhatWasAsked
<1> QED
  BY <1>1, Inductive, PTL
=============================================================================
