---------------------------- MODULE AnchorLedger ----------------------------
(***************************************************************************)
(* pay.anchor_transactions: the rows by which pay-anchor-service remembers *)
(* deposits and withdrawals, beside the anchor's own book.  A row is       *)
(* opened when a SEP-6 or SEP-24 start has been accepted by the anchor and *)
(* afterwards only follows what the account's own devices report: the bank *)
(* page polls the transfer it started and, once per visit, asks about the  *)
(* newest rows that are still in flight.                                   *)
(*                                                                         *)
(* A device acts under two identities: the bearer token of its wallet, for *)
(* which this service keeps the row, and the anchor's own token, for which *)
(* the anchor keeps the transfer.  Resetting the wallet replaces the first *)
(* and leaves the second in the app's memory.                              *)
(*                                                                         *)
(* The anchor is external.  Between its answer and the row, and between    *)
(* what a device read and its report, any other client may act; either may *)
(* be lost.  The way to the anchor is AnchorGateway.                       *)
(***************************************************************************)
EXTENDS Money, FiniteSets

CONSTANTS
    Clients,    \* activities of the apps
    Accounts,   \* Stellar accounts
    AccountOf,  \* the account of the wallet that a client starts with
    Resets,     \* the clients whose wallet may be replaced
    Starts,     \* the <<way, kind>> that a client starts
    Ids,        \* the anchor's transactions, numbered as they are opened
    Amounts,    \* the amounts a user types, as texts
    Decimals,   \* ANCHOR_ASSET_DECIMALS
    MemoOf,     \* the memo type that the anchor asks for
    Batch,      \* how many rows one visit asks about
    MaxFaults   \* bound: lost answers, failed writes, anchor errors, resets

Ways == {"sep6", "sep24"}
Kinds == {"deposit", "withdraw"}
Terminal == {"completed", "expired"}
Open == {"started", "incomplete", "moving"}
States == Open \cup Terminal
Nobody == "nobody"

ASSUME LedgerAssumption ==
    /\ AccountOf \in [Clients -> Accounts] /\ Resets \subseteq Clients
    /\ Starts \in [Clients -> SUBSET (Ways \X Kinds)]
    /\ Ids \subseteq Nat \ {0} /\ IsFiniteSet(Ids)
    /\ Nobody \notin Accounts
    /\ MemoOf \in [Ids -> {"none", "id", "text", "other"}]
    /\ Amounts \subseteq Texts
    /\ Decimals \in Nat /\ Batch \in Nat /\ MaxFaults \in Nat

VARIABLES
    book,   \* the anchor's own record of each transaction
    row,    \* pay.anchor_transactions
    paying, \* signed payments to the anchor that may land
    call,   \* each client's request, or its visit of the bank page
    active, \* the transfer the client's page follows, or 0
    wallet, \* the account whose wallet, and bearer token, the client has
    token,  \* the account whose anchor token it has in memory, or nobody
    faults  \* how many of the bounded failures have happened

identity == <<wallet, token>>
vars == <<book, row, paying, call, active, identity, faults>>

-----------------------------------------------------------------------------
NoEntry == [user |-> Nobody, account |-> Nobody, kind |-> "deposit", way |-> "sep6", state |-> "none"]
NoRow == [owner |-> Nobody, kind |-> "deposit", state |-> "none"]
Idle == [pc |-> "idle", way |-> "sep6", kind |-> "deposit", account |-> Nobody,
         id |-> 0, said |-> "none", todo |-> {}]

Init ==
    /\ book = [i \in Ids |-> NoEntry]
    /\ row = [i \in Ids |-> NoRow]
    /\ paying = {}
    /\ call = [c \in Clients |-> Idle]
    /\ active = [c \in Clients |-> 0]
    /\ wallet = AccountOf
    /\ token = [c \in Clients |-> Nobody]
    /\ faults = 0

At(c, pc) == call[c].pc = pc
Fault == faults < MaxFaults /\ faults' = faults + 1
FirstState(way) == IF way = "sep6" THEN "started" ELSE "incomplete"

-----------------------------------------------------------------------------
(* The two identities.                                                     *)

(* A call runs with the anchor's token at hand, or with a new one of the   *)
(* wallet's account: there is none, or the anchor rejects it.              *)
Tokens(c) == {wallet[c]} \cup ({token[c]} \ {Nobody})

withToken(c, a) == a \in Tokens(c) /\ token' = [token EXCEPT ![c] = a]

(* "Reset wallet", then onboarding with another one, once the page is      *)
(* left: the secure store is cleared, the anchor's token is not.           *)
logout(c) ==
    /\ c \in Resets /\ At(c, "idle") /\ Fault
    /\ \E a \in Accounts \ {wallet[c]} : wallet' = [wallet EXCEPT ![c] = a]
    /\ active' = [active EXCEPT ![c] = 0]
    /\ UNCHANGED <<book, row, paying, call, token>>

-----------------------------------------------------------------------------
(* Starting a transfer.                                                    *)

(* Seeded fault for OwnRows: the query is passed on as it came.            *)
sepProxy_Verbatim(c, kind, requested) == {requested}

(* The account that goes to the anchor, if the request is let through: it  *)
(* names the caller or nobody, and a deposit always names the caller.      *)
sepProxy(c, kind, requested) ==
    IF requested \notin {Nobody, wallet[c]} THEN {}
    ELSE {IF kind = "deposit" THEN wallet[c] ELSE requested}

StartSep6(c, kind, requested) ==
    /\ At(c, "idle") /\ <<"sep6", kind>> \in Starts[c]
    /\ \E a \in sepProxy(c, kind, requested) :
            call' = [call EXCEPT ![c] = [Idle EXCEPT !.pc = "ask", !.kind = kind, !.account = a]]
    /\ \E t \in Tokens(c) : withToken(c, t)
    /\ UNCHANGED <<book, row, paying, active, wallet, faults>>

(* StartDeposit, StartWithdraw: the service names the caller itself.  A    *)
(* token that the anchor rejects is not replaced.                          *)
startInteractive(c, kind) ==
    /\ At(c, "idle") /\ <<"sep24", kind>> \in Starts[c]
    /\ call' = [call EXCEPT ![c] = [Idle EXCEPT !.pc = "ask", !.way = "sep24", !.kind = kind,
                                                !.account = wallet[c]]]
    /\ token' = [token EXCEPT ![c] = IF @ = Nobody THEN wallet[c] ELSE @]
    /\ UNCHANGED <<book, row, paying, active, wallet, faults>>

(* The anchor books the transfer of the user its token names, for the      *)
(* account it was told or else for the user's own; a repeated start may be *)
(* given the transfer that is already open.                                *)
AnchorAccepts(c, i) ==
    LET k == call[c]
        e == [user |-> token[c], account |-> IF k.account = Nobody THEN token[c] ELSE k.account,
              kind |-> k.kind, way |-> k.way, state |-> FirstState(k.way)]
    IN  /\ At(c, "ask")
        /\ \/ /\ book[i] = NoEntry /\ \A j \in Ids : j < i => book[j] # NoEntry
              /\ book' = [book EXCEPT ![i] = e]
           \/ /\ book[i] = [e EXCEPT !.state = book[i].state]
              /\ book[i].state \in Open
              /\ UNCHANGED book
        /\ call' = [call EXCEPT ![c].pc = "record", ![c].id = i, ![c].account = Nobody]
        /\ UNCHANGED <<row, paying, active, identity, faults>>

AnchorRefuses(c) ==
    /\ At(c, "ask")
    /\ call' = [call EXCEPT ![c] = Idle]
    /\ UNCHANGED <<book, row, paying, active, faults, identity>>

-----------------------------------------------------------------------------
(* Recording it.                                                           *)

Mine(c, i) == row[i] = NoRow \/ row[i].owner = wallet[c]

(* A row that exists keeps its state.                                      *)
CreateTransaction(c, i) ==
    row' = [row EXCEPT ![i] = IF @ # NoRow THEN @
                              ELSE [owner |-> wallet[c], kind |-> call[c].kind, state |-> "started"]]

(* A row that exists goes back to "incomplete".                            *)
UpsertTransaction(c, i) ==
    row' = [row EXCEPT ![i] = IF @ # NoRow THEN [@ EXCEPT !.state = "incomplete"]
                              ELSE [owner |-> wallet[c], kind |-> call[c].kind, state |-> "incomplete"]]

(* The page then follows the transfer; a withdrawal is paid first.  No     *)
(* page follows a SEP-24 transfer.                                         *)
Told(c) ==
    \/ /\ call[c].way = "sep6" /\ call[c].kind = "withdraw"
       /\ call' = [call EXCEPT ![c].pc = "pay"] /\ UNCHANGED active
    \/ /\ call[c].way = "sep6" /\ call[c].kind = "deposit"
       /\ call' = [call EXCEPT ![c] = Idle] /\ active' = [active EXCEPT ![c] = call[c].id]
    \/ /\ call[c].way = "sep24"
       /\ call' = [call EXCEPT ![c] = Idle] /\ UNCHANGED active

RecordSep6Transaction(c) ==
    /\ At(c, "record") /\ call[c].way = "sep6" /\ Mine(c, call[c].id)
    /\ CreateTransaction(c, call[c].id)
    /\ Told(c)
    /\ UNCHANGED <<book, paying, faults, identity>>

RecordInteractive(c) ==
    /\ At(c, "record") /\ call[c].way = "sep24" /\ Mine(c, call[c].id)
    /\ UpsertTransaction(c, call[c].id)
    /\ Told(c)
    /\ UNCHANGED <<book, paying, faults, identity>>

(* SEP-6 answers the caller although its row could not be written; SEP-24  *)
(* answers with the error.                                                 *)
RecordFails(c) ==
    /\ At(c, "record") /\ (Fault \/ (~Mine(c, call[c].id) /\ UNCHANGED faults))
    /\ \/ call[c].way = "sep6" /\ Told(c)
       \/ call[c].way = "sep24" /\ call' = [call EXCEPT ![c] = Idle] /\ UNCHANGED active
    /\ UNCHANGED <<book, row, paying, identity>>

(* The caller is gone (its context ends the write) or the process stops.   *)
Abandon(c) ==
    /\ call[c].pc \in {"ask", "record", "pay"} /\ Fault
    /\ call' = [call EXCEPT ![c] = Idle]
    /\ UNCHANGED <<book, row, paying, active, identity>>

-----------------------------------------------------------------------------
(* Paying a withdrawal.                                                    *)

withdrawMemo(type) == type \in {"none", "id", "text"}

(* The amount is parsed, must be positive, and is written out again into   *)
(* the payment.  Signed and submitted; the page follows the transfer only  *)
(* when the submit is answered in time.                                    *)
WithdrawPaymentXDR(c, t) ==
    LET i == call[c].id
    IN  /\ At(c, "pay")
        /\ Parses(t, Decimals) /\ ParseAmount(t, Decimals) > 0
        /\ withdrawMemo(MemoOf[i])
        /\ paying' = paying \cup {[id |-> i, asked |-> t, sent |-> String(ParseAmount(t, Decimals), Decimals)]}
        /\ call' = [call EXCEPT ![c] = Idle]
        /\ active' \in {active, [active EXCEPT ![c] = i]}
        /\ UNCHANGED <<book, row, faults, identity>>

PaymentRefused(c, t) ==
    /\ At(c, "pay")
    /\ ~(Parses(t, Decimals) /\ ParseAmount(t, Decimals) > 0 /\ withdrawMemo(MemoOf[call[c].id]))
    /\ call' = [call EXCEPT ![c] = Idle]
    /\ UNCHANGED <<book, row, paying, active, faults, identity>>

PaymentEnds(p) ==
    /\ paying' = paying \ {p}
    /\ book' \in {book, [book EXCEPT ![p.id].state = IF @ = "started" THEN "moving" ELSE @]}
    /\ UNCHANGED <<row, call, active, faults, identity>>

-----------------------------------------------------------------------------
(* The anchor's side.                                                      *)

Progress(i) ==
    /\ book[i].state \in Open
    /\ \/ /\ book[i].kind = "deposit" /\ book[i].state # "moving"
          /\ book' = [book EXCEPT ![i].state = "moving"]
       \/ book[i].state = "moving" /\ book' = [book EXCEPT ![i].state = "completed"]
       \/ book' = [book EXCEPT ![i].state = "expired"]
    /\ UNCHANGED <<row, paying, call, active, faults, identity>>

(* "The anchor may not know this id any more".                             *)
Forget(i) ==
    /\ book[i].state \in Terminal
    /\ book' = [book EXCEPT ![i].state = "forgotten"]
    /\ UNCHANGED <<row, paying, call, active, faults, identity>>

-----------------------------------------------------------------------------
(* Following it.                                                           *)

InFlight(a) == {i \in Ids : row[i].owner = a /\ row[i].state \notin Terminal}
Newest(S) == {i \in S : Cardinality({j \in S : j > i}) < Batch}

(* _reconcile: the list is read once per visit.                            *)
ListTransactions(c) ==
    /\ At(c, "idle")
    /\ LET S == {[id |-> i, listed |-> row[i].state] : i \in Newest(InFlight(wallet[c]))}
       IN  S # {} /\ call' = [call EXCEPT ![c] = [Idle EXCEPT !.pc = "look", !.todo = S]]
    /\ UNCHANGED <<book, row, paying, active, faults, identity>>

pollOnce(c) ==
    /\ At(c, "idle") /\ active[c] # 0
    /\ call' = [call EXCEPT ![c] = [Idle EXCEPT !.pc = "look", !.todo = {[id |-> active[c], listed |-> "polled"]}]]
    /\ UNCHANGED <<book, row, paying, active, faults, identity>>

Current(c) == CHOOSE w \in call[c].todo : \A v \in call[c].todo : w.id >= v.id
Rest(c) ==
    LET left == call[c].todo \ {Current(c)}
    IN  IF left = {} THEN Idle ELSE [Idle EXCEPT !.pc = "look", !.todo = left]

(* A visit leaves the transfer that the page follows to the poll.          *)
SkipActive(c) ==
    /\ At(c, "look") /\ Current(c).listed # "polled" /\ Current(c).id = active[c]
    /\ call' = [call EXCEPT ![c] = Rest(c)]
    /\ UNCHANGED <<book, row, paying, active, identity, faults>>

(* sep6Transaction is all that is asked, and the anchor answers it for the *)
(* SEP-6 transfers of the token's account that it still remembers.         *)
Knows(i, a) == book[i].way = "sep6" /\ book[i].user = a /\ book[i].state \in States

Asks(c) == At(c, "look") /\ (Current(c).listed = "polled" \/ Current(c).id # active[c])

(* The row just stays as it is.                                            *)
Unknown(c) ==
    /\ Asks(c)
    /\ \E a \in Tokens(c) : withToken(c, a) /\ ~Knows(Current(c).id, a)
    /\ call' = [call EXCEPT ![c] = Rest(c)]
    /\ UNCHANGED <<book, row, paying, active, wallet, faults>>

(* The anchor's answer about the current row: a visit reports what changed *)
(* since the list was read, a poll only the end, and only once.            *)
Look(c) ==
    LET w == Current(c)
        said == book[w.id].state
        worth == IF w.listed = "polled" THEN said \in Terminal ELSE said # w.listed
    IN  /\ Asks(c)
        /\ \E a \in Tokens(c) : withToken(c, a) /\ Knows(w.id, a)
        /\ call' = [call EXCEPT ![c] = IF worth THEN [@ EXCEPT !.pc = "report", !.said = said] ELSE Rest(c)]
        /\ active' = IF w.listed = "polled" /\ worth THEN [active EXCEPT ![c] = 0] ELSE active
        /\ UNCHANGED <<book, row, paying, wallet, faults>>

(* Seeded fault for RowsCatchUp: only the first report counts.             *)
UpdateTransaction_Once(c, i) ==
    row' = [row EXCEPT ![i] = IF @ # NoRow /\ @.owner = wallet[c] /\ @.state = "started"
                                THEN [@ EXCEPT !.state = call[c].said] ELSE @]

(* Seeded fault for LedgerTypeOK: the status comes from the wrong side.    *)
UpdateTransaction_Listed(c, i) ==
    row' = [row EXCEPT ![i] = IF @ # NoRow /\ @.owner = wallet[c]
                                THEN [@ EXCEPT !.state = Current(c).listed] ELSE @]

(* The caller's own, existing row.                                         *)
UpdateTransaction(c, i) ==
    row' = [row EXCEPT ![i] = IF @ # NoRow /\ @.owner = wallet[c]
                                THEN [@ EXCEPT !.state = call[c].said] ELSE @]

ReportTransaction(c) ==
    /\ At(c, "report")
    /\ UpdateTransaction(c, Current(c).id)
    /\ call' = [call EXCEPT ![c] = Rest(c)]
    /\ UNCHANGED <<book, paying, active, faults, identity>>

(* The anchor or the report cannot be reached; nobody is told.             *)
NotReported(c) ==
    /\ call[c].pc \in {"look", "report"} /\ Fault
    /\ call' = [call EXCEPT ![c] = Rest(c)]
    /\ UNCHANGED <<book, row, paying, active, identity>>

(* The page is closed, or the poll gives up after _maxPolls.               *)
LeavePage(c) ==
    /\ active[c] # 0 /\ At(c, "idle")
    /\ active' = [active EXCEPT ![c] = 0]
    /\ UNCHANGED <<book, row, paying, call, faults, identity>>

-----------------------------------------------------------------------------
Start(c) ==
    \/ \E kind \in Kinds : startInteractive(c, kind)
    \/ \E kind \in Kinds, a \in Accounts \cup {Nobody} : StartSep6(c, kind, a)

Serve(c) ==
    \/ \E i \in Ids : AnchorAccepts(c, i)
    \/ AnchorRefuses(c) \/ RecordSep6Transaction(c) \/ RecordInteractive(c) \/ RecordFails(c) \/ Abandon(c)
    \/ \E t \in Amounts : WithdrawPaymentXDR(c, t) \/ PaymentRefused(c, t)
    \/ SkipActive(c) \/ Unknown(c) \/ Look(c) \/ ReportTransaction(c) \/ NotReported(c)

Next ==
    \/ \E c \in Clients : Start(c) \/ Serve(c) \/ ListTransactions(c) \/ pollOnce(c) \/ LeavePage(c) \/ logout(c)
    \/ \E p \in paying : PaymentEnds(p)
    \/ \E i \in Ids : Progress(i) \/ Forget(i)

Spec == Init /\ [][Next]_vars

(* Requests end, the anchor ends what it opened, and the wallet's owner    *)
(* leaves the bank page and comes back to it.                              *)
FairSpec ==
    /\ Spec
    /\ \A c \in Clients : WF_vars(Serve(c)) /\ SF_vars(ListTransactions(c)) /\ SF_vars(LeavePage(c))
    /\ \A i \in Ids : WF_vars(Progress(i))

-----------------------------------------------------------------------------
Requests == [pc : {"idle", "ask", "record", "pay", "look", "report"}, way : Ways, kind : Kinds,
             account : Accounts \cup {Nobody}, id : Ids \cup {0}, said : States \cup {"none"},
             todo : SUBSET [id : Ids, listed : States \cup {"polled"}]]

(* Every variable keeps its shape, and the anchor's numbers are given out  *)
(* in order.                                                               *)
LedgerTypeOK ==
    /\ book \in [Ids -> [user : Accounts \cup {Nobody}, account : Accounts \cup {Nobody}, kind : Kinds,
                         way : Ways, state : States \cup {"none", "forgotten"}]]
    /\ row \in [Ids -> [owner : Accounts \cup {Nobody}, kind : Kinds, state : States \cup {"none"}]]
    /\ {p.id : p \in paying} \subseteq Ids
    /\ \A c \in Clients : call[c] \in Requests
    /\ active \in [Clients -> Ids \cup {0}]
    /\ wallet \in [Clients -> Accounts] /\ token \in [Clients -> Accounts \cup {Nobody}]
    /\ faults \in 0 .. MaxFaults
    /\ \A i, j \in Ids : j < i /\ book[i] # NoEntry => book[j] # NoEntry

(* An entry and a row of account a are about the same transfer: the kind   *)
(* agrees, and so does the account, except where a SEP-6 withdrawal named  *)
(* nobody and the anchor booked its own user's.                            *)
Agrees(e, a, kind) ==
    /\ e.kind = kind
    /\ e.account = a \/ (e.way = "sep6" /\ kind = "withdraw" /\ e.account = e.user)

(* Whatever a request names, and whichever anchor token it carries, a      *)
(* deposit or a SEP-24 transfer in an account's list is booked by the      *)
(* anchor for that account, and a withdrawal for it or for the account of  *)
(* the anchor token: nobody's list shows a transfer that pays somebody     *)
(* who took no part in it.                                                 *)
OwnRows == \A i \in Ids : row[i] # NoRow => Agrees(book[i], row[i].owner, row[i].kind)

(* What leaves the wallet for a withdrawal is what the user typed: the     *)
(* amount survives ParseAmount and String at any number of decimals.       *)
PaysWhatWasAsked == \A p \in paying : SameValue(p.asked, p.sent)

(* Row i is its owner's to follow: a device has the owner's wallet and no  *)
(* other account's anchor token, and the anchor still knows the transfer.  *)
Followed(i) ==
    LET a == row[i].owner
    IN  /\ Knows(i, a)
        /\ \E c \in Clients : wallet[c] = a /\ token[c] \in {Nobody, a}

(* It is not crowded out of the batch by newer rows that nobody can ask    *)
(* about.                                                                  *)
InReach(i) ==
    LET a == row[i].owner
    IN  Cardinality({j \in InFlight(a) : j > i /\ ~Knows(j, a)}) < Batch

Settled(i) == row[i].state = book[i].state /\ row[i].state \in Terminal

(* "so the activity feed does not show them as waiting forever": whatever  *)
(* reports were lost or arrived after a newer one, a row that its owner    *)
(* can follow and that is in reach of a visit ends with the anchor's own   *)
(* verdict.                                                                *)
RowsCatchUp == \A i \in Ids : <>[](row[i] # NoRow /\ Followed(i) /\ InReach(i) => Settled(i))
=============================================================================
