------------------------ MODULE AnchorGatewayProofs ------------------------
(***************************************************************************)
(* Proofs about AnchorGateway for any number of clients, accounts, hosts   *)
(* and published files.                                                    *)
(*                                                                         *)
(* HostsAdmitted is about the moment a request is sent; it holds because   *)
(* the directory and the allow-list are changed together, so that every    *)
(* host of a cached directory is allowed for as long as it is cached       *)
(* (DirectoryOK), and because a restart, which forgets both, ends every    *)
(* request that had left Info.  WrittenWasSeen needs what a confirm knows  *)
(* between its read and its write (SeenOK), and both need to know which    *)
(* points a call of each kind can be at (Fits): only the holder of infoMu  *)
(* may be in one of the two fetches, answered or not (HolderOK).           *)
(***************************************************************************)
EXTENDS AnchorGateway, FiniteSetTheorems, TLAPS

USE GatewayAssumption

Files == [Servers -> Hosts \cup {NoHost}]
Requests == [op : Ops, want : Servers, pc : Stages, first : BOOLEAN]
Fetching == {"toml", "quote", "stalled"}
Underway == {"enter", "info", "toml", "quote", "stalled", "send"}

(* The points of a call of each kind, and that none is sent before there   *)
(* is a directory D.                                                       *)
Fits(k, D) ==
    /\ k \in Requests
    /\ k.op = "idle" => k.pc \in {"none", "ok", "error"}
    /\ k.op = "confirm" => k.pc \in {"read", "have", "lack"}
    /\ k.op \in {"challenge", "token", "use"} => k.pc \in Underway
    /\ k.pc = "send" => D # {}

CallsOK ==
    /\ call \in [Clients -> Requests]
    /\ \A c \in Clients : Fits(call[c], cachedInfo)

(* The mutex: held by nobody, or by the one call that fetches.             *)
HolderOK ==
    \/ infoMu = {} /\ \A c \in Clients : call[c].pc \notin Fetching
    \/ \E h \in Clients, t \in Files :
            /\ infoMu = {[by |-> h, toml |-> t]}
            /\ \A c \in Clients : call[c].pc \in Fetching <=> c = h

DirectoryOK ==
    /\ published \in Tomls
    /\ allow \subseteq Hosts
    /\ cachedInfo = {} \/ \E i \in Files : cachedInfo = {i}
    /\ \A i \in cachedInfo, s \in Servers : i[s] \in allow \cup {NoHost}

SeenOK ==
    /\ seen \in [Clients -> SUBSET BOOLEAN]
    /\ \A c \in Clients : /\ call[c].pc = "have" => TRUE \in seen[c]
                          /\ call[c].pc = "lack" => FALSE \in seen[c]

TablesOK ==
    /\ jwt \in [Clients -> {"none", "good", "old"}]
    /\ trust \in [Accounts -> BOOLEAN]
    /\ line \in [Accounts -> {"none", "missing", "active"}]
    /\ faults \in 0 .. MaxFaults

IInv == CallsOK /\ HolderOK /\ DirectoryOK /\ SeenOK /\ TablesOK

-----------------------------------------------------------------------------
(* Requests.                                                               *)

LEMMA CallFacts ==
    ASSUME IInv, NEW c \in Clients
    PROVE  /\ call[c] \in Requests /\ Fits(call[c], cachedInfo)
           /\ call[c].op \in Ops /\ call[c].pc \in Stages /\ call[c].want \in Servers
           /\ AccountOf[c] \in Accounts
           /\ call[c].pc \in Underway => call[c].op \in {"challenge", "token", "use"}
           /\ call[c].pc \in {"read", "have", "lack"} => call[c].op = "confirm"
<1>1. call[c] \in Requests /\ Fits(call[c], cachedInfo) /\ AccountOf[c] \in Accounts
  BY DEF IInv, CallsOK
<1>2. call[c].op \in Ops /\ call[c].pc \in Stages /\ call[c].want \in Servers
  BY <1>1 DEF Requests
<1> QED
  BY <1>1, <1>2 DEF Fits, Ops, Underway

(* A request that goes on to another point.                                *)
LEMMA GoesOn ==
    ASSUME NEW k \in Requests, NEW D, NEW pc \in Underway,
           k.op \in {"challenge", "token", "use"}, pc = "send" => D # {}
    PROVE  Fits([k EXCEPT !.pc = pc], D) /\ [k EXCEPT !.pc = pc].pc = pc
<1> DEFINE n == [k EXCEPT !.pc = pc]
<1>1. n \in Requests /\ n.pc = pc /\ n.op = k.op
  BY DEF Requests, Underway, Stages
<1> QED
  BY <1>1 DEF Fits

LEMMA EndFits ==
    ASSUME NEW w \in Servers, NEW res \in {"ok", "error"}, NEW D
    PROVE  Fits(Idle(w, res), D) /\ Idle(w, res).pc = res
<1>1. Idle(w, res) \in Requests /\ Idle(w, res).pc = res /\ Idle(w, res).op = "idle"
  BY DEF Idle, Requests, Ops, Stages
<1> QED
  BY <1>1 DEF Fits

-----------------------------------------------------------------------------
(* The parts of the invariant when one call becomes k.                     *)

LEMMA CallsMove ==
    ASSUME IInv, NEW c \in Clients, NEW k, call' = [call EXCEPT ![c] = k],
           Fits(k, cachedInfo'), cachedInfo' = {} => cachedInfo = {}
    PROVE  CallsOK' /\ call'[c] = k /\ \A d \in Clients \ {c} : call'[d] = call[d]
<1>1. k \in Requests
  BY DEF Fits
<1>2. call' \in [Clients -> Requests] /\ call'[c] = k /\ \A d \in Clients \ {c} : call'[d] = call[d]
  BY <1>1 DEF IInv, CallsOK
<1>3. ASSUME NEW d \in Clients
      PROVE  Fits(call'[d], cachedInfo')
  <2>1. CASE d = c
    BY <1>2, <2>1
  <2>2. CASE d # c
    <3>1. call'[d] = call[d] /\ Fits(call[d], cachedInfo)
      BY <1>2, <2>2 DEF IInv, CallsOK
    <3> QED
      BY <3>1 DEF Fits
  <2> QED
    BY <2>1, <2>2
<1> QED
  BY <1>2, <1>3 DEF CallsOK

LEMMA HolderSame ==
    ASSUME IInv, infoMu' = infoMu, \A d \in Clients : call'[d].pc \in Fetching <=> call[d].pc \in Fetching
    PROVE  HolderOK'
  BY DEF IInv, HolderOK

LEMMA DirectorySame ==
    ASSUME IInv, UNCHANGED <<cachedInfo, allow>>, published' \in Tomls
    PROVE  DirectoryOK'
  BY DEF IInv, DirectoryOK

(* A confirm that has read the chain has seen what it read.                *)
LEMMA SeenMoves ==
    ASSUME IInv, Watch, CallsOK', trust' \in [Accounts -> BOOLEAN],
           \A c \in Clients :
                call'[c].pc \in {"have", "lack"} =>
                    \/ call'[c] = call[c]
                    \/ call'[c].pc = "have" /\ trust'[AccountOf[c]] = TRUE
                    \/ call'[c].pc = "lack" /\ trust'[AccountOf[c]] = FALSE
    PROVE  SeenOK'
<1>1. seen \in [Clients -> SUBSET BOOLEAN] /\ \A c \in Clients : trust'[AccountOf[c]] \in BOOLEAN
  BY DEF IInv, SeenOK
<1>2. seen' = [c \in Clients |-> IF call'[c].op = "confirm"
                                 THEN seen[c] \cup {trust'[AccountOf[c]]} ELSE {}]
  BY DEF Watch
<1>3. seen' \in [Clients -> SUBSET BOOLEAN]
  BY <1>1, <1>2, Zenon
<1>4. ASSUME NEW c \in Clients, call'[c].pc \in {"have", "lack"}
      PROVE  (call'[c].pc = "have" => TRUE \in seen'[c]) /\ (call'[c].pc = "lack" => FALSE \in seen'[c])
  <2>1. call'[c].op = "confirm"
    BY <1>4 DEF CallsOK, Fits, Requests, Ops, Underway
  <2>2. seen'[c] = seen[c] \cup {trust'[AccountOf[c]]}
    BY <1>2, <2>1
  <2>3. CASE call'[c] = call[c]
    BY <2>2, <2>3 DEF IInv, SeenOK
  <2>4. CASE call'[c].pc = "have" /\ trust'[AccountOf[c]] = TRUE
    BY <2>2, <2>4
  <2>5. CASE call'[c].pc = "lack" /\ trust'[AccountOf[c]] = FALSE
    BY <2>2, <2>5
  <2> QED
    BY <1>4, <2>3, <2>4, <2>5
<1> QED
  BY <1>3, <1>4 DEF SeenOK

LEMMA FaultType ==
    ASSUME IInv, Fault
    PROVE  faults' \in 0 .. MaxFaults
  BY DEF IInv, TablesOK, Fault

(* The usual step: one request moves on without touching the directory.    *)
LEMMA Moves ==
    ASSUME IInv, Watch, NEW c \in Clients, NEW k, call' = [call EXCEPT ![c] = k],
           Fits(k, cachedInfo), k.pc \notin Fetching, call[c].pc \notin Fetching,
           k.pc \notin {"have", "lack"},
           UNCHANGED <<published, infoMu, cachedInfo, allow>>, TablesOK'
    PROVE  IInv'
<1>1. CallsOK' /\ call'[c] = k /\ \A d \in Clients \ {c} : call'[d] = call[d]
  BY CallsMove
<1>2. HolderOK'
  BY <1>1, HolderSame
<1>3. DirectoryOK'
  BY DirectorySame DEF IInv, DirectoryOK
<1>4. SeenOK'
  BY <1>1, SeenMoves DEF TablesOK
<1> QED
  BY <1>1, <1>2, <1>3, <1>4 DEF IInv

LEMMA TablesSame ==
    ASSUME IInv, UNCHANGED <<jwt, trust, line>>, faults' = faults \/ Fault
    PROVE  TablesOK'
  BY FaultType DEF IInv, TablesOK

(* A request that ends.                                                    *)
LEMMA Ends ==
    ASSUME IInv, Watch, NEW c \in Clients, NEW res \in {"ok", "error"}, Finish(c, res),
           call[c].pc \notin Fetching,
           UNCHANGED <<published, infoMu, cachedInfo, allow>>, TablesOK'
    PROVE  IInv'
<1> DEFINE k == Idle(call[c].want, res)
<1>1. call' = [call EXCEPT ![c] = k]
  BY DEF Finish, IInv, CallsOK
<1>2. Fits(k, cachedInfo) /\ k.pc = res
  BY CallFacts, EndFits
<1> QED
  BY <1>1, <1>2, Moves DEF Fetching

(* A request that goes on.                                                 *)
LEMMA Continues ==
    ASSUME IInv, Watch, NEW c \in Clients, NEW pc \in Underway, Goto(c, pc),
           call[c].pc \in Underway \ Fetching, pc \notin Fetching, pc = "send" => cachedInfo # {},
           UNCHANGED <<published, infoMu, cachedInfo, allow, jwt, trust, line>>, faults' = faults \/ Fault
    PROVE  IInv'
<1> DEFINE k == [call[c] EXCEPT !.pc = pc]
<1>1. call' = [call EXCEPT ![c] = k]
  BY DEF Goto, IInv, CallsOK
<1>2. Fits(k, cachedInfo) /\ k.pc = pc
  BY CallFacts, GoesOn
<1>3. TablesOK'
  BY TablesSame
<1>4. k.pc \notin {"have", "lack"}
  BY <1>2 DEF Underway
<1> QED
  BY <1>1, <1>2, <1>3, <1>4, Moves

-----------------------------------------------------------------------------
(* Requests of the app.                                                    *)

LEMMA FirstStageFacts == \A s \in Servers : FirstStage(s) \in {"enter", "info"}
  BY DEF FirstStage

LEMMA AskStep ==
    ASSUME IInv, Watch, NEW c \in Clients, Ask(c)
    PROVE  IInv'
<1>1. ASSUME NEW s \in Asks[c], withToken(c, s)
      PROVE  IInv'
  <2>1. s \in Servers
    OBVIOUS
  <2> DEFINE k == IF jwt[c] = "none"
                    THEN [op |-> "challenge", want |-> s, pc |-> "info", first |-> TRUE]
                    ELSE [op |-> "use", want |-> s, pc |-> FirstStage(s), first |-> TRUE]
  <2>2. /\ k \in Requests /\ k.op \in {"challenge", "use"} /\ k.pc \in {"enter", "info"}
    BY <2>1, FirstStageFacts DEF Requests, Ops, Stages
  <2>3. call' = [call EXCEPT ![c] = k]
    BY <1>1 DEF withToken
  <2> HIDE DEF k
  <2>4. Fits(k, cachedInfo)
    BY <2>2 DEF Fits, Underway
  <2>5. call[c].pc \notin Fetching
    BY <1>1, CallFacts DEF withToken, Fits, Fetching
  <2>6. UNCHANGED <<published, infoMu, cachedInfo, allow>> /\ TablesOK'
    BY <1>1, TablesSame DEF withToken, directory
  <2> QED
    BY <2>2, <2>3, <2>4, <2>5, <2>6, Moves DEF Fetching
<1>2. CASE confirm(c)
  <2> DEFINE k == [call[c] EXCEPT !.op = "confirm", !.pc = "read"]
  <2>1. k \in Requests /\ k.op = "confirm" /\ k.pc = "read"
    <3>1. call[c] \in Requests
      BY CallFacts
    <3> QED
      BY <3>1 DEF Requests, Ops, Stages
  <2>2. call' = [call EXCEPT ![c] = k]
    BY <1>2 DEF confirm, IInv, CallsOK
  <2>3. Fits(k, cachedInfo)
    BY <2>1 DEF Fits
  <2>4. call[c].pc \notin Fetching
    BY <1>2, CallFacts DEF confirm, Fits, Fetching
  <2>5. UNCHANGED <<published, infoMu, cachedInfo, allow>> /\ TablesOK'
    BY <1>2, TablesSame DEF confirm, directory
  <2> QED
    BY <2>1, <2>2, <2>3, <2>4, <2>5, Moves DEF Fetching
<1>3. CASE TrustlineXDR(c)
  <2>1. UNCHANGED <<published, infoMu, cachedInfo, allow, faults, call, jwt, line>>
    BY <1>3 DEF TrustlineXDR, directory
  <2>2. TablesOK'
    <3>1. trust' = [trust EXCEPT ![AccountOf[c]] = TRUE] /\ trust \in [Accounts -> BOOLEAN]
      BY <1>3 DEF TrustlineXDR, IInv, TablesOK
    <3>2. trust' \in [Accounts -> BOOLEAN]
      BY <3>1, Zenon
    <3> QED
      BY <2>1, <3>2 DEF IInv, TablesOK
  <2>3. CallsOK' /\ HolderOK' /\ DirectoryOK'
    BY <2>1, HolderSame, DirectorySame DEF IInv, CallsOK, DirectoryOK
  <2>4. SeenOK'
    BY <2>1, <2>2, <2>3, SeenMoves DEF TablesOK
  <2> QED
    BY <2>2, <2>3, <2>4 DEF IInv
<1> QED
  BY <1>1, <1>2, <1>3 DEF Ask

LEMMA EnterStep ==
    ASSUME IInv, Watch, NEW c \in Clients, startInteractive(c) \/ CachedInfo(c)
    PROVE  IInv'
<1>1. /\ UNCHANGED <<published, infoMu, cachedInfo, allow, jwt, trust, line>> /\ (faults' = faults \/ Fault)
      /\ call[c].pc \in Underway \ Fetching
  BY DEF startInteractive, CachedInfo, directory, At, Underway, Fetching
<1>2. TablesOK'
  BY <1>1, TablesSame
<1>3. CASE Finish(c, "error")
  BY <1>1, <1>2, <1>3, Ends
<1>4. CASE Goto(c, "info")
  BY <1>1, <1>4, Continues DEF Underway, Fetching
<1>5. CASE Goto(c, "send") /\ cachedInfo # {}
  BY <1>1, <1>5, Continues DEF Underway, Fetching
<1> QED
  BY <1>3, <1>4, <1>5 DEF startInteractive, CachedInfo

-----------------------------------------------------------------------------
(* Info.                                                                   *)

(* The call between the two fetches is the one that holds the mutex.       *)
LEMMA FetcherHolds ==
    ASSUME IInv, NEW c \in Clients, call[c].pc \in Fetching
    PROVE  /\ \E t \in Files : infoMu = {[by |-> c, toml |-> t]}
           /\ \A d \in Clients : call[d].pc \in Fetching <=> d = c
  BY DEF IInv, HolderOK

(* Taking the mutex, or keeping it for the second fetch.                   *)
LEMMA FetchStep ==
    ASSUME IInv, Watch, NEW c \in Clients, Info(c) \/ FetchTOML(c)
    PROVE  IInv'
<1>1. PICK pc \in Fetching : Goto(c, pc)
  BY DEF Info, FetchTOML, Fetching
<1>2. /\ infoMu' = {[by |-> c, toml |-> published]} /\ call[c].pc \in Underway
      /\ UNCHANGED <<published, cachedInfo, allow, faults, jwt, trust, line>>
  BY DEF Info, FetchTOML, At, Underway
<1> DEFINE k == [call[c] EXCEPT !.pc = pc]
<1>3. call' = [call EXCEPT ![c] = k]
  BY <1>1 DEF Goto, IInv, CallsOK
<1>4. Fits(k, cachedInfo') /\ k.pc = pc
  <2>1. call[c] \in Requests /\ call[c].op \in {"challenge", "token", "use"}
    BY <1>2, CallFacts
  <2>2. pc \in Underway /\ pc # "send"
    BY <1>1 DEF Fetching, Underway
  <2> QED
    BY <2>1, <2>2, GoesOn
<1>5. CallsOK' /\ call'[c] = k /\ \A d \in Clients \ {c} : call'[d] = call[d]
  BY <1>2, <1>3, <1>4, CallsMove
<1>6. \A d \in Clients \ {c} : call[d].pc \notin Fetching
  <2>1. CASE Info(c)
    BY <2>1 DEF Info, IInv, HolderOK
  <2>2. CASE FetchTOML(c)
    BY <2>2, FetcherHolds DEF FetchTOML, At, Fetching
  <2> QED
    BY <2>1, <2>2
<1>7. HolderOK'
  <2>1. published \in Files
    BY DEF IInv, DirectoryOK, Files
  <2>2. \A d \in Clients : call'[d].pc \in Fetching <=> d = c
    BY <1>1, <1>4, <1>5, <1>6
  <2> QED
    BY <1>2, <2>1, <2>2 DEF HolderOK
<1>8. DirectoryOK' /\ TablesOK'
  BY <1>2, DirectorySame, TablesSame DEF IInv, DirectoryOK
<1>9. SeenOK'
  BY <1>1, <1>4, <1>5, <1>8, SeenMoves DEF TablesOK, Fetching
<1> QED
  BY <1>5, <1>7, <1>8, <1>9 DEF IInv

(* A fetch without an answer keeps the mutex.                              *)
LEMMA StallStep ==
    ASSUME IInv, Watch, NEW c \in Clients, Stall(c)
    PROVE  IInv'
<1> DEFINE k == [call[c] EXCEPT !.pc = "stalled"]
<1>1. /\ call[c].pc \in {"toml", "quote"} /\ Fault
      /\ UNCHANGED <<published, infoMu, cachedInfo, allow, jwt, trust, line>>
  BY DEF Stall
<1>2. call' = [call EXCEPT ![c] = k]
  BY DEF Stall, Goto, IInv, CallsOK
<1>3. Fits(k, cachedInfo') /\ k.pc = "stalled"
  <2>1. call[c] \in Requests /\ call[c].op \in {"challenge", "token", "use"}
    BY <1>1, CallFacts DEF Underway
  <2>2. "stalled" \in Underway
    BY DEF Underway
  <2> QED
    BY <2>1, <2>2, GoesOn
<1>4. CallsOK' /\ call'[c] = k /\ \A d \in Clients \ {c} : call'[d] = call[d]
  BY <1>1, <1>2, <1>3, CallsMove
<1>5. HolderOK'
  BY <1>1, <1>3, <1>4, HolderSame DEF Fetching
<1>6. DirectoryOK' /\ TablesOK'
  BY <1>1, DirectorySame, TablesSame DEF IInv, DirectoryOK
<1>7. SeenOK'
  BY <1>3, <1>4, <1>6, SeenMoves DEF TablesOK
<1> QED
  BY <1>4, <1>5, <1>6, <1>7 DEF IInv

(* Giving the mutex back.                                                  *)
LEMMA Releases ==
    ASSUME IInv, Watch, NEW c \in Clients, NEW k, call' = [call EXCEPT ![c] = k],
           call[c].pc \in Fetching, infoMu' = {}, Fits(k, cachedInfo'), k.pc \in {"send", "error"},
           cachedInfo' = {} => cachedInfo = {}, DirectoryOK', TablesOK'
    PROVE  IInv'
<1>1. CallsOK' /\ call'[c] = k /\ \A d \in Clients \ {c} : call'[d] = call[d]
  BY CallsMove
<1>2. \A d \in Clients : call'[d].pc \notin Fetching
  BY <1>1, FetcherHolds DEF Fetching
<1>3. HolderOK'
  BY <1>2 DEF HolderOK
<1>4. SeenOK'
  BY <1>1, SeenMoves DEF TablesOK
<1> QED
  BY <1>1, <1>3, <1>4 DEF IInv

LEMMA UnavailableStep ==
    ASSUME IInv, Watch, NEW c \in Clients, TOMLUnavailable(c)
    PROVE  IInv'
<1> DEFINE k == Idle(call[c].want, "error")
<1>1. /\ call[c].pc \in Fetching /\ infoMu' = {} /\ Fault
      /\ UNCHANGED <<published, cachedInfo, allow, jwt, trust, line>>
  BY DEF TOMLUnavailable, At, Fetching
<1>2. call' = [call EXCEPT ![c] = k]
  BY DEF TOMLUnavailable, Finish, IInv, CallsOK
<1>3. Fits(k, cachedInfo') /\ k.pc = "error"
  BY CallFacts, EndFits
<1>4. DirectoryOK' /\ TablesOK'
  BY <1>1, DirectorySame, TablesSame DEF IInv, DirectoryOK
<1> HIDE DEF k
<1> QED
  BY <1>1, <1>2, <1>3, <1>4, Releases

(* The directory and the hosts it names are stored in one step.            *)
LEMMA ResolveStep ==
    ASSUME IInv, Watch, NEW c \in Clients, FetchQuoteServer(c)
    PROVE  IInv'
<1>1. call[c].pc \in Fetching /\ UNCHANGED <<published, faults, jwt, trust, line>>
  BY DEF FetchQuoteServer, At, Fetching
<1>2. published \in Files
  BY DEF IInv, DirectoryOK, Files
<1>3. PICK q \in Hosts \cup {NoHost} : Resolve(c, q)
  <2>1. published["quote"] \in Hosts \cup {NoHost}
    BY <1>2 DEF Files, Servers
  <2> QED
    BY <2>1 DEF FetchQuoteServer
<1>4. PICK t \in Files : infoMu = {[by |-> c, toml |-> t]}
  BY <1>1, FetcherHolds
<1> DEFINE info == [t EXCEPT !["quote"] = q]
           k == [call[c] EXCEPT !.pc = "send"]
<1>5. allow' = AllowHost(info) /\ cachedInfo' = {info} /\ infoMu' = {} /\ Goto(c, "send")
  BY <1>3, <1>4 DEF Resolve
<1>6. info \in Files
  BY <1>3 DEF Files
<1> HIDE DEF info
<1>7. DirectoryOK'
  <2>1. allow' = allow \cup ({info[s] : s \in Servers} \ {NoHost})
    BY <1>5 DEF AllowHost
  <2>2. allow' \subseteq Hosts
    BY <1>6, <2>1 DEF IInv, DirectoryOK, Files
  <2>3. \A s \in Servers : info[s] \in allow' \cup {NoHost}
    BY <2>1
  <2> QED
    BY <1>1, <1>5, <1>6, <2>2, <2>3 DEF IInv, DirectoryOK
<1>8. call' = [call EXCEPT ![c] = k]
  BY <1>5 DEF Goto, IInv, CallsOK
<1>9. Fits(k, cachedInfo') /\ k.pc = "send"
  <2>1. call[c].op \in {"challenge", "token", "use"} /\ call[c] \in Requests
    BY <1>1, CallFacts DEF Fetching, Underway
  <2> QED
    BY <1>5, <2>1, GoesOn DEF Underway
<1>10. TablesOK'
  BY <1>1, TablesSame
<1> HIDE DEF k
<1> QED
  BY <1>1, <1>5, <1>7, <1>8, <1>9, <1>10, Releases

-----------------------------------------------------------------------------
(* The request itself.                                                     *)

LEMMA SendStep ==
    ASSUME IInv, Watch, NEW c \in Clients,
           \/ SEP10Challenge(c) \/ SEP10Token(c) \/ ProxyJSON(c) \/ TokenRejected(c)
           \/ NotPublished(c) \/ UpstreamFailed(c)
    PROVE  IInv'
<1>1. call[c].pc = "send"
  BY DEF SEP10Challenge, SEP10Token, ProxyJSON, TokenRejected, NotPublished, UpstreamFailed, RoundTrip, At
<1>2. UNCHANGED <<published, infoMu, cachedInfo, allow, trust, line>> /\ (faults' = faults \/ Fault)
  BY DEF SEP10Challenge, SEP10Token, ProxyJSON, TokenRejected, NotPublished, UpstreamFailed, directory
<1>3. call[c].pc \notin Fetching /\ call[c] \in Requests
  BY <1>1, CallFacts DEF Fetching
<1>4. CASE \/ ProxyJSON(c) \/ NotPublished(c) \/ UpstreamFailed(c)
           \/ TokenRejected(c) /\ Finish(c, "error") /\ UNCHANGED jwt
  <2>1. (Finish(c, "ok") \/ Finish(c, "error")) /\ jwt' = jwt
    BY <1>4 DEF ProxyJSON, NotPublished, UpstreamFailed
  <2>2. TablesOK'
    BY <1>2, <2>1, TablesSame
  <2> QED
    BY <1>2, <1>3, <2>1, <2>2, Ends
<1>5. ASSUME NEW k \in Requests, call' = [call EXCEPT ![c] = k],
             k.op \in {"challenge", "token", "use"}, k.pc \in {"enter", "info"},
             jwt' \in [Clients -> {"none", "good", "old"}]
      PROVE  IInv'
  <2>1. TablesOK'
    BY <1>2, <1>5, FaultType DEF IInv, TablesOK
  <2>2. Fits(k, cachedInfo)
    BY <1>5 DEF Fits, Underway
  <2> QED
    BY <1>2, <1>3, <1>5, <2>1, <2>2, Moves DEF Fetching
<1>6. CASE SEP10Challenge(c)
  <2> DEFINE k == [call[c] EXCEPT !.op = "token", !.pc = "info"]
  <2>1. k \in Requests /\ k.op = "token" /\ k.pc = "info"
    BY <1>3 DEF Requests, Ops, Stages
  <2>2. call' = [call EXCEPT ![c] = k] /\ jwt' = jwt
    BY <1>6 DEF SEP10Challenge, IInv, CallsOK
  <2> QED
    BY <1>5, <2>1, <2>2 DEF IInv, TablesOK
<1>7. CASE SEP10Token(c)
  <2> DEFINE k == [call[c] EXCEPT !.op = "use", !.pc = FirstStage(call[c].want)]
  <2>1. k \in Requests /\ k.op = "use" /\ k.pc \in {"enter", "info"}
    BY <1>3, CallFacts, FirstStageFacts DEF Requests, Ops, Stages
  <2>2. call' = [call EXCEPT ![c] = k] /\ jwt' = [jwt EXCEPT ![c] = "good"]
    BY <1>7 DEF SEP10Token, IInv, CallsOK
  <2> QED
    BY <1>5, <2>1, <2>2 DEF IInv, TablesOK
<1>8. CASE TokenRejected(c) /\ ~(Finish(c, "error") /\ UNCHANGED jwt)
  <2> DEFINE k == [call[c] EXCEPT !.op = "challenge", !.pc = "info", !.first = FALSE]
  <2>1. k \in Requests /\ k.op = "challenge" /\ k.pc = "info"
    BY <1>3 DEF Requests, Ops, Stages
  <2>2. call' = [call EXCEPT ![c] = k] /\ jwt' = [jwt EXCEPT ![c] = "none"]
    BY <1>8 DEF TokenRejected, IInv, CallsOK
  <2> QED
    BY <1>5, <2>1, <2>2 DEF IInv, TablesOK
<1> QED
  BY <1>4, <1>6, <1>7, <1>8

-----------------------------------------------------------------------------
(* The trustline.                                                          *)

LEMMA ReadStep ==
    ASSUME IInv, Watch, NEW c \in Clients, ConfirmTrustline(c)
    PROVE  IInv'
<1> DEFINE pc == IF trust[AccountOf[c]] THEN "have" ELSE "lack"
           k == [call[c] EXCEPT !.pc = pc]
<1>1. call[c].pc = "read" /\ call[c].op = "confirm" /\ call[c] \in Requests
  BY CallFacts DEF ConfirmTrustline, At
<1>2. call' = [call EXCEPT ![c] = k] /\ UNCHANGED <<published, infoMu, cachedInfo, allow, faults, jwt, trust, line>>
  BY DEF ConfirmTrustline, Goto, IInv, CallsOK, directory
<1>3. k \in Requests /\ k.op = "confirm" /\ k.pc = pc /\ pc \in {"have", "lack"}
  BY <1>1 DEF Requests, Stages
<1>4. Fits(k, cachedInfo')
  BY <1>3 DEF Fits
<1>5. CallsOK' /\ call'[c] = k /\ \A d \in Clients \ {c} : call'[d] = call[d]
  BY <1>2, <1>4, CallsMove
<1>6. TablesOK' /\ DirectoryOK'
  BY <1>2, TablesSame, DirectorySame DEF IInv, DirectoryOK
<1>7. HolderOK'
  BY <1>1, <1>2, <1>3, <1>5, HolderSame DEF Fetching
<1>8. SeenOK'
  <2>1. trust[AccountOf[c]] \in BOOLEAN /\ trust' = trust
    BY <1>2 DEF IInv, TablesOK
  <2>2. \/ call'[c].pc = "have" /\ trust'[AccountOf[c]] = TRUE
        \/ call'[c].pc = "lack" /\ trust'[AccountOf[c]] = FALSE
    BY <1>3, <1>5, <2>1
  <2>3. trust' \in [Accounts -> BOOLEAN]
    BY <1>6 DEF TablesOK
  <2>4. \A d \in Clients : call'[d].pc \in {"have", "lack"} =>
                    \/ call'[d] = call[d]
                    \/ call'[d].pc = "have" /\ trust'[AccountOf[d]] = TRUE
                    \/ call'[d].pc = "lack" /\ trust'[AccountOf[d]] = FALSE
    BY <1>5, <2>2
  <2> QED
    BY <1>5, <2>3, <2>4, SeenMoves
<1> QED
  BY <1>5, <1>6, <1>7, <1>8 DEF IInv

LEMMA WriteStep ==
    ASSUME IInv, Watch, NEW c \in Clients, SetTrustline(c) \/ ConfirmFails(c)
    PROVE  IInv'
<1>1. call[c].pc \notin Fetching
  BY CallFacts DEF SetTrustline, ConfirmFails, Fits, Fetching
<1>2. Finish(c, "ok") \/ Finish(c, "error")
  BY DEF SetTrustline, ConfirmFails
<1>3. UNCHANGED <<published, infoMu, cachedInfo, allow, jwt, trust>> /\ (faults' = faults \/ Fault)
  BY DEF SetTrustline, ConfirmFails, directory
<1>4. line' \in [Accounts -> {"none", "missing", "active"}]
  BY DEF SetTrustline, ConfirmFails, IInv, TablesOK
<1>5. TablesOK'
  BY <1>3, <1>4, FaultType DEF IInv, TablesOK
<1> QED
  BY <1>1, <1>2, <1>3, <1>5, Ends

-----------------------------------------------------------------------------
(* Around it.                                                              *)

LEMMA WorldStep ==
    ASSUME IInv, Watch,
           (\E a \in Accounts : RemoveLine(a)) \/ Republish \/ (\E c \in Clients : TokenExpires(c))
    PROVE  IInv'
<1>1. UNCHANGED <<infoMu, cachedInfo, allow, call, line>> /\ (faults' = faults \/ Fault)
  BY DEF RemoveLine, Republish, TokenExpires, directory
<1>2. published' \in Tomls
  BY DEF RemoveLine, Republish, TokenExpires, directory, IInv, DirectoryOK
<1>3. trust' \in [Accounts -> BOOLEAN]
  <2>1. trust \in [Accounts -> BOOLEAN]
    BY DEF IInv, TablesOK
  <2>2. trust' = trust \/ \E a \in Accounts : trust' = [trust EXCEPT ![a] = FALSE]
    BY DEF RemoveLine, Republish, TokenExpires
  <2>3. ASSUME NEW a \in Accounts
        PROVE  [trust EXCEPT ![a] = FALSE] \in [Accounts -> BOOLEAN]
    BY <2>1, Zenon
  <2> QED
    BY <2>1, <2>2, <2>3
<1>4. jwt' \in [Clients -> {"none", "good", "old"}]
  BY DEF RemoveLine, Republish, TokenExpires, IInv, TablesOK
<1>5. TablesOK'
  BY <1>1, <1>3, <1>4, FaultType DEF IInv, TablesOK
<1>6. CallsOK' /\ HolderOK' /\ DirectoryOK'
  BY <1>1, <1>2, HolderSame, DirectorySame DEF IInv, CallsOK
<1>7. SeenOK'
  BY <1>1, <1>3, <1>6, SeenMoves
<1> QED
  BY <1>5, <1>6, <1>7 DEF IInv

LEMMA RestartStep ==
    ASSUME IInv, Watch, Restart
    PROVE  IInv'
<1>1. /\ infoMu' = {} /\ cachedInfo' = {} /\ allow' = {Domain} /\ Fault
      /\ UNCHANGED <<published, jwt, trust, line>>
      /\ call' = [c \in Clients |-> IF call[c].op = "idle" THEN call[c] ELSE Idle(call[c].want, "error")]
  BY DEF Restart
<1>2. ASSUME NEW c \in Clients
      PROVE  Fits(call'[c], cachedInfo') /\ call'[c].pc \in {"none", "ok", "error"}
  <2>1. CASE call[c].op = "idle"
    BY <1>1, <2>1, CallFacts DEF Fits
  <2>2. CASE call[c].op # "idle"
    BY <1>1, <2>2, CallFacts, EndFits
  <2> QED
    BY <2>1, <2>2
<1>3. CallsOK'
  <2>1. \A c \in Clients : call'[c] \in Requests
    BY <1>2 DEF Fits
  <2>2. call' = [c \in Clients |-> call'[c]]
    BY <1>1
  <2>3. call' \in [Clients -> Requests]
    BY <2>1, <2>2
  <2> QED
    BY <1>2, <2>3 DEF CallsOK
<1>4. HolderOK'
  BY <1>1, <1>2 DEF HolderOK, Fetching
<1>5. DirectoryOK'
  BY <1>1 DEF IInv, DirectoryOK
<1>6. TablesOK'
  BY <1>1, TablesSame
<1>7. SeenOK'
  BY <1>2, <1>3, <1>6, SeenMoves DEF TablesOK
<1> QED
  BY <1>3, <1>4, <1>5, <1>6, <1>7 DEF IInv

-----------------------------------------------------------------------------
LEMMA InitInv == Init => IInv
<1> SUFFICES ASSUME Init PROVE IInv
  OBVIOUS
<1>1. Idle("sep6", "none") \in Requests /\ Idle("sep6", "none").pc = "none" /\ Idle("sep6", "none").op = "idle"
  BY DEF Idle, Requests, Ops, Servers, Stages
<1>2. CallsOK
  BY <1>1 DEF Init, CallsOK, Fits
<1>3. HolderOK /\ DirectoryOK
  BY <1>1 DEF Init, HolderOK, DirectoryOK, Fetching
<1>4. SeenOK
  <2>1. seen \in [Clients -> SUBSET BOOLEAN]
    BY Zenon DEF Init
  <2> QED
    BY <1>1, <2>1 DEF Init, SeenOK
<1>5. TablesOK
  <2>1. trust \in [Accounts -> BOOLEAN]
    BY Zenon DEF Init
  <2> QED
    BY <2>1 DEF Init, TablesOK
<1> QED
  BY <1>2, <1>3, <1>4, <1>5 DEF IInv

LEMMA NextInv == IInv /\ [Next]_vars => IInv'
<1> SUFFICES ASSUME IInv, [Next]_vars PROVE IInv'
  OBVIOUS
<1>1. CASE UNCHANGED vars
  <2>1. UNCHANGED <<published, infoMu, cachedInfo, allow, faults, call, jwt, trust, line, seen>>
    BY <1>1 DEF vars, directory
  <2>2. CallsOK' /\ HolderOK' /\ DirectoryOK'
    BY <2>1, HolderSame, DirectorySame DEF IInv, CallsOK, DirectoryOK
  <2>3. SeenOK' /\ TablesOK'
    BY <2>1 DEF IInv, SeenOK, TablesOK
  <2> QED
    BY <2>2, <2>3 DEF IInv
<1>2. ASSUME NEW c \in Clients, Serve(c), Watch
      PROVE  IInv'
  BY <1>2, EnterStep, FetchStep, UnavailableStep, ResolveStep, SendStep, ReadStep, WriteStep DEF Serve
<1> QED
  BY <1>1, <1>2, AskStep, StallStep, WorldStep, RestartStep DEF Next

LEMMA Inductive == Spec => []IInv
  BY InitInv, NextInv, PTL DEF Spec

-----------------------------------------------------------------------------
(* The tables, the directory and the requests keep their shapes, and       *)
(* infoMu is held by at most one call, the one in its fetches: every early *)
(* return of Info gives it back, and only a stalled fetch keeps it.        *)
THEOREM GatewayTypeCorrect == Spec => []GatewayTypeOK
<1>1. IInv => GatewayTypeOK
  <2> SUFFICES ASSUME IInv PROVE GatewayTypeOK
    OBVIOUS
  <2>1. cachedInfo \subseteq [Servers -> Hosts \cup {NoHost}] /\ Cardinality(cachedInfo) <= 1
    <3>1. CASE cachedInfo = {}
      BY <3>1, FS_EmptySet
    <3>2. ASSUME NEW i \in Files, cachedInfo = {i}
          PROVE  cachedInfo \subseteq [Servers -> Hosts \cup {NoHost}] /\ Cardinality(cachedInfo) <= 1
      <4>1. cachedInfo \subseteq [Servers -> Hosts \cup {NoHost}]
        BY <3>2 DEF Files
      <4>2. Cardinality({i}) = 1
        BY FS_Singleton, Zenon
      <4>3. Cardinality(cachedInfo) <= 1
        BY <3>2, <4>2
      <4> QED
        BY <4>1, <4>3
    <3> QED
      BY <3>1, <3>2 DEF IInv, DirectoryOK
  <2>2. {m.by : m \in infoMu} = {c \in Clients : call[c].pc \in {"toml", "quote", "stalled"}} /\ Cardinality(infoMu) <= 1
    <3>1. CASE infoMu = {} /\ \A c \in Clients : call[c].pc \notin Fetching
      BY <3>1, FS_EmptySet DEF Fetching
    <3>2. ASSUME NEW h \in Clients, NEW t \in Files, infoMu = {[by |-> h, toml |-> t]},
                 \A c \in Clients : call[c].pc \in Fetching <=> c = h
          PROVE  {m.by : m \in infoMu} = {c \in Clients : call[c].pc \in {"toml", "quote", "stalled"}} /\ Cardinality(infoMu) <= 1
      <4>1. {m.by : m \in infoMu} = {h}
        BY <3>2
      <4>2. {c \in Clients : call[c].pc \in {"toml", "quote", "stalled"}} = {h}
        BY <3>2 DEF Fetching
      <4>3. Cardinality(infoMu) = 1
        BY <3>2, FS_Singleton
      <4>4. Cardinality(infoMu) <= 1
        BY <4>3
      <4>5. {m.by : m \in infoMu} = {c \in Clients : call[c].pc \in {"toml", "quote", "stalled"}}
        BY <4>1, <4>2, Zenon
      <4> QED
        BY <4>4, <4>5, Zenon
    <3> QED
      BY <3>1, <3>2 DEF IInv, HolderOK
  <2>3. call \in [Clients -> [op : Ops, want : Servers, pc : Stages, first : BOOLEAN]]
    BY DEF IInv, CallsOK, Requests
  <2> QED
    BY <2>1, <2>2, <2>3 DEF IInv, DirectoryOK, SeenOK, TablesOK, GatewayTypeOK
<1> QED
  BY <1>1, Inductive, PTL

(* guardedTransport and AllowHost: the guard never blocks a request to the *)
(* anchor's own endpoints, whichever call resolved the directory, whatever *)
(* the anchor published in between and whenever the process restarted.     *)
THEOREM EndpointsAdmitted == Spec => []HostsAdmitted
<1>1. IInv => HostsAdmitted
  <2> SUFFICES ASSUME IInv, NEW c \in Clients, At(c, "send")
               PROVE  cachedInfo # {} /\ Endpoint(c) \in allow \cup {NoHost}
    BY DEF HostsAdmitted
  <2>1. cachedInfo # {}
    BY CallFacts DEF Fits, At
  <2>2. Server(c) \in Servers
    BY CallFacts DEF Server, Servers
  <2> DEFINE H == {i[Server(c)] : i \in cachedInfo}
  <2>3. H # {} /\ \A h \in H : h \in allow \cup {NoHost}
    BY <2>1, <2>2 DEF IInv, DirectoryOK
  <2>4. Endpoint(c) \in H
    <3> HIDE DEF H
    <3>1. (CHOOSE h \in H : TRUE) \in H
      BY <2>3
    <3> QED
      BY <3>1 DEF Endpoint, H
  <2> QED
    BY <2>1, <2>3, <2>4
<1> QED
  BY <1>1, Inductive, PTL

(* ConfirmTrustline: a row of pay.trustlines changes only to what the      *)
(* chain said while the confirm that writes it was under way.              *)
THEOREM RowsWereSeen == Spec => WrittenWasSeen
<1>1. IInv /\ [Next]_vars =>
        [\A a \in Accounts : line'[a] # line[a] =>
            \E c \in Clients : AccountOf[c] = a /\ (line'[a] = "active") \in seen[c]]_vars
  <2> SUFFICES ASSUME IInv, Next, NEW a \in Accounts, line'[a] # line[a]
               PROVE  \E c \in Clients : AccountOf[c] = a /\ (line'[a] = "active") \in seen[c]
    OBVIOUS
  <2>1. PICK c \in Clients : SetTrustline(c)
    BY DEF Next, Ask, Serve, withToken, confirm, TrustlineXDR, CachedInfo, Info, FetchTOML, TOMLUnavailable,
           FetchQuoteServer, startInteractive, SEP10Challenge, SEP10Token, ProxyJSON, TokenRejected,
           NotPublished, UpstreamFailed, ConfirmTrustline, ConfirmFails, TokenExpires, RemoveLine,
           Stall, Republish, Restart
  <2>2. AccountOf[c] = a /\ line'[a] = IF At(c, "have") THEN "active" ELSE "missing"
    BY <2>1 DEF SetTrustline, IInv, TablesOK
  <2>3. CASE At(c, "have")
    <3>1. (line'[a] = "active") = TRUE /\ TRUE \in seen[c]
      BY <2>2, <2>3 DEF IInv, SeenOK, At
    <3> QED
      BY <2>2, <3>1
  <2>4. CASE ~At(c, "have")
    <3>1. call[c].pc = "lack"
      BY <2>1, <2>4 DEF SetTrustline, At
    <3>2. (line'[a] = "active") = FALSE /\ FALSE \in seen[c]
      BY <2>2, <2>4, <3>1 DEF IInv, SeenOK
    <3> QED
      BY <2>2, <3>2
  <2> QED
    BY <2>3, <2>4
<1> QED
  BY <1>1, Inductive, PTL DEF Spec, WrittenWasSeen
=============================================================================
