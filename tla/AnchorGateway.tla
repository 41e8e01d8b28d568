---------------------------- MODULE AnchorGateway ----------------------------
(***************************************************************************)
(* The way from a device through pay-anchor-service to the anchor: the     *)
(* SEP-1 directory that the service resolves once per process under infoMu *)
(* (Info), the allow-list that guards every outgoing request, the anchor's *)
(* own SEP-10 session that the device keeps in memory, the SEP-6/12/24/38  *)
(* requests, and pay.trustlines with the trustline it caches.              *)
(*                                                                         *)
(* A client is one activity of an app (a page, a poll), so two clients may *)
(* be two phones or one.  A step is what happens between two answers of    *)
(* the network or the database.  What the anchor books is AnchorLedger.    *)
(***************************************************************************)
EXTENDS Naturals, FiniteSets

CONSTANTS
    Clients,    \* activities of the apps
    Accounts,   \* Stellar accounts
    AccountOf,  \* whose activity a client is
    Asks,       \* the anchor's servers that a client asks
    Hosts,      \* host names
    Domain,     \* ANCHOR_DOMAIN, the operator's configuration
    Tomls,      \* the stellar.toml files the anchor publishes over time
    Funded,     \* the accounts that exist on the chain
    Stalls,     \* the fetches of Info that may never be answered
    MaxFaults   \* bound: failures of the anchor, the chain, the database,
                \* faults and expired tokens, all counted together

Servers == {"auth", "sep6", "kyc", "quote", "sep24"}
NoHost == "none"

ASSUME GatewayAssumption ==
    /\ AccountOf \in [Clients -> Accounts]
    /\ Asks \in [Clients -> SUBSET (Servers \ {"auth"})]
    /\ Domain \in Hosts
    /\ NoHost \notin Hosts
    /\ Tomls \subseteq [Servers -> Hosts \cup {NoHost}]
    /\ Funded \subseteq Accounts
    /\ Stalls \subseteq {"toml", "quote"}
    /\ MaxFaults \in Nat

VARIABLES
    published,  \* the stellar.toml at ANCHOR_DOMAIN
    infoMu,     \* the call that holds the mutex, with the toml it has read
    cachedInfo, \* Service.cachedInfo: nothing or one directory
    allow,      \* guardedTransport.allow
    faults,     \* how many of the bounded failures have happened
    call,       \* each client's request
    jwt,        \* the anchor's token, in the app's memory
    trust,      \* does the account hold the trustline on the chain?
    line,       \* pay.trustlines
    seen        \* history: what `trust' was since a confirm began

directory == <<published, infoMu, cachedInfo, allow, faults>>
vars == <<directory, call, jwt, trust, line, seen>>

-----------------------------------------------------------------------------
Idle(want, res) == [op |-> "idle", want |-> want, pc |-> res, first |-> TRUE]

Ops == {"idle", "challenge", "token", "use", "confirm"}
Stages == {"none", "ok", "error", "enter", "info", "toml", "quote", "stalled", "send", "read", "have", "lack"}

Init ==
    /\ published \in Tomls
    /\ infoMu = {}
    /\ cachedInfo = {}
    /\ allow = {Domain}
    /\ faults = 0
    /\ call = [c \in Clients |-> Idle("sep6", "none")]
    /\ jwt = [c \in Clients |-> "none"]
    /\ trust = [a \in Accounts |-> FALSE]
    /\ line = [a \in Accounts |-> "none"]
    /\ seen = [c \in Clients |-> {}]

(* The history variable: part of every step.                               *)
Watch ==
    seen' = [c \in Clients |-> IF call'[c].op = "confirm"
                                 THEN seen[c] \cup {trust'[AccountOf[c]]} ELSE {}]

Fault == faults < MaxFaults /\ faults' = faults + 1

At(c, pc) == call[c].pc = pc
Goto(c, pc) == call' = [call EXCEPT ![c].pc = pc]
Finish(c, res) == call' = [call EXCEPT ![c] = Idle(@.want, res)]

-----------------------------------------------------------------------------
(* Requests of the app.                                                    *)

(* The three flows of withToken: log in, or use the token at hand.         *)
FirstStage(s) == IF s = "sep24" THEN "enter" ELSE "info"

withToken(c, s) ==
    /\ call[c].op = "idle"
    /\ call' = [call EXCEPT ![c] =
            IF jwt[c] = "none"
              THEN [op |-> "challenge", want |-> s, pc |-> "info", first |-> TRUE]
              ELSE [op |-> "use", want |-> s, pc |-> FirstStage(s), first |-> TRUE]]
    /\ UNCHANGED <<directory, jwt, trust, line>>

GetTrustlineState(a) == line[a]

(* SEP-24 asks this service's own table first; a failed read of it does    *)
(* not stop the request, a database that is not connected does.            *)
startInteractive(c) ==
    /\ At(c, "enter")
    /\ \/ /\ GetTrustlineState(AccountOf[c]) = "active"
          /\ Goto(c, "info") /\ UNCHANGED faults
       \/ /\ GetTrustlineState(AccountOf[c]) # "active"
          /\ Finish(c, "error") /\ UNCHANGED faults
       \/ Fault /\ (Goto(c, "info") \/ Finish(c, "error"))
    /\ UNCHANGED <<published, infoMu, cachedInfo, allow, jwt, trust, line>>

-----------------------------------------------------------------------------
(* Info.                                                                   *)

CachedInfo(c) ==
    /\ At(c, "info") /\ infoMu = {} /\ cachedInfo # {}
    /\ Goto(c, "send")
    /\ UNCHANGED <<directory, jwt, trust, line>>

Info(c) ==
    /\ At(c, "info") /\ infoMu = {} /\ cachedInfo = {}
    /\ infoMu' = {[by |-> c, toml |-> published]}
    /\ Goto(c, "toml")
    /\ UNCHANGED <<published, cachedInfo, allow, faults, jwt, trust, line>>

FetchTOML(c) ==
    /\ At(c, "toml")
    /\ infoMu' = {[by |-> c, toml |-> published]}
    /\ Goto(c, "quote")
    /\ UNCHANGED <<published, cachedInfo, allow, faults, jwt, trust, line>>

(* Seeded fault for GatewayTypeOK: the early return keeps the mutex.       *)
TOMLUnavailable_KeepsMutex(c) ==
    /\ At(c, "toml") /\ Fault
    /\ Finish(c, "error")
    /\ UNCHANGED <<published, infoMu, cachedInfo, allow, jwt, trust, line>>

TOMLUnavailable(c) ==
    /\ At(c, "toml") /\ Fault
    /\ infoMu' = {}
    /\ Finish(c, "error")
    /\ UNCHANGED <<published, cachedInfo, allow, jwt, trust, line>>

(* Seeded fault for HostsAdmitted: the optional server is forgotten.       *)
AllowHost_FourServers(info) == allow \cup ({info[s] : s \in Servers \ {"quote"}} \ {NoHost})

AllowHost(info) == allow \cup ({info[s] : s \in Servers} \ {NoHost})

Resolve(c, q) ==
    \E m \in infoMu :
        LET info == [m.toml EXCEPT !["quote"] = q]
        IN  /\ allow' = AllowHost(info)
            /\ cachedInfo' = {info}
            /\ infoMu' = {}
            /\ Goto(c, "send")

(* Seeded fault for ServedInTheEnd: the second fetch is a hard dependency. *)
FetchQuoteServer_Required(c) ==
    /\ At(c, "quote")
    /\ \/ Resolve(c, published["quote"])
       \/ infoMu' = {} /\ Finish(c, "error") /\ UNCHANGED <<cachedInfo, allow>>
    /\ UNCHANGED <<published, faults, jwt, trust, line>>

(* The second fetch may see another file than the first one, and its       *)
(* failure leaves the server out for as long as the process lives.         *)
FetchQuoteServer(c) ==
    /\ At(c, "quote")
    /\ Resolve(c, published["quote"]) \/ Resolve(c, NoHost)
    /\ UNCHANGED <<published, faults, jwt, trust, line>>

(* Neither fetch has a deadline: the client is built without a timeout and *)
(* the two requests without the caller's context.  One that the anchor     *)
(* does not answer keeps the mutex for as long as the process lives.       *)
Stall(c) ==
    /\ call[c].pc \in Stalls /\ Fault
    /\ Goto(c, "stalled")
    /\ UNCHANGED <<published, infoMu, cachedInfo, allow, jwt, trust, line>>

-----------------------------------------------------------------------------
(* The request itself.                                                     *)

Server(c) == IF call[c].op = "use" THEN call[c].want ELSE "auth"
Endpoint(c) == CHOOSE h \in {i[Server(c)] : i \in cachedInfo} : TRUE

(* What leaves the process: the endpoint is published and its host is      *)
(* allowed.                                                                *)
RoundTrip(c) == At(c, "send") /\ Endpoint(c) # NoHost /\ Endpoint(c) \in allow

SEP10Challenge(c) ==
    /\ RoundTrip(c) /\ call[c].op = "challenge"
    /\ call' = [call EXCEPT ![c].op = "token", ![c].pc = "info"]
    /\ UNCHANGED <<directory, jwt, trust, line>>

SEP10Token(c) ==
    /\ RoundTrip(c) /\ call[c].op = "token"
    /\ jwt' = [jwt EXCEPT ![c] = "good"]
    /\ call' = [call EXCEPT ![c].op = "use", ![c].pc = FirstStage(call[c].want)]
    /\ UNCHANGED <<directory, trust, line>>

ProxyJSON(c) ==
    /\ RoundTrip(c) /\ call[c].op = "use" /\ jwt[c] = "good"
    /\ Finish(c, "ok")
    /\ UNCHANGED <<directory, jwt, trust, line>>

(* anchor.token_rejected: the app logs in again and repeats, once.  A      *)
(* SEP-24 start reports the anchor's refusal as any other of its errors,   *)
(* so there the app keeps the token.                                       *)
TokenRejected(c) ==
    /\ RoundTrip(c) /\ call[c].op = "use" /\ jwt[c] # "good"
    /\ \/ /\ call[c].first /\ call[c].want # "sep24"
          /\ jwt' = [jwt EXCEPT ![c] = "none"]
          /\ call' = [call EXCEPT ![c].op = "challenge", ![c].pc = "info", ![c].first = FALSE]
       \/ /\ ~call[c].first \/ call[c].want = "sep24"
          /\ Finish(c, "error")
          /\ UNCHANGED jwt
    /\ UNCHANGED <<directory, trust, line>>

(* No such server, or a host that is not allowed.                          *)
NotPublished(c) ==
    /\ At(c, "send") /\ ~RoundTrip(c)
    /\ Finish(c, "error")
    /\ UNCHANGED <<directory, jwt, trust, line>>

(* The anchor does not answer, or with an error.                           *)
UpstreamFailed(c) ==
    /\ RoundTrip(c) /\ Fault
    /\ Finish(c, "error")
    /\ UNCHANGED <<published, infoMu, cachedInfo, allow, jwt, trust, line>>

-----------------------------------------------------------------------------
(* The trustline.                                                          *)

(* The device signs what TrustlineXDR built, and it lands.                 *)
TrustlineXDR(c) ==
    /\ AccountOf[c] \in Funded
    /\ trust' = [trust EXCEPT ![AccountOf[c]] = TRUE]
    /\ UNCHANGED <<directory, call, jwt, line>>

(* The owner removes the line, with any wallet.                            *)
RemoveLine(a) ==
    /\ trust[a]
    /\ trust' = [trust EXCEPT ![a] = FALSE]
    /\ UNCHANGED <<directory, call, jwt, line>>

confirm(c) ==
    /\ call[c].op = "idle"
    /\ call' = [call EXCEPT ![c].op = "confirm", ![c].pc = "read"]
    /\ UNCHANGED <<directory, jwt, trust, line>>

(* Seeded fault for WrittenWasSeen: the client's word is enough.           *)
ConfirmTrustline_Unverified(c) ==
    /\ At(c, "read")
    /\ Goto(c, "have")
    /\ UNCHANGED <<directory, jwt, trust, line>>

(* The chain's answer decides what is written.                             *)
ConfirmTrustline(c) ==
    /\ At(c, "read")
    /\ Goto(c, IF trust[AccountOf[c]] THEN "have" ELSE "lack")
    /\ UNCHANGED <<directory, jwt, trust, line>>

(* Seeded fault for LineHeals: a missing line is only reported.            *)
SetTrustline_ActiveOnly(c) ==
    /\ call[c].pc \in {"have", "lack"}
    /\ line' = IF At(c, "have") THEN [line EXCEPT ![AccountOf[c]] = "active"] ELSE line
    /\ Finish(c, "ok")
    /\ UNCHANGED <<directory, jwt, trust>>

SetTrustline(c) ==
    /\ call[c].pc \in {"have", "lack"}
    /\ line' = [line EXCEPT ![AccountOf[c]] = IF At(c, "have") THEN "active" ELSE "missing"]
    /\ Finish(c, "ok")
    /\ UNCHANGED <<directory, jwt, trust>>

(* The chain or the database does not answer.                              *)
ConfirmFails(c) ==
    /\ call[c].op = "confirm" /\ Fault
    /\ Finish(c, "error")
    /\ UNCHANGED <<published, infoMu, cachedInfo, allow, jwt, trust, line>>

-----------------------------------------------------------------------------
(* Around it.                                                              *)

Republish ==
    /\ published' \in Tomls
    /\ UNCHANGED <<infoMu, cachedInfo, allow, faults, call, jwt, trust, line>>

TokenExpires(c) ==
    /\ jwt[c] = "good"
    /\ Fault
    /\ jwt' = [jwt EXCEPT ![c] = "old"]
    /\ UNCHANGED <<published, infoMu, cachedInfo, allow, call, trust, line>>

(* The process starts again: directory and allow-list are gone.            *)
Restart ==
    /\ Fault
    /\ infoMu' = {} /\ cachedInfo' = {} /\ allow' = {Domain}
    /\ call' = [c \in Clients |-> IF call[c].op = "idle" THEN call[c] ELSE Idle(call[c].want, "error")]
    /\ UNCHANGED <<published, jwt, trust, line>>

Serve(c) ==
    \/ CachedInfo(c) \/ Info(c) \/ FetchTOML(c) \/ TOMLUnavailable(c) \/ FetchQuoteServer(c)
    \/ startInteractive(c)
    \/ SEP10Challenge(c) \/ SEP10Token(c) \/ ProxyJSON(c) \/ TokenRejected(c)
    \/ NotPublished(c) \/ UpstreamFailed(c)
    \/ ConfirmTrustline(c) \/ SetTrustline(c) \/ ConfirmFails(c)

Ask(c) == (\E s \in Asks[c] : withToken(c, s)) \/ confirm(c) \/ TrustlineXDR(c)

Next ==
    /\ \/ \E c \in Clients : Ask(c) \/ Serve(c) \/ Stall(c) \/ TokenExpires(c)
       \/ \E a \in Accounts : RemoveLine(a)
       \/ Republish \/ Restart
    /\ Watch

Spec == Init /\ [][Next]_vars

(* Every request is served to its end unless a fetch of the toml stalls:   *)
(* the failures that could go on for ever are bounded, except that the     *)
(* second fetch may fail every time and a server may stay unpublished.     *)
(* infoMu is handed over in turn (Go's mutex does not starve a waiter).    *)
(* Nothing obliges a stalled fetch to return or the process to restart.    *)
Fairness(c) ==
    /\ WF_vars(Serve(c) /\ Watch)
    /\ SF_vars(Info(c) /\ Watch)

FairSpec == Spec /\ \A c \in Clients : Fairness(c)

-----------------------------------------------------------------------------
(* Every variable keeps its shape; at most one call holds infoMu, and it   *)
(* is one that waits for the toml.                                         *)
GatewayTypeOK ==
    /\ published \in Tomls
    /\ allow \subseteq Hosts
    /\ faults \in 0 .. MaxFaults
    /\ cachedInfo \subseteq [Servers -> Hosts \cup {NoHost}] /\ Cardinality(cachedInfo) <= 1
    /\ call \in [Clients -> [op : Ops, want : Servers, pc : Stages, first : BOOLEAN]]
    /\ jwt \in [Clients -> {"none", "good", "old"}]
    /\ trust \in [Accounts -> BOOLEAN]
    /\ line \in [Accounts -> {"none", "missing", "active"}]
    /\ seen \in [Clients -> SUBSET BOOLEAN]
    /\ {m.by : m \in infoMu} = {c \in Clients : call[c].pc \in {"toml", "quote", "stalled"}}
    /\ Cardinality(infoMu) <= 1

(* The guard of nethost never stands between a request and the anchor: a   *)
(* request that leaves Info finds the host of its endpoint allowed, also   *)
(* when another call resolved the directory or the toml changed meanwhile. *)
HostsAdmitted ==
    \A c \in Clients : At(c, "send") =>
        cachedInfo # {} /\ Endpoint(c) \in allow \cup {NoHost}

Wants(c) == call[c].want = "sep6" /\ call[c].op \in {"use", "challenge"}
Served(c) == call[c].want = "sep6" /\ call[c].pc = "ok"

(* A failure to find the optional ANCHOR_QUOTE_SERVER does not block       *)
(* SEP-6: a client that asks again and again is served again and again,    *)
(* through expired tokens, faults, restarts and another call's failed      *)
(* look-up, if no fetch is left hanging for ever.                          *)
ServedInTheEnd ==
    ([]<>(\A d \in Clients : ~At(d, "stalled")))
        => \A c \in Clients : ([]<>Wants(c)) => ([]<>Served(c))

(* A row of pay.trustlines is written only with what the chain said since  *)
(* the confirm began: never on the client's word.                          *)
WrittenWasSeen ==
    [][\A a \in Accounts : line'[a] # line[a] =>
            \E c \in Clients : AccountOf[c] = a /\ (line'[a] = "active") \in seen[c]]_vars

(* ConfirmTrustline "also repairs a row wrongly left active": when the     *)
(* trustline stays as it is and confirms go on, the row becomes right and  *)
(* stays so, whichever of two overlapping confirms writes last.            *)
LineHeals ==
    \A a \in Accounts, b \in BOOLEAN :
        (<>[](trust[a] = b)) /\ ([]<>(\E c \in Clients : AccountOf[c] = a /\ call[c].op = "confirm"))
            => <>[](line[a] = IF b THEN "active" ELSE "missing")

-----------------------------------------------------------------------------
(* What a comment says and the code does not provide.                      *)

(* Info's comment on the second fetch: "a transient failure here must      *)
(* never block SEP-10 auth or SEP-6 deposit/withdraw".  The same without   *)
(* the proviso: the failure may be that no answer comes.                   *)
OptionalNeverBlocks == \A c \in Clients : ([]<>Wants(c)) => ([]<>Served(c))
=============================================================================
