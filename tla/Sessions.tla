------------------------------ MODULE Sessions ------------------------------
(***************************************************************************)
(* Sessions: pay-auth-service (SEP-10 login, access and refresh tokens,    *)
(* the faucet), pkg/authx in front of every protected route, pkg/dbx in    *)
(* front of the database, and the app's ApiClient and AuthNotifier, which  *)
(* keep one pair of tokens for all the calls that are under way at once.   *)
(*                                                                         *)
(* The service keeps no token: a token is what its claims say, so it works *)
(* until it expires.  The device's store is written key by key, and        *)
(* between any two steps of one call another call, a reset of the wallet   *)
(* or a restart of the service may come.                                   *)
(***************************************************************************)
EXTENDS Integers

CONSTANTS
    Calls,           \* what the app does at the same time
    Wallets,         \* the accounts whose phrase its user knows
    ChallengeTTL, AccessTTL, RefreshTTL,
    FundNewAccounts, \* the deployment has a faucet
    MaxTime,         \* bound: the clock stops here
    MaxFaults        \* bound: lost answers, failures and restarts

Nobody == "nobody"
TTL == [challenge |-> ChallengeTTL, access |-> AccessTTL, refresh |-> RefreshTTL]

ASSUME SessionAssumption ==
    /\ Nobody \notin Wallets
    /\ ChallengeTTL \in Nat /\ AccessTTL \in Nat /\ RefreshTTL \in Nat
    /\ FundNewAccounts \in BOOLEAN
    /\ MaxTime \in Nat /\ MaxFaults \in Nat

VARIABLES
    now,     \* the clock
    ready,   \* the service's database pool is connected
    users,   \* pay.users
    funded,  \* the accounts that exist on chain
    wallet,  \* the unlocked wallet, or Nobody
    access, refresh, \* the token store of the device
    call,    \* the calls in progress
    faults   \* how many of the bounded failures have happened

server == <<ready, users, funded>>
device == <<wallet, access, refresh>>
vars == <<now, server, device, call, faults>>

-----------------------------------------------------------------------------
(* A token is its claims; a challenge has the same shape.                  *)
NoToken == [sub |-> "none", acct |-> Nobody, iat |-> 0]
Token(sub, a, t) == [sub |-> sub, acct |-> a, iat |-> t]
Tokens == {NoToken} \cup [sub : {"challenge", "access", "refresh"}, acct : Wallets, iat : 0 .. MaxTime]
Expires(t) == t.iat + TTL[t.sub]

(* mintPair: both tokens carry one account and one moment.                 *)
mintPair(a) == Token("access", a, now)

(* Seeded fault for SessionTypeOK: the access token is stored twice.       *)
RefreshOf_Access(t) == t

RefreshOf(t) == Token("refresh", t.acct, t.iat)

(* VerifyJWT: signed here (a challenge is not), and not expired.           *)
VerifyJWT(t) == t.sub \in {"access", "refresh"} /\ now < Expires(t)

VerifyAccessToken(t) == VerifyJWT(t) /\ t.sub = "access"

(* ReadChallengeTx: the server's own, within its time bounds.              *)
ReadChallengeTx(t) == t.sub = "challenge" /\ now <= Expires(t)

Idle == [pc |-> "idle", what |-> "me", tok |-> NoToken, retried |-> FALSE]

Init ==
    /\ now = 0 /\ ready = FALSE /\ users = {} /\ funded = {}
    /\ wallet = Nobody /\ access = NoToken /\ refresh = NoToken
    /\ call = [c \in Calls |-> Idle]
    /\ faults = 0

At(c, pc) == call[c].pc = pc
Become(c, k) == call' = [call EXCEPT ![c] = k]
Goto(c, pc, t) == Become(c, [call[c] EXCEPT !.pc = pc, !.tok = t])
Fault == faults < MaxFaults /\ faults' = faults + 1

-----------------------------------------------------------------------------
(* The service's database.                                                 *)

ConnectAsync ==
    /\ ~ready /\ ready' = TRUE
    /\ UNCHANGED <<now, users, funded, device, call, faults>>

(* A restart ends the requests that were being served.                     *)
Restart ==
    /\ ready /\ Fault /\ ready' = FALSE
    /\ call' = [c \in Calls |-> IF At(c, "mint") THEN Idle ELSE call[c]]
    /\ UNCHANGED <<now, users, funded, device>>

(* What a call does when it gets no answer, or one that it did not want:   *)
(* a refresh that fails for any reason ends in the clearing of the tokens. *)

(* Seeded fault for SessionComesBack: a failed refresh leaves the tokens.  *)
GiveUp_KeepTokens(c) == Become(c, Idle)

GiveUp(c) == IF At(c, "refresh") THEN Goto(c, "clear", NoToken) ELSE Become(c, Idle)

WithServer == {"sent", "refresh", "challenge", "token", "mint"}

Unanswered(c) ==
    /\ call[c].pc \in WithServer /\ Fault /\ GiveUp(c)
    /\ UNCHANGED <<now, server, device>>

(* RequireReady answers 503 while the pool is not connected.               *)
RequireReady(c) ==
    /\ call[c].pc \in WithServer \ {"mint"} /\ ~ready /\ GiveUp(c)
    /\ UNCHANGED <<now, server, device, faults>>

-----------------------------------------------------------------------------
(* A protected call: POST /auth/fund, or any other ("me").                 *)

Send(c, what) ==
    /\ At(c, "idle") /\ wallet # Nobody
    /\ Become(c, [Idle EXCEPT !.pc = "sent", !.what = what, !.tok = access])
    /\ UNCHANGED <<now, server, device, faults>>

(* GetProfile reads the bearer's own row.                                  *)
GetProfile(c) ==
    /\ At(c, "sent") /\ call[c].what = "me" /\ ready /\ VerifyAccessToken(call[c].tok)
    /\ Become(c, Idle)
    /\ UNCHANGED <<now, server, device, faults>>

(* Friendbot: creates the account, or fails.                               *)
Fund(a) == funded' = funded \cup {a} /\ UNCHANGED faults
FundFails == UNCHANGED funded /\ Fault

FundOwnAccount(c) ==
    /\ At(c, "sent") /\ call[c].what = "fund" /\ ready /\ VerifyAccessToken(call[c].tok)
    /\ IF FundNewAccounts THEN Fund(call[c].tok.acct) \/ FundFails ELSE UNCHANGED <<funded, faults>>
    /\ Become(c, Idle)
    /\ UNCHANGED <<now, ready, users, device>>

(* 401: the first time, with a refresh token at hand, that is tried.       *)
Unauthorized(c) ==
    /\ At(c, "sent") /\ ready /\ ~VerifyAccessToken(call[c].tok)
    /\ CASE call[c].retried -> Become(c, Idle)
         [] ~call[c].retried /\ refresh = NoToken -> Goto(c, "clear", NoToken)
         [] OTHER -> Goto(c, "refresh", refresh)
    /\ UNCHANGED <<now, server, device, faults>>

(* Refresh: no rotation, no revocation; every refresh starts the 30 days   *)
(* again.                                                                  *)
Refresh(c) ==
    LET t == call[c].tok
    IN  /\ At(c, "refresh") /\ ready
        /\ IF VerifyJWT(t) /\ t.sub = "refresh" THEN Goto(c, "save", mintPair(t.acct)) ELSE GiveUp(c)
        /\ UNCHANGED <<now, server, device, faults>>

-----------------------------------------------------------------------------
(* Logging in.                                                             *)

LoginOf(a) == [Idle EXCEPT !.pc = "challenge", !.what = "login", !.tok = [NoToken EXCEPT !.acct = a]]

(* AuthGatePage logs in whenever it is not sure of a session ...           *)
login(c) ==
    /\ At(c, "idle") /\ wallet # Nobody
    /\ Become(c, LoginOf(wallet))
    /\ UNCHANGED <<now, server, device, faults>>

(* ... everything else only when there is no access token.                 *)
ensureSession(c) == access = NoToken /\ login(c)

Challenge(c) ==
    /\ At(c, "challenge") /\ ready
    /\ Goto(c, "token", Token("challenge", call[c].tok.acct, now))
    /\ UNCHANGED <<now, server, device, faults>>

(* VerifyAndMint up to UpsertUser: the challenge, signed by the account it *)
(* names.                                                                  *)

(* Seeded fault for BearersAreKnown: the row is written afterwards, if at  *)
(* all.                                                                    *)
VerifyAndMint_NoRow(c) ==
    LET t == call[c].tok
    IN  /\ At(c, "token") /\ ready
        /\ IF ReadChallengeTx(t) THEN Goto(c, "mint", t) ELSE GiveUp(c)
        /\ UNCHANGED <<now, server, device, faults>>

VerifyAndMint(c) ==
    LET t == call[c].tok
    IN  /\ At(c, "token") /\ ready
        /\ IF ReadChallengeTx(t) THEN users' = users \cup {t.acct} /\ Goto(c, "mint", t)
                                 ELSE UNCHANGED users /\ GiveUp(c)
        /\ UNCHANGED <<now, ready, funded, device, faults>>

(* fundIfNeeded asks the chain whether the account exists; nothing that    *)
(* goes wrong here fails the login.                                        *)

(* Seeded fault for LoginFunds: the user's row is asked instead.           *)
fundIfNeeded_ByRow(a) ==
    IF ~FundNewAccounts \/ a \in users THEN UNCHANGED <<funded, faults>> ELSE Fund(a) \/ FundFails

fundIfNeeded(a) ==
    IF ~FundNewAccounts \/ a \in funded THEN UNCHANGED <<funded, faults>> ELSE Fund(a) \/ FundFails

Mint(c) ==
    /\ At(c, "mint")
    /\ fundIfNeeded(call[c].tok.acct)
    /\ Goto(c, "save", mintPair(call[c].tok.acct))
    /\ UNCHANGED <<now, ready, users, device>>

-----------------------------------------------------------------------------
(* The token store.                                                        *)

SaveAccess(c) ==
    /\ At(c, "save") /\ access' = call[c].tok
    /\ Goto(c, "save2", call[c].tok)
    /\ UNCHANGED <<now, server, wallet, refresh, faults>>

SaveRefresh(c) ==
    /\ At(c, "save2") /\ refresh' = RefreshOf(call[c].tok)
    /\ IF call[c].what = "login" THEN Become(c, Idle) ELSE Goto(c, "retry", NoToken)
    /\ UNCHANGED <<now, server, wallet, access, faults>>

(* The repeated call goes through the interceptor again.                   *)
retry(c) ==
    /\ At(c, "retry")
    /\ Become(c, [call[c] EXCEPT !.pc = "sent", !.tok = access, !.retried = TRUE])
    /\ UNCHANGED <<now, server, device, faults>>

ClearAccess(c) ==
    /\ At(c, "clear") /\ access' = NoToken
    /\ Goto(c, "clear2", NoToken)
    /\ UNCHANGED <<now, server, wallet, refresh, faults>>

ClearRefresh(c) ==
    /\ At(c, "clear2") /\ refresh' = NoToken
    /\ Become(c, Idle)
    /\ UNCHANGED <<now, server, wallet, access, faults>>

(* "Reset wallet": the store is emptied, the calls go on.                  *)
logout ==
    /\ wallet # Nobody
    /\ wallet' = Nobody /\ access' = NoToken /\ refresh' = NoToken
    /\ UNCHANGED <<now, server, call, faults>>

(* A wallet is created or restored, and AuthGatePage logs it in.           *)
unlock(c, a) ==
    /\ wallet = Nobody /\ wallet' = a
    /\ At(c, "idle") /\ Become(c, LoginOf(a))
    /\ UNCHANGED <<now, server, access, refresh, faults>>

(* The app is killed and opened again, with the wallet it has stored.      *)
Relaunch ==
    /\ Fault /\ call' = [c \in Calls |-> Idle]
    /\ UNCHANGED <<now, server, device>>

Tick ==
    /\ now < MaxTime /\ now' = now + 1
    /\ UNCHANGED <<server, device, call, faults>>

-----------------------------------------------------------------------------
Step(c) ==
    \/ GetProfile(c) \/ FundOwnAccount(c) \/ Unauthorized(c) \/ Refresh(c)
    \/ Challenge(c) \/ VerifyAndMint(c) \/ Mint(c) \/ RequireReady(c) \/ Unanswered(c)
    \/ SaveAccess(c) \/ SaveRefresh(c) \/ retry(c) \/ ClearAccess(c) \/ ClearRefresh(c)

SendAny(c) == \E what \in {"me", "fund"} : Send(c, what)

Next ==
    \/ \E c \in Calls : Step(c) \/ SendAny(c) \/ login(c) \/ \E a \in Wallets : unlock(c, a)
    \/ logout \/ Relaunch \/ ConnectAsync \/ Restart \/ Tick

Spec == Init /\ [][Next]_vars

(* A call that was begun goes on; the pool connects; the app keeps asking  *)
(* (its timers) and comes to ensureSession again and again (the retry of   *)
(* the offline queue, the banner).                                         *)
FairSpec ==
    /\ Spec
    /\ WF_vars(ConnectAsync)
    /\ \A c \in Calls : WF_vars(Step(c))
    /\ WF_vars(\E c \in Calls : SendAny(c))
    /\ SF_vars(\E c \in Calls : ensureSession(c))

-----------------------------------------------------------------------------
InUse == {access, refresh} \cup {call[c].tok : c \in Calls}

(* Every variable keeps its shape, and each slot of the store holds the    *)
(* kind of token it is for.                                                *)
SessionTypeOK ==
    /\ now \in 0 .. MaxTime /\ faults \in 0 .. MaxFaults /\ ready \in BOOLEAN
    /\ users \subseteq Wallets /\ funded \subseteq Wallets /\ wallet \in Wallets \cup {Nobody}
    /\ access \in {t \in Tokens : t.sub \in {"none", "access"}}
    /\ refresh \in {t \in Tokens : t.sub \in {"none", "refresh"}}
    /\ \A c \in Calls : call[c].what \in {"me", "fund", "login"} /\ call[c].retried \in BOOLEAN

(* Whoever is admitted proved ownership once: through any chain of         *)
(* refreshes and restarts, an account that a token opens a route for has   *)
(* its row in pay.users.                                                   *)
BearersAreKnown == \A t \in InUse : VerifyJWT(t) => t.acct \in users

(* Refreshes that fail, race each other or race a login do not lock the    *)
(* device out: as long as a wallet stays unlocked, the store comes to hold *)
(* a token that works, again and again.                                    *)
SessionComesBack == <>[](wallet # Nobody) => []<>VerifyAccessToken(access)

(* fundIfNeeded: "makes a previously-failed fund self-heal on the user's   *)
(* next login".                                                            *)
LoggingIn(a) == \E c \in Calls : At(c, "mint") /\ call[c].tok.acct = a
LoginFunds == \A a \in Wallets : []<>LoggingIn(a) => <>(a \in funded)
=============================================================================
