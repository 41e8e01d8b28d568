--------------------------- MODULE SessionsProofs ---------------------------
(***************************************************************************)
(* Proofs about Sessions for any number of calls, wallets and any token    *)
(* lives.                                                                  *)
(*                                                                         *)
(* BearersAreKnown speaks of tokens that have not expired and is not       *)
(* inductive: it has to hold of every token that is in the store or in a   *)
(* call, expired or not, and of a login between its row and its tokens     *)
(* (Proved); and a token in a call must be of the kind that the call is at *)
(* (Right), so that what is saved is an access token and what is presented *)
(* for a refresh was a refresh token.                                      *)
(***************************************************************************)
EXTENDS Sessions, TLAPS

USE SessionAssumption

Subjects == {"none", "challenge", "access", "refresh"}
Claims == [sub : Subjects, acct : Wallets \cup {Nobody}, iat : 0 .. MaxTime]
Points == {"idle", "sent", "refresh", "challenge", "token", "mint",
           "save", "save2", "retry", "clear", "clear2"}
Records == [pc : Points, what : {"me", "fund", "login"}, tok : Claims, retried : BOOLEAN]

Held(t, kind) == t = NoToken \/ (t.sub = kind /\ t.acct \in Wallets)

(* What kind of token a call holds at each point.                          *)
Right(pc, t) ==
    /\ pc \in {"idle", "retry", "clear", "clear2"} => t = NoToken
    /\ pc = "sent" => Held(t, "access")
    /\ pc = "refresh" => Held(t, "refresh")
    /\ pc = "challenge" => t.sub = "none" /\ t.acct \in Wallets
    /\ pc \in {"token", "mint"} => t.sub = "challenge" /\ t.acct \in Wallets
    /\ pc \in {"save", "save2"} => t.sub = "access" /\ t.acct \in Wallets

(* A token of ours names an account whose row is in U.                     *)
Proved(t, U) == t.sub \in {"access", "refresh"} => t.acct \in U

Fits(k, U) ==
    /\ k \in Records /\ Right(k.pc, k.tok) /\ Proved(k.tok, U)
    /\ k.pc \in {"mint", "save", "save2"} => k.tok.acct \in U

StoreOK ==
    /\ now \in 0 .. MaxTime /\ faults \in 0 .. MaxFaults /\ ready \in BOOLEAN
    /\ users \subseteq Wallets /\ funded \subseteq Wallets /\ wallet \in Wallets \cup {Nobody}
    /\ access \in Claims /\ Held(access, "access") /\ Proved(access, users)
    /\ refresh \in Claims /\ Held(refresh, "refresh") /\ Proved(refresh, users)

CallsOK ==
    /\ call \in [Calls -> Records]
    /\ \A c \in Calls : Fits(call[c], users)

IInv == StoreOK /\ CallsOK

-----------------------------------------------------------------------------
(* Facts about the encodings.                                              *)

LEMMA TokenFacts ==
    /\ NoToken \in Claims /\ NoToken.sub = "none" /\ NoToken.acct = Nobody /\ NoToken.iat = 0
    /\ \A s \in Subjects, a \in Wallets \cup {Nobody}, t \in 0 .. MaxTime :
            /\ Token(s, a, t) \in Claims
            /\ Token(s, a, t).sub = s /\ Token(s, a, t).acct = a /\ Token(s, a, t).iat = t
  BY DEF NoToken, Token, Claims, Subjects, Nobody

LEMMA EmptyIsProved == \A U : Proved(NoToken, U)
  BY TokenFacts DEF Proved

LEMMA IdleFits ==
    /\ Idle \in Records /\ Idle.pc = "idle" /\ Idle.tok = NoToken
    /\ \A U : Fits(Idle, U)
<1>1. Idle \in Records /\ Idle.pc = "idle" /\ Idle.tok = NoToken
  BY TokenFacts DEF Idle, Records, Points
<1>2. Right(Idle.pc, Idle.tok)
  BY <1>1 DEF Right
<1> QED
  BY <1>1, <1>2, EmptyIsProved DEF Fits

(* More rows keep what was proved.                                         *)
LEMMA FitsGrows ==
    ASSUME NEW k, NEW U, NEW V, U \subseteq V, Fits(k, U)
    PROVE  Fits(k, V)
  BY DEF Fits, Proved

(* What a call becomes when it moves to another point with a token.        *)
LEMMA MovedFits ==
    ASSUME NEW k \in Records, NEW pc \in Points, NEW t \in Claims, NEW U,
           Right(pc, t), Proved(t, U), pc \in {"mint", "save", "save2"} => t.acct \in U
    PROVE  Fits([k EXCEPT !.pc = pc, !.tok = t], U)
<1> DEFINE r == [k EXCEPT !.pc = pc, !.tok = t]
<1>1. r \in Records /\ r.pc = pc /\ r.tok = t
  BY DEF Records
<1> QED
  BY <1>1 DEF Fits

LEMMA FaultType ==
    ASSUME StoreOK, Fault
    PROVE  faults' \in 0 .. MaxFaults
  BY DEF StoreOK, Fault

-----------------------------------------------------------------------------
(* The two halves of a step.                                               *)

LEMMA StoreSame ==
    ASSUME StoreOK, faults' \in 0 .. MaxFaults,
           UNCHANGED <<now, ready, users, wallet, access, refresh>>, funded' \subseteq Wallets
    PROVE  StoreOK'
  BY DEF StoreOK

LEMMA OneCallMoves ==
    ASSUME CallsOK, NEW c \in Calls, NEW k, Become(c, k), Fits(k, users'), users \subseteq users'
    PROVE  CallsOK'
<1>1. call' = [call EXCEPT ![c] = k]
  BY DEF Become
<1>2. k \in Records
  BY DEF Fits
<1>3. call' \in [Calls -> Records] /\ call'[c] = k /\ \A d \in Calls \ {c} : call'[d] = call[d]
  BY <1>1, <1>2 DEF CallsOK
<1>4. ASSUME NEW d \in Calls
      PROVE  Fits(call'[d], users')
  <2>1. CASE d = c
    BY <1>3, <2>1
  <2>2. CASE d # c
    BY <1>3, <2>2, FitsGrows DEF CallsOK
  <2> QED
    BY <2>1, <2>2
<1> QED
  BY <1>3, <1>4 DEF CallsOK

(* The usual step: one call moves, the rest is left alone.                 *)
LEMMA Moves ==
    ASSUME IInv, NEW c \in Calls, NEW k, Become(c, k), Fits(k, users),
           UNCHANGED <<now, ready, users, device>>, funded' \subseteq Wallets,
           faults' \in 0 .. MaxFaults
    PROVE  IInv'
<1>1. UNCHANGED <<now, ready, users, wallet, access, refresh>> /\ users' = users
  BY DEF device
<1>2. StoreOK'
  BY <1>1, StoreSame DEF IInv
<1>3. CallsOK'
  BY <1>1, OneCallMoves DEF IInv
<1> QED
  BY <1>2, <1>3 DEF IInv
LEMMA GoesTo ==
    ASSUME IInv, NEW c \in Calls, NEW pc \in Points, NEW t \in Claims, Goto(c, pc, t),
           Right(pc, t), Proved(t, users), pc \in {"mint", "save", "save2"} => t.acct \in users,
           UNCHANGED <<now, ready, users, device>>, funded' \subseteq Wallets,
           faults' \in 0 .. MaxFaults
    PROVE  IInv'
<1>1. call[c] \in Records
  BY DEF IInv, CallsOK
<1>2. Fits([call[c] EXCEPT !.pc = pc, !.tok = t], users)
  BY <1>1, MovedFits
<1> QED
  BY <1>2, Moves DEF Goto

(* A call that ends, and one that goes to the clearing of the tokens.      *)
LEMMA Ends ==
    ASSUME IInv, NEW c \in Calls, Become(c, Idle),
           UNCHANGED <<now, ready, users, device>>, funded' \subseteq Wallets,
           faults' \in 0 .. MaxFaults
    PROVE  IInv'
  BY IdleFits, Moves

LEMMA Clears ==
    ASSUME IInv, NEW c \in Calls, NEW pc \in {"clear", "clear2", "retry"}, Goto(c, pc, NoToken),
           UNCHANGED <<now, ready, users, device>>, funded' \subseteq Wallets,
           faults' \in 0 .. MaxFaults
    PROVE  IInv'
<1>1. pc \in Points /\ NoToken \in Claims /\ Right(pc, NoToken)
  BY TokenFacts DEF Points, Right
<1> QED
  BY <1>1, EmptyIsProved, GoesTo

LEMMA GivesUp ==
    ASSUME IInv, NEW c \in Calls, GiveUp(c),
           UNCHANGED <<now, ready, users, device>>, funded' \subseteq Wallets,
           faults' \in 0 .. MaxFaults
    PROVE  IInv'
  BY Ends, Clears DEF GiveUp

LEMMA LoginFits ==
    ASSUME NEW a \in Wallets, NEW U
    PROVE  Fits(LoginOf(a), U)
<1> DEFINE t == [NoToken EXCEPT !.acct = a]
<1>1. t \in Claims /\ t.sub = "none" /\ t.acct = a
  BY DEF NoToken, Claims, Subjects
<1>2. LoginOf(a) \in Records /\ LoginOf(a).pc = "challenge" /\ LoginOf(a).tok = t
  BY <1>1, IdleFits DEF LoginOf, Idle, Records, Points
<1>3. Right("challenge", t) /\ Proved(t, U)
  BY <1>1 DEF Right, Proved
<1> QED
  BY <1>2, <1>3 DEF Fits

(* What is known of the token of a call.                                   *)
LEMMA CallFacts ==
    ASSUME IInv, NEW c \in Calls
    PROVE  /\ call[c] \in Records /\ call[c].tok \in Claims
           /\ Right(call[c].pc, call[c].tok) /\ Proved(call[c].tok, users)
           /\ call[c].pc \in {"mint", "save", "save2"} => call[c].tok.acct \in users
  BY DEF IInv, CallsOK, Fits, Records

(* Both tokens of a pair are for the account they were minted for.         *)
LEMMA MintFacts ==
    ASSUME IInv, NEW a \in Wallets
    PROVE  /\ mintPair(a) \in Claims /\ mintPair(a).sub = "access" /\ mintPair(a).acct = a
           /\ RefreshOf(mintPair(a)) \in Claims
  BY TokenFacts DEF IInv, StoreOK, mintPair, RefreshOf, Subjects

-----------------------------------------------------------------------------
(* One lemma per group of actions.                                         *)

LEMMA ProtectedStep ==
    ASSUME IInv, NEW c \in Calls,
           SendAny(c) \/ GetProfile(c) \/ FundOwnAccount(c) \/ Unauthorized(c) \/ retry(c)
    PROVE  IInv'
<1> USE DEF server
<1>0. /\ access \in Claims /\ Held(access, "access") /\ Proved(access, users)
      /\ refresh \in Claims /\ Held(refresh, "refresh") /\ Proved(refresh, users)
      /\ funded \subseteq Wallets /\ faults \in 0 .. MaxFaults
  BY DEF IInv, StoreOK
<1>1. CASE SendAny(c)
  <2>1. PICK what \in {"me", "fund"} : Send(c, what)
    BY <1>1 DEF SendAny
  <2> DEFINE k == [Idle EXCEPT !.pc = "sent", !.what = what, !.tok = access]
  <2>2. k \in Records /\ k.pc = "sent" /\ k.tok = access
    BY <1>0, IdleFits DEF Idle, Records, Points
  <2>3. Fits(k, users)
    BY <1>0, <2>2 DEF Fits, Right
  <2> QED
    BY <1>0, <2>1, <2>3, Moves DEF Send
<1>2. CASE GetProfile(c)
  BY <1>0, <1>2, Ends DEF GetProfile
<1>3. CASE FundOwnAccount(c)
  <2>1. VerifyAccessToken(call[c].tok)
    BY <1>3 DEF FundOwnAccount
  <2>2. call[c].tok.acct \in Wallets
    BY <2>1, CallFacts DEF VerifyAccessToken, Proved, IInv, StoreOK
  <2>3. funded' \subseteq Wallets /\ faults' \in 0 .. MaxFaults
    BY <1>0, <1>3, <2>2, FaultType DEF FundOwnAccount, Fund, FundFails, IInv
  <2> QED
    BY <1>3, <2>3, Ends DEF FundOwnAccount
<1>4. CASE Unauthorized(c)
  <2>1. \/ Become(c, Idle) \/ Goto(c, "clear", NoToken) \/ Goto(c, "refresh", refresh)
    BY <1>4 DEF Unauthorized
  <2>2. Right("refresh", refresh) /\ "refresh" \in Points
    BY <1>0 DEF Right, Points
  <2>3. UNCHANGED <<now, ready, users, device>> /\ funded' \subseteq Wallets /\ faults' \in 0 .. MaxFaults
    BY <1>0, <1>4 DEF Unauthorized
  <2>4. CASE Become(c, Idle)
    BY <2>3, <2>4, Ends
  <2>5. CASE Goto(c, "clear", NoToken)
    BY <2>3, <2>5, Clears
  <2>6. CASE Goto(c, "refresh", refresh)
    BY <1>0, <2>2, <2>3, <2>6, GoesTo
  <2> QED
    BY <2>1, <2>4, <2>5, <2>6
<1>5. CASE retry(c)
  <2> DEFINE k == [call[c] EXCEPT !.pc = "sent", !.tok = access, !.retried = TRUE]
  <2>1. k \in Records /\ k.pc = "sent" /\ k.tok = access
    BY <1>0, CallFacts DEF Records, Points
  <2>2. Fits(k, users)
    BY <1>0, <2>1 DEF Fits, Right
  <2> QED
    BY <1>0, <1>5, <2>2, Moves DEF retry
<1> QED
  BY <1>1, <1>2, <1>3, <1>4, <1>5

LEMMA LoginStep ==
    ASSUME IInv, NEW c \in Calls,
           Refresh(c) \/ login(c) \/ Challenge(c) \/ VerifyAndMint(c) \/ Mint(c)
    PROVE  IInv'
<1> USE DEF server
<1>0. /\ funded \subseteq Wallets /\ faults \in 0 .. MaxFaults /\ now \in 0 .. MaxTime
      /\ users \subseteq Wallets /\ wallet \in Wallets \cup {Nobody}
  BY DEF IInv, StoreOK
<1>1. CASE Refresh(c)
  <2> DEFINE t == call[c].tok
  <2>1. UNCHANGED <<now, ready, users, device>> /\ funded' \subseteq Wallets /\ faults' \in 0 .. MaxFaults
    BY <1>0, <1>1 DEF Refresh
  <2>2. CASE VerifyJWT(t) /\ t.sub = "refresh"
    <3>1. t.acct \in users /\ t.acct \in Wallets
      BY <1>0, <2>2, CallFacts DEF Proved
    <3>2. /\ mintPair(t.acct) \in Claims /\ Right("save", mintPair(t.acct))
          /\ Proved(mintPair(t.acct), users) /\ mintPair(t.acct).acct \in users
      BY <3>1, MintFacts DEF Right, Proved
    <3>3. Goto(c, "save", mintPair(t.acct)) /\ "save" \in Points
      BY <1>1, <2>2 DEF Refresh, Points
    <3> QED
      BY <2>1, <3>2, <3>3, GoesTo
  <2>3. CASE ~(VerifyJWT(t) /\ t.sub = "refresh")
    BY <1>1, <2>1, <2>3, GivesUp DEF Refresh
  <2> QED
    BY <2>2, <2>3
<1>2. CASE login(c)
  <2>1. wallet \in Wallets /\ Fits(LoginOf(wallet), users)
    BY <1>0, <1>2, LoginFits DEF login
  <2> QED
    BY <1>0, <1>2, <2>1, Moves DEF login
<1>3. CASE Challenge(c)
  <2> DEFINE t == Token("challenge", call[c].tok.acct, now)
  <2>1. call[c].tok.acct \in Wallets
    BY <1>3, CallFacts DEF Challenge, At, Right
  <2>2. t \in Claims /\ t.sub = "challenge" /\ t.acct \in Wallets
    BY <1>0, <2>1, TokenFacts DEF Subjects
  <2>3. Right("token", t) /\ Proved(t, users) /\ "token" \in Points
    BY <2>2 DEF Right, Proved, Points
  <2>4. Goto(c, "token", t) /\ UNCHANGED <<now, ready, users, funded, device, faults>>
    BY <1>3 DEF Challenge
  <2> QED
    BY <1>0, <2>2, <2>3, <2>4, GoesTo
<1>4. CASE VerifyAndMint(c)
  <2> DEFINE t == call[c].tok
  <2>1. t \in Claims /\ t.sub = "challenge" /\ t.acct \in Wallets /\ call[c] \in Records
    BY <1>4, CallFacts DEF VerifyAndMint, At, Right
  <2>2. CASE ReadChallengeTx(t)
    <3>1. users' = users \cup {t.acct} /\ Goto(c, "mint", t) /\ UNCHANGED <<now, ready, funded, device, faults>>
      BY <1>4, <2>2 DEF VerifyAndMint
    <3>2. StoreOK'
      BY <2>1, <3>1 DEF IInv, StoreOK, device, Proved
    <3>3. Right("mint", t) /\ Proved(t, users') /\ "mint" \in Points /\ t.acct \in users'
      BY <2>1, <3>1 DEF Right, Proved, Points
    <3>4. Fits([call[c] EXCEPT !.pc = "mint", !.tok = t], users')
      BY <2>1, <3>3, MovedFits
    <3>5. users \subseteq users'
      BY <3>1
    <3>6. CallsOK'
      BY <3>1, <3>4, <3>5, OneCallMoves DEF IInv, Goto
    <3> QED
      BY <3>2, <3>6 DEF IInv
  <2>3. CASE ~ReadChallengeTx(t)
    BY <1>0, <1>4, <2>3, GivesUp DEF VerifyAndMint
  <2> QED
    BY <2>2, <2>3
<1>5. CASE Mint(c)
  <2> DEFINE a == call[c].tok.acct
  <2>1. a \in users /\ a \in Wallets
    BY <1>0, <1>5, CallFacts DEF Mint, At
  <2>2. /\ mintPair(a) \in Claims /\ Right("save", mintPair(a))
        /\ Proved(mintPair(a), users) /\ mintPair(a).acct \in users
    BY <2>1, MintFacts DEF Right, Proved
  <2>3. funded' \subseteq Wallets /\ faults' \in 0 .. MaxFaults
    BY <1>0, <1>5, <2>1, FaultType DEF Mint, fundIfNeeded, Fund, FundFails, IInv
  <2>4. Goto(c, "save", mintPair(a)) /\ "save" \in Points /\ UNCHANGED <<now, ready, users, device>>
    BY <1>5 DEF Mint, Points
  <2> QED
    BY <2>2, <2>3, <2>4, GoesTo
<1> QED
  BY <1>1, <1>2, <1>3, <1>4, <1>5

LEMMA FailureStep ==
    ASSUME IInv, NEW c \in Calls, RequireReady(c) \/ Unanswered(c)
    PROVE  IInv'
<1>1. funded \subseteq Wallets /\ faults \in 0 .. MaxFaults
  BY DEF IInv, StoreOK
<1>2. GiveUp(c) /\ UNCHANGED <<now, ready, users, funded, device>> /\ faults' \in 0 .. MaxFaults
  BY <1>1, FaultType DEF RequireReady, Unanswered, server, IInv
<1> QED
  BY <1>1, <1>2, GivesUp

(* The writes of the token store, one key at a time.                       *)
LEMMA StoreStep ==
    ASSUME IInv, NEW c \in Calls,
           SaveAccess(c) \/ SaveRefresh(c) \/ ClearAccess(c) \/ ClearRefresh(c)
    PROVE  IInv'
<1> USE DEF server
<1> DEFINE t == call[c].tok
<1>0. t \in Claims /\ call[c] \in Records /\ Proved(t, users) /\ Proved(NoToken, users)
  BY CallFacts, EmptyIsProved
<1>1. CASE SaveAccess(c)
  <2>1. t.sub = "access" /\ t.acct \in Wallets /\ t.acct \in users
    BY <1>1, CallFacts DEF SaveAccess, At, Right
  <2>2. access' = t /\ Goto(c, "save2", t) /\ UNCHANGED <<now, ready, users, funded, wallet, refresh, faults>>
    BY <1>1 DEF SaveAccess
  <2>3. StoreOK'
    BY <1>0, <2>1, <2>2 DEF IInv, StoreOK, Held
  <2>4. Right("save2", t) /\ "save2" \in Points
    BY <2>1 DEF Right, Points
  <2>5. Fits([call[c] EXCEPT !.pc = "save2", !.tok = t], users)
    BY <1>0, <2>1, <2>4, MovedFits
  <2>6. CallsOK'
    BY <2>2, <2>5, OneCallMoves DEF IInv, Goto
  <2> QED
    BY <2>3, <2>6 DEF IInv
<1>2. CASE SaveRefresh(c)
  <2>1. t.sub = "access" /\ t.acct \in Wallets /\ t.acct \in users /\ t.iat \in 0 .. MaxTime
    BY <1>0, <1>2, CallFacts DEF SaveRefresh, At, Right, Claims
  <2>2. RefreshOf(t) \in Claims /\ RefreshOf(t).sub = "refresh" /\ RefreshOf(t).acct = t.acct
    BY <2>1, TokenFacts DEF RefreshOf, Subjects
  <2>3. refresh' = RefreshOf(t) /\ UNCHANGED <<now, ready, users, funded, wallet, access, faults>>
    BY <1>2 DEF SaveRefresh
  <2>4. StoreOK'
    BY <2>1, <2>2, <2>3 DEF IInv, StoreOK, Held, Proved
  <2>5. Right("retry", NoToken) /\ "retry" \in Points /\ NoToken \in Claims
    BY TokenFacts DEF Right, Points
  <2>6. Fits([call[c] EXCEPT !.pc = "retry", !.tok = NoToken], users) /\ Fits(Idle, users)
    BY <1>0, <2>5, MovedFits, IdleFits
  <2>7. Become(c, Idle) \/ Become(c, [call[c] EXCEPT !.pc = "retry", !.tok = NoToken])
    BY <1>2 DEF SaveRefresh, Goto
  <2>8. CallsOK'
    BY <2>3, <2>6, <2>7, OneCallMoves DEF IInv
  <2> QED
    BY <2>4, <2>8 DEF IInv
<1>3. CASE ClearAccess(c)
  <2>1. access' = NoToken /\ Goto(c, "clear2", NoToken) /\ UNCHANGED <<now, ready, users, funded, wallet, refresh, faults>>
    BY <1>3 DEF ClearAccess
  <2>2. StoreOK'
    BY <1>0, <2>1, TokenFacts DEF IInv, StoreOK, Held
  <2>3. Right("clear2", NoToken) /\ "clear2" \in Points /\ NoToken \in Claims
    BY TokenFacts DEF Right, Points
  <2>4. Fits([call[c] EXCEPT !.pc = "clear2", !.tok = NoToken], users)
    BY <1>0, <2>3, MovedFits
  <2>5. CallsOK'
    BY <2>1, <2>4, OneCallMoves DEF IInv, Goto
  <2> QED
    BY <2>2, <2>5 DEF IInv
<1>4. CASE ClearRefresh(c)
  <2>1. refresh' = NoToken /\ Become(c, Idle) /\ UNCHANGED <<now, ready, users, funded, wallet, access, faults>>
    BY <1>4 DEF ClearRefresh
  <2>2. StoreOK'
    BY <1>0, <2>1, TokenFacts DEF IInv, StoreOK, Held
  <2>3. CallsOK'
    BY <2>1, IdleFits, OneCallMoves DEF IInv
  <2> QED
    BY <2>2, <2>3 DEF IInv
<1> QED
  BY <1>1, <1>2, <1>3, <1>4

(* Everything that happens to the device, the service and the clock.       *)
LEMMA OutsideStep ==
    ASSUME IInv, ConnectAsync \/ Restart \/ logout \/ Relaunch \/ Tick
    PROVE  IInv'
<1> USE DEF server, device
<1>0. CallsOK /\ StoreOK
  BY DEF IInv
<1>1. CASE ConnectAsync \/ Tick \/ logout
  <2>1. call' = call /\ users' = users
    BY <1>1 DEF ConnectAsync, Tick, logout
  <2>2. CallsOK'
    BY <1>0, <2>1 DEF CallsOK
  <2>3. CASE ConnectAsync
    <3>1. ready' \in BOOLEAN
      BY <2>3, Zenon DEF ConnectAsync
    <3>2. UNCHANGED <<now, faults, users, funded, wallet, access, refresh>>
      BY <2>3 DEF ConnectAsync
    <3> QED
      BY <1>0, <2>2, <3>1, <3>2 DEF StoreOK, IInv
  <2>4. CASE Tick
    <3>1. now' \in 0 .. MaxTime
      BY <1>0, <2>4 DEF Tick, StoreOK
    <3>2. UNCHANGED <<ready, faults, users, funded, wallet, access, refresh>>
      BY <2>4 DEF Tick
    <3> QED
      BY <1>0, <2>2, <3>1, <3>2 DEF StoreOK, IInv
  <2>5. CASE logout
    <3>1. wallet' = Nobody /\ access' = NoToken /\ refresh' = NoToken
      BY <2>5 DEF logout
    <3>2. UNCHANGED <<now, ready, faults, users, funded>>
      BY <2>5 DEF logout
    <3>3. Held(NoToken, "access") /\ Held(NoToken, "refresh")
      BY DEF Held
    <3> QED
      BY <1>0, <2>2, <3>1, <3>2, <3>3, TokenFacts, EmptyIsProved DEF StoreOK, IInv
  <2> QED
    BY <1>1, <2>3, <2>4, <2>5
<1>2. CASE Restart \/ Relaunch
  <2>1. \A c \in Calls : call'[c] \in {Idle, call[c]}
    BY <1>2 DEF Restart, Relaunch
  <2>2. call' \in [Calls -> Records]
    BY <1>0, <1>2, IdleFits DEF Restart, Relaunch, CallsOK
  <2>3. users' = users
    BY <1>2 DEF Restart, Relaunch
  <2>4. CallsOK'
    BY <1>0, <2>1, <2>2, <2>3, IdleFits DEF CallsOK
  <2>5. StoreOK'
    BY <1>0, <1>2, FaultType DEF Restart, Relaunch, StoreOK
  <2> QED
    BY <2>4, <2>5 DEF IInv
<1> QED
  BY <1>1, <1>2

LEMMA UnlockStep ==
    ASSUME IInv, NEW c \in Calls, NEW a \in Wallets, unlock(c, a)
    PROVE  IInv'
<1>1. wallet' = a /\ Become(c, LoginOf(a)) /\ UNCHANGED <<now, ready, users, funded, access, refresh, faults>>
  BY DEF unlock, server
<1>2. StoreOK'
  BY <1>1 DEF IInv, StoreOK
<1>3. Fits(LoginOf(a), users)
  BY LoginFits
<1>4. CallsOK'
  BY <1>1, <1>3, OneCallMoves DEF IInv
<1> QED
  BY <1>2, <1>4 DEF IInv

-----------------------------------------------------------------------------
LEMMA InitInv == Init => IInv
<1> SUFFICES ASSUME Init PROVE IInv
  OBVIOUS
<1>1. StoreOK
  <2>1. ready \in BOOLEAN
    BY Zenon DEF Init
  <2>2. /\ now = 0 /\ faults = 0 /\ users = {} /\ funded = {} /\ wallet = Nobody
        /\ access = NoToken /\ refresh = NoToken
    BY DEF Init
  <2>3. Held(NoToken, "access") /\ Held(NoToken, "refresh")
    BY DEF Held
  <2> QED
    BY <2>1, <2>2, <2>3, TokenFacts, EmptyIsProved DEF StoreOK
<1>2. CallsOK
  BY IdleFits DEF Init, CallsOK
<1> QED
  BY <1>1, <1>2 DEF IInv

LEMMA NextInv == IInv /\ [Next]_vars => IInv'
<1> SUFFICES ASSUME IInv, [Next]_vars PROVE IInv'
  OBVIOUS
<1>1. CASE UNCHANGED vars
  BY <1>1 DEF vars, server, device, IInv, StoreOK, CallsOK
<1>2. ASSUME NEW c \in Calls, Step(c) \/ SendAny(c) \/ login(c)
      PROVE  IInv'
  BY <1>2, ProtectedStep, LoginStep, FailureStep, StoreStep DEF Step
<1>3. CASE logout \/ Relaunch \/ ConnectAsync \/ Restart \/ Tick
  BY <1>3, OutsideStep
<1> QED
  BY <1>1, <1>2, <1>3, UnlockStep DEF Next

LEMMA Inductive == Spec => []IInv
  BY InitInv, NextInv, PTL DEF Spec

-----------------------------------------------------------------------------
(* Every variable of the service and the device keeps its shape, and the   *)
(* two slots of the token store hold the kind of token they are for,       *)
(* whatever refreshes, logins and resets overlap.                          *)
THEOREM SessionTypeCorrect == Spec => []SessionTypeOK
<1>1. IInv => SessionTypeOK
  <2> SUFFICES ASSUME IInv PROVE SessionTypeOK
    OBVIOUS
  <2>1. access \in Tokens /\ access.sub \in {"none", "access"}
    BY TokenFacts DEF IInv, StoreOK, Held, Claims, Tokens
  <2>2. refresh \in Tokens /\ refresh.sub \in {"none", "refresh"}
    BY TokenFacts DEF IInv, StoreOK, Held, Claims, Tokens
  <2>3. \A c \in Calls : call[c].what \in {"me", "fund", "login"} /\ call[c].retried \in BOOLEAN
    BY DEF IInv, CallsOK, Records
  <2> QED
    BY <2>1, <2>2, <2>3 DEF IInv, StoreOK, SessionTypeOK
<1> QED
  BY <1>1, Inductive, PTL

(* authx and auth-service: whoever is admitted, or may refresh, logged in  *)
(* once; no chain of refreshes, failures and restarts makes a token for    *)
(* anybody else.                                                           *)
THEOREM OnlyKnownBearers == Spec => []BearersAreKnown
<1>1. IInv => BearersAreKnown
  <2> SUFFICES ASSUME IInv, NEW t \in InUse, VerifyJWT(t) PROVE t.acct \in users
    BY DEF BearersAreKnown
  <2>1. Proved(t, users)
    BY CallFacts DEF IInv, StoreOK, InUse
  <2> QED
    BY <2>1 DEF VerifyJWT, Proved
<1> QED
  BY <1>1, Inductive, PTL
=============================================================================
