-------------------------- MODULE AuthSession_proofs --------------------------
(***************************************************************************)
(* Proofs about AuthSession, for any number of requests, tokens and        *)
(* sessions and for every fault.  What has ended cannot come back because  *)
(* a key is only ever stored by the request that drew its id, before any   *)
(* browser has heard of it.                                                *)
(***************************************************************************)
EXTENDS AuthSession, TLAPS

Known(j) == claims[j] # NoClaims

(* A JWT bears the region of its session's login. *)
ClaimsInv ==
  /\ \A j \in Tokens : Known(j) =>
       /\ claims[j] \in Claims
       /\ region[SessionOf(j)] = claims[j].region
  /\ \A s \in session : region[s] \in Regions

(* A browser sends only what it has received. *)
HeldInv ==
  /\ \A j \in held : Known(j)
  /\ jar \in held \union {NoToken}
  /\ \A r \in Requests : carried[r] \in held \union {NoToken}

(* A token has one issuer, whose response is the first that shows it. *)
IssuedInv ==
  /\ \A r \in Requests : issued[r] # NoToken =>
       /\ Known(issued[r])
       /\ issued[r] \in held => pc[r] = "answered"
       /\ \A q \in Requests \ {r} : issued[q] # issued[r]
  /\ \A r \in Requests :
       /\ pc[r] \in LoginSteps \union {"storeNew", "reply"} => issued[r] # NoToken
       /\ pc[r] \in {"start", "findToken", "rotate", "readSession", "admin"} => issued[r] = NoToken
       /\ pc[r] \in LoginSteps \union {"start"} => carried[r] = NoToken
       /\ pc[r] \in RefreshSteps \union {"findSession", "endSession", "endToken", "admin"}
            => carried[r] # NoToken

(* Nobody else has a token of a session that is being opened. *)
LoginInv ==
  \A q \in Requests : pc[q] \in LoginSteps =>
    /\ \A r \in Requests \ {q} :
         issued[r] # NoToken => SessionOf(issued[r]) # SessionOf(issued[q])
    /\ \A j \in held : SessionOf(j) # SessionOf(issued[q])

(* Why a late request will be refused. *)
LateInv ==
  \A r \in late :
    /\ issued[r] = NoToken
    /\ pc[r] \notin {"start", "storeNew", "reply", "admitted"} \union LoginSteps
    /\ pc[r] = "findToken" => Ended(carried[r])
    /\ pc[r] \in {"rotate", "readSession", "admin"} => SessionOf(carried[r]) \notin session

(* A token is deleted before its successor is drawn. *)
ExchangeInv ==
  \A r \in Requests :
    carried[r] # NoToken /\ (pc[r] = "readSession" \/ issued[r] # NoToken)
      => carried[r] \notin refresh

(* Why the refresh token a browser was given may be gone. *)
WhyGone ==
  \A j \in held :
    \/ j \in refresh
    \/ Lapsed(j)
    \/ SessionOf(j) \notin session
    \/ \E q \in Requests : carried[q] = j /\ Exchanging(q)

(* Nobody deletes a refresh token before it was sent. *)
StoredInv ==
  \A q \in Requests : pc[q] \in {"storeSession", "reply"} =>
    issued[q] \in refresh \/ Lapsed(issued[q])

(* A refresh that was answered has replaced the cookie it was sent with. *)
CookieInv ==
  \A q \in Requests : pc[q] = "answered" /\ carried[q] # NoToken => jar # carried[q]

(* Why a logout may leave its session. *)
LogoutInv ==
  /\ LogoutEnds
  /\ \A r \in Requests :
       /\ pc[r] \in {"clear", "loggedOut"} => carried[r] # NoToken
       /\ pc[r] = "endToken" => carried[r] \notin refresh \/ r \in faulted

Inv ==
  /\ TypeOK /\ ClaimsInv /\ HeldInv /\ IssuedInv /\ LoginInv /\ LateInv /\ ExchangeInv
  /\ WhyGone /\ StoredInv /\ CookieInv /\ LogoutInv

-------------------------------------------------------------------------------
(* The invariant holds initially. *)
LEMMA InitInv == Init => Inv
BY AuthSessionAssumption, NullAssumption
   DEF Init, Inv, TypeOK, ClaimsInv, HeldInv, IssuedInv, LoginInv, LateInv, ExchangeInv,
       WhyGone, StoredInv, CookieInv, LogoutInv, LogoutEnds, Known, LoginSteps, RefreshSteps, NoTime

-------------------------------------------------------------------------------
(* A request that issues a JWT draws a JTI that no request has seen. *)
LEMMA IssueFresh ==
  ASSUME TypeOK, NEW r \in Requests, NEW s \in Sessions, NEW g \in Regions,
         IssueAccessJWT(r, s, g)
  PROVE  \E j \in Tokens, c \in Claims :
           /\ ~Known(j)
           /\ c.session = s
           /\ c.region = g
           /\ claims' = [claims EXCEPT ![j] = c]
           /\ issued' = [issued EXCEPT ![r] = j]
<1> DEFINE j == CHOOSE j \in FreshTokens : TRUE
<1>1. j \in Tokens /\ ~Known(j)
  BY DEF IssueAccessJWT, FreshTokens, Known
<1>2. PICK t \in InstanceClock :
        claims' = [claims EXCEPT ![j] = [session |-> s, region |-> g, until |-> t + AccessTTL]]
  BY DEF IssueAccessJWT
<1>3. t + AccessTTL \in Int
  BY AuthSessionAssumption DEF TypeOK, InstanceClock
<1>4. [session |-> s, region |-> g, until |-> t + AccessTTL] \in Claims
  BY <1>3 DEF Claims
<1>5. issued' = [issued EXCEPT ![r] = j]
  BY DEF IssueAccessJWT
<1> QED  BY <1>1, <1>2, <1>4, <1>5

-------------------------------------------------------------------------------

(* The steps that store a key: its id was drawn by r and is in no browser yet. *)
LEMMA StoreKeeps ==
  ASSUME Inv, NEW r \in Requests, StoreToken(r) \/ StoreSession(r) \/ StoreNew(r)
  PROVE  Inv'
<1> USE AuthSessionAssumption, NullAssumption
    DEF Inv, TypeOK, LoginSteps, RefreshSteps, NoTime, SessionOf, redisVars, browserVars,
        StoreToken, StoreSession, StoreNew, IssueRefreshToken, StoreRefresh, OpenSession, Fault,
        Goto
<1>1. TypeOK'
  <2>1. pc[r] = "storeSession" => SessionOf(issued[r]) \in Sessions
    BY DEF ClaimsInv, IssuedInv, Known, Claims
  <2> QED  BY <2>1 DEF IssuedInv, LogoutSteps, Ends
<1>2. ClaimsInv' /\ HeldInv'
  BY DEF ClaimsInv, HeldInv, IssuedInv, Known, Claims
<1>3. IssuedInv'
  BY DEF HeldInv, IssuedInv, Known
<1>4. LoginInv' /\ LateInv'
  BY DEF HeldInv, IssuedInv, LoginInv, LateInv, Ended
<1>5. ExchangeInv'
  BY DEF HeldInv, IssuedInv, ExchangeInv
<1>6. WhyGone' /\ StoredInv'
  BY DEF HeldInv, IssuedInv, LoginInv, WhyGone, StoredInv, LogoutInv, Lapsed, Exchanging
<1>7. CookieInv' /\ LogoutInv'
  BY DEF HeldInv, IssuedInv, LoginInv, WhyGone, CookieInv, LogoutInv, LogoutEnds, Lapsed, Exchanging
<1> QED  BY <1>1, <1>2, <1>3, <1>4, <1>5, <1>6, <1>7

(* A response shows its token to the browser for the first time. *)
LEMMA ReplyKeeps ==
  ASSUME Inv, NEW r \in Requests, Reply(r)
  PROVE  Inv'
<1> USE AuthSessionAssumption, NullAssumption
    DEF Inv, TypeOK, LoginSteps, RefreshSteps, NoTime, SessionOf, redisVars, browserVars, Reply,
        Goto
<1>1. TypeOK'
  BY DEF ClaimsInv, IssuedInv, Known, LogoutSteps, Ends
<1>2. ClaimsInv' /\ HeldInv'
  BY DEF ClaimsInv, HeldInv, IssuedInv, Known, Claims
<1>3. IssuedInv'
  BY DEF HeldInv, IssuedInv, Known
<1>4. LoginInv' /\ LateInv'
  BY DEF HeldInv, IssuedInv, LoginInv, LateInv, Ended
<1>5. ExchangeInv'
  BY DEF HeldInv, IssuedInv, ExchangeInv
<1>6. WhyGone' /\ StoredInv'
  BY DEF HeldInv, IssuedInv, LoginInv, WhyGone, StoredInv, LogoutInv, Lapsed, Exchanging
<1>7. CookieInv' /\ LogoutInv'
  BY DEF HeldInv, IssuedInv, LoginInv, WhyGone, CookieInv, LogoutInv, LogoutEnds, Lapsed, Exchanging
<1> QED  BY <1>1, <1>2, <1>3, <1>4, <1>5, <1>6, <1>7

(* Refresh, up to the deletion of its token. *)
LEMMA RefreshKeeps ==
  ASSUME Inv, NEW r \in Requests, StartRefresh(r) \/ FindToken(r) \/ Rotate(r)
  PROVE  Inv'
<1> USE AuthSessionAssumption, NullAssumption
    DEF Inv, TypeOK, LoginSteps, RefreshSteps, NoTime, SessionOf, redisVars, browserVars,
        StartRefresh, FindToken, Rotate, Fault, Goto
<1>1. TypeOK'
  BY DEF ClaimsInv, IssuedInv, Known, LogoutSteps, Ends
<1>2. ClaimsInv' /\ HeldInv'
  BY DEF ClaimsInv, HeldInv, IssuedInv, Known, Claims
<1>3. IssuedInv'
  BY DEF HeldInv, IssuedInv, Known
<1>4. LoginInv' /\ LateInv'
  BY DEF HeldInv, IssuedInv, LoginInv, LateInv, Ended
<1>5. ExchangeInv'
  BY DEF HeldInv, IssuedInv, ExchangeInv
<1>6. WhyGone' /\ StoredInv'
  BY DEF HeldInv, IssuedInv, LoginInv, WhyGone, StoredInv, LogoutInv, Lapsed, Exchanging
<1>7. CookieInv' /\ LogoutInv'
  BY DEF HeldInv, IssuedInv, LoginInv, WhyGone, CookieInv, LogoutInv, LogoutEnds, Lapsed, Exchanging
<1> QED  BY <1>1, <1>2, <1>3, <1>4, <1>5, <1>6, <1>7

(* Logout only removes keys. *)
LEMMA LogoutKeeps ==
  ASSUME Inv, NEW r \in Requests, StartLogout(r) \/ FindSession(r) \/ EndSession(r) \/ EndToken(r) \/ ClearCookie(r)
  PROVE  Inv'
<1> USE AuthSessionAssumption, NullAssumption
    DEF Inv, TypeOK, LoginSteps, RefreshSteps, NoTime, SessionOf, redisVars, browserVars,
        StartLogout, FindSession, EndSession, EndToken, ClearCookie, Fault, Goto
<1>1. TypeOK'
  BY DEF ClaimsInv, IssuedInv, Known, LogoutSteps, Ends
<1>2. ClaimsInv' /\ HeldInv'
  BY DEF ClaimsInv, HeldInv, IssuedInv, Known, Claims
<1>3. IssuedInv'
  BY DEF HeldInv, IssuedInv, Known
<1>4. LoginInv' /\ LateInv'
  BY DEF HeldInv, IssuedInv, LoginInv, LateInv, Ended
<1>5. ExchangeInv'
  BY DEF HeldInv, IssuedInv, ExchangeInv
<1>6. WhyGone' /\ StoredInv'
  BY DEF HeldInv, IssuedInv, LoginInv, WhyGone, StoredInv, LogoutInv, Lapsed, Exchanging
<1>7. CookieInv' /\ LogoutInv'
  BY DEF HeldInv, IssuedInv, LoginInv, WhyGone, CookieInv, LogoutInv, LogoutEnds, Lapsed, Exchanging
<1> QED  BY <1>1, <1>2, <1>3, <1>4, <1>5, <1>6, <1>7

(* RequireAdmin changes no key. *)
LEMMA AdminKeeps ==
  ASSUME Inv, NEW r \in Requests, StartAdmin(r) \/ CheckSession(r)
  PROVE  Inv'
<1> USE AuthSessionAssumption, NullAssumption
    DEF Inv, TypeOK, LoginSteps, RefreshSteps, NoTime, SessionOf, redisVars, browserVars,
        StartAdmin, CheckSession, Fault, Goto
<1>1. TypeOK'
  BY DEF ClaimsInv, IssuedInv, Known, LogoutSteps, Ends
<1>2. ClaimsInv' /\ HeldInv'
  BY DEF ClaimsInv, HeldInv, IssuedInv, Known, Claims
<1>3. IssuedInv'
  BY DEF HeldInv, IssuedInv, Known
<1>4. LoginInv' /\ LateInv'
  BY DEF HeldInv, IssuedInv, LoginInv, LateInv, Ended
<1>5. ExchangeInv'
  BY DEF HeldInv, IssuedInv, ExchangeInv
<1>6. WhyGone' /\ StoredInv'
  BY DEF HeldInv, IssuedInv, LoginInv, WhyGone, StoredInv, LogoutInv, Lapsed, Exchanging
<1>7. CookieInv' /\ LogoutInv'
  BY DEF HeldInv, IssuedInv, LoginInv, WhyGone, CookieInv, LogoutInv, LogoutEnds, Lapsed, Exchanging
<1> QED  BY <1>1, <1>2, <1>3, <1>4, <1>5, <1>6, <1>7

(* A request that dies leaves everything as it is. *)
LEMMA FailKeeps ==
  ASSUME Inv, NEW r \in Requests, Fail(r)
  PROVE  Inv'
<1> USE AuthSessionAssumption, NullAssumption
    DEF Inv, TypeOK, LoginSteps, RefreshSteps, NoTime, SessionOf, redisVars, browserVars, Fail, Goto
<1>1. TypeOK'
  BY DEF ClaimsInv, IssuedInv, Known, LogoutSteps, Ends
<1>2. ClaimsInv' /\ HeldInv'
  BY DEF ClaimsInv, HeldInv, IssuedInv, Known, Claims, Ends
<1>3. IssuedInv'
  BY DEF HeldInv, IssuedInv, Known, Ends
<1>4. LoginInv' /\ LateInv'
  BY DEF HeldInv, IssuedInv, LoginInv, LateInv, Ended, Ends
<1>5. ExchangeInv'
  BY DEF HeldInv, IssuedInv, ExchangeInv, Ends
<1>6. WhyGone' /\ StoredInv'
  BY DEF HeldInv, IssuedInv, LoginInv, WhyGone, StoredInv, LogoutInv, Lapsed, Exchanging, Ends
<1>7. CookieInv' /\ LogoutInv'
  BY DEF HeldInv, IssuedInv, LoginInv, WhyGone, CookieInv, LogoutInv, LogoutEnds, Lapsed,
         Exchanging, Ends
<1> QED  BY <1>1, <1>2, <1>3, <1>4, <1>5, <1>6, <1>7

(* Time only removes keys. *)
LEMMA TickKeeps ==
  ASSUME Inv, Tick
  PROVE  Inv'
<1> USE DEF Inv, browserVars
<1>1. /\ refresh' \subseteq refresh /\ session' \subseteq session /\ now' \in Nat
      /\ UNCHANGED <<storedAt, startedAt, region, claims, browserVars, pc, carried, issued, late,
                      faulted>>
  BY DEF TypeOK, Tick
<1>2. TypeOK'
  BY <1>1 DEF TypeOK
<1>3. ClaimsInv' /\ HeldInv' /\ IssuedInv' /\ LoginInv'
  BY <1>1 DEF ClaimsInv, HeldInv, IssuedInv, LoginInv, Known, SessionOf
<1>4. LateInv' /\ ExchangeInv'
  BY <1>1 DEF LateInv, ExchangeInv, Ended, SessionOf
<1>5. \A j \in Tokens : /\ j \in refresh => j \in refresh' \/ Lapsed(j)'
                        /\ Lapsed(j) => Lapsed(j)'
  BY <1>1, AuthSessionAssumption DEF Tick, TypeOK, Lapsed, NoTime
<1>6. WhyGone' /\ StoredInv'
  <2>1. held \subseteq Tokens
    BY DEF TypeOK
  <2>2. \A q \in Requests : pc[q] \in {"storeSession", "reply"} => issued[q] \in Tokens
    BY DEF TypeOK, IssuedInv, LoginSteps
  <2>3. WhyGone'
    BY <1>1, <1>5, <2>1 DEF WhyGone, Exchanging, SessionOf
  <2> QED  BY <1>1, <1>5, <2>2, <2>3 DEF StoredInv
<1>7. CookieInv' /\ LogoutInv'
  BY <1>1, <1>5 DEF TypeOK, CookieInv, LogoutInv, LogoutEnds, Exchanging, SessionOf
<1> QED  BY <1>2, <1>3, <1>4, <1>6, <1>7

(* A login draws a session and a token that nobody knows. *)
LEMMA StartLoginKeeps ==
  ASSUME Inv, NEW r \in Requests, StartLogin(r)
  PROVE  Inv'
<1> USE NullAssumption DEF Inv, LoginSteps, RefreshSteps, browserVars
<1> DEFINE s == CHOOSE s \in FreshSessions : TRUE
<1>1. s \in Sessions /\ region[s] = NoRegion
  BY DEF StartLogin, FreshSessions
<1>2. PICK g \in Regions : region' = [region EXCEPT ![s] = g] /\ IssueAccessJWT(r, s, g)
  BY DEF StartLogin
<1>3. PICK j \in Tokens, c \in Claims :
        /\ ~Known(j) /\ c.session = s /\ c.region = g
        /\ claims' = [claims EXCEPT ![j] = c]
        /\ issued' = [issued EXCEPT ![r] = j]
  BY <1>1, <1>2, IssueFresh
<1>4. /\ pc[r] = "start" /\ pc' = [pc EXCEPT ![r] = "storeToken"]
      /\ UNCHANGED <<now, refresh, storedAt, session, startedAt, browserVars, carried, late, faulted>>
  BY DEF StartLogin, Goto
<1> HIDE DEF s
<1>5. c # NoClaims /\ \A i \in Tokens : Known(i) => SessionOf(i) # s /\ SessionOf(i) \in Sessions
  BY <1>1 DEF ClaimsInv, Claims, SessionOf
<1>6. TypeOK'
  BY <1>1, <1>2, <1>3, <1>4 DEF TypeOK
<1>7. ClaimsInv'
  BY <1>1, <1>2, <1>3, <1>4, <1>5 DEF TypeOK, ClaimsInv, Known, SessionOf, Claims
<1>8. HeldInv' /\ IssuedInv'
  BY <1>3, <1>4, <1>5 DEF TypeOK, HeldInv, IssuedInv, Known
<1>9. LoginInv'
  BY <1>3, <1>4, <1>5 DEF TypeOK, HeldInv, IssuedInv, LoginInv, Known, SessionOf
<1>10. LateInv' /\ ExchangeInv'
  BY <1>3, <1>4 DEF TypeOK, HeldInv, IssuedInv, LateInv, ExchangeInv, Known, Ended, SessionOf
<1>11. WhyGone' /\ StoredInv' /\ CookieInv' /\ LogoutInv'
  BY <1>3, <1>4, <1>5 DEF TypeOK, HeldInv, IssuedInv, WhyGone, StoredInv, CookieInv, LogoutInv,
     LogoutEnds, Known, SessionOf, Lapsed, Exchanging
<1> QED  BY <1>6, <1>7, <1>8, <1>9, <1>10, <1>11

(* A refresh draws a token for the session of the one it carries. *)
LEMMA ReadSessionKeeps ==
  ASSUME Inv, NEW r \in Requests, ReadSession(r)
  PROVE  Inv'
<1> USE NullAssumption DEF Inv, LoginSteps, RefreshSteps, redisVars, browserVars
<1> DEFINE s == SessionOf(carried[r])
<1>1. CASE /\ (s \notin session /\ UNCHANGED faulted) \/ Fault(r)
           /\ Goto(r, "refused")
           /\ UNCHANGED <<claims, issued>>
  <2>1. /\ pc[r] = "readSession" /\ pc' = [pc EXCEPT ![r] = "refused"]
        /\ faulted \subseteq faulted' /\ faulted' \subseteq Requests
        /\ s \notin session \/ r \in faulted'
        /\ UNCHANGED <<redisVars, claims, browserVars, carried, issued, late>>
    BY <1>1 DEF ReadSession, Goto, Fault, TypeOK
  <2>2. TypeOK' /\ ClaimsInv' /\ HeldInv' /\ IssuedInv'
    BY <2>1 DEF TypeOK, ClaimsInv, HeldInv, IssuedInv, Known, SessionOf, Ends
  <2>3. LoginInv' /\ LateInv' /\ ExchangeInv'
    BY <2>1 DEF TypeOK, IssuedInv, LoginInv, LateInv, ExchangeInv, SessionOf, Ended
  <2>4. WhyGone' /\ StoredInv' /\ CookieInv' /\ LogoutInv'
    BY <2>1 DEF TypeOK, WhyGone, StoredInv, CookieInv, LogoutInv, LogoutEnds, Exchanging, Lapsed,
                SessionOf
  <2> QED  BY <2>2, <2>3, <2>4
<1>2. CASE s \in session /\ IssueAccessJWT(r, s, region[s]) /\ Goto(r, "storeNew") /\ UNCHANGED faulted
  <2>1. s \in Sessions /\ region[s] \in Regions
    BY <1>2 DEF TypeOK, ClaimsInv
  <2>2. PICK j \in Tokens, c \in Claims :
          /\ ~Known(j) /\ c.session = s /\ c.region = region[s]
          /\ claims' = [claims EXCEPT ![j] = c]
          /\ issued' = [issued EXCEPT ![r] = j]
    BY <1>2, <2>1, IssueFresh
  <2>3. /\ pc[r] = "readSession" /\ pc' = [pc EXCEPT ![r] = "storeNew"]
        /\ UNCHANGED <<redisVars, browserVars, carried, late, faulted>>
    BY <1>2 DEF ReadSession, Goto
  <2>4. c # NoClaims /\ carried[r] \in held /\ issued[r] = NoToken
    BY <2>3 DEF Claims, HeldInv, IssuedInv
  <2>5. TypeOK'
    BY <2>2, <2>3 DEF TypeOK
  <2>6. ClaimsInv'
    BY <2>2, <2>3, <2>4 DEF TypeOK, ClaimsInv, Known, SessionOf, Claims
  <2>7. HeldInv' /\ IssuedInv'
    BY <2>2, <2>3, <2>4 DEF TypeOK, HeldInv, IssuedInv, Known
  <2>8. LoginInv'
    BY <2>2, <2>3, <2>4 DEF TypeOK, HeldInv, IssuedInv, LoginInv, Known, SessionOf
  <2>9. LateInv' /\ ExchangeInv'
    BY <1>2, <2>2, <2>3, <2>4 DEF TypeOK, HeldInv, IssuedInv, LateInv, ExchangeInv, Known, Ended, SessionOf
  <2>10. WhyGone' /\ StoredInv' /\ CookieInv' /\ LogoutInv'
    BY <2>2, <2>3, <2>4 DEF TypeOK, HeldInv, IssuedInv, WhyGone, StoredInv, CookieInv, LogoutInv,
       LogoutEnds, Known, SessionOf, Lapsed, Exchanging
  <2> QED  BY <2>5, <2>6, <2>7, <2>8, <2>9, <2>10
<1> QED  BY <1>1, <1>2 DEF ReadSession

-------------------------------------------------------------------------------
(* Every step keeps the invariant. *)
LEMMA StepKeeps == Inv /\ [Next]_vars => Inv'
<1> SUFFICES ASSUME Inv, [Next]_vars  PROVE Inv'
  OBVIOUS
<1>1. CASE UNCHANGED vars
  BY <1>1 DEF Inv, TypeOK, ClaimsInv, HeldInv, IssuedInv, LoginInv, LateInv, ExchangeInv, WhyGone,
              StoredInv, CookieInv, LogoutInv, LogoutEnds, Known, SessionOf, Ended, Lapsed,
              Exchanging, vars, redisVars, browserVars
<1>2. CASE Tick
  BY <1>2, TickKeeps
<1>3. ASSUME NEW r \in Requests, RequestStep(r)
      PROVE  Inv'
  BY <1>3, StoreKeeps, ReplyKeeps, RefreshKeeps, LogoutKeeps, AdminKeeps, FailKeeps,
     StartLoginKeeps, ReadSessionKeeps DEF RequestStep
<1> QED  BY <1>1, <1>2, <1>3 DEF Next

THEOREM Invariance == Spec => []Inv
BY InitInv, StepKeeps, PTL DEF Spec

-------------------------------------------------------------------------------
(* auth.Handler: every variable keeps its type. *)
THEOREM AuthTypes == Spec => []TypeOK
<1>1. Inv => TypeOK
  BY DEF Inv
<1> QED  BY Invariance, <1>1, PTL

(* auth.Refresh and RequireAdmin: a request sent once its session or its   *)
(* refresh token has ended gets nothing.                                   *)
THEOREM NothingAfterEnd == Spec => []EndedNotServed
<1>1. Inv => EndedNotServed
  BY DEF Inv, LateInv, EndedNotServed
<1> QED  BY Invariance, <1>1, PTL

(* auth.Refresh: an exchanged refresh token is gone from Redis. *)
THEOREM ExchangeDeletes == Spec => []ExchangedIsGone
<1>1. Inv => ExchangedIsGone
  BY DEF Inv, ExchangeInv, ExchangedIsGone
<1> QED  BY Invariance, <1>1, PTL

(* auth.Refresh: overlapping refreshes do not cost the admin the session. *)
THEOREM CookieStaysGood == Spec => []StaysLoggedIn
<1>1. Inv => StaysLoggedIn
  BY DEF Inv, HeldInv, WhyGone, CookieInv, StaysLoggedIn
<1> QED  BY Invariance, <1>1, PTL

(* auth.Logout: why a session may survive its logout. *)
THEOREM LogoutWorks == Spec => []LogoutEnds
<1>1. Inv => LogoutEnds
  BY DEF Inv, LogoutInv
<1> QED  BY Invariance, <1>1, PTL

-------------------------------------------------------------------------------
(***************************************************************************)
(* The promise of AdminSession                                             *)
(***************************************************************************)
(* A session is stored once: its login has not stored it yet, and nobody   *)
(* else stores one.  Only a request that bears a token is admitted.        *)
StartedInv ==
  /\ \A s \in session : startedAt[s] # NoTime
  /\ \A s \in Sessions : region[s] = NoRegion => startedAt[s] = NoTime
  /\ \A q \in Requests : pc[q] \in LoginSteps => startedAt[SessionOf(issued[q])] = NoTime
  /\ \A q \in Requests : pc[q] = "admitted" => carried[q] # NoToken

(* The steps that neither open a session nor grant anything. *)
QuietStep(r) ==
  \/ StoreToken(r) \/ StoreNew(r) \/ Reply(r)
  \/ StartRefresh(r) \/ FindToken(r) \/ Rotate(r)
  \/ StartLogout(r) \/ FindSession(r) \/ EndSession(r) \/ EndToken(r) \/ ClearCookie(r)
  \/ StartAdmin(r) \/ Fail(r)
  \/ ReadSession(r) /\ UNCHANGED <<claims, issued>>
  \/ CheckSession(r) /\ pc'[r] # "admitted"

(* A quiet step stores no session, and its request gets nothing by it. *)
LEMMA QuietChanges ==
  ASSUME Inv, NEW r \in Requests, QuietStep(r)
  PROVE  /\ session' \subseteq session
         /\ UNCHANGED <<startedAt, region, claims, issued>>
         /\ \A q \in Requests \ {r} : pc'[q] = pc[q] /\ carried'[q] = carried[q]
         /\ pc[r] # "admitted" /\ pc'[r] \notin {"storeToken", "admitted"}
         /\ pc'[r] = "storeSession" => pc[r] = "storeToken"
         /\ carried'[r] = carried[r] \/ issued[r] = NoToken
<1> USE DEF Inv, TypeOK, QuietStep, Goto, redisVars, browserVars
<1>1. session' \subseteq session /\ UNCHANGED <<startedAt, region, claims, issued>>
  BY DEF StoreToken, StoreNew, IssueRefreshToken, StoreRefresh, Reply, StartRefresh, FindToken,
         Rotate, StartLogout, FindSession, EndSession, EndToken, ClearCookie, StartAdmin, Fail,
         ReadSession, CheckSession
<1>2. \A q \in Requests \ {r} : pc'[q] = pc[q] /\ carried'[q] = carried[q]
  BY DEF StoreToken, StoreNew, IssueRefreshToken, StoreRefresh, Reply, StartRefresh, FindToken,
         Rotate, StartLogout, FindSession, EndSession, EndToken, ClearCookie, StartAdmin, Fail,
         ReadSession, CheckSession
<1>3. /\ pc[r] # "admitted" /\ pc'[r] \notin {"storeToken", "admitted"}
      /\ pc'[r] = "storeSession" => pc[r] = "storeToken"
  BY DEF StoreToken, StoreNew, IssueRefreshToken, StoreRefresh, Reply, StartRefresh, FindToken,
         Rotate, StartLogout, FindSession, EndSession, EndToken, ClearCookie, StartAdmin, Fail,
         ReadSession, CheckSession, Ends
<1>4. carried'[r] = carried[r] \/ pc[r] = "start"
  BY DEF StoreToken, StoreNew, IssueRefreshToken, StoreRefresh, Reply, StartRefresh, FindToken,
         Rotate, StartLogout, FindSession, EndSession, EndToken, ClearCookie, StartAdmin, Fail,
         ReadSession, CheckSession
<1> QED  BY <1>1, <1>2, <1>3, <1>4 DEF IssuedInv

(* A request of the browser is a quiet step, a login, an exchange or an    *)
(* admission.                                                              *)
LEMMA RequestCases ==
  ASSUME NEW r \in Requests, RequestStep(r)
  PROVE  \/ QuietStep(r)
         \/ StartLogin(r)
         \/ StoreSession(r)
         \/ ReadSession(r) /\ ~ UNCHANGED <<claims, issued>>
         \/ CheckSession(r) /\ pc'[r] = "admitted"
BY DEF RequestStep, QuietStep

(* A login draws a session that was never stored. *)
LEMMA LoginDraws ==
  ASSUME Inv, NEW r \in Requests, StartLogin(r)
  PROVE  \E s \in Sessions, g \in Regions, j \in Tokens, c \in Claims :
           /\ region[s] = NoRegion /\ region' = [region EXCEPT ![s] = g]
           /\ ~Known(j) /\ c.session = s
           /\ claims' = [claims EXCEPT ![j] = c]
           /\ issued' = [issued EXCEPT ![r] = j]
<1> DEFINE s == CHOOSE s \in FreshSessions : TRUE
<1>1. s \in Sessions /\ region[s] = NoRegion
  BY DEF StartLogin, FreshSessions
<1>2. PICK g \in Regions : region' = [region EXCEPT ![s] = g] /\ IssueAccessJWT(r, s, g)
  BY DEF StartLogin
<1>3. PICK j \in Tokens, c \in Claims :
        /\ ~Known(j) /\ c.session = s
        /\ claims' = [claims EXCEPT ![j] = c]
        /\ issued' = [issued EXCEPT ![r] = j]
  BY <1>1, <1>2, IssueFresh DEF Inv
<1> QED  BY <1>1, <1>2, <1>3

(* An exchange draws a token for a live session. *)
LEMMA ExchangeDraws ==
  ASSUME Inv, NEW r \in Requests, ReadSession(r), ~ UNCHANGED <<claims, issued>>
  PROVE  /\ SessionOf(carried[r]) \in session
         /\ carried[r] # NoToken /\ issued[r] = NoToken /\ pc[r] = "readSession"
         /\ pc' = [pc EXCEPT ![r] = "storeNew"]
         /\ UNCHANGED <<redisVars, carried>>
         /\ \E j \in Tokens, c \in Claims :
              /\ ~Known(j)
              /\ claims' = [claims EXCEPT ![j] = c]
              /\ issued' = [issued EXCEPT ![r] = j]
<1> DEFINE s == SessionOf(carried[r])
<1>1. /\ s \in session /\ IssueAccessJWT(r, s, region[s]) /\ Goto(r, "storeNew")
      /\ pc[r] = "readSession" /\ UNCHANGED <<redisVars, carried>>
  BY DEF ReadSession
<1>2. s \in Sessions /\ region[s] \in Regions
  BY <1>1 DEF Inv, TypeOK, ClaimsInv
<1>3. PICK j \in Tokens, c \in Claims :
        /\ ~Known(j)
        /\ claims' = [claims EXCEPT ![j] = c]
        /\ issued' = [issued EXCEPT ![r] = j]
  BY <1>1, <1>2, IssueFresh DEF Inv
<1> QED  BY <1>1, <1>3 DEF Inv, IssuedInv, RefreshSteps, Goto

(* What a browser or a request already had names the session it named. *)
LEMMA SessionsStay ==
  ASSUME Inv, NEW j \in Tokens, NEW c \in Claims, ~Known(j), claims' = [claims EXCEPT ![j] = c]
  PROVE  /\ \A q \in Requests : carried[q] # NoToken => claims'[carried[q]] = claims[carried[q]]
         /\ \A q \in Requests : issued[q] # NoToken => claims'[issued[q]] = claims[issued[q]]
BY DEF Inv, TypeOK, HeldInv, IssuedInv, Known

-------------------------------------------------------------------------------
LEMMA StartedInit == Init => StartedInv
BY DEF Init, StartedInv, LoginSteps

(* A login stores the session it drew, which no other login will store. *)
LEMMA OpensOnce ==
  ASSUME Inv, NEW r \in Requests, pc[r] \in LoginSteps
  PROVE  /\ SessionOf(issued[r]) \in Sessions
         /\ region[SessionOf(issued[r])] # NoRegion
         /\ \A q \in Requests \ {r} :
              pc[q] \in LoginSteps => SessionOf(issued[q]) # SessionOf(issued[r])
<1>1. issued[r] # NoToken /\ issued[r] \in Tokens /\ Known(issued[r])
  BY DEF Inv, TypeOK, IssuedInv, LoginSteps
<1>2. claims[issued[r]] \in Claims /\ region[SessionOf(issued[r])] = claims[issued[r]].region
  BY <1>1 DEF Inv, ClaimsInv
<1>3. SessionOf(issued[r]) \in Sessions /\ region[SessionOf(issued[r])] \in Regions
  BY <1>2 DEF Claims, SessionOf
<1>4. \A q \in Requests \ {r} :
        pc[q] \in LoginSteps => SessionOf(issued[q]) # SessionOf(issued[r])
  BY <1>1 DEF Inv, LoginInv, LoginSteps
<1> QED  BY <1>3, <1>4, NullAssumption

LEMMA StartedStep == Inv /\ StartedInv /\ [Next]_vars => StartedInv'
<1> SUFFICES ASSUME Inv, StartedInv, [Next]_vars PROVE StartedInv'
  OBVIOUS
<1>1. ASSUME session' \subseteq session, UNCHANGED <<startedAt, region>>,
             \A q \in Requests : pc'[q] \in LoginSteps =>
               pc[q] \in LoginSteps /\ SessionOf(issued[q])' = SessionOf(issued[q]),
             \A q \in Requests : pc'[q] = "admitted" => carried'[q] # NoToken
      PROVE  StartedInv'
  BY <1>1 DEF StartedInv
<1>2. ASSUME NEW r \in Requests, QuietStep(r) PROVE StartedInv'
  <2>1. \A q \in Requests : pc'[q] \in LoginSteps => pc[q] \in LoginSteps
    BY <1>2, QuietChanges DEF LoginSteps
  <2>2. \A q \in Requests : pc'[q] = "admitted" => carried'[q] # NoToken
    BY <1>2, QuietChanges DEF StartedInv
  <2> QED  BY <1>1, <1>2, <2>1, <2>2, QuietChanges DEF SessionOf
<1>3. ASSUME NEW r \in Requests, StartLogin(r) PROVE StartedInv'
  <2>1. PICK s \in Sessions, g \in Regions, j \in Tokens, c \in Claims :
          /\ region[s] = NoRegion /\ region' = [region EXCEPT ![s] = g]
          /\ ~Known(j) /\ c.session = s
          /\ claims' = [claims EXCEPT ![j] = c]
          /\ issued' = [issued EXCEPT ![r] = j]
    BY <1>3, LoginDraws
  <2>2. pc' = [pc EXCEPT ![r] = "storeToken"] /\ UNCHANGED <<session, startedAt>>
    BY <1>3 DEF StartLogin, Goto
  <2>3. startedAt[s] = NoTime
    BY <2>1 DEF StartedInv
  <2>4. SessionOf(issued[r])' = s
    BY <2>1 DEF Inv, TypeOK, SessionOf
  <2>5. ASSUME NEW q \in Requests \ {r}, pc'[q] \in LoginSteps
        PROVE  startedAt[SessionOf(issued[q])'] = NoTime
    <3>1. pc[q] \in LoginSteps /\ issued'[q] = issued[q]
      BY <2>1, <2>2, <2>5 DEF Inv, TypeOK
    <3>2. claims'[issued[q]] = claims[issued[q]]
      BY <2>1, <3>1, SessionsStay DEF Inv, IssuedInv
    <3> QED  BY <3>1, <3>2 DEF StartedInv, SessionOf
  <2>6. \A q \in Sessions : region'[q] = NoRegion => region[q] = NoRegion
    BY <2>1 DEF Inv, TypeOK
  <2>7. \A q \in Requests : pc'[q] = "admitted" => carried'[q] # NoToken
    BY <1>3, <2>2 DEF StartLogin, Inv, TypeOK, StartedInv
  <2> QED  BY <2>2, <2>3, <2>4, <2>5, <2>6, <2>7 DEF StartedInv
<1>4. ASSUME NEW r \in Requests, StoreSession(r) PROVE StartedInv'
  <2> DEFINE s == SessionOf(issued[r])
  <2>1. pc[r] \in LoginSteps /\ now # NoTime
    BY <1>4 DEF StoreSession, Inv, TypeOK, NoTime, LoginSteps
  <2>2. /\ s \in Sessions /\ region[s] # NoRegion
        /\ \A q \in Requests \ {r} : pc[q] \in LoginSteps => SessionOf(issued[q]) # s
    BY <2>1, OpensOnce
  <2>3. /\ \/ session' = session \union {s} /\ startedAt' = [startedAt EXCEPT ![s] = now]
           \/ UNCHANGED <<session, startedAt>>
        /\ pc' = [pc EXCEPT ![r] = "reply"] \/ pc' = [pc EXCEPT ![r] = "failed"]
        /\ UNCHANGED <<region, claims, issued>>
    BY <1>4 DEF StoreSession, OpenSession, Goto
  <2>4. \A q \in Requests : pc'[q] \in LoginSteps => q # r /\ pc[q] \in LoginSteps
    BY <2>3 DEF Inv, TypeOK, LoginSteps
  <2>5. \A q \in Requests : SessionOf(issued[q])' = SessionOf(issued[q])
    BY <2>3 DEF SessionOf
  <2> HIDE DEF s
  <2>6. \A x \in session' : startedAt'[x] # NoTime
    BY <2>1, <2>2, <2>3 DEF Inv, TypeOK, StartedInv
  <2>7. \A x \in Sessions : region'[x] = NoRegion => startedAt'[x] = NoTime
    BY <2>2, <2>3 DEF Inv, TypeOK, StartedInv
  <2>8. \A x \in Sessions : x # s => startedAt'[x] = startedAt[x]
    BY <2>3 DEF Inv, TypeOK
  <2>9. \A q \in Requests : pc[q] \in LoginSteps => SessionOf(issued[q]) \in Sessions
    BY OpensOnce
  <2>10. \A q \in Requests : pc'[q] = "admitted" => pc[q] = "admitted" /\ carried'[q] = carried[q]
    BY <1>4, <2>3 DEF StoreSession, Inv, TypeOK
  <2> QED  BY <2>2, <2>4, <2>5, <2>6, <2>7, <2>8, <2>9, <2>10 DEF StartedInv
<1>5. ASSUME NEW r \in Requests, ReadSession(r), ~ UNCHANGED <<claims, issued>>
      PROVE  StartedInv'
  <2>1. \A q \in Requests : pc'[q] \in LoginSteps => q # r /\ pc[q] \in LoginSteps
    BY <1>5, ExchangeDraws DEF Inv, TypeOK, LoginSteps
  <2>2. PICK j \in Tokens, c \in Claims :
          ~Known(j) /\ claims' = [claims EXCEPT ![j] = c] /\ issued' = [issued EXCEPT ![r] = j]
    BY <1>5, ExchangeDraws
  <2>3. \A q \in Requests : pc'[q] \in LoginSteps => SessionOf(issued[q])' = SessionOf(issued[q])
    BY <2>1, <2>2, SessionsStay DEF Inv, TypeOK, IssuedInv, SessionOf
  <2>4. \A q \in Requests : pc'[q] = "admitted" => carried'[q] # NoToken
    BY <1>5, ExchangeDraws DEF Inv, TypeOK, StartedInv
  <2> QED  BY <1>1, <1>5, <2>1, <2>3, <2>4, ExchangeDraws DEF redisVars
<1>6. ASSUME NEW r \in Requests, CheckSession(r), pc'[r] = "admitted" PROVE StartedInv'
  <2>1. \A q \in Requests : pc'[q] \in LoginSteps => pc[q] \in LoginSteps
    BY <1>6 DEF CheckSession, Goto, Inv, TypeOK, LoginSteps
  <2>2. carried[r] # NoToken /\ UNCHANGED carried
    BY <1>6 DEF CheckSession, Inv, IssuedInv
  <2>3. \A q \in Requests : pc'[q] = "admitted" => carried'[q] # NoToken
    BY <1>6, <2>2 DEF CheckSession, Goto, Inv, TypeOK, StartedInv
  <2> QED  BY <1>1, <1>6, <2>1, <2>3 DEF CheckSession, redisVars, SessionOf
<1>7. CASE Tick
  <2>1. /\ session' \subseteq session
        /\ UNCHANGED <<startedAt, region, claims, issued, carried, pc>>
    BY <1>7 DEF Tick
  <2> QED  BY <1>1, <2>1 DEF SessionOf, StartedInv
<1>8. CASE UNCHANGED vars
  BY <1>1, <1>8 DEF vars, redisVars, SessionOf, StartedInv
<1> QED  BY <1>2, <1>3, <1>4, <1>5, <1>6, <1>7, <1>8, RequestCases DEF Next

(* auth.Login: session:{id} is stored by the login that drew the id, and   *)
(* never before that.                                                      *)
LEMMA SessionsOpenOnce == Spec => []StartedInv
BY StartedInit, StartedStep, Invariance, PTL DEF Spec

-------------------------------------------------------------------------------
LEMMA InitRefines == Init => Promise!Init
BY DEF Init, Promise!Init, Life, Granted

(* A step that only ends sessions. *)
LEMMA EndRefines ==
  ASSUME session' \subseteq session, UNCHANGED startedAt, StartedInv, TypeOK,
         \A q \in Requests : Granted(q)' = Granted(q)
  PROVE  Promise!Next
<1> DEFINE S == session \ session'
<1>1. S \in SUBSET Sessions /\ \A s \in S : Life(s) = "open"
  BY DEF TypeOK, StartedInv, Life
<1>2. \A s \in Sessions : Life(s)' = IF s \in S THEN "ended" ELSE Life(s)
  BY <1>1 DEF Life, StartedInv
<1>3. Promise!End(S)
  BY <1>1, <1>2 DEF Promise!End
<1> QED  BY <1>1, <1>3 DEF Promise!Next

(* A request is granted the session s, which is open. *)
LEMMA GrantRefines ==
  ASSUME NEW r \in Requests, NEW s \in session, StartedInv, TypeOK, UNCHANGED <<session, startedAt>>,
         Granted(r) = NoClaims.session, Granted(r)' = s,
         \A q \in Requests \ {r} : Granted(q)' = Granted(q)
  PROVE  Promise!Next
<1>1. s \in Sessions /\ Life(s) = "open"
  BY DEF TypeOK, StartedInv, Life
<1>2. \A x \in Sessions : Life(x)' = Life(x)
  BY DEF Life
<1>3. Promise!Grant(r, s)
  BY <1>1, <1>2 DEF Promise!Grant
<1> QED  BY <1>1, <1>3 DEF Promise!Next

(* Drawing a token for r changes what no other request was granted. *)
LEMMA GrantsStay ==
  ASSUME Inv, StartedInv, NEW r \in Requests, NEW p, NEW j \in Tokens, NEW c \in Claims,
         ~Known(j), claims' = [claims EXCEPT ![j] = c], issued' = [issued EXCEPT ![r] = j],
         pc' = [pc EXCEPT ![r] = p], UNCHANGED carried
  PROVE  \A q \in Requests \ {r} : Granted(q)' = Granted(q)
<1> TAKE q \in Requests \ {r}
<1>1. pc'[q] = pc[q] /\ issued'[q] = issued[q] /\ carried'[q] = carried[q]
  BY DEF Inv, TypeOK
<1>2. carried[q] # NoToken => claims'[carried[q]] = claims[carried[q]]
  BY SessionsStay
<1> QED  BY <1>1, <1>2 DEF Granted, StartedInv, SessionOf

(* Every step of the requests and of the clock is an abstract step, or a   *)
(* stutter (End of no session).                                            *)
LEMMA StepRefines == Inv /\ StartedInv /\ [Next]_vars => Promise!Next
<1> SUFFICES ASSUME Inv, StartedInv, [Next]_vars PROVE Promise!Next
  OBVIOUS
<1> USE DEF Inv
<1>1. ASSUME NEW r \in Requests, QuietStep(r) PROVE Promise!Next
  <2>1. \A q \in Requests : Granted(q)' = Granted(q)
    BY <1>1, QuietChanges DEF Granted, SessionOf
  <2> QED  BY <1>1, <2>1, QuietChanges, EndRefines
<1>2. ASSUME NEW r \in Requests, StartLogin(r) PROVE Promise!Next
  <2>1. PICK j \in Tokens, c \in Claims :
          ~Known(j) /\ claims' = [claims EXCEPT ![j] = c] /\ issued' = [issued EXCEPT ![r] = j]
    BY <1>2, LoginDraws
  <2>2. /\ pc[r] = "start" /\ pc' = [pc EXCEPT ![r] = "storeToken"]
        /\ UNCHANGED <<session, startedAt, carried>>
    BY <1>2 DEF StartLogin, Goto
  <2>3. carried[r] = NoToken
    BY <2>2 DEF IssuedInv
  <2>4. Granted(r)' = Granted(r)
    BY <2>2, <2>3 DEF TypeOK, Granted
  <2>5. \A q \in Requests \ {r} : Granted(q)' = Granted(q)
    BY <2>1, <2>2, GrantsStay
  <2> QED  BY <2>2, <2>4, <2>5, EndRefines
<1>3. ASSUME NEW r \in Requests, StoreSession(r) PROVE Promise!Next
  <2>1. PICK s \in Sessions :
          /\ s = SessionOf(issued[r]) /\ startedAt[s] = NoTime
          /\ pc[r] = "storeSession" /\ carried[r] = NoToken
    BY <1>3, OpensOnce DEF StoreSession, LoginSteps, IssuedInv, StartedInv
  <2>2. \A q \in Requests : Granted(q)' = Granted(q)
    BY <1>3, <2>1 DEF StoreSession, Goto, TypeOK, Granted, SessionOf
  <2>3. CASE OpenSession(s)
    <3>1. s \notin session /\ Life(s) = "new"
      BY <2>1 DEF StartedInv, Life
    <3>2. now # NoTime /\ Life(s)' = "open"
      BY <2>1, <2>3 DEF OpenSession, TypeOK, NoTime, Life
    <3>3. \A x \in Sessions \ {s} : Life(x)' = Life(x)
      BY <2>1, <2>3 DEF OpenSession, TypeOK, Life
    <3>4. Promise!Open(s)
      BY <2>2, <3>1, <3>2, <3>3 DEF Promise!Open
    <3> QED  BY <3>4 DEF Promise!Next
  <2>4. CASE UNCHANGED <<session, startedAt>>
    BY <2>2, <2>4, EndRefines
  <2> QED  BY <1>3, <2>1, <2>3, <2>4 DEF StoreSession
<1>4. ASSUME NEW r \in Requests, ReadSession(r), ~ UNCHANGED <<claims, issued>>
      PROVE  Promise!Next
  <2> DEFINE s == SessionOf(carried[r])
  <2>1. /\ s \in session /\ carried[r] # NoToken /\ issued[r] = NoToken /\ pc[r] = "readSession"
        /\ pc' = [pc EXCEPT ![r] = "storeNew"]
        /\ UNCHANGED <<session, startedAt, carried>>
    BY <1>4, ExchangeDraws DEF redisVars
  <2>2. PICK j \in Tokens, c \in Claims :
          ~Known(j) /\ claims' = [claims EXCEPT ![j] = c] /\ issued' = [issued EXCEPT ![r] = j]
    BY <1>4, ExchangeDraws
  <2>3. Granted(r) = NoClaims.session
    BY <2>1 DEF Granted
  <2>4. issued'[r] # NoToken /\ carried'[r] = carried[r] /\ claims'[carried[r]] = claims[carried[r]]
    BY <2>1, <2>2, SessionsStay, NullAssumption DEF TypeOK
  <2>5. Granted(r)' = s
    BY <2>1, <2>4 DEF Granted, SessionOf
  <2>6. \A q \in Requests \ {r} : Granted(q)' = Granted(q)
    BY <2>1, <2>2, GrantsStay
  <2> HIDE DEF s
  <2> QED  BY <2>1, <2>3, <2>5, <2>6, GrantRefines
<1>5. ASSUME NEW r \in Requests, CheckSession(r), pc'[r] = "admitted" PROVE Promise!Next
  <2> DEFINE s == SessionOf(carried[r])
  <2>1. /\ pc[r] = "admin" /\ pc' = [pc EXCEPT ![r] = "admitted"] /\ s \in session
        /\ UNCHANGED <<session, startedAt, claims, carried, issued>>
    BY <1>5 DEF CheckSession, Goto, TypeOK, redisVars
  <2>2. Granted(r) = NoClaims.session
    BY <2>1 DEF IssuedInv, Granted
  <2>3. Granted(r)' = s
    BY <2>1 DEF TypeOK, Granted, SessionOf
  <2>4. \A q \in Requests \ {r} : Granted(q)' = Granted(q)
    BY <2>1 DEF TypeOK, Granted, SessionOf
  <2> HIDE DEF s
  <2> QED  BY <2>1, <2>2, <2>3, <2>4, GrantRefines
<1>6. CASE Tick
  <2>1. /\ session' \subseteq session
        /\ UNCHANGED <<startedAt, claims, issued, carried, pc>>
    BY <1>6 DEF Tick
  <2> QED  BY <2>1, EndRefines DEF Granted, SessionOf
<1>7. CASE UNCHANGED vars
  BY <1>7, EndRefines DEF vars, redisVars, Granted, SessionOf
<1> QED  BY <1>1, <1>2, <1>3, <1>4, <1>5, <1>6, <1>7, RequestCases DEF Next

(* auth.Login, Refresh, Logout and RequireAdmin: whatever overlaps or      *)
(* fails, a session opens once and never again, and tokens or admission    *)
(* are granted in its name only while it is open.                          *)
THEOREM PromiseKept == Spec => KeepsPromise
<1>1. Inv /\ StartedInv /\ [Next]_vars => [Promise!Next]_(Promise!vars)
  BY StepRefines
<1> QED  BY <1>1, InitRefines, Invariance, SessionsOpenOnce, PTL DEF Spec, KeepsPromise, Promise!Spec

===============================================================================
