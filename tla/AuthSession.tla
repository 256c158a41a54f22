----------------------------- MODULE AuthSession ------------------------------
(***************************************************************************)
(* The admin's sessions: Login once the password is accepted, Refresh,     *)
(* Logout and the middleware RequireAdmin, as concurrent requests of one   *)
(* browser whose tabs share a cookie jar.  Each Redis call is one step.    *)
(* A Token is a JTI: it names the refresh token refresh:{jti} and the      *)
(* access JWT issued with it.  checkCSRF changes no state and, since it    *)
(* returns nil in every case, stops no request: it is not represented.     *)
(* The lockout of failed logins is in RequestLimits.                       *)
(***************************************************************************)
EXTENDS Integers

CONSTANTS
  Requests,    \* requests; each is sent once
  Tokens,      \* JTIs that uuid.New can return
  Sessions,    \* session ids that uuid.New can return
  Regions,     \* values of CF-IPCountry
  RefreshTTL,  \* TTL of refresh:{jti} and of session:{id}
  AccessTTL,   \* lifetime of an access JWT
  ClockSkew,   \* how far time.Now() of an instance may be off the Redis clock
  MaxTime,     \* bound on the clock (model checking only)
  RedisFaults, \* may a Redis call fail, or lose its reply?
  Failures     \* may an instance die between two calls, or a response be lost?

ASSUME AuthSessionAssumption ==
  /\ RefreshTTL \in Nat \ {0}
  /\ AccessTTL \in Nat \ {0}
  /\ ClockSkew \in Nat
  /\ MaxTime \in Nat
  /\ RedisFaults \in BOOLEAN
  /\ Failures \in BOOLEAN

VARIABLES
  now,       \* Redis server time
  refresh,   \* the tokens j for which refresh:{j} exists
  storedAt,  \* when refresh:{j} was stored
  session,   \* the sessions s for which session:{s} exists
  startedAt, \* when session:{s} was stored
  region,    \* geo_region in session:{s}
  claims,    \* the claims of the access JWT; its session is also the value of refresh:{j}
  jar,       \* the refresh_token cookie
  held,      \* tokens whose access JWT some tab has received
  pc,        \* the next call of a request, or how it ended
  carried,   \* the token a request was sent with
  issued,    \* the token a request issues
  late,      \* history: requests sent when what they carry had already ended
  faulted    \* history: requests that met a fault

redisVars == <<now, refresh, storedAt, session, startedAt, region>>
browserVars == <<jar, held>>
vars == <<redisVars, claims, browserVars, pc, carried, issued, late, faulted>>

NoTime == -1
NoToken == "no token"
NoRegion == "no region"
NoClaims == [session |-> "no session"]

ASSUME NullAssumption ==
  /\ NoToken \notin Tokens
  /\ NoRegion \notin Regions
  /\ NoClaims.session \notin Sessions

Claims == [session: Sessions, region: Regions, until: Int]

LoginSteps == {"storeToken", "storeSession"}
RefreshSteps == {"findToken", "rotate", "readSession", "storeNew"}
LogoutSteps == {"findSession", "endSession", "endToken", "clear"}
Ends == {"answered", "refused", "failed", "loggedOut", "admitted", "anomaly"}

TypeOK ==
  /\ now \in Nat
  /\ refresh \subseteq Tokens
  /\ storedAt \in [Tokens -> Nat \union {NoTime}]
  /\ session \subseteq Sessions
  /\ startedAt \in [Sessions -> Nat \union {NoTime}]
  /\ region \in [Sessions -> Regions \union {NoRegion}]
  /\ claims \in [Tokens -> Claims \union {NoClaims}]
  /\ jar \in Tokens \union {NoToken}
  /\ held \subseteq Tokens
  /\ pc \in [Requests -> {"start", "reply", "admin"} \union LoginSteps \union RefreshSteps
                           \union LogoutSteps \union Ends]
  /\ carried \in [Requests -> Tokens \union {NoToken}]
  /\ issued \in [Requests -> Tokens \union {NoToken}]
  /\ late \subseteq Requests
  /\ faulted \subseteq Requests

Init ==
  /\ now = 0
  /\ refresh = {}
  /\ storedAt = [j \in Tokens |-> NoTime]
  /\ session = {}
  /\ startedAt = [s \in Sessions |-> NoTime]
  /\ region = [s \in Sessions |-> NoRegion]
  /\ claims = [j \in Tokens |-> NoClaims]
  /\ jar = NoToken
  /\ held = {}
  /\ pc = [r \in Requests |-> "start"]
  /\ carried = [r \in Requests |-> NoToken]
  /\ issued = [r \in Requests |-> NoToken]
  /\ late = {}
  /\ faulted = {}

(* What time.Now() may return on some instance. *)
InstanceClock == {t \in (now - ClockSkew) .. (now + ClockSkew) : t >= 0}

Goto(r, step) == pc' = [pc EXCEPT ![r] = step]

(* The call of r fails; each caller says what r does then. *)
Fault(r) == RedisFaults /\ faulted' = faulted \union {r}

SessionOf(j) == claims[j].session

-------------------------------------------------------------------------------
(***************************************************************************)
(* issueAccessJWT: a new JTI, and a JWT for session s and region g.        *)
(***************************************************************************)
FreshTokens == {j \in Tokens : claims[j] = NoClaims}

FreshSessions == {s \in Sessions : region[s] = NoRegion}

IssueAccessJWT(r, s, g) ==
  LET j == CHOOSE j \in FreshTokens : TRUE IN
  /\ FreshTokens # {}
  /\ \E t \in InstanceClock :
       claims' = [claims EXCEPT ![j] = [session |-> s, region |-> g, until |-> t + AccessTTL]]
  /\ issued' = [issued EXCEPT ![r] = j]

(* issueRefreshToken: SETEX refresh:{jti}; a failed call may have been executed. *)
StoreRefresh(r) ==
  /\ refresh' = refresh \union {issued[r]}
  /\ storedAt' = [storedAt EXCEPT ![issued[r]] = now]

IssueRefreshToken(r, next) ==
  /\ \/ StoreRefresh(r) /\ Goto(r, next) /\ UNCHANGED faulted
     \/ /\ Fault(r)
        /\ Goto(r, "failed")
        /\ StoreRefresh(r) \/ UNCHANGED <<refresh, storedAt>>
  /\ UNCHANGED <<now, session, startedAt, region, claims, browserVars, carried, issued, late>>

-------------------------------------------------------------------------------
(***************************************************************************)
(* POST /api/admin/login, with valid credentials                           *)
(***************************************************************************)
StartLogin(r) ==
  LET s == CHOOSE s \in FreshSessions : TRUE IN
  /\ pc[r] = "start"
  /\ FreshSessions # {}
  /\ \E g \in Regions :
       /\ region' = [region EXCEPT ![s] = g]
       /\ IssueAccessJWT(r, s, g)
  /\ Goto(r, "storeToken")
  /\ UNCHANGED <<now, refresh, storedAt, session, startedAt, browserVars, carried, late, faulted>>

StoreToken(r) ==
  /\ pc[r] = "storeToken"
  /\ IssueRefreshToken(r, "storeSession")

(* SETEX session:{id}. *)
OpenSession(s) ==
  /\ session' = session \union {s}
  /\ startedAt' = [startedAt EXCEPT ![s] = now]

StoreSession(r) ==
  LET s == SessionOf(issued[r]) IN
  /\ pc[r] = "storeSession"
  /\ \/ OpenSession(s) /\ Goto(r, "reply") /\ UNCHANGED faulted
     \/ Fault(r) /\ Goto(r, "failed") /\ (OpenSession(s) \/ UNCHANGED <<session, startedAt>>)
  /\ UNCHANGED <<now, refresh, storedAt, region, claims, browserVars, carried, issued, late>>

-------------------------------------------------------------------------------
(***************************************************************************)
(* POST /api/admin/refresh                                                 *)
(***************************************************************************)
(* A session has ended for token j once j or its session is gone. *)
Ended(j) == j \notin refresh \/ SessionOf(j) \notin session

(* The browser sends the cookie.  (Without one the request changes nothing.) *)
StartRefresh(r) ==
  /\ pc[r] = "start"
  /\ jar # NoToken
  /\ carried' = [carried EXCEPT ![r] = jar]
  /\ late' = IF Ended(jar) THEN late \union {r} ELSE late
  /\ Goto(r, "findToken")
  /\ UNCHANGED <<redisVars, claims, browserVars, issued, faulted>>

(* GET refresh:{jti}; an unknown JTI is only recorded. *)
FindToken(r) ==
  /\ pc[r] = "findToken"
  /\ \/ carried[r] \in refresh /\ Goto(r, "rotate") /\ UNCHANGED faulted
     \/ carried[r] \notin refresh /\ Goto(r, "refused") /\ UNCHANGED faulted
     \/ Fault(r) /\ Goto(r, "failed")
  /\ UNCHANGED <<redisVars, claims, browserVars, carried, issued, late>>

RotateAnyway(r) == \* mutant: the error of DEL is ignored
  /\ pc[r] = "rotate"
  /\ \/ refresh' = refresh \ {carried[r]} /\ UNCHANGED faulted
     \/ Fault(r) /\ UNCHANGED refresh
  /\ Goto(r, "readSession")
  /\ UNCHANGED <<now, storedAt, session, startedAt, region, claims, browserVars, carried,
                 issued, late>>

(* DEL refresh:{jti}. *)
Rotate(r) ==
  /\ pc[r] = "rotate"
  /\ \/ refresh' = refresh \ {carried[r]} /\ Goto(r, "readSession") /\ UNCHANGED faulted
     \/ Fault(r) /\ Goto(r, "failed") /\ refresh' \in {refresh, refresh \ {carried[r]}}
  /\ UNCHANGED <<now, storedAt, session, startedAt, region, claims, browserVars, carried,
                 issued, late>>

ReadSessionUnchecked(r) == \* mutant: an empty answer is parsed, and yields no region
  LET s == SessionOf(carried[r]) IN
  /\ pc[r] = "readSession"
  /\ IssueAccessJWT(r, s, IF s \in session THEN region[s] ELSE NoRegion)
  /\ Goto(r, "storeNew")
  /\ UNCHANGED <<redisVars, browserVars, carried, late, faulted>>

(* GET session:{id}, and the new access JWT with the session's region. *)
ReadSession(r) ==
  LET s == SessionOf(carried[r]) IN
  /\ pc[r] = "readSession"
  /\ \/ /\ s \in session
        /\ IssueAccessJWT(r, s, region[s])
        /\ Goto(r, "storeNew")
        /\ UNCHANGED faulted
     \/ s \notin session /\ Goto(r, "refused") /\ UNCHANGED <<claims, issued, faulted>>
     \/ Fault(r) /\ Goto(r, "refused") /\ UNCHANGED <<claims, issued>>
  /\ UNCHANGED <<redisVars, browserVars, carried, late>>

StoreNewSliding(r) == \* mutant: also renews session:{id}
  /\ pc[r] = "storeNew"
  /\ StoreRefresh(r)
  /\ OpenSession(SessionOf(issued[r]))
  /\ Goto(r, "reply")
  /\ UNCHANGED <<now, region, claims, browserVars, carried, issued, late, faulted>>

StoreNew(r) ==
  /\ pc[r] = "storeNew"
  /\ IssueRefreshToken(r, "reply")

-------------------------------------------------------------------------------
(***************************************************************************)
(* The response of Login and Refresh: the cookie and the access token.     *)
(***************************************************************************)
ReplyOldCookie(r) == \* mutant: Refresh sends back the token it was sent
  /\ pc[r] = "reply"
  /\ jar' = IF carried[r] = NoToken THEN issued[r] ELSE carried[r]
  /\ held' = held \union {issued[r]}
  /\ Goto(r, "answered")
  /\ UNCHANGED <<redisVars, claims, carried, issued, late, faulted>>

Reply(r) ==
  /\ pc[r] = "reply"
  /\ jar' = issued[r]
  /\ held' = held \union {issued[r]}
  /\ Goto(r, "answered")
  /\ UNCHANGED <<redisVars, claims, carried, issued, late, faulted>>

-------------------------------------------------------------------------------
(***************************************************************************)
(* POST /api/admin/logout.  Every error is ignored.                        *)
(***************************************************************************)
StartLogout(r) ==
  /\ pc[r] = "start"
  /\ jar # NoToken
  /\ carried' = [carried EXCEPT ![r] = jar]
  /\ late' = IF Ended(jar) THEN late \union {r} ELSE late
  /\ Goto(r, "findSession")
  /\ UNCHANGED <<redisVars, claims, browserVars, issued, faulted>>

(* GET refresh:{jti}. *)
FindSession(r) ==
  /\ pc[r] = "findSession"
  /\ \/ carried[r] \in refresh /\ Goto(r, "endSession") /\ UNCHANGED faulted
     \/ carried[r] \notin refresh /\ Goto(r, "endToken") /\ UNCHANGED faulted
     \/ Fault(r) /\ Goto(r, "endToken")
  /\ UNCHANGED <<redisVars, claims, browserVars, carried, issued, late>>

EndTokenOnly(r) == \* mutant: session:{id} is left to its TTL
  /\ pc[r] = "endSession"
  /\ refresh' = refresh \ {carried[r]}
  /\ Goto(r, "clear")
  /\ UNCHANGED <<now, storedAt, session, startedAt, region, claims, browserVars, carried,
                 issued, late, faulted>>

(* DEL refresh:{jti} session:{id}, one command. *)
EndSession(r) ==
  /\ pc[r] = "endSession"
  /\ \/ /\ refresh' = refresh \ {carried[r]}
        /\ session' = session \ {SessionOf(carried[r])}
        /\ UNCHANGED faulted
     \/ Fault(r) /\ UNCHANGED <<refresh, session>>
  /\ Goto(r, "clear")
  /\ UNCHANGED <<now, storedAt, startedAt, region, claims, browserVars, carried, issued, late>>

(* DEL refresh:{jti}. *)
EndToken(r) ==
  /\ pc[r] = "endToken"
  /\ \/ refresh' = refresh \ {carried[r]} /\ UNCHANGED faulted
     \/ Fault(r) /\ UNCHANGED refresh
  /\ Goto(r, "clear")
  /\ UNCHANGED <<now, storedAt, session, startedAt, region, claims, browserVars, carried,
                 issued, late>>

(* The response empties the cookie. *)
ClearCookie(r) ==
  /\ pc[r] = "clear"
  /\ jar' = NoToken
  /\ Goto(r, "loggedOut")
  /\ UNCHANGED <<redisVars, claims, held, carried, issued, late, faulted>>

-------------------------------------------------------------------------------
(***************************************************************************)
(* RequireAdmin, for a request with some tab's access JWT.  The JWT is     *)
(* checked against the instance's clock.                                   *)
(***************************************************************************)
StartAdmin(r) ==
  /\ pc[r] = "start"
  /\ \E j \in held :
       /\ carried' = [carried EXCEPT ![r] = j]
       /\ late' = IF SessionOf(j) \notin session THEN late \union {r} ELSE late
       /\ \E t \in InstanceClock :
            Goto(r, IF t < claims[j].until THEN "admin" ELSE "refused")
  /\ UNCHANGED <<redisVars, claims, browserVars, issued, faulted>>

(* GET session:{id}, then the comparison of its region with that of the    *)
(* JWT; where this request comes from is not looked at.                    *)
CheckSession(r) ==
  LET s == SessionOf(carried[r]) IN
  /\ pc[r] = "admin"
  /\ \/ /\ s \in session
        /\ Goto(r, IF region[s] = claims[carried[r]].region THEN "admitted" ELSE "anomaly")
        /\ UNCHANGED faulted
     \/ s \notin session /\ Goto(r, "refused") /\ UNCHANGED faulted
     \/ Fault(r) /\ Goto(r, "refused")
  /\ UNCHANGED <<redisVars, claims, browserVars, carried, issued, late>>

-------------------------------------------------------------------------------
(* The instance serving r dies, or r's response is lost. *)
Fail(r) ==
  /\ Failures
  /\ pc[r] \notin Ends \union {"start", "admin"}
  /\ Goto(r, "failed")
  /\ faulted' = faulted \union {r}
  /\ UNCHANGED <<redisVars, claims, browserVars, carried, issued, late>>

(* Time passes; every key whose TTL has elapsed disappears. *)
Tick ==
  /\ now < MaxTime
  /\ now' = now + 1
  /\ refresh' = {j \in refresh : storedAt[j] + RefreshTTL > now + 1}
  /\ session' = {s \in session : startedAt[s] + RefreshTTL > now + 1}
  /\ UNCHANGED <<storedAt, startedAt, region, claims, browserVars, pc, carried, issued, late,
                 faulted>>

RequestStep(r) ==
  \/ StartLogin(r)
  \/ StoreToken(r)
  \/ StoreSession(r)
  \/ StartRefresh(r)
  \/ FindToken(r)
  \/ Rotate(r)
  \/ ReadSession(r)
  \/ StoreNew(r)
  \/ Reply(r)
  \/ StartLogout(r)
  \/ FindSession(r)
  \/ EndSession(r)
  \/ EndToken(r)
  \/ ClearCookie(r)
  \/ StartAdmin(r)
  \/ CheckSession(r)
  \/ Fail(r)

Next == (\E r \in Requests : RequestStep(r)) \/ Tick

Spec == Init /\ [][Next]_vars

-------------------------------------------------------------------------------
(***************************************************************************)
(* Properties                                                              *)
(***************************************************************************)
(* auth.Refresh and RequireAdmin: a request sent once its session or its   *)
(* refresh token has ended gets nothing, whatever refreshes of that        *)
(* session are still under way.                                            *)
EndedNotServed ==
  \A r \in late : issued[r] = NoToken /\ pc[r] # "admitted"

(* auth.Refresh: a refresh token that was exchanged for a new one is gone, *)
(* so that only refreshes which overlap can exchange it twice.             *)
ExchangedIsGone ==
  \A r \in Requests :
    issued[r] # NoToken /\ carried[r] # NoToken => carried[r] \notin refresh

(* refresh:{j} has reached its TTL. *)
Lapsed(j) == storedAt[j] + RefreshTTL <= now

(* r is exchanging its token for another, has done so, or met a fault. *)
Exchanging(r) == pc[r] = "readSession" \/ issued[r] # NoToken \/ r \in faulted

(* auth.Refresh: however many tabs refresh at once, and in whatever order  *)
(* their responses arrive, the browser's cookie stays good for as long as  *)
(* its session and its own TTL last, unless it is being exchanged.         *)
StaysLoggedIn ==
  jar # NoToken
    => \/ jar \in refresh
       \/ Lapsed(jar)
       \/ SessionOf(jar) \notin session
       \/ \E r \in Requests : carried[r] = jar /\ pc[r] # "answered" /\ Exchanging(r)

(* auth.Logout: a logout ends its session, unless its token had reached    *)
(* its TTL, a call failed, or a refresh was exchanging that very token.    *)
LogoutEnds ==
  \A r \in Requests :
    pc[r] \in {"clear", "loggedOut"} /\ SessionOf(carried[r]) \in session
      => \/ Lapsed(carried[r])
         \/ \E q \in Requests : carried[q] = carried[r] /\ Exchanging(q)

(* A session as AdminSession sees it. *)
Life(s) ==
  IF startedAt[s] = NoTime THEN "new" ELSE IF s \in session THEN "open" ELSE "ended"

(* What r was granted: new tokens for the one it carries, or admission. *)
Granted(r) ==
  IF pc[r] = "admitted" \/ (issued[r] # NoToken /\ carried[r] # NoToken)
  THEN SessionOf(carried[r])
  ELSE NoClaims.session

Promise == INSTANCE AdminSession WITH
  NoSession <- NoClaims.session,
  life <- [s \in Sessions |-> Life(s)],
  grant <- [r \in Requests |-> Granted(r)]

(* auth.Login, Refresh, Logout and RequireAdmin implement AdminSession: a  *)
(* session opens once and never again, and new tokens or admission are     *)
(* granted only while it is open, whatever requests overlap or fail.       *)
KeepsPromise == Promise!Spec

===============================================================================
