---------------------------- MODULE RequestLimits -----------------------------
(***************************************************************************)
(* The limits on requests: the rate limit, the detection of token          *)
(* enumeration, the lockout of failed logins, and the admission of uploads *)
(* (UploadAdmission).  Each of the first three keeps one counter with a    *)
(* TTL under a key of the client's address; `value` is that key, of one    *)
(* address.                                                                *)
(***************************************************************************)
EXTENDS UploadAdmission

CONSTANTS
  MaxRate, RateWindow, \* RateLimit's maxRequests and windowSeconds
  MaxEnum, EnumTTL,    \* TokenEnumerationDetection: more than 10; an hour
  MaxFailed, FailedTTL \* maxFailedAttempts; ten minutes

ASSUME LimitsAssumption ==
  /\ {MaxRate, RateWindow, MaxEnum, EnumTTL, MaxFailed, FailedTTL} \subseteq Nat \ {0}

VARIABLES
  value,  \* rl:{zone}:{ip}, enum:{ip} or failed:{ip}: a number, 0 for none, or Blocked
  ttl,    \* what is left of its TTL, 0 for none
  recent, \* history, rate: counted requests let through, by age, up to RateWindow
  since   \* history: enum: let through since the block; lockout: refused passwords
          \* since the counter was last gone

keyVars == <<value, ttl>>
limitVars == <<value, ttl, recent, since>>
vars == <<gate, pc, slips, admissionVars, limitVars>>

Blocked == -1 \* the text "BLOCKED"

Steps == {"idle", "incr", "expire", "get", "enum", "block", "check", "compare", "pressure",
          "quota", "count", "store", "add", "refresh", "verify", "reject", "rejectPending",
          "unpend", "tally", "drop"}

Ages == 0 .. (RateWindow - 1)

TypeOK ==
  /\ gate \in Gates
  /\ pc \in [Requests -> Steps]
  /\ slips \in Nat
  /\ AdmissionTypeOK
  /\ value \in Nat \union {Blocked}
  /\ ttl \in Nat
  /\ recent \in [Ages -> Nat]
  /\ since \in Nat

Init ==
  /\ gate \in Gates
  /\ pc = [r \in Requests |-> "idle"]
  /\ slips = 0
  /\ AdmissionInit
  /\ value = 0
  /\ ttl = 0
  /\ recent = [a \in Ages |-> 0]
  /\ since = 0

Arrive(r) ==
  /\ pc[r] = "idle"
  /\ Goto(r, FirstCall[gate])
  /\ UNCHANGED <<slips, admissionVars, limitVars>>

-------------------------------------------------------------------------------
(***************************************************************************)
(* middleware.RateLimit                                                    *)
(***************************************************************************)
(* Above MaxRate the count no longer matters: it stays at MaxRate + 1. *)
Capped(n) == IF n > MaxRate THEN MaxRate + 1 ELSE n

DecideLate(n) == \* mutant: one more than maxRequests
  recent' = IF n > MaxRate + 1 THEN recent ELSE [recent EXCEPT ![0] = @ + 1]

(* A request whose INCR answered n is let through or refused. *)
Decide(n) == recent' = IF n > MaxRate THEN recent ELSE [recent EXCEPT ![0] = @ + 1]

IncrRateRenews(r) == \* mutant: every request sets the TTL
  /\ pc[r] = "incr"
  /\ value' = Capped(value + 1)
  /\ ttl' = RateWindow
  /\ Decide(value')
  /\ Leave(r)
  /\ UNCHANGED <<slips, admissionVars, since>>

(* INCR rl:{zone}:{ip}; open when it fails.  A re-sent INCR counts twice   *)
(* and answers the second count.                                           *)
IncrRate(r) ==
  /\ pc[r] = "incr"
  /\ \/ value' = Capped(value + 1) /\ UNCHANGED slips
     \/ Slip /\ value' = Capped(value + 2)
  /\ IF value' = 1 THEN Goto(r, "expire") /\ UNCHANGED recent
                   ELSE Decide(value') /\ Leave(r)
  /\ UNCHANGED <<admissionVars, ttl, since>>

IncrRateFails(r) ==
  /\ pc[r] = "incr"
  /\ Slip
  /\ value' \in {value, Capped(value + 1)}
  /\ Leave(r)
  /\ UNCHANGED <<admissionVars, ttl, recent, since>>

ExpireRateSecond(r) == \* mutant: the TTL is set on the second request, not the first
  /\ pc[r] = "expire"
  /\ ttl' = IF value = 2 THEN RateWindow ELSE ttl
  /\ Decide(1)
  /\ Leave(r)
  /\ UNCHANGED <<slips, admissionVars, value, since>>

(* EXPIRE, by the request that counted 1; its failure is ignored. *)
ExpireRate(r) ==
  /\ pc[r] = "expire"
  /\ \/ ttl' = RateWindow /\ UNCHANGED slips
     \/ Slip /\ UNCHANGED ttl
  /\ Decide(1)
  /\ Leave(r)
  /\ UNCHANGED <<admissionVars, value, since>>

-------------------------------------------------------------------------------
(***************************************************************************)
(* middleware.TokenEnumerationDetection                                    *)
(***************************************************************************)
ReadBlockNever(r) == \* mutant: the block is looked up under another key
  /\ pc[r] = "get"
  /\ Goto(r, "enum")
  /\ UNCHANGED <<slips, admissionVars, limitVars>>

(* GET enum:{ip}; a failed call counts as "not blocked". *)
ReadBlock(r) ==
  /\ pc[r] = "get"
  /\ \/ value = Blocked /\ Leave(r) /\ UNCHANGED slips
     \/ value # Blocked /\ Goto(r, "enum") /\ UNCHANGED slips
     \/ Slip /\ Goto(r, "enum")
  /\ UNCHANGED <<admissionVars, limitVars>>

(* IncrEnumCounter, INCR and EXPIRE in one pipeline. *)
CountEnum(r) ==
  /\ pc[r] = "enum"
  /\ value # Blocked
  /\ \/ value' = value + 1 /\ UNCHANGED slips
     \/ Slip /\ value' = value + 2
  /\ ttl' = EnumTTL
  /\ Goto(r, IF value' > MaxEnum THEN "block" ELSE "idle")
  /\ UNCHANGED <<admissionVars, recent, since>>

(* INCR refuses the text BLOCKED, while the EXPIRE behind it is executed;  *)
(* or the pipeline fails.  Either way the request is let through.          *)
CountEnumFails(r) ==
  /\ pc[r] = "enum"
  /\ \/ value = Blocked /\ ttl' = EnumTTL /\ UNCHANGED slips
     \/ Slip /\ UNCHANGED ttl
  /\ since' = IF value = Blocked THEN since + 1 ELSE since
  /\ Leave(r)
  /\ UNCHANGED <<admissionVars, value, recent>>

(* SET enum:{ip} BLOCKED; its failure is ignored. *)
SetBlocked(r) ==
  /\ pc[r] = "block"
  /\ \/ /\ value' = Blocked
        /\ ttl' = EnumTTL
        /\ since' = IF value = Blocked THEN since ELSE 0
        /\ UNCHANGED slips
     \/ Slip /\ UNCHANGED <<keyVars, since>>
  /\ Leave(r)
  /\ UNCHANGED <<admissionVars, recent>>

-------------------------------------------------------------------------------
(***************************************************************************)
(* auth.Login up to the verdict on the credentials                         *)
(***************************************************************************)
CheckLockoutLate(r) == \* mutant: one attempt more than maxFailedAttempts
  /\ pc[r] = "check"
  /\ IF value > MaxFailed THEN Leave(r) ELSE Goto(r, "compare")
  /\ UNCHANGED <<slips, admissionVars, limitVars>>

(* GET failed:{ip}; a failed call ends in 500. *)
CheckLockout(r) ==
  /\ pc[r] = "check"
  /\ \/ value >= MaxFailed /\ Leave(r) /\ UNCHANGED slips
     \/ value < MaxFailed /\ Goto(r, "compare") /\ UNCHANGED slips
     \/ Slip /\ Leave(r)
  /\ UNCHANGED <<admissionVars, limitVars>>

(* handleLoginFailure: IncrFailedCounter, one pipeline; its failure is     *)
(* ignored, and re-sent it counts twice.                                   *)
WrongPassword(r) ==
  /\ pc[r] = "compare"
  /\ \/ value' = value + 1 /\ ttl' = FailedTTL /\ UNCHANGED slips
     \/ Slip /\ value' = value + 2 /\ ttl' = FailedTTL
     \/ Slip /\ UNCHANGED keyVars
  /\ since' = since + 1
  /\ Leave(r)
  /\ UNCHANGED <<admissionVars, recent>>

(* DEL failed:{ip}; its failure is recorded and ignored. *)
RightPassword(r) ==
  /\ pc[r] = "compare"
  /\ \/ value' = 0 /\ ttl' = 0 /\ since' = 0 /\ UNCHANGED slips
     \/ Slip /\ UNCHANGED <<keyVars, since>>
  /\ Leave(r)
  /\ UNCHANGED <<admissionVars, recent>>

(* An unreadable body, or the right password without its TOTP code. *)
NoVerdict(r) ==
  /\ pc[r] = "compare"
  /\ Leave(r)
  /\ UNCHANGED <<slips, admissionVars, limitVars>>

-------------------------------------------------------------------------------
(* The instance that serves r dies. *)
Crash(r) ==
  /\ pc[r] # "idle"
  /\ Slip
  /\ Drop(r)
  /\ UNCHANGED <<pending, session, quotaVars, limitVars>>

LimitStep(r) ==
  \/ IncrRate(r)
  \/ IncrRateFails(r)
  \/ ExpireRate(r)
  \/ ReadBlock(r)
  \/ CountEnum(r)
  \/ CountEnumFails(r)
  \/ SetBlocked(r)
  \/ CheckLockout(r)
  \/ WrongPassword(r)
  \/ RightPassword(r)
  \/ NoVerdict(r)

RequestStep(r) ==
  \/ LimitStep(r)
  \/ AdmissionStep(r) /\ UNCHANGED limitVars

(* A unit of time passes; the key lapses when its TTL has. *)
Tick ==
  /\ ttl' = IF ttl = 0 THEN 0 ELSE ttl - 1
  /\ value' = IF ttl = 1 THEN 0 ELSE value
  /\ since' = IF ttl = 1 THEN 0 ELSE since
  /\ recent' = [a \in Ages |-> IF a = 0 THEN 0 ELSE recent[a - 1]]
  /\ UNCHANGED <<pc, slips, admissionVars>>

UploadEvent ==
  /\ \/ LapseSession
     \/ \E u \in Uploads : Sweep(u)
     \/ Midnight
  /\ UNCHANGED <<pc, slips, limitVars>>

Next ==
  /\ \/ \E r \in Requests : Arrive(r)
     \/ \E r \in Requests : RequestStep(r)
     \/ \E r \in Requests : Confirm(r) /\ UNCHANGED limitVars
     \/ \E r \in Requests : Crash(r)
     \/ UploadEvent
     \/ Tick
  /\ UNCHANGED gate

Spec == Init /\ [][Next]_vars

(* Handlers run to their end, time goes on, and entries fall due and are   *)
(* swept.  No client is fair.                                              *)
FairSpec ==
  /\ Spec
  /\ \A r \in Requests : WF_vars(RequestStep(r) /\ UNCHANGED gate)
  /\ \A u \in Uploads :
       WF_vars(Sweep(u) /\ UNCHANGED <<gate, pc, slips, limitVars>>)
  /\ WF_vars(Tick /\ UNCHANGED gate)

-------------------------------------------------------------------------------
(***************************************************************************)
(* Properties                                                              *)
(***************************************************************************)
Concurrency == Cardinality(Requests)

(* The passes that `recent` counts: the k-th of age a. *)
Passes == UNION {{a} \X (1 .. recent[a]) : a \in Ages}

(* middleware.RateLimit: whatever requests overlap, and however late the   *)
(* first of them calls EXPIRE, no RateWindow ticks let through more than   *)
(* twice MaxRate of the requests that were counted.                        *)
PassesBounded == Cardinality(Passes) <= 2 * MaxRate

(* middleware.RateLimit: the counter is without a TTL only until its first *)
(* request has called EXPIRE, or after some call failed or was re-sent.    *)
TTLSoonSet ==
  (gate = "rate" /\ value # 0 /\ ttl = 0) => (At("expire") # {} \/ slips > 0)

(* middleware.TokenEnumerationDetection: once an address is blocked, only  *)
(* requests that were already past the look-up get through, and one for    *)
(* each failed call.                                                       *)
BlockTight ==
  (gate = "enum" /\ value = Blocked) => since <= Concurrency - 1 + slips

(* auth.Login: before a lock lapses or is cleared, no more passwords are   *)
(* compared and refused than maxFailedAttempts, less one, and one for each *)
(* request that can be under way at once.                                  *)
AttemptsBounded == gate = "lockout" => since <= MaxFailed - 1 + Concurrency + slips

(* The lower of the two limits that are set. *)
PendingLimit ==
  LET limits == {MaxPendingPerAdmin, MaxTotalPending} \ {0}
  IN  CHOOSE n \in limits : \A m \in limits : n <= m

(* upload.RequestUpload: uploads_pending passes its limit by no more than  *)
(* the requests that overlap between ZCARD and ZADD, less one.             *)
PendingBounded == Cardinality(pending) <= PendingLimit - 1 + Concurrency

(* upload.RequestUpload and ConfirmUpload: once the day's counter has      *)
(* reached the quota, uploads are admitted only for requests that had read *)
(* it before and were still on their way to ZADD, until the next day; what *)
(* calls fail, and how often uploads are confirmed, makes no difference.   *)
QuotaTight == QuotaReached => late <= Concurrency - 1

Refusing ==
  \/ gate = "rate" /\ value >= MaxRate
  \/ gate = "enum" /\ value = Blocked
  \/ gate = "lockout" /\ value >= MaxFailed
  \/ gate = "admission" /\ LimitReached(Cardinality(pending))

(* Every refusal ends although refused requests keep coming; but for the   *)
(* rate limit, whose counter may have lost its only EXPIRE.                *)
RefusalsEnd == Refusing ~> (~Refusing \/ (gate = "rate" /\ slips > 0))

===============================================================================
