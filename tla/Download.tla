------------------------------- MODULE Download -------------------------------
(***************************************************************************)
(* The download handler: POST /api/download/{token} (ConsumeToken) and     *)
(* GET /d/{token} (GetTokenMetadata).  A request is a process; each of its *)
(* Redis or S3 calls is one step, so requests, the worker and the admin    *)
(* interleave between any two calls.  Path parameters are represented by   *)
(* the hash the handler computes from them.                                *)
(***************************************************************************)
EXTENDS Stores

CONSTANTS
  Requests,     \* POST /api/download/{token} requests
  Views,        \* GET /d/{token} requests
  DestroyDelay  \* PresignedURLTTLSeconds + DestructionGraceSeconds

ASSUME DownloadAssumption == DestroyDelay \in Nat

VARIABLES
  pc,        \* the next call of a request
  target,    \* tokenHash, once computed
  redisNow,  \* redisNow
  meta,      \* meta, the metadata CASTokenConsume returned
  already,   \* alreadyConsuming
  answer,    \* the HTTP response
  viewPc, viewTarget, viewAnswer

postVars == <<pc, target, redisNow, meta, already, answer>>
viewVars == <<viewPc, viewTarget, viewAnswer>>
downloadVars == <<postVars, viewVars>>

NoHash == "no hash"

(* "head" is the step after a won CAS; the two cleanup steps follow a 404. *)
Winning == {"head", "presign", "delToken", "mark"}
Steps == {"start", "time", "cas", "done"} \union Winning

(* "dropped" stands for a connection that died with its instance. *)
Answers == {"none", "expired", "locked", "redirect", "integrity", "internal", "dropped"}

DownloadTypeOK ==
  /\ pc \in [Requests -> Steps]
  /\ target \in [Requests -> Hashes \union {NoHash}]
  /\ redisNow \in [Requests -> Int]
  /\ meta \in [Requests -> TokenMeta \union {NoToken}]
  /\ already \in [Requests -> BOOLEAN]
  /\ answer \in [Requests -> Answers]
  /\ viewPc \in [Views -> {"start", "token", "done"}]
  /\ viewTarget \in [Views -> Hashes \union {NoHash}]
  /\ viewAnswer \in [Views -> {"none", "expired", "page", "internal"}]

DownloadInit ==
  /\ pc = [r \in Requests |-> "start"]
  /\ target = [r \in Requests |-> NoHash]
  /\ redisNow = [r \in Requests |-> NoTime]
  /\ meta = [r \in Requests |-> NoToken]
  /\ already = [r \in Requests |-> FALSE]
  /\ answer = [r \in Requests |-> "none"]
  /\ viewPc = [v \in Views |-> "start"]
  /\ viewTarget = [v \in Views |-> NoHash]
  /\ viewAnswer = [v \in Views |-> "none"]

-------------------------------------------------------------------------------
(***************************************************************************)
(* POST /api/download/{token}                                              *)
(***************************************************************************)
At(r, step) == pc[r] = step

Goto(r, step) ==
  /\ pc' = [pc EXCEPT ![r] = step]
  /\ UNCHANGED answer

Reply(r, a) ==
  /\ pc' = [pc EXCEPT ![r] = "done"]
  /\ answer' = [answer EXCEPT ![r] = a]

(* Hash the token, GET destroyed:{hash}. *)
CheckDestroyed(r, h) ==
  /\ At(r, "start")
  /\ target' = [target EXCEPT ![r] = h]
  /\ \/ destroyed[h] # NoTime /\ Reply(r, "expired")
     \/ destroyed[h] = NoTime /\ Goto(r, "time")
     \/ RedisFaults /\ Reply(r, "internal")
  /\ UNCHANGED <<storeVars, redisNow, meta, already, viewVars>>

(* GetRedisServerTime. *)
ReadRedisTime(r) ==
  /\ At(r, "time")
  /\ \/ redisNow' = [redisNow EXCEPT ![r] = now] /\ Goto(r, "cas")
     \/ RedisFaults /\ UNCHANGED redisNow /\ Reply(r, "internal")
  /\ UNCHANGED <<storeVars, target, meta, already, viewVars>>

CASMetaUnchecked(h, t) == \* mutant: no test of the status
  IF token[h] # NoToken THEN Consumed(token[h], t) ELSE NoToken

(* The metadata CASTokenConsume returns for the script's reply: nil unless *)
(* the transition succeeded.                                               *)
CASMeta(h, t) == IF token[h].status = "ACTIVE" THEN Consumed(token[h], t) ELSE NoToken

CASAnswerInverted(m, ac) == \* mutant: alreadyConsuming tested the wrong way round
  CASE m = NoToken -> "expired"
    [] m # NoToken /\ ~ ac -> "locked"
    [] OTHER -> "none"

(* The handler's tests on CASTokenConsume's result, in their order; "none" *)
(* is no response yet.                                                     *)
CASAnswer(m, ac) ==
  CASE m = NoToken -> "expired"
    [] m # NoToken /\ ac -> "locked"
    [] OTHER -> "none"

(* CASTokenConsume, answered. *)
Consume(r) ==
  LET h == target[r]
      m == CASMeta(h, redisNow[r])
      ac == token[h].status = "CONSUMING"
      a == CASAnswer(m, ac)
  IN
  /\ At(r, "cas")
  /\ CASScript(h, redisNow[r])
  /\ meta' = [meta EXCEPT ![r] = m]
  /\ already' = [already EXCEPT ![r] = ac]
  /\ pc' = [pc EXCEPT ![r] = IF a = "none" THEN "head" ELSE "done"]
  /\ answer' = [answer EXCEPT ![r] = a]
  /\ UNCHANGED <<now, destroyed, expiryIndex, destroyQueue, cleanupLock, pendingVars, objects>>
  /\ UNCHANGED <<target, redisNow, viewVars>>

(* The call to Redis fails: the script did not run, or ran and its reply   *)
(* was lost.  go-redis may then send it again and find the token taken.    *)
ConsumeFails(r) ==
  /\ RedisFaults
  /\ At(r, "cas")
  /\ \/ UNCHANGED token /\ Reply(r, "internal")
     \/ CASScript(target[r], redisNow[r]) /\ \E a \in {"internal", "expired"} : Reply(r, a)
  /\ UNCHANGED <<now, destroyed, expiryIndex, destroyQueue, cleanupLock, pendingVars, objects>>
  /\ UNCHANGED <<target, redisNow, meta, already, viewVars>>

(* HeadObjectWithRetry with one attempt, and the checksum comparison.  An  *)
(* error whose text holds "404" (a request id, the quoted object key) is   *)
(* taken by isS3NotFound for a missing object.  The comparison can only    *)
(* fail where the provider reports ETags as long as the stored checksum.   *)
Head(r) ==
  /\ At(r, "head")
  /\ \/ meta[r].object \in objects /\ Goto(r, "presign")
     \/ meta[r].object \notin objects /\ Goto(r, "delToken")
     \/ S3Faults /\ Goto(r, "delToken")
     \/ S3Faults /\ \E a \in {"internal", "integrity"} : Reply(r, a)
  /\ UNCHANGED <<storeVars, target, redisNow, meta, already, viewVars>>

CleanupReleaseToken(r) == \* mutant: hands the token back instead of deleting it
  /\ At(r, "delToken")
  /\ SetToken(target[r], [meta[r] EXCEPT !.status = "ACTIVE"])
  /\ Goto(r, "mark")
  /\ UNCHANGED <<now, destroyed, expiryIndex, destroyQueue, cleanupLock, pendingVars, objects>>
  /\ UNCHANGED <<target, redisNow, meta, already, viewVars>>

(* cleanupAfterMissingObject: DEL token, then SETEX destroyed, then DEL    *)
(* lock:{hash} (a key nothing sets).  A failed call is only reported.      *)
CleanupDelToken(r) ==
  /\ At(r, "delToken")
  /\ DelToken(target[r]) \/ (RedisFaults /\ UNCHANGED token)
  /\ Goto(r, "mark")
  /\ UNCHANGED <<now, destroyed, expiryIndex, destroyQueue, cleanupLock, pendingVars, objects>>
  /\ UNCHANGED <<target, redisNow, meta, already, viewVars>>

CleanupMarkDestroyed(r) ==
  /\ At(r, "mark")
  /\ \/ destroyed' = [destroyed EXCEPT ![target[r]] = now + DestroyedTTL]
     \/ RedisFaults /\ UNCHANGED destroyed
  /\ Reply(r, "expired")
  /\ UNCHANGED <<now, token, expiryIndex, destroyQueue, cleanupLock, pendingVars, objects>>
  /\ UNCHANGED <<target, redisNow, meta, already, viewVars>>

(* The deduplication check: the job is queued only for metadata that has   *)
(* no destruction_scheduled_at.                                            *)
JobsFor(r) ==
  IF meta[r].scheduledAt = NoTime
    THEN {[hash |-> target[r], score |-> redisNow[r] + DestroyDelay]}
    ELSE {}

(* Presign the URL, queue the destruction job (a failed ZADD is only       *)
(* reported), redirect.                                                    *)
Redirect(r) ==
  /\ At(r, "presign")
  /\ \/ /\ Reply(r, "redirect")
        /\ \E js \in {JobsFor(r)} \union (IF RedisFaults THEN {{}} ELSE {}) :
             destroyQueue' = destroyQueue \union js
     \/ S3Faults /\ Reply(r, "internal") /\ UNCHANGED destroyQueue
  /\ UNCHANGED <<now, token, destroyed, expiryIndex, cleanupLock, pendingVars, objects>>
  /\ UNCHANGED <<target, redisNow, meta, already, viewVars>>

(* The instance serving the request dies. *)
CrashRequest(r) ==
  /\ Crashes
  /\ pc[r] \notin {"start", "done"}
  /\ Reply(r, "dropped")
  /\ UNCHANGED <<storeVars, target, redisNow, meta, already, viewVars>>

PostStep(r) ==
  \/ \E h \in Hashes : CheckDestroyed(r, h)
  \/ ReadRedisTime(r)
  \/ Consume(r)
  \/ ConsumeFails(r)
  \/ Head(r)
  \/ CleanupDelToken(r)
  \/ CleanupMarkDestroyed(r)
  \/ Redirect(r)
  \/ CrashRequest(r)

-------------------------------------------------------------------------------
(***************************************************************************)
(* GET /d/{token}: two reads, no writes.                                   *)
(***************************************************************************)
ViewReply(v, a) ==
  /\ viewPc' = [viewPc EXCEPT ![v] = "done"]
  /\ viewAnswer' = [viewAnswer EXCEPT ![v] = a]

ViewCheckDestroyed(v, h) ==
  /\ viewPc[v] = "start"
  /\ viewTarget' = [viewTarget EXCEPT ![v] = h]
  /\ \/ destroyed[h] # NoTime /\ ViewReply(v, "expired")
     \/ /\ destroyed[h] = NoTime
        /\ viewPc' = [viewPc EXCEPT ![v] = "token"]
        /\ UNCHANGED viewAnswer
     \/ RedisFaults /\ ViewReply(v, "internal")
  /\ UNCHANGED <<storeVars, postVars>>

(* The page shown for the value GET token:{hash} returned. *)
PageFor(val) ==
  CASE val = NoToken -> "expired"
    [] Decodable(val) -> "page"
    [] OTHER -> "internal"

ViewToken(v) ==
  /\ viewPc[v] = "token"
  /\ ViewReply(v, PageFor(token[viewTarget[v]])) \/ (RedisFaults /\ ViewReply(v, "internal"))
  /\ UNCHANGED <<storeVars, postVars, viewTarget>>

ViewStep(v) ==
  \/ \E h \in Hashes : ViewCheckDestroyed(v, h)
  \/ ViewToken(v)

DownloadStep ==
  \/ \E r \in Requests : PostStep(r)
  \/ \E v \in Views : ViewStep(v)

===============================================================================
