-------------------------------- MODULE Stores --------------------------------
(***************************************************************************)
(* The Redis keys and the S3 bucket that the download handler, the upload  *)
(* handler and the cleanup worker of every backend instance share:         *)
(*   token:{hash}       metadata of a share, with its Redis TTL            *)
(*   destroyed:{hash}   marker of a destroyed share, with its Redis TTL    *)
(*   cleanup_by_expiry  sorted set object_key -> expires_at                *)
(*   destroy_queue      sorted set of destruction jobs                     *)
(*   cleanup_lock       lock of the orphan scan, with its Redis TTL        *)
(*   uploads_pending    sorted set of upload ids not confirmed yet; an     *)
(*                      object key belongs to one upload, and stands for it *)
(* Time is the Redis server's clock.  A key whose TTL has elapsed is gone  *)
(* for every reader, so Tick removes it in the same step.  A tick is a     *)
(* Unix second, so expiresAt.Unix() is the tick expires_at lies in.        *)
(***************************************************************************)
EXTENDS Integers

CONSTANTS
  Hashes,       \* token hashes; each is 32 random bytes, hashed
  Objects,      \* object keys in the bucket
  MaxTime,      \* bound on the clock (model checking only)
  ClockSkew,    \* how far time.Now() of an instance may be off the Redis clock
  DestroyedTTL, \* TTL of destroyed:{hash}
  PendingScores, \* scores uploads_pending may hold at first, NoTime for no entry
  RedisFaults,  \* may a Redis call fail, or lose its reply?
  S3Faults,     \* may an S3 call fail?
  Crashes       \* may a backend instance die between two calls?

ASSUME StoresAssumption ==
  /\ MaxTime \in Nat
  /\ ClockSkew \in Nat
  /\ DestroyedTTL \in Nat \ {0}
  /\ PendingScores \subseteq Nat \union {-1}
  /\ RedisFaults \in BOOLEAN
  /\ S3Faults \in BOOLEAN
  /\ Crashes \in BOOLEAN

VARIABLES
  now,          \* Redis server time
  token,        \* token:{hash}
  destroyed,    \* destroyed:{hash}: the time it lapses, or NoTime
  expiryIndex,  \* cleanup_by_expiry: the score of an object, or NoTime
  destroyQueue, \* destroy_queue: the jobs
  cleanupLock,  \* cleanup_lock: the time it lapses, or NoTime
  pending,      \* uploads_pending: the score of an object's upload, or NoTime
  overdue,      \* history: objects whose upload was still pending when due
  objects       \* object keys present in the bucket

pendingVars == <<pending, overdue>>
storeVars == <<now, token, destroyed, expiryIndex, destroyQueue, cleanupLock, pendingVars,
               objects>>

NoTime == -1

-------------------------------------------------------------------------------
(***************************************************************************)
(* Values.  deadline is the Redis TTL of the key as the time it lapses,    *)
(* NoTime when the key has none; the other fields are the JSON value.      *)
(***************************************************************************)
NoToken == [status |-> "NONE"]

TokenMeta ==
  [status: {"ACTIVE", "CONSUMING"}, object: Objects, expiresAt: Int,
   scheduledAt: Int, deadline: Int]

DestroyJob == [hash: Hashes, score: Int]

StoresTypeOK ==
  /\ now \in Nat
  /\ token \in [Hashes -> TokenMeta \union {NoToken}]
  /\ destroyed \in [Hashes -> Int]
  /\ expiryIndex \in [Objects -> Int]
  /\ destroyQueue \subseteq DestroyJob
  /\ cleanupLock \in Int
  /\ pending \in [Objects -> Int]
  /\ overdue \subseteq Objects
  /\ objects \subseteq Objects

(* The objects whose upload has an entry that is due at t on some clock. *)
DueUploads(t) == {o \in Objects : pending[o] # NoTime /\ pending[o] <= t + ClockSkew}

(* Every object has been uploaded; its upload was requested some time ago. *)
StoresInit ==
  /\ now = 0
  /\ token = [h \in Hashes |-> NoToken]
  /\ destroyed = [h \in Hashes |-> NoTime]
  /\ expiryIndex = [o \in Objects |-> NoTime]
  /\ destroyQueue = {}
  /\ cleanupLock = NoTime
  /\ pending \in [Objects -> PendingScores]
  /\ overdue = DueUploads(0)
  /\ objects = Objects

DecodableAlways(v) == v # NoToken \* mutant: both time formats accepted

(***************************************************************************)
(* json.Unmarshal of a token value into models.FileMetadata: the Lua       *)
(* script writes destruction_scheduled_at as a number, which a *time.Time  *)
(* field refuses, so only a value without it decodes.                      *)
(***************************************************************************)
Decodable(v) == v # NoToken /\ v.scheduledAt = NoTime

ConsumedAsDestroyed(v, t) == \* mutant: writes the wrong status
  [v EXCEPT !.status = "DESTROYED", !.scheduledAt = t, !.deadline = NoTime]

(***************************************************************************)
(* The Lua script luaCASTokenConsume.  Its plain SET drops the key's TTL.  *)
(***************************************************************************)
Consumed(v, t) ==
  [status |-> "CONSUMING", object |-> v.object, expiresAt |-> v.expiresAt,
   scheduledAt |-> t, deadline |-> NoTime]

CASScriptWithoutSet(h, t) == UNCHANGED token \* mutant: replies, forgets to SET

CASScript(h, t) ==
  token' = IF token[h].status = "ACTIVE"
             THEN [token EXCEPT ![h] = Consumed(token[h], t)]
             ELSE token

(***************************************************************************)
(* SETEX and DEL of token:{hash}.                                          *)
(***************************************************************************)
SetToken(h, v) == token' = [token EXCEPT ![h] = v]

DelToken(h) == token' = [token EXCEPT ![h] = NoToken]

(* What time.Now() may return on some instance. *)
InstanceClock == {t \in (now - ClockSkew) .. (now + ClockSkew) : t >= 0}

-------------------------------------------------------------------------------
(***************************************************************************)
(* Time passes; every key whose TTL has elapsed disappears.                *)
(***************************************************************************)
Lapsed(deadline, t) == deadline # NoTime /\ deadline <= t

Tick ==
  /\ now < MaxTime
  /\ now' = now + 1
  /\ token' = [h \in Hashes |->
                 IF token[h] # NoToken /\ Lapsed(token[h].deadline, now + 1)
                   THEN NoToken ELSE token[h]]
  /\ destroyed' = [h \in Hashes |->
                     IF Lapsed(destroyed[h], now + 1) THEN NoTime ELSE destroyed[h]]
  /\ cleanupLock' = IF Lapsed(cleanupLock, now + 1) THEN NoTime ELSE cleanupLock
  /\ overdue' = overdue \union DueUploads(now + 1)
  /\ UNCHANGED <<expiryIndex, destroyQueue, pending, objects>>

===============================================================================
