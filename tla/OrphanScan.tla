------------------------------ MODULE OrphanScan ------------------------------
(***************************************************************************)
(* The cleanup worker's orphan scan (runOrphanScanCycle and                *)
(* processCleanupByExpiry) and its stale-entry cleaner, for several        *)
(* backend instances.  Each Redis or S3 call is one step.  A cycle passes  *)
(* over cleanup_by_expiry, then over uploads_pending; its third pass, over *)
(* uploads_unconfirmed, finds nothing, for no call adds to that set.       *)
(***************************************************************************)
EXTENDS Stores

CONSTANTS
  Workers,         \* backend instances that run the worker
  CleanupLockTTL,  \* cleanupLockTTL
  MaxGracePeriod,  \* maxGracePeriod
  StaleAge,        \* maxAge of CleanStaleZSETEntries, destroy_queue and cleanup_by_expiry
  PendingStaleAge  \* its maxAge for uploads_pending

ASSUME OrphanScanAssumption ==
  /\ CleanupLockTTL \in Nat \ {0}
  /\ MaxGracePeriod \in Nat
  /\ StaleAge \in Nat
  /\ PendingStaleAge \in Nat

VARIABLES
  workerPc,
  scanNow,  \* now, read once per cycle
  due,      \* objectKeys, then the objects of uploadIDs, still to process
  current,  \* the one being processed
  keys      \* tokenKeys still to read for it

scanVars == <<workerPc, scanNow, due, current, keys>>

Nothing == "nothing"

ScanSteps == {"idle", "range", "next", "keys", "delete", "zrem"}
SweepSteps == {"sweepRange", "sweepNext", "sweepDelete", "sweepZrem"}

OrphanScanTypeOK ==
  /\ workerPc \in [Workers -> ScanSteps \union SweepSteps]
  /\ scanNow \in [Workers -> Int]
  /\ due \in [Workers -> SUBSET Objects]
  /\ current \in [Workers -> Objects \union {Nothing}]
  /\ keys \in [Workers -> SUBSET Hashes]

OrphanScanInit ==
  /\ workerPc = [w \in Workers |-> "idle"]
  /\ scanNow = [w \in Workers |-> NoTime]
  /\ due = [w \in Workers |-> {}]
  /\ current = [w \in Workers |-> Nothing]
  /\ keys = [w \in Workers |-> {}]

-------------------------------------------------------------------------------
WorkerGoto(w, step) == workerPc' = [workerPc EXCEPT ![w] = step]

(* SETNX cleanup_lock; a lost reply leaves a lock that nobody holds. *)
StartCycle(w) ==
  /\ workerPc[w] = "idle"
  /\ cleanupLock = NoTime
  /\ cleanupLock' = now + CleanupLockTTL
  /\ \/ /\ WorkerGoto(w, "range")
        /\ \E t \in InstanceClock : scanNow' = [scanNow EXCEPT ![w] = t]
     \/ RedisFaults /\ UNCHANGED <<workerPc, scanNow>>
  /\ UNCHANGED <<now, token, destroyed, expiryIndex, destroyQueue, pendingVars, objects>>
  /\ UNCHANGED <<due, current, keys>>

ListDueEarly(w) == \* mutant: an off-by-one in the range
  /\ workerPc[w] = "range"
  /\ due' = [due EXCEPT ![w] = {o \in Objects : expiryIndex[o] \in 0 .. scanNow[w] + 1}]
  /\ WorkerGoto(w, "next")
  /\ UNCHANGED <<storeVars, scanNow, current, keys>>

(* ZRANGEBYSCORE cleanup_by_expiry 0 now. *)
ListDue(w) ==
  /\ workerPc[w] = "range"
  /\ \/ due' = [due EXCEPT ![w] = {o \in Objects : expiryIndex[o] \in 0 .. scanNow[w]}]
     \/ RedisFaults /\ UNCHANGED due
  /\ WorkerGoto(w, "next")
  /\ UNCHANGED <<storeVars, scanNow, current, keys>>

(* processExpiredObjectKey lists token:*; if that fails it returns. *)
PickObject(w) ==
  /\ workerPc[w] = "next"
  /\ \E o \in due[w] :
       /\ due' = [due EXCEPT ![w] = @ \ {o}]
       /\ current' = [current EXCEPT ![w] = o]
  /\ \/ /\ keys' = [keys EXCEPT ![w] = {h \in Hashes : token[h] # NoToken}]
        /\ WorkerGoto(w, "keys")
     \/ RedisFaults /\ UNCHANGED keys /\ WorkerGoto(w, "zrem")
  /\ UNCHANGED <<storeVars, scanNow>>

(* A token value of the object decides its fate; any other is passed over. *)
Names(v, o) == Decodable(v) /\ v.object = o

(* The switch on meta.Status: the token still protects its object. *)
Protects(v, t) ==
  \/ v.status = "CONSUMING" /\ v.scheduledAt # NoTime /\ t - v.scheduledAt < MaxGracePeriod
  \/ v.status = "ACTIVE" /\ v.expiresAt > t

(* GET one of the listed keys.  A failed GET passes the key over too. *)
ReadKey(w, h) ==
  LET v == token[h]
      o == current[w]
  IN
  /\ workerPc[w] = "keys"
  /\ h \in keys[w]
  /\ \/ /\ ~ Names(v, o) \/ RedisFaults
        /\ keys' = [keys EXCEPT ![w] = @ \ {h}]
        /\ UNCHANGED workerPc
     \/ /\ Names(v, o)
        /\ keys' = [keys EXCEPT ![w] = {}]
        /\ WorkerGoto(w, IF Protects(v, scanNow[w]) THEN "zrem" ELSE "delete")
  /\ UNCHANGED <<storeVars, scanNow, due, current>>

(* DeleteObject, for a stale token or when no token was found. *)
DeleteObject(w) ==
  /\ workerPc[w] = "delete" \/ (workerPc[w] = "keys" /\ keys[w] = {})
  /\ objects' = objects \ {current[w]} \/ (S3Faults /\ UNCHANGED objects)
  /\ WorkerGoto(w, "zrem")
  /\ UNCHANGED <<now, token, destroyed, expiryIndex, destroyQueue, cleanupLock, pendingVars>>
  /\ UNCHANGED <<scanNow, due, current, keys>>

(* ZREM after processing, regardless of outcome. *)
Unindex(w) ==
  /\ workerPc[w] = "zrem"
  /\ \/ expiryIndex' = [expiryIndex EXCEPT ![current[w]] = NoTime]
     \/ RedisFaults /\ UNCHANGED expiryIndex
  /\ current' = [current EXCEPT ![w] = Nothing]
  /\ WorkerGoto(w, "next")
  /\ UNCHANGED <<now, token, destroyed, destroyQueue, cleanupLock, pendingVars, objects>>
  /\ UNCHANGED <<scanNow, due, keys>>

-------------------------------------------------------------------------------
(* The second pass begins once the list is worked off.  A shutdown         *)
(* (ctx.Done) leaves the rest of the list for a later cycle.               *)
StartSweep(w) ==
  /\ workerPc[w] = "next"
  /\ due[w] = {} \/ Crashes
  /\ due' = [due EXCEPT ![w] = {}]
  /\ WorkerGoto(w, "sweepRange")
  /\ UNCHANGED <<storeVars, scanNow, current, keys>>

ListPendingEarly(w) == \* mutant: an off-by-one in the range
  /\ workerPc[w] = "sweepRange"
  /\ due' = [due EXCEPT ![w] = {o \in Objects : pending[o] \in 0 .. scanNow[w] + 1}]
  /\ WorkerGoto(w, "sweepNext")
  /\ UNCHANGED <<storeVars, scanNow, current, keys>>

(* ZRANGEBYSCORE uploads_pending 0 now. *)
ListPending(w) ==
  /\ workerPc[w] = "sweepRange"
  /\ \/ due' = [due EXCEPT ![w] = {o \in Objects : pending[o] \in 0 .. scanNow[w]}]
     \/ RedisFaults /\ UNCHANGED due
  /\ WorkerGoto(w, "sweepNext")
  /\ UNCHANGED <<storeVars, scanNow, current, keys>>

(* GET upload:{id}: the session may be there or have lapsed. *)
PickUpload(w) ==
  /\ workerPc[w] = "sweepNext"
  /\ \E o \in due[w] :
       /\ due' = [due EXCEPT ![w] = @ \ {o}]
       /\ current' = [current EXCEPT ![w] = o]
  /\ \E step \in {"sweepDelete", "sweepZrem"} : WorkerGoto(w, step)
  /\ UNCHANGED <<storeVars, scanNow, keys>>

(* DeleteObject for the session's object_key, then DEL upload:{id}. *)
DeleteUpload(w) ==
  /\ workerPc[w] = "sweepDelete"
  /\ objects' = objects \ {current[w]} \/ (S3Faults /\ UNCHANGED objects)
  /\ WorkerGoto(w, "sweepZrem")
  /\ UNCHANGED <<now, token, destroyed, expiryIndex, destroyQueue, cleanupLock, pendingVars>>
  /\ UNCHANGED <<scanNow, due, current, keys>>

DropUpload(w) ==
  /\ workerPc[w] = "sweepZrem"
  /\ \/ pending' = [pending EXCEPT ![current[w]] = NoTime]
     \/ RedisFaults /\ UNCHANGED pending
  /\ current' = [current EXCEPT ![w] = Nothing]
  /\ WorkerGoto(w, "sweepNext")
  /\ UNCHANGED <<now, token, destroyed, expiryIndex, destroyQueue, cleanupLock, overdue, objects>>
  /\ UNCHANGED <<scanNow, due, keys>>

(* The deferred DEL cleanup_lock, whoever holds it by now.                 *)
EndCycle(w) ==
  /\ workerPc[w] = "sweepNext"
  /\ due[w] = {} \/ Crashes
  /\ due' = [due EXCEPT ![w] = {}]
  /\ cleanupLock' = NoTime \/ (RedisFaults /\ UNCHANGED cleanupLock)
  /\ WorkerGoto(w, "idle")
  /\ scanNow' = [scanNow EXCEPT ![w] = NoTime]
  /\ UNCHANGED <<now, token, destroyed, expiryIndex, destroyQueue, pendingVars, objects>>
  /\ UNCHANGED <<current, keys>>

(* The instance dies in mid-cycle; its lock stays until its TTL elapses. *)
CrashWorker(w) ==
  /\ Crashes
  /\ workerPc[w] # "idle"
  /\ WorkerGoto(w, "idle")
  /\ scanNow' = [scanNow EXCEPT ![w] = NoTime]
  /\ due' = [due EXCEPT ![w] = {}]
  /\ current' = [current EXCEPT ![w] = Nothing]
  /\ keys' = [keys EXCEPT ![w] = {}]
  /\ UNCHANGED storeVars

ScanCycle(w) ==
  \/ StartCycle(w)
  \/ ListDue(w)
  \/ PickObject(w)
  \/ \E h \in Hashes : ReadKey(w, h)
  \/ DeleteObject(w)
  \/ Unindex(w)
  \/ StartSweep(w)
  \/ ListPending(w)
  \/ PickUpload(w)
  \/ DeleteUpload(w)
  \/ DropUpload(w)
  \/ EndCycle(w)

-------------------------------------------------------------------------------
(* CleanStaleZSETEntries, for destroy_queue, uploads_pending and           *)
(* cleanup_by_expiry: ZREMRANGEBYSCORE -inf (now - maxAge), inclusive.     *)
CleanStale ==
  /\ \E t \in InstanceClock :
       /\ expiryIndex' = [o \in Objects |->
                            IF expiryIndex[o] <= t - StaleAge THEN NoTime ELSE expiryIndex[o]]
       /\ destroyQueue' = {j \in destroyQueue : j.score > t - StaleAge}
       /\ pending' = [o \in Objects |->
                        IF pending[o] <= t - PendingStaleAge THEN NoTime ELSE pending[o]]
  /\ UNCHANGED <<now, token, destroyed, cleanupLock, overdue, objects>>
  /\ UNCHANGED scanVars

OrphanScanStep ==
  \/ \E w \in Workers : ScanCycle(w) \/ CrashWorker(w)
  \/ CleanStale

===============================================================================
