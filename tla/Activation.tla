------------------------------ MODULE Activation ------------------------------
(***************************************************************************)
(* How a share comes to exist and how the admin withdraws it: the second   *)
(* half of ConfirmUpload (from the object that passed HEAD and the ClamAV  *)
(* scan to the indexed token) and RevokeToken.  Each ConfirmUpload call is *)
(* a process.  The upload session and the quotas, which this half only     *)
(* deletes or counts, are not represented.                                 *)
(***************************************************************************)
EXTENDS Stores

CONSTANTS
  Confirms,     \* ConfirmUpload calls
  TTLs,         \* the token lifetimes an admin may choose (resolveTTL's range)
  TTLSlack,     \* how far into its last second, in ticks, a key may last
  ReuseObjects  \* may two calls name the same object_key?

ASSUME ActivationAssumption ==
  /\ TTLs \subseteq Nat \ {0}
  /\ TTLSlack \subseteq {0, 1}
  /\ ReuseObjects \in BOOLEAN

VARIABLES
  confirmPc,
  confirmObject, \* req.ObjectKey
  confirmTTL,    \* tokenTTL
  confirmExpiry, \* expiresAt
  issued         \* the hashes sent to Redis so far

activationVars == <<confirmPc, confirmObject, confirmTTL, confirmExpiry, issued>>

NoObject == "no object"

ConfirmSteps == {"start", "metadata", "store", "abort", "index", "unpend", "done", "failed"}

ActivationTypeOK ==
  /\ confirmPc \in [Confirms -> ConfirmSteps]
  /\ confirmObject \in [Confirms -> Objects \union {NoObject}]
  /\ confirmTTL \in [Confirms -> Int]
  /\ confirmExpiry \in [Confirms -> Int]
  /\ issued \subseteq Hashes

ActivationInit ==
  /\ confirmPc = [c \in Confirms |-> "start"]
  /\ confirmObject = [c \in Confirms |-> NoObject]
  /\ confirmTTL = [c \in Confirms |-> NoTime]
  /\ confirmExpiry = [c \in Confirms |-> NoTime]
  /\ issued = {}

-------------------------------------------------------------------------------
ConfirmGoto(c, step) == confirmPc' = [confirmPc EXCEPT ![c] = step]

(* The object named by the request body is in the bucket and scans clean. *)
VerifyObject(c) ==
  /\ confirmPc[c] = "start"
  /\ \E o \in objects :
       /\ ReuseObjects \/ \A d \in Confirms : confirmObject[d] # o
       /\ confirmObject' = [confirmObject EXCEPT ![c] = o]
  /\ ConfirmGoto(c, "metadata")
  /\ UNCHANGED <<storeVars, confirmTTL, confirmExpiry, issued>>

(* time.Now() is read, and expires_at computed from it.  MaxTime bounds    *)
(* the shares: one that would outlive the horizon is not followed.         *)
BuildMetadata(c) ==
  /\ confirmPc[c] = "metadata"
  /\ \E ttl \in TTLs, t \in InstanceClock :
       /\ now + ttl <= MaxTime
       /\ confirmTTL' = [confirmTTL EXCEPT ![c] = ttl]
       /\ confirmExpiry' = [confirmExpiry EXCEPT ![c] = t + ttl]
  /\ ConfirmGoto(c, "store")
  /\ UNCHANGED <<storeVars, confirmObject, issued>>

(* The metadata ConfirmUpload stores for an object and expiry. *)
NewToken(o, expiresAt, deadline) ==
  [status |-> "ACTIVE", object |-> o, expiresAt |-> expiresAt,
   scheduledAt |-> NoTime, deadline |-> deadline]

(* SETEX token:{hash}, for the fresh hash GenerateToken has returned.  The *)
(* TTL counts from the call's execution, inside the current second: the    *)
(* key lasts until the second it ends in, or through it, and may outlive   *)
(* expires_at.  A failed SETEX may have been executed all the same; one    *)
(* that is sent again is represented by its last execution, for nobody has *)
(* the link before the call returns.  MaxTime bounds the shares here too.  *)
StoreToken(c) ==
  /\ confirmPc[c] = "store"
  /\ \E h \in Hashes \ issued, d \in TTLSlack :
       LET deadline == now + confirmTTL[c] + d
           stored == SetToken(h, NewToken(confirmObject[c], confirmExpiry[c], deadline))
       IN
       /\ deadline <= MaxTime
       /\ issued' = issued \union {h}
       /\ \/ stored /\ ConfirmGoto(c, "index")
          \/ RedisFaults /\ (stored \/ UNCHANGED token) /\ ConfirmGoto(c, "abort")
  /\ UNCHANGED <<now, destroyed, expiryIndex, destroyQueue, cleanupLock, pendingVars, objects>>
  /\ UNCHANGED <<confirmObject, confirmTTL, confirmExpiry>>

(* The token could not be stored: delete the object, answer 500. *)
AbortConfirm(c) ==
  /\ confirmPc[c] = "abort"
  /\ objects' = objects \ {confirmObject[c]} \/ (S3Faults /\ UNCHANGED objects)
  /\ ConfirmGoto(c, "failed")
  /\ UNCHANGED <<now, token, destroyed, expiryIndex, destroyQueue, cleanupLock, pendingVars>>
  /\ UNCHANGED <<confirmObject, confirmTTL, confirmExpiry, issued>>

(* SADD cleanup:{date} (a set nothing reads), ZADD cleanup_by_expiry; a    *)
(* failure of either is only reported.                                     *)
IndexObject(c) ==
  /\ confirmPc[c] = "index"
  /\ \/ expiryIndex' = [expiryIndex EXCEPT ![confirmObject[c]] = confirmExpiry[c]]
     \/ RedisFaults /\ UNCHANGED expiryIndex
  /\ ConfirmGoto(c, "unpend")
  /\ UNCHANGED <<now, token, destroyed, destroyQueue, cleanupLock, pendingVars, objects>>
  /\ UNCHANGED <<confirmObject, confirmTTL, confirmExpiry, issued>>

(* ZREM uploads_pending, for the upload_id of the request body: it may be  *)
(* missing, and need not be the upload of the object.  A failure is        *)
(* ignored.                                                                *)
Unpend(c) ==
  /\ confirmPc[c] = "unpend"
  /\ \/ \E o \in Objects : pending' = [pending EXCEPT ![o] = NoTime]
     \/ UNCHANGED pending
  /\ ConfirmGoto(c, "done")
  /\ UNCHANGED <<now, token, destroyed, expiryIndex, destroyQueue, cleanupLock, overdue, objects>>
  /\ UNCHANGED <<confirmObject, confirmTTL, confirmExpiry, issued>>

(* The instance serving the call dies. *)
CrashConfirm(c) ==
  /\ Crashes
  /\ confirmPc[c] \notin {"start", "done", "failed"}
  /\ ConfirmGoto(c, "done")
  /\ UNCHANGED <<storeVars, confirmObject, confirmTTL, confirmExpiry, issued>>

ConfirmStep(c) ==
  \/ VerifyObject(c)
  \/ BuildMetadata(c)
  \/ StoreToken(c)
  \/ AbortConfirm(c)
  \/ IndexObject(c)
  \/ Unpend(c)
  \/ CrashConfirm(c)

-------------------------------------------------------------------------------
RevokeAndForget(h) == \* mutant: also drops the file from cleanup_by_expiry
  /\ token[h] # NoToken
  /\ DelToken(h)
  /\ expiryIndex' = [expiryIndex EXCEPT ![token[h].object] = NoTime]
  /\ UNCHANGED <<now, destroyed, destroyQueue, cleanupLock, pendingVars, objects>>
  /\ UNCHANGED activationVars

(* RevokeToken: DEL token:{hash}; neither the object nor the index is      *)
(* touched.  (A failed DEL changes nothing.)                               *)
RevokeToken(h) ==
  /\ token[h] # NoToken
  /\ DelToken(h)
  /\ UNCHANGED <<now, destroyed, expiryIndex, destroyQueue, cleanupLock, pendingVars, objects>>
  /\ UNCHANGED activationVars

ActivationStep ==
  \/ \E c \in Confirms : ConfirmStep(c)
  \/ \E h \in Hashes : RevokeToken(h)

===============================================================================
