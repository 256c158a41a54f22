---------------------------- MODULE UploadPipeline ----------------------------
(***************************************************************************)
(* An upload until it is a share or swept: RequestUpload, the PUT to the   *)
(* presigned URL, ConfirmUpload, and the worker's pass over                *)
(* uploads_pending (processExpiredUploads), which races with both.  Each   *)
(* Redis, S3 or ClamAV call is one step.  An upload has its own object;    *)
(* uploads_unconfirmed is always empty, since nothing adds to it.  What    *)
(* becomes of an activated share is the subject of ShareLifecycle; the     *)
(* daily quotas, which only refuse requests, are not represented.          *)
(***************************************************************************)
EXTENDS Integers, FiniteSets

CONSTANTS
  Uploads,     \* upload ids, with their objects
  Calls,       \* ConfirmUpload calls
  Sweepers,    \* backend instances that run the worker
  MaxPending,  \* the lesser of MaxPendingUploadsPerAdmin and MaxTotalPendingUploads
  SessionTTL,  \* TTL of upload:{id}
  PendingTTL,  \* how long an upload may stay pending
  PutTTL,      \* lifetime of the presigned PUT URL
  StaleAge,    \* maxAge of uploads_pending in CleanStaleZSETEntries
  ClockSkew,   \* how far time.Now() of an instance may be off the Redis clock
  MaxTime,     \* bound on the clock (model checking only)
  RedisFaults, \* may a Redis call fail, or lose its reply?
  S3Faults,    \* may S3 or ClamAV fail?
  Crashes      \* may an instance die between two calls?

ASSUME UploadPipelineAssumption ==
  /\ MaxPending \in Nat \ {0}
  /\ SessionTTL \in Nat \ {0}
  /\ PendingTTL \in Nat \ {0}
  /\ PutTTL \in Nat
  /\ StaleAge \in Nat
  /\ ClockSkew \in Nat
  /\ MaxTime \in Nat
  /\ RedisFaults \in BOOLEAN
  /\ S3Faults \in BOOLEAN
  /\ Crashes \in BOOLEAN

VARIABLES
  now,         \* Redis server time
  session,     \* upload:{id}: the time it lapses, or NoTime
  pending,     \* uploads_pending: the score of an upload, or NoTime
  infected,    \* uploads whose file, as last sent, ClamAV reports
  replaced,    \* history: uploads whose file was sent again after a scan had passed it
  objects,     \* uploads whose object is in the bucket
  shared,      \* uploads for which a token was stored
  reqPc,       \* the next call of RequestUpload; "put" when the client has PUT the file
  requestedAt, \* its now
  callPc,      \* the next call of ConfirmUpload
  callUpload,  \* req.UploadID
  unpendedAt,  \* history: when a call that stored a token took the upload off uploads_pending
  sweepPc,     \* the next call of a sweeper
  sweepNow,    \* now, read once per cycle
  sweepDue,    \* uploadIDs still to process
  sweepUpload  \* uploadID

redisVars == <<now, session, pending, objects, shared>>
fileVars == <<infected, replaced>>
reqVars == <<reqPc, requestedAt, fileVars>>
callVars == <<callPc, callUpload, unpendedAt>>
sweepVars == <<sweepPc, sweepNow, sweepDue, sweepUpload>>
vars == <<redisVars, reqVars, callVars, sweepVars>>

NoTime == -1
NoUpload == "no upload"

TypeOK ==
  /\ now \in Nat
  /\ session \in [Uploads -> Nat \union {NoTime}]
  /\ pending \in [Uploads -> Nat \union {NoTime}]
  /\ infected \subseteq Uploads
  /\ replaced \subseteq Uploads
  /\ objects \subseteq Uploads
  /\ shared \subseteq Uploads
  /\ reqPc \in [Uploads -> {"start", "session", "index", "undo", "failed", "ok", "put"}]
  /\ requestedAt \in [Uploads -> Nat \union {NoTime}]
  /\ callPc \in [Calls -> {"start", "refresh", "head", "scan", "reject", "rejectSession",
                           "rejectPending", "store", "abort", "unpend", "drop", "done"}]
  /\ callUpload \in [Calls -> Uploads \union {NoUpload}]
  /\ unpendedAt \in [Uploads -> Nat \union {NoTime}]
  /\ sweepPc \in [Sweepers -> {"idle", "list", "next", "delete", "session", "zrem"}]
  /\ sweepNow \in [Sweepers -> Nat \union {NoTime}]
  /\ sweepDue \in [Sweepers -> SUBSET Uploads]
  /\ sweepUpload \in [Sweepers -> Uploads \union {NoUpload}]

Init ==
  /\ now = 0
  /\ session = [u \in Uploads |-> NoTime]
  /\ pending = [u \in Uploads |-> NoTime]
  /\ infected = {}
  /\ replaced = {}
  /\ objects = {}
  /\ shared = {}
  /\ reqPc = [u \in Uploads |-> "start"]
  /\ requestedAt = [u \in Uploads |-> NoTime]
  /\ callPc = [c \in Calls |-> "start"]
  /\ callUpload = [c \in Calls |-> NoUpload]
  /\ unpendedAt = [u \in Uploads |-> NoTime]
  /\ sweepPc = [w \in Sweepers |-> "idle"]
  /\ sweepNow = [w \in Sweepers |-> NoTime]
  /\ sweepDue = [w \in Sweepers |-> {}]
  /\ sweepUpload = [w \in Sweepers |-> NoUpload]

(* What time.Now() may return on some instance. *)
InstanceClock == {t \in (now - ClockSkew) .. (now + ClockSkew) : t >= 0}

DelSessionByTTL(u) == \* mutant: gives the key a TTL in the past
  session' = [session EXCEPT ![u] = now - SessionTTL] \/ (RedisFaults /\ UNCHANGED session)

(***************************************************************************)
(* DEL of upload:{id}, ZREM of uploads_pending and DeleteObject, where the *)
(* caller ignores whether the call succeeds.                               *)
(***************************************************************************)
DelSession(u) ==
  session' = [session EXCEPT ![u] = NoTime] \/ (RedisFaults /\ UNCHANGED session)

RemPending(u) ==
  pending' = [pending EXCEPT ![u] = NoTime] \/ (RedisFaults /\ UNCHANGED pending)

DelObject(u) == objects' = objects \ {u} \/ (S3Faults /\ UNCHANGED objects)

-------------------------------------------------------------------------------
(***************************************************************************)
(* POST /api/admin/request-upload, and the client's PUT                    *)
(***************************************************************************)
ReqGoto(u, step) == reqPc' = [reqPc EXCEPT ![u] = step]

(* ZCARD uploads_pending against the limits, then the presigned URL.  The  *)
(* clock bound MaxTime bounds the requests too: an upload that would still *)
(* not be due when the clock stops is not followed.                        *)
CheckLimit(u) ==
  /\ reqPc[u] = "start"
  /\ Cardinality({v \in Uploads : pending[v] # NoTime}) < MaxPending
  /\ \E t \in InstanceClock :
       /\ t + PendingTTL <= MaxTime
       /\ requestedAt' = [requestedAt EXCEPT ![u] = t]
  /\ ReqGoto(u, "session")
  /\ UNCHANGED <<redisVars, fileVars, callVars, sweepVars>>

(* SETEX upload:{id}; a failed call may have been executed. *)
StoreSession(u) ==
  /\ reqPc[u] = "session"
  /\ \/ session' = [session EXCEPT ![u] = now + SessionTTL] /\ ReqGoto(u, "index")
     \/ /\ RedisFaults
        /\ session' \in {session, [session EXCEPT ![u] = now + SessionTTL]}
        /\ ReqGoto(u, "failed")
  /\ UNCHANGED <<now, pending, objects, shared, requestedAt, fileVars, callVars, sweepVars>>

(* ZADD uploads_pending; likewise. *)
IndexPending(u) ==
  LET indexed == [pending EXCEPT ![u] = requestedAt[u] + PendingTTL] IN
  /\ reqPc[u] = "index"
  /\ \/ pending' = indexed /\ ReqGoto(u, "ok")
     \/ RedisFaults /\ pending' \in {pending, indexed} /\ ReqGoto(u, "undo")
  /\ UNCHANGED <<now, session, objects, shared, requestedAt, fileVars, callVars, sweepVars>>

UndoSession(u) ==
  /\ reqPc[u] = "undo"
  /\ DelSession(u)
  /\ ReqGoto(u, "failed")
  /\ UNCHANGED <<now, pending, objects, shared, requestedAt, fileVars, callVars, sweepVars>>

(* A call is about to store a token for u, its scan made, or one has. *)
Passed(u) == u \in shared \/ \E c \in Calls : callUpload[c] = u /\ callPc[c] = "store"

(* The client sends a file, clean or infected, and may send another one in *)
(* its place as often as it likes while the URL is valid: S3 replaces the  *)
(* object, whoever has looked at it by then.                               *)
Put(u) ==
  /\ reqPc[u] \in {"ok", "put"}
  /\ now <= requestedAt[u] + PutTTL
  /\ objects' = objects \union {u}
  /\ infected' \in {infected \ {u}, infected \union {u}}
  /\ replaced' = IF Passed(u) THEN replaced \union {u} ELSE replaced
  /\ ReqGoto(u, "put")
  /\ UNCHANGED <<now, session, pending, shared, requestedAt, callVars, sweepVars>>

CrashRequest(u) ==
  /\ Crashes
  /\ reqPc[u] \in {"session", "index", "undo"}
  /\ ReqGoto(u, "failed")
  /\ UNCHANGED <<redisVars, requestedAt, fileVars, callVars, sweepVars>>

RequestStep(u) ==
  \/ CheckLimit(u)
  \/ StoreSession(u)
  \/ IndexPending(u)
  \/ UndoSession(u)
  \/ Put(u)
  \/ CrashRequest(u)

-------------------------------------------------------------------------------
(***************************************************************************)
(* POST /api/admin/confirm-upload                                          *)
(***************************************************************************)
CallGoto(c, step) == callPc' = [callPc EXCEPT ![c] = step]

(* GET upload:{id}; without a session the call is refused.  The admin may  *)
(* confirm before the PUT has arrived, and more than once.                 *)
FindSession(c) ==
  /\ callPc[c] = "start"
  /\ \E u \in Uploads :
       /\ reqPc[u] \in {"ok", "put"}
       /\ callUpload' = [callUpload EXCEPT ![c] = u]
       /\ \/ session[u] # NoTime /\ CallGoto(c, "refresh")
          \/ (session[u] = NoTime \/ RedisFaults) /\ CallGoto(c, "done")
  /\ UNCHANGED <<redisVars, reqVars, unpendedAt, sweepVars>>

(* SETEX upload:{id} anew, as UPLOADED_UNCONFIRMED. *)
RefreshSession(c) ==
  LET refreshed == [session EXCEPT ![callUpload[c]] = now + SessionTTL] IN
  /\ callPc[c] = "refresh"
  /\ \/ session' = refreshed /\ CallGoto(c, "head")
     \/ RedisFaults /\ session' \in {session, refreshed} /\ CallGoto(c, "done")
  /\ UNCHANGED <<now, pending, objects, shared, reqVars, callUpload, unpendedAt, sweepVars>>

(* HeadObjectWithRetry: any error counts as a missing object. *)
HeadObject(c) ==
  /\ callPc[c] = "head"
  /\ \/ callUpload[c] \in objects /\ CallGoto(c, "scan")
     \/ (callUpload[c] \notin objects \/ S3Faults) /\ CallGoto(c, "reject")
  /\ UNCHANGED <<redisVars, reqVars, callUpload, unpendedAt, sweepVars>>

ScanVerdictOpen(u) == \* mutant: shares what could not be scanned
  CASE u \notin objects -> {"store"}
    [] u \in objects \ infected -> {"store"}
    [] OTHER -> {"reject"} \union (IF S3Faults THEN {"store"} ELSE {})

(* The call after scanObject: the object is fetched and streamed to clamd. *)
(* A scan that could not be made ends the call with 503.                   *)
ScanVerdict(u) ==
  (IF u \notin objects \/ S3Faults THEN {"done"} ELSE {})
    \union (IF u \in objects \ infected THEN {"store"} ELSE {})
    \union (IF u \in objects \intersect infected THEN {"reject"} ELSE {})

ScanObject(c) ==
  /\ callPc[c] = "scan"
  /\ \E step \in ScanVerdict(callUpload[c]) : CallGoto(c, step)
  /\ UNCHANGED <<redisVars, reqVars, callUpload, unpendedAt, sweepVars>>

(* Missing or infected: delete the object, the session, the pending entry. *)
RejectObject(c) ==
  /\ callPc[c] = "reject"
  /\ DelObject(callUpload[c])
  /\ CallGoto(c, "rejectSession")
  /\ UNCHANGED <<now, session, pending, shared, reqVars, callUpload, unpendedAt, sweepVars>>

RejectSession(c) ==
  /\ callPc[c] = "rejectSession"
  /\ DelSession(callUpload[c])
  /\ CallGoto(c, "rejectPending")
  /\ UNCHANGED <<now, pending, objects, shared, reqVars, callUpload, unpendedAt, sweepVars>>

RejectPending(c) ==
  /\ callPc[c] = "rejectPending"
  /\ RemPending(callUpload[c])
  /\ CallGoto(c, "done")
  /\ UNCHANGED <<now, session, objects, shared, reqVars, callUpload, unpendedAt, sweepVars>>

(* SETEX token:{hash}; a failed call may have been executed. *)
StoreShare(c) ==
  /\ callPc[c] = "store"
  /\ \/ shared' = shared \union {callUpload[c]} /\ CallGoto(c, "unpend")
     \/ /\ RedisFaults
        /\ shared' \in {shared, shared \union {callUpload[c]}}
        /\ CallGoto(c, "abort")
  /\ UNCHANGED <<now, session, pending, objects, reqVars, callUpload, unpendedAt, sweepVars>>

AbortCall(c) ==
  /\ callPc[c] = "abort"
  /\ DelObject(callUpload[c])
  /\ CallGoto(c, "done")
  /\ UNCHANGED <<now, session, pending, shared, reqVars, callUpload, unpendedAt, sweepVars>>

UnpendOther(c) == \* mutant: removes the upload from uploads_unconfirmed only
  /\ callPc[c] = "unpend"
  /\ unpendedAt' = [unpendedAt EXCEPT ![callUpload[c]] = now]
  /\ CallGoto(c, "drop")
  /\ UNCHANGED <<redisVars, reqVars, callUpload, sweepVars>>

(* ZREM uploads_pending. *)
Unpend(c) ==
  /\ callPc[c] = "unpend"
  /\ \/ /\ pending' = [pending EXCEPT ![callUpload[c]] = NoTime]
        /\ unpendedAt' = [unpendedAt EXCEPT ![callUpload[c]] = now]
     \/ RedisFaults /\ UNCHANGED <<pending, unpendedAt>>
  /\ CallGoto(c, "drop")
  /\ UNCHANGED <<now, session, objects, shared, reqVars, callUpload, sweepVars>>

(* DEL upload:{id}. *)
DropSession(c) ==
  /\ callPc[c] = "drop"
  /\ DelSession(callUpload[c])
  /\ CallGoto(c, "done")
  /\ UNCHANGED <<now, pending, objects, shared, reqVars, callUpload, unpendedAt, sweepVars>>

CrashCall(c) ==
  /\ Crashes
  /\ callPc[c] \notin {"start", "done"}
  /\ CallGoto(c, "done")
  /\ UNCHANGED <<redisVars, reqVars, callUpload, unpendedAt, sweepVars>>

CallStep(c) ==
  \/ FindSession(c)
  \/ RefreshSession(c)
  \/ HeadObject(c)
  \/ ScanObject(c)
  \/ RejectObject(c)
  \/ RejectSession(c)
  \/ RejectPending(c)
  \/ StoreShare(c)
  \/ AbortCall(c)
  \/ Unpend(c)
  \/ DropSession(c)
  \/ CrashCall(c)

-------------------------------------------------------------------------------
(***************************************************************************)
(* worker.processExpiredUploads                                            *)
(***************************************************************************)
SweepGoto(w, step) == sweepPc' = [sweepPc EXCEPT ![w] = step]

(* runOrphanScanCycle reads the clock when its cycle begins.  Its lock and *)
(* its first pass, which come before this pass, are in OrphanScan.         *)
StartSweep(w) ==
  /\ sweepPc[w] = "idle"
  /\ \E t \in InstanceClock : sweepNow' = [sweepNow EXCEPT ![w] = t]
  /\ SweepGoto(w, "list")
  /\ UNCHANGED <<redisVars, reqVars, callVars, sweepDue, sweepUpload>>

ListExpiredEarly(w) == \* mutant: an off-by-one in the range
  /\ sweepPc[w] = "list"
  /\ sweepDue' = [sweepDue EXCEPT ![w] = {u \in Uploads : pending[u] \in 0 .. sweepNow[w] + 1}]
  /\ sweepNow' = [sweepNow EXCEPT ![w] = NoTime]
  /\ SweepGoto(w, "next")
  /\ UNCHANGED <<redisVars, reqVars, callVars, sweepUpload>>

(* ZRANGEBYSCORE uploads_pending 0 now.  A failed call lists nothing. *)
ListExpired(w) ==
  /\ sweepPc[w] = "list"
  /\ \/ sweepDue' = [sweepDue EXCEPT ![w] = {u \in Uploads : pending[u] \in 0 .. sweepNow[w]}]
     \/ RedisFaults /\ UNCHANGED sweepDue
  /\ sweepNow' = [sweepNow EXCEPT ![w] = NoTime]
  /\ SweepGoto(w, "next")
  /\ UNCHANGED <<redisVars, reqVars, callVars, sweepUpload>>

(* GET upload:{id}: without a session (or an answer) only ZREM is left. *)
ReadSession(w) ==
  /\ sweepPc[w] = "next"
  /\ \E u \in sweepDue[w] :
       /\ sweepUpload' = [sweepUpload EXCEPT ![w] = u]
       /\ sweepDue' = [sweepDue EXCEPT ![w] = @ \ {u}]
       /\ \/ session[u] # NoTime /\ SweepGoto(w, "delete")
          \/ (session[u] = NoTime \/ RedisFaults) /\ SweepGoto(w, "zrem")
  /\ UNCHANGED <<redisVars, reqVars, callVars, sweepNow>>

SweepObject(w) ==
  /\ sweepPc[w] = "delete"
  /\ DelObject(sweepUpload[w])
  /\ SweepGoto(w, "session")
  /\ UNCHANGED <<now, session, pending, shared, reqVars, callVars, sweepNow, sweepDue, sweepUpload>>

SweepSession(w) ==
  /\ sweepPc[w] = "session"
  /\ DelSession(sweepUpload[w])
  /\ SweepGoto(w, "zrem")
  /\ UNCHANGED <<now, pending, objects, shared, reqVars, callVars, sweepNow, sweepDue, sweepUpload>>

SweepPending(w) ==
  /\ sweepPc[w] = "zrem"
  /\ RemPending(sweepUpload[w])
  /\ sweepUpload' = [sweepUpload EXCEPT ![w] = NoUpload]
  /\ SweepGoto(w, "next")
  /\ UNCHANGED <<now, session, objects, shared, reqVars, callVars, sweepNow, sweepDue>>

(* The pass is over, or the instance stops or dies in its middle. *)
EndSweep(w) ==
  /\ sweepPc[w] # "idle"
  /\ Crashes \/ (sweepPc[w] = "next" /\ sweepDue[w] = {})
  /\ sweepNow' = [sweepNow EXCEPT ![w] = NoTime]
  /\ sweepDue' = [sweepDue EXCEPT ![w] = {}]
  /\ sweepUpload' = [sweepUpload EXCEPT ![w] = NoUpload]
  /\ SweepGoto(w, "idle")
  /\ UNCHANGED <<redisVars, reqVars, callVars>>

SweepStep(w) ==
  \/ StartSweep(w)
  \/ ListExpired(w)
  \/ ReadSession(w)
  \/ SweepObject(w)
  \/ SweepSession(w)
  \/ SweepPending(w)
  \/ EndSweep(w)

(* CleanStaleZSETEntries, on uploads_pending. *)
CleanStale ==
  /\ \E t \in InstanceClock :
       pending' = [u \in Uploads |-> IF pending[u] <= t - StaleAge THEN NoTime ELSE pending[u]]
  /\ UNCHANGED <<now, session, objects, shared, reqVars, callVars, sweepVars>>

-------------------------------------------------------------------------------
(* Time passes; a session whose TTL has elapsed disappears. *)
Tick ==
  /\ now < MaxTime
  /\ now' = now + 1
  /\ session' = [u \in Uploads |-> IF session[u] <= now + 1 THEN NoTime ELSE session[u]]
  /\ UNCHANGED <<pending, objects, shared, reqVars, callVars, sweepVars>>

Next ==
  \/ \E u \in Uploads : RequestStep(u)
  \/ \E c \in Calls : CallStep(c)
  \/ \E w \in Sweepers : SweepStep(w)
  \/ CleanStale
  \/ Tick

Spec == Init /\ [][Next]_vars

(* Handlers run to their end, the worker's cycles and time go on; nothing  *)
(* makes the admin's browser PUT or confirm.                               *)
FairSpec ==
  /\ Spec
  /\ \A u \in Uploads : WF_vars(reqPc[u] \notin {"start", "ok", "put"} /\ RequestStep(u))
  /\ \A c \in Calls : WF_vars(callPc[c] # "start" /\ CallStep(c))
  /\ \A w \in Sweepers : WF_vars(SweepStep(w))
  /\ WF_vars(Tick)

-------------------------------------------------------------------------------
(***************************************************************************)
(* Properties                                                              *)
(***************************************************************************)
Rejecting(u) == \E c \in Calls : callUpload[c] = u /\ callPc[c] \in {"reject", "abort"}

DueAt(u) == requestedAt[u] + PendingTTL

(* upload.ConfirmUpload: what is shared is content ClamAV has passed,      *)
(* whatever becomes of the session or the scan in the meantime and however *)
(* calls overlap, unless the admin's browser put another file in its place *)
(* after the scan; the PUT URL outlives the scan, and nothing ties a token *)
(* to the content that was scanned.                                        *)
SharedPassedScan == shared \intersect infected \subseteq replaced

(* worker.processExpiredUploads: unless ConfirmUpload gives the upload up  *)
(* itself, its object is deleted only once the upload has been pending for *)
(* PendingTTL, by the furthest clock.                                      *)
SweptOnlyWhenDue ==
  [][\A u \in objects \ objects' : Rejecting(u) \/ DueAt(u) <= now + ClockSkew]_vars

(* upload.ConfirmUpload with worker.processExpiredUploads: an upload whose *)
(* confirmation took it off uploads_pending before it was due is safe from *)
(* every sweep, though its session may outlive the confirmation.           *)
ConfirmedInTimeKept ==
  [][\A u \in objects \ objects' :
       \/ Rejecting(u)
       \/ unpendedAt[u] = NoTime
       \/ unpendedAt[u] + ClockSkew >= DueAt(u)]_vars

(* requirements.md 6.2 and 2.10: an object that was uploaded and never     *)
(* became a share is eventually deleted.                                   *)
AbandonedUploadCollected ==
  \A u \in Uploads : (u \in objects) ~> (u \notin objects \/ u \in shared)

===============================================================================
