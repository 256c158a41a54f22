--------------------------- MODULE UploadAdmission ----------------------------
(***************************************************************************)
(* What bounds uploads: GlobalBackpressure, and in RequestUpload the daily *)
(* quota and the pending limits.  Counting is not checking: the quota is   *)
(* incremented by ConfirmUpload, and uploads_pending is counted two calls  *)
(* before it grows.  `quota` stands for quota:uploads and for quota:bytes, *)
(* an upload being one unit of either.  UploadPipeline has the same calls  *)
(* for one upload with its object, its scan and its deadlines; here the    *)
(* answers of S3 and ClamAV are a choice, and there are many uploads.      *)
(***************************************************************************)
EXTENDS LimitRequests

CONSTANTS
  Uploads,            \* upload ids; one that nothing mentions any more is fresh again
  MaxPendingPerAdmin, \* cfg.MaxPendingUploadsPerAdmin, 0 for no limit
  MaxTotalPending,    \* cfg.MaxTotalPendingUploads
  MaxDaily            \* cfg.MaxDailyUploads (or Bytes), 0 for no limit

ASSUME AdmissionAssumption ==
  /\ IsFiniteSet(Uploads)
  /\ MaxPendingPerAdmin \in Nat
  /\ MaxTotalPending \in Nat
  /\ MaxDaily \in Nat

VARIABLES
  pending, \* uploads_pending
  session, \* the uploads u for which upload:{u} exists
  quota,   \* today's counter
  late,    \* history: uploads admitted since it reached MaxDaily
  upload   \* the upload a request is about

quotaVars == <<quota, late>>
admissionVars == <<pending, session, quotaVars, upload>>

NoUpload == "no upload"

ASSUME NoUploadAssumption == NoUpload \notin Uploads

AdmissionTypeOK ==
  /\ pending \subseteq Uploads
  /\ session \subseteq Uploads
  /\ quota \in Nat
  /\ late \in Nat
  /\ upload \in [Requests -> Uploads \union {NoUpload}]

AdmissionInit ==
  /\ pending = {}
  /\ session = {}
  /\ quota = 0
  /\ late = 0
  /\ upload = [r \in Requests |-> NoUpload]

(* Uploads that some request is about. *)
InHand == {u \in Uploads : \E r \in Requests : upload[r] = u}

FreshUploads == Uploads \ (pending \union session \union InHand)

QuotaReached == MaxDaily > 0 /\ quota >= MaxDaily

(* The request ends, and forgets its upload. *)
Drop(r) == Leave(r) /\ upload' = [upload EXCEPT ![r] = NoUpload]

-------------------------------------------------------------------------------
(* GlobalBackpressure: ZCARD uploads_pending; open when the call fails. *)
Backpressure(r) ==
  /\ pc[r] = "pressure"
  /\ \/ Cardinality(pending) >= MaxTotalPending /\ Leave(r) /\ UNCHANGED slips
     \/ Cardinality(pending) < MaxTotalPending /\ Goto(r, "quota") /\ UNCHANGED slips
     \/ Slip /\ Goto(r, "quota")
  /\ UNCHANGED admissionVars

ReadNoQuota(r) == \* mutant: the counter of another day is read
  /\ pc[r] = "quota"
  /\ Goto(r, "count")
  /\ UNCHANGED <<admissionVars, slips>>

(* GET quota:uploads:{today}, GET quota:bytes:{today}.  The day is taken   *)
(* to be the same on every instance, and not to turn before the GETs.      *)
ReadQuota(r) ==
  /\ pc[r] = "quota"
  /\ \/ QuotaReached /\ Leave(r) /\ UNCHANGED slips
     \/ ~QuotaReached /\ Goto(r, "count") /\ UNCHANGED slips
     \/ MaxDaily > 0 /\ Slip /\ Leave(r)
  /\ UNCHANGED admissionVars

LimitReachedLate(n) == \* mutant: one more than the limit is let in
  \/ MaxPendingPerAdmin > 0 /\ n > MaxPendingPerAdmin
  \/ MaxTotalPending > 0 /\ n > MaxTotalPending

LimitReached(n) ==
  \/ MaxPendingPerAdmin > 0 /\ n >= MaxPendingPerAdmin
  \/ MaxTotalPending > 0 /\ n >= MaxTotalPending

(* ZCARD uploads_pending, and the ids of the new upload. *)
CountPending(r) ==
  /\ pc[r] = "count"
  /\ \/ LimitReached(Cardinality(pending)) /\ Leave(r) /\ UNCHANGED <<upload, slips>>
     \/ /\ ~LimitReached(Cardinality(pending))
        /\ FreshUploads # {}
        /\ upload' = [upload EXCEPT ![r] = CHOOSE u \in FreshUploads : TRUE]
        /\ Goto(r, "store")
        /\ UNCHANGED slips
     \/ Slip /\ Leave(r) /\ UNCHANGED upload
  /\ UNCHANGED <<pending, session, quotaVars>>

(* SETEX upload:{id}.  If it fails the id is not handed out, and a session *)
(* written all the same lapses unused.                                     *)
StoreUpload(r) ==
  /\ pc[r] = "store"
  /\ \/ session' = session \union {upload[r]} /\ Goto(r, "add") /\ UNCHANGED <<upload, slips>>
     \/ Slip /\ Drop(r) /\ UNCHANGED session
  /\ UNCHANGED <<pending, quotaVars>>

AddNothing(r) == \* mutant: the id is cleared before it is added
  /\ pc[r] = "add"
  /\ Drop(r)
  /\ pending' = pending \union {upload'[r]}
  /\ UNCHANGED <<session, quotaVars, slips>>

(* ZADD uploads_pending.  A failed call may have been executed. *)
AddPending(r) ==
  LET added == pending \union {upload[r]} IN
  /\ pc[r] = "add"
  /\ \/ pending' = added /\ UNCHANGED <<session, slips>>
     \/ Slip /\ pending' \in {pending, added} /\ session' = session \ {upload[r]}
  /\ late' = IF QuotaReached THEN late + 1 ELSE late
  /\ Drop(r)
  /\ UNCHANGED quota

-------------------------------------------------------------------------------
(* ConfirmUpload.  Any number of calls may confirm one upload at once, and *)
(* a call need not name an upload at all.  GET upload:{id} finds a session *)
(* or ends the call.                                                       *)
Confirm(r) ==
  /\ gate = "admission"
  /\ pc[r] = "idle"
  /\ \/ \E u \in session : upload' = [upload EXCEPT ![r] = u] /\ Goto(r, "refresh")
     \/ UNCHANGED upload /\ Goto(r, "verify")
  /\ UNCHANGED <<pending, session, quotaVars, slips>>

(* SETEX upload:{id} anew: it brings back a session deleted since the GET. *)
RefreshSession(r) ==
  LET refreshed == session \union {upload[r]} IN
  /\ pc[r] = "refresh"
  /\ \/ session' = refreshed /\ Goto(r, "verify") /\ UNCHANGED <<upload, slips>>
     \/ Slip /\ session' \in {session, refreshed} /\ Drop(r)
  /\ UNCHANGED <<pending, quotaVars>>

(* HEAD, the scan, SETEX token:{hash} and the indexes of the share: they   *)
(* end in a share, in a rejection or in an error.                          *)
Verify(r) ==
  /\ pc[r] = "verify"
  /\ \/ Goto(r, IF upload[r] = NoUpload THEN "tally" ELSE "unpend") /\ UNCHANGED upload
     \/ upload[r] # NoUpload /\ Goto(r, "reject") /\ UNCHANGED upload
     \/ Drop(r)
  /\ UNCHANGED <<pending, session, quotaVars, slips>>

(* Rejected: DEL upload:{id}, then ZREM uploads_pending. *)
RejectSession(r) ==
  /\ pc[r] = "reject"
  /\ \/ session' = session \ {upload[r]} /\ UNCHANGED slips
     \/ Slip /\ UNCHANGED session
  /\ Goto(r, "rejectPending")
  /\ UNCHANGED <<pending, quotaVars, upload>>

RejectPending(r) ==
  /\ pc[r] = "rejectPending"
  /\ \/ pending' = pending \ {upload[r]} /\ UNCHANGED slips
     \/ Slip /\ UNCHANGED pending
  /\ Drop(r)
  /\ UNCHANGED <<session, quotaVars>>

(* Confirmed: ZREM uploads_pending. *)
Unpend(r) ==
  /\ pc[r] = "unpend"
  /\ \/ pending' = pending \ {upload[r]} /\ UNCHANGED slips
     \/ Slip /\ UNCHANGED pending
  /\ Goto(r, "tally")
  /\ UNCHANGED <<session, quotaVars, upload>>

(* Once the quota is reached the count no longer matters. *)
Counted(n) == IF n > MaxDaily THEN MaxDaily ELSE n

(* IncrQuotaUploads, IncrByQuotaBytes: every call that made a share counts *)
(* it, also the second of one upload.  A failure is ignored, the counter   *)
(* may be that of the day before, and a re-sent INCR counts twice.         *)
Tally(r) ==
  /\ pc[r] = "tally"
  /\ \/ quota' \in {quota, Counted(quota + 1)} /\ UNCHANGED slips
     \/ Slip /\ quota' = Counted(quota + 2)
  /\ Goto(r, IF upload[r] = NoUpload THEN "idle" ELSE "drop")
  /\ UNCHANGED <<pending, session, late, upload>>

DropSession(r) ==
  /\ pc[r] = "drop"
  /\ \/ session' = session \ {upload[r]} /\ UNCHANGED slips
     \/ Slip /\ UNCHANGED session
  /\ Drop(r)
  /\ UNCHANGED <<pending, quotaVars>>

AdmissionStep(r) ==
  \/ Backpressure(r)
  \/ ReadQuota(r)
  \/ CountPending(r)
  \/ StoreUpload(r)
  \/ AddPending(r)
  \/ RefreshSession(r)
  \/ Verify(r)
  \/ RejectSession(r)
  \/ RejectPending(r)
  \/ Unpend(r)
  \/ Tally(r)
  \/ DropSession(r)

-------------------------------------------------------------------------------
(* upload:{id} lapses, whoever is about it. *)
LapseSession ==
  /\ \E u \in session : session' = session \ {u}
  /\ UNCHANGED <<pending, quotaVars, upload>>

(* processExpiredUploads takes up an entry that is due: ZREM comes at its  *)
(* end, with or without a session.                                         *)
Sweep(u) ==
  /\ u \in pending
  /\ pending' = pending \ {u}
  /\ session' = session \ {u}
  /\ UNCHANGED <<quotaVars, upload>>

(* The next day's counters start at nothing; yesterday's have expired. *)
Midnight ==
  /\ quota # 0
  /\ quota' = 0
  /\ late' = 0
  /\ UNCHANGED <<pending, session, upload>>

===============================================================================
