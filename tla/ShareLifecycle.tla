---------------------------- MODULE ShareLifecycle ----------------------------
(***************************************************************************)
(* The life of a one-time share: the upload handler activates it, requests *)
(* race to consume it, the admin may revoke it, Redis lets it expire, and  *)
(* the orphan scan of every backend instance deletes its file.  This       *)
(* module composes Download, Activation and OrphanScan over the Redis and  *)
(* S3 state of Stores, and states what they achieve together.              *)
(***************************************************************************)
EXTENDS Download, Activation, OrphanScan

vars == <<storeVars, downloadVars, activationVars, scanVars>>

TypeOK ==
  /\ StoresTypeOK
  /\ DownloadTypeOK
  /\ ActivationTypeOK
  /\ OrphanScanTypeOK

Init ==
  /\ StoresInit
  /\ DownloadInit
  /\ ActivationInit
  /\ OrphanScanInit

Next ==
  \/ DownloadStep /\ UNCHANGED <<activationVars, scanVars>>
  \/ ActivationStep /\ UNCHANGED <<downloadVars, scanVars>>
  \/ OrphanScanStep /\ UNCHANGED <<downloadVars, activationVars>>
  \/ Tick /\ UNCHANGED <<downloadVars, activationVars, scanVars>>

Spec == Init /\ [][Next]_vars

(***************************************************************************)
(* The HTTP server runs every handler to its end, the worker's ticker      *)
(* starts a cycle every 15 minutes and runs it to its end, and time goes   *)
(* on.  Nothing makes a client send a request or an admin act.             *)
(***************************************************************************)
Fairness ==
  /\ \A r \in Requests :
       WF_vars((~ At(r, "start") /\ PostStep(r)) /\ UNCHANGED <<activationVars, scanVars>>)
  /\ \A c \in Confirms :
       WF_vars((confirmPc[c] # "start" /\ ConfirmStep(c)) /\ UNCHANGED <<downloadVars, scanVars>>)
  /\ \A w \in Workers :
       WF_vars(ScanCycle(w) /\ UNCHANGED <<downloadVars, activationVars>>)
  /\ WF_vars(Tick /\ UNCHANGED <<downloadVars, activationVars, scanVars>>)

FairSpec == Spec /\ Fairness

-------------------------------------------------------------------------------
(***************************************************************************)
(* One redirect per share                                                  *)
(***************************************************************************)
(* The request whose CAS made the token CONSUMING and who knows it. *)
Won(r, h) == target[r] = h /\ meta[r] # NoToken

(* download.ConsumeToken: however requests, revocations, expiries, scans,  *)
(* lost replies and crashes interleave, two requests are never redirected  *)
(* to the file of the same share.                                          *)
AtMostOneRedirect ==
  \A r, s \in Requests :
    answer[r] = "redirect" /\ answer[s] = "redirect" /\ target[r] = target[s] => r = s

(* store.CASTokenConsume and every writer of token:{hash}: a share that was *)
(* consumed, revoked or has expired never accepts a request again, not      *)
(* even when its destroyed:{hash} marker has lapsed.                        *)
NeverReopened ==
  [][\A h \in issued : token[h].status # "ACTIVE" => token'[h].status # "ACTIVE"]_vars

(* download.cleanupAfterMissingObject: the destroyed marker, which makes   *)
(* every later request answer "expired", is never put on a share that is   *)
(* still open, whichever of the cleanup's calls fail.                      *)
MarkedNeverOpen ==
  \A h \in Hashes : destroyed[h] # NoTime => token[h].status # "ACTIVE"

(* The request that won a share.  At most one exists: see OneWinner in the *)
(* proofs of this module.                                                  *)
NoOne == "no one"
ASSUME NoOneAssumption == NoOne \notin Requests

Holder(h) ==
  IF \E r \in Requests : Won(r, h) THEN CHOOSE r \in Requests : Won(r, h) ELSE NoOne

Life(h) ==
  IF h \notin issued THEN "unissued"
  ELSE IF token[h].status = "ACTIVE" THEN "open"
  ELSE IF \E r \in Requests : Won(r, h) THEN "claimed"
  ELSE "void"

Promise == INSTANCE OneTimeShare WITH
  share <- [h \in Hashes |-> Life(h)],
  holder <- [h \in Hashes |-> Holder(h)],
  served <- {r \in Requests : answer[r] = "redirect"}

(* The backend keeps the promise of OneTimeShare: the abstract share is    *)
(* read off token:{hash} and the handlers' local variables.                *)
KeepsPromise == Promise!Spec

(* download.GetTokenMetadata against download.ConsumeToken: a download page *)
(* is never shown for a share that a request has already won.              *)
NoPageAfterWin ==
  [][\A v \in Views :
       viewAnswer'[v] # viewAnswer[v] /\ viewAnswer'[v] = "page" =>
         \A r \in Requests : ~ Won(r, viewTarget[v])]_vars

-------------------------------------------------------------------------------
(***************************************************************************)
(* Shares and their files                                                  *)
(***************************************************************************)
(* The confirmation of object o answered 500, or is about to. *)
GivenUp(o) == \E c \in Confirms : confirmObject[c] = o /\ confirmPc[c] \in {"abort", "failed"}

(* worker.runOrphanScanCycle and upload.ConfirmUpload, under every fault,  *)
(* crash and clock skew, but no second confirmation of an object: the file *)
(* of an open share that has not expired is in the bucket, however cycles  *)
(* of several instances overlap with activation, consumption and expiry.   *)
(* The exceptions are an upload that was still in uploads_pending when its *)
(* time there was up, whose file the sweep may delete under the share, and *)
(* one whose confirmation failed though its token was stored.              *)
OpenShareHasFile ==
  \A h \in Hashes :
    /\ token[h].status = "ACTIVE"
    /\ token[h].expiresAt > now + ClockSkew
    /\ token[h].object \notin overdue
    /\ ~ GivenUp(token[h].object)
    => token[h].object \in objects

(* download.ConsumeToken: without faults a share is only ever used up by a *)
(* request that is redirected or finds the file gone; none is burnt by a   *)
(* request that then gives up.                                             *)
NotBurnt ==
  \A h \in Hashes : token[h].status = "CONSUMING" =>
    \E r \in Requests : Won(r, h) /\ (pc[r] \in Winning \/ answer[r] = "redirect")

(* upload.ConfirmUpload with worker.processCleanupByExpiry: the file of    *)
(* every share that was activated is eventually deleted from the bucket,   *)
(* whether it was downloaded, revoked or left to expire.                   *)
FileEventuallyDeleted ==
  \A c \in Confirms : confirmPc[c] = "index" ~> confirmObject[c] \notin objects

(* worker.runOrphanScanCycle under every fault, crash, clock skew and      *)
(* overlap of instances: the file of a share is never deleted before the   *)
(* share's expires_at, read on the furthest clock; the exceptions are an   *)
(* upload still pending when due and ConfirmUpload giving the share up.    *)
UnexpiredFileKept ==
  [][\A h \in Hashes :
       /\ token[h] # NoToken
       /\ token[h].expiresAt > now + ClockSkew
       /\ token[h].object \in objects \ overdue
       /\ \A c \in Confirms : confirmObject[c] = token[h].object => confirmPc[c] # "abort"
       => token[h].object \in objects']_vars

-------------------------------------------------------------------------------
(***************************************************************************)
(* A statement of the repository that the code contradicts                 *)
(***************************************************************************)
(* requirements.md 4.8: whoever is redirected has left a destruction job.  *)
RedirectSchedulesDestruction ==
  \A r \in Requests : answer[r] = "redirect" =>
    \E j \in destroyQueue : j.hash = target[r]

===============================================================================
