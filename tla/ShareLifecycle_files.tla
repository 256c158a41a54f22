------------------------- MODULE ShareLifecycle_files -------------------------
(***************************************************************************)
(* Proofs about shares and their files, for any number of shares, requests,*)
(* uploads and scanning instances.  An object that is indexed, listed or   *)
(* about to be deleted belongs to one ConfirmUpload call, and so to one    *)
(* expiry: this is why a scan never deletes a file that has not expired,   *)
(* whatever it reads of the tokens.  Two calls for one object would share  *)
(* the index entry, hence the hypothesis ReuseObjects = FALSE.             *)
(***************************************************************************)
EXTENDS ShareLifecycle_proofs

(* No two calls confirm the same object. *)
Begun(c) == confirmPc[c] # "start"

OneConfirm ==
  \A c, d \in Confirms : Begun(c) /\ Begun(d) /\ confirmObject[c] = confirmObject[d] => c = d

(* The call c gave object o the expiry t. *)
Gave(c, o, t) == confirmObject[c] = o /\ confirmExpiry[c] = t

(* Where a call that sent its SETEX, and one that indexed its object, may be. *)
Stored == {"abort", "failed", "index", "unpend", "done"}
Indexed == {"unpend", "done"}

(* Every token has the object and the expiry of a call that stored it. *)
TokensGiven ==
  \A h \in Hashes : token[h] # NoToken =>
    \E c \in Confirms : confirmPc[c] \in Stored
                        /\ Gave(c, token[h].object, token[h].expiresAt)

(* Every score of cleanup_by_expiry is that expiry. *)
IndexGiven ==
  \A o \in Objects : expiryIndex[o] # NoTime =>
    \E c \in Confirms : confirmPc[c] \in Indexed /\ Gave(c, o, expiryIndex[o])

(* The expiry of object o was no later than t. *)
Expired(o, t) ==
  \E c \in Confirms : confirmPc[c] \in Indexed /\ confirmObject[c] = o /\ confirmExpiry[c] <= t

(* A scan's clock is not ahead of the furthest; what its first pass lists  *)
(* and has in hand had expired by that clock, what its second pass lists   *)
(* and has in hand was still pending when due.                             *)
ScanExpired ==
  \A w \in Workers :
    /\ scanNow[w] <= now + ClockSkew
    /\ workerPc[w] \in {"idle", "range", "sweepRange"} => due[w] = {}
    /\ workerPc[w] \in ScanSteps => \A o \in due[w] : Expired(o, scanNow[w])
    /\ workerPc[w] \in SweepSteps => due[w] \subseteq overdue
    /\ workerPc[w] \in {"keys", "delete", "zrem"} =>
         current[w] \in Objects /\ Expired(current[w], scanNow[w])
    /\ workerPc[w] = "sweepDelete" => current[w] \in overdue

(* No entry of uploads_pending falls due unnoticed. *)
DueNoticed == DueUploads(now) \subseteq overdue

FilesInv == OneConfirm /\ TokensGiven /\ IndexGiven /\ ScanExpired /\ DueNoticed

-------------------------------------------------------------------------------
(***************************************************************************)
(* FilesInv is inductive                                                   *)
(***************************************************************************)
(* Nothing is begun, stored, indexed or listed at first. *)
LEMMA InitFiles == Init => FilesInv
BY StoresAssumption
DEF Init, StoresInit, ActivationInit, OrphanScanInit, FilesInv, Begun, OneConfirm, TokensGiven,
    IndexGiven, ScanExpired, NoTime, DueNoticed, DueUploads, SweepSteps

(* token' has no value but those of token, their object and expiry kept. *)
TokensKept ==
  \A h \in Hashes : token'[h] # NoToken =>
    /\ token[h] # NoToken
    /\ token'[h].object = token[h].object
    /\ token'[h].expiresAt = token[h].expiresAt

(* Consuming a share keeps its object and its expiry; no other step of a   *)
(* request writes a token value.                                           *)
LEMMA PostKeepsTokens ==
  ASSUME TypeInv, NEW r \in Requests, PostStep(r)
  PROVE  TokensKept /\ UNCHANGED <<now, expiryIndex, pendingVars, objects>>
<1> USE DEF TypeInv, TypeOK, StoresTypeOK, TokensKept
<1>1. ASSUME CASScript(target[r], redisNow[r])
      PROVE  TokensKept
  BY <1>1 DEF CASScript, Consumed, NoToken
<1>2. CASE Consume(r) \/ ConsumeFails(r)
  BY <1>1, <1>2 DEF Consume, ConsumeFails
<1>3. CASE CleanupDelToken(r)
  BY <1>3 DEF CleanupDelToken, DelToken
<1> QED
  BY <1>2, <1>3 DEF PostStep, CheckDestroyed, ReadRedisTime, Head, CleanupMarkDestroyed,
     Redirect, CrashRequest, storeVars, pendingVars

(* Steps that neither confirm, nor scan, nor index leave FilesInv alone. *)
LEMMA QuietFiles ==
  ASSUME TypeInv, FilesInv, TokensKept, now' \in Nat, now' >= now,
         UNCHANGED <<activationVars, expiryIndex, scanVars>>,
         overdue \subseteq overdue', DueNoticed'
  PROVE  FilesInv'
<1> USE DEF activationVars, scanVars, FilesInv, TypeInv, TypeOK, StoresTypeOK
<1>1. OneConfirm'
  BY DEF OneConfirm, Begun
<1>2. TokensGiven'
  BY DEF TokensGiven, TokensKept, Gave
<1>3. IndexGiven'
  BY DEF IndexGiven, Gave
<1>4. ScanExpired'
  <2>1. \A w \in Workers : scanNow[w] <= now' + ClockSkew
    BY StoresAssumption DEF ScanExpired, OrphanScanTypeOK
  <2> QED  BY <2>1 DEF ScanExpired, Expired
<1> QED  BY <1>1, <1>2, <1>3, <1>4

(* No step of a confirmation takes back what has expired. *)
LEMMA ConfirmKeepsExpired ==
  ASSUME ActivationTypeOK, NEW c \in Confirms, ConfirmStep(c), NEW o, NEW t, Expired(o, t)
  PROVE  Expired(o, t)'
<1>1. PICK d \in Confirms : confirmPc[d] \in Indexed /\ confirmObject[d] = o /\ confirmExpiry[d] <= t
  BY DEF Expired
<1>2. confirmPc'[d] \in Indexed /\ confirmObject'[d] = confirmObject[d]
      /\ confirmExpiry'[d] = confirmExpiry[d]
  BY <1>1 DEF Indexed, ActivationTypeOK, ConfirmStep, VerifyObject, BuildMetadata, StoreToken, AbortConfirm,
              IndexObject, Unpend, CrashConfirm, ConfirmGoto
<1> QED  BY <1>1, <1>2 DEF Expired

(* Some instance has a clock. *)
LEMMA InstanceClockSome == ASSUME TypeInv PROVE now \in InstanceClock
BY StoresAssumption DEF InstanceClock, TypeInv, TypeOK, StoresTypeOK

(* The steps of a confirmation. *)
LEMMA ConfirmFiles ==
  ASSUME ReuseObjects = FALSE, TypeInv, FilesInv, NEW c \in Confirms, ConfirmStep(c),
         UNCHANGED scanVars
  PROVE  FilesInv'
<1> USE DEF TypeInv, TypeOK, StoresTypeOK, ActivationTypeOK, FilesInv, storeVars, pendingVars, ConfirmGoto
<1>1. UNCHANGED <<now, overdue>> /\ \A o \in Objects : pending'[o] = pending[o] \/ pending'[o] = NoTime
  BY DEF ConfirmStep, VerifyObject, BuildMetadata, StoreToken, AbortConfirm, IndexObject, Unpend, CrashConfirm
<1>2. ScanExpired' /\ DueNoticed'
  <2>1. \A o, t : Expired(o, t) => Expired(o, t)'
    BY ConfirmKeepsExpired
  <2>2. DueNoticed'
    BY <1>1 DEF DueNoticed, DueUploads
  <2> QED  BY <1>1, <2>1, <2>2 DEF ScanExpired, scanVars
<1>3. CASE VerifyObject(c)
  <2>1. PICK o \in objects :
          /\ \A d \in Confirms : confirmObject[d] # o
          /\ confirmObject' = [confirmObject EXCEPT ![c] = o]
    BY <1>3 DEF VerifyObject
  <2>2. OneConfirm'
    BY <1>3, <2>1 DEF VerifyObject, OneConfirm, Begun
  <2>3. TokensGiven' /\ IndexGiven'
    BY <1>3, <2>1 DEF VerifyObject, TokensGiven, IndexGiven, Gave, Stored, Indexed
  <2> QED  BY <1>2, <2>2, <2>3
<1>4. CASE BuildMetadata(c)
  <2>1. OneConfirm'
    BY <1>4 DEF BuildMetadata, OneConfirm, Begun
  <2>2. TokensGiven' /\ IndexGiven'
    BY <1>4 DEF BuildMetadata, TokensGiven, IndexGiven, Gave, Stored, Indexed
  <2> QED  BY <1>2, <2>1, <2>2
<1>5. CASE StoreToken(c)
  <2>1. PICK h \in Hashes \ issued, d \in TTLSlack :
          /\ \/ SetToken(h, NewToken(confirmObject[c], confirmExpiry[c], now + confirmTTL[c] + d))
             \/ UNCHANGED token
          /\ ConfirmGoto(c, "index") \/ ConfirmGoto(c, "abort")
    BY <1>5 DEF StoreToken
  <2>3. OneConfirm'
    BY <1>5, <2>1 DEF StoreToken, OneConfirm, Begun
  <2>4. IndexGiven'
    BY <1>5, <2>1 DEF StoreToken, IndexGiven, Gave, Indexed
  <2>5. ASSUME NEW g \in Hashes, token'[g] # NoToken
        PROVE  \E e \in Confirms : confirmPc'[e] \in Stored
                                   /\ Gave(e, token[g].object, token[g].expiresAt)'
    <3>1. CASE token'[g] = token[g]
      <4>1. PICK e \in Confirms : confirmPc[e] \in Stored
                                  /\ Gave(e, token[g].object, token[g].expiresAt)
        BY <2>5, <3>1 DEF TokensGiven
      <4>2. e # c
        BY <1>5, <4>1 DEF StoreToken, Stored
      <4> QED  BY <1>5, <2>1, <3>1, <4>1, <4>2 DEF StoreToken, Gave
    <3>2. CASE token'[g] # token[g]
      <4>1. token'[g] = NewToken(confirmObject[c], confirmExpiry[c], now + confirmTTL[c] + d)
        BY <2>1, <3>2 DEF SetToken
      <4>2. Gave(c, token[g].object, token[g].expiresAt)'
        BY <1>5, <2>1, <4>1 DEF StoreToken, Gave, NewToken
      <4> QED  BY <2>1, <4>2 DEF Stored
    <3> QED  BY <3>1, <3>2
  <2>6. TokensGiven'
    BY <2>5 DEF TokensGiven
  <2> QED  BY <1>2, <2>3, <2>4, <2>6
<1>6. CASE AbortConfirm(c) \/ CrashConfirm(c) \/ Unpend(c)
  <2>1. OneConfirm'
    BY <1>6 DEF AbortConfirm, CrashConfirm, Unpend, OneConfirm, Begun
  <2>2. TokensGiven'
    BY <1>6 DEF AbortConfirm, CrashConfirm, Unpend, TokensGiven, Gave, Stored
  <2>3. IndexGiven'
    BY <1>6 DEF AbortConfirm, CrashConfirm, Unpend, IndexGiven, Gave, Indexed
  <2> QED  BY <1>2, <2>1, <2>2, <2>3
<1>7. CASE IndexObject(c)
  <2>1. OneConfirm' /\ TokensGiven'
    BY <1>7 DEF IndexObject, OneConfirm, Begun, TokensGiven, Gave, Stored
  <2>2. ASSUME NEW o \in Objects, expiryIndex'[o] # NoTime
        PROVE  \E d \in Confirms : confirmPc'[d] \in Indexed /\ Gave(d, o, expiryIndex[o])'
    <3>1. CASE expiryIndex'[o] = expiryIndex[o]
      <4>1. PICK d \in Confirms : confirmPc[d] \in Indexed /\ Gave(d, o, expiryIndex[o])
        BY <2>2, <3>1 DEF IndexGiven
      <4> QED  BY <1>7, <3>1, <4>1 DEF IndexObject, Gave, Indexed
    <3>2. CASE expiryIndex'[o] # expiryIndex[o]
      <4>1. o = confirmObject[c] /\ expiryIndex'[o] = confirmExpiry[c]
        BY <1>7, <3>2 DEF IndexObject
      <4> QED  BY <1>7, <4>1 DEF IndexObject, Gave, Indexed
    <3> QED  BY <3>1, <3>2
  <2>3. IndexGiven'
    BY <2>2 DEF IndexGiven
  <2> QED  BY <1>2, <2>1, <2>3
<1> QED  BY <1>3, <1>4, <1>5, <1>6, <1>7 DEF ConfirmStep

(* The steps of a scan: what it lists has expired by its clock, or was     *)
(* pending when due, and what it takes in hand it has listed.              *)
LEMMA ScanFiles ==
  ASSUME TypeInv, FilesInv, OrphanScanStep, UNCHANGED activationVars
  PROVE  FilesInv'
<1> USE DEF TypeInv, TypeOK, StoresTypeOK, OrphanScanTypeOK, FilesInv, activationVars
<1>1. UNCHANGED <<now, token, overdue>>
  BY ScanRemoves DEF OrphanScanStep, ScanCycle, CleanStale, CrashWorker, StartCycle, ListDue,
     PickObject, ReadKey, DeleteObject, Unindex, StartSweep, ListPending, PickUpload,
     DeleteUpload, DropUpload, EndCycle, storeVars, pendingVars
<1>2. OneConfirm' /\ TokensGiven'
  BY <1>1 DEF OneConfirm, Begun, TokensGiven, Gave
<1>3. \A o \in Objects : expiryIndex'[o] \in {expiryIndex[o], NoTime}
  BY DEF OrphanScanStep, ScanCycle, CleanStale, CrashWorker, StartCycle, ListDue,
     PickObject, ReadKey, DeleteObject, Unindex, StartSweep, ListPending, PickUpload,
     DeleteUpload, DropUpload, EndCycle, storeVars, pendingVars
<1>4. IndexGiven'
  BY <1>3 DEF IndexGiven, Gave
<1>5. \A o \in Objects : pending'[o] = pending[o] \/ pending'[o] = NoTime
  BY DEF OrphanScanStep, ScanCycle, CleanStale, CrashWorker, StartCycle, ListDue,
     PickObject, ReadKey, DeleteObject, Unindex, StartSweep, ListPending, PickUpload,
     DeleteUpload, DropUpload, EndCycle, storeVars, pendingVars
<1>6. DueNoticed'
  BY <1>1, <1>5 DEF DueNoticed, DueUploads
<1>7. \A o, t : Expired(o, t) => Expired(o, t)'
  BY DEF Expired
<1>8. ASSUME NEW w \in Workers, StartCycle(w)
      PROVE  ScanExpired'
  <2>1. PICK t \in InstanceClock :
          \/ scanNow' = [scanNow EXCEPT ![w] = t] /\ WorkerGoto(w, "range")
          \/ UNCHANGED <<scanNow, workerPc>>
    BY <1>8, InstanceClockSome DEF StartCycle
  <2>2. t <= now + ClockSkew
    BY StoresAssumption DEF InstanceClock, TypeInv, TypeOK, StoresTypeOK
  <2>3. UNCHANGED <<due, current>> /\ workerPc[w] = "idle"
    BY <1>8 DEF StartCycle
  <2> QED  BY <1>1, <1>7, <2>1, <2>2, <2>3 DEF WorkerGoto, ScanExpired, ScanSteps, SweepSteps
<1>9. ASSUME NEW w \in Workers, ListDue(w)
      PROVE  ScanExpired'
  <2>1. \A o \in due'[w] : Expired(o, scanNow[w])
    <3> SUFFICES ASSUME NEW o \in due'[w] PROVE Expired(o, scanNow[w])
      OBVIOUS
    <3>1. CASE o \in due[w]
      BY <1>9, <3>1 DEF ScanExpired, ListDue
    <3>2. CASE o \in Objects /\ expiryIndex[o] \in 0 .. scanNow[w]
      <4>1. expiryIndex[o] # NoTime /\ expiryIndex[o] <= scanNow[w]
        BY <3>2 DEF NoTime, TypeInv, TypeOK
      <4> QED  BY <3>2, <4>1 DEF IndexGiven, Gave, Expired
    <3> QED  BY <1>9, <3>1, <3>2 DEF ListDue
  <2>2. UNCHANGED <<scanNow, current>> /\ \A v \in Workers : v # w => due'[v] = due[v]
    BY <1>9 DEF ListDue
  <2> QED
    BY <1>1, <1>7, <1>9, <2>1, <2>2 DEF ListDue, WorkerGoto, ScanExpired, ScanSteps, SweepSteps
<1>10. ASSUME NEW w \in Workers, PickObject(w)
       PROVE  ScanExpired'
  <2>1. PICK o \in due[w] : /\ due' = [due EXCEPT ![w] = @ \ {o}]
                            /\ current' = [current EXCEPT ![w] = o]
    BY <1>10 DEF PickObject
  <2>2. o \in Objects /\ Expired(o, scanNow[w])
    BY <1>10, <2>1 DEF ScanExpired, PickObject, ScanSteps
  <2>3. UNCHANGED scanNow /\ (WorkerGoto(w, "keys") \/ WorkerGoto(w, "zrem"))
    BY <1>10 DEF PickObject, storeVars
  <2> QED
    BY <1>1, <1>7, <1>10, <2>1, <2>2, <2>3 DEF PickObject, WorkerGoto, ScanExpired, ScanSteps, SweepSteps
<1>11. ASSUME NEW w \in Workers, NEW h \in Hashes, ReadKey(w, h)
       PROVE  ScanExpired'
  <2>1. workerPc[w] = "keys" /\ workerPc'[w] \in {"keys", "zrem", "delete"}
        /\ UNCHANGED <<scanNow, due, current>>
        /\ \A v \in Workers : v # w => workerPc'[v] = workerPc[v]
    BY <1>11 DEF ReadKey, WorkerGoto
  <2> QED  BY <1>1, <1>7, <2>1 DEF ScanExpired, ScanSteps, SweepSteps
<1>12. ASSUME NEW w \in Workers, DeleteObject(w) \/ Unindex(w)
       PROVE  ScanExpired'
  BY <1>1, <1>7, <1>12 DEF DeleteObject, Unindex, WorkerGoto, ScanExpired, ScanSteps, SweepSteps
<1>13. ASSUME NEW w \in Workers, StartSweep(w)
       PROVE  ScanExpired'
  BY <1>1, <1>7, <1>13 DEF StartSweep, WorkerGoto, ScanExpired, ScanSteps, SweepSteps
<1>14. ASSUME NEW w \in Workers, ListPending(w)
       PROVE  ScanExpired'
  <2>1. due'[w] \subseteq overdue
    <3> SUFFICES ASSUME NEW o \in due'[w] PROVE o \in overdue
      OBVIOUS
    <3>1. CASE o \in due[w]
      BY <1>14, <3>1 DEF ScanExpired, ListPending
    <3>2. CASE o \in Objects /\ pending[o] \in 0 .. scanNow[w]
      <4>1. pending[o] # NoTime /\ pending[o] <= now + ClockSkew
        BY <3>2, StoresAssumption DEF NoTime, ScanExpired, TypeInv, TypeOK, StoresTypeOK
      <4> QED  BY <3>2, <4>1 DEF DueNoticed, DueUploads
    <3> QED  BY <1>14, <3>1, <3>2 DEF ListPending
  <2>2. UNCHANGED <<scanNow, current>> /\ \A v \in Workers : v # w => due'[v] = due[v]
    BY <1>14 DEF ListPending
  <2> QED
    BY <1>1, <1>7, <1>14, <2>1, <2>2 DEF ListPending, WorkerGoto, ScanExpired, ScanSteps, SweepSteps
<1>15. ASSUME NEW w \in Workers, PickUpload(w)
       PROVE  ScanExpired'
  <2>1. PICK o \in due[w] : /\ due' = [due EXCEPT ![w] = @ \ {o}]
                            /\ current' = [current EXCEPT ![w] = o]
    BY <1>15 DEF PickUpload
  <2>2. o \in overdue
    BY <1>15, <2>1 DEF ScanExpired, PickUpload, SweepSteps
  <2>3. UNCHANGED scanNow /\ (WorkerGoto(w, "sweepDelete") \/ WorkerGoto(w, "sweepZrem"))
    BY <1>15 DEF PickUpload
  <2> QED
    BY <1>1, <1>7, <1>15, <2>1, <2>2, <2>3 DEF PickUpload, WorkerGoto, ScanExpired, ScanSteps, SweepSteps
<1>16. ASSUME NEW w \in Workers, DeleteUpload(w) \/ DropUpload(w)
       PROVE  ScanExpired'
  BY <1>1, <1>7, <1>16 DEF DeleteUpload, DropUpload, WorkerGoto, ScanExpired, ScanSteps, SweepSteps
<1>17. ASSUME NEW w \in Workers, EndCycle(w) \/ CrashWorker(w)
       PROVE  ScanExpired'
  <2>1. NoTime <= now + ClockSkew
    BY StoresAssumption DEF NoTime, TypeInv, TypeOK, StoresTypeOK
  <2> QED
    BY <1>1, <1>7, <1>17, <2>1
    DEF EndCycle, CrashWorker, WorkerGoto, ScanExpired, ScanSteps, SweepSteps
<1>18. ASSUME CleanStale
       PROVE  ScanExpired'
  BY <1>1, <1>7, <1>18 DEF CleanStale, scanVars, ScanExpired
<1>19. ScanExpired'
  BY <1>8, <1>9, <1>10, <1>11, <1>12, <1>13, <1>14, <1>15, <1>16, <1>17, <1>18
  DEF OrphanScanStep, ScanCycle
<1> QED  BY <1>2, <1>4, <1>6, <1>19

(* Every step of the composed system. *)
LEMMA FilesStep ==
  ReuseObjects = FALSE /\ Inv /\ FilesInv /\ [Next]_vars => FilesInv'
<1> SUFFICES ASSUME ReuseObjects = FALSE, TypeInv, FilesInv, [Next]_vars
             PROVE  FilesInv'
  BY DEF Inv
<1>1. now \in Nat /\ pending \in [Objects -> Int]
  BY DEF TypeInv, TypeOK, StoresTypeOK
<1>2. CASE DownloadStep /\ UNCHANGED <<activationVars, scanVars>>
  <2>1. ASSUME NEW v \in Views, ViewStep(v)
        PROVE  TokensKept /\ UNCHANGED <<now, expiryIndex, pendingVars, objects>>
    BY <2>1 DEF ViewStep, ViewCheckDestroyed, ViewToken, storeVars, pendingVars, TokensKept
  <2>2. TokensKept /\ UNCHANGED <<now, expiryIndex, pendingVars, objects>>
    BY <1>2, <2>1, PostKeepsTokens DEF DownloadStep
  <2>3. DueNoticed'
    BY <2>2 DEF FilesInv, DueNoticed, DueUploads, pendingVars
  <2> QED  BY <1>1, <1>2, <2>2, <2>3, QuietFiles DEF pendingVars
<1>3. CASE ActivationStep /\ UNCHANGED <<downloadVars, scanVars>>
  <2>1. ASSUME NEW h \in Hashes, RevokeToken(h)
        PROVE  TokensKept /\ UNCHANGED <<now, expiryIndex, pendingVars, activationVars>>
    BY <2>1 DEF RevokeToken, DelToken, TokensKept, TypeInv, TypeOK, StoresTypeOK
  <2>2. ASSUME NEW h \in Hashes, RevokeToken(h)
        PROVE  FilesInv'
    <3>1. DueNoticed'
      BY <2>1, <2>2 DEF FilesInv, DueNoticed, DueUploads, pendingVars
    <3> QED  BY <1>1, <1>3, <2>1, <2>2, <3>1, QuietFiles DEF pendingVars
  <2> QED  BY <1>3, <2>2, ConfirmFiles DEF ActivationStep
<1>4. CASE OrphanScanStep /\ UNCHANGED <<downloadVars, activationVars>>
  BY <1>4, ScanFiles
<1>5. CASE Tick /\ UNCHANGED <<downloadVars, activationVars, scanVars>>
  <2>1. TokensKept
    BY <1>5 DEF Tick, TokensKept, TypeInv, TypeOK, StoresTypeOK
  <2>2. now' = now + 1 /\ UNCHANGED expiryIndex /\ overdue \subseteq overdue'
    BY <1>5 DEF Tick
  <2>3. DueNoticed'
    BY <1>5 DEF Tick, DueNoticed, DueUploads
  <2> QED  BY <1>1, <1>5, <2>1, <2>2, <2>3, QuietFiles
<1>6. CASE UNCHANGED vars
  <2>1. DueNoticed'
    BY <1>6 DEF FilesInv, DueNoticed, DueUploads, vars, storeVars, pendingVars
  <2> QED  BY <1>1, <1>6, <2>1, QuietFiles DEF vars, storeVars, pendingVars, TokensKept
<1> QED  BY <1>2, <1>3, <1>4, <1>5, <1>6 DEF Next

(* FilesInv holds of every reachable state. *)
LEMMA FilesInvariance ==
  ASSUME ReuseObjects = FALSE
  PROVE  Spec => []FilesInv
<1>1. Inv /\ FilesInv /\ [Next]_vars => FilesInv'
  BY FilesStep
<1> QED  BY <1>1, InitFiles, Invariance, PTL DEF Spec

-------------------------------------------------------------------------------
(***************************************************************************)
(* No file before its time                                                 *)
(***************************************************************************)
(* The confirmation that has object o. *)
LEMMA OneExpiry ==
  ASSUME FilesInv, NEW h \in Hashes, token[h] # NoToken,
         NEW t, Expired(token[h].object, t)
  PROVE  token[h].expiresAt <= t
<1>1. PICK c \in Confirms : confirmPc[c] \in Stored
                            /\ Gave(c, token[h].object, token[h].expiresAt)
  BY DEF FilesInv, TokensGiven
<1>2. PICK d \in Confirms : /\ confirmPc[d] \in Indexed
                            /\ confirmObject[d] = token[h].object
                            /\ confirmExpiry[d] <= t
  BY DEF Expired
<1>3. c = d
  BY <1>1, <1>2 DEF FilesInv, OneConfirm, Begun, Gave, Stored, Indexed
<1> QED  BY <1>1, <1>2, <1>3 DEF Gave

(* What a step may delete from the bucket: a worker's object in hand, or   *)
(* the object of a confirmation that gives up.                             *)
LEMMA WhoDeletes ==
  ASSUME Next, NEW o \in objects, o \notin objects'
  PROVE  \/ \E c \in Confirms : AbortConfirm(c) /\ o = confirmObject[c]
         \/ \E w \in Workers : (DeleteObject(w) \/ DeleteUpload(w)) /\ o = current[w]
<1>1. CASE DownloadStep
  BY <1>1 DEF DownloadStep, PostStep, ViewStep, CheckDestroyed, ReadRedisTime, Consume,
     ConsumeFails, Head, CleanupDelToken, CleanupMarkDestroyed, Redirect, CrashRequest,
     ViewCheckDestroyed, ViewToken, storeVars, pendingVars
<1>2. CASE ActivationStep
  BY <1>2 DEF ActivationStep, ConfirmStep, VerifyObject, BuildMetadata, StoreToken, AbortConfirm, IndexObject, Unpend,
     CrashConfirm, RevokeToken, storeVars, pendingVars
<1>3. CASE OrphanScanStep
  BY <1>3 DEF OrphanScanStep, ScanCycle, CleanStale, CrashWorker, StartCycle, ListDue,
     PickObject, ReadKey, DeleteObject, Unindex, StartSweep, ListPending, PickUpload,
     DeleteUpload, DropUpload, EndCycle, storeVars, pendingVars
<1>4. CASE Tick
  BY <1>4 DEF Tick
<1> QED  BY <1>1, <1>2, <1>3, <1>4 DEF Next

(* Whatever the two passes of a scan delete had expired, or was still      *)
(* pending when due.                                                       *)
LEMMA ScanDeletes ==
  ASSUME TypeInv, FilesInv, NEW w \in Workers, DeleteObject(w) \/ DeleteUpload(w)
  PROVE  \/ Expired(current[w], scanNow[w]) /\ scanNow[w] <= now + ClockSkew
         \/ current[w] \in overdue
BY DEF FilesInv, ScanExpired, DeleteObject, DeleteUpload

(* A share whose object has expired by a scan's clock has expired.         *)
LEMMA ExpiredShare ==
  ASSUME TypeInv, FilesInv, NEW h \in Hashes, token[h] # NoToken, NEW w \in Workers,
         Expired(token[h].object, scanNow[w]), scanNow[w] <= now + ClockSkew
  PROVE  ~ (token[h].expiresAt > now + ClockSkew)
<1>1. token[h].expiresAt <= scanNow[w]
  BY OneExpiry
<1>2. token[h].expiresAt \in Int /\ scanNow[w] \in Int /\ now + ClockSkew \in Int
  BY StoresAssumption DEF TypeInv, TypeOK, StoresTypeOK, OrphanScanTypeOK, TokenMeta
<1> QED  BY <1>1, <1>2

(* Before its expires_at, on the furthest clock, the file of a share is    *)
(* deleted by no scan, however many instances scan at once, and whatever   *)
(* calls fail, unless its upload was still pending when due: only by a     *)
(* confirmation that gives the share up.                                   *)
THEOREM UnexpiredKept ==
  ASSUME ReuseObjects = FALSE
  PROVE  Spec => UnexpiredFileKept
<1> DEFINE Kept(h) ==
      /\ token[h] # NoToken
      /\ token[h].expiresAt > now + ClockSkew
      /\ token[h].object \in objects \ overdue
      /\ \A c \in Confirms : confirmObject[c] = token[h].object => confirmPc[c] # "abort"
      => token[h].object \in objects'
<1>1. ASSUME TypeInv, FilesInv, Next,
             NEW h \in Hashes, token[h] # NoToken, token[h].expiresAt > now + ClockSkew,
             token[h].object \in objects, token[h].object \notin overdue,
             token[h].object \notin objects',
             \A c \in Confirms : confirmObject[c] = token[h].object => confirmPc[c] # "abort"
      PROVE  FALSE
  <2>1. PICK w \in Workers : (DeleteObject(w) \/ DeleteUpload(w)) /\ token[h].object = current[w]
    BY <1>1, WhoDeletes DEF AbortConfirm
  <2>2. Expired(token[h].object, scanNow[w]) /\ scanNow[w] <= now + ClockSkew
    BY <1>1, <2>1, ScanDeletes
  <2> QED  BY <1>1, <2>2, ExpiredShare
<1>2. Inv /\ FilesInv /\ [Next]_vars => [\A h \in Hashes : Kept(h)]_vars
  BY <1>1 DEF Inv
<1> QED  BY <1>2, FilesInvariance, Invariance, PTL DEF Spec, UnexpiredFileKept

-------------------------------------------------------------------------------
(***************************************************************************)
(* The file of an open share                                               *)
(***************************************************************************)
(* Until its call has answered for it, the object of a call is there, or   *)
(* its upload was still pending when due.                                  *)
InHand == {"metadata", "store", "abort"}

FilesThere ==
  /\ \A c \in Confirms : confirmPc[c] \in InHand => confirmObject[c] \in objects \union overdue
  /\ OpenShareHasFile

(* No confirmation is past its first step. *)
LEMMA InitThere == Init => FilesThere
BY DEF Init, StoresInit, ActivationInit, FilesThere, OpenShareHasFile, InHand, NoToken

(* Without new ACTIVE tokens, deletions or time, nothing changes. *)
LEMMA QuietThere ==
  ASSUME FilesThere, UNCHANGED <<now, overdue, objects, confirmPc, confirmObject>>,
         \A h \in Hashes : token'[h] = token[h] \/ token'[h].status # "ACTIVE"
  PROVE  FilesThere'
BY DEF FilesThere, OpenShareHasFile, GivenUp

(* A request leaves a token as it is, takes it or deletes it. *)
LEMMA PostTakes ==
  ASSUME TypeInv, NEW r \in Requests, PostStep(r), NEW h \in Hashes
  PROVE  token'[h] = token[h] \/ token'[h].status # "ACTIVE"
<1> USE DEF TypeInv, TypeOK, StoresTypeOK
<1>1. CASE Consume(r) \/ ConsumeFails(r)
  <2>1. CASScript(target[r], redisNow[r]) \/ UNCHANGED token
    BY <1>1 DEF Consume, ConsumeFails
  <2> QED  BY <2>1 DEF CASScript, Consumed
<1>2. CASE CleanupDelToken(r)
  BY <1>2 DEF CleanupDelToken, DelToken, NoToken
<1> QED
  BY <1>1, <1>2 DEF PostStep, CheckDestroyed, ReadRedisTime, Head, CleanupMarkDestroyed,
     Redirect, CrashRequest, storeVars, pendingVars

(* The steps of a confirmation.  It gives up no object but its own, and no *)
(* other confirmation has that.                                            *)
LEMMA ConfirmThere ==
  ASSUME TypeInv, FilesInv, FilesThere, NEW c \in Confirms, ConfirmStep(c)
  PROVE  FilesThere'
<1> USE DEF TypeInv, TypeOK, StoresTypeOK, ActivationTypeOK, storeVars, pendingVars, ConfirmGoto
<1>1. UNCHANGED <<now, overdue>> /\ \A d \in Confirms : d # c => confirmPc'[d] = confirmPc[d]
                                                           /\ confirmObject'[d] = confirmObject[d]
  BY DEF ConfirmStep, VerifyObject, BuildMetadata, StoreToken, AbortConfirm, IndexObject, Unpend,
         CrashConfirm
<1>2. CASE VerifyObject(c)
  <2>1. confirmPc[c] = "start" /\ confirmPc'[c] = "metadata" /\ confirmObject'[c] \in objects
        /\ UNCHANGED <<token, objects>>
    BY <1>2 DEF VerifyObject
  <2>2. \A o : GivenUp(o) => GivenUp(o)'
    BY <1>1, <2>1 DEF GivenUp
  <2> QED  BY <1>1, <2>1, <2>2 DEF FilesThere, OpenShareHasFile, InHand
<1>3. CASE BuildMetadata(c)
  <2>1. confirmPc[c] = "metadata" /\ confirmPc'[c] = "store" /\ UNCHANGED <<token, objects, confirmObject>>
    BY <1>3 DEF BuildMetadata
  <2>2. \A o : GivenUp(o) => GivenUp(o)'
    BY <1>1, <2>1 DEF GivenUp
  <2> QED  BY <1>1, <2>1, <2>2 DEF FilesThere, OpenShareHasFile, InHand
<1>4. CASE StoreToken(c)
  <2>1. PICK h \in Hashes \ issued, d \in TTLSlack :
          \/ SetToken(h, NewToken(confirmObject[c], confirmExpiry[c], now + confirmTTL[c] + d))
          \/ UNCHANGED token
    BY <1>4 DEF StoreToken
  <2>2. confirmPc[c] = "store" /\ confirmPc'[c] \in {"index", "abort"}
        /\ UNCHANGED <<objects, confirmObject>>
    BY <1>4 DEF StoreToken
  <2>3. \A o : GivenUp(o) => GivenUp(o)'
    BY <1>1, <2>2 DEF GivenUp
  <2>4. \A g \in Hashes : token'[g] = token[g] \/ token'[g].object = confirmObject[c]
    BY <2>1 DEF SetToken, NewToken
  <2>5. confirmObject[c] \in objects \union overdue
    BY <2>2 DEF FilesThere, InHand
  <2> QED  BY <1>1, <2>2, <2>3, <2>4, <2>5 DEF FilesThere, OpenShareHasFile, InHand
<1>5. CASE AbortConfirm(c)
  <2>1. confirmPc[c] = "abort" /\ confirmPc'[c] = "failed" /\ UNCHANGED <<token, confirmObject>>
        /\ \A o \in objects : o # confirmObject[c] => o \in objects'
    BY <1>5 DEF AbortConfirm
  <2>2. \A o : GivenUp(o) => GivenUp(o)'
    BY <1>1, <2>1 DEF GivenUp
  <2>3. GivenUp(confirmObject[c])'
    BY <2>1 DEF GivenUp
  <2>4. \A d \in Confirms : d # c /\ confirmPc[d] \in InHand => confirmObject[d] # confirmObject[c]
    BY <2>1 DEF FilesInv, OneConfirm, Begun, InHand
  <2>5. \A d \in Confirms : confirmPc'[d] \in InHand => confirmObject'[d] \in objects' \union overdue'
    BY <1>1, <2>1, <2>4 DEF FilesThere, InHand
  <2>6. OpenShareHasFile'
    BY <1>1, <2>1, <2>2, <2>3 DEF FilesThere, OpenShareHasFile
  <2> QED  BY <2>5, <2>6 DEF FilesThere
<1>6. CASE IndexObject(c) \/ Unpend(c)
  <2>1. confirmPc[c] \in {"index", "unpend"} /\ confirmPc'[c] \in {"unpend", "done"}
        /\ UNCHANGED <<token, objects, confirmObject>>
    BY <1>6 DEF IndexObject, Unpend
  <2>2. \A o : GivenUp(o) => GivenUp(o)'
    BY <1>1, <2>1 DEF GivenUp
  <2> QED  BY <1>1, <2>1, <2>2 DEF FilesThere, OpenShareHasFile, InHand
<1>7. CASE CrashConfirm(c)
  <2>1. confirmPc[c] # "failed" /\ confirmPc'[c] = "done" /\ UNCHANGED <<token, objects, confirmObject>>
    BY <1>7 DEF CrashConfirm
  <2>2. \A o : GivenUp(o) => GivenUp(o)' \/ (o = confirmObject[c] /\ confirmPc[c] = "abort")
    BY <1>1, <2>1 DEF GivenUp
  <2>3. confirmPc[c] = "abort" => confirmObject[c] \in objects \union overdue
    BY DEF FilesThere, InHand
  <2> QED  BY <1>1, <2>1, <2>2, <2>3 DEF FilesThere, OpenShareHasFile, InHand
<1> QED  BY <1>2, <1>3, <1>4, <1>5, <1>6, <1>7 DEF ConfirmStep

(* The steps of a scan: what it deletes has expired or was pending when    *)
(* due, and a call has indexed what has expired.                           *)
LEMMA ScanThere ==
  ASSUME TypeInv, FilesInv, FilesThere, OrphanScanStep, UNCHANGED activationVars
  PROVE  FilesThere'
<1> USE DEF activationVars
<1>1. UNCHANGED <<now, token, overdue>>
  BY ScanRemoves DEF OrphanScanStep, ScanCycle, CleanStale, CrashWorker, StartCycle, ListDue,
     PickObject, ReadKey, DeleteObject, Unindex, StartSweep, ListPending, PickUpload,
     DeleteUpload, DropUpload, EndCycle, storeVars, pendingVars
<1>2. ASSUME NEW w \in Workers, DeleteObject(w) \/ DeleteUpload(w)
      PROVE  FilesThere'
  <2>1. CASE current[w] \in overdue
    <3>1. \A o \in objects : o \in objects' \/ o \in overdue
      BY <1>2, <2>1 DEF DeleteObject, DeleteUpload
    <3>2. \A o : GivenUp(o)' = GivenUp(o)
      BY DEF GivenUp
    <3> QED  BY <1>1, <3>1, <3>2 DEF FilesThere, OpenShareHasFile
  <2>2. CASE Expired(current[w], scanNow[w]) /\ scanNow[w] <= now + ClockSkew
    <3>1. \A o \in objects : o # current[w] => o \in objects'
      BY <1>2 DEF DeleteObject, DeleteUpload
    <3>2. ASSUME NEW h \in Hashes, token[h].status = "ACTIVE", token[h].expiresAt > now + ClockSkew
          PROVE  token[h].object # current[w]
      BY <2>2, <3>2, ExpiredShare DEF NoToken
    <3>3. ASSUME NEW c \in Confirms, confirmPc[c] \in InHand
          PROVE  confirmObject[c] # current[w]
      BY <2>2, <3>3 DEF Expired, FilesInv, OneConfirm, Begun, InHand, Indexed
    <3>4. \A o : GivenUp(o)' = GivenUp(o)
      BY DEF GivenUp
    <3> QED  BY <1>1, <3>1, <3>2, <3>3, <3>4 DEF FilesThere, OpenShareHasFile
  <2> QED  BY <1>2, <2>1, <2>2, ScanDeletes
<1>3. CASE UNCHANGED objects
  BY <1>1, <1>3, QuietThere
<1> QED
  BY <1>2, <1>3 DEF OrphanScanStep, ScanCycle, CleanStale, CrashWorker, StartCycle, ListDue,
     PickObject, ReadKey, Unindex, StartSweep, ListPending, PickUpload,
     DropUpload, EndCycle, storeVars, pendingVars

(* Time brings no share further from its expiry. *)
LEMMA TickThere ==
  ASSUME TypeInv, FilesThere, Tick, UNCHANGED activationVars
  PROVE  FilesThere'
<1> USE DEF TypeInv, TypeOK, StoresTypeOK, activationVars
<1>1. ASSUME NEW h \in Hashes, token'[h].status = "ACTIVE", token'[h].expiresAt > now' + ClockSkew
      PROVE  token[h] = token'[h] /\ token[h].expiresAt > now + ClockSkew
  <2>1. token'[h] = token[h]
    BY <1>1 DEF Tick, NoToken
  <2>2. token[h].expiresAt \in Int
    BY <1>1, <2>1 DEF TokenMeta, NoToken
  <2> QED  BY <1>1, <2>1, <2>2, StoresAssumption DEF Tick
<1>2. UNCHANGED objects /\ overdue \subseteq overdue'
  BY DEF Tick
<1>3. \A o : GivenUp(o)' = GivenUp(o)
  BY DEF GivenUp
<1> QED  BY <1>1, <1>2, <1>3 DEF FilesThere, OpenShareHasFile

(* Every step of the composed system. *)
LEMMA ThereStep ==
  ASSUME TypeInv, FilesInv, FilesThere, [Next]_vars
  PROVE  FilesThere'
<1>1. CASE DownloadStep /\ UNCHANGED <<activationVars, scanVars>>
  <2>1. ASSUME NEW v \in Views, ViewStep(v)
        PROVE  UNCHANGED <<token, now, overdue, objects>>
    BY <2>1 DEF ViewStep, ViewCheckDestroyed, ViewToken, storeVars, pendingVars
  <2>2. UNCHANGED <<now, overdue, objects>>
        /\ \A h \in Hashes : token'[h] = token[h] \/ token'[h].status # "ACTIVE"
    BY <1>1, <2>1, PostTakes, PostKeepsTokens DEF DownloadStep, pendingVars
  <2> QED  BY <1>1, <2>2, QuietThere DEF activationVars
<1>2. CASE ActivationStep /\ UNCHANGED <<downloadVars, scanVars>>
  <2>1. ASSUME NEW h \in Hashes, RevokeToken(h)
        PROVE  FilesThere'
    <3>1. \A g \in Hashes : token'[g] = token[g] \/ token'[g].status # "ACTIVE"
      BY <2>1 DEF RevokeToken, DelToken, NoToken, TypeInv, TypeOK, StoresTypeOK
    <3> QED  BY <2>1, <3>1, QuietThere DEF RevokeToken, activationVars, pendingVars
  <2> QED  BY <1>2, <2>1, ConfirmThere DEF ActivationStep
<1>3. CASE OrphanScanStep /\ UNCHANGED <<downloadVars, activationVars>>
  BY <1>3, ScanThere
<1>4. CASE Tick /\ UNCHANGED <<downloadVars, activationVars, scanVars>>
  BY <1>4, TickThere
<1>5. CASE UNCHANGED vars
  BY <1>5, QuietThere DEF vars, storeVars, pendingVars, activationVars
<1> QED  BY <1>1, <1>2, <1>3, <1>4, <1>5 DEF Next

(* Whatever calls fail, instances die and clocks disagree, an open share   *)
(* that has not expired has its file, but for an upload that was still     *)
(* pending when due and for a confirmation that failed.                    *)
THEOREM OpenHasFile ==
  ASSUME ReuseObjects = FALSE
  PROVE  Spec => []OpenShareHasFile
<1>1. Inv /\ FilesInv /\ FilesThere /\ [Next]_vars => FilesThere'
  BY ThereStep DEF Inv
<1>2. FilesThere => OpenShareHasFile
  BY DEF FilesThere
<1> QED  BY <1>1, <1>2, InitThere, FilesInvariance, Invariance, PTL DEF Spec

-------------------------------------------------------------------------------
(***************************************************************************)
(* No share is burnt                                                       *)
(***************************************************************************)
(* The request that took a CONSUMING token is on its way to a redirect or  *)
(* to deleting the token, or was redirected.                               *)
Underway(r) == pc[r] \in {"head", "presign", "delToken"} \/ answer[r] = "redirect"

Taken == \A h \in Hashes : token[h].status = "CONSUMING" =>
           \E r \in Requests : Won(r, h) /\ Underway(r)

(* A step that takes no token and leaves the requests alone. *)
LEMMA QuietTaken ==
  ASSUME Taken, UNCHANGED postVars,
         \A h \in Hashes : token'[h] = token[h] \/ token'[h].status # "CONSUMING"
  PROVE  Taken'
<1> SUFFICES ASSUME NEW h \in Hashes, token'[h].status = "CONSUMING"
             PROVE  \E r \in Requests : Won(r, h)' /\ Underway(r)'
  BY DEF Taken
<1>1. PICK r \in Requests : Won(r, h) /\ Underway(r)
  BY DEF Taken
<1> QED  BY <1>1 DEF Won, Underway, postVars

(* The steps of a request.  Only an answered CAS takes a token, and the    *)
(* request that took it forgets it only after deleting it.                 *)
LEMMA PostTaken ==
  ASSUME RedisFaults = FALSE, S3Faults = FALSE, Crashes = FALSE,
         TypeInv, Safe, Taken, NEW r \in Requests, PostStep(r)
  PROVE  Taken'
<1> USE DEF TypeInv, TypeOK, StoresTypeOK, DownloadTypeOK, At, Goto, Reply
<1> SUFFICES ASSUME NEW h \in Hashes, token'[h].status = "CONSUMING"
             PROVE  \E q \in Requests : Won(q, h)' /\ Underway(q)'
  BY DEF Taken
<1>1. CASE Consume(r) /\ h = target[r] /\ token[h].status = "ACTIVE"
  <2>1. meta' = [meta EXCEPT ![r] = Consumed(token[h], redisNow[r])]
    BY <1>1 DEF Consume, CASMeta
  <2>2. Consumed(token[h], redisNow[r]) # NoToken
    BY DEF Consumed, NoToken
  <2>3. pc' = [pc EXCEPT ![r] = "head"]
    BY <1>1, <2>2 DEF Consume, CASMeta, CASAnswer
  <2> QED  BY <1>1, <2>1, <2>2, <2>3 DEF Consume, Won, Underway
<1>2. CASE ~ (Consume(r) /\ h = target[r] /\ token[h].status = "ACTIVE")
  <2>1. token[h].status = "CONSUMING" /\ (CleanupDelToken(r) => h # target[r])
    BY <1>2 DEF PostStep, CheckDestroyed, ReadRedisTime, Consume, CASScript, ConsumeFails, Head,
       CleanupDelToken, DelToken, NoToken, CleanupMarkDestroyed, Redirect, CrashRequest, storeVars, pendingVars
  <2>2. PICK q \in Requests : Won(q, h) /\ Underway(q)
    BY <2>1 DEF Taken
  <2>3. CASE q # r
    BY <2>2, <2>3 DEF Won, Underway, PostStep, CheckDestroyed, ReadRedisTime, Consume,
       ConsumeFails, Head, CleanupDelToken, CleanupMarkDestroyed, Redirect, CrashRequest
  <2>4. CASE q = r
    <3>1. target[r] = h /\ meta[r] # NoToken /\ pc[r] \notin {"start", "time", "cas"}
      BY <2>2, <2>4 DEF Won, Safe, WinnersSteps
    <3>2. pc[r] \in {"head", "presign", "delToken"} => answer[r] = "none"
      BY DEF Safe, WinnersSteps, Winning
    <3>3. CASE Head(r) \/ Redirect(r)
      BY <2>2, <2>4, <3>1, <3>3 DEF Head, Redirect, Won, Underway
    <3>4. CASE CleanupMarkDestroyed(r)
      BY <2>2, <2>4, <3>4 DEF CleanupMarkDestroyed, Underway, Safe, WinnersSteps, Winning
    <3>5. CASE CleanupDelToken(r)
      BY <2>1, <3>1, <3>5
    <3> QED
      BY <3>1, <3>3, <3>4, <3>5 DEF PostStep, CheckDestroyed, ReadRedisTime, Consume,
         ConsumeFails, CrashRequest
  <2> QED  BY <2>3, <2>4
<1> QED  BY <1>1, <1>2

(* Every step of the composed system. *)
LEMMA TakenStep ==
  ASSUME RedisFaults = FALSE, S3Faults = FALSE, Crashes = FALSE, Inv, Taken, [Next]_vars
  PROVE  Taken'
<1> USE DEF Inv
<1>1. CASE DownloadStep
  <2>1. ASSUME NEW v \in Views, ViewStep(v)
        PROVE  Taken'
    BY <2>1, QuietTaken DEF ViewStep, ViewCheckDestroyed, ViewToken, storeVars, pendingVars
  <2> QED  BY <1>1, <2>1, PostTaken DEF DownloadStep
<1>2. CASE ActivationStep /\ UNCHANGED <<downloadVars, scanVars>>
  <2>1. ASSUME NEW c \in Confirms, StoreToken(c)
        PROVE  \A h \in Hashes : token'[h] = token[h] \/ token'[h].status # "CONSUMING"
    BY <2>1 DEF StoreToken, SetToken, NewToken, TypeInv, TypeOK, StoresTypeOK
  <2>2. \A h \in Hashes : token'[h] = token[h] \/ token'[h].status # "CONSUMING"
    BY <1>2, <2>1, ActivationRemoves DEF NoToken
  <2> QED  BY <1>2, <2>2, QuietTaken DEF downloadVars
<1>3. CASE OrphanScanStep /\ UNCHANGED <<downloadVars, activationVars>>
  BY <1>3, ScanRemoves, QuietTaken DEF downloadVars
<1>4. CASE Tick /\ UNCHANGED <<downloadVars, activationVars, scanVars>>
  <2>1. \A h \in Hashes : token'[h] = token[h] \/ token'[h].status # "CONSUMING"
    BY <1>4, TickRemoves DEF NoToken
  <2> QED  BY <1>4, <2>1, QuietTaken DEF downloadVars
<1>5. CASE UNCHANGED vars
  BY <1>5, QuietTaken DEF vars, storeVars, pendingVars, downloadVars
<1> QED  BY <1>1, <1>2, <1>3, <1>4, <1>5 DEF Next

(* While nothing fails, a share that is used up was used up by a request   *)
(* that is redirected or about to be, or that finds the file gone.         *)
THEOREM NoneBurnt ==
  ASSUME RedisFaults = FALSE, S3Faults = FALSE, Crashes = FALSE
  PROVE  Spec => []NotBurnt
<1>1. Init => Taken
  BY DEF Init, StoresInit, Taken, NoToken
<1>2. Inv /\ Taken /\ [Next]_vars => Taken'
  BY TakenStep
<1>3. Taken => NotBurnt
  BY DEF Taken, NotBurnt, Underway, Winning
<1> QED  BY <1>1, <1>2, <1>3, Invariance, PTL DEF Spec
===============================================================================
