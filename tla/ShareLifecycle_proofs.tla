------------------------ MODULE ShareLifecycle_proofs ------------------------
(***************************************************************************)
(* Proofs about ShareLifecycle, for any number of shares, requests,        *)
(* uploads and backend instances, with every fault of the model enabled or *)
(* not.  Everything rests on the inductive invariant Inv: a request that   *)
(* won a share knows a hash that was issued, whose token is not ACTIVE and *)
(* never becomes ACTIVE again, because GenerateToken never repeats a hash. *)
(***************************************************************************)
EXTENDS ShareLifecycle, TLAPS

(* A request past its first step has computed its hash. *)
TargetKnown == \A r \in Requests : pc[r] # "start" => target[r] \in Hashes

(* A ConfirmUpload call past its first step has found its object. *)
ObjectKnown == \A c \in Confirms : confirmPc[c] # "start" => confirmObject[c] \in Objects

(* A token value exists only for an issued hash. *)
TokensIssued == \A h \in Hashes : token[h] # NoToken => h \in issued

(* What a winning request knows: its share is taken for good. *)
WinnersToken ==
  \A r \in Requests : meta[r] # NoToken =>
    target[r] \in issued /\ token[target[r]].status # "ACTIVE"

OneWinner ==
  \A r, s \in Requests :
    meta[r] # NoToken /\ meta[s] # NoToken /\ target[r] = target[s] => r = s

(* Before its CAS a request has won nothing; after a lost one it is done. *)
WinnersSteps ==
  \A r \in Requests :
    /\ pc[r] \in {"start", "time", "cas"} => meta[r] = NoToken /\ answer[r] = "none"
    /\ pc[r] \in Winning \/ answer[r] = "redirect" => meta[r] # NoToken
    /\ pc[r] \in Winning => answer[r] = "none"

(* The destroyed marker is only ever put on a taken share. *)
MarksTaken ==
  \A h \in Hashes : destroyed[h] # NoTime => h \in issued /\ token[h].status # "ACTIVE"

TypeInv == TypeOK /\ TargetKnown /\ ObjectKnown

Safe ==
  /\ TokensIssued
  /\ WinnersToken
  /\ OneWinner
  /\ WinnersSteps
  /\ MarksTaken

Inv == TypeInv /\ Safe

-------------------------------------------------------------------------------
(***************************************************************************)
(* Values                                                                  *)
(***************************************************************************)
(* A decoded token value is never the absence of one. *)
LEMMA TokenMetaStatus ==
  ASSUME NEW m \in TokenMeta \union {NoToken}
  PROVE  /\ m = NoToken <=> m.status = "NONE"
         /\ m.status \in {"ACTIVE", "CONSUMING"} <=> m \in TokenMeta
         /\ m \in TokenMeta <=> m # NoToken
BY DEF TokenMeta, NoToken

(* The script rewrites an ACTIVE value into a well-formed CONSUMING one. *)
LEMMA ConsumedType ==
  ASSUME NEW m \in TokenMeta, NEW t \in Int
  PROVE  /\ Consumed(m, t) \in TokenMeta
         /\ Consumed(m, t).status = "CONSUMING"
         /\ Consumed(m, t).object = m.object
BY DEF TokenMeta, Consumed, NoTime

(* What ConfirmUpload stores is well-formed metadata. *)
LEMMA NewTokenType ==
  ASSUME NEW o \in Objects, NEW e \in Int, NEW d \in Int
  PROVE  NewToken(o, e, d) \in TokenMeta
BY DEF NewToken, TokenMeta, NoTime

-------------------------------------------------------------------------------
(***************************************************************************)
(* Type correctness                                                        *)
(***************************************************************************)
(* Empty stores and idle processes are well-typed. *)
LEMMA InitType == Init => TypeInv
<1> SUFFICES ASSUME Init PROVE TypeInv
  OBVIOUS
<1>1. pending \in [Objects -> Int] /\ overdue \subseteq Objects
  <2>1. PendingScores \subseteq Int
    BY StoresAssumption
  <2>2. pending \in [Objects -> PendingScores]
    BY DEF Init, StoresInit
  <2>3. overdue \subseteq Objects
    BY DEF Init, StoresInit, DueUploads
  <2> QED  BY <2>1, <2>2, <2>3
<1>2. StoresTypeOK
  BY <1>1, StoresAssumption DEF Init, StoresInit, StoresTypeOK, NoTime, NoToken
<1>3. DownloadTypeOK /\ TargetKnown
  BY DEF Init, DownloadInit, DownloadTypeOK, TargetKnown, NoTime, NoToken, Steps, Answers
<1>4. ActivationTypeOK /\ ObjectKnown
  BY DEF Init, ActivationInit, ActivationTypeOK, ObjectKnown, ConfirmSteps, NoTime
<1>5. OrphanScanTypeOK
  BY DEF Init, OrphanScanInit, OrphanScanTypeOK, ScanSteps, NoTime
<1> QED  BY <1>2, <1>3, <1>4, <1>5 DEF TypeInv, TypeOK

(* Every call of POST /api/download/{token} preserves the types. *)
LEMMA PostType ==
  ASSUME StoresTypeOK, DownloadTypeOK, TargetKnown, NEW r \in Requests, PostStep(r)
  PROVE  StoresTypeOK' /\ DownloadTypeOK' /\ TargetKnown'
<1> USE DEF StoresTypeOK, DownloadTypeOK, TargetKnown, storeVars, pendingVars, viewVars, At, Goto, Reply,
            Steps, Winning, Answers
<1>1. ASSUME NEW h \in Hashes, CheckDestroyed(r, h)
      PROVE  StoresTypeOK' /\ DownloadTypeOK' /\ TargetKnown'
  BY <1>1 DEF CheckDestroyed
<1>2. CASE ReadRedisTime(r)
  BY <1>2 DEF ReadRedisTime
<1>3. ASSUME CASScript(target[r], redisNow[r])
      PROVE  token' \in [Hashes -> TokenMeta \union {NoToken}]
  <2>1. ASSUME NEW h \in Hashes, token[h].status = "ACTIVE"
        PROVE  Consumed(token[h], redisNow[r]) \in TokenMeta
    BY <2>1, TokenMetaStatus, ConsumedType
  <2> QED  BY <1>3, <2>1 DEF CASScript
<1>4. ASSUME At(r, "cas")
      PROVE  CASMeta(target[r], redisNow[r]) \in TokenMeta \union {NoToken}
  BY <1>4, TokenMetaStatus, ConsumedType DEF CASMeta
<1>5. CASE Consume(r)
  <2>1. token' \in [Hashes -> TokenMeta \union {NoToken}]
    BY <1>3, <1>5 DEF Consume
  <2>2. meta' \in [Requests -> TokenMeta \union {NoToken}]
    BY <1>4, <1>5 DEF Consume
  <2>3. pc' \in [Requests -> Steps] /\ answer' \in [Requests -> Answers]
    BY <1>5 DEF Consume, CASAnswer
  <2>4. TargetKnown'
    BY <1>5 DEF Consume
  <2> QED  BY <1>5, <2>1, <2>2, <2>3, <2>4 DEF Consume
<1>6. CASE ConsumeFails(r)
  <2>1. token' \in [Hashes -> TokenMeta \union {NoToken}]
    BY <1>3, <1>6 DEF ConsumeFails
  <2> QED  BY <1>6, <2>1 DEF ConsumeFails
<1>7. CASE Head(r)
  BY <1>7 DEF Head
<1>8. CASE CleanupDelToken(r)
  BY <1>8 DEF CleanupDelToken, DelToken
<1>9. CASE CleanupMarkDestroyed(r)
  BY <1>9, StoresAssumption DEF CleanupMarkDestroyed
<1>10. CASE Redirect(r)
  <2>1. target[r] \in Hashes
    BY <1>10 DEF Redirect
  <2>2. JobsFor(r) \subseteq DestroyJob
    BY <2>1, DownloadAssumption DEF JobsFor, DestroyJob
  <2>3. destroyQueue' \subseteq DestroyJob
    BY <1>10, <2>2 DEF Redirect
  <2> QED  BY <1>10, <2>3 DEF Redirect
<1>11. CASE CrashRequest(r)
  BY <1>11 DEF CrashRequest
<1> QED  BY <1>1, <1>2, <1>5, <1>6, <1>7, <1>8, <1>9, <1>10, <1>11 DEF PostStep

(* So does every read of GET /d/{token}. *)
LEMMA ViewType ==
  ASSUME StoresTypeOK, DownloadTypeOK, TargetKnown, NEW v \in Views, ViewStep(v)
  PROVE  StoresTypeOK' /\ DownloadTypeOK' /\ TargetKnown'
<1> USE DEF StoresTypeOK, DownloadTypeOK, TargetKnown, storeVars, pendingVars, postVars, ViewReply
<1>1. ASSUME NEW h \in Hashes, ViewCheckDestroyed(v, h)
      PROVE  StoresTypeOK' /\ DownloadTypeOK' /\ TargetKnown'
  BY <1>1 DEF ViewCheckDestroyed
<1>2. CASE ViewToken(v)
  <2>1. PageFor(token[viewTarget[v]]) \in {"expired", "page", "internal"}
    BY DEF PageFor
  <2> QED  BY <1>2, <2>1 DEF ViewToken
<1> QED  BY <1>1, <1>2 DEF ViewStep

(* So does every call of ConfirmUpload, and a revocation. *)
LEMMA ActivationType ==
  ASSUME StoresTypeOK, ActivationTypeOK, ObjectKnown, ActivationStep
  PROVE  StoresTypeOK' /\ ActivationTypeOK' /\ ObjectKnown'
<1> USE DEF StoresTypeOK, ActivationTypeOK, ObjectKnown, ConfirmSteps,
            storeVars, pendingVars, activationVars, ConfirmGoto
<1>1. ASSUME NEW c \in Confirms, VerifyObject(c)
      PROVE  StoresTypeOK' /\ ActivationTypeOK' /\ ObjectKnown'
  BY <1>1 DEF VerifyObject
<1>2. ASSUME NEW c \in Confirms, StoreToken(c)
      PROVE  StoresTypeOK' /\ ActivationTypeOK' /\ ObjectKnown'
  <2>1. PICK h \in Hashes \ issued, d \in TTLSlack :
               /\ issued' = issued \union {h}
               /\ \/ SetToken(h, NewToken(confirmObject[c], confirmExpiry[c],
                                          now + confirmTTL[c] + d))
                  \/ UNCHANGED token
               /\ ConfirmGoto(c, "index") \/ ConfirmGoto(c, "abort")
    BY <1>2 DEF StoreToken
  <2>2. now + confirmTTL[c] + d \in Int /\ confirmExpiry[c] \in Int
    BY ActivationAssumption
  <2>3. confirmObject[c] \in Objects
    BY <1>2 DEF StoreToken
  <2>4. NewToken(confirmObject[c], confirmExpiry[c], now + confirmTTL[c] + d) \in TokenMeta
    BY <2>2, <2>3, NewTokenType
  <2>5. token' \in [Hashes -> TokenMeta \union {NoToken}]
    BY <2>1, <2>4 DEF SetToken
  <2> QED  BY <1>2, <2>1, <2>2, <2>5 DEF StoreToken
<1>3. ASSUME NEW c \in Confirms, AbortConfirm(c)
      PROVE  StoresTypeOK' /\ ActivationTypeOK' /\ ObjectKnown'
  BY <1>3 DEF AbortConfirm
<1>4. ASSUME NEW c \in Confirms, IndexObject(c)
      PROVE  StoresTypeOK' /\ ActivationTypeOK' /\ ObjectKnown'
  BY <1>4 DEF IndexObject
<1>5. ASSUME NEW c \in Confirms, CrashConfirm(c)
      PROVE  StoresTypeOK' /\ ActivationTypeOK' /\ ObjectKnown'
  BY <1>5 DEF CrashConfirm
<1>6. ASSUME NEW h \in Hashes, RevokeToken(h)
      PROVE  StoresTypeOK' /\ ActivationTypeOK' /\ ObjectKnown'
  BY <1>6 DEF RevokeToken, DelToken
<1>7. ASSUME NEW c \in Confirms, BuildMetadata(c)
      PROVE  StoresTypeOK' /\ ActivationTypeOK' /\ ObjectKnown'
  <2>1. PICK ttl \in TTLs, t \in InstanceClock :
          /\ confirmTTL' = [confirmTTL EXCEPT ![c] = ttl]
          /\ confirmExpiry' = [confirmExpiry EXCEPT ![c] = t + ttl]
    BY <1>7 DEF BuildMetadata
  <2>2. ttl \in Int /\ t \in Int
    BY ActivationAssumption DEF InstanceClock
  <2> QED  BY <1>7, <2>1, <2>2 DEF BuildMetadata
<1>8. ASSUME NEW c \in Confirms, Unpend(c)
      PROVE  StoresTypeOK' /\ ActivationTypeOK' /\ ObjectKnown'
  BY <1>8 DEF Unpend, NoTime
<1> QED
  BY <1>1, <1>2, <1>3, <1>4, <1>5, <1>6, <1>7, <1>8 DEF ActivationStep, ConfirmStep

(* So does every step of the worker. *)
LEMMA ScanType ==
  ASSUME StoresTypeOK, OrphanScanTypeOK, OrphanScanStep
  PROVE  StoresTypeOK' /\ OrphanScanTypeOK'
<1> USE DEF StoresTypeOK, OrphanScanTypeOK, ScanSteps, SweepSteps,
            storeVars, pendingVars, scanVars, WorkerGoto
<1>1. ASSUME NEW w \in Workers, StartCycle(w)
      PROVE  StoresTypeOK' /\ OrphanScanTypeOK'
  BY <1>1, OrphanScanAssumption DEF StartCycle, InstanceClock
<1>2. ASSUME NEW w \in Workers, ListDue(w)
      PROVE  StoresTypeOK' /\ OrphanScanTypeOK'
  BY <1>2 DEF ListDue
<1>3. ASSUME NEW w \in Workers, PickObject(w)
      PROVE  StoresTypeOK' /\ OrphanScanTypeOK'
  BY <1>3 DEF PickObject
<1>4. ASSUME NEW w \in Workers, NEW h \in Hashes, ReadKey(w, h)
      PROVE  StoresTypeOK' /\ OrphanScanTypeOK'
  BY <1>4 DEF ReadKey
<1>5. ASSUME NEW w \in Workers, DeleteObject(w)
      PROVE  StoresTypeOK' /\ OrphanScanTypeOK'
  BY <1>5 DEF DeleteObject
<1>6. ASSUME NEW w \in Workers, Unindex(w)
      PROVE  StoresTypeOK' /\ OrphanScanTypeOK'
  BY <1>6 DEF Unindex, NoTime
<1>7. ASSUME NEW w \in Workers, EndCycle(w)
      PROVE  StoresTypeOK' /\ OrphanScanTypeOK'
  BY <1>7 DEF EndCycle, NoTime
<1>8. ASSUME NEW w \in Workers, CrashWorker(w)
      PROVE  StoresTypeOK' /\ OrphanScanTypeOK'
  BY <1>8 DEF CrashWorker, NoTime
<1>9. CASE CleanStale
  BY <1>9 DEF CleanStale, NoTime
<1>10. ASSUME NEW w \in Workers, StartSweep(w) \/ ListPending(w) \/ PickUpload(w)
       PROVE  StoresTypeOK' /\ OrphanScanTypeOK'
  BY <1>10 DEF StartSweep, ListPending, PickUpload
<1>11. ASSUME NEW w \in Workers, DeleteUpload(w) \/ DropUpload(w)
       PROVE  StoresTypeOK' /\ OrphanScanTypeOK'
  BY <1>11 DEF DeleteUpload, DropUpload, NoTime
<1> QED
  BY <1>1, <1>2, <1>3, <1>4, <1>5, <1>6, <1>7, <1>8, <1>9, <1>10, <1>11
  DEF OrphanScanStep, ScanCycle

(* So does the clock. *)
LEMMA TickType ==
  ASSUME StoresTypeOK, Tick
  PROVE  StoresTypeOK'
BY DEF StoresTypeOK, Tick, NoTime, DueUploads

(* So does every step of the composed system, a stutter included. *)
LEMMA TypeStep == TypeInv /\ [Next]_vars => TypeInv'
<1> SUFFICES ASSUME TypeInv, [Next]_vars PROVE TypeInv'
  OBVIOUS
<1> USE DEF TypeInv, TypeOK
<1>1. CASE DownloadStep /\ UNCHANGED <<activationVars, scanVars>>
  <2>1. StoresTypeOK' /\ DownloadTypeOK' /\ TargetKnown'
    BY <1>1, PostType, ViewType DEF DownloadStep
  <2> QED  BY <1>1, <2>1 DEF ActivationTypeOK, OrphanScanTypeOK, ObjectKnown, activationVars,
                             scanVars
<1>2. CASE ActivationStep /\ UNCHANGED <<downloadVars, scanVars>>
  <2>1. StoresTypeOK' /\ ActivationTypeOK' /\ ObjectKnown'
    BY <1>2, ActivationType
  <2> QED  BY <1>2, <2>1 DEF DownloadTypeOK, OrphanScanTypeOK, TargetKnown, downloadVars,
                             postVars, viewVars, scanVars
<1>3. CASE OrphanScanStep /\ UNCHANGED <<downloadVars, activationVars>>
  <2>1. StoresTypeOK' /\ OrphanScanTypeOK'
    BY <1>3, ScanType
  <2> QED  BY <1>3, <2>1 DEF DownloadTypeOK, ActivationTypeOK, TargetKnown, ObjectKnown,
                             downloadVars, postVars, viewVars, activationVars
<1>4. CASE Tick /\ UNCHANGED <<downloadVars, activationVars, scanVars>>
  <2>1. StoresTypeOK'
    BY <1>4, TickType
  <2> QED  BY <1>4, <2>1 DEF DownloadTypeOK, ActivationTypeOK, OrphanScanTypeOK, TargetKnown,
                             ObjectKnown, downloadVars, postVars, viewVars, activationVars, scanVars
<1>5. CASE UNCHANGED vars
  BY <1>5 DEF vars, storeVars, pendingVars, downloadVars, postVars, viewVars, activationVars, scanVars,
              StoresTypeOK, DownloadTypeOK, ActivationTypeOK, OrphanScanTypeOK, TargetKnown,
              ObjectKnown
<1> QED  BY <1>1, <1>2, <1>3, <1>4, <1>5 DEF Next

(* Every variable of the composed system keeps its type, whatever the      *)
(* numbers of shares, requests, uploads and instances, the TTLs, the clock *)
(* skew and the faults.                                                    *)
THEOREM TypeCorrect == Spec => []TypeOK
<1>1. TypeInv => TypeOK
  BY DEF TypeInv
<1> QED  BY <1>1, InitType, TypeStep, PTL DEF Spec

-------------------------------------------------------------------------------
(***************************************************************************)
(* The inductive invariant                                                 *)
(***************************************************************************)
(* Nothing is issued, marked or won at first. *)
LEMMA InitSafe == Init => Safe
BY DEF Init, Safe, StoresInit, DownloadInit, ActivationInit, TokensIssued, WinnersToken,
       OneWinner, WinnersSteps, MarksTaken, Winning

(* A step that leaves the requests alone, issues no hash and at most      *)
(* removes tokens and markers is harmless: that is every step of the       *)
(* admin, the worker, the page requests and the clock, and every step of   *)
(* an upload but StoreToken.                                               *)
LEMMA RemovalSafe ==
  ASSUME TypeInv, Safe, UNCHANGED <<postVars, issued>>,
         token' \in [Hashes -> TokenMeta \union {NoToken}],
         \A h \in Hashes : token'[h] \in {token[h], NoToken},
         \A h \in Hashes : destroyed'[h] \in {destroyed[h], NoTime}
  PROVE  Safe'
<1> USE DEF postVars
<1>1. \A h \in Hashes : token[h].status # "ACTIVE" => token'[h].status # "ACTIVE"
  BY DEF NoToken
<1>2. TokensIssued'
  BY DEF Safe, TokensIssued
<1>3. WinnersToken'
  BY <1>1 DEF Safe, WinnersToken, TypeInv, TypeOK, ActivationTypeOK
<1>4. OneWinner' /\ WinnersSteps'
  BY DEF Safe, OneWinner, WinnersSteps
<1>5. MarksTaken'
  BY <1>1 DEF Safe, MarksTaken
<1> QED  BY <1>2, <1>3, <1>4, <1>5 DEF Safe

(* StoreToken puts an ACTIVE token under a hash nobody has a claim on.     *)
LEMMA StoreTokenSafe ==
  ASSUME TypeInv, Safe, NEW c \in Confirms, StoreToken(c), UNCHANGED downloadVars
  PROVE  Safe'
<1> USE DEF downloadVars, postVars
<1>1. PICK h \in Hashes \ issued :
        /\ issued' = issued \union {h}
        /\ \E v : SetToken(h, v) \/ UNCHANGED token
        /\ UNCHANGED destroyed
  BY DEF StoreToken
<1>2. \A g \in Hashes : g # h => token'[g] = token[g]
  BY <1>1 DEF SetToken, TypeInv, TypeOK, StoresTypeOK
<1>3. TokensIssued'
  BY <1>1, <1>2 DEF Safe, TokensIssued
<1>4. WinnersToken'
  BY <1>1, <1>2 DEF Safe, WinnersToken, TypeInv, TypeOK, ActivationTypeOK
<1>5. OneWinner' /\ WinnersSteps'
  BY DEF Safe, OneWinner, WinnersSteps
<1>6. MarksTaken'
  BY <1>1, <1>2 DEF Safe, MarksTaken
<1> QED  BY <1>3, <1>4, <1>5, <1>6 DEF Safe

(* The steps of a request.  The one that matters is Consume: its script    *)
(* finds the token ACTIVE only if nobody has won it yet.                   *)
LEMMA PostSafe ==
  ASSUME TypeInv, TypeInv', Safe, NEW r \in Requests, PostStep(r), UNCHANGED issued
  PROVE  Safe'
<1> USE DEF TypeInv, TypeOK, StoresTypeOK, DownloadTypeOK, At, Goto, Reply, storeVars, pendingVars, viewVars
<1>1. ASSUME NEW h \in Hashes, CheckDestroyed(r, h)
      PROVE  Safe'
  BY <1>1 DEF CheckDestroyed, Safe, TokensIssued, WinnersToken, OneWinner, WinnersSteps,
              MarksTaken, Winning
<1>2. CASE ReadRedisTime(r)
  BY <1>2 DEF ReadRedisTime, Safe, TokensIssued, WinnersToken, OneWinner, WinnersSteps,
              MarksTaken, Winning
<1>3. ASSUME At(r, "cas"), CASScript(target[r], redisNow[r])
      PROVE  /\ \A h \in Hashes : token[h].status # "ACTIVE" => token'[h].status # "ACTIVE"
             /\ token'[target[r]].status # "ACTIVE"
             /\ \A h \in Hashes : token'[h] # NoToken => token[h] # NoToken
  <2>1. target[r] \in Hashes
    BY <1>3 DEF TargetKnown
  <2>2. \A h \in Hashes : token[h].status = "ACTIVE" =>
           token[h] # NoToken /\ Consumed(token[h], redisNow[r]).status = "CONSUMING"
    BY DEF Consumed, NoToken
  <2> QED  BY <1>3, <2>1, <2>2 DEF CASScript
<1>4. CASE Consume(r)
  <2>1. target[r] \in Hashes /\ meta[r] = NoToken
    BY <1>4 DEF Consume, TargetKnown, Safe, WinnersSteps
  <2>2. TokensIssued' /\ MarksTaken'
    BY <1>3, <1>4 DEF Consume, Safe, TokensIssued, MarksTaken
  <2>3. CASE token[target[r]].status = "ACTIVE"
    <3>1. meta' = [meta EXCEPT ![r] = Consumed(token[target[r]], redisNow[r])]
      BY <1>4, <2>3 DEF Consume, CASMeta
    <3>2. Consumed(token[target[r]], redisNow[r]) # NoToken
      BY DEF Consumed, NoToken
    <3>3. pc' = [pc EXCEPT ![r] = "head"] /\ answer' = [answer EXCEPT ![r] = "none"]
      BY <1>4, <2>3, <3>2 DEF Consume, CASMeta, CASAnswer
    <3>4. \A s \in Requests : meta[s] # NoToken => target[s] # target[r]
      BY <2>3 DEF Safe, WinnersToken
    <3>5. token[target[r]] # NoToken
      BY <2>3 DEF NoToken
    <3>6. WinnersToken'
      BY <1>3, <1>4, <2>1, <3>1, <3>5 DEF Consume, Safe, WinnersToken, TokensIssued,
                                         ActivationTypeOK
    <3>7. OneWinner'
      BY <1>4, <3>1, <3>4 DEF Consume, Safe, OneWinner
    <3>8. WinnersSteps'
      BY <3>1, <3>2, <3>3 DEF Safe, WinnersSteps, Winning
    <3> QED  BY <2>2, <3>6, <3>7, <3>8 DEF Safe
  <2>4. CASE token[target[r]].status # "ACTIVE"
    <3>1. meta' = meta
      BY <1>4, <2>1, <2>4 DEF Consume, CASMeta
    <3>2. pc' = [pc EXCEPT ![r] = "done"] /\ answer' = [answer EXCEPT ![r] = "expired"]
      BY <1>4, <2>4 DEF Consume, CASMeta, CASAnswer
    <3>3. token' = token
      BY <1>4, <2>4 DEF Consume, CASScript
    <3>4. WinnersToken' /\ OneWinner'
      BY <1>4, <3>1, <3>3 DEF Consume, Safe, WinnersToken, OneWinner
    <3>5. WinnersSteps'
      BY <3>1, <3>2 DEF Safe, WinnersSteps, Winning
    <3> QED  BY <2>2, <3>4, <3>5 DEF Safe
  <2> QED  BY <2>3, <2>4
<1>5. CASE ConsumeFails(r)
  <2>1. /\ \A h \in Hashes : token[h].status # "ACTIVE" => token'[h].status # "ACTIVE"
        /\ \A h \in Hashes : token'[h] # NoToken => token[h] # NoToken
    BY <1>3, <1>5 DEF ConsumeFails
  <2>2. TokensIssued' /\ MarksTaken'
    BY <1>5, <2>1 DEF ConsumeFails, Safe, TokensIssued, MarksTaken
  <2>3. WinnersToken' /\ OneWinner'
    BY <1>5, <2>1 DEF ConsumeFails, Safe, WinnersToken, OneWinner, ActivationTypeOK
  <2>4. WinnersSteps'
    BY <1>5 DEF ConsumeFails, Safe, WinnersSteps, Winning
  <2> QED  BY <2>2, <2>3, <2>4 DEF Safe
<1>6. CASE Head(r)
  BY <1>6 DEF Head, Safe, TokensIssued, WinnersToken, OneWinner, WinnersSteps, MarksTaken,
              Winning
<1>7. CASE CleanupDelToken(r)
  <2>1. /\ \A h \in Hashes : token[h].status # "ACTIVE" => token'[h].status # "ACTIVE"
        /\ \A h \in Hashes : token'[h] # NoToken => token[h] # NoToken
    BY <1>7 DEF CleanupDelToken, DelToken, NoToken
  <2>2. TokensIssued' /\ MarksTaken'
    BY <1>7, <2>1 DEF CleanupDelToken, Safe, TokensIssued, MarksTaken
  <2>3. WinnersToken' /\ OneWinner'
    BY <1>7, <2>1 DEF CleanupDelToken, Safe, WinnersToken, OneWinner, ActivationTypeOK
  <2>4. WinnersSteps'
    BY <1>7 DEF CleanupDelToken, Safe, WinnersSteps, Winning
  <2> QED  BY <2>2, <2>3, <2>4 DEF Safe
<1>8. CASE CleanupMarkDestroyed(r)
  <2>1. target[r] \in issued /\ token[target[r]].status # "ACTIVE"
    BY <1>8 DEF CleanupMarkDestroyed, Safe, WinnersSteps, WinnersToken, Winning
  <2>2. MarksTaken'
    BY <1>8, <2>1 DEF CleanupMarkDestroyed, Safe, MarksTaken
  <2>3. TokensIssued' /\ WinnersToken' /\ OneWinner' /\ WinnersSteps'
    BY <1>8 DEF CleanupMarkDestroyed, Safe, TokensIssued, WinnersToken, OneWinner,
                WinnersSteps, Winning
  <2> QED  BY <2>2, <2>3 DEF Safe
<1>9. CASE Redirect(r)
  BY <1>9 DEF Redirect, Safe, TokensIssued, WinnersToken, OneWinner, WinnersSteps, MarksTaken,
              Winning
<1>10. CASE CrashRequest(r)
  BY <1>10 DEF CrashRequest, Safe, TokensIssued, WinnersToken, OneWinner, WinnersSteps,
               MarksTaken, Winning
<1> QED  BY <1>1, <1>2, <1>4, <1>5, <1>6, <1>7, <1>8, <1>9, <1>10 DEF PostStep

(* The steps that satisfy the hypotheses of RemovalSafe. *)
LEMMA ActivationRemoves ==
  ASSUME TypeInv, ActivationStep, \A c \in Confirms : ~ StoreToken(c)
  PROVE  /\ UNCHANGED <<issued, destroyed>>
         /\ \A h \in Hashes : token'[h] \in {token[h], NoToken}
<1> USE DEF TypeInv, TypeOK, StoresTypeOK
<1>1. ASSUME NEW h \in Hashes, RevokeToken(h)
      PROVE  UNCHANGED <<issued, destroyed>>
             /\ \A g \in Hashes : token'[g] \in {token[g], NoToken}
  BY <1>1 DEF RevokeToken, DelToken, activationVars
<1>2. ASSUME NEW c \in Confirms, ConfirmStep(c), ~ StoreToken(c)
      PROVE  UNCHANGED <<issued, destroyed, token>>
  BY <1>2 DEF ConfirmStep, VerifyObject, BuildMetadata, AbortConfirm, IndexObject, Unpend, CrashConfirm, storeVars, pendingVars
<1> QED  BY <1>1, <1>2 DEF ActivationStep

(* So does every step of the worker: it writes no token and no marker. *)
LEMMA ScanRemoves ==
  ASSUME OrphanScanStep
  PROVE  UNCHANGED <<token, destroyed>>
BY DEF OrphanScanStep, ScanCycle, CleanStale, CrashWorker, StartCycle, ListDue, PickObject,
       ReadKey, DeleteObject, Unindex, StartSweep, ListPending, PickUpload,
     DeleteUpload, DropUpload, EndCycle, storeVars, pendingVars

(* And so does the expiry of keys. *)
LEMMA TickRemoves ==
  ASSUME TypeInv, Tick
  PROVE  /\ \A h \in Hashes : token'[h] \in {token[h], NoToken}
         /\ \A h \in Hashes : destroyed'[h] \in {destroyed[h], NoTime}
BY DEF Tick, TypeInv, TypeOK, StoresTypeOK

(* Inv is inductive. *)
LEMMA InvStep == Inv /\ [Next]_vars => Inv'
<1> SUFFICES ASSUME TypeInv, Safe, [Next]_vars PROVE TypeInv' /\ Safe'
  BY DEF Inv
<1>1. TypeInv'
  BY TypeStep
<1>2. token' \in [Hashes -> TokenMeta \union {NoToken}]
  BY <1>1 DEF TypeInv, TypeOK, StoresTypeOK
<1> SUFFICES Safe'
  BY <1>1
<1>3. CASE DownloadStep /\ UNCHANGED <<activationVars, scanVars>>
  <2>1. ASSUME NEW r \in Requests, PostStep(r)
        PROVE  Safe'
    BY <1>1, <1>3, <2>1, PostSafe DEF activationVars
  <2>2. ASSUME NEW v \in Views, ViewStep(v)
        PROVE  Safe'
    <3>1. UNCHANGED <<storeVars, postVars, issued>>
      BY <1>3, <2>2 DEF ViewStep, ViewCheckDestroyed, ViewToken, activationVars
    <3> QED  BY <1>2, <3>1, RemovalSafe DEF storeVars, pendingVars
  <2> QED  BY <1>3, <2>1, <2>2 DEF DownloadStep
<1>4. CASE ActivationStep /\ UNCHANGED <<downloadVars, scanVars>>
  <2>1. ASSUME NEW c \in Confirms, StoreToken(c)
        PROVE  Safe'
    BY <1>4, <2>1, StoreTokenSafe
  <2>2. CASE \A c \in Confirms : ~ StoreToken(c)
    BY <1>2, <1>4, <2>2, ActivationRemoves, RemovalSafe DEF downloadVars
  <2> QED  BY <2>1, <2>2
<1>5. CASE OrphanScanStep /\ UNCHANGED <<downloadVars, activationVars>>
  BY <1>2, <1>5, ScanRemoves, RemovalSafe DEF downloadVars, activationVars
<1>6. CASE Tick /\ UNCHANGED <<downloadVars, activationVars, scanVars>>
  BY <1>2, <1>6, TickRemoves, RemovalSafe DEF downloadVars, activationVars
<1>7. CASE UNCHANGED vars
  BY <1>2, <1>7, RemovalSafe DEF vars, storeVars, pendingVars, downloadVars, activationVars
<1> QED  BY <1>3, <1>4, <1>5, <1>6, <1>7 DEF Next

(* The inductive invariant holds of every reachable state. *)
THEOREM Invariance == Spec => []Inv
<1>1. Init => Inv
  BY InitType, InitSafe DEF Inv
<1> QED  BY <1>1, InvStep, PTL DEF Spec

-------------------------------------------------------------------------------
(***************************************************************************)
(* What a share link promises                                              *)
(***************************************************************************)
(* Two requests are never redirected to the file of the same share, under  *)
(* any interleaving, crash, lost reply, expiry or revocation.              *)
THEOREM OneRedirect == Spec => []AtMostOneRedirect
<1>1. Inv => AtMostOneRedirect
  BY DEF Inv, Safe, OneWinner, WinnersSteps, AtMostOneRedirect
<1> QED  BY <1>1, Invariance, PTL

(* The destroyed marker is never put on a share that is still open. *)
THEOREM MarkedShares == Spec => []MarkedNeverOpen
<1>1. Inv => MarkedNeverOpen
  BY DEF Inv, Safe, MarksTaken, MarkedNeverOpen
<1> QED  BY <1>1, Invariance, PTL

(* No step of a request opens a share.  CASScript writes CONSUMING, the    *)
(* cleanup deletes, and the other calls leave the token alone.             *)
LEMMA PostNeverOpens ==
  ASSUME TypeInv, NEW r \in Requests, PostStep(r),
         NEW h \in Hashes, token[h].status # "ACTIVE"
  PROVE  token'[h].status # "ACTIVE"
<1> USE DEF TypeInv, TypeOK, StoresTypeOK
<1>1. CASE Consume(r) \/ ConsumeFails(r)
  <2>1. CASScript(target[r], redisNow[r]) \/ UNCHANGED token
    BY <1>1 DEF Consume, ConsumeFails
  <2>2. Consumed(token[h], redisNow[r]).status # "ACTIVE"
    BY DEF Consumed
  <2> QED  BY <2>1, <2>2 DEF CASScript
<1>2. CASE CleanupDelToken(r)
  BY <1>2 DEF CleanupDelToken, DelToken, NoToken
<1>3. CASE UNCHANGED token
  BY <1>3
<1> QED
  BY <1>1, <1>2, <1>3 DEF PostStep, CheckDestroyed, ReadRedisTime, Head,
     CleanupMarkDestroyed, Redirect, CrashRequest, storeVars, pendingVars

(* Nor does any step of the composed system reopen an issued share. *)
LEMMA StepNeverOpens ==
  ASSUME Inv, Next, NEW h \in issued, token[h].status # "ACTIVE"
  PROVE  token'[h].status # "ACTIVE"
<1> USE DEF Inv
<1>1. h \in Hashes
  BY DEF TypeInv, TypeOK, ActivationTypeOK
<1>2. CASE token'[h] \in {token[h], NoToken}
  BY <1>2 DEF NoToken
<1>3. CASE DownloadStep
  <2>1. ASSUME NEW v \in Views, ViewStep(v)
        PROVE  UNCHANGED token
    BY <2>1 DEF ViewStep, ViewCheckDestroyed, ViewToken, storeVars, pendingVars
  <2> QED  BY <1>1, <1>2, <1>3, <2>1, PostNeverOpens DEF DownloadStep
<1>4. CASE ActivationStep
  <2>1. ASSUME NEW c \in Confirms, StoreToken(c)
        PROVE  token'[h] = token[h]
    BY <1>1, <2>1 DEF StoreToken, SetToken, TypeInv, TypeOK, StoresTypeOK
  <2> QED  BY <1>1, <1>2, <1>4, <2>1, ActivationRemoves
<1>5. CASE OrphanScanStep
  BY <1>2, <1>5, ScanRemoves
<1>6. CASE Tick
  BY <1>1, <1>2, <1>6, TickRemoves
<1> QED  BY <1>3, <1>4, <1>5, <1>6 DEF Next

(* A share that was consumed, revoked or has expired never opens again.    *)
THEOREM StaysClosed == Spec => NeverReopened
<1>1. Inv /\ [Next]_vars =>
        [\A h \in issued : token[h].status # "ACTIVE" => token'[h].status # "ACTIVE"]_vars
  BY StepNeverOpens
<1> QED  BY <1>1, Invariance, PTL DEF Spec, NeverReopened

-------------------------------------------------------------------------------
(***************************************************************************)
(* No page for a share that is won                                         *)
(***************************************************************************)
(* A CONSUMING value bears the Redis time of the CAS that wrote it, so it  *)
(* does not decode.                                                        *)
Stamped ==
  /\ \A r \in Requests : pc[r] = "cas" => redisNow[r] \in Nat
  /\ \A h \in Hashes : token[h].status = "CONSUMING" => token[h].scheduledAt # NoTime

(* A step that takes no token, and leaves the requests alone. *)
LEMMA QuietStamped ==
  ASSUME Stamped, UNCHANGED <<pc, redisNow>>,
         \A h \in Hashes : token'[h] = token[h] \/ token'[h].status # "CONSUMING"
  PROVE  Stamped'
BY DEF Stamped

(* The steps of a request: the time is read before the CAS uses it. *)
LEMMA PostStamped ==
  ASSUME TypeInv, Stamped, NEW r \in Requests, PostStep(r)
  PROVE  Stamped'
<1> USE DEF TypeInv, TypeOK, StoresTypeOK, DownloadTypeOK, At, Goto, Reply
<1>1. ASSUME At(r, "cas"), CASScript(target[r], redisNow[r])
      PROVE  \A h \in Hashes : token'[h].status = "CONSUMING" => token'[h].scheduledAt # NoTime
  <2>1. redisNow[r] # NoTime
    BY <1>1 DEF Stamped, NoTime
  <2> QED  BY <1>1, <2>1 DEF CASScript, Consumed, Stamped
<1>2. CASE Consume(r) \/ ConsumeFails(r)
  BY <1>1, <1>2 DEF Consume, ConsumeFails, Stamped
<1>3. CASE CleanupDelToken(r)
  BY <1>3 DEF CleanupDelToken, DelToken, NoToken, Stamped
<1>4. CASE ReadRedisTime(r)
  BY <1>4 DEF ReadRedisTime, storeVars, pendingVars, Stamped
<1>5. ASSUME NEW h \in Hashes, CheckDestroyed(r, h)
      PROVE  Stamped'
  BY <1>5 DEF CheckDestroyed, storeVars, pendingVars, Stamped
<1>6. CASE Head(r) \/ CleanupMarkDestroyed(r) \/ Redirect(r) \/ CrashRequest(r)
  BY <1>6 DEF Head, CleanupMarkDestroyed, Redirect, CrashRequest, storeVars, pendingVars, Stamped
<1> QED  BY <1>2, <1>3, <1>4, <1>5, <1>6 DEF PostStep

(* Every step of the composed system. *)
LEMMA StampedStep == TypeInv /\ Stamped /\ [Next]_vars => Stamped'
<1> SUFFICES ASSUME TypeInv, Stamped, [Next]_vars PROVE Stamped'
  OBVIOUS
<1>1. CASE DownloadStep
  <2>1. ASSUME NEW v \in Views, ViewStep(v)
        PROVE  Stamped'
    BY <2>1, QuietStamped DEF ViewStep, ViewCheckDestroyed, ViewToken, storeVars, pendingVars, postVars
  <2> QED  BY <1>1, <2>1, PostStamped DEF DownloadStep
<1>2. CASE ActivationStep /\ UNCHANGED <<downloadVars, scanVars>>
  <2>1. ASSUME NEW c \in Confirms, StoreToken(c)
        PROVE  \A h \in Hashes : token'[h] = token[h] \/ token'[h].status # "CONSUMING"
    BY <2>1 DEF StoreToken, SetToken, NewToken, TypeInv, TypeOK, StoresTypeOK
  <2>2. \A h \in Hashes : token'[h] = token[h] \/ token'[h].status # "CONSUMING"
    BY <1>2, <2>1, ActivationRemoves DEF NoToken
  <2> QED  BY <1>2, <2>2, QuietStamped DEF downloadVars, postVars
<1>3. CASE OrphanScanStep /\ UNCHANGED <<downloadVars, activationVars>>
  BY <1>3, ScanRemoves, QuietStamped DEF downloadVars, postVars
<1>4. CASE Tick /\ UNCHANGED <<downloadVars, activationVars, scanVars>>
  <2>1. \A h \in Hashes : token'[h] = token[h] \/ token'[h].status # "CONSUMING"
    BY <1>4, TickRemoves DEF NoToken
  <2> QED  BY <1>4, <2>1, QuietStamped DEF downloadVars, postVars
<1>5. CASE UNCHANGED vars
  BY <1>5, QuietStamped DEF vars, storeVars, pendingVars, downloadVars, postVars
<1> QED  BY <1>1, <1>2, <1>3, <1>4, <1>5 DEF Next

(* No download page is shown once a request has won the share: the value   *)
(* that GET token:{hash} then returns is none, or does not decode.         *)
THEOREM WonHidesPage == Spec => NoPageAfterWin
<1> DEFINE Shown(v) == viewAnswer'[v] # viewAnswer[v] /\ viewAnswer'[v] = "page"
<1>1. ASSUME Inv, Stamped, Next, NEW v \in Views, Shown(v), NEW r \in Requests, Won(r, viewTarget[v])
      PROVE  FALSE
  <2>1. viewAnswer \in [Views -> {"none", "expired", "page", "internal"}]
    BY <1>1 DEF Inv, TypeInv, TypeOK, DownloadTypeOK
  <2>2. PICK u \in Views : ViewStep(u)
    <3>1. ~ UNCHANGED viewAnswer
      BY <1>1
    <3> QED
      BY <1>1, <3>1 DEF Next, DownloadStep, PostStep, CheckDestroyed, ReadRedisTime, Consume,
         ConsumeFails, Head, CleanupDelToken, CleanupMarkDestroyed, Redirect, CrashRequest,
         downloadVars, viewVars
  <2>3. ViewToken(v) /\ PageFor(token[viewTarget[v]]) = "page"
    BY <1>1, <2>1, <2>2 DEF ViewStep, ViewCheckDestroyed, ViewToken, ViewReply
  <2>4. Decodable(token[viewTarget[v]])
    BY <2>3 DEF PageFor
  <2>5. viewTarget[v] \in issued /\ token[viewTarget[v]].status # "ACTIVE"
    BY <1>1 DEF Inv, Safe, WinnersToken, Won
  <2>6. viewTarget[v] \in Hashes
    BY <1>1, <2>5 DEF Inv, TypeInv, TypeOK, ActivationTypeOK
  <2>7. token[viewTarget[v]] \in TokenMeta
    BY <1>1, <2>4, <2>6 DEF Decodable, Inv, TypeInv, TypeOK, StoresTypeOK
  <2>8. token[viewTarget[v]].status = "CONSUMING"
    BY <2>5, <2>7 DEF TokenMeta
  <2> QED  BY <1>1, <2>4, <2>6, <2>8 DEF Stamped, Decodable
<1>2. Init => Stamped
  BY DEF Init, StoresInit, DownloadInit, Stamped, NoToken
<1>3. Inv /\ Stamped /\ [Next]_vars => Stamped'
  BY StampedStep DEF Inv
<1>4. Inv /\ Stamped /\ [Next]_vars =>
        [\A v \in Views : Shown(v) => \A r \in Requests : ~ Won(r, viewTarget[v])]_vars
  BY <1>1
<1> QED  BY <1>2, <1>3, <1>4, Invariance, PTL DEF Spec, NoPageAfterWin

===============================================================================
