----------------------- MODULE ShareLifecycle_refinement -----------------------
(***************************************************************************)
(* Proof that the composed system implements OneTimeShare: what Redis, the *)
(* handlers and the worker do to a share is, step by step, what the        *)
(* abstract share may do, or nothing.                                      *)
(***************************************************************************)
EXTENDS ShareLifecycle_proofs

(* The refinement mapping. *)
Shares == [h \in Hashes |-> Life(h)]
Holders == [h \in Hashes |-> Holder(h)]

Open(h) == token[h].status = "ACTIVE"

(* A share has at most one winner, so Holder names it. *)
HolderIsWinner ==
  \A h \in Hashes :
    /\ \A r \in Requests : Won(r, h) => Holder(h) = r
    /\ (\A r \in Requests : ~ Won(r, h)) => Holder(h) = NoOne

(* HolderIsWinner follows from the uniqueness of the winner. *)
LEMMA HolderFacts == OneWinner => HolderIsWinner
<1> SUFFICES ASSUME OneWinner, NEW h \in Hashes
             PROVE  /\ \A r \in Requests : Won(r, h) => Holder(h) = r
                    /\ (\A r \in Requests : ~ Won(r, h)) => Holder(h) = NoOne
  BY DEF HolderIsWinner
<1>1. ASSUME NEW r \in Requests, Won(r, h)
      PROVE  Holder(h) = r
  <2> DEFINE w == CHOOSE s \in Requests : Won(s, h)
  <2>1. w \in Requests /\ Won(w, h)
    BY <1>1
  <2>2. w = r
    BY <1>1, <2>1 DEF OneWinner, Won
  <2> QED  BY <1>1, <2>2 DEF Holder
<1>2. ASSUME \A r \in Requests : ~ Won(r, h)
      PROVE  Holder(h) = NoOne
  BY <1>2 DEF Holder
<1> QED  BY <1>1, <1>2

(* While the winners stay, so do the holders. *)
LEMMA HoldersStay ==
  ASSUME HolderIsWinner, HolderIsWinner',
         \A r \in Requests, h \in Hashes : Won(r, h)' <=> Won(r, h)
  PROVE  Holders' = Holders
<1>1. ASSUME NEW h \in Hashes
      PROVE  Holder(h)' = Holder(h)
  <2>1. CASE \E r \in Requests : Won(r, h)
    BY <2>1 DEF HolderIsWinner
  <2>2. CASE ~ \E r \in Requests : Won(r, h)
    BY <2>2 DEF HolderIsWinner
  <2> QED  BY <2>1, <2>2
<1> QED  BY <1>1 DEF Holders

-------------------------------------------------------------------------------
(* The backend starts where the abstract specification does. *)
LEMMA InitRefines == Init => Promise!Init
<1> SUFFICES ASSUME Init PROVE Promise!Init
  OBVIOUS
<1> USE DEF Init, DownloadInit, ActivationInit
<1>1. \A h \in Hashes : Life(h) = "unissued"
  BY DEF Life
<1>2. \A r \in Requests, h \in Hashes : ~ Won(r, h)
  BY DEF Won
<1>3. \A h \in Hashes : Holder(h) = NoOne
  BY <1>2 DEF Holder
<1>4. {r \in Requests : answer[r] = "redirect"} = {}
  OBVIOUS
<1> QED  BY <1>1, <1>3, <1>4 DEF Promise!Init

(* Holders are winners before and after a step. *)
LEMMA HolderInv == (Inv => HolderIsWinner) /\ (Inv' => HolderIsWinner')
<1>1. Inv => HolderIsWinner
  BY HolderFacts DEF Inv, Safe
<1> QED  BY <1>1, PTL

(* A step after which no share is newly open, won or served withdraws the  *)
(* shares it closes; when it closes none, the abstract shares do not move. *)
LEMMA WithdrawRefines ==
  ASSUME Inv, Inv', UNCHANGED issued,
         \A r \in Requests : answer'[r] = "redirect" <=> answer[r] = "redirect",
         \A r \in Requests, h \in Hashes : Won(r, h)' <=> Won(r, h),
         \A h \in Hashes : Open(h)' => Open(h)
  PROVE  Promise!Next
<1> DEFINE H == {h \in Hashes : Open(h) /\ ~ Open(h)'}
<1>1. ASSUME NEW h \in Hashes
      PROVE  /\ h \in H => Life(h) = "open" /\ Life(h)' = "void"
             /\ h \notin H => Life(h)' = Life(h)
  <2>1. Open(h) => h \in issued /\ \A r \in Requests : ~ Won(r, h)
    BY DEF Open, NoToken, Inv, Safe, TokensIssued, WinnersToken, Won
  <2> QED  BY <2>1 DEF Life, Open
<1>2. Shares' = [h \in Hashes |-> IF h \in H THEN "void" ELSE Shares[h]]
  BY <1>1 DEF Shares
<1>3. Holders' = Holders
  BY HolderInv, HoldersStay
<1>4. \A h \in H : Shares[h] = "open"
  BY <1>1 DEF Shares
<1>5. H \in SUBSET Hashes
  OBVIOUS
<1>6. Promise!Withdraw(H)
  BY <1>2, <1>3, <1>4 DEF Promise!Withdraw, Shares, Holders
<1> QED  BY <1>5, <1>6 DEF Promise!Next

(* A won CAS is a claim: the share was open, so nobody held it, and the    *)
(* request that takes it held nothing.                                     *)
LEMMA ConsumeRefines ==
  ASSUME Inv, Inv', NEW r \in Requests, NEW h \in Hashes, target[r] = h,
         Consume(r), UNCHANGED issued
  PROVE  Promise!Next
<1> USE DEF Inv, Safe, TypeInv, TypeOK, StoresTypeOK, DownloadTypeOK
<1>1. pc[r] = "cas" /\ meta[r] = NoToken /\ answer[r] = "none"
  BY DEF Consume, At, WinnersSteps
<1>2. CASE Open(h)
  <2>1. /\ meta' = [meta EXCEPT ![r] = Consumed(token[h], redisNow[r])]
        /\ Consumed(token[h], redisNow[r]) # NoToken
        /\ token' = [token EXCEPT ![h] = Consumed(token[h], redisNow[r])]
        /\ target' = target
    BY <1>2 DEF Consume, CASMeta, CASScript, Open, Consumed, NoToken
  <2>2. answer' = answer
    BY <1>1, <1>2 DEF Consume, CASMeta, CASAnswer, Open, Consumed, NoToken
  <2>3. h \in issued
    BY <1>1, <1>2 DEF Open, TokensIssued, NoToken
  <2>4. \A s \in Requests, g \in Hashes : Won(s, g)' <=> Won(s, g) \/ (s = r /\ g = h)
    BY <2>1 DEF Won
  <2>5. \A s \in Requests : ~ Won(s, h)
    BY <1>1, <1>2 DEF Won, WinnersToken, Open
  <2>6. \A g \in Hashes : ~ Won(r, g)
    BY <1>1 DEF Won
  <2>7. Life(h) = "open" /\ Life(h)' = "claimed"
    BY <1>1, <1>2, <2>1, <2>3, <2>4 DEF Life, Open, Consumed
  <2>8. ASSUME NEW g \in Hashes, g # h
        PROVE  Life(g)' = Life(g) /\ Holder(g)' = Holder(g) /\ Holder(g) # r
    <3>1. Life(g)' = Life(g)
      BY <2>1, <2>4, <2>8 DEF Life
    <3>2. Holder(g)' = Holder(g) /\ Holder(g) # r
      BY <2>4, <2>6, <2>8, HolderInv, NoOneAssumption DEF HolderIsWinner
    <3> QED  BY <3>1, <3>2
  <2>9. Holder(h) = NoOne /\ Holder(h)' = r
    BY <1>1, <2>4, <2>5, HolderInv DEF HolderIsWinner
  <2>10. \A g \in Hashes : Holder(g) # r
    BY <2>8, <2>9, NoOneAssumption
  <2>11. Shares' = [Shares EXCEPT ![h] = "claimed"]
    BY <1>1, <2>7, <2>8 DEF Shares
  <2>12. Holders' = [Holders EXCEPT ![h] = r]
    BY <1>1, <2>8, <2>9 DEF Holders
  <2>13. Promise!Claim(h, r)
    BY <1>1, <2>2, <2>7, <2>10, <2>11, <2>12 DEF Promise!Claim, Shares, Holders
  <2> QED  BY <2>13 DEF Promise!Next
<1>3. CASE ~ Open(h)
  <2>1. token' = token /\ meta' = meta /\ target' = target
    BY <1>1, <1>3 DEF Consume, CASMeta, CASScript, Open
  <2>2. answer' = [answer EXCEPT ![r] = "expired"]
    BY <1>3 DEF Consume, CASMeta, CASAnswer, Open
  <2> QED  BY <1>1, <2>1, <2>2, WithdrawRefines DEF Won, Open
<1> QED  BY <1>2, <1>3

(* A redirect serves the share's holder, once. *)
LEMMA RedirectRefines ==
  ASSUME Inv, Inv', NEW r \in Requests, NEW h \in Hashes, target[r] = h,
         Redirect(r), UNCHANGED issued
  PROVE  Promise!Next
<1> USE DEF Inv, Safe, TypeInv, TypeOK, DownloadTypeOK
<1>1. /\ UNCHANGED <<token, meta, target>>
      /\ \E a \in {"redirect", "internal"} : answer' = [answer EXCEPT ![r] = a]
  BY DEF Redirect, Reply
<1>2. answer[r] = "none" /\ Won(r, h)
  BY DEF Redirect, At, WinnersSteps, Winning, Won
<1>3. \A s \in Requests, g \in Hashes : Won(s, g)' <=> Won(s, g)
  BY <1>1 DEF Won
<1>4. \A g \in Hashes : Open(g)' <=> Open(g)
  BY <1>1 DEF Open
<1>5. CASE answer'[r] = "redirect"
  <2>1. Holder(h) = r
    BY <1>2, HolderInv DEF HolderIsWinner
  <2>2. Holders' = Holders
    BY <1>3, HolderInv, HoldersStay
  <2>3. Shares' = Shares
    BY <1>1, <1>3 DEF Shares, Life
  <2>4. {s \in Requests : answer'[s] = "redirect"}
          = {s \in Requests : answer[s] = "redirect"} \union {r}
    BY <1>1, <1>5
  <2>5. Promise!Serve(h, r)
    BY <1>2, <2>1, <2>2, <2>3, <2>4 DEF Promise!Serve, Shares, Holders
  <2> QED  BY <2>5 DEF Promise!Next
<1>6. CASE answer'[r] # "redirect"
  BY <1>1, <1>2, <1>3, <1>4, <1>6, WithdrawRefines
<1> QED  BY <1>5, <1>6

(* The other calls of a request withdraw at most the share they aim at. *)
LEMMA PostRefines ==
  ASSUME Inv, Inv', NEW r \in Requests, PostStep(r), UNCHANGED issued
  PROVE  Promise!Next
<1> USE DEF Inv, Safe, TypeInv, TypeOK, StoresTypeOK, DownloadTypeOK
<1>1. CASE Consume(r)
  BY <1>1, ConsumeRefines DEF Consume, At, TargetKnown
<1>2. CASE Redirect(r)
  BY <1>2, RedirectRefines DEF Redirect, At, TargetKnown
<1>3. CASE ~ Consume(r) /\ ~ Redirect(r)
  <2>1. \A s \in Requests : answer'[s] = "redirect" <=> answer[s] = "redirect"
    <3>1. answer[r] # "redirect"
      BY <1>3 DEF PostStep, CheckDestroyed, ReadRedisTime, ConsumeFails, Head,
         CleanupDelToken, CleanupMarkDestroyed, CrashRequest, At, WinnersSteps, Winning, Steps
    <3>2. \/ UNCHANGED answer
          \/ \E a \in Answers \ {"redirect"} : answer' = [answer EXCEPT ![r] = a]
      BY <1>3 DEF PostStep, CheckDestroyed, ReadRedisTime, ConsumeFails, Head,
         CleanupDelToken, CleanupMarkDestroyed, CrashRequest, Goto, Reply, Answers
    <3> QED  BY <3>1, <3>2
  <2>2. \A s \in Requests, g \in Hashes : Won(s, g)' <=> Won(s, g)
    BY <1>3 DEF PostStep, CheckDestroyed, ReadRedisTime, ConsumeFails, Head, CleanupDelToken,
       CleanupMarkDestroyed, CrashRequest, At, WinnersSteps, Won
  <2>3. \A g \in Hashes : Open(g)' => Open(g)
    BY PostNeverOpens DEF Open
  <2> QED  BY <2>1, <2>2, <2>3, WithdrawRefines
<1> QED  BY <1>1, <1>2, <1>3

(* A confirmed upload issues its share, open or, if the token could not be *)
(* stored, void.                                                           *)
LEMMA StoreTokenRefines ==
  ASSUME Inv, Inv', NEW c \in Confirms, StoreToken(c), UNCHANGED downloadVars
  PROVE  Promise!Next
<1> USE DEF Inv, Safe, TypeInv, TypeOK, StoresTypeOK, ActivationTypeOK, downloadVars, postVars
<1>1. PICK h \in Hashes \ issued :
        /\ issued' = issued \union {h}
        /\ \E v : SetToken(h, v) \/ UNCHANGED token
  BY DEF StoreToken
<1>2. \A s \in Requests, g \in Hashes : Won(s, g)' <=> Won(s, g)
  BY DEF Won
<1>3. \A s \in Requests : ~ Won(s, h)
  BY <1>1 DEF Won, WinnersToken
<1>4. Life(h) = "unissued" /\ Life(h)' \in {"open", "void"}
  BY <1>1, <1>2, <1>3 DEF Life
<1>5. ASSUME NEW g \in Hashes, g # h
      PROVE  Life(g)' = Life(g)
  <2>1. token'[g] = token[g]
    BY <1>1, <1>5 DEF SetToken
  <2> QED  BY <1>1, <1>2, <1>5, <2>1 DEF Life
<1>6. Shares' = [Shares EXCEPT ![h] = Life(h)']
  BY <1>4, <1>5 DEF Shares
<1>7. Holders' = Holders
  BY <1>2, HolderInv, HoldersStay
<1>8. Promise!Issue(h)
  BY <1>4, <1>6, <1>7 DEF Promise!Issue, Shares, Holders
<1> QED  BY <1>8 DEF Promise!Next

(* Every step of the composed system is an abstract step or a stutter. *)
LEMMA StepRefines == Inv /\ Inv' /\ [Next]_vars => Promise!Next
<1> SUFFICES ASSUME Inv, Inv', [Next]_vars PROVE Promise!Next
  OBVIOUS
<1>1. ASSUME UNCHANGED <<postVars, issued>>,
             \A h \in Hashes : token'[h] \in {token[h], NoToken}
      PROVE  Promise!Next
  <2>1. \A h \in Hashes : Open(h)' => Open(h)
    BY <1>1 DEF Open, NoToken
  <2>2. \A r \in Requests, h \in Hashes : Won(r, h)' <=> Won(r, h)
    BY <1>1 DEF Won, postVars
  <2> QED  BY <1>1, <2>1, <2>2, WithdrawRefines DEF postVars
<1>2. CASE DownloadStep /\ UNCHANGED <<activationVars, scanVars>>
  <2>1. ASSUME NEW r \in Requests, PostStep(r)
        PROVE  Promise!Next
    BY <1>2, <2>1, PostRefines DEF activationVars
  <2>2. ASSUME NEW v \in Views, ViewStep(v)
        PROVE  Promise!Next
    <3>1. UNCHANGED <<storeVars, postVars, issued>>
      BY <1>2, <2>2 DEF ViewStep, ViewCheckDestroyed, ViewToken, activationVars
    <3> QED  BY <1>1, <3>1 DEF storeVars, pendingVars
  <2> QED  BY <1>2, <2>1, <2>2 DEF DownloadStep
<1>3. CASE ActivationStep /\ UNCHANGED <<downloadVars, scanVars>>
  <2>1. ASSUME NEW c \in Confirms, StoreToken(c)
        PROVE  Promise!Next
    BY <1>3, <2>1, StoreTokenRefines
  <2>2. CASE \A c \in Confirms : ~ StoreToken(c)
    BY <1>1, <1>3, <2>2, ActivationRemoves DEF downloadVars, Inv
  <2> QED  BY <2>1, <2>2
<1>4. CASE OrphanScanStep /\ UNCHANGED <<downloadVars, activationVars>>
  BY <1>1, <1>4, ScanRemoves DEF downloadVars, activationVars
<1>5. CASE Tick /\ UNCHANGED <<downloadVars, activationVars, scanVars>>
  BY <1>1, <1>5, TickRemoves DEF downloadVars, activationVars, Inv
<1>6. CASE UNCHANGED vars
  BY <1>1, <1>6 DEF vars, storeVars, pendingVars, downloadVars, activationVars
<1> QED  BY <1>2, <1>3, <1>4, <1>5, <1>6 DEF Next

(* The backend keeps the promise of a one-time share: whatever interleaves *)
(* or fails, a share is issued once, claimed by at most one request, served *)
(* to that request only and at most once, and never reopened.              *)
THEOREM PromiseKept == Spec => KeepsPromise
<1>1. Inv /\ Inv' /\ [Next]_vars => [Promise!Next]_(Promise!vars)
  BY StepRefines
<1> QED  BY <1>1, InitRefines, Invariance, PTL DEF Spec, KeepsPromise, Promise!Spec

===============================================================================
