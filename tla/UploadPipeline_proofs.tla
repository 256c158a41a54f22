------------------------ MODULE UploadPipeline_proofs ------------------------
(***************************************************************************)
(* Proofs about UploadPipeline, for any number of uploads, calls and       *)
(* sweeping instances and for every fault.  The sweeps are safe because    *)
(* whatever a sweeper holds was overdue when it was listed: confirmation   *)
(* before that leaves nothing to list, and the clock only moves forward.   *)
(***************************************************************************)
EXTENDS UploadPipeline, TLAPS

(* A call that has begun has an upload whose URL was handed out. *)
CallKnown ==
  \A c \in Calls : callPc[c] # "start" =>
    callUpload[c] \in Uploads /\ reqPc[callUpload[c]] \in {"ok", "put"}

(* Content for which a token is stored, or about to be, has passed a scan, *)
(* or was put in the place of content that had.                            *)
CleanInv == \A u \in infected : Passed(u) => u \in replaced

(* Scores are those RequestUpload computed; a confirmed upload has none. *)
PendingInv ==
  \A u \in Uploads :
    /\ pending[u] # NoTime => pending[u] = DueAt(u) /\ reqPc[u] # "start"
    /\ unpendedAt[u] # NoTime => pending[u] = NoTime /\ reqPc[u] \in {"ok", "put"}

Holds(w, u) ==
  u \in sweepDue[w] \/ (sweepPc[w] \in {"delete", "session", "zrem"} /\ sweepUpload[w] = u)

Overdue(u) ==
  /\ reqPc[u] # "start"
  /\ DueAt(u) <= now + ClockSkew
  /\ unpendedAt[u] = NoTime \/ unpendedAt[u] + ClockSkew >= DueAt(u)

SweepKnown ==
  \A w \in Sweepers : sweepPc[w] \in {"delete", "session", "zrem"} => sweepUpload[w] \in Uploads

SweepInv == \A w \in Sweepers, u \in Uploads : Holds(w, u) => Overdue(u)

(* A sweep's clock is not ahead of the furthest. *)
SweepClock == \A w \in Sweepers : sweepNow[w] <= now + ClockSkew

Inv ==
  TypeOK /\ CallKnown /\ CleanInv /\ PendingInv /\ SweepKnown /\ SweepClock /\ SweepInv

-------------------------------------------------------------------------------
(* The invariant holds initially. *)
LEMMA InitInv == Init => Inv
BY UploadPipelineAssumption
   DEF Init, Inv, TypeOK, CallKnown, CleanInv, PendingInv, SweepKnown, SweepClock, SweepInv,
       Holds, NoTime

-------------------------------------------------------------------------------
(* RequestUpload moves an upload from "start" to "ok" and gives it a due   *)
(* time before anything can be done to it.                                 *)
LEMMA RequestKeeps ==
  ASSUME Inv, NEW u \in Uploads, RequestStep(u)
  PROVE  Inv'
<1> USE UploadPipelineAssumption DEF NoTime
<1>1. TypeOK'
  BY DEF Inv, TypeOK, RequestStep, CheckLimit, StoreSession, IndexPending, UndoSession, Put,
         CrashRequest, ReqGoto, DelSession, InstanceClock, redisVars, fileVars, callVars,
         sweepVars
<1>2. UNCHANGED <<now, callVars, sweepVars, shared>>
  BY DEF RequestStep, CheckLimit, StoreSession, IndexPending, UndoSession, Put, CrashRequest,
         redisVars
<1>3. \A v \in Uploads : reqPc[v] # "start" =>
        /\ requestedAt'[v] = requestedAt[v]
        /\ reqPc'[v] # "start"
        /\ reqPc[v] \in {"ok", "put"} => reqPc'[v] \in {"ok", "put"} /\ pending'[v] = pending[v]
  BY DEF Inv, TypeOK, RequestStep, CheckLimit, StoreSession, IndexPending, UndoSession, Put,
         CrashRequest, ReqGoto, redisVars
<1>4. \A v \in Uploads : pending'[v] # NoTime =>
        pending'[v] = pending[v] \/ (pending'[v] = DueAt(v) /\ reqPc[v] = "index")
  BY DEF Inv, TypeOK, RequestStep, CheckLimit, StoreSession, IndexPending, UndoSession, Put,
         CrashRequest, redisVars, DueAt
<1>5. CallKnown'
  BY <1>2, <1>3 DEF Inv, TypeOK, CallKnown, callVars
<1>6. CleanInv'
  <2>1. \A v : Passed(v)' <=> Passed(v)
    BY <1>2 DEF Passed, callVars
  <2>2. CASE Put(u)
    BY <2>1, <2>2 DEF Inv, CleanInv, Put
  <2>3. CASE ~ Put(u)
    BY <2>1, <2>3 DEF Inv, CleanInv, RequestStep, CheckLimit, StoreSession, IndexPending,
       UndoSession, CrashRequest, fileVars
  <2> QED  BY <2>2, <2>3
<1>7. PendingInv'
  BY <1>2, <1>3, <1>4 DEF Inv, TypeOK, PendingInv, DueAt, callVars
<1>8. SweepKnown' /\ SweepClock' /\ SweepInv'
  BY <1>2, <1>3 DEF Inv, TypeOK, SweepKnown, SweepClock, SweepInv, Holds, Overdue, DueAt, callVars,
                    sweepVars
<1> QED  BY <1>1, <1>5, <1>6, <1>7, <1>8 DEF Inv

-------------------------------------------------------------------------------
(* A call of ConfirmUpload takes its upload off the pending set at most;   *)
(* what a sweeper holds by then is overdue already.                        *)
LEMMA CallKeeps ==
  ASSUME Inv, NEW c \in Calls, CallStep(c)
  PROVE  Inv'
<1> USE UploadPipelineAssumption DEF NoTime
<1>1. TypeOK'
  BY DEF Inv, TypeOK, CallKnown, CallStep, FindSession, RefreshSession, HeadObject, ScanObject,
         ScanVerdict, RejectObject, RejectSession, RejectPending, StoreShare, AbortCall, Unpend,
         DropSession, CrashCall, CallGoto, DelSession, DelObject, RemPending, redisVars, reqVars,
         fileVars, sweepVars
<1>2. UNCHANGED <<now, reqVars, sweepVars>>
  BY DEF CallStep, FindSession, RefreshSession, HeadObject, ScanObject, RejectObject,
         RejectSession, RejectPending, StoreShare, AbortCall, Unpend, DropSession, CrashCall,
         redisVars
<1>3. CallKnown'
  <2>1. \A d \in Calls : callPc'[d] # "start" =>
          \/ callPc[d] # "start" /\ callUpload'[d] = callUpload[d]
          \/ callUpload'[d] \in Uploads /\ reqPc[callUpload'[d]] \in {"ok", "put"}
    BY DEF Inv, TypeOK, CallStep, FindSession, RefreshSession, HeadObject, ScanObject,
           RejectObject, RejectSession, RejectPending, StoreShare, AbortCall, Unpend,
           DropSession, CrashCall, CallGoto
  <2> QED  BY <1>2, <2>1 DEF Inv, CallKnown, reqVars
<1>4. CleanInv'
  <2>1. \A d \in Calls : callPc'[d] = "store" =>
          callUpload'[d] = callUpload[d] /\ (callPc[d] = "store" \/ callUpload[d] \notin infected)
    BY DEF Inv, TypeOK, CallStep, FindSession, RefreshSession, HeadObject, ScanObject,
           ScanVerdict, RejectObject, RejectSession, RejectPending, StoreShare, AbortCall, Unpend,
           DropSession, CrashCall, CallGoto
  <2>2. shared' = shared \/ (callPc[c] = "store" /\ shared' = shared \union {callUpload[c]})
    BY DEF CallStep, FindSession, RefreshSession, HeadObject, ScanObject, RejectObject,
           RejectSession, RejectPending, StoreShare, AbortCall, Unpend, DropSession, CrashCall,
           redisVars
  <2> QED  BY <1>2, <2>1, <2>2 DEF Inv, CleanInv, Passed, reqVars, fileVars
<1>5. /\ \A u \in Uploads : pending'[u] = pending[u] \/ pending'[u] = NoTime
      /\ \A u \in Uploads : unpendedAt'[u] = unpendedAt[u] \/
           (unpendedAt'[u] = now /\ pending'[u] = NoTime /\ reqPc[u] \in {"ok", "put"})
  BY DEF Inv, TypeOK, CallKnown, CallStep, FindSession, RefreshSession, HeadObject, ScanObject,
         RejectObject, RejectSession, RejectPending, StoreShare, AbortCall, Unpend, DropSession,
         CrashCall, RemPending, redisVars
<1>6. PendingInv'
  BY <1>2, <1>5 DEF Inv, PendingInv, DueAt, reqVars
<1>7. SweepKnown' /\ SweepClock' /\ SweepInv'
  BY <1>2, <1>5 DEF Inv, TypeOK, SweepKnown, SweepClock, SweepInv, Holds, Overdue, DueAt, reqVars,
                    sweepVars
<1> QED  BY <1>1, <1>3, <1>4, <1>6, <1>7 DEF Inv

-------------------------------------------------------------------------------
(* A sweeper lists only what is overdue by its clock. *)
LEMMA SweepKeeps ==
  ASSUME Inv, NEW w \in Sweepers, SweepStep(w)
  PROVE  Inv'
<1> USE UploadPipelineAssumption DEF NoTime
<1>1. TypeOK'
  BY DEF Inv, TypeOK, SweepStep, StartSweep, ListExpired, ReadSession, SweepObject, SweepSession,
         SweepPending, EndSweep, SweepGoto, SweepKnown, DelSession, DelObject, RemPending,
         InstanceClock, redisVars, reqVars, fileVars, callVars
<1>2. UNCHANGED <<now, shared, reqVars, callVars>>
  BY DEF SweepStep, StartSweep, ListExpired, ReadSession, SweepObject, SweepSession, SweepPending, EndSweep,
         redisVars
<1>3. CallKnown' /\ CleanInv'
  BY <1>2 DEF Inv, CallKnown, CleanInv, Passed, reqVars, fileVars, callVars
<1>4. PendingInv'
  <2>1. \A u \in Uploads : pending'[u] = pending[u] \/ pending'[u] = NoTime
    BY DEF Inv, TypeOK, SweepKnown, SweepStep, StartSweep, ListExpired, ReadSession, SweepObject,
           SweepSession, SweepPending, EndSweep, RemPending, redisVars
  <2> QED  BY <1>2, <2>1 DEF Inv, PendingInv, DueAt, reqVars, callVars
<1>5. SweepKnown' /\ SweepClock'
  <2>1. SweepKnown'
    BY DEF Inv, TypeOK, SweepKnown, SweepStep, StartSweep, ListExpired, ReadSession, SweepObject,
           SweepSession, SweepPending, EndSweep, SweepGoto
  <2>2. \A v \in Sweepers : sweepNow'[v] = sweepNow[v] \/ sweepNow'[v] <= now + ClockSkew
    BY DEF Inv, TypeOK, SweepStep, StartSweep, ListExpired, ReadSession, SweepObject,
           SweepSession, SweepPending, EndSweep, InstanceClock
  <2> QED  BY <1>2, <2>1, <2>2 DEF Inv, SweepClock
<1>6. \A v \in Sweepers, u \in Uploads : Holds(v, u)' =>
        \/ Holds(v, u)
        \/ pending[u] # NoTime /\ pending[u] <= now + ClockSkew
  <2>1. CASE ListExpired(w)
    BY <2>1 DEF Inv, TypeOK, SweepClock, ListExpired, SweepGoto, Holds
  <2>2. CASE ReadSession(w)
    BY <2>2 DEF Inv, TypeOK, ReadSession, SweepGoto, Holds
  <2>3. CASE StartSweep(w) \/ SweepObject(w) \/ SweepSession(w) \/ SweepPending(w) \/ EndSweep(w)
    BY <2>3 DEF Inv, TypeOK, StartSweep, SweepObject, SweepSession, SweepPending, EndSweep, SweepGoto, Holds
  <2> QED  BY <2>1, <2>2, <2>3 DEF SweepStep
<1>7. SweepInv'
  <2>1. \A u \in Uploads : pending[u] # NoTime /\ pending[u] <= now + ClockSkew => Overdue(u)
    BY DEF Inv, PendingInv, Overdue
  <2> QED  BY <1>2, <1>6, <2>1 DEF Inv, SweepInv, Overdue, DueAt, reqVars, callVars
<1> QED  BY <1>1, <1>3, <1>4, <1>5, <1>7 DEF Inv

-------------------------------------------------------------------------------
(* The stale-entry cleaner and the passing of time only take scores and    *)
(* sessions away, and what is overdue stays so.                            *)
LEMMA OthersKeep ==
  ASSUME Inv, CleanStale \/ Tick \/ UNCHANGED vars
  PROVE  Inv'
<1> USE UploadPipelineAssumption DEF NoTime
<1>1. TypeOK'
  BY DEF Inv, TypeOK, CleanStale, Tick, vars, InstanceClock, redisVars, reqVars, fileVars,
         callVars, sweepVars
<1>2. UNCHANGED <<shared, reqVars, callVars, sweepVars>> /\ now <= now'
  BY DEF Inv, TypeOK, CleanStale, Tick, vars, redisVars
<1>3. \A u \in Uploads : pending'[u] = pending[u] \/ pending'[u] = NoTime
  BY DEF Inv, TypeOK, CleanStale, Tick, vars, redisVars
<1>4. CallKnown' /\ CleanInv' /\ SweepKnown'
  BY <1>2 DEF Inv, CallKnown, CleanInv, Passed, SweepKnown, reqVars, fileVars, callVars,
              sweepVars
<1>5. PendingInv'
  BY <1>2, <1>3 DEF Inv, PendingInv, DueAt, reqVars, callVars
<1>6. SweepClock' /\ SweepInv'
  BY <1>1, <1>2 DEF Inv, TypeOK, SweepClock, SweepInv, Holds, Overdue, DueAt, reqVars, callVars,
                    sweepVars
<1> QED  BY <1>1, <1>4, <1>5, <1>6 DEF Inv

(* Every step keeps the invariant. *)
LEMMA NextInv == Inv /\ [Next]_vars => Inv'
BY RequestKeeps, CallKeeps, SweepKeeps, OthersKeep DEF Next

-------------------------------------------------------------------------------
(* An object disappears in three ways only. *)
LEMMA Disappearing ==
  ASSUME Inv, [Next]_vars, NEW u \in objects, u \notin objects'
  PROVE  Rejecting(u) \/ \E w \in Sweepers : Holds(w, u)
<1>1. \/ \E c \in Calls : RejectObject(c) \/ AbortCall(c)
      \/ \E w \in Sweepers : SweepObject(w)
  BY DEF Next, RequestStep, CheckLimit, StoreSession, IndexPending, UndoSession, Put,
         CrashRequest, CallStep, FindSession, RefreshSession, HeadObject, ScanObject,
         RejectSession, RejectPending, StoreShare, Unpend, DropSession, CrashCall, SweepStep,
         StartSweep, ListExpired, ReadSession, SweepSession, SweepPending, EndSweep, CleanStale, Tick, vars,
         redisVars
<1>2. ASSUME NEW c \in Calls, RejectObject(c) \/ AbortCall(c)
      PROVE  Rejecting(u)
  BY <1>2 DEF RejectObject, AbortCall, DelObject, Rejecting
<1>3. ASSUME NEW w \in Sweepers, SweepObject(w)
      PROVE  Holds(w, u)
  BY <1>3 DEF SweepObject, DelObject, Holds
<1> QED  BY <1>1, <1>2, <1>3

(* What disappears without ConfirmUpload's doing is overdue. *)
LEMMA SweptOverdue ==
  ASSUME Inv, [Next]_vars, NEW u \in objects, u \notin objects', ~ Rejecting(u)
  PROVE  Overdue(u)
BY Disappearing DEF Inv, TypeOK, SweepInv

(* The variables keep their types, for any number of uploads, calls and    *)
(* sweepers and for every fault.                                           *)
THEOREM UploadTypes == Spec => []TypeOK
<1>1. Inv => TypeOK
  BY DEF Inv
<1> QED  BY <1>1, InitInv, NextInv, PTL DEF Spec

(* However calls overlap and whatever fails, infected content is shared    *)
(* only when it was put in the place of content that had passed the scan.  *)
THEOREM SharesScanned == Spec => []SharedPassedScan
<1>1. Inv => SharedPassedScan
  BY DEF Inv, CleanInv, Passed, SharedPassedScan
<1> QED  BY <1>1, InitInv, NextInv, PTL DEF Spec

(* Unless its confirmation gives it up, an object is deleted only after    *)
(* its upload has been pending for PendingTTL.                             *)
THEOREM SweepsWait == Spec => SweptOnlyWhenDue
<1>1. Inv /\ [Next]_vars =>
        [\A u \in objects \ objects' : Rejecting(u) \/ DueAt(u) <= now + ClockSkew]_vars
  BY SweptOverdue DEF Overdue
<1> QED  BY <1>1, InitInv, NextInv, PTL DEF Spec, SweptOnlyWhenDue

(* No sweep deletes the object of an upload that was confirmed in time,    *)
(* however late it runs and whatever became of the session.                *)
THEOREM ConfirmedStays == Spec => ConfirmedInTimeKept
<1>1. Inv /\ [Next]_vars =>
        [\A u \in objects \ objects' :
           \/ Rejecting(u)
           \/ unpendedAt[u] = NoTime
           \/ unpendedAt[u] + ClockSkew >= DueAt(u)]_vars
  BY SweptOverdue DEF Overdue
<1> QED  BY <1>1, InitInv, NextInv, PTL DEF Spec, ConfirmedInTimeKept

===============================================================================
