------------------------- MODULE RequestLimits_proofs -------------------------
(***************************************************************************)
(* Proofs about RequestLimits for any number of requests, any limits and   *)
(* TTLs, and any number of failed or re-sent calls and crashes.  Each      *)
(* bound holds because what a limit has let in, together with the requests *)
(* between its look-up and its increment, cannot exceed it once the        *)
(* counter is full: no request joins them, and each that leaves counts.    *)
(***************************************************************************)
EXTENDS RequestLimits, FiniteSetTheorems, TLAPS

GateSteps ==
  [rate |-> {"incr", "expire"},
   enum |-> {"get", "enum", "block"},
   lockout |-> {"check", "compare"},
   admission |-> {"pressure", "quota", "count", "store", "add", "refresh", "verify", "reject",
                  "rejectPending", "unpend", "tally", "drop"}]

(* A request only makes calls of the gate it is at. *)
AtTheGate == \A r \in Requests : pc[r] = "idle" \/ pc[r] \in GateSteps[gate]

(* From ZCARD to ZADD, and in the calls on upload:{id} and uploads_pending *)
(* of a confirmation, a request has an upload.                             *)
HasUpload ==
  \A r \in Requests :
    pc[r] \in {"store", "add", "refresh", "reject", "rejectPending", "unpend", "drop"} =>
      upload[r] \in Uploads

Types == TypeOK /\ AtTheGate /\ HasUpload

-------------------------------------------------------------------------------
LEMMA InitTypes == Init => Types
BY LimitsAssumption DEF Init, Types, TypeOK, AtTheGate, HasUpload, AdmissionInit, AdmissionTypeOK, Gates,
   Steps, Ages

(* Cardinalities are natural numbers, of the requests at a call too. *)
LEMMA AtFinite ==
  ASSUME NEW S \in SUBSET Requests
  PROVE  /\ IsFiniteSet(S)
         /\ Cardinality(S) \in Nat
         /\ Cardinality(S) <= Concurrency
         /\ Concurrency \in Nat
BY RequestsAssumption, FS_Subset, FS_CardinalityType DEF Concurrency

-------------------------------------------------------------------------------
(***************************************************************************)
(* Type correctness                                                        *)
(***************************************************************************)
LEMMA LimitTypes ==
  ASSUME Types, NEW r \in Requests, LimitStep(r), gate' = gate
  PROVE  Types'
<1> USE LimitsAssumption DEF Types, TypeOK, HasUpload, Goto, Leave, Slip, admissionVars, quotaVars,
        limitVars, keyVars, AdmissionTypeOK, Blocked
<1>1. CASE IncrRate(r)
  <2>1. value' \in Nat
    BY <1>1 DEF IncrRate, Capped
  <2>2. 0 \in Ages
    BY DEF Ages
  <2>3. recent' \in [Ages -> Nat]
    BY <1>1, <2>2 DEF IncrRate, Decide
  <2> QED BY <1>1, <2>1, <2>3 DEF IncrRate, Decide, AtTheGate, GateSteps, Gates, Steps
<1>2. CASE IncrRateFails(r)
  BY <1>2 DEF IncrRateFails, Capped, AtTheGate, GateSteps, Gates, Steps
<1>3. CASE ExpireRate(r)
  <2>1. recent' \in [Ages -> Nat]
    <3>1. 0 \in Ages
      BY DEF Ages
    <3> QED BY <1>3, <3>1 DEF ExpireRate, Decide
  <2> QED BY <1>3, <2>1 DEF ExpireRate, AtTheGate, GateSteps, Gates, Steps
<1>4. CASE ReadBlock(r)
  BY <1>4 DEF ReadBlock, AtTheGate, GateSteps, Gates, Steps
<1>5. CASE CountEnum(r)
  BY <1>5 DEF CountEnum, AtTheGate, GateSteps, Gates, Steps
<1>6. CASE CountEnumFails(r)
  BY <1>6 DEF CountEnumFails, AtTheGate, GateSteps, Gates, Steps
<1>7. CASE SetBlocked(r)
  BY <1>7 DEF SetBlocked, AtTheGate, GateSteps, Gates, Steps
<1>8. CASE CheckLockout(r)
  BY <1>8 DEF CheckLockout, AtTheGate, GateSteps, Gates, Steps
<1>9. CASE WrongPassword(r)
  BY <1>9 DEF WrongPassword, AtTheGate, GateSteps, Gates, Steps
<1>10. CASE RightPassword(r)
  BY <1>10 DEF RightPassword, AtTheGate, GateSteps, Gates, Steps
<1>11. CASE NoVerdict(r)
  BY <1>11 DEF NoVerdict, AtTheGate, GateSteps, Gates, Steps
<1> QED
  BY <1>1, <1>2, <1>3, <1>4, <1>5, <1>6, <1>7, <1>8, <1>9, <1>10, <1>11 DEF LimitStep

LEMMA AdmissionTypes ==
  ASSUME Types, NEW r \in Requests, AdmissionStep(r), UNCHANGED <<gate, limitVars>>
  PROVE  Types'
<1> USE DEF Types, TypeOK, HasUpload, Goto, Leave, Drop, Slip, admissionVars, quotaVars, limitVars,
        AdmissionTypeOK
<1>1. CASE Backpressure(r)
  BY <1>1 DEF Backpressure, AtTheGate, GateSteps, Gates, Steps
<1>2. CASE ReadQuota(r)
  BY <1>2 DEF ReadQuota, AtTheGate, GateSteps, Gates, Steps
<1>3. CASE CountPending(r)
  BY <1>3 DEF CountPending, FreshUploads, AtTheGate, GateSteps, Gates, Steps
<1>4. CASE StoreUpload(r)
  BY <1>4 DEF StoreUpload, AtTheGate, GateSteps, Gates, Steps
<1>5. CASE AddPending(r)
  BY <1>5 DEF AddPending, AtTheGate, GateSteps, Gates, Steps
<1>6. CASE Tally(r)
  BY <1>6, AdmissionAssumption DEF Tally, Counted, AtTheGate, GateSteps, Gates, Steps
<1>7. CASE Unpend(r)
  BY <1>7 DEF Unpend, AtTheGate, GateSteps, Gates, Steps
<1>8. CASE DropSession(r)
  BY <1>8 DEF DropSession, AtTheGate, GateSteps, Gates, Steps
<1>9. CASE RefreshSession(r)
  BY <1>9 DEF RefreshSession, AtTheGate, GateSteps, Gates, Steps
<1>10. CASE Verify(r)
  BY <1>10 DEF Verify, AtTheGate, GateSteps, Gates, Steps
<1>11. CASE RejectSession(r) \/ RejectPending(r)
  BY <1>11 DEF RejectSession, RejectPending, AtTheGate, GateSteps, Gates, Steps
<1> QED
  BY <1>1, <1>2, <1>3, <1>4, <1>5, <1>6, <1>7, <1>8, <1>9, <1>10, <1>11 DEF AdmissionStep

LEMMA NextTypes == Types /\ [Next]_vars => Types'
<1> SUFFICES ASSUME Types, [Next]_vars PROVE Types'
  OBVIOUS
<1> USE DEF Types, TypeOK, HasUpload, AdmissionTypeOK, Goto, Leave, Slip, admissionVars, quotaVars,
        limitVars
<1>1. CASE UNCHANGED vars
  BY <1>1 DEF vars, AtTheGate
<1>2. ASSUME NEW r \in Requests, Arrive(r), gate' = gate PROVE Types'
  BY <1>2 DEF Arrive, FirstCall, AtTheGate, GateSteps, Gates, Steps
<1>3. ASSUME NEW r \in Requests, RequestStep(r), gate' = gate PROVE Types'
  BY <1>3, LimitTypes, AdmissionTypes DEF RequestStep
<1>4. ASSUME NEW r \in Requests, Confirm(r), UNCHANGED <<gate, limitVars>> PROVE Types'
  BY <1>4 DEF Confirm, AtTheGate, GateSteps, Gates, Steps
<1>5. ASSUME NEW r \in Requests, Crash(r), gate' = gate PROVE Types'
  BY <1>5 DEF Crash, Drop, AtTheGate, GateSteps, Gates, Steps
<1>6. CASE UploadEvent /\ gate' = gate
  BY <1>6 DEF UploadEvent, LapseSession, Sweep, Midnight, AtTheGate
<1>7. CASE Tick /\ gate' = gate
  <2>1. recent' \in [Ages -> Nat]
    <3>1. \A a \in Ages : a # 0 => a - 1 \in Ages
      BY LimitsAssumption DEF Ages
    <3> QED BY <1>7, <3>1 DEF Tick
  <2>2. value' \in Nat \union {Blocked} /\ ttl' \in Nat /\ since' \in Nat
    BY <1>7 DEF Tick
  <2> QED BY <1>7, <2>1, <2>2 DEF Tick, AtTheGate
<1> QED
  BY <1>1, <1>2, <1>3, <1>4, <1>5, <1>6, <1>7 DEF Next

(* RequestLimits: the counters, the requests and the uploads are of their  *)
(* types in every reachable state.                                         *)
THEOREM LimitsTypeCorrect == Spec => []TypeOK
<1>1. Types => TypeOK
  BY DEF Types
<1> QED BY InitTypes, NextTypes, <1>1, PTL DEF Spec

-------------------------------------------------------------------------------
(***************************************************************************)
(* How the requests at one call change                                     *)
(***************************************************************************)
(* How many requests are at each of the calls that a bound is about. *)
Comparing == Cardinality(At("compare"))
Counting == Cardinality(At("enum"))

LEMMA OneLess ==
  ASSUME NEW S \in SUBSET Requests, NEW r
  PROVE  /\ Cardinality(S \ {r}) \in Nat
         /\ Cardinality(S \ {r}) <= Cardinality(S)
         /\ r \in S => Cardinality(S \ {r}) = Cardinality(S) - 1
<1>1. IsFiniteSet(S) /\ Cardinality(S) \in Nat
  BY AtFinite
<1>2. /\ IsFiniteSet(S \ {r})
      /\ Cardinality(S \ {r}) = IF r \in S THEN Cardinality(S) - 1 ELSE Cardinality(S)
  BY <1>1, FS_RemoveElement
<1>3. Cardinality(S \ {r}) \in Nat
  BY <1>2, FS_CardinalityType
<1> QED BY <1>1, <1>2, <1>3

LEMMA AtMoves ==
  ASSUME Types, NEW r \in Requests, NEW t, NEW s, Goto(r, t)
  PROVE  /\ t # s => At(s)' = At(s) \ {r}
         /\ pc[r] # s => r \notin At(s)
         /\ pc[r] = s => r \in At(s)
         /\ At(s) \in SUBSET Requests /\ At(s)' \in SUBSET Requests
BY DEF Types, TypeOK, Goto, At

(* Who leaves makes one less, and there are never more than the requests. *)
LEMMA ComparingMoves ==
  ASSUME Types, NEW r \in Requests, NEW t, Goto(r, t)
  PROVE  /\ Comparing \in Nat /\ Comparing' \in Nat
         /\ Comparing' <= Concurrency
         /\ t # "compare" => Comparing' <= Comparing
         /\ t # "compare" /\ pc[r] = "compare" => Comparing' = Comparing - 1
BY AtMoves, AtFinite, OneLess DEF Comparing

LEMMA CountingMoves ==
  ASSUME Types, NEW r \in Requests, NEW t, Goto(r, t)
  PROVE  /\ Counting \in Nat /\ Counting' \in Nat
         /\ Counting' <= Concurrency
         /\ t # "enum" => Counting' <= Counting
         /\ t # "enum" /\ pc[r] = "enum" => Counting' = Counting - 1
BY AtMoves, AtFinite, OneLess DEF Counting

(* In a step of the gate, it is one of that gate's calls. *)
LEMMA StepsOfGate ==
  ASSUME Types, NEW r \in Requests, RequestStep(r)
  PROVE  /\ gate = "rate" => IncrRate(r) \/ IncrRateFails(r) \/ ExpireRate(r)
         /\ gate = "enum" => \/ ReadBlock(r) \/ CountEnum(r)
                             \/ CountEnumFails(r) \/ SetBlocked(r)
         /\ gate = "lockout" => \/ CheckLockout(r) \/ WrongPassword(r)
                                \/ RightPassword(r) \/ NoVerdict(r)
         /\ gate = "admission" => AdmissionStep(r) /\ UNCHANGED limitVars
<1>1. pc[r] = "idle" \/ pc[r] \in GateSteps[gate]
  BY DEF Types, AtTheGate
<1>2. gate \in Gates
  BY DEF Types, TypeOK
<1>3. CASE LimitStep(r)
  <2>1. pc[r] \in {"incr", "expire", "get", "enum", "block", "check", "compare"}
    BY <1>3 DEF LimitStep, IncrRate, IncrRateFails, ExpireRate, ReadBlock, CountEnum,
       CountEnumFails, SetBlocked, CheckLockout, WrongPassword, RightPassword, NoVerdict
  <2>2. gate # "admission"
    BY <1>1, <2>1 DEF GateSteps
  <2>3. CASE gate = "rate"
    BY <1>1, <1>3, <2>3 DEF GateSteps, LimitStep, ReadBlock, CountEnum,
       CountEnumFails, SetBlocked, CheckLockout, WrongPassword, RightPassword, NoVerdict
  <2>4. CASE gate = "enum"
    BY <1>1, <1>3, <2>4 DEF GateSteps, LimitStep, IncrRate, IncrRateFails, ExpireRate,
       CheckLockout, WrongPassword, RightPassword, NoVerdict
  <2>5. CASE gate = "lockout"
    BY <1>1, <1>3, <2>5 DEF GateSteps, LimitStep, IncrRate, IncrRateFails, ExpireRate,
       ReadBlock, CountEnum, CountEnumFails, SetBlocked
  <2> QED BY <1>2, <2>2, <2>3, <2>4, <2>5 DEF Gates
<1>4. CASE AdmissionStep(r) /\ UNCHANGED limitVars
  <2>1. pc[r] \in GateSteps.admission
    BY <1>4 DEF AdmissionStep, Backpressure, ReadQuota, CountPending, StoreUpload, AddPending,
       RefreshSession, Verify, RejectSession, RejectPending, Tally, Unpend, DropSession, GateSteps
  <2>2. gate = "admission"
    BY <1>1, <1>2, <2>1 DEF GateSteps, Gates
  <2> QED BY <1>4, <2>2
<1> QED BY <1>3, <1>4 DEF RequestStep

-------------------------------------------------------------------------------
(***************************************************************************)
(* The lockout                                                             *)
(***************************************************************************)
(* What has been refused was counted, unless a call failed; and no request *)
(* starts to compare once the counter is full.                             *)
LockInv ==
  gate = "lockout" =>
    /\ value \in Nat
    /\ since <= value + slips
    /\ since + Comparing <= MaxFailed - 1 + Concurrency + slips

LEMMA LockStep ==
  ASSUME Types, LockInv, gate = "lockout", NEW r \in Requests, gate' = gate,
         RequestStep(r) \/ Arrive(r) \/ Crash(r)
  PROVE  LockInv'
<1>1. /\ slips \in Nat /\ value \in Nat /\ since \in Nat /\ MaxFailed \in Nat \ {0}
      /\ Concurrency \in Nat /\ Concurrency' = Concurrency
      /\ since <= value + slips
      /\ since + Comparing <= MaxFailed - 1 + Concurrency + slips
  BY LimitsAssumption, AtFinite DEF Types, TypeOK, LockInv, Concurrency
<1> USE <1>1 DEF LockInv
<1>2. CASE Arrive(r)
  BY <1>2, ComparingMoves DEF Arrive, FirstCall, limitVars
<1>3. CASE Crash(r)
  BY <1>3, ComparingMoves DEF Crash, Drop, Leave, Slip, limitVars
<1>4. CASE CheckLockout(r)
  <2>1. UNCHANGED <<value, since>>
    BY <1>4 DEF CheckLockout, limitVars
  <2>2. CASE value < MaxFailed /\ Goto(r, "compare") /\ UNCHANGED slips
    BY <2>1, <2>2, ComparingMoves
  <2>3. CASE Leave(r) /\ (slips' = slips \/ slips' = slips + 1)
    <3>1. Comparing' <= Comparing /\ Comparing' \in Nat /\ Comparing \in Nat
      BY <2>3, ComparingMoves DEF Leave
    <3> QED BY <2>1, <2>3, <3>1
  <2> QED BY <1>4, <2>2, <2>3 DEF CheckLockout, Slip
<1>5. CASE WrongPassword(r)
  <2>1. Comparing' = Comparing - 1 /\ Comparing \in Nat
    BY <1>5, ComparingMoves DEF WrongPassword, Leave
  <2>2. /\ since' = since + 1
        /\ \/ value' = value + 1 /\ slips' = slips
           \/ value' \in {value, value + 2} /\ slips' = slips + 1
    BY <1>5 DEF WrongPassword, Slip, keyVars
  <2> QED BY <2>1, <2>2
<1>6. CASE RightPassword(r)
  <2>1. Comparing' <= Comparing /\ Comparing' <= Concurrency /\ Comparing' \in Nat /\ Comparing \in Nat
    BY <1>6, ComparingMoves DEF RightPassword, Leave
  <2>2. \/ value' = 0 /\ since' = 0 /\ slips' = slips
        \/ UNCHANGED <<value, since>> /\ slips' = slips + 1
    BY <1>6 DEF RightPassword, Slip, keyVars
  <2> QED BY <2>1, <2>2
<1>7. CASE NoVerdict(r)
  BY <1>7, ComparingMoves DEF NoVerdict, Leave, limitVars
<1> QED
  BY <1>2, <1>3, <1>4, <1>5, <1>6, <1>7, StepsOfGate

LEMMA LockNext == Types /\ LockInv /\ [Next]_vars => LockInv'
<1> SUFFICES ASSUME Types, LockInv, [Next]_vars, gate = "lockout" PROVE LockInv'
  BY DEF LockInv, Next, vars
<1>1. CASE \E r \in Requests : gate' = gate /\ (RequestStep(r) \/ Arrive(r) \/ Crash(r))
  BY <1>1, LockStep
<1>2. CASE UNCHANGED <<gate, pc, slips, limitVars>>
  BY <1>2 DEF LockInv, limitVars, Comparing, At, Concurrency
<1>3. CASE Tick /\ gate' = gate
  <2>1. \/ UNCHANGED <<value, since>>
        \/ value' = 0 /\ since' = 0
    BY <1>3 DEF Tick
  <2>2. UNCHANGED <<slips, Comparing, Concurrency>>
    BY <1>3 DEF Tick, Comparing, At, Concurrency
  <2>3. At("compare") \in SUBSET Requests
    BY DEF At
  <2>4. Comparing \in Nat /\ Comparing <= Concurrency /\ Concurrency \in Nat
    BY <2>3, AtFinite DEF Comparing
  <2>5. slips \in Nat /\ since \in Nat /\ MaxFailed \in Nat \ {0}
    BY LimitsAssumption DEF Types, TypeOK
  <2> QED
    BY <1>3, <2>1, <2>2, <2>4, <2>5 DEF LockInv
<1>4. \A r \in Requests : ~Confirm(r)
  BY DEF Confirm
<1> QED
  BY <1>1, <1>2, <1>3, <1>4 DEF Next, UploadEvent, vars

-------------------------------------------------------------------------------
(***************************************************************************)
(* The block of an address                                                 *)
(***************************************************************************)
(* The request that blocks is past its increment, so one less than all can *)
(* be between the look-up and the increment, and nobody joins them.        *)
BlockInv ==
  (gate = "enum" /\ value = Blocked) => since + Counting <= Concurrency - 1 + slips

LEMMA BlockStep ==
  ASSUME Types, BlockInv, gate = "enum", NEW r \in Requests, gate' = gate,
         RequestStep(r) \/ Arrive(r) \/ Crash(r)
  PROVE  BlockInv'
<1>1. /\ slips \in Nat /\ since \in Nat
      /\ value \in Nat \union {Blocked}
      /\ Concurrency \in Nat /\ Concurrency' = Concurrency
      /\ Blocked \notin Nat
  BY AtFinite DEF Types, TypeOK, Concurrency, Blocked
<1> USE <1>1 DEF BlockInv
<1>2. CASE Arrive(r)
  BY <1>2, CountingMoves DEF Arrive, FirstCall, limitVars
<1>3. CASE Crash(r)
  BY <1>3, CountingMoves DEF Crash, Drop, Leave, Slip, limitVars
<1>4. CASE ReadBlock(r)
  <2>1. UNCHANGED <<value, since>>
    BY <1>4 DEF ReadBlock, limitVars
  <2>2. CASE value # Blocked
    BY <2>1, <2>2
  <2>3. CASE value = Blocked /\ Leave(r) /\ UNCHANGED slips
    BY <2>1, <2>3, CountingMoves DEF Leave
  <2>4. CASE value = Blocked /\ Goto(r, "enum") /\ slips' = slips + 1
    <3>1. At("enum")' = At("enum") \union {r} /\ At("enum") \in SUBSET Requests
      BY <2>4 DEF At, Goto, Types, TypeOK
    <3>2. Counting' \in Nat /\ Counting \in Nat /\ Counting' <= Counting + 1
      BY <3>1, AtFinite, FS_AddElement DEF Counting
    <3>3. \A n, k, m, c, t \in Nat : k <= n + 1 /\ m + n <= c - 1 + t => m + k <= c - 1 + (t + 1)
      OBVIOUS
    <3>4. since + Counting <= Concurrency - 1 + slips
      BY <2>4
    <3>5. since + Counting' <= Concurrency - 1 + (slips + 1)
      BY ONLY <1>1, <3>2, <3>3, <3>4
    <3> QED BY <2>1, <2>4, <3>5
  <2> QED BY <1>4, <2>2, <2>3, <2>4 DEF ReadBlock, Slip
<1>5. CASE CountEnum(r)
  <2>1. value' # Blocked
    BY <1>5 DEF CountEnum, Blocked
  <2> QED BY <2>1
<1>6. CASE CountEnumFails(r)
  <2>1. Counting' = Counting - 1 /\ Counting \in Nat
    BY <1>6, CountingMoves DEF CountEnumFails, Leave
  <2>2. /\ value' = value
        /\ value = Blocked => since' = since + 1
        /\ (slips' = slips \/ slips' = slips + 1)
    BY <1>6 DEF CountEnumFails, Slip
  <2> QED BY <2>1, <2>2
<1>7. CASE SetBlocked(r)
  <2>1. /\ Counting' <= Counting /\ Counting' \in Nat /\ Counting \in Nat
        /\ (slips' = slips \/ slips' = slips + 1)
    BY <1>7, CountingMoves DEF SetBlocked, Leave, Slip
  <2>2. Counting' <= Concurrency - 1
    <3>1. /\ At("enum")' \in SUBSET (Requests \ {r})
          /\ r \in Requests
      BY <1>7 DEF SetBlocked, Leave, Goto, At, Types, TypeOK
    <3>2. /\ IsFiniteSet(Requests \ {r})
          /\ Cardinality(Requests \ {r}) = Concurrency - 1
      BY RequestsAssumption, FS_RemoveElement DEF Concurrency
    <3>3. Cardinality(At("enum")') <= Cardinality(Requests \ {r})
      BY <3>1, <3>2, FS_Subset
    <3> QED BY <3>2, <3>3 DEF Counting
  <2>3. CASE value = Blocked
    <3>1. since' = since
      BY <1>7, <2>3 DEF SetBlocked
    <3> QED BY <2>1, <2>3, <3>1
  <2>4. CASE value # Blocked
    <3>1. since' = 0 \/ value' = value
      BY <1>7, <2>4 DEF SetBlocked, keyVars
    <3> QED BY <2>1, <2>2, <2>4, <3>1
  <2> QED BY <2>3, <2>4
<1> QED
  BY <1>2, <1>3, <1>4, <1>5, <1>6, <1>7, StepsOfGate

LEMMA BlockNext == Types /\ BlockInv /\ [Next]_vars => BlockInv'
<1> SUFFICES ASSUME Types, BlockInv, [Next]_vars, gate = "enum" PROVE BlockInv'
  BY DEF BlockInv, Next, vars
<1>1. CASE \E r \in Requests : gate' = gate /\ (RequestStep(r) \/ Arrive(r) \/ Crash(r))
  BY <1>1, BlockStep
<1>2. CASE UNCHANGED <<gate, pc, slips, limitVars>>
  BY <1>2 DEF BlockInv, limitVars, Counting, At, Concurrency
<1>3. CASE Tick /\ gate' = gate
  <2>1. \/ UNCHANGED <<value, since>>
        \/ value' = 0
    BY <1>3 DEF Tick
  <2>2. UNCHANGED <<slips, Counting, Concurrency>>
    BY <1>3 DEF Tick, Counting, At, Concurrency
  <2> QED
    BY <1>3, <2>1, <2>2 DEF BlockInv, Blocked
<1>4. \A r \in Requests : ~Confirm(r)
  BY DEF Confirm
<1> QED
  BY <1>1, <1>2, <1>3, <1>4 DEF Next, UploadEvent, vars

-------------------------------------------------------------------------------
(***************************************************************************)
(* The TTL of the rate limit's counter                                     *)
(***************************************************************************)
LEMMA TTLNext == Types /\ TTLSoonSet /\ [Next]_vars => TTLSoonSet'
<1> SUFFICES ASSUME Types, TTLSoonSet, [Next]_vars, gate = "rate" PROVE TTLSoonSet'
  BY DEF TTLSoonSet, Next, vars
<1> USE DEF TTLSoonSet
<1>0. slips \in Nat /\ ttl \in Nat /\ value \in Nat \union {Blocked} /\ pc \in [Requests -> Steps]
      /\ RateWindow # 0
  BY LimitsAssumption DEF Types, TypeOK
<1>1. ASSUME NEW r \in Requests, IncrRate(r), gate' = gate PROVE TTLSoonSet'
  <2>1. CASE slips' = slips + 1
    BY <1>0, <2>1
  <2>2. CASE slips' = slips /\ value' = 1
    BY <1>0, <1>1, <2>2 DEF IncrRate, At, Goto
  <2>3. CASE slips' = slips /\ value' # 1
    <3>1. value # 0 /\ ttl' = ttl
      BY <1>0, <1>1, <2>3, LimitsAssumption DEF IncrRate, Slip, Capped
    <3>2. At("expire")' = At("expire")
      BY <1>0, <1>1, <2>3 DEF IncrRate, Leave, Goto, At
    <3> QED BY <1>1, <2>3, <3>1, <3>2
  <2> QED BY <1>1, <2>1, <2>2, <2>3 DEF IncrRate, Slip
<1>2. ASSUME NEW r \in Requests, IncrRateFails(r) \/ Crash(r) PROVE TTLSoonSet'
  BY <1>0, <1>2 DEF IncrRateFails, Crash, Slip
<1>3. ASSUME NEW r \in Requests, ExpireRate(r) PROVE TTLSoonSet'
  BY <1>0, <1>3 DEF ExpireRate, Slip
<1>4. ASSUME NEW r \in Requests, Arrive(r), gate' = gate PROVE TTLSoonSet'
  BY <1>0, <1>4 DEF Arrive, limitVars, FirstCall, Goto, At
<1>5. CASE UNCHANGED <<gate, pc, slips, limitVars>>
  BY <1>5 DEF limitVars, At
<1>6. CASE Tick /\ gate' = gate
  BY <1>0, <1>6 DEF Tick, At
<1>7. \A r \in Requests : ~Confirm(r)
  BY DEF Confirm
<1> QED
  BY <1>1, <1>2, <1>3, <1>4, <1>5, <1>6, <1>7, StepsOfGate DEF Next, UploadEvent, vars

-------------------------------------------------------------------------------
(***************************************************************************)
(* The pending uploads                                                     *)
(***************************************************************************)
(* The requests past ZCARD that have not left by ZADD. *)
Entering == At("store") \union At("add")

PendingInv ==
  Cardinality(pending) + Cardinality(Entering) <= PendingLimit - 1 + Concurrency

SomePendingLimit == MaxPendingPerAdmin > 0 \/ MaxTotalPending > 0

LEMMA LimitIsLower ==
  ASSUME SomePendingLimit
  PROVE  /\ PendingLimit \in Nat
         /\ PendingLimit > 0
         /\ \A n \in Nat : ~LimitReached(n) => n <= PendingLimit - 1
<1> DEFINE limits == {MaxPendingPerAdmin, MaxTotalPending} \ {0}
<1>1. \E n \in limits : \A m \in limits : n <= m
  BY AdmissionAssumption DEF SomePendingLimit
<1>2. PendingLimit \in limits /\ \A m \in limits : PendingLimit <= m
  BY <1>1 DEF PendingLimit
<1> QED BY <1>2, AdmissionAssumption DEF LimitReached

(* Pending uploads are finitely many, whichever of them are taken away. *)
LEMMA PendingFinite ==
  ASSUME NEW S \in SUBSET Uploads, NEW T \in SUBSET S
  PROVE  Cardinality(S) \in Nat /\ Cardinality(T) \in Nat /\ Cardinality(T) <= Cardinality(S)
BY AdmissionAssumption, FS_Subset, FS_CardinalityType

LEMMA EnteringFinite ==
  ASSUME NEW S \in SUBSET Requests, NEW T \in SUBSET S
  PROVE  Cardinality(S) \in Nat /\ Cardinality(T) \in Nat /\ Cardinality(T) <= Cardinality(S)
BY AtFinite, RequestsAssumption, FS_Subset, FS_CardinalityType

(* A step that lets nobody in and adds no entry. *)
LEMMA NothingEnters ==
  ASSUME Types, SomePendingLimit, PendingInv, pending' \subseteq pending,
         Entering' \subseteq Entering
  PROVE  PendingInv'
<1>1. Entering \in SUBSET Requests /\ pending \in SUBSET Uploads
  BY DEF Entering, At, Types, TypeOK, AdmissionTypeOK
<1>2. /\ Cardinality(pending') <= Cardinality(pending)
      /\ Cardinality(pending') \in Nat /\ Cardinality(pending) \in Nat
  BY <1>1, PendingFinite
<1>3. /\ Cardinality(Entering') <= Cardinality(Entering)
      /\ Cardinality(Entering') \in Nat /\ Cardinality(Entering) \in Nat
  BY <1>1, EnteringFinite
<1>4. Concurrency \in Nat /\ PendingLimit \in Nat
  BY <1>1, AtFinite, LimitIsLower
<1> QED BY <1>2, <1>3, <1>4 DEF PendingInv, Concurrency, PendingLimit

(* A request at none of the two calls, after a step of its own. *)
LEMMA EnteringMoves ==
  ASSUME Types, NEW r \in Requests, NEW t, Goto(r, t), t \notin {"store", "add"}
  PROVE  Entering' = Entering \ {r}
BY DEF Types, TypeOK, Goto, Entering, At

LEMMA PendingStep ==
  ASSUME Types, SomePendingLimit, PendingInv, NEW r \in Requests, AdmissionStep(r)
  PROVE  PendingInv'
<1>0. /\ Entering \in SUBSET Requests /\ pending \in SUBSET Uploads
      /\ Concurrency \in Nat /\ PendingLimit \in Nat
      /\ Concurrency' = Concurrency /\ PendingLimit' = PendingLimit
  BY AtFinite, LimitIsLower DEF Entering, At, Types, TypeOK, AdmissionTypeOK, Concurrency,
     PendingLimit
<1>1. CASE Backpressure(r)
  BY <1>1, NothingEnters, EnteringMoves DEF Backpressure, Leave, admissionVars
<1>2. CASE ReadQuota(r)
  BY <1>2, NothingEnters, EnteringMoves DEF ReadQuota, Leave, admissionVars
<1>3. CASE CountPending(r)
  <2>1. CASE Leave(r)
    BY <1>3, <2>1, NothingEnters, EnteringMoves DEF CountPending, Leave
  <2>2. CASE ~LimitReached(Cardinality(pending)) /\ pending' = pending
    <3>1. Cardinality(pending) \in Nat
      BY <1>0, PendingFinite
    <3>2. Cardinality(pending) <= PendingLimit - 1
      BY <2>2, <3>1, LimitIsLower
    <3>3. Entering' \in SUBSET Requests
      BY DEF Entering, At
    <3>4. Cardinality(Entering') <= Concurrency /\ Cardinality(Entering') \in Nat
      BY <3>3, AtFinite
    <3> QED BY <1>0, <2>2, <3>1, <3>2, <3>4 DEF PendingInv
  <2> QED BY <1>3, <2>1, <2>2 DEF CountPending
<1>4. CASE StoreUpload(r)
  <2>1. Entering' \subseteq Entering
    BY <1>4 DEF StoreUpload, Drop, Leave, Goto, Entering, At, Types, TypeOK
  <2> QED BY <1>4, <2>1, NothingEnters DEF StoreUpload
<1>5. CASE AddPending(r)
  <2>1. Entering' = Entering \ {r} /\ r \in Entering
    BY <1>5, EnteringMoves DEF AddPending, Drop, Leave, Entering, At
  <2>2. /\ Cardinality(Entering') = Cardinality(Entering) - 1
        /\ Cardinality(Entering) \in Nat
    BY <1>0, <2>1, OneLess, EnteringFinite
  <2>3. /\ Cardinality(pending') <= Cardinality(pending) + 1
        /\ Cardinality(pending) \in Nat /\ Cardinality(pending') \in Nat
    <3>1. IsFiniteSet(pending)
      BY <1>0, AdmissionAssumption, FS_Subset
    <3>2. pending' = pending \/ pending' = pending \union {upload[r]}
      BY <1>5 DEF AddPending
    <3>3. /\ Cardinality(pending) \in Nat
          /\ Cardinality(pending \union {upload[r]}) \in {Cardinality(pending), Cardinality(pending) + 1}
      BY <3>1, FS_AddElement, FS_CardinalityType
    <3> QED BY <3>2, <3>3
  <2>4. \A n, k, m, j, b, c \in Nat :
          n + m <= b - 1 + c /\ k <= n + 1 /\ j = m - 1 => k + j <= b - 1 + c
    OBVIOUS
  <2>5. Cardinality(Entering') \in Nat
    BY <1>0, <2>1, EnteringFinite
  <2>6. Cardinality(pending') + Cardinality(Entering') <= PendingLimit - 1 + Concurrency
    BY ONLY PendingInv, <1>0, <2>2, <2>3, <2>4, <2>5 DEF PendingInv
  <2> QED BY <1>0, <2>6 DEF PendingInv
<1>6. CASE Tally(r)
  BY <1>6, NothingEnters, EnteringMoves DEF Tally
<1>7. CASE Unpend(r)
  BY <1>7, NothingEnters, EnteringMoves DEF Unpend
<1>8. CASE DropSession(r)
  BY <1>8, NothingEnters, EnteringMoves DEF DropSession, Drop, Leave
<1>9. CASE RefreshSession(r) \/ Verify(r) \/ RejectSession(r) \/ RejectPending(r)
  <2>1. /\ pending' \subseteq pending
        /\ \E t \in {"idle", "verify", "tally", "unpend", "reject", "rejectPending"} : Goto(r, t)
    BY <1>9 DEF RefreshSession, Verify, RejectSession, RejectPending, Drop, Leave
  <2> QED BY <2>1, NothingEnters, EnteringMoves
<1> QED
  BY <1>1, <1>2, <1>3, <1>4, <1>5, <1>6, <1>7, <1>8, <1>9 DEF AdmissionStep

LEMMA PendingNext ==
  ASSUME Types, SomePendingLimit, PendingInv, [Next]_vars
  PROVE  PendingInv'
<1>1. ASSUME NEW r \in Requests, RequestStep(r) PROVE PendingInv'
  <2>1. CASE AdmissionStep(r)
    BY <2>1, PendingStep
  <2>2. CASE LimitStep(r)
    <3>1. /\ pending' = pending
          /\ \E t \in {"expire", "idle", "enum", "block", "compare"} : Goto(r, t)
      BY <2>2 DEF LimitStep, IncrRate, IncrRateFails, ExpireRate, ReadBlock, CountEnum,
         CountEnumFails, SetBlocked, CheckLockout, WrongPassword, RightPassword, NoVerdict,
         Leave, admissionVars
    <3> QED BY <3>1, NothingEnters, EnteringMoves
  <2> QED BY <1>1, <2>1, <2>2 DEF RequestStep
<1>2. ASSUME NEW r \in Requests, Arrive(r) PROVE PendingInv'
  <2>1. FirstCall[gate] \in {"incr", "get", "check", "pressure"}
    BY DEF FirstCall, Gates, Types, TypeOK
  <2> QED BY <1>2, <2>1, NothingEnters, EnteringMoves DEF Arrive, admissionVars
<1>3. ASSUME NEW r \in Requests, Confirm(r) PROVE PendingInv'
  <2>1. Entering' \subseteq Entering
    BY <1>3 DEF Confirm, Goto, Entering, At, Types, TypeOK
  <2> QED BY <1>3, <2>1, NothingEnters DEF Confirm
<1>4. ASSUME NEW r \in Requests, Crash(r) PROVE PendingInv'
  BY <1>4, NothingEnters, EnteringMoves DEF Crash, Drop, Leave
<1>5. CASE UNCHANGED pc /\ pending' \subseteq pending
  BY <1>5, NothingEnters DEF Entering, At
<1>6. CASE UploadEvent
  BY <1>5, <1>6 DEF UploadEvent, LapseSession, Sweep, Midnight
<1>7. CASE Tick
  BY <1>5, <1>7 DEF Tick, admissionVars
<1>8. CASE UNCHANGED vars
  BY <1>5, <1>8 DEF vars, admissionVars
<1> QED
  BY <1>1, <1>2, <1>3, <1>4, <1>6, <1>7, <1>8 DEF Next

-------------------------------------------------------------------------------
(***************************************************************************)
(* The daily quota                                                         *)
(***************************************************************************)
(* The requests that have found the quota not reached and have not left by *)
(* ZADD.                                                                   *)
Admitted == At("count") \union At("store") \union At("add")

(* While the quota is not reached nothing counts as late; the request that *)
(* reaches it is not among the admitted, and nobody joins them from then.  *)
QuotaInv ==
  /\ QuotaReached => late + Cardinality(Admitted) <= Concurrency - 1
  /\ ~QuotaReached => late = 0

LEMMA AdmittedTypes ==
  ASSUME Types
  PROVE  /\ Admitted \in SUBSET Requests
         /\ late \in Nat /\ quota \in Nat
         /\ Concurrency \in Nat /\ Concurrency' = Concurrency
         /\ MaxDaily \in Nat
BY AtFinite, AdmissionAssumption DEF Admitted, At, Types, TypeOK, AdmissionTypeOK, Concurrency

(* A step that admits nobody and leaves the counter alone. *)
LEMMA NobodyAdmitted ==
  ASSUME Types, QuotaInv, UNCHANGED quotaVars, Admitted' \subseteq Admitted
  PROVE  QuotaInv'
<1>1. /\ Cardinality(Admitted') <= Cardinality(Admitted)
      /\ Cardinality(Admitted') \in Nat /\ Cardinality(Admitted) \in Nat
  BY AdmittedTypes, EnteringFinite
<1> QED BY <1>1, AdmittedTypes DEF QuotaInv, QuotaReached, quotaVars

(* A request on its way elsewhere is not among the admitted. *)
LEMMA AdmittedMoves ==
  ASSUME Types, NEW r \in Requests, NEW t, Goto(r, t), t \notin {"count", "store", "add"}
  PROVE  Admitted' = Admitted \ {r}
BY DEF Types, TypeOK, Goto, Admitted, At

LEMMA QuotaStep ==
  ASSUME Types, QuotaInv, NEW r \in Requests, AdmissionStep(r)
  PROVE  QuotaInv'
<1>1. CASE ReadQuota(r)
  <2>1. CASE QuotaReached
    BY <1>1, <2>1, NobodyAdmitted, AdmittedMoves DEF ReadQuota, Leave, admissionVars
  <2>2. CASE ~QuotaReached
    BY <1>1, <2>2 DEF ReadQuota, QuotaInv, QuotaReached, admissionVars, quotaVars
  <2> QED BY <2>1, <2>2
<1>2. CASE CountPending(r) \/ StoreUpload(r)
  <2>1. pc[r] \in {"count", "store"} /\ \E t \in {"idle", "store", "add"} : Goto(r, t)
    BY <1>2 DEF CountPending, StoreUpload, Drop, Leave
  <2>2. Admitted' \subseteq Admitted
    BY <2>1 DEF Goto, Admitted, At, Types, TypeOK
  <2> QED BY <1>2, <2>2, NobodyAdmitted DEF CountPending, StoreUpload
<1>3. CASE AddPending(r)
  <2>1. Admitted' = Admitted \ {r} /\ r \in Admitted
    BY <1>3, AdmittedMoves DEF AddPending, Drop, Leave, Admitted, At
  <2>2. Cardinality(Admitted') = Cardinality(Admitted) - 1 /\ Cardinality(Admitted) \in Nat
    BY <2>1, AdmittedTypes, OneLess, EnteringFinite
  <2>3. /\ late' = IF QuotaReached THEN late + 1 ELSE late
        /\ QuotaReached' <=> QuotaReached
    BY <1>3 DEF AddPending, QuotaReached
  <2> QED BY <2>2, <2>3, AdmittedTypes DEF QuotaInv
<1>4. CASE Tally(r)
  <2>1. Admitted' = Admitted \ {r} /\ late' = late
    BY <1>4, AdmittedMoves DEF Tally
  <2>2. Admitted' \subseteq Requests \ {r}
    BY <2>1, AdmittedTypes
  <2>3. Cardinality(Requests \ {r}) = Concurrency - 1 /\ Requests \ {r} \in SUBSET Requests
    BY OneLess, AtFinite DEF Concurrency
  <2>4. Cardinality(Admitted') <= Concurrency - 1 /\ Cardinality(Admitted') \in Nat
    BY <2>2, <2>3, EnteringFinite
  <2>5. CASE QuotaReached
    <3>1. QuotaReached'
      BY <1>4, <2>5, AdmittedTypes DEF Tally, QuotaReached, Counted
    <3>2. Cardinality(Admitted') <= Cardinality(Admitted) /\ Cardinality(Admitted) \in Nat
      BY <2>1, AdmittedTypes, EnteringFinite
    <3> QED BY <2>1, <2>4, <2>5, <3>1, <3>2, AdmittedTypes DEF QuotaInv
  <2>6. CASE ~QuotaReached
    BY <2>1, <2>4, <2>6, AdmittedTypes DEF QuotaInv
  <2> QED BY <2>5, <2>6
<1>5. CASE \/ Backpressure(r) \/ RefreshSession(r) \/ Verify(r) \/ RejectSession(r)
           \/ RejectPending(r) \/ Unpend(r) \/ DropSession(r)
  <2>1. /\ UNCHANGED quotaVars
        /\ \E t \in {"idle", "quota", "verify", "tally", "unpend", "reject", "rejectPending"} :
             Goto(r, t)
    BY <1>5 DEF Backpressure, RefreshSession, Verify, RejectSession, RejectPending, Unpend,
       DropSession, Drop, Leave, admissionVars
  <2> QED BY <2>1, NobodyAdmitted, AdmittedMoves
<1> QED BY <1>1, <1>2, <1>3, <1>4, <1>5 DEF AdmissionStep

LEMMA QuotaNext == Types /\ QuotaInv /\ [Next]_vars => QuotaInv'
<1> SUFFICES ASSUME Types, QuotaInv, [Next]_vars PROVE QuotaInv'
  OBVIOUS
<1>1. ASSUME NEW r \in Requests, RequestStep(r) PROVE QuotaInv'
  <2>1. CASE AdmissionStep(r)
    BY <2>1, QuotaStep
  <2>2. CASE LimitStep(r)
    <3>1. /\ UNCHANGED quotaVars
          /\ \E t \in {"expire", "idle", "enum", "block", "compare"} : Goto(r, t)
      BY <2>2 DEF LimitStep, IncrRate, IncrRateFails, ExpireRate, ReadBlock, CountEnum,
         CountEnumFails, SetBlocked, CheckLockout, WrongPassword, RightPassword, NoVerdict,
         Leave, admissionVars
    <3> QED BY <3>1, NobodyAdmitted, AdmittedMoves
  <2> QED BY <1>1, <2>1, <2>2 DEF RequestStep
<1>2. ASSUME NEW r \in Requests, Arrive(r) PROVE QuotaInv'
  <2>1. FirstCall[gate] \in {"incr", "get", "check", "pressure"}
    BY DEF FirstCall, Gates, Types, TypeOK
  <2> QED BY <1>2, <2>1, NobodyAdmitted, AdmittedMoves DEF Arrive, admissionVars
<1>3. ASSUME NEW r \in Requests, Confirm(r) \/ Crash(r) PROVE QuotaInv'
  <2>1. /\ UNCHANGED quotaVars
        /\ \E t \in {"refresh", "verify", "idle"} : Goto(r, t)
    BY <1>3 DEF Confirm, Crash, Drop, Leave
  <2> QED BY <2>1, NobodyAdmitted, AdmittedMoves
<1>4. CASE UNCHANGED <<pc, quotaVars>>
  BY <1>4, NobodyAdmitted DEF Admitted, At
<1>5. CASE UploadEvent
  <2>1. CASE Midnight
    BY <2>1, AdmittedTypes DEF Midnight, QuotaInv, QuotaReached
  <2> QED BY <1>4, <1>5, <2>1 DEF UploadEvent, LapseSession, Sweep
<1>6. CASE Tick
  BY <1>4, <1>6 DEF Tick, admissionVars
<1>7. CASE UNCHANGED vars
  BY <1>4, <1>7 DEF vars, admissionVars
<1> QED
  BY <1>1, <1>2, <1>3, <1>5, <1>6, <1>7 DEF Next

-------------------------------------------------------------------------------
(***************************************************************************)
(* The requests that the rate limit lets through                           *)
(***************************************************************************)
(* The passes of the counter's window, and those of the window before.     *)
Young(d) == {p \in Passes : p[1] < d}
Old(d) == {p \in Passes : p[1] >= d}

(* The window began d ticks ago.  Its passes, and the request that will    *)
(* call EXPIRE, are among those counted; and by the time its TTL runs out  *)
(* those of the window before it are older than any window.                *)
Window(d) ==
  /\ d >= 1
  /\ Cardinality(Young(d)) + Cardinality(At("expire")) <= value
  /\ Cardinality(Young(d)) + Cardinality(At("expire")) <= MaxRate
  /\ Cardinality(Old(d)) <= MaxRate
  /\ ttl > 0 => d + ttl >= RateWindow

RateInv ==
  gate = "rate" =>
    /\ value \in 0 .. MaxRate + 1
    /\ IsFiniteSet(Passes)
    /\ Cardinality(At("expire")) <= 1
    /\ At("expire") # {} => value >= 1 /\ ttl = 0
    /\ value = 0 => ttl = 0 /\ Cardinality(Passes) <= MaxRate /\ Young(1) = {}
    /\ value >= 1 => \E d \in Nat : Window(d)

(* The size of a union. *)
LEMMA UnionBound ==
  ASSUME NEW S, NEW T, IsFiniteSet(S), IsFiniteSet(T)
  PROVE  /\ IsFiniteSet(S \union T)
         /\ Cardinality(S \union T) <= Cardinality(S) + Cardinality(T)
<1>1. /\ IsFiniteSet(S \union T)
      /\ Cardinality(S \union T) = Cardinality(S) + Cardinality(T) - Cardinality(S \cap T)
  BY FS_Union
<1>2. IsFiniteSet(S \cap T)
  BY FS_Intersection
<1>3. /\ Cardinality(S) \in Nat /\ Cardinality(T) \in Nat
      /\ Cardinality(S \cap T) \in Nat
  BY <1>2, FS_CardinalityType
<1> QED BY <1>1, <1>3

LEMMA InPasses ==
  ASSUME NEW p
  PROVE  p \in Passes <=> /\ p = <<p[1], p[2]>>
                          /\ p[1] \in Ages
                          /\ p[2] \in 1 .. recent[p[1]]
BY DEF Passes

LEMMA YoungOrOld ==
  ASSUME IsFiniteSet(Passes), NEW d \in Nat
  PROVE  /\ IsFiniteSet(Young(d)) /\ IsFiniteSet(Old(d))
         /\ Cardinality(Young(d)) \in Nat /\ Cardinality(Old(d)) \in Nat
         /\ Cardinality(Passes) \in Nat
         /\ Cardinality(Passes) <= Cardinality(Young(d)) + Cardinality(Old(d))
         /\ Cardinality(Old(d)) <= Cardinality(Passes)
<1>1. Young(d) \subseteq Passes /\ Old(d) \subseteq Passes
  BY DEF Young, Old
<1>2. IsFiniteSet(Young(d)) /\ IsFiniteSet(Old(d)) /\ Cardinality(Old(d)) <= Cardinality(Passes)
  BY <1>1, FS_Subset
<1>3. Passes = Young(d) \union Old(d)
  <2>1. \A p \in Passes : p[1] \in Nat
    BY InPasses DEF Ages
  <2> QED BY <2>1 DEF Young, Old
<1> QED BY <1>2, <1>3, UnionBound, FS_CardinalityType

(* A request that is let through. *)
Passed == recent' = [recent EXCEPT ![0] = @ + 1]

LEMMA PassAdded ==
  ASSUME Types, IsFiniteSet(Passes), Passed, NEW d \in Nat, d >= 1
  PROVE  /\ IsFiniteSet(Passes')
         /\ Cardinality(Young(d)') = Cardinality(Young(d)) + 1
         /\ Old(d)' = Old(d)
<1> DEFINE new == <<0, recent[0] + 1>>
<1>1. recent \in [Ages -> Nat] /\ 0 \in Ages
  BY LimitsAssumption DEF Types, TypeOK, Ages
<1>2. Passes' = Passes \union {new}
  <2>1. ASSUME NEW p
        PROVE  p \in Passes' <=> /\ p = <<p[1], p[2]>>
                                 /\ p[1] \in Ages
                                 /\ p[2] \in 1 .. recent'[p[1]]
    BY DEF Passes, Ages
  <2>2. ASSUME NEW p PROVE p \in Passes' => p \in Passes \union {new}
    BY <1>1, <2>1, InPasses DEF Passed
  <2>3. ASSUME NEW p PROVE p \in Passes => p \in Passes'
    BY <1>1, <2>1, InPasses DEF Passed
  <2>4. new \in Passes'
    BY <1>1, <2>1 DEF Passed
  <2> QED BY <2>2, <2>3, <2>4
<1>3. new \notin Passes
  BY <1>1, InPasses
<1>4. Young(d)' = Young(d) \union {new} /\ new \notin Young(d)
  BY <1>2, <1>3 DEF Young
<1>5. Old(d)' = Old(d)
  BY <1>2 DEF Old
<1>6. IsFiniteSet(Young(d))
  BY YoungOrOld
<1> QED BY <1>2, <1>4, <1>5, <1>6, FS_AddElement

(* A tick makes every pass older and drops those of a window ago. *)
LEMMA PassesAge ==
  ASSUME Types, IsFiniteSet(Passes), Tick, NEW d \in Nat
  PROVE  /\ IsFiniteSet(Passes')
         /\ Cardinality(Young(d + 1)') <= Cardinality(Young(d))
         /\ Cardinality(Old(d + 1)') <= Cardinality(Old(d))
         /\ Young(1)' = {}
<1>1. recent \in [Ages -> Nat] /\ Ages \subseteq Nat
  BY DEF Types, TypeOK, Ages
<1>2. ASSUME NEW p \in Passes'
      PROVE  /\ p = <<p[1], p[2]>> /\ p[1] \in Ages /\ p[1] - 1 \in Ages
             /\ <<p[1] - 1, p[2]>> \in Passes
  <2>1. p = <<p[1], p[2]>> /\ p[1] \in Ages /\ p[2] \in 1 .. recent'[p[1]]
    BY DEF Passes, Ages
  <2>2. recent'[p[1]] = IF p[1] = 0 THEN 0 ELSE recent[p[1] - 1]
    BY <2>1 DEF Tick
  <2>3. p[1] # 0
    BY <2>1, <2>2
  <2>4. p[1] - 1 \in Ages
    BY <2>1, <2>3, LimitsAssumption DEF Ages
  <2> QED BY <2>1, <2>2, <2>3, <2>4, InPasses
<1>3. ASSUME NEW p \in Passes', NEW q \in Passes', <<p[1] - 1, p[2]>> = <<q[1] - 1, q[2]>>
      PROVE  p = q
  <2>1. p[1] \in Nat /\ q[1] \in Nat /\ p[1] - 1 = q[1] - 1 /\ p[2] = q[2]
    BY <1>1, <1>2, <1>3
  <2>2. p[1] = q[1]
    BY <2>1
  <2> QED BY <1>2, <2>1, <2>2
<1>4. ASSUME NEW S \in SUBSET Passes', NEW T, IsFiniteSet(T),
             \A p \in S : <<p[1] - 1, p[2]>> \in T
      PROVE  IsFiniteSet(S) /\ Cardinality(S) <= Cardinality(T)
  <2> DEFINE younger == [p \in S |-> <<p[1] - 1, p[2]>>]
  <2>1. younger \in [S -> T]
    BY <1>4
  <2>2. \A p, q \in S : younger[p] = younger[q] => p = q
    BY <1>3
  <2> HIDE DEF younger
  <2>3. younger \in Injection(S, T)
    BY <2>1, <2>2 DEF Injection, IsInjective
  <2> QED BY <1>4, <2>3, FS_Injection
<1>5. IsFiniteSet(Passes')
  BY <1>2, <1>4
<1>6. \A p \in Passes' : p[1] \in Nat /\ p[1] - 1 \in Nat
  BY <1>1, <1>2
<1>7. Cardinality(Young(d + 1)') <= Cardinality(Young(d))
  <2>1. Young(d + 1)' \subseteq Passes'
    BY DEF Young
  <2>2. ASSUME NEW p \in Young(d + 1)' PROVE <<p[1] - 1, p[2]>> \in Young(d)
    <3>1. p \in Passes' /\ p[1] < d + 1
      BY DEF Young
    <3>2. <<p[1] - 1, p[2]>> \in Passes /\ p[1] - 1 < d
      BY <1>2, <1>6, <3>1
    <3> QED BY <3>2 DEF Young
  <2> QED BY <1>4, <2>1, <2>2, YoungOrOld
<1>8. Cardinality(Old(d + 1)') <= Cardinality(Old(d))
  <2>1. Old(d + 1)' \subseteq Passes'
    BY DEF Old
  <2>2. ASSUME NEW p \in Old(d + 1)' PROVE <<p[1] - 1, p[2]>> \in Old(d)
    <3>1. p \in Passes' /\ p[1] >= d + 1
      BY DEF Old
    <3>2. <<p[1] - 1, p[2]>> \in Passes /\ p[1] - 1 >= d
      BY <1>2, <1>6, <3>1
    <3> QED BY <3>2 DEF Old
  <2> QED BY <1>4, <2>1, <2>2, YoungOrOld
<1>9. Young(1)' = {}
  BY <1>6 DEF Young
<1> QED BY <1>5, <1>7, <1>8, <1>9

(* A step that lets nobody through. *)
LEMMA NobodyPasses ==
  ASSUME Types, RateInv, gate = "rate", gate' = gate, UNCHANGED <<ttl, recent>>,
         At("expire")' \subseteq At("expire"),
         value <= value', value' \in 0 .. MaxRate + 1
  PROVE  RateInv'
<1>0. /\ value \in Nat /\ value' \in Nat /\ MaxRate \in Nat \ {0} /\ ttl \in Nat
      /\ value = 0 => At("expire") = {}
      /\ Cardinality(At("expire")) <= 1
  BY LimitsAssumption DEF RateInv, Types, TypeOK
<1>1. Passes' = Passes /\ \A d : Young(d)' = Young(d) /\ Old(d)' = Old(d)
  BY DEF Passes, Ages, Young, Old
<1>2. /\ At("expire") \in SUBSET Requests
      /\ Cardinality(At("expire")) \in Nat /\ Cardinality(At("expire")') \in Nat
      /\ Cardinality(At("expire")') <= Cardinality(At("expire"))
  BY EnteringFinite DEF At
<1>3. Cardinality(At("expire")') <= 1
  BY <1>0, <1>2
<1>4. CASE value = 0 /\ value' # 0
  <2>1. Cardinality(Young(1)) = 0 /\ Cardinality(At("expire")') = 0
    BY <1>0, <1>4, FS_EmptySet DEF RateInv
  <2>2. Cardinality(Old(1)) <= MaxRate
    <3>1. IsFiniteSet(Passes) /\ Cardinality(Passes) <= MaxRate
      BY <1>4 DEF RateInv
    <3> QED BY <1>0, <3>1, YoungOrOld
  <2>3. Window(1)'
    BY <1>0, <1>1, <1>4, <2>1, <2>2 DEF Window, RateInv
  <2> QED BY <1>0, <1>1, <1>4, <1>3, <2>3 DEF RateInv
<1>5. CASE value = 0 /\ value' = 0
  BY <1>0, <1>1, <1>5, <1>3 DEF RateInv
<1>6. CASE value # 0
  <2>1. PICK d \in Nat : Window(d)
    BY <1>0, <1>6 DEF RateInv
  <2>2. Cardinality(Young(d)) \in Nat
    BY YoungOrOld DEF RateInv
  <2>3. Window(d)'
    BY <1>0, <1>1, <1>2, <2>1, <2>2 DEF Window
  <2> QED BY <1>0, <1>1, <1>6, <1>3, <2>3 DEF RateInv
<1> QED BY <1>4, <1>5, <1>6

LEMMA IncrRateStep ==
  ASSUME Types, RateInv, gate = "rate", gate' = gate, NEW r \in Requests, IncrRate(r)
  PROVE  RateInv'
<1>0. /\ value \in Nat /\ value <= MaxRate + 1 /\ MaxRate \in Nat \ {0} /\ ttl \in Nat
      /\ ttl' = ttl /\ pc = [s \in Requests |-> pc[s]] /\ pc[r] = "incr"
      /\ value = 0 => At("expire") = {}
  BY LimitsAssumption DEF RateInv, Types, TypeOK, IncrRate
<1>1. value' = Capped(value + 1) \/ value' = Capped(value + 2)
  BY DEF IncrRate
<1>2. /\ value' \in 0 .. MaxRate + 1 /\ value' >= 1 /\ value <= value'
      /\ value' = 1 => value = 0
      /\ value' <= MaxRate => value + 1 <= value'
  BY <1>0, <1>1 DEF Capped
<1>3. CASE value' = 1
  <2>1. UNCHANGED recent /\ Goto(r, "expire")
    BY <1>3 DEF IncrRate
  <2>2. Passes' = Passes /\ \A d : Young(d)' = Young(d) /\ Old(d)' = Old(d)
    BY <2>1 DEF Passes, Ages, Young, Old
  <2>3. At("expire")' = {r}
    BY <1>0, <1>2, <1>3, <2>1 DEF Goto, At
  <2>4. Cardinality(At("expire")') = 1 /\ Cardinality(Young(1)) = 0
    BY <1>2, <1>3, <2>3, FS_EmptySet, FS_Singleton DEF RateInv
  <2>5. Cardinality(Old(1)) <= MaxRate
    <3>1. IsFiniteSet(Passes) /\ Cardinality(Passes) <= MaxRate
      BY <1>2, <1>3 DEF RateInv
    <3> QED BY <1>0, <3>1, YoungOrOld
  <2>6. Window(1)' /\ ttl = 0
    BY <1>0, <1>2, <1>3, <2>2, <2>4, <2>5 DEF Window, RateInv
  <2> QED BY <1>0, <1>2, <1>3, <2>2, <2>4, <2>6 DEF RateInv
<1>4. CASE value' # 1
  <2>1. Decide(value') /\ At("expire")' = At("expire")
    BY <1>0, <1>4 DEF IncrRate, Leave, Goto, At
  <2>2. CASE value' > MaxRate
    <3>1. UNCHANGED recent
      BY <2>1, <2>2 DEF Decide
    <3> QED BY <1>0, <1>2, <2>1, <3>1, NobodyPasses
  <2>3. CASE value' <= MaxRate
    <3>1. Passed
      BY <1>0, <1>2, <2>1, <2>3 DEF Decide, Passed
    <3>2. IsFiniteSet(Passes) /\ IsFiniteSet(Passes')
      BY <3>1, PassAdded DEF RateInv
    <3>3. Cardinality(At("expire")) \in Nat
      BY AtFinite DEF At
    <3>4. PICK d \in Nat :
            /\ d >= 1 /\ Cardinality(Young(d)) + Cardinality(At("expire")) <= value
            /\ Cardinality(Old(d)) <= MaxRate
            /\ ttl > 0 => d + ttl >= RateWindow
      <4>1. CASE value = 0
        <5>1. Cardinality(Young(1)) = 0 /\ Cardinality(At("expire")) = 0 /\ ttl = 0
          BY <1>0, <4>1, FS_EmptySet DEF RateInv
        <5>2. Cardinality(Passes) <= MaxRate
          BY <4>1 DEF RateInv
        <5>3. Cardinality(Old(1)) <= MaxRate
          BY <1>0, <3>2, <5>2, YoungOrOld
        <5> QED BY <1>0, <4>1, <5>1, <5>3
      <4>2. CASE value # 0
        BY <1>0, <4>2 DEF RateInv, Window
      <4> QED BY <4>1, <4>2
    <3>5. /\ Cardinality(Young(d)') = Cardinality(Young(d)) + 1
          /\ Old(d)' = Old(d) /\ Cardinality(Young(d)) \in Nat
      BY <3>1, <3>2, <3>4, PassAdded, YoungOrOld
    <3>6. Cardinality(Young(d)') + Cardinality(At("expire")') <= value'
      BY <1>0, <1>2, <2>1, <2>3, <3>3, <3>4, <3>5
    <3>7. Window(d)'
      BY <1>0, <1>2, <2>1, <2>3, <3>3, <3>4, <3>5, <3>6 DEF Window
    <3>8. /\ Cardinality(At("expire")') <= 1
          /\ At("expire")' # {} => value' >= 1 /\ ttl' = 0
      BY <1>0, <1>2, <2>1 DEF RateInv
    <3> QED BY <1>2, <3>2, <3>7, <3>8 DEF RateInv
  <2> QED BY <1>0, <1>2, <2>2, <2>3
<1> QED BY <1>3, <1>4

LEMMA ExpireRateStep ==
  ASSUME Types, RateInv, gate = "rate", gate' = gate, NEW r \in Requests, ExpireRate(r)
  PROVE  RateInv'
<1>1. /\ value \in 0 .. MaxRate + 1 /\ MaxRate \in Nat \ {0} /\ RateWindow \in Nat \ {0}
      /\ value' = value /\ pc = [s \in Requests |-> pc[s]] /\ pc[r] = "expire"
      /\ ttl' = RateWindow \/ ttl' = ttl
  BY LimitsAssumption DEF RateInv, Types, TypeOK, ExpireRate
<1>2. value >= 1 /\ ttl = 0
  BY <1>1 DEF RateInv, At
<1>3. Passed
  BY <1>1 DEF ExpireRate, Decide, Passed
<1>4. /\ At("expire") \in SUBSET Requests
      /\ At("expire")' = At("expire") \ {r} /\ r \in At("expire")
  BY <1>1 DEF ExpireRate, Leave, Goto, At
<1>5. /\ Cardinality(At("expire")') = Cardinality(At("expire")) - 1
      /\ Cardinality(At("expire")) \in Nat
  BY <1>4, OneLess, AtFinite
<1>6. PICK d \in Nat : Window(d)
  BY <1>1, <1>2 DEF RateInv
<1>7. IsFiniteSet(Passes) /\ d >= 1
  BY <1>6 DEF RateInv, Window
<1>8. /\ IsFiniteSet(Passes')
      /\ Cardinality(Young(d)') = Cardinality(Young(d)) + 1
      /\ Old(d)' = Old(d) /\ Cardinality(Young(d)) \in Nat
  BY <1>3, <1>7, PassAdded, YoungOrOld
<1>9. Window(d)'
  BY <1>1, <1>2, <1>5, <1>6, <1>7, <1>8 DEF Window
<1>10. At("expire")' = {} /\ Cardinality(At("expire")') = 0
  <2>1. Cardinality(At("expire")) <= 1
    BY DEF RateInv
  <2>2. IsFiniteSet(At("expire")') /\ Cardinality(At("expire")') \in Nat
    BY <1>4, AtFinite, FS_Subset, FS_CardinalityType
  <2>3. Cardinality(At("expire")') = 0
    BY <1>5, <2>1, <2>2
  <2> QED BY <2>2, <2>3, FS_EmptySet
<1> QED BY <1>1, <1>2, <1>8, <1>9, <1>10 DEF RateInv

LEMMA RateTick ==
  ASSUME Types, RateInv, gate = "rate", gate' = gate, Tick
  PROVE  RateInv'
<1>1. /\ value \in 0 .. MaxRate + 1 /\ MaxRate \in Nat \ {0} /\ RateWindow \in Nat \ {0}
      /\ ttl \in Nat /\ IsFiniteSet(Passes)
      /\ At("expire")' = At("expire") /\ Cardinality(At("expire")) <= 1
      /\ At("expire") # {} => value >= 1 /\ ttl = 0
      /\ Cardinality(At("expire")) \in Nat
  BY LimitsAssumption, AtFinite DEF RateInv, Types, TypeOK, Tick, At
<1>2. IsFiniteSet(Passes') /\ Young(1)' = {}
  BY <1>1, PassesAge
<1>3. ASSUME NEW d \in Nat
      PROVE  /\ Cardinality(Young(d)) \in Nat /\ Cardinality(Young(d + 1)') \in Nat
             /\ Cardinality(Young(d + 1)') <= Cardinality(Young(d))
             /\ Cardinality(Old(d)) \in Nat /\ Cardinality(Old(d + 1)') \in Nat
             /\ Cardinality(Old(d + 1)') <= Cardinality(Old(d))
             /\ Cardinality(Passes') <= Cardinality(Young(d + 1)') + Cardinality(Old(d + 1)')
  <2>1. /\ Cardinality(Young(d + 1)') <= Cardinality(Young(d))
        /\ Cardinality(Old(d + 1)') <= Cardinality(Old(d))
    BY <1>1, PassesAge
  <2>2. Cardinality(Young(d)) \in Nat /\ Cardinality(Old(d)) \in Nat
    BY <1>1, YoungOrOld
  <2>3. /\ IsFiniteSet(Young(d + 1)') /\ IsFiniteSet(Old(d + 1)')
        /\ Passes' = Young(d + 1)' \union Old(d + 1)'
    <3>1. Young(d + 1)' \subseteq Passes' /\ Old(d + 1)' \subseteq Passes'
      BY DEF Young, Old
    <3>2. \A p \in Passes' : p[1] \in Nat
      BY DEF Passes, Ages
    <3>3. Passes' = Young(d + 1)' \union Old(d + 1)'
      BY <3>1, <3>2 DEF Young, Old
    <3> QED BY <1>2, <3>1, <3>3, FS_Subset
  <2>4. Cardinality(Young(d + 1)') \in Nat /\ Cardinality(Old(d + 1)') \in Nat
    BY <2>3, FS_CardinalityType
  <2> QED BY <2>1, <2>2, <2>3, <2>4, UnionBound
<1>4. Cardinality(Passes') \in Nat
  BY <1>2, FS_CardinalityType
<1>5. CASE value = 0
  <2>1. /\ ttl = 0 /\ ttl' = 0 /\ value' = 0 /\ Cardinality(Passes) <= MaxRate
    BY <1>5 DEF RateInv, Tick
  <2>2. Young(0) = {} /\ Old(0) \subseteq Passes
    <3>1. \A p \in Passes : p[1] \in Nat
      BY DEF Passes, Ages
    <3> QED BY <3>1 DEF Young, Old
  <2>3. Cardinality(Young(0)) = 0 /\ Cardinality(Old(0)) <= MaxRate
    BY <1>1, <2>1, <2>2, FS_EmptySet, YoungOrOld
  <2>4. Cardinality(Passes') <= MaxRate
    BY <1>1, <1>3, <1>4, <2>3
  <2> QED BY <1>1, <1>2, <1>5, <2>1, <2>4 DEF RateInv
<1>6. CASE value # 0
  <2>1. PICK d \in Nat : Window(d)
    BY <1>1, <1>6 DEF RateInv
  <2>2. CASE ttl = 1
    <3>1. value' = 0 /\ ttl' = 0 /\ At("expire") = {}
      BY <1>1, <2>2 DEF Tick
    <3>2. Old(d + 1)' = {}
      <4>1. d + 1 >= RateWindow
        BY <2>1, <2>2 DEF Window
      <4>2. \A p \in Passes' : p[1] \in Nat /\ p[1] < RateWindow
        BY <1>1 DEF Passes, Ages
      <4> QED BY <1>1, <4>1, <4>2 DEF Old
    <3>3. Cardinality(Passes') <= MaxRate
      <4>1. Cardinality(Old(d + 1)') = 0
        BY <3>2, FS_EmptySet
      <4>2. Cardinality(Young(d)) <= MaxRate
        BY <1>1, <1>3, <2>1 DEF Window
      <4> QED BY <1>1, <1>3, <1>4, <4>1, <4>2
    <3> QED BY <1>1, <1>2, <3>1, <3>3 DEF RateInv
  <2>3. CASE ttl # 1
    <3>1. /\ value' = value
          /\ ttl' = IF ttl = 0 THEN 0 ELSE ttl - 1
      BY <2>3 DEF Tick
    <3>2. ttl' > 0 => (d + 1) + ttl' >= RateWindow
      BY <1>1, <2>1, <2>3, <3>1 DEF Window
    <3>3. /\ Cardinality(Young(d + 1)') + Cardinality(At("expire")) <= value
          /\ Cardinality(Young(d + 1)') + Cardinality(At("expire")) <= MaxRate
          /\ Cardinality(Old(d + 1)') <= MaxRate
          /\ d + 1 >= 1
      <4>1. /\ Cardinality(Young(d)) + Cardinality(At("expire")) <= value
            /\ Cardinality(Young(d)) + Cardinality(At("expire")) <= MaxRate
            /\ Cardinality(Old(d)) <= MaxRate
        BY <2>1 DEF Window
      <4>2. value \in Nat /\ MaxRate \in Nat
        BY <1>1
      <4>3. /\ Cardinality(Young(d)) \in Nat /\ Cardinality(Young(d + 1)') \in Nat
            /\ Cardinality(Young(d + 1)') <= Cardinality(Young(d))
            /\ Cardinality(Old(d)) \in Nat /\ Cardinality(Old(d + 1)') \in Nat
            /\ Cardinality(Old(d + 1)') <= Cardinality(Old(d))
            /\ Cardinality(At("expire")) \in Nat
        BY <1>1, <1>3
      <4>4. d + 1 >= 1
        OBVIOUS
      <4> QED BY <4>1, <4>2, <4>3, <4>4
    <3>4. Window(d + 1)'
      BY <1>1, <3>1, <3>2, <3>3 DEF Window
    <3> QED BY <1>1, <1>2, <1>6, <3>1, <3>4 DEF RateInv
  <2> QED BY <2>2, <2>3
<1> QED BY <1>5, <1>6

LEMMA RateNext == Types /\ RateInv /\ [Next]_vars => RateInv'
<1> SUFFICES ASSUME Types, RateInv, [Next]_vars, gate = "rate" PROVE RateInv'
  BY DEF RateInv, Next, vars
<1>1. gate' = gate
  BY DEF Next, vars
<1>2. value \in 0 .. MaxRate + 1 /\ MaxRate \in Nat \ {0} /\ value \in Nat
  BY LimitsAssumption DEF RateInv
<1>3. ASSUME NEW r \in Requests, IncrRateFails(r) PROVE RateInv'
  <2>1. /\ UNCHANGED <<ttl, recent>>
        /\ value' = value \/ value' = Capped(value + 1)
        /\ At("expire")' \subseteq At("expire")
    BY <1>3 DEF IncrRateFails, Leave, Goto, At, Types, TypeOK
  <2>2. value <= value' /\ value' \in 0 .. MaxRate + 1
    BY <1>2, <2>1 DEF Capped
  <2> QED BY <1>1, <1>3, <2>1, <2>2, NobodyPasses DEF IncrRateFails
<1>4. ASSUME NEW r \in Requests, Arrive(r) \/ Crash(r) PROVE RateInv'
  <2>1. /\ UNCHANGED limitVars
        /\ At("expire")' \subseteq At("expire")
    BY <1>4 DEF Arrive, Crash, FirstCall, Drop, Leave, Goto, At, Types, TypeOK
  <2> QED BY <1>1, <1>2, <2>1, NobodyPasses DEF limitVars
<1>5. CASE UNCHANGED <<gate, pc, slips, limitVars>>
  BY <1>2, <1>5, NobodyPasses DEF limitVars, At
<1>6. CASE Tick
  BY <1>1, <1>6, RateTick
<1>7. \A r \in Requests : ~Confirm(r)
  BY DEF Confirm
<1>8. ASSUME NEW r \in Requests, RequestStep(r) PROVE RateInv'
  BY <1>1, <1>3, <1>8, StepsOfGate, IncrRateStep, ExpireRateStep
<1> QED
  BY <1>4, <1>5, <1>6, <1>7, <1>8 DEF Next, UploadEvent, vars

(* At the other gates nothing passes the rate limit. *)
NoneElsewhere == gate # "rate" => recent = [a \in Ages |-> 0]

LEMMA NoneElsewhereNext == Types /\ NoneElsewhere /\ [Next]_vars => NoneElsewhere'
<1> SUFFICES ASSUME Types, NoneElsewhere, [Next]_vars, gate # "rate" PROVE NoneElsewhere'
  BY DEF NoneElsewhere, Next, vars
<1>1. ASSUME NEW r \in Requests, RequestStep(r) PROVE recent' = recent
  <2>1. gate \in Gates
    BY DEF Types, TypeOK
  <2>2. \/ ReadBlock(r) \/ CountEnum(r) \/ CountEnumFails(r) \/ SetBlocked(r)
        \/ CheckLockout(r) \/ WrongPassword(r) \/ RightPassword(r) \/ NoVerdict(r)
        \/ UNCHANGED limitVars
    BY <1>1, <2>1, StepsOfGate DEF Gates
  <2> QED
    BY <2>2 DEF ReadBlock, CountEnum, CountEnumFails, SetBlocked, CheckLockout, WrongPassword,
       RightPassword, NoVerdict, limitVars
<1>2. CASE recent' = recent
  BY <1>2 DEF NoneElsewhere, Ages
<1>3. CASE Tick
  <2>1. recent' = [a \in Ages |-> IF a = 0 THEN 0 ELSE recent[a - 1]]
    BY <1>3 DEF Tick
  <2>2. \A a \in Ages : a # 0 => a - 1 \in Ages
    BY LimitsAssumption DEF Ages
  <2>3. recent' = [a \in Ages |-> 0]
    BY <2>1, <2>2 DEF NoneElsewhere
  <2> QED BY <2>3 DEF NoneElsewhere, Ages
<1> QED
  BY <1>1, <1>2, <1>3 DEF Next, Arrive, Crash, UploadEvent, vars, limitVars

-------------------------------------------------------------------------------
LEMMA InitLimits ==
  ASSUME Init
  PROVE  LockInv /\ BlockInv /\ TTLSoonSet /\ QuotaInv /\ (SomePendingLimit => PendingInv)
<1>1. /\ Comparing \in Nat /\ Comparing <= Concurrency /\ Concurrency \in Nat
  BY AtFinite DEF Comparing, At
<1>2. LockInv /\ BlockInv /\ TTLSoonSet
  BY <1>1, LimitsAssumption DEF Init, LockInv, BlockInv, TTLSoonSet, Blocked
<1>3. ASSUME SomePendingLimit PROVE PendingInv
  <2>1. Entering = {} /\ pending = {}
    BY DEF Init, AdmissionInit, Entering, At
  <2> QED BY <1>1, <1>3, <2>1, LimitIsLower, FS_EmptySet DEF PendingInv
<1>4. QuotaInv
  <2>1. MaxDaily > 0 => ~QuotaReached
    BY AdmissionAssumption DEF Init, AdmissionInit, QuotaReached
  <2>2. ~QuotaReached /\ late = 0
    BY <2>1 DEF Init, AdmissionInit, QuotaReached
  <2> QED BY <2>2 DEF QuotaInv
<1> QED BY <1>2, <1>3, <1>4

(* auth.Login: between two clearings of the counter, no more passwords are *)
(* refused than the limit, the requests that overlap and the failed calls  *)
(* account for.                                                            *)
THEOREM AttemptsStayBounded == Spec => []AttemptsBounded
<1>1. Types /\ LockInv => AttemptsBounded
  BY AtFinite, LimitsAssumption DEF Types, TypeOK, LockInv, AttemptsBounded, Comparing, At
<1> QED BY InitTypes, InitLimits, NextTypes, LockNext, <1>1, PTL DEF Spec

(* middleware.TokenEnumerationDetection: only requests already past the    *)
(* look-up get through a block, and one for each failed call.              *)
THEOREM BlockIsTight == Spec => []BlockTight
<1>1. Types /\ BlockInv => BlockTight
  BY AtFinite DEF Types, TypeOK, BlockInv, BlockTight, Counting, At
<1> QED BY InitTypes, InitLimits, NextTypes, BlockNext, <1>1, PTL DEF Spec

(* middleware.RateLimit: a counter without a TTL has a request that is     *)
(* about to set it, or some call failed.                                   *)
THEOREM CounterGetsTTL == Spec => []TTLSoonSet
BY InitTypes, InitLimits, NextTypes, TTLNext, PTL DEF Spec

(* upload.RequestUpload: if either limit is set, uploads_pending passes    *)
(* the lower by no more than the requests that overlap, less one.          *)
THEOREM PendingStaysBounded ==
  ASSUME SomePendingLimit
  PROVE  Spec => []PendingBounded
<1>1. Types /\ PendingInv => PendingBounded
  <2> SUFFICES ASSUME Types, PendingInv PROVE PendingBounded
    OBVIOUS
  <2>1. Entering \in SUBSET Requests /\ pending \in SUBSET Uploads
    BY DEF Entering, At, Types, TypeOK, AdmissionTypeOK
  <2>2. Cardinality(Entering) \in Nat /\ Cardinality(pending) \in Nat
    BY <2>1, EnteringFinite, PendingFinite
  <2> QED BY <2>1, <2>2, AtFinite, LimitIsLower DEF PendingInv, PendingBounded
<1>2. Init => PendingInv
  BY InitLimits
<1>3. Types /\ PendingInv /\ [Next]_vars => PendingInv'
  BY PendingNext
<1> QED BY InitTypes, NextTypes, <1>1, <1>2, <1>3, PTL DEF Spec

(* upload.RequestUpload and ConfirmUpload: once the quota is reached, only *)
(* requests that had read the counter before are still admitted, whatever  *)
(* the limits, and however often uploads are confirmed.                    *)
THEOREM QuotaIsTight == Spec => []QuotaTight
<1>1. Types /\ QuotaInv => QuotaTight
  <2> SUFFICES ASSUME Types, QuotaInv PROVE QuotaTight
    OBVIOUS
  <2>1. Cardinality(Admitted) \in Nat
    BY AdmittedTypes, EnteringFinite
  <2> QED BY <2>1, AdmittedTypes DEF QuotaInv, QuotaTight
<1> QED BY InitTypes, InitLimits, NextTypes, QuotaNext, <1>1, PTL DEF Spec

(* middleware.RateLimit: no RateWindow ticks let through more than two     *)
(* windows' worth of the counted requests, whatever fails or is re-sent.   *)
THEOREM PassesStayBounded == Spec => []PassesBounded
<1>0. MaxRate \in Nat \ {0}
  BY LimitsAssumption
<1>1. gate = "rate" /\ Types /\ RateInv => PassesBounded
  <2> SUFFICES ASSUME gate = "rate", Types, RateInv PROVE PassesBounded
    OBVIOUS
  <2>1. IsFiniteSet(Passes) /\ value \in 0 .. MaxRate + 1
    BY DEF RateInv
  <2>2. Cardinality(Passes) \in Nat
    BY <2>1, FS_CardinalityType
  <2>3. CASE value = 0
    BY <1>0, <2>2, <2>3 DEF RateInv, PassesBounded
  <2>4. CASE value # 0
    <3>1. PICK d \in Nat : Window(d)
      BY <2>1, <2>4 DEF RateInv
    <3>2. /\ Cardinality(Passes) <= Cardinality(Young(d)) + Cardinality(Old(d))
          /\ Cardinality(Young(d)) \in Nat /\ Cardinality(Old(d)) \in Nat
      BY <2>1, YoungOrOld
    <3>3. Cardinality(At("expire")) \in Nat
      BY AtFinite DEF At
    <3> QED BY <1>0, <2>2, <3>1, <3>2, <3>3 DEF Window, PassesBounded
  <2> QED BY <2>3, <2>4
<1>2. gate # "rate" /\ NoneElsewhere => PassesBounded
  <2> SUFFICES ASSUME recent = [a \in Ages |-> 0] PROVE PassesBounded
    BY DEF NoneElsewhere
  <2>1. Passes = {}
    BY InPasses
  <2> QED BY <1>0, <2>1, FS_EmptySet DEF PassesBounded
<1>3. Init => RateInv /\ NoneElsewhere
  <2> SUFFICES ASSUME Init PROVE RateInv /\ NoneElsewhere
    OBVIOUS
  <2>1. Passes = {} /\ At("expire") = {}
    BY InPasses DEF Init, At
  <2>2. Young(1) = {}
    BY <2>1 DEF Young
  <2> QED BY <1>0, <2>1, <2>2, FS_EmptySet DEF RateInv, NoneElsewhere, Init
<1>4. Types /\ RateInv /\ NoneElsewhere => PassesBounded
  BY <1>1, <1>2
<1> QED BY InitTypes, NextTypes, RateNext, NoneElsewhereNext, <1>3, <1>4, PTL DEF Spec

===============================================================================
