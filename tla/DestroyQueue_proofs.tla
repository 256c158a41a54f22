-------------------------- MODULE DestroyQueue_proofs --------------------------
(***************************************************************************)
(* Proofs about DestroyQueue, for any number of jobs and instances, every  *)
(* retry limit and every fault.  Two facts carry them: between DeleteObject *)
(* and the marker the file stays gone, and the attempt number written in a *)
(* member never exceeds the number of failed deletions of its job, however *)
(* many instances execute copies of it.                                    *)
(***************************************************************************)
EXTENDS DestroyQueue, TLAPS

USE DEF history

(* The types the proofs need.  Scores are not among them: 2^attempt is     *)
(* opaque to the provers.                                                  *)
TypeInv ==
  /\ now \in Nat
  /\ queue = [m \in Members |-> queue[m]]
  /\ dlq \in [Members -> Int]
  /\ failures \in [Jobs -> 0 .. MaxDestroyRetries]
  /\ pc \in [Pollers -> {"idle", "list", "next", "delete", "token", "mark",
                         "dlq", "zrem", "requeueRem", "requeueAdd"}]
  /\ redisNow \in [Pollers -> Nat]
  /\ due \in [Pollers -> SUBSET Members]
  /\ member \in [Pollers -> Members \union {NoMember}]

(* A poller in the middle of a job has one. *)
Busy == {"delete", "token", "mark", "dlq", "zrem", "requeueRem", "requeueAdd"}

MemberKnown == \A p \in Pollers : pc[p] \in Busy => member[p] \in Members

(* DeleteObject succeeded for the job being cleaned up. *)
CleanedFileGone ==
  \A p \in Pollers : pc[p] \in {"token", "mark"} => member[p].job \notin files

Counted(m) == m.attempt <= failures[m.job]

QueueCounted == \A m \in Members : queue[m] # NoTime => Counted(m)

DueCounted == \A p \in Pollers : \A m \in due[p] : Counted(m)

MemberCounted ==
  \A p \in Pollers :
    /\ pc[p] \in Busy => Counted(member[p])
    /\ pc[p] \in {"requeueRem", "requeueAdd"} =>
         /\ member[p].attempt + 1 <= failures[member[p].job]
         /\ member[p].attempt + 1 < MaxDestroyRetries
    /\ pc[p] = "dlq" => failures[member[p].job] >= MaxDestroyRetries

CountInv == QueueCounted /\ DueCounted /\ MemberCounted /\ DLQOnlyExhausted

-------------------------------------------------------------------------------
(* A member names its job and an attempt within the retry limit. *)
LEMMA MemberParts ==
  ASSUME NEW m \in Members
  PROVE  m.job \in Jobs /\ m.attempt \in 0 .. MaxDestroyRetries
BY DEF Members

(* The next attempt of a member that may be retried is a member. *)
LEMMA NextMember ==
  ASSUME NEW m \in Members, m.attempt + 1 < MaxDestroyRetries
  PROVE  /\ NextAttempt(m) \in Members
         /\ NextAttempt(m).job = m.job
         /\ NextAttempt(m).attempt = m.attempt + 1
BY DestroyQueueAssumption DEF Members, NextAttempt

(* Counting a failure only ever raises a count. *)
LEMMA CountGrows ==
  ASSUME TypeInv, NEW j \in Jobs, CountFailure(j)
  PROVE  /\ failures' \in [Jobs -> 0 .. MaxDestroyRetries]
         /\ \A i \in Jobs : failures[i] <= failures'[i]
         /\ \A a \in 0 .. MaxDestroyRetries :
              a <= failures[j] => (a + 1 <= failures'[j] \/ failures'[j] = MaxDestroyRetries)
BY DestroyQueueAssumption DEF TypeInv, CountFailure

(* The parts of the invariant hold initially. *)
LEMMA InitInv == Init => TypeInv /\ MemberKnown /\ CleanedFileGone /\ CountInv
BY DestroyQueueAssumption
   DEF Init, TypeInv, MemberKnown, Busy, CleanedFileGone, CountInv,
       QueueCounted, DueCounted, MemberCounted, DLQOnlyExhausted, Counted, NoTime, Members, NoMember

-------------------------------------------------------------------------------
(* Types, and that a busy poller has a member, are kept by every step. *)
LEMMA TypeStep == TypeInv /\ MemberKnown /\ [Next]_vars => TypeInv' /\ MemberKnown'
<1> SUFFICES ASSUME TypeInv, MemberKnown, [Next]_vars
             PROVE  TypeInv' /\ MemberKnown'
  OBVIOUS
<1> USE DestroyQueueAssumption
<1>1. ASSUME NEW j \in Jobs, Schedule(j)
      PROVE  TypeInv' /\ MemberKnown'
  BY <1>1 DEF Schedule, pollers, TypeInv, MemberKnown
<1>2. ASSUME NEW p \in Pollers, PollerStep(p)
      PROVE  TypeInv' /\ MemberKnown'
  <2>1. CASE Poll(p)
    BY <2>1 DEF Poll, Goto, stores, TypeInv, MemberKnown, Busy
  <2>2. CASE ListJobs(p)
    BY <2>2 DEF ListJobs, Goto, stores, TypeInv, MemberKnown, Busy
  <2>3. CASE TakeJob(p)
    <3>1. PICK m \in due[p] : member' = [member EXCEPT ![p] = m] /\ due' = [due EXCEPT ![p] = @ \ {m}]
      BY <2>3 DEF TakeJob
    <3>2. m \in Members
      BY DEF TypeInv
    <3> QED  BY <2>3, <3>1, <3>2 DEF TakeJob, Goto, stores, TypeInv, MemberKnown, Busy
  <2>4. CASE DeleteFile(p)
    <3>1. member[p] \in Members /\ member[p].job \in Jobs
      BY <2>4, MemberParts DEF DeleteFile, MemberKnown, Busy
    <3>2. failures' \in [Jobs -> 0 .. MaxDestroyRetries]
      BY <2>4, <3>1, CountGrows DEF DeleteFile, TypeInv
    <3> QED  BY <2>4, <3>1, <3>2 DEF DeleteFile, Goto, TypeInv, MemberKnown, Busy
  <2>5. CASE DelToken(p)
    BY <2>5 DEF DelToken, Goto, TypeInv, MemberKnown, Busy
  <2>6. CASE MarkDestroyed(p)
    BY <2>6 DEF MarkDestroyed, Goto, TypeInv, MemberKnown, Busy
  <2>7. CASE AddToDLQ(p)
    BY <2>7 DEF AddToDLQ, Goto, TypeInv, MemberKnown, Busy
  <2>8. CASE Dequeue(p)
    BY <2>8 DEF Dequeue, Goto, TypeInv, MemberKnown, Busy
  <2>9. CASE RequeueRem(p)
    BY <2>9 DEF RequeueRem, Goto, TypeInv, MemberKnown, Busy
  <2>10. CASE RequeueAdd(p)
    BY <2>10 DEF RequeueAdd, Goto, TypeInv, MemberKnown, Busy
  <2>11. CASE EndPass(p)
    BY <2>11 DEF EndPass, Goto, stores, TypeInv, MemberKnown, Busy
  <2> QED
    BY <1>2, <2>1, <2>2, <2>3, <2>4, <2>5, <2>6, <2>7, <2>8, <2>9, <2>10, <2>11 DEF PollerStep
<1>3. ASSUME NEW p \in Pollers, Crash(p)
      PROVE  TypeInv' /\ MemberKnown'
  BY <1>3 DEF Crash, Goto, stores, TypeInv, MemberKnown, Busy
<1>4. CASE CleanStale
  BY <1>4 DEF CleanStale, pollers, TypeInv, MemberKnown, NoTime
<1>5. CASE Tick
  BY <1>5 DEF Tick, pollers, TypeInv, MemberKnown
<1>6. CASE UNCHANGED vars
  BY <1>6 DEF vars, stores, pollers, TypeInv, MemberKnown
<1> QED  BY <1>1, <1>2, <1>3, <1>4, <1>5, <1>6 DEF Next

-------------------------------------------------------------------------------
(* Only DeleteFile changes the files, and only removes them; an attempt     *)
(* goes on to the token and the marker only once it has.                   *)
LEMMA FilesStep ==
  TypeInv /\ MemberKnown /\ CleanedFileGone /\ [Next]_vars => CleanedFileGone'
<1> SUFFICES ASSUME TypeInv, MemberKnown, CleanedFileGone, [Next]_vars
             PROVE  CleanedFileGone'
  OBVIOUS
<1> USE DEF CleanedFileGone
<1>1. ASSUME NEW p \in Pollers, PollerStep(p)
      PROVE  CleanedFileGone'
  <2>1. CASE DeleteFile(p)
    <3>1. member[p] \in Members
      BY <2>1 DEF DeleteFile, MemberKnown, Busy
    <3> QED  BY <2>1, <3>1 DEF DeleteFile, Goto, TypeInv
  <2>2. CASE DelToken(p)
    BY <2>2 DEF DelToken, Goto, TypeInv
  <2>3. CASE MarkDestroyed(p)
    BY <2>3 DEF MarkDestroyed, Goto, TypeInv
  <2>4. CASE TakeJob(p)
    BY <2>4 DEF TakeJob, Goto, stores, TypeInv
  <2>5. CASE Poll(p) \/ ListJobs(p) \/ EndPass(p)
    BY <2>5 DEF Poll, ListJobs, EndPass, Goto, stores, TypeInv
  <2>6. CASE AddToDLQ(p) \/ Dequeue(p) \/ RequeueRem(p) \/ RequeueAdd(p)
    BY <2>6 DEF AddToDLQ, Dequeue, RequeueRem, RequeueAdd, Goto, TypeInv
  <2> QED  BY <1>1, <2>1, <2>2, <2>3, <2>4, <2>5, <2>6 DEF PollerStep
<1>2. ASSUME NEW p \in Pollers, Crash(p)
      PROVE  CleanedFileGone'
  BY <1>2 DEF Crash, Goto, stores, TypeInv
<1>3. CASE (\E j \in Jobs : Schedule(j)) \/ CleanStale \/ Tick \/ UNCHANGED vars
  BY <1>3 DEF Schedule, CleanStale, Tick, vars, stores, pollers
<1> QED  BY <1>1, <1>2, <1>3 DEF Next

-------------------------------------------------------------------------------
(* A step that changes no poller's job, puts nothing in the queue or the   *)
(* dead-letter queue and forgets no failure keeps the counts.              *)
LEMMA CountKept ==
  ASSUME TypeInv, TypeInv', CountInv,
         \A m \in Members : queue'[m] # NoTime => queue[m] # NoTime,
         \A m \in Members : dlq'[m] # NoTime => dlq[m] # NoTime,
         \A j \in Jobs : failures[j] <= failures'[j],
         \A p \in Pollers : due'[p] \subseteq due[p],
         \A p \in Pollers : pc'[p] \in Busy => member'[p] = member[p] /\ member[p] \in Members,
         \A p \in Pollers : pc'[p] \in Busy =>
           \/ pc'[p] = pc[p]
           \/ pc[p] \in Busy /\ pc'[p] \notin {"requeueRem", "dlq", "requeueAdd"}
           \/ pc[p] = "requeueRem" /\ pc'[p] = "requeueAdd"
  PROVE  CountInv'
<1> USE DestroyQueueAssumption
<1>0. \A m \in Members : Counted(m) => Counted(m)'
  BY MemberParts DEF Counted, TypeInv
<1>1. QueueCounted'
  BY <1>0 DEF CountInv, QueueCounted, Counted
<1>2. DueCounted'
  BY <1>0 DEF CountInv, DueCounted, Counted, TypeInv
<1>3. MemberCounted'
  <2> SUFFICES ASSUME NEW p \in Pollers, pc'[p] \in Busy
               PROVE  /\ Counted(member[p])'
                      /\ pc'[p] \in {"requeueRem", "requeueAdd"} =>
                           /\ member'[p].attempt + 1 <= failures'[member'[p].job]
                           /\ member'[p].attempt + 1 < MaxDestroyRetries
                      /\ pc'[p] = "dlq" => failures'[member'[p].job] >= MaxDestroyRetries
    BY DEF MemberCounted, Busy, Counted
  <2>1. member'[p] = member[p] /\ member[p] \in Members /\ pc[p] \in Busy
    BY DEF Busy
  <2>2. member[p].job \in Jobs /\ member[p].attempt \in 0 .. MaxDestroyRetries
    BY <2>1, MemberParts
  <2>3. Counted(member[p]) /\ Counted(member[p])'
    BY <1>0, <2>1 DEF CountInv, MemberCounted, Counted
  <2>4. failures[member[p].job] <= failures'[member[p].job]
    BY <2>2
  <2> QED
    BY <2>1, <2>2, <2>3, <2>4 DEF CountInv, MemberCounted, Busy, TypeInv
<1>4. DLQOnlyExhausted'
  BY MemberParts DEF CountInv, DLQOnlyExhausted, TypeInv
<1> QED  BY <1>1, <1>2, <1>3, <1>4 DEF CountInv

(* The steps that queue, list, take, fail or give up a job count right;    *)
(* the others are covered by CountKept.                                    *)
LEMMA CountStep ==
  TypeInv /\ MemberKnown /\ TypeInv' /\ CountInv /\ [Next]_vars => CountInv'
<1> SUFFICES ASSUME TypeInv, MemberKnown, TypeInv', CountInv, [Next]_vars
             PROVE  CountInv'
  OBVIOUS
<1> USE DestroyQueueAssumption
<1>1. ASSUME NEW j \in Jobs, Schedule(j)
      PROVE  CountInv'
  <2> DEFINE n == [job |-> j, attempt |-> 0]
  <2>1. n \in Members /\ n.attempt = 0 /\ n.job = j
    BY DEF Members
  <2>2. Counted(n) /\ failures' = failures /\ dlq' = dlq
    BY <1>1, <2>1 DEF Counted, TypeInv, Schedule
  <2>3. \A m \in Members : queue'[m] # NoTime => queue[m] # NoTime \/ m = n
    BY <1>1, <2>1 DEF Schedule, TypeInv
  <2>4. QueueCounted'
    BY <2>2, <2>3 DEF CountInv, QueueCounted, Counted
  <2>5. DueCounted' /\ MemberCounted' /\ DLQOnlyExhausted'
    BY <1>1, <2>2 DEF Schedule, pollers, CountInv, DueCounted, MemberCounted, DLQOnlyExhausted, Counted
  <2> QED  BY <2>4, <2>5 DEF CountInv
<1>2. ASSUME NEW p \in Pollers, ListJobs(p)
      PROVE  CountInv'
  <2>1. \A q \in Pollers : \A m \in due'[q] :
          m \in Members /\ (m \in due[q] \/ queue[m] # NoTime)
    <3> SUFFICES ASSUME NEW q \in Pollers, NEW m \in due'[q], m \notin due[q]
                 PROVE  m \in Members /\ queue[m] # NoTime
      BY DEF TypeInv
    <3>1. q = p /\ due' = [due EXCEPT ![p] = {n \in Members : queue[n] \in 0 .. redisNow[p]}]
      BY <1>2 DEF ListJobs, TypeInv
    <3>2. m \in Members /\ queue[m] \in 0 .. redisNow[p]
      BY <3>1 DEF TypeInv
    <3> QED  BY <3>2 DEF NoTime, TypeInv
  <2>2. DueCounted'
    BY <1>2, <2>1 DEF ListJobs, stores, CountInv, DueCounted, QueueCounted, Counted
  <2>3. QueueCounted' /\ MemberCounted' /\ DLQOnlyExhausted'
    BY <1>2 DEF ListJobs, Goto, stores, CountInv, QueueCounted, MemberCounted, DLQOnlyExhausted,
                Counted, TypeInv, Busy
  <2> QED  BY <2>2, <2>3 DEF CountInv
<1>3. ASSUME NEW p \in Pollers, TakeJob(p)
      PROVE  CountInv'
  <2>1. PICK m \in due[p] : member' = [member EXCEPT ![p] = m] /\ due' = [due EXCEPT ![p] = @ \ {m}]
    BY <1>3 DEF TakeJob
  <2>2. Counted(m)
    BY DEF CountInv, DueCounted
  <2>3. MemberCounted'
    BY <1>3, <2>1, <2>2 DEF TakeJob, Goto, stores, CountInv, MemberCounted, Counted, TypeInv, Busy
  <2>4. QueueCounted' /\ DueCounted' /\ DLQOnlyExhausted'
    BY <1>3, <2>1 DEF TakeJob, stores, CountInv, QueueCounted, DueCounted, DLQOnlyExhausted, Counted, TypeInv
  <2> QED  BY <2>3, <2>4 DEF CountInv
<1>4. ASSUME NEW p \in Pollers, DeleteFile(p)
      PROVE  CountInv'
  <2> DEFINE j == member[p].job
  <2>1. member[p] \in Members /\ j \in Jobs /\ member[p].attempt \in 0 .. MaxDestroyRetries
    BY <1>4, MemberParts DEF DeleteFile, MemberKnown, Busy
  <2>2. CASE UNCHANGED failures /\ Goto(p, "token")
    BY <1>4, <2>1, <2>2, CountKept DEF DeleteFile, Goto, TypeInv, Busy, MemberKnown
  <2>3. CASE /\ CountFailure(j)
             /\ Goto(p, IF GivesUp(member[p].attempt) THEN "dlq" ELSE "requeueRem")
    <3>1. /\ \A i \in Jobs : failures[i] <= failures'[i]
          /\ member[p].attempt + 1 <= failures'[j] \/ failures'[j] = MaxDestroyRetries
      BY <1>4, <2>1, <2>3, CountGrows DEF CountInv, MemberCounted, Counted, DeleteFile, Busy
    <3>2. failures' \in [Jobs -> 0 .. MaxDestroyRetries]
      BY DEF TypeInv
    <3>3. \A m \in Members : Counted(m) => Counted(m)'
      BY <3>1, <3>2, MemberParts DEF Counted, TypeInv
    <3>4. QueueCounted' /\ DueCounted' /\ DLQOnlyExhausted'
      BY <1>4, <3>1, <3>2, <3>3, MemberParts
         DEF DeleteFile, CountInv, QueueCounted, DueCounted, DLQOnlyExhausted, Counted, TypeInv
    <3>5. MemberCounted'
      <4> SUFFICES ASSUME NEW q \in Pollers, pc'[q] \in Busy
                   PROVE  /\ Counted(member[q])'
                          /\ pc'[q] \in {"requeueRem", "requeueAdd"} =>
                               /\ member'[q].attempt + 1 <= failures'[member'[q].job]
                               /\ member'[q].attempt + 1 < MaxDestroyRetries
                          /\ pc'[q] = "dlq" => failures'[member'[q].job] >= MaxDestroyRetries
        BY DEF MemberCounted, Busy, Counted
      <4>1. member' = member
        BY <1>4 DEF DeleteFile
      <4>2. CASE q = p
        <5>1. pc'[p] = IF GivesUp(member[p].attempt) THEN "dlq" ELSE "requeueRem"
          BY <2>3 DEF Goto, TypeInv
        <5>2. pc[p] \in Busy
          BY <1>4 DEF DeleteFile, Busy
        <5>3. Counted(member[p])'
          BY <2>1, <3>3, <4>1, <5>2 DEF CountInv, MemberCounted, Counted
        <5> QED
          BY <2>1, <3>1, <3>2, <4>1, <4>2, <5>1, <5>3 DEF GivesUp, Counted
      <4>3. CASE q # p
        <5>1. pc'[q] = pc[q] /\ member[q] \in Members
          BY <2>3, <4>3 DEF Goto, TypeInv, MemberKnown
        <5>2. member[q].job \in Jobs
          BY <5>1, MemberParts
        <5>3. Counted(member[q])'
          BY <3>3, <4>1, <5>1 DEF CountInv, MemberCounted, Counted
        <5> QED
          BY <3>1, <3>2, <4>1, <5>1, <5>2, <5>3, MemberParts
             DEF CountInv, MemberCounted, TypeInv, Counted
      <4> QED  BY <4>2, <4>3
    <3> QED  BY <3>4, <3>5 DEF CountInv
  <2> QED  BY <1>4, <2>2, <2>3 DEF DeleteFile
<1>5. ASSUME NEW p \in Pollers, AddToDLQ(p)
      PROVE  CountInv'
  <2>1. member[p] \in Members /\ failures[member[p].job] >= MaxDestroyRetries
    BY <1>5 DEF AddToDLQ, MemberKnown, Busy, CountInv, MemberCounted
  <2>2. DLQOnlyExhausted'
    BY <1>5, <2>1 DEF AddToDLQ, CountInv, DLQOnlyExhausted, TypeInv
  <2>3. QueueCounted' /\ DueCounted' /\ MemberCounted'
    BY <1>5 DEF AddToDLQ, Goto, CountInv, QueueCounted, DueCounted, MemberCounted, Counted, TypeInv, Busy
  <2> QED  BY <2>2, <2>3 DEF CountInv
<1>6. ASSUME NEW p \in Pollers, RequeueAdd(p)
      PROVE  CountInv'
  <2> DEFINE n == NextAttempt(member[p])
  <2>1. /\ member[p] \in Members
        /\ member[p].attempt + 1 <= failures[member[p].job]
        /\ member[p].attempt + 1 < MaxDestroyRetries
    BY <1>6 DEF RequeueAdd, MemberKnown, Busy, CountInv, MemberCounted
  <2>2. n \in Members /\ Counted(n)
    BY <2>1, NextMember DEF Counted
  <2>3. \A m \in Members : queue'[m] # NoTime => queue[m] # NoTime \/ m = n
    BY <1>6, <2>2 DEF RequeueAdd, TypeInv
  <2>4. QueueCounted'
    BY <1>6, <2>2, <2>3 DEF RequeueAdd, CountInv, QueueCounted, Counted
  <2>5. DueCounted' /\ MemberCounted' /\ DLQOnlyExhausted'
    BY <1>6 DEF RequeueAdd, Goto, CountInv, DueCounted, MemberCounted, DLQOnlyExhausted,
                Counted, TypeInv, Busy
  <2> QED  BY <2>4, <2>5 DEF CountInv
<1>7. ASSUME NEW p \in Pollers,
             Poll(p) \/ EndPass(p) \/ DelToken(p) \/ MarkDestroyed(p) \/ Dequeue(p) \/ RequeueRem(p) \/ Crash(p)
      PROVE  CountInv'
  <2>1. UNCHANGED <<dlq, failures>> /\ \A m \in Members : queue'[m] # NoTime => queue[m] # NoTime
    BY <1>7 DEF Poll, EndPass, DelToken, MarkDestroyed, Dequeue, RequeueRem, Crash, stores, TypeInv
  <2>2. \A q \in Pollers : due'[q] \subseteq due[q]
    BY <1>7 DEF Poll, EndPass, DelToken, MarkDestroyed, Dequeue, RequeueRem, Crash, TypeInv
  <2>3. \A q \in Pollers : pc'[q] \in Busy => member'[q] = member[q] /\ member[q] \in Members
    BY <1>7 DEF Poll, EndPass, DelToken, MarkDestroyed, Dequeue, RequeueRem, Crash, Goto, TypeInv,
                MemberKnown, Busy
  <2>4. \A q \in Pollers : pc'[q] \in Busy =>
          \/ pc'[q] = pc[q]
          \/ pc[q] \in Busy /\ pc'[q] \notin {"requeueRem", "dlq", "requeueAdd"}
          \/ pc[q] = "requeueRem" /\ pc'[q] = "requeueAdd"
    BY <1>7 DEF Poll, EndPass, DelToken, MarkDestroyed, Dequeue, RequeueRem, Crash, Goto, TypeInv, Busy
  <2>5. \A j \in Jobs : failures[j] <= failures'[j]
    BY <2>1 DEF TypeInv
  <2> QED  BY <2>1, <2>2, <2>3, <2>4, <2>5, CountKept
<1>8. CASE CleanStale \/ Tick \/ UNCHANGED vars
  <2>1. UNCHANGED <<failures, due, member, pc>>
    BY <1>8 DEF CleanStale, Tick, vars, pollers
  <2>2. /\ \A m \in Members : queue'[m] # NoTime => queue[m] # NoTime
        /\ \A m \in Members : dlq'[m] # NoTime => dlq[m] # NoTime
    BY <1>8 DEF CleanStale, Tick, vars, stores, TypeInv
  <2> QED  BY <2>1, <2>2, CountKept DEF TypeInv, MemberKnown
<1> QED
  BY <1>1, <1>2, <1>3, <1>4, <1>5, <1>6, <1>7, <1>8 DEF Next, PollerStep

-------------------------------------------------------------------------------
(* No job is handed to the operator before its deletion has failed         *)
(* MaxDestroyRetries times, for every number of instances that run it.     *)
THEOREM DLQExhausted == Spec => []DLQOnlyExhausted
<1>1. TypeInv /\ MemberKnown /\ CountInv /\ [Next]_vars => (TypeInv /\ MemberKnown /\ CountInv)'
  BY TypeStep, CountStep
<1>2. CountInv => DLQOnlyExhausted
  BY DEF CountInv
<1> QED  BY <1>1, <1>2, InitInv, PTL DEF Spec

-------------------------------------------------------------------------------
(***************************************************************************)
(* Types of the stores                                                     *)
(***************************************************************************)
StoreTypes ==
  /\ queue \in [Members -> Int]
  /\ scheduled \subseteq Jobs
  /\ files \subseteq Jobs
  /\ tokens \subseteq Jobs
  /\ marked \subseteq Jobs
  /\ dropped \subseteq Jobs

(* A score is a time, whatever the backoff is. *)
LEMMA HorizonSet == \A t : Horizon(t) \in Int /\ Horizon(t) # NoTime
BY DestroyQueueAssumption DEF Horizon, NoTime

LEMMA InitStores == Init => StoreTypes
BY DEF Init, StoreTypes, NoTime

LEMMA StoresStep == TypeInv /\ MemberKnown /\ StoreTypes /\ [Next]_vars => StoreTypes'
<1> SUFFICES ASSUME TypeInv, MemberKnown, StoreTypes, [Next]_vars PROVE StoreTypes'
  OBVIOUS
<1> USE DEF StoreTypes
<1>1. ASSUME NEW j \in Jobs, Schedule(j) PROVE StoreTypes'
  BY <1>1, HorizonSet DEF Schedule
<1>2. ASSUME NEW p \in Pollers, PollerStep(p) \/ Crash(p), pc[p] \in Busy PROVE StoreTypes'
  <2>1. member[p] \in Members /\ member[p].job \in Jobs
    BY <1>2, MemberParts DEF MemberKnown
  <2>2. CASE Crash(p)
    BY <2>1, <2>2 DEF Crash, Lose, stores
  <2>3. CASE DeleteFile(p)
    BY <2>3 DEF DeleteFile
  <2>4. CASE DelToken(p) \/ MarkDestroyed(p)
    BY <2>1, <2>4 DEF DelToken, MarkDestroyed
  <2>5. CASE AddToDLQ(p)
    BY <2>1, <2>5 DEF AddToDLQ, Lose
  <2>6. CASE Dequeue(p) \/ RequeueRem(p)
    BY <2>1, <2>6 DEF Dequeue, RequeueRem, NoTime
  <2>7. CASE RequeueAdd(p)
    BY <2>1, <2>7, HorizonSet DEF RequeueAdd, Lose, NextAttempt
  <2>8. ~(Poll(p) \/ ListJobs(p) \/ TakeJob(p) \/ EndPass(p))
    BY <1>2 DEF Poll, ListJobs, TakeJob, EndPass, Busy
  <2> QED BY <1>2, <2>2, <2>3, <2>4, <2>5, <2>6, <2>7, <2>8 DEF PollerStep
<1>3. ASSUME NEW p \in Pollers, PollerStep(p) \/ Crash(p), pc[p] \notin Busy PROVE StoreTypes'
  BY <1>3 DEF PollerStep, Poll, ListJobs, TakeJob, DeleteFile, DelToken, MarkDestroyed, AddToDLQ,
     Dequeue, RequeueRem, RequeueAdd, EndPass, Crash, Busy, stores
<1>4. CASE CleanStale
  <2>1. {m.job : m \in StaleMembers} \subseteq Jobs
    BY MemberParts DEF StaleMembers
  <2> QED BY <1>4, <2>1 DEF CleanStale, Lose, NoTime
<1>5. CASE Tick \/ UNCHANGED vars
  BY <1>5 DEF Tick, vars, stores
<1> QED BY <1>1, <1>2, <1>3, <1>4, <1>5 DEF Next

(* DestroyQueue: every variable keeps its type. *)
THEOREM QueueTypes == Spec => []TypeOK
<1>1. TypeInv /\ StoreTypes => TypeOK
  BY DestroyQueueAssumption DEF TypeInv, StoreTypes, TypeOK
<1> QED BY <1>1, InitInv, TypeStep, InitStores, StoresStep, PTL DEF Spec

-------------------------------------------------------------------------------
(***************************************************************************)
(* No file is forgotten                                                    *)
(***************************************************************************)
(* A member is dequeued for good when its file is gone, when it has been   *)
(* dead-lettered, or when the dead-letter entry is known to be lost.       *)
DequeuedForGood ==
  \A p \in Pollers, j \in Jobs :
    pc[p] = "zrem" /\ member[p].job = j => j \notin files \/ DeadLettered(j) \/ j \in dropped

(* Losing a dead letter, or queueing one, is recorded. *)
LEMMA DeadLettersKept ==
  ASSUME TypeInv, MemberKnown, [Next]_vars, NEW j \in Jobs, DeadLettered(j)
  PROVE  DeadLettered(j)' \/ j \in dropped'
<1>1. PICK m \in Members : m.job = j /\ dlq[m] # NoTime
  BY DEF DeadLettered
<1>2. ASSUME NEW p \in Pollers, AddToDLQ(p) PROVE DeadLettered(j)'
  BY <1>1, <1>2 DEF AddToDLQ, DeadLettered, TypeInv, NoTime
<1>3. CASE CleanStale
  <2>1. CASE m \in StaleMembers
    BY <1>1, <1>3, <2>1 DEF CleanStale, Lose
  <2>2. CASE m \notin StaleMembers
    <3>1. dlq'[m] = dlq[m]
      BY <1>1, <1>3, <2>2 DEF CleanStale, StaleMembers
    <3> QED BY <1>1, <3>1 DEF DeadLettered
  <2> QED BY <2>1, <2>2
<1>4. CASE UNCHANGED dlq
  BY <1>1, <1>4 DEF DeadLettered
<1> QED
  BY <1>2, <1>3, <1>4 DEF Next, PollerStep, Schedule, Poll, ListJobs, TakeJob, DeleteFile,
     DelToken, MarkDestroyed, Dequeue, RequeueRem, RequeueAdd, EndPass, Crash, Tick, vars, stores

(* What is recorded as lost stays so; a file never comes back. *)
LEMMA RecordsGrow ==
  ASSUME [Next]_vars
  PROVE  dropped \subseteq dropped' /\ files' \subseteq files
BY DEF Next, PollerStep, Schedule, Poll, ListJobs, TakeJob, DeleteFile, DelToken, MarkDestroyed,
   AddToDLQ, Dequeue, RequeueRem, RequeueAdd, EndPass, Crash, CleanStale, Tick, vars, stores, Lose

LEMMA DequeuedStep ==
  TypeInv /\ MemberKnown /\ CleanedFileGone /\ DequeuedForGood /\ [Next]_vars => DequeuedForGood'
<1> SUFFICES ASSUME TypeInv, MemberKnown, CleanedFileGone, DequeuedForGood, [Next]_vars,
                    NEW p \in Pollers, NEW j \in Jobs, pc'[p] = "zrem", member'[p].job = j
             PROVE  j \notin files' \/ DeadLettered(j)' \/ j \in dropped'
  BY DEF DequeuedForGood
<1>1. CASE pc[p] = "zrem" /\ member'[p] = member[p]
  <2>1. j \notin files \/ DeadLettered(j) \/ j \in dropped
    BY <1>1 DEF DequeuedForGood
  <2> QED BY <2>1, DeadLettersKept, RecordsGrow
<1>2. CASE MarkDestroyed(p)
  BY <1>2 DEF MarkDestroyed, CleanedFileGone
<1>3. CASE AddToDLQ(p)
  <2>1. member[p] \in Members
    BY <1>3 DEF AddToDLQ, MemberKnown, Busy
  <2>2. redisNow[p] # NoTime
    BY DEF TypeInv, NoTime
  <2>3. member'[p] = member[p] /\ member[p].job = j
    BY <1>3 DEF AddToDLQ
  <2>4. CASE dlq' = [dlq EXCEPT ![member[p]] = redisNow[p]]
    <3>1. dlq'[member[p]] # NoTime
      BY <2>1, <2>2, <2>4 DEF TypeInv
    <3> QED BY <2>1, <2>3, <3>1 DEF DeadLettered
  <2>5. CASE Lose({member[p].job})
    BY <2>3, <2>5 DEF Lose
  <2> QED BY <1>3, <2>4, <2>5 DEF AddToDLQ
<1>4. ASSUME NEW q \in Pollers, q # p, PollerStep(q) \/ Crash(q)
      PROVE  pc[p] = "zrem" /\ member'[p] = member[p]
  BY <1>4 DEF PollerStep, Poll, ListJobs, TakeJob, DeleteFile, DelToken, MarkDestroyed, AddToDLQ,
     Dequeue, RequeueRem, RequeueAdd, EndPass, Crash, Goto, TypeInv
<1>5. CASE PollerStep(p) \/ Crash(p)
  <2>1. MarkDestroyed(p) \/ AddToDLQ(p)
    BY <1>5 DEF PollerStep, Poll, ListJobs, TakeJob, DeleteFile, DelToken, Dequeue, RequeueRem,
       RequeueAdd, EndPass, Crash, Goto, TypeInv
  <2> QED BY <1>2, <1>3, <2>1
<1>6. CASE (\E i \in Jobs : Schedule(i)) \/ CleanStale \/ Tick \/ UNCHANGED vars
  BY <1>1, <1>6 DEF Schedule, CleanStale, Tick, vars, pollers
<1> QED BY <1>1, <1>4, <1>5, <1>6 DEF Next

(* The job is on record: queued, between ZREM and ZADD, or dead-lettered.  *)
OnRecord(j) == Queued(j) \/ Requeueing(j) \/ DeadLettered(j)

(* Scheduling puts a job on record. *)
LEMMA ScheduledOnRecord ==
  ASSUME TypeInv, [Next]_vars, NEW j \in Jobs, j \in scheduled', j \notin scheduled
  PROVE  OnRecord(j)'
<1>1. Schedule(j)
  BY DEF Next, PollerStep, Schedule, Poll, ListJobs, TakeJob, DeleteFile, DelToken,
     MarkDestroyed, AddToDLQ, Dequeue, RequeueRem, RequeueAdd, EndPass, Crash, CleanStale, Tick,
     vars, stores
<1>2. [job |-> j, attempt |-> 0] \in Members
  BY DestroyQueueAssumption DEF Members
<1> QED BY <1>1, <1>2, HorizonSet DEF Schedule, Queued, OnRecord, TypeInv

(* Only a ZREM for good, or a loss that is recorded, takes a job off the   *)
(* record.                                                                 *)
LEMMA OnRecordStep ==
  ASSUME TypeInv, MemberKnown, CountInv, [Next]_vars, NEW j \in Jobs, OnRecord(j),
         j \notin dropped'
  PROVE  OnRecord(j)' \/ \E p \in Pollers : Dequeue(p) /\ member[p].job = j
<1> USE DEF OnRecord
<1>1. CASE DeadLettered(j)
  BY <1>1, DeadLettersKept
<1>2. CASE Requeueing(j)
  <2>1. PICK p \in Pollers : pc[p] = "requeueAdd" /\ member[p].job = j
    BY <1>2 DEF Requeueing
  <2>2. CASE RequeueAdd(p)
    <3> DEFINE m == NextAttempt(member[p])
    <3>1. m.job = j
      BY <2>1 DEF NextAttempt
    <3>2. CASE Lose({m.job})
      BY <3>1, <3>2 DEF Lose
    <3>3. CASE queue' = [queue EXCEPT ![m] = Horizon(redisNow[p] + Backoff(m.attempt))]
      <4>1. m \in Members
        BY <2>1, NextMember DEF MemberKnown, Busy, CountInv, MemberCounted
      <4>2. queue'[m] # NoTime
        BY <3>3, <4>1, HorizonSet DEF TypeInv
      <4> QED BY <3>1, <4>1, <4>2 DEF Queued
    <3> QED BY <2>2, <3>2, <3>3 DEF RequeueAdd
  <2>3. CASE Crash(p)
    BY <2>1, <2>3 DEF Crash, Lose
  <2>4. CASE pc'[p] = pc[p] /\ member'[p] = member[p]
    BY <2>1, <2>4 DEF Requeueing
  <2> QED
    BY <2>1, <2>2, <2>3, <2>4 DEF Next, PollerStep, Poll, ListJobs, TakeJob, DeleteFile, DelToken,
       MarkDestroyed, AddToDLQ, Dequeue, RequeueRem, RequeueAdd, EndPass, Crash, Goto, TypeInv,
       Schedule, CleanStale, Tick, vars, pollers
<1>3. CASE Queued(j)
  <2>1. PICK m \in Members : m.job = j /\ queue[m] # NoTime
    BY <1>3 DEF Queued
  <2>2. ASSUME NEW p \in Pollers, Dequeue(p), member[p].job # j PROVE Queued(j)'
    BY <2>1, <2>2 DEF Dequeue, Queued, TypeInv
  <2>3. ASSUME NEW p \in Pollers, RequeueRem(p) PROVE Queued(j)' \/ Requeueing(j)'
    <3>1. CASE member[p].job = j
      BY <2>3, <3>1 DEF RequeueRem, Goto, Requeueing, TypeInv
    <3>2. CASE member[p].job # j
      BY <2>1, <2>3, <3>2 DEF RequeueRem, Queued, TypeInv
    <3> QED BY <3>1, <3>2
  <2>4. CASE CleanStale
    <3>1. m \notin StaleMembers
      BY <2>1, <2>4 DEF CleanStale, Lose
    <3>2. queue'[m] = queue[m]
      BY <2>1, <2>4, <3>1 DEF CleanStale, StaleMembers
    <3> QED BY <2>1, <3>2 DEF Queued
  <2>5. ASSUME NEW i \in Jobs, Schedule(i) PROVE Queued(j)'
    BY <2>1, <2>5, HorizonSet DEF Schedule, Queued, TypeInv
  <2>6. ASSUME NEW p \in Pollers, RequeueAdd(p) PROVE Queued(j)'
    <3>1. queue'[m] # NoTime
      BY <2>1, <2>6, HorizonSet DEF RequeueAdd, TypeInv
    <3> QED BY <2>1, <3>1 DEF Queued
  <2>7. CASE UNCHANGED queue
    BY <2>1, <2>7 DEF Queued
  <2> QED
    BY <2>2, <2>3, <2>4, <2>5, <2>6, <2>7 DEF Next, PollerStep, Poll, ListJobs, TakeJob,
       DeleteFile, DelToken, MarkDestroyed, AddToDLQ, EndPass, Crash, Tick, vars, stores
<1> QED BY <1>1, <1>2, <1>3

(* The ZREM of a job whose file is still there leaves it dead-lettered.    *)
LEMMA KeptStep ==
  ASSUME TypeInv, MemberKnown, CountInv, NoFileForgotten, DequeuedForGood, [Next]_vars,
         NEW j \in Jobs, j \in scheduled', j \in files', j \notin dropped'
  PROVE  OnRecord(j)'
<1>1. j \in files /\ j \notin dropped
  BY RecordsGrow
<1>2. CASE j \notin scheduled
  BY <1>2, ScheduledOnRecord
<1>3. CASE j \in scheduled
  <2>1. OnRecord(j)
    BY <1>1, <1>3 DEF NoFileForgotten, OnRecord
  <2>2. ASSUME NEW p \in Pollers, Dequeue(p), member[p].job = j PROVE OnRecord(j)'
    <3>1. DeadLettered(j)
      BY <1>1, <2>2 DEF Dequeue, DequeuedForGood
    <3> QED BY <3>1, DeadLettersKept DEF OnRecord
  <2> QED BY <2>1, <2>2, OnRecordStep
<1> QED BY <1>2, <1>3

(* A file whose job no call failed to record and no crash interrupted      *)
(* between ZREM and ZADD is still on its way to deletion, or with the      *)
(* operator.                                                               *)
THEOREM FilesRemembered == Spec => []NoFileForgotten
<1>1. Init => NoFileForgotten /\ DequeuedForGood
  BY DEF Init, NoFileForgotten, DequeuedForGood
<1>2. TypeInv /\ MemberKnown /\ CleanedFileGone /\ DequeuedForGood /\ [Next]_vars => DequeuedForGood'
  BY DequeuedStep
<1>3. /\ TypeInv /\ MemberKnown /\ CountInv /\ NoFileForgotten /\ DequeuedForGood
      /\ StoreTypes' /\ [Next]_vars
      => NoFileForgotten'
  <2> SUFFICES ASSUME TypeInv, MemberKnown, CountInv, NoFileForgotten, DequeuedForGood,
                      StoreTypes', [Next]_vars,
                      NEW j \in Jobs, j \in scheduled', j \in files', j \notin dropped'
               PROVE  OnRecord(j)'
    BY DEF NoFileForgotten, StoreTypes, OnRecord
  <2> QED BY KeptStep
<1> QED
  BY <1>1, <1>2, <1>3, InitStores, StoresStep, TypeStep, FilesStep, CountStep, InitInv, PTL DEF Spec

-------------------------------------------------------------------------------
(***************************************************************************)
(* No job is lost                                                          *)
(***************************************************************************)
(* While Redis answers, DEL and SETEX have done their work before the      *)
(* member is removed.                                                      *)
CleanedInOrder ==
  \A p \in Pollers :
    /\ pc[p] = "mark" => member[p].job \notin tokens
    /\ pc[p] = "zrem" => \/ Destroyed(member[p].job)
                         \/ DeadLettered(member[p].job)
                         \/ member[p].job \in dropped

(* A destroyed share stays so. *)
LEMMA DestroyedStays ==
  ASSUME [Next]_vars, NEW j, Destroyed(j)
  PROVE  Destroyed(j)'
BY DEF Destroyed, Next, PollerStep, Schedule, Poll, ListJobs, TakeJob, DeleteFile, DelToken,
   MarkDestroyed, AddToDLQ, Dequeue, RequeueRem, RequeueAdd, EndPass, Crash, CleanStale, Tick,
   vars, stores

LEMMA CleanedStep ==
  ASSUME RedisFaults = FALSE, TypeInv, MemberKnown, CleanedFileGone, CleanedInOrder, [Next]_vars
  PROVE  CleanedInOrder'
<1> SUFFICES ASSUME NEW p \in Pollers
             PROVE  /\ pc'[p] = "mark" => member'[p].job \notin tokens'
                    /\ pc'[p] = "zrem" => \/ Destroyed(member[p].job)'
                                          \/ DeadLettered(member[p].job)'
                                          \/ member'[p].job \in dropped'
  BY DEF CleanedInOrder
<1> DEFINE j == member[p].job
<1>1. CASE pc'[p] = pc[p] /\ member'[p] = member[p]
  <2>1. ASSUME pc[p] = "zrem"
        PROVE  Destroyed(member[p].job)' \/ DeadLettered(member[p].job)' \/ member'[p].job \in dropped'
    <3>1. PICK i \in Jobs : i = member[p].job
      BY <2>1, MemberParts DEF MemberKnown, Busy
    <3>2. Destroyed(i) \/ DeadLettered(i) \/ i \in dropped
      BY <2>1, <3>1 DEF CleanedInOrder
    <3>3. Destroyed(i)' \/ DeadLettered(i)' \/ i \in dropped'
      BY <3>2, DestroyedStays, DeadLettersKept, RecordsGrow
    <3> QED BY <1>1, <3>1, <3>3 DEF Destroyed, DeadLettered
  <2>2. tokens' \subseteq tokens
    BY DEF Next, PollerStep, Schedule, Poll, ListJobs, TakeJob, DeleteFile, DelToken,
       MarkDestroyed, AddToDLQ, Dequeue, RequeueRem, RequeueAdd, EndPass, Crash, CleanStale, Tick,
       vars, stores
  <2> QED BY <1>1, <2>1, <2>2 DEF CleanedInOrder
<1>2. CASE DelToken(p)
  BY <1>2 DEF DelToken, Goto, TypeInv
<1>3. CASE MarkDestroyed(p)
  <2>1. j \notin files /\ j \notin tokens
    BY <1>3 DEF MarkDestroyed, CleanedFileGone, CleanedInOrder
  <2>2. Destroyed(j)' /\ member'[p] = member[p]
    BY <1>3, <2>1 DEF MarkDestroyed, Destroyed
  <2> QED BY <1>3, <2>2 DEF MarkDestroyed, Goto, TypeInv, Destroyed
<1>4. CASE AddToDLQ(p)
  <2>1. member[p] \in Members
    BY <1>4 DEF AddToDLQ, MemberKnown, Busy
  <2>2. dlq' = [dlq EXCEPT ![member[p]] = redisNow[p]] /\ redisNow[p] # NoTime
    BY <1>4 DEF AddToDLQ, TypeInv, NoTime
  <2>3. DeadLettered(j)' /\ member'[p] = member[p]
    BY <1>4, <2>1, <2>2 DEF AddToDLQ, DeadLettered, TypeInv
  <2> QED BY <1>4, <2>3 DEF AddToDLQ, Goto, TypeInv, DeadLettered
<1>5. CASE (PollerStep(p) \/ Crash(p)) /\ ~ (DelToken(p) \/ MarkDestroyed(p) \/ AddToDLQ(p))
  BY <1>5 DEF PollerStep, Poll, ListJobs, TakeJob, DeleteFile, Dequeue, RequeueRem,
     RequeueAdd, EndPass, Crash, Goto, TypeInv
<1>6. ASSUME NEW q \in Pollers, q # p, PollerStep(q) \/ Crash(q)
      PROVE  pc'[p] = pc[p] /\ member'[p] = member[p]
  BY <1>6 DEF PollerStep, Poll, ListJobs, TakeJob, DeleteFile, DelToken, MarkDestroyed, AddToDLQ,
     Dequeue, RequeueRem, RequeueAdd, EndPass, Crash, Goto, TypeInv
<1>7. CASE (\E i \in Jobs : Schedule(i)) \/ CleanStale \/ Tick \/ UNCHANGED vars
  BY <1>1, <1>7 DEF Schedule, CleanStale, Tick, vars, pollers
<1> QED BY <1>1, <1>2, <1>3, <1>4, <1>5, <1>6, <1>7 DEF Next

(* Every job is on record, done, or known to be lost. *)
JobAccounted == \A j \in scheduled : OnRecord(j) \/ Destroyed(j) \/ j \in dropped

LEMMA AccountedStep ==
  ASSUME TypeInv, MemberKnown, CountInv, StoreTypes', CleanedInOrder, JobAccounted, [Next]_vars
  PROVE  JobAccounted'
<1> SUFFICES ASSUME NEW j \in Jobs, j \in scheduled', j \notin dropped'
             PROVE  OnRecord(j)' \/ Destroyed(j)'
  BY DEF JobAccounted, StoreTypes
<1>1. CASE j \notin scheduled
  BY <1>1, ScheduledOnRecord
<1>2. CASE Destroyed(j)
  BY <1>2, DestroyedStays
<1>3. CASE OnRecord(j)
  <2>1. ASSUME NEW p \in Pollers, Dequeue(p), member[p].job = j PROVE OnRecord(j)' \/ Destroyed(j)'
    <3>1. Destroyed(j) \/ DeadLettered(j)
      BY <2>1, RecordsGrow DEF Dequeue, CleanedInOrder
    <3> QED BY <3>1, DestroyedStays, DeadLettersKept DEF OnRecord
  <2> QED BY <1>3, <2>1, OnRecordStep
<1> QED BY <1>1, <1>2, <1>3, RecordsGrow DEF JobAccounted

(* While Redis answers, a job is queued, being re-queued, dead-lettered or *)
(* done, unless an entry of it went stale or an instance died between ZREM *)
(* and ZADD.                                                               *)
THEOREM JobsAccounted ==
  ASSUME RedisFaults = FALSE
  PROVE  Spec => []JobAccounted
<1>1. Init => CleanedInOrder /\ JobAccounted
  BY DEF Init, CleanedInOrder, JobAccounted
<1>2. TypeInv /\ MemberKnown /\ CleanedFileGone /\ CleanedInOrder /\ [Next]_vars => CleanedInOrder'
  BY CleanedStep
<1>3. /\ TypeInv /\ MemberKnown /\ CountInv /\ CleanedInOrder /\ JobAccounted
      /\ StoreTypes' /\ [Next]_vars
      => JobAccounted'
  BY AccountedStep
<1> QED
  BY <1>1, <1>2, <1>3, InitStores, StoresStep, TypeStep, FilesStep, CountStep, InitInv, PTL DEF Spec

(* Scores are times, and before an entry can go stale none has. *)
Fresh ==
  /\ now <= MaxTime
  /\ \A m \in Members : queue[m] # NoTime => queue[m] >= 0
  /\ \A m \in Members : dlq[m] # NoTime => dlq[m] >= 0
  /\ dropped = {}

LEMMA FreshStep ==
  ASSUME RedisFaults = FALSE, Crashes = FALSE, MaxTime < QueueMaxAge, MaxTime < DLQMaxAge,
         TypeInv, MemberKnown, StoreTypes, Fresh, [Next]_vars
  PROVE  Fresh'
<1> USE DestroyQueueAssumption DEF Fresh, TypeInv, StoreTypes
<1>1. \A t : Horizon(t) >= 0
  BY DEF Horizon
<1>2. ASSUME NEW j \in Jobs, Schedule(j) PROVE Fresh'
  BY <1>1, <1>2 DEF Schedule
<1>3. ASSUME NEW p \in Pollers, PollerStep(p) PROVE Fresh'
  <2>1. CASE RequeueAdd(p)
    <3>1. UNCHANGED <<now, dlq, dropped>>
      BY <2>1 DEF RequeueAdd
    <3>2. \A m \in Members : queue'[m] = queue[m] \/ queue'[m] >= 0
      BY <1>1, <2>1 DEF RequeueAdd
    <3> QED BY <3>1, <3>2
  <2>2. CASE AddToDLQ(p)
    BY <2>2 DEF AddToDLQ
  <2>3. CASE Dequeue(p) \/ RequeueRem(p)
    BY <2>3 DEF Dequeue, RequeueRem
  <2> QED
    BY <1>3, <2>1, <2>2, <2>3 DEF PollerStep, Poll, ListJobs, TakeJob, DeleteFile, DelToken,
       MarkDestroyed, EndPass, stores
<1>4. CASE CleanStale
  <2>1. StaleMembers = {}
    BY DEF StaleMembers
  <2> QED BY <1>4, <2>1 DEF CleanStale, Lose
<1>5. CASE Tick
  BY <1>5 DEF Tick
<1>6. CASE UNCHANGED vars
  BY <1>6 DEF vars, stores
<1> QED BY <1>2, <1>3, <1>4, <1>5, <1>6 DEF Next, Crash

(* Without Redis failures or crashes, and before entries can go stale, a   *)
(* job leaves the queue only when its share is destroyed or it is in the   *)
(* dead-letter queue, whatever S3 does.                                    *)
THEOREM JobsKept ==
  ASSUME RedisFaults = FALSE, Crashes = FALSE, MaxTime < QueueMaxAge, MaxTime < DLQMaxAge
  PROVE  Spec => []JobKept
<1>1. Init => Fresh
  BY DestroyQueueAssumption DEF Init, Fresh
<1>2. TypeInv /\ MemberKnown /\ StoreTypes /\ Fresh /\ [Next]_vars => Fresh'
  BY FreshStep
<1>3. JobAccounted /\ Fresh => JobKept
  BY DEF JobAccounted, OnRecord, Fresh, JobKept
<1> QED
  BY <1>1, <1>2, <1>3, JobsAccounted, InitStores, StoresStep, TypeStep, InitInv, PTL DEF Spec

===============================================================================
