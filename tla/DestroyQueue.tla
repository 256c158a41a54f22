----------------------------- MODULE DestroyQueue -----------------------------
(***************************************************************************)
(* The destroy-queue poller of the cleanup worker (processDestroyQueue,    *)
(* executeDestroyJob, handleDestroyJobFailure), run by several instances   *)
(* without a lock.  Each Redis or S3 call is one step.  There is one job   *)
(* per consumed share; a job stands for its object and its token hash too. *)
(***************************************************************************)
EXTENDS Integers

CONSTANTS
  Jobs,              \* destruction jobs
  Pollers,           \* backend instances that poll the queue
  MaxDestroyRetries, \* cfg.MaxDestroyRetries
  BaseDelay,         \* destroyBaseDelaySeconds
  DestroyDelay,      \* PresignedURLTTLSeconds + DestructionGraceSeconds
  QueueMaxAge,       \* maxAge of destroy_queue in CleanStaleZSETEntries
  DLQMaxAge,         \* maxAge of destroy_dlq
  MaxTime,           \* bound on the clock (model checking only)
  RedisFaults,       \* may a Redis call fail?
  S3Faults,          \* may DeleteObject fail?
  Crashes            \* may an instance die or shut down between two calls?

ASSUME DestroyQueueAssumption ==
  /\ MaxDestroyRetries \in Nat
  /\ BaseDelay \in Nat
  /\ DestroyDelay \in Nat
  /\ QueueMaxAge \in Nat
  /\ DLQMaxAge \in Nat
  /\ MaxTime \in Nat
  /\ RedisFaults \in BOOLEAN
  /\ S3Faults \in BOOLEAN
  /\ Crashes \in BOOLEAN

VARIABLES
  now,       \* Redis server time
  scheduled, \* the jobs queued so far
  queue,     \* destroy_queue: the score of a member, or NoTime
  dlq,       \* destroy_dlq: likewise
  files,     \* jobs whose object is in the bucket
  tokens,    \* jobs whose token:{hash} exists
  marked,    \* jobs whose destroyed:{hash} was set
  failures,  \* history: failed DeleteObjects of a job, up to MaxDestroyRetries
  dropped,   \* history: jobs with an entry lost to a crash, a failed ZADD or staleness
  pc,        \* the next call of a poller
  redisNow,  \* redisNow, read once per pass
  due,       \* members still to execute
  member     \* the member being executed

stores == <<now, scheduled, queue, dlq, files, tokens, marked>>
pollers == <<pc, redisNow, due, member>>
history == <<failures, dropped>>
vars == <<stores, history, pollers>>

NoTime == -1
NoMember == [job |-> "none"]

Members == [job: Jobs, attempt: 0 .. MaxDestroyRetries]

TypeOK ==
  /\ now \in Nat
  /\ scheduled \subseteq Jobs
  /\ queue \in [Members -> Int]
  /\ dlq \in [Members -> Int]
  /\ files \subseteq Jobs
  /\ tokens \subseteq Jobs
  /\ marked \subseteq Jobs
  /\ failures \in [Jobs -> Nat]
  /\ dropped \subseteq Jobs
  /\ pc \in [Pollers -> {"idle", "list", "next", "delete", "token", "mark",
                         "dlq", "zrem", "requeueRem", "requeueAdd"}]
  /\ redisNow \in [Pollers -> Nat]
  /\ due \in [Pollers -> SUBSET Members]
  /\ member \in [Pollers -> Members \union {NoMember}]

(* Every share has been consumed: its token and its object exist. *)
Init ==
  /\ now = 0
  /\ scheduled = {}
  /\ queue = [m \in Members |-> NoTime]
  /\ dlq = [m \in Members |-> NoTime]
  /\ files = Jobs
  /\ tokens = Jobs
  /\ marked = {}
  /\ failures = [j \in Jobs |-> 0]
  /\ dropped = {}
  /\ pc = [p \in Pollers |-> "idle"]
  /\ redisNow = [p \in Pollers |-> 0]
  /\ due = [p \in Pollers |-> {}]
  /\ member = [p \in Pollers |-> NoMember]

-------------------------------------------------------------------------------
Goto(p, step) == pc' = [pc EXCEPT ![p] = step]

(* A time past the end of the modelled horizon is moved to its end. *)
Horizon(t) == IF t \in 0 .. MaxTime THEN t ELSE MaxTime

(* The download handler queues the job of a consumed share, once. *)
Schedule(j) ==
  /\ j \notin scheduled
  /\ scheduled' = scheduled \union {j}
  /\ queue' = [queue EXCEPT ![[job |-> j, attempt |-> 0]] = Horizon(now + DestroyDelay)]
  /\ UNCHANGED <<now, dlq, files, tokens, marked, history, pollers>>

(* A pass reads the Redis time. *)
Poll(p) ==
  /\ pc[p] = "idle"
  /\ redisNow' = [redisNow EXCEPT ![p] = now]
  /\ Goto(p, "list")
  /\ UNCHANGED <<stores, history, due, member>>

(* ZRANGEBYSCORE destroy_queue 0 redisNow; a failure ends the pass. *)
ListJobs(p) ==
  /\ pc[p] = "list"
  /\ \/ /\ due' = [due EXCEPT ![p] = {m \in Members : queue[m] \in 0 .. redisNow[p]}]
        /\ Goto(p, "next")
     \/ RedisFaults /\ Goto(p, "idle") /\ UNCHANGED due
  /\ UNCHANGED <<stores, history, redisNow, member>>

TakeJob(p) ==
  /\ pc[p] = "next"
  /\ \E m \in due[p] :
       /\ member' = [member EXCEPT ![p] = m]
       /\ due' = [due EXCEPT ![p] = @ \ {m}]
  /\ Goto(p, "delete")
  /\ UNCHANGED <<stores, history, redisNow>>

GivesUpEarly(attempt) == attempt + 1 >= MaxDestroyRetries - 1 \* mutant: off by one

(* job.Attempt++; job.Attempt >= MaxDestroyRetries. *)
GivesUp(attempt) == attempt + 1 >= MaxDestroyRetries

CountFailure(j) ==
  failures' = [failures EXCEPT ![j] = IF @ < MaxDestroyRetries THEN @ + 1 ELSE @]

(* DeleteObject, for which a missing object is a success.  A call reported *)
(* as failed may have deleted the object; the attempt ends with it, and    *)
(* the token and the marker are left to a later one.                       *)
DeleteFile(p) ==
  /\ pc[p] = "delete"
  /\ \/ /\ files' = files \ {member[p].job}
        /\ Goto(p, "token")
        /\ UNCHANGED failures
     \/ /\ S3Faults
        /\ files' \in {files, files \ {member[p].job}}
        /\ CountFailure(member[p].job)
        /\ Goto(p, IF GivesUp(member[p].attempt) THEN "dlq" ELSE "requeueRem")
  /\ UNCHANGED <<now, scheduled, queue, dlq, tokens, marked, dropped>>
  /\ UNCHANGED <<redisNow, due, member>>

(* DEL token:{hash} (and DEL lock:{hash}, a key nothing sets), then SETEX  *)
(* destroyed:{hash}; the result of either is ignored.                      *)
DelToken(p) ==
  /\ pc[p] = "token"
  /\ tokens' = tokens \ {member[p].job} \/ (RedisFaults /\ UNCHANGED tokens)
  /\ Goto(p, "mark")
  /\ UNCHANGED <<now, scheduled, queue, dlq, files, marked, history>>
  /\ UNCHANGED <<redisNow, due, member>>

MarkMember(p) == \* mutant: marks the member, not its token hash
  /\ pc[p] = "mark"
  /\ marked' = marked \union {member[p]} \/ (RedisFaults /\ UNCHANGED marked)
  /\ Goto(p, "zrem")
  /\ UNCHANGED <<now, scheduled, queue, dlq, files, tokens, history>>
  /\ UNCHANGED <<redisNow, due, member>>

MarkDestroyed(p) ==
  /\ pc[p] = "mark"
  /\ marked' = marked \union {member[p].job} \/ (RedisFaults /\ UNCHANGED marked)
  /\ Goto(p, "zrem")
  /\ UNCHANGED <<now, scheduled, queue, dlq, files, tokens, history>>
  /\ UNCHANGED <<redisNow, due, member>>

(* An entry of these jobs is lost. *)
Lose(J) == dropped' = dropped \union J

AddToDLQDropped(p) == \* mutant: gives the job up without a trace
  /\ pc[p] = "dlq"
  /\ Goto(p, "zrem")
  /\ UNCHANGED <<stores, history, redisNow, due, member>>

(* The last retry failed: ZADD destroy_dlq with the original member. *)
AddToDLQ(p) ==
  /\ pc[p] = "dlq"
  /\ \/ dlq' = [dlq EXCEPT ![member[p]] = redisNow[p]] /\ UNCHANGED dropped
     \/ RedisFaults /\ Lose({member[p].job}) /\ UNCHANGED dlq
  /\ Goto(p, "zrem")
  /\ UNCHANGED <<now, scheduled, queue, files, tokens, marked, failures>>
  /\ UNCHANGED <<redisNow, due, member>>

(* ZREM of a member that succeeded or went to the dead-letter queue. *)
Dequeue(p) ==
  /\ pc[p] = "zrem"
  /\ queue' = [queue EXCEPT ![member[p]] = NoTime] \/ (RedisFaults /\ UNCHANGED queue)
  /\ member' = [member EXCEPT ![p] = NoMember]
  /\ Goto(p, "next")
  /\ UNCHANGED <<now, scheduled, dlq, files, tokens, marked, history>>
  /\ UNCHANGED <<redisNow, due>>

Backoff(attempt) == BaseDelay * 2^attempt

(* ZREM the member, then ZADD it with the next attempt and its backoff. *)
RequeueRem(p) ==
  /\ pc[p] = "requeueRem"
  /\ queue' = [queue EXCEPT ![member[p]] = NoTime] \/ (RedisFaults /\ UNCHANGED queue)
  /\ Goto(p, "requeueAdd")
  /\ UNCHANGED <<now, scheduled, dlq, files, tokens, marked, history>>
  /\ UNCHANGED <<redisNow, due, member>>

NextAttemptSame(m) == m \* mutant: forgets to count the attempt

NextAttempt(m) == [job |-> m.job, attempt |-> m.attempt + 1]

RequeueAdd(p) ==
  LET m == NextAttempt(member[p]) IN
  /\ pc[p] = "requeueAdd"
  /\ \/ /\ queue' = [queue EXCEPT ![m] = Horizon(redisNow[p] + Backoff(m.attempt))]
        /\ UNCHANGED dropped
     \/ RedisFaults /\ Lose({m.job}) /\ UNCHANGED queue
  /\ member' = [member EXCEPT ![p] = NoMember]
  /\ Goto(p, "next")
  /\ UNCHANGED <<now, scheduled, dlq, files, tokens, marked, failures>>
  /\ UNCHANGED <<redisNow, due>>

(* The list is done. *)
EndPass(p) ==
  /\ pc[p] = "next"
  /\ due[p] = {}
  /\ Goto(p, "idle")
  /\ UNCHANGED <<stores, history, redisNow, due, member>>

(* The instance dies, or is told to stop between two jobs. *)
Crash(p) ==
  /\ Crashes
  /\ pc[p] # "idle"
  /\ Goto(p, "idle")
  /\ due' = [due EXCEPT ![p] = {}]
  /\ member' = [member EXCEPT ![p] = NoMember]
  /\ IF pc[p] = "requeueAdd" THEN Lose({member[p].job}) ELSE UNCHANGED dropped
  /\ UNCHANGED <<stores, failures, redisNow>>

PollerStep(p) ==
  \/ Poll(p)
  \/ ListJobs(p)
  \/ TakeJob(p)
  \/ DeleteFile(p)
  \/ DelToken(p)
  \/ MarkDestroyed(p)
  \/ AddToDLQ(p)
  \/ Dequeue(p)
  \/ RequeueRem(p)
  \/ RequeueAdd(p)
  \/ EndPass(p)

-------------------------------------------------------------------------------
(* CleanStaleZSETEntries, on the two sets of this module; against ages of  *)
(* a day and a week an instance's clock is the Redis clock.                *)
StaleMembers ==
  {m \in Members : \/ queue[m] # NoTime /\ queue[m] <= now - QueueMaxAge
                   \/ dlq[m] # NoTime /\ dlq[m] <= now - DLQMaxAge}

CleanStale ==
  /\ queue' = [m \in Members |-> IF queue[m] <= now - QueueMaxAge THEN NoTime ELSE queue[m]]
  /\ dlq' = [m \in Members |-> IF dlq[m] <= now - DLQMaxAge THEN NoTime ELSE dlq[m]]
  /\ Lose({m.job : m \in StaleMembers})
  /\ UNCHANGED <<now, scheduled, files, tokens, marked, failures, pollers>>

Tick ==
  /\ now < MaxTime
  /\ now' = now + 1
  /\ UNCHANGED <<scheduled, queue, dlq, files, tokens, marked, history, pollers>>

Next ==
  \/ \E j \in Jobs : Schedule(j)
  \/ \E p \in Pollers : PollerStep(p) \/ Crash(p)
  \/ CleanStale
  \/ Tick

Spec == Init /\ [][Next]_vars

(* Every instance's ticker starts a pass every few seconds and runs it to  *)
(* its end, and time goes on; nothing makes a client download.             *)
FairSpec == Spec /\ WF_vars(Tick) /\ \A p \in Pollers : WF_vars(PollerStep(p))

-------------------------------------------------------------------------------
(* worker.handleDestroyJobFailure: no job is given up to the dead-letter   *)
(* queue before its deletion has failed MaxDestroyRetries times, also when *)
(* two instances execute the same member.                                  *)
DLQOnlyExhausted ==
  \A m \in Members : dlq[m] # NoTime => failures[m.job] >= MaxDestroyRetries

Queued(j) == \E m \in Members : m.job = j /\ queue[m] # NoTime
DeadLettered(j) == \E m \in Members : m.job = j /\ dlq[m] # NoTime
Destroyed(j) == j \notin files /\ j \notin tokens /\ j \in marked

(* A poller has removed the job and is about to put it back. *)
Requeueing(j) == \E p \in Pollers : pc[p] = "requeueAdd" /\ member[p].job = j

(* worker.handleDestroyJobFailure and executeDestroyJob without Redis      *)
(* failures or crashes: a job leaves the queue only when its share is      *)
(* destroyed or it is in the dead-letter queue.                            *)
JobKept ==
  \A j \in scheduled : Queued(j) \/ Requeueing(j) \/ DeadLettered(j) \/ Destroyed(j)

(* worker.processDestroyQueue, as JobKept and under fairness: every job    *)
(* leaves the queue for good, its share destroyed or its file handed to    *)
(* the operator.                                                           *)
JobsSettle ==
  \A j \in Jobs : (j \in scheduled) ~> [](~ Queued(j) /\ (Destroyed(j) \/ DeadLettered(j)))

(* worker.handleDestroyJobFailure with every fault: as long as the file is *)
(* there its job is queued, being re-queued or dead-lettered; but for a    *)
(* crash between ZREM and ZADD, a ZADD that failed, and a stale entry.     *)
NoFileForgotten ==
  \A j \in scheduled \intersect files :
    Queued(j) \/ Requeueing(j) \/ DeadLettered(j) \/ j \in dropped

===============================================================================
