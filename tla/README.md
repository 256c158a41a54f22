# Ephemeral share: a TLA+ verification of the backend

The program shares files once. An admin uploads a file to a private bucket,
gets a link, and the first recipient who asks for it is redirected to a
short-lived download URL; after that the link is dead and the file is to be
deleted. The backend is a Go HTTP server with a background worker. All state
that matters is outside its process, in Redis and in the bucket (S3 or R2),
so any number of backend instances may run, and every handler is a sequence
of remote calls that other handlers, other instances, the worker, key expiry
and failures interleave with. That is what these modules are about.

Paths below are relative to the repository; Go packages are those under
`backend/internal`.

## 1. Inventory

### Components, their state and operations

| Component | State it reads and writes | Operations |
|---|---|---|
| Download handler (`download/handler.go`) | `token:{hash}`, `destroyed:{hash}`, `destroy_queue`; HEAD and presign on the bucket | `POST /api/download/{token}` (ConsumeToken), `GET /d/{token}` (GetTokenMetadata), `cleanupAfterMissingObject` |
| Redis store client (`store/redis.go`) | the keys; the Lua script that turns a token from ACTIVE to CONSUMING | one wrapper per command, `CASTokenConsume`, `GetRedisServerTime` |
| Upload handler (`upload/handler.go`) | `upload:{id}`, `uploads_pending`, `token:{hash}`, `cleanup_by_expiry`, quota counters; HEAD, GET and DELETE on the bucket; ClamAV | RequestUpload, ConfirmUpload, RevokeToken, ListTokens |
| Worker: destroy-queue poller (`worker/cleanup.go:85-256`) | `destroy_queue`, `destroy_dlq`, `token:{hash}`, `destroyed:{hash}`, bucket | processDestroyQueue, executeDestroyJob, handleDestroyJobFailure |
| Worker: orphan scan (`worker/cleanup.go:258-397`) | `cleanup_lock`, `cleanup_by_expiry`, `token:*`, bucket | runOrphanScanCycle, processCleanupByExpiry, processExpiredObjectKey |
| Worker: pending-upload sweep (`worker/cleanup.go:400-439`) | `uploads_pending`, `upload:{id}`, bucket | processExpiredUploads |
| Stale-entry cleaner (`store/cleanup.go`) | the five sorted sets | CleanStaleZSETEntries |
| Share links (`util/token.go`, `download/handler.go:316-321`) | none | GenerateToken, hashToken |
| Admin sessions (`auth/`) | `refresh:{jti}`, `session:{id}` | Login, Refresh, Logout, RequireAdmin |
| Login lockout (`auth/handler.go:75-88, 178-203`) | `failed:{ip}` | check, count, clear |
| Rate limit, enumeration detection, backpressure (`middleware/ratelimit.go`) | `rl:{zone}:{ip}`, `enum:{ip}`, `uploads_pending` | one check per request |
| S3 client, ClamAV client | none | HeadObjectWithRetry, DeleteObject, presign; ScanReader |
| Filename and MIME rules, config, audit log, metrics, health, security headers, pages, nginx, bucket setup | none that a handler decides on | |

They interact only through Redis and the bucket: the upload handler creates
what the download handler consumes; the download handler is meant to queue
what the poller destroys; the orphan scan deletes whatever no token protects
any more; the sweep deletes uploads that never became shares. There is no
callback and no shared memory between handlers.

### What is hard

* two requests for one link, on two instances, between the same two calls;
* a Redis call that is executed while its reply is lost (the client library
  re-sends it), or that fails in the middle of a sequence whose remaining
  calls are made all the same;
* an instance that dies between two calls, with a lock or half a re-queue
  left behind;
* the orphan scan, which lists keys, reads them one by one and only then
  deletes, while uploads, downloads and expiries go on; its lock lapses after
  60 s whether or not the scan is over;
* the poller, which has no lock: several instances execute one job;
* clocks: scores and expiries come from one instance's clock and are compared
  with another's, or with the Redis server's;
* counters that are checked in one call and incremented in another, so that
  requests that overlap pass the limit together;
* a stream to clamd whose pieces `Read` cuts at will, and where an empty piece
  means the end;
* everything that must eventually happen: every file must leave the bucket,
  every refusal and every scan must end.

### What makes each part correct

* Download: at most one redirect per share; a share that was consumed, revoked
  or expired never opens again; a share is not burnt by a request that then
  gives up; no download page for a share already won.
* Activation and orphan scan: a file outlives its share, and not for ever.
* Destroy queue: no job is lost, none is given up early, all settle.
* Upload pipeline: what becomes a share has passed a scan; no sweep before its time;
  none at all once the upload was confirmed in time; abandoned uploads go.
* Share links: the link handed out leads to the share stored.
* Sessions: what has ended (a rotated token, a logged-out or expired session)
  is served to nobody again; what has not ended is not lost to tabs that
  refresh at once; a logout ends its session.
* Verification of an object: clean means that ClamAV judged the whole of it;
  an object that S3 shows in time is not given up; the check ends though clamd
  never answers.
* Limits: what overlaps passes a limit by no more than its number (the quota,
  once it is reached), a counter
  gets its TTL, a block is not undone by late requests, and every refusal ends.

`PROJECT.json` lists each hazard with the line where it bites and the
properties that cover it.

## 2. Modules

| Module | Models |
|---|---|
| `Stores` | the keys of a share, the bucket, Redis time and key expiry, the Lua script |
| `Download` | ConsumeToken and GetTokenMetadata, a request being a process |
| `Activation` | ConfirmUpload from a verified object to the indexed token; RevokeToken |
| `OrphanScan` | the cycle of several instances, with its lock: the orphan scan over `cleanup_by_expiry`, then the sweep of `uploads_pending`; the stale-entry cleaner |
| `ShareLifecycle` | composes the four above; the properties of a share |
| `OneTimeShare` | abstract: what a one-time link promises, without Redis or handlers |
| `DestroyQueue` | the poller, its retries and the dead-letter queue, several instances |
| `UploadPipeline` | RequestUpload, the PUTs, ConfirmUpload with its rejections, the sweep |
| `ObjectCheck` | ConfirmUpload's check of one object: HeadObjectWithRetry, scanObject, ScanReader, clamd |
| `ObjectVerdict` | abstract: the two steps UploadPipeline makes of that check |
| `LimitRequests` | requests under way at one of the limits |
| `UploadAdmission` | backpressure, daily quota and pending limits, against overlapping confirmations and the sweep |
| `RequestLimits` | composes those with the rate limit, enumeration detection and the login lockout |
| `ShareLink` | token, hash and link |
| `AuthSession` | Login after the credentials, Refresh, Logout, RequireAdmin, one browser with several tabs |
| `AdminSession` | abstract: what an admin session promises, without tokens, cookies or Redis |
| `MC...` | the symmetry sets TLC uses |
| `..._proofs`, `ShareLifecycle_files`, `ShareLifecycle_refinement` | theorems |

### How the modules correspond to the code

A Redis command, a Lua script, a pipeline, an S3 or a ClamAV request is one
atomic step; what a handler computes locally between two of them belongs to
the step before it. A program counter names the next call of a request, a
confirmation or a worker pass. The map in `PROJECT.json` gives the lines of
every definition. The conventions that hold throughout:

* A key with a TTL carries the time it lapses. `Tick` advances the Redis clock
  and removes what has lapsed, in one step, as a reader could not tell it from
  expiry on access.
* `time.Now()` of an instance is any time within `ClockSkew` of the Redis
  clock; `GetRedisServerTime` is the Redis clock.
* With `RedisFaults`, a call may fail without effect, or have its effect and
  report failure where that makes a difference to the caller. With `S3Faults`,
  a bucket or ClamAV call may fail. With `Crashes`, an instance may stop
  between any two calls; its handler is gone, its keys stay.
* Where the code ignores an error (`_ = h.redis.Del(...)`), the step has the
  alternative of no effect and goes on.
* Values keep what decisions depend on: a token's status, object, expiry,
  `destruction_scheduled_at` and TTL. `Decodable` is `json.Unmarshal` into
  `models.FileMetadata`: the Lua script writes the timestamp as a number,
  which a `*time.Time` field refuses, so a CONSUMING value does not decode,
  except in `CASTokenConsume`, which has a type of its own.

`Activation` and `UploadPipeline` share ConfirmUpload: the pipeline has the
call with its session, HEAD, scan and rejections, and represents the stored
token only as membership in `shared`; Activation starts from the verified
object and has the token in detail, with expiry and indexing. Splitting it
keeps both state spaces small; the state they share (the object and the token)
is handed over at `SETEX token:{hash}`.

The token's two ends of life are kept apart, as in the code: `expiresAt` is
computed from `time.Now()` (`BuildMetadata`), the TTL counts from the execution
of SETEX (`StoreToken`), any time later, and may last into the second it ends in
(`TTLSlack`); the score in `cleanup_by_expiry` is `expiresAt` cut to a second.
So a token may outlive the time from which its file may be collected.

The cycle of the worker sweeps `uploads_pending` after the orphan scan and
deletes from the same objects without a look at the tokens. `OrphanScan` has
that pass (`StartSweep` to `DropUpload`), with an entry for an object's upload
(`pending`) whose session may be there or not; `overdue` remembers the objects
whose entry was still there when it fell due. `UploadPipeline` has the pass with
its sessions, but not what a token means. The ZREM of a confirmation in
`Activation` may be for any upload, or for none: the handler takes `upload_id`
and `object_key` from the body as they are.

`Download` gives a request the *hash* the handler computes from its URL. That
hash is compared with the stored ones as the code does. Which hashes real URLs
lead to is the subject of `ShareLink`, and the answer there is bad: see the
findings.

`DestroyQueue` is modelled apart from `ShareLifecycle`, because in the
composed system no job is ever queued (finding `v_schedule`). It takes jobs of
the format the handler writes, and shows what the poller does with them.

A confirmation without `upload_id`, which the handler accepts and the admin
page never sends, does what Activation models and nothing to the session.
`UploadPipeline` always has the id. The presigned URL is valid for 15 minutes:
until it lapses the client may PUT another file, clean or infected, at any
moment, also between the scan and the SETEX or after both (`Put`). `replaced`
remembers the uploads of which that happened after a scan had passed them. A
request is followed only if its entry falls due within `MaxTime`, so that no
property is decided by the end of the clock.

`UploadPipeline` takes HeadObjectWithRetry and scanObject as a step each.
`ObjectCheck` has them call by call, and `IsVerdict` is what licenses the
shortcut: the check implements `ObjectVerdict`, whose two steps are those of
the pipeline. A HEAD answers in one step; S3 shows the object after some time
that nobody knows (`settling`), and any error counts as a missing object. The
stream to clamd is private to a call, so the two writes of a chunk are one
step, and `Hear` is clamd's side of it: a chunk of length zero ends the stream.
After clamd has answered, a write may still succeed, into a connection nobody
reads. The deadline of the scan is that of its context, which bounds the
download, and of the connection.

`RequestLimits` follows requests through one limit at a time (`gate`). Their
keys are disjoint and a request passes the limits in sequence, so what one
limit sees is any arrivals at all, whatever the limits before it do. A request
is a slot that serves one request after another; a pipeline is one step;
`slips` counts the calls that failed or that go-redis sent twice, and the
crashes. The rate counter stops at `MaxRate` + 1, above which it decides
nothing. `quota` stands for uploads and for bytes, an upload being a unit of
either; its increment may be lost, and it may be that of the day before. Which
fresh id an upload gets does not matter, so it is the first free one. A
confirmation is a request like the others: any number may name one upload, the
refresh of the session may bring back what another has just deleted, each that
makes a share raises the quota, and one without `upload_id` does nothing else.
`late` counts the uploads admitted since the quota was reached, until midnight.
All instances are taken to have the same day when they read the quota.

`DestroyQueue` remembers in `dropped` the jobs an entry of which was lost: to a
crash between ZREM and ZADD, to a ZADD that failed, or to the stale-entry
cleaner. Nothing reads it but `NoFileForgotten`.

`AuthSession` gives a JTI two roles, as the code does: it names the refresh
token and the access JWT issued with it. `storedAt` and `startedAt` are the
times of the SETEX; a key exists while its token is in `refresh`, its session
in `session`. The browser is the cookie jar (`jar`), which each response
overwrites when it arrives, and the access tokens its tabs hold (`held`). `late`
and `faulted` are history and guard nothing. `checkCSRF` is absent because it
does not decide: `c.JSON` returns nil, so the handler goes on after the 403 is
written. The geo check of RequireAdmin is there as it is in the code: it
compares the region in the JWT with the region in Redis, both of them that of the
login, and does not look at the request's. Section 6 has what the documents
require of it; no property says that this is as it should be.

## 3. Runs

All finish within the five minutes a run may take, with two workers.

| Run | Instance | Shows |
|---|---|---|
| `consume` | 2 shares of one object, 2 consuming requests, 1 page request, 2 confirmations, no scan; Redis and S3 faults, any handler may take no further step; 594,608 states | types; at most one redirect; nothing reopens, not even when the `destroyed` marker lapses; markers only on closed shares; no page after a win; refinement of `OneTimeShare` |
| `scan` | 1 share of an upload that is still pending, 1 request, 2 instances running whole cycles, clock skew 1, lock TTL 1, all faults; 1,726,726 states | an open share has its file and no unexpired file is deleted, even when two cycles overlap because the lock lapsed, but for an upload still pending when due and a failed confirmation |
| `collect` | 2 shares, 1 request, 1 instance running whole cycles, tokens that outlive their expiry, no faults, fairness; 351,783 states | no share is burnt; every activated file is deleted in the end |
| `destroy` | 1 job, 2 instances, 3 retries, all faults, entries going stale; 948,011 states | nothing is dead-lettered early although two instances count failures in copies of one member; a file that is still there is forgotten only where an entry was lost (`dropped`) |
| `destroy_settle` | 2 jobs, 2 instances, 2 retries, S3 failing, fairness; 355,622 states | no job is lost, and each settles |
| `uploads` | 1 upload, clean or infected, sent again at any time, 2 confirmations, 2 sweeping instances, clock skew 1, all faults; 1,169,491 states | what is shared has passed a scan or replaced what had; no sweep before its time or after a confirmation in time |
| `auth` | 1 session, 3 tokens, a login and 3 more requests in any mixture, refresh TTL 2, access TTL 1, all faults and lost responses; 911,500 states | what ended is not served; an exchanged token is gone; the cookie stays good while tabs refresh at once; why a session may survive its logout; refinement of `AdminSession` |
| `objects` | 1 object of up to 3 chunks, infected in any of them or none, shown by S3 at any time from 0 to 1.5 s, 4 HEADs over 1.4 s, every failure, a clamd that breaks off or never answers, fairness; 662,246 states | clean means the whole object was judged; no object shown in time is missed; the check ends; refinement of `ObjectVerdict` |
| `limits` | 2 requests at a time at each limit, limits of 1 to 3, 3 upload ids, any confirmations, 2 slips, fairness; 525,026 states | each limit is passed by no more than the requests that overlap and the calls that slipped; once the quota is reached fewer than overlap are still admitted; counters get a TTL; refusals end |
| `v_...` | the smallest instance that shows the finding | section 6 |

### Bounds, and why they are enough

Requests, confirmations and instances act on a share only through its keys, so
a violation of a pairwise property needs two of them; the second share in
`consume` and `collect` is there because two shares may have one object or
compete for the scan. `MaxTime` is long enough for every TTL of the run to
lapse and for a pass to happen after it: lifetimes are 1 or 2, `MaxTime` 1 to
4. One unit of time stands for whatever lies between two deadlines, and the
TTLs keep the order they have in the code where a property depends on it
(`SessionTTL` = `PendingTTL` > `PutTTL`; `StaleAge` at least the time an entry
is due). In `destroy` the exponential back-off is kept and a score past
`MaxTime` is moved to `MaxTime` (`Horizon`), so that every job falls due
inside the run. `consume` sets `Crashes` to FALSE, which loses nothing: its
specification has no fairness, so a handler whose instance dies is one that takes
no further step, and of what a dead handler leaves behind its properties read
only the keys; the crashes of `scan` also free the slot of a worker. The
scan of `scan` meets one share, because an object has one entry and its own
tokens. One upload is enough in `uploads`: different uploads have
different sessions, entries and objects, and meet only in the pending limit
and in the order in which a sweep takes them. In `auth`, three requests after the
login are what it takes for two refreshes to fork a rotation while a third
request (a refresh, a logout or a RequireAdmin) observes it; sessions meet only
in the cookie, so one is enough. In `limits`, two
requests at a time are what a check and an increment in two calls take to go
wrong, and each limit is small enough to be passed and large enough to be
reached in more than one way; three upload ids are one more than may be pending
at once. In `objects`, three chunks give a
first, a middle and a last one; the time S3 takes goes one unit past the last
HEAD, which is as good as an object that never shows; `ScanTimeout` is two
units because only whether the deadline has passed matters. What holds for
larger instances is the subject of the proofs.

`CHECK_DEADLOCK FALSE` is set where the modelled requests are finitely many
and the clock stops at `MaxTime`, or where one check ends: the system then
really has nothing left to do. `DestroyQueue` polls and `RequestLimits` serves
for ever; both are checked for deadlock.

`collect` runs without faults and with `ReuseObjects = FALSE` and a `StaleAge`
past its horizon, because the code does not promise collection otherwise: a
failed deletion is followed by the ZREM all the same (`worker/cleanup.go:326`),
entries overdue for a day are dropped without deleting the object
(`store/cleanup.go`), and an object confirmed twice has one index entry.

`OpenShareHasFile` and `UnexpiredFileKept` end at `expires_at`: after it a token
may still answer for up to a second, or for as long as the SETEX was delayed,
while its file is already collected. They except two more cases in which the
code does delete the file of an open share: an upload whose `uploads_pending`
entry is still there when it falls due (the ZREM failed, came late, or was for
another id), and a confirmation whose SETEX reported a failure.

### Fairness

Weak fairness of each handler's own steps once it has begun (Go and the HTTP
server run a handler to its end), of each worker pass (its ticker fires for as
long as the process lives) and of the clock. No client, browser or admin
action is fair, nor is the stale-entry cleaner: the liveness properties do not
need them. In `limits` the steps of a request that has arrived, the clock and
the sweep are fair; arrivals are not. In `objects` S3 is assumed to answer each
HEAD sooner or later, since the code sets no deadline on one; everything after
it is bounded by the scan's own deadline, and neither the download nor clamd is
fair. `collect`, `destroy_settle` and `v_upload_leak` have no crashes, as
an instance that dies for ever does nothing.

## 4. What is proved

Theorems hold for every value of the constants that satisfies the named
assumptions (durations are natural numbers, faults are booleans): any number
of shares, requests, instances, any skew, with or without faults. Every
invariant, every action property and every refinement that a run checks is
stated by a theorem. These have hypotheses on the constants of their own;
each is one under which the run checks the property, because the code does not
promise it otherwise (what the properties themselves except is in their
definitions and in section 3):

| Theorem | Hypotheses | Why |
|---|---|---|
| `UnexpiredKept` | no object is confirmed twice | two calls for one object share its index entry, and the later ZADD decides when its file goes; the admin page confirms an upload once |
| `OpenHasFile` | the same | the same |
| `NoneBurnt` | no failures, no crashes | a handler that stops after the script has run leaves the share consumed |
| `JobsKept` (`JobsAccounted`: Redis answers) | Redis answers; no instance dies; no entry reaches its maximum age, of a day | each of the three loses an entry; `FilesRemembered` says, for every fault, what is then left |
| `PendingStaysBounded` | a pending limit is set | the code reads 0 as no limit |

* **ShareLifecycle_proofs.** The inductive invariant `Inv` says what a winning
  request knows: a request with metadata won a hash that was issued, whose
  token is not ACTIVE; two winners never have the same hash; before the CAS a
  request has nothing; a marker lies only on an issued hash that is not
  ACTIVE. `AtMostOneRedirect` alone is not inductive: it says nothing of a
  request between its CAS and its redirect, nor of why a token, once taken, is
  not written ACTIVE again, which holds because `GenerateToken` never returns
  a hash twice (`issued` only grows). From `Inv`: `TypeCorrect`, `OneRedirect`,
  `MarkedShares` and, as an action property, `StaysClosed`. `WonHidesPage` needs
  one fact more (`Stamped`): the token that a winner leaves, for as long as it is
  there, carries the timestamp that the script wrote, and so does not decode.
* **ShareLifecycle_files.** A file goes with its share, not before. Whatever is
  indexed, listed by a scan or about to be deleted belongs to one confirmation,
  hence to one expiry, and is listed only when that expiry has passed on the
  furthest clock; whatever the sweep has listed was overdue (`FilesInv`): so
  `UnexpiredKept` does not depend on what the scan reads of the tokens, and holds
  when its lock lapses and when every call fails. `OpenHasFile` needs the state
  where that has an action (`FilesThere`): an ACTIVE token names the object of
  one confirmation, with the expiry of that confirmation, and its file has been
  there since. `NoneBurnt`: while nothing fails, the request that won a share
  is between its script and its answer, or was redirected (`Taken`).
* **ShareLifecycle_refinement.** `PromiseKept`: the composed system implements
  `OneTimeShare`. The mapping reads a share's life off `issued`, the token and
  the winners' local variables; `OneWinner` makes the holder unique. Each
  action maps to Issue, Claim, Serve, Withdraw (an expiry of several shares at
  once is one Withdraw) or a stutter.
* **DestroyQueue_proofs.** `DLQExhausted` rests on the attempt written
  in a member never exceeding the number of failed deletions of its job, in
  the queue, in every poller's list and in every poller's hand.
  `FilesRemembered` needs to know why a poller removes a member: because the
  file is gone, because the job is dead-lettered, or because it is about to be
  put back, unless an entry of it was lost. Where Redis answers the same case
  analysis, with what a poller in the middle of executeDestroyJob has already
  deleted (`CleanedInOrder`), gives `JobsAccounted` and from it `JobsKept`.
  `QueueTypes` treats 2^attempt as an unknown: `Horizon` brings whatever it is into the modelled time.
* **UploadPipeline_proofs.** Whatever a sweeper has listed was overdue, by the
  furthest clock, when it was listed, and stays so; an upload that a
  confirmation took off `uploads_pending` has no score to be listed by. From
  this `SweepsWait` and `ConfirmedStays`. `SharesScanned`: from its scan to its
  SETEX a call carries the verdict in its program counter, and a file that is
  replaced on the way, or later, is remembered as replaced.
* **AuthSession_proofs.** All the invariants of the run. None is inductive
  alone. The core is who may know a JTI: a key is stored only by the request
  that drew its id (`IssuedInv`, `LoginInv`), before any browser holds it, so a
  key that is gone is gone for good; a late request then has a reason to be
  refused at every step (`LateInv`). `WhyGone` says why a token that a browser
  was given may be gone: its TTL, its session's end, or a request that exchanged
  it or failed; `CookieInv`, that the answer to such an exchange has replaced
  the cookie. `StaysLoggedIn` and `LogoutEnds` follow. `PromiseKept`: the
  handlers implement `AdminSession`. A session is new until its key is stored,
  and it is stored once, by the login that drew its id (`StartedInv`); storing
  it maps to Open, an exchange and an admission, at the GET that finds the
  session, to Grant, a logout or the clock to End, everything else to a stutter.
* **RequestLimits_proofs.** A bound of the form "limit plus what overlaps" is
  not inductive: nothing in it says that the requests past the look-up are not
  joined by others. The invariants `LockInv`, `BlockInv` and their like count
  them: what has passed, together with the requests between look-up and
  increment, stays within the bound once the counter is full, since no request
  joins them and each that leaves is counted. From them `AttemptsStayBounded`,
  `BlockIsTight` and `PendingStaysBounded` (where some pending limit is set);
  `CounterGetsTTL` and `LimitsTypeCorrect` are inductive as they stand.
  `QuotaIsTight`: while the quota is not reached nothing is late, and the request
  that reaches it is a confirmation, so it is not among those on their way from
  GET to ZADD; from then on nobody joins these, and each that leaves is counted
  (`QuotaInv`). How often and by how many calls an upload is confirmed does not
  enter.
  `PassesStayBounded` needs a statement about every window at once (`RateInv`): the
  passes older than the counter number at most `MaxRate`, the younger ones are
  among those it has counted, and when its TTL runs out the older ones have left
  every window.
* **ObjectCheck_proofs.** Until clamd answers it has got exactly what was read
  and sent (`StreamInv`), and the marker is sent behind the last chunk only:
  hence `CleanIsWhole`. While HEADs go on and S3 does not show the object, at
  least the waits so far have passed (`HeadInv`): hence `ObjectsSeenInTime`,
  for any number of attempts. Both, with the types, give `CheckIsVerdict`: every
  step is one of `ObjectVerdict` or a stutter.

Only model-checked: liveness (`FileEventuallyDeleted`, `JobsSettle`,
`RefusalsEnd`, `CheckEnds`), which the proof system does not cover. What the
symmetry sets and the findings' runs say is TLC's alone as well: a finding is one
behaviour of one instance.

## 5. What the models leave out

The wording of responses, audit records and metrics; presigning; ListTokens,
the health check and the security headers, which change nothing; filename and
content-type rules, pure functions of strings that no model tells apart (and
nothing calls `ValidateMIME` or `ValidateOfficeDocument`); the pages and the
proxy. Which bytes a recipient gets is left out: the code keeps nothing of the
scanned object to compare with what is downloaded, so a file that was put in its
place after the scan is shared unscanned, which `SharedPassedScan` excepts and
does not excuse. How far the daily count runs past the quota is not bounded by
the code, and no property bounds it: all uploads then pending count, and so does
every repeated confirmation and any without `upload_id`. A
lock `lock:{hash}` and a set `cleanup:{date}` exist in the code:
nothing sets the first or reads the second. `uploads_unconfirmed` is swept
but nothing ever adds to it. `PROJECT.json` gives the reason for each part.

An `upload_id` and `object_key` that do not belong together are modelled where
they matter to an open share (`Activation`, `Unpend`) and to the limits, which
never look at the object; `UploadPipeline` leaves them out: the admin page sends
what it was given.

## 6. Findings

Each is a run whose property TLC refutes, stating what the repository says.

* `v_link`: the link of a share never leads to it. The token is stored under
  the hash of its bytes and looked up under the hash of their base64 text.
  The integration tests work on Redis keys and do not go from one to the other.
* `v_schedule`: no destruction job is ever queued. The script sets
  `destruction_scheduled_at`, and the handler queues a job only when it is nil.
  (Consumed tokens also lose their TTL, by the script's plain SET, and so stay
  for ever; their files are still collected, when the share would have expired:
  run `collect`.)
* `v_upload_leak`: an upload that is never confirmed is not deleted: its session
  lapses within about a second of the time its entry falls due, and a sweep that
  comes later, as all do but one in that gap, finds no session, drops the entry
  and leaves the object.

Seen while modelling, without a run of its own:

* A failed step of the destruction. `requirements.md:114` says "IF any step of
  the destruction pipeline fails, THE Download_Service SHALL log the failure and
  continue executing remaining destruction steps rather than aborting the entire
  pipeline", and so do `design.md:33`, 1181, 1196 and 1356 ("Destruction pipeline
  continues after S3 delete failure"). In the code a failed DeleteObject ends the
  attempt (`worker/cleanup.go:163-167`): token and marker wait for an attempt that
  succeeds, and stay as they are if the job is dead-lettered. `DeleteFile` models
  the code, and no property of `DestroyQueue` says that the file goes first.
* A change of region. `requirements.md:59` says "WHEN an Admin_JWT is used from
  an IP address different from the IP at login time, THE Upload_Service SHALL
  reject the request with HTTP 401"; `design.md:776` and 1336 ask for
  re-authentication when the region changes, and 1399 for a test of it. The
  comparison at `auth/middleware.go:69` ("Geo anomaly detection", line 67) is
  between two copies of the region of the login, and Refresh hands that region
  on, so no session is ever refused for it, wherever it is used from.
* A crash between the ZREM and the ZADD of a re-queue loses the job, where
  `design.md:45` says that none is lost at a restart; this is the first
  exception of `NoFileForgotten`.
* A CONSUMING value does not decode, so the orphan scan passes the token over
  and takes its file for an orphan once it has expired: the five minutes that
  `worker/cleanup.go:41-42` and 357 mean to give it are not given.
* Rate limit: EXPIRE is called by the request that counted 1 only, so if it
  fails the address is refused for ever once it passes the limit; the comment at
  `middleware/ratelimit.go:52-54` counts on a later request to set the TTL.
* Enumeration: the comment at `middleware/ratelimit.go:82-89` and
  `design.md:546` speak of invalid tokens within 60 s; the code counts every
  request, for an hour that each request renews. A request past the look-up
  when the block is set prolongs it, and passes.
* Lockout: `requirements.md:57` and `design.md:1335` say 15 minutes, the code
  10.
* `MaxTotalPendingUploads` = 0 makes GlobalBackpressure refuse everything, where
  RequestUpload takes 0 for no limit.
* clamd ends the answer to a z-command with a NUL, which `strings.TrimSpace`
  keeps; if the deployed clamd does so, `parseClamdResponse` takes every answer
  for unknown and no upload is ever confirmed. No test talks to a clamd.

Further: a page request after the download is
answered 500, as the CONSUMING value does not decode (`download/handler.go:112`);
`design.md:57` has a replayed refresh token revoke its whole session, where
Refresh only records it (`auth/handler.go:244-260`); `requirements.md:175` asks for a
sliding window, where RateLimit has a fixed one and lets twice the rate through
around its end (`PassesBounded`); the comment at `auth/handler.go:392` says checkCSRF returns an
error, and it returns nil; the loser of two simultaneous requests is
redirected to `/expired` where the documents say 423 (`download/handler.go:195`
tests `meta == nil` first); an error text that contains "404" is taken for a
missing object (`download/handler.go:342`); `design.md:63` trusts ZREM for
exactly-once execution, but the poller executes before it removes, which the
proofs of `DestroyQueue` show to be harmless.

## 7. Plan

Done: the share's life with its proofs and refinement, the destroy queue, the
upload pipeline with the check of an object behind it, share links, admin
sessions, and the limits; every safety property of the runs proved, three
refinements among them. Next, in order:

1. An abstract destroy queue (a job is open, then done or handed to the
   operator), implemented by `DestroyQueue`; an abstract upload likewise for
   `UploadPipeline`.
2. `UnexpiredFileKept` without its hypothesis, as a statement about the last
   score written for an object.
3. Filename rules as operators over bounded inputs: NFC comes before hidden
   characters are stripped, so sanitizing twice may differ from sanitizing once.
