----------------------------- MODULE ObjectCheck -----------------------------
(***************************************************************************)
(* ConfirmUpload's check of one uploaded object, call by call: the HEADs   *)
(* of HeadObjectWithRetry, then scanObject, which fetches the object and   *)
(* streams it to clamd (ClamAVClient.ScanReader).  S3 may show an object   *)
(* late or fail; clamd may refuse, break off, or never answer.  A chunk is *)
(* what one Read returns; the two writes of a chunk are one step.          *)
(***************************************************************************)
EXTENDS Integers

CONSTANTS
  MaxAttempts, \* maxAttempts of HeadObjectWithRetry
  ScanTimeout, \* cfg.ClamAVScanTimeoutSeconds; all times in units of 100 ms
  MaxChunks,   \* bound on the size of the object, in chunks
  MaxSettle    \* bound on the time until S3 shows the object

ASSUME ObjectCheckAssumption ==
  /\ MaxAttempts \in Int
  /\ ScanTimeout \in Nat
  /\ MaxChunks \in Nat
  /\ MaxSettle \in Nat

VARIABLES
  object,   \* its size, the chunk ClamAV reports (0: none), when S3 shows it
  settling, \* time until S3 shows the object
  refused,  \* history: a HEAD of an object that S3 showed has failed
  step,     \* the next call
  attempt,  \* HEADs so far
  timer,    \* what is left of the backoff, or until the deadline of the scan
  read,     \* chunks read from S3
  piece,    \* did the last Read return data?
  end,      \* the error the last Read returned with it
  received, \* chunks clamd has got
  heardEnd, \* has clamd got a chunk of length zero, which ends the stream?
  answer,   \* clamd's reply, after which it closes the connection
  verdict   \* what ConfirmUpload goes on with

clamd == <<received, heardEnd>>
stream == <<read, piece, end>>
heads == <<settling, refused, attempt>>
vars == <<object, heads, step, timer, stream, clamd, answer, verdict>>

Objects == {o \in [size: 0 .. MaxChunks, bad: 0 .. MaxChunks, settles: 0 .. MaxSettle] :
              o.bad <= o.size}

ScanSteps == {"get", "dial", "read", "write", "marker", "reply"}

TypeOK ==
  /\ object \in Objects
  /\ settling \in 0 .. object.settles
  /\ refused \in BOOLEAN
  /\ step \in ScanSteps \union {"backoff", "head", "done"}
  /\ attempt \in Nat
  /\ timer \in Nat
  /\ read \in 0 .. object.size
  /\ piece \in {0, 1}
  /\ end \in {"more", "eof", "error"}
  /\ received \subseteq 1 .. object.size
  /\ heardEnd \in BOOLEAN
  /\ answer \in {"none", "OK", "FOUND", "ERROR", "cut"}
  /\ verdict \in {"pending", "missing", "failed", "clean", "infected"}

Init ==
  /\ object \in Objects
  /\ settling = object.settles
  /\ refused = FALSE
  /\ step = "head"
  /\ attempt = 0
  /\ timer = 0
  /\ read = 0
  /\ piece = 0
  /\ end = "more"
  /\ received = {}
  /\ heardEnd = FALSE
  /\ answer = "none"
  /\ verdict = "pending"

-------------------------------------------------------------------------------
(***************************************************************************)
(* storage.HeadObjectWithRetry                                             *)
(***************************************************************************)
Attempts == IF MaxAttempts <= 0 THEN 4 ELSE MaxAttempts

DelayLate(n) == \* mutant: each attempt waits the delay of the one before
  CASE n <= 1 -> 0 [] n = 2 -> 1 [] n = 3 -> 3 [] OTHER -> 10

(* The wait before attempt n, counted from 0, in units of 100 ms. *)
Delay(n) == CASE n <= 0 -> 0 [] n = 1 -> 1 [] n = 2 -> 3 [] OTHER -> 10

Visible == settling = 0

Conclude(v) == step' = "done" /\ verdict' = v

(* A HEAD finds the object; or it fails, whatever the error is, and the    *)
(* last failure counts as a missing object.                                *)
HeadObject ==
  /\ step = "head"
  /\ \/ /\ Visible
        /\ step' = "get"
        /\ timer' = ScanTimeout
        /\ UNCHANGED <<refused, attempt, verdict>>
     \/ /\ refused' = (refused \/ Visible)
        /\ attempt' = attempt + 1
        /\ \/ attempt' < Attempts /\ step' = "backoff" /\ UNCHANGED verdict
           \/ attempt' >= Attempts /\ Conclude("missing")
        /\ timer' = Delay(attempt')
  /\ UNCHANGED <<object, settling, stream, clamd, answer>>

EndBackoff ==
  /\ step = "backoff"
  /\ timer = 0
  /\ step' = "head"
  /\ UNCHANGED <<object, heads, timer, stream, clamd, answer, verdict>>

-------------------------------------------------------------------------------
(***************************************************************************)
(* upload.scanObject and ClamAVClient.ScanReader.  The deadline of the     *)
(* scan is that of the download and of the connection to clamd; a dial,    *)
(* which has a timeout of its own, comes to nothing past it too.           *)
(***************************************************************************)
Proceed(from, to) == step = from /\ timer > 0 /\ step' = to

(* The presigned URL and the response to the GET: 200. *)
FetchObject ==
  /\ Proceed("get", "dial")
  /\ UNCHANGED <<object, heads, timer, stream, clamd, answer, verdict>>

(* Dial clamd, set the deadline, send the command. *)
OpenStream ==
  /\ Proceed("dial", "read")
  /\ UNCHANGED <<object, heads, timer, stream, clamd, answer, verdict>>

(* r.Read returns data or none, and with either nothing, EOF or an error. *)
ReadChunk ==
  /\ Proceed("read", "write")
  /\ piece' \in {0, 1}
  /\ read' = read + piece'
  /\ read' <= object.size
  /\ end' \in {"more", "eof", "error"}
  /\ end' = "eof" => read' = object.size
  /\ UNCHANGED <<object, heads, timer, clamd, answer, verdict>>

(* clamd receives a chunk of length n; once it has answered it hears nothing. *)
Hear(n) ==
  IF answer # "none" \/ heardEnd THEN UNCHANGED clamd
  ELSE IF n = 0 THEN heardEnd' = TRUE /\ UNCHANGED received
  ELSE received' = received \union {read} /\ UNCHANGED heardEnd

AfterChunk == CASE end = "more" -> "read" [] end = "eof" -> "marker" [] OTHER -> "done"

SendChunkAlways == \* mutant: a Read without data sends its length, zero, too
  /\ Proceed("write", AfterChunk)
  /\ Hear(piece)
  /\ verdict' = IF end = "error" THEN "failed" ELSE verdict
  /\ UNCHANGED <<object, heads, timer, stream, answer>>

(* The length and the data of a chunk, if there is data; then readErr. *)
SendChunk ==
  /\ Proceed("write", AfterChunk)
  /\ IF piece > 0 THEN Hear(piece) ELSE UNCHANGED clamd
  /\ verdict' = IF end = "error" THEN "failed" ELSE verdict
  /\ UNCHANGED <<object, heads, timer, stream, answer>>

EndStream ==
  /\ Proceed("marker", "reply")
  /\ Hear(0)
  /\ UNCHANGED <<object, heads, timer, stream, answer, verdict>>

ParseOpen(reply) == \* mutant: clean unless something was found
  IF reply = "FOUND" THEN "infected" ELSE "clean"

ParseRaw(reply) == reply \* mutant: hands clamd's word on

(* parseClamdResponse; "cut" is a reply that is empty or broken off. *)
Parse(reply) ==
  CASE reply = "OK" -> "clean" [] reply = "FOUND" -> "infected" [] OTHER -> "failed"

(* io.ReadAll returns once clamd has closed the connection. *)
ReadReply ==
  /\ Proceed("reply", "done")
  /\ answer # "none"
  /\ verdict' = Parse(answer)
  /\ UNCHANGED <<object, heads, timer, stream, clamd, answer>>

(* Any call of the scan returns an error. *)
ScanFails ==
  /\ step \in ScanSteps
  /\ Conclude("failed")
  /\ UNCHANGED <<object, heads, timer, stream, clamd, answer>>

TimeOutButReply == \* mutant: no SetDeadline, so that ReadAll waits for clamd
  /\ step # "reply"
  /\ timer = 0
  /\ ScanFails

(* Past the deadline no call is left waiting. *)
TimeOut == timer = 0 /\ ScanFails

-------------------------------------------------------------------------------
(* clamd judges what it got once the stream has ended. *)
ClamdAnswers ==
  /\ answer = "none"
  /\ heardEnd
  /\ answer' = IF object.bad \in received THEN "FOUND" ELSE "OK"
  /\ UNCHANGED <<object, heads, step, timer, stream, clamd, verdict>>

(* It refuses the stream, or the connection breaks. *)
ClamdGivesUp ==
  /\ answer = "none"
  /\ step \in {"read", "write", "marker", "reply"}
  /\ answer' \in {"ERROR", "cut"}
  /\ UNCHANGED <<object, heads, step, timer, stream, clamd, verdict>>

Less(t) == IF t > 0 THEN t - 1 ELSE 0

Tick ==
  /\ step # "done"
  /\ timer' = Less(timer)
  /\ settling' = Less(settling)
  /\ UNCHANGED <<object, refused, attempt, step, stream, clamd, answer, verdict>>

Next ==
  \/ HeadObject
  \/ EndBackoff
  \/ FetchObject
  \/ OpenStream
  \/ ReadChunk
  \/ SendChunk
  \/ EndStream
  \/ ReadReply
  \/ ScanFails
  \/ ClamdAnswers
  \/ ClamdGivesUp
  \/ Tick

Spec == Init /\ [][Next]_vars

(* S3 answers a HEAD sooner or later, for which the code sets no deadline; *)
(* time goes on.  Neither the GET nor clamd need ever answer.              *)
FairSpec ==
  Spec /\ WF_vars(HeadObject) /\ WF_vars(EndBackoff) /\ WF_vars(TimeOut) /\ WF_vars(Tick)

-------------------------------------------------------------------------------
(* upload.ScanReader: a file passes for clean only if clamd got the whole  *)
(* of it before the end of the stream and reports nothing in it, however   *)
(* Read cuts it up, and whatever fails or breaks off.                      *)
CleanMeansWhole ==
  verdict = "clean" => heardEnd /\ received = 1 .. object.size /\ object.bad = 0

(* The waits before the first n + 1 attempts. *)
WaitBefore(n) == CASE n <= 0 -> 0 [] n = 1 -> 1 [] n = 2 -> 4 [] OTHER -> 10 * n - 16

(* storage.HeadObjectWithRetry: an object that S3 shows within the waits   *)
(* of all attempts (1.4 s for the four of ConfirmUpload) is never given up *)
(* as missing, and deleted for that, unless a HEAD failed on it.           *)
SeenInTime ==
  verdict = "missing" => refused \/ object.settles > WaitBefore(Attempts - 1)

(* upload.ConfirmUpload: every check comes to a verdict, also when S3      *)
(* stops sending the object or clamd never answers.                        *)
CheckEnds == <>(verdict # "pending")

(* The check takes the two steps UploadPipeline makes of it: an object is  *)
(* missed only with an excuse, found infected only if it is, and a verdict *)
(* is never revised.                                                       *)
Verdict == INSTANCE ObjectVerdict WITH
  verdict <- IF step \in ScanSteps THEN "present" ELSE verdict,
  harmless <- object.bad = 0,
  excused <- refused \/ object.settles > WaitBefore(Attempts - 1)

IsVerdict == Verdict!Spec

===============================================================================
