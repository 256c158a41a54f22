-------------------------- MODULE ObjectCheck_proofs --------------------------
(***************************************************************************)
(* Proofs about ObjectCheck, for any size of object, any attempts, and any *)
(* time S3 takes to show the object.                                       *)
(***************************************************************************)
EXTENDS ObjectCheck, TLAPS

USE DEF heads, stream, clamd

LEMMA ObjectFields ==
  object \in Objects => object.size \in Nat /\ object.bad \in 0 .. object.size /\ object.settles \in Nat
BY ObjectCheckAssumption DEF Objects

LEMMA DelayIsTime == ASSUME NEW n \in Int PROVE Delay(n) \in Nat
BY DEF Delay

(* A piece that is still to be sent has been read. *)
TypeInv == TypeOK /\ piece <= read

LEMMA InitTypes == Init => TypeInv
<1> SUFFICES ASSUME Init PROVE TypeInv
  OBVIOUS
<1>1. object.size \in Nat /\ object.settles \in Nat
  BY ObjectFields DEF Init
<1>2. settling \in 0 .. object.settles /\ read \in 0 .. object.size /\ piece <= read
  BY <1>1 DEF Init
<1> QED BY <1>2 DEF Init, TypeInv, TypeOK, ScanSteps

LEMMA NextTypes == TypeInv /\ [Next]_vars => TypeInv'
<1> SUFFICES ASSUME TypeInv, [Next]_vars
             PROVE  TypeInv'
  OBVIOUS
<1>0. object.size \in Nat /\ object.settles \in Nat
  BY ObjectFields DEF TypeInv, TypeOK
<1> USE DEF TypeInv, TypeOK
<1>1. CASE HeadObject
  <2>1. attempt' = attempt \/ attempt' = attempt + 1
    BY <1>1 DEF HeadObject
  <2>2. timer' = ScanTimeout \/ timer' = Delay(attempt')
    BY <1>1 DEF HeadObject
  <2>3. attempt' \in Nat
    BY <1>0, <2>1
  <2>4. timer' \in Nat
    BY <2>2, <2>3, DelayIsTime, ObjectCheckAssumption
  <2> QED BY <1>1, <2>3, <2>4 DEF HeadObject, Conclude, ScanSteps
<1>2. CASE EndBackoff
  BY <1>2 DEF EndBackoff
<1>3. CASE FetchObject \/ OpenStream
  BY <1>3 DEF FetchObject, OpenStream, Proceed, ScanSteps
<1>4. CASE ReadChunk
  <2>1. read' \in 0 .. object.size /\ piece' <= read'
    <3>1. piece' \in {0, 1} /\ read' = read + piece' /\ read' <= object.size
      BY <1>4 DEF ReadChunk
    <3>2. read \in Nat
      BY <1>0
    <3>3. CASE piece' = 0
      BY <1>0, <3>1, <3>2, <3>3
    <3>4. CASE piece' = 1
      BY <1>0, <3>1, <3>2, <3>4
    <3> QED BY <3>1, <3>3, <3>4
  <2> QED BY <1>4, <2>1 DEF ReadChunk, Proceed, ScanSteps
<1>5. CASE SendChunk
  <2>1. received' \subseteq 1 .. object.size
    <3>1. received' = received \/ (received' = received \union {read} /\ piece > 0)
      BY <1>5 DEF SendChunk, Hear
    <3>2. piece > 0 => read \in 1 .. object.size
      BY <1>0
    <3> QED BY <3>1, <3>2
  <2>2. step' \in ScanSteps \union {"done"} /\ verdict' \in {"failed", verdict}
    BY <1>5 DEF SendChunk, Proceed, AfterChunk, ScanSteps
  <2>3. heardEnd' \in BOOLEAN
    BY <1>5 DEF SendChunk, Hear
  <2> QED BY <1>5, <2>1, <2>2, <2>3 DEF SendChunk
<1>6. CASE EndStream
  BY <1>6 DEF EndStream, Proceed, Hear, ScanSteps
<1>7. CASE ReadReply
  BY <1>7 DEF ReadReply, Proceed, Parse
<1>8. CASE ScanFails
  BY <1>8 DEF ScanFails, Conclude
<1>9. CASE ClamdAnswers \/ ClamdGivesUp
  BY <1>9 DEF ClamdAnswers, ClamdGivesUp
<1>10. CASE Tick
  BY <1>0, <1>10 DEF Tick, Less
<1>11. CASE UNCHANGED vars
  BY <1>11 DEF vars
<1> QED BY <1>1, <1>2, <1>3, <1>4, <1>5, <1>6, <1>7, <1>8, <1>9, <1>10, <1>11 DEF Next

(* Every variable keeps its type: the reads and the backoffs stay in range. *)
THEOREM CheckTypes == Spec => []TypeOK
<1>1. TypeInv => TypeOK
  BY DEF TypeInv
<1> QED BY <1>1, InitTypes, NextTypes, PTL DEF Spec

-------------------------------------------------------------------------------
(***************************************************************************)
(* The stream: until clamd answers it has got what was read and sent, and  *)
(* the stream ends behind the whole object only.                           *)
(***************************************************************************)
StreamInv ==
  /\ step \in {"head", "backoff", "get", "dial"} => read = 0 /\ received = {} /\ answer = "none"
  /\ heardEnd => step \in {"reply", "done"}
  /\ step = "write" /\ end = "eof" => read = object.size
  /\ step = "marker" => read = object.size
  /\ answer = "none" /\ step \in {"read", "marker"} => received = 1 .. read
  /\ answer = "none" /\ step = "write" => received = 1 .. read - piece
  /\ answer = "none" /\ heardEnd => received = 1 .. object.size
  /\ answer = "OK" => heardEnd /\ received = 1 .. object.size /\ object.bad \notin received
  /\ answer = "FOUND" => object.bad \in received
  /\ verdict = "clean" => answer = "OK"
  /\ verdict = "infected" => answer = "FOUND"
  /\ step = "done" <=> verdict # "pending"

LEMMA StreamStep == TypeInv /\ StreamInv /\ [Next]_vars => StreamInv'
<1> SUFFICES ASSUME TypeInv, StreamInv, [Next]_vars
             PROVE  StreamInv'
  OBVIOUS
<1>0. /\ object.size \in Nat
      /\ object' = object
      /\ read \in 0 .. object.size
      /\ piece \in {0, 1}
      /\ piece <= read
  BY ObjectFields DEF TypeInv, TypeOK, Next, HeadObject, EndBackoff, FetchObject, OpenStream,
     ReadChunk, SendChunk, EndStream, ReadReply, ScanFails, ClamdAnswers, ClamdGivesUp, Tick, vars
<1> USE DEF StreamInv
<1>1. CASE HeadObject \/ EndBackoff \/ FetchObject
  BY <1>1 DEF HeadObject, EndBackoff, FetchObject, Proceed, Conclude
<1>2. CASE OpenStream
  <2>1. 1 .. read = {}
    BY <1>2, SMT DEF OpenStream, Proceed
  <2> QED BY <1>2, <2>1 DEF OpenStream, Proceed
<1>3. CASE ReadChunk
  <2>1. read' - piece' = read
    <3>1. piece' \in {0, 1} /\ read' = read + piece'
      BY <1>3 DEF ReadChunk
    <3>2. CASE piece' = 0
      BY <1>0, <3>1, <3>2
    <3>3. CASE piece' = 1
      BY <1>0, <3>1, <3>3
    <3> QED BY <3>1, <3>2, <3>3
  <2> QED BY <1>0, <1>3, <2>1 DEF ReadChunk, Proceed
<1>4. CASE SendChunk
  <2>1. ASSUME answer = "none"
        PROVE  received' = 1 .. read
    <3>1. received = 1 .. read - piece /\ ~heardEnd
      BY <1>4, <2>1 DEF SendChunk, Proceed
    <3>2. CASE piece = 0
      <4>1. received' = received
        BY <1>4, <3>2 DEF SendChunk
      <4>2. 1 .. read - piece = 1 .. read
        BY <1>0, <3>2
      <4> QED BY <3>1, <4>1, <4>2
    <3>3. CASE piece = 1
      <4>1. received' = received \union {read}
        BY <1>4, <2>1, <3>1, <3>3 DEF SendChunk, Hear
      <4>2. (1 .. read - piece) \union {read} = 1 .. read
        BY <1>0, <3>3
      <4> QED BY <3>1, <4>1, <4>2
    <3> QED BY <1>0, <3>2, <3>3
  <2>2. heardEnd' = heardEnd /\ ~heardEnd
    BY <1>0, <1>4 DEF SendChunk, Hear, Proceed
  <2>3. answer # "none" => received' = received
    BY <1>4 DEF SendChunk, Hear
  <2>4. \/ end = "more" /\ step' = "read" /\ verdict' = verdict
        \/ end = "eof" /\ step' = "marker" /\ verdict' = verdict
        \/ step' = "done" /\ verdict' = "failed"
    BY <1>4 DEF SendChunk, Proceed, AfterChunk, TypeInv, TypeOK
  <2>5. step = "write" /\ verdict = "pending" /\ UNCHANGED <<object, read, piece, end, answer>>
    BY <1>4 DEF SendChunk, Proceed
  <2> QED BY <1>0, <2>1, <2>2, <2>3, <2>4, <2>5
<1>5. CASE EndStream
  <2>1. received' = received
    BY <1>5 DEF EndStream, Hear
  <2> QED BY <1>0, <1>5, <2>1 DEF EndStream, Proceed
<1>6. CASE ReadReply
  BY <1>6 DEF ReadReply, Proceed, Parse
<1>7. CASE ScanFails
  BY <1>7 DEF ScanFails, Conclude, ScanSteps
<1>8. CASE ClamdAnswers
  BY <1>8 DEF ClamdAnswers
<1>9. CASE ClamdGivesUp \/ Tick \/ UNCHANGED vars
  BY <1>9 DEF ClamdGivesUp, Tick, vars
<1> QED BY <1>1, <1>2, <1>3, <1>4, <1>5, <1>6, <1>7, <1>8, <1>9 DEF Next

(* A file passes for clean only if clamd got the whole of it and reports   *)
(* nothing in it, however Read cuts it up and whatever breaks off.         *)
THEOREM CleanIsWhole == Spec => []CleanMeansWhole
<1>1. Init => StreamInv
  BY DEF Init, StreamInv
<1>2. TypeInv /\ StreamInv => CleanMeansWhole
  BY ObjectFields DEF TypeInv, TypeOK, StreamInv, CleanMeansWhole
<1> QED BY <1>1, <1>2, InitTypes, NextTypes, StreamStep, PTL DEF Spec

-------------------------------------------------------------------------------
(***************************************************************************)
(* The HEADs: before the next one at least the waits so far have passed,   *)
(* unless S3 shows the object already.                                     *)
(***************************************************************************)
HeadInv ==
  /\ step \in {"head", "backoff"} =>
       /\ attempt < Attempts
       /\ settling > 0 => object.settles - settling >= WaitBefore(attempt) - timer
  /\ step = "head" => timer = 0
  /\ SeenInTime

LEMMA HeadStep == TypeInv /\ HeadInv /\ [Next]_vars => HeadInv'
<1> SUFFICES ASSUME TypeInv, HeadInv, [Next]_vars
             PROVE  HeadInv'
  OBVIOUS
<1>0. /\ object.settles \in Nat
      /\ object' = object
      /\ settling \in 0 .. object.settles
      /\ attempt \in Nat
      /\ timer \in Nat
      /\ Attempts \in Nat
  BY ObjectFields, ObjectCheckAssumption DEF TypeInv, TypeOK, Attempts, Next, HeadObject,
     EndBackoff, FetchObject, OpenStream, ReadChunk, SendChunk, EndStream, ReadReply, ScanFails,
     ClamdAnswers, ClamdGivesUp, Tick, vars
<1>1. CASE HeadObject
  <2>1. CASE step' = "get"
    <3>1. UNCHANGED <<object, refused, verdict>>
      BY <1>1, <2>1 DEF HeadObject, Conclude
    <3> QED BY <2>1, <3>1 DEF HeadInv, SeenInTime, Attempts
  <2>2. /\ timer = 0
        /\ attempt < Attempts
        /\ settling > 0 => object.settles - settling >= WaitBefore(attempt) - timer
        /\ UNCHANGED settling
    BY <1>1 DEF HeadObject, HeadInv
  <2>3. WaitBefore(attempt) \in Int
    BY <1>0 DEF WaitBefore
  <2>4. ASSUME step' # "get"
        PROVE  /\ refused' = (refused \/ Visible)
               /\ attempt' = attempt + 1
               /\ timer' = Delay(attempt')
    BY <1>1, <2>4 DEF HeadObject
  <2>5. CASE step' = "backoff"
    <3>1. WaitBefore(attempt + 1) - Delay(attempt + 1) = WaitBefore(attempt)
      BY <1>0 DEF WaitBefore, Delay
    <3>2. attempt' < Attempts /\ verdict' = verdict
      BY <1>1, <2>5 DEF HeadObject, Conclude
    <3>3. settling > 0 => object.settles - settling >= WaitBefore(attempt') - timer'
      BY <1>0, <2>2, <2>5, <2>4, <3>1, <2>3
    <3>4. SeenInTime'
      <4>1. verdict # "missing" \/ refused \/ object.settles > WaitBefore(Attempts - 1)
        BY DEF HeadInv, SeenInTime
      <4>2. refused => refused'
        BY <2>5, <2>4
      <4> QED BY <1>0, <3>2, <4>1, <4>2 DEF SeenInTime, Attempts
    <3>5. attempt' < Attempts'
      BY <3>2 DEF Attempts
    <3>6. settling' > 0 => object'.settles - settling' >= WaitBefore(attempt') - timer'
      BY <1>0, <2>2, <3>3
    <3> QED BY <2>5, <3>4, <3>5, <3>6 DEF HeadInv
  <2>6. CASE step' = "done"
    <3>1. attempt = Attempts - 1
      <4>1. attempt' >= Attempts
        BY <1>1, <2>6 DEF HeadObject
      <4> QED BY <1>0, <2>2, <2>6, <2>4, <4>1
    <3>2. refused' \/ object.settles > WaitBefore(Attempts - 1)
      <4>1. refused' \/ settling # 0
        BY <2>6, <2>4 DEF Visible
      <4> QED BY <1>0, <2>2, <2>3, <3>1, <4>1
    <3> QED BY <1>0, <2>6, <3>2 DEF HeadInv, SeenInTime, Attempts
  <2> QED BY <1>1, <2>1, <2>5, <2>6 DEF HeadObject, Conclude
<1>2. CASE EndBackoff
  BY <1>2 DEF EndBackoff, HeadInv, SeenInTime
<1>3. CASE Tick
  BY <1>0, <1>3 DEF Tick, Less, HeadInv, SeenInTime, WaitBefore
<1>4. CASE FetchObject \/ OpenStream \/ ReadChunk \/ SendChunk \/ EndStream \/ ReadReply \/ ScanFails
  <2>1. step' \notin {"head", "backoff"}
    BY <1>4 DEF FetchObject, OpenStream, ReadChunk, SendChunk, EndStream, ReadReply, ScanFails,
       Proceed, Conclude, AfterChunk
  <2>2. verdict' = verdict \/ verdict' # "missing"
    BY <1>4 DEF FetchObject, OpenStream, ReadChunk, SendChunk, EndStream, ReadReply, ScanFails,
       Conclude, Parse
  <2>3. UNCHANGED refused
    BY <1>4 DEF FetchObject, OpenStream, ReadChunk, SendChunk, EndStream, ReadReply, ScanFails
  <2> QED BY <1>0, <2>1, <2>2, <2>3 DEF HeadInv, SeenInTime, Attempts
<1>5. CASE ClamdAnswers \/ ClamdGivesUp \/ UNCHANGED vars
  BY <1>5 DEF ClamdAnswers, ClamdGivesUp, vars, HeadInv, SeenInTime
<1> QED BY <1>1, <1>2, <1>3, <1>4, <1>5 DEF Next

LEMMA HeadInit == Init => HeadInv
BY ObjectFields, ObjectCheckAssumption DEF Init, HeadInv, SeenInTime, Attempts, WaitBefore

(* An object that S3 shows within the waits of all attempts is not given   *)
(* up as missing unless a HEAD failed on it, for any number of attempts.   *)
THEOREM ObjectsSeenInTime == Spec => []SeenInTime
<1>1. HeadInv => SeenInTime
  BY DEF HeadInv
<1> QED BY <1>1, HeadInit, HeadStep, InitTypes, NextTypes, PTL DEF Spec

-------------------------------------------------------------------------------
(***************************************************************************)
(* The check takes no step but those of ObjectVerdict.                     *)
(***************************************************************************)
LEMMA VerdictInit == Init => Verdict!Init
BY DEF Init, Verdict!Init, ScanSteps

LEMMA VerdictStep ==
  TypeInv /\ TypeInv' /\ StreamInv /\ StreamInv' /\ HeadInv' /\ [Next]_vars
    => [Verdict!Next]_<<IF step \in ScanSteps THEN "present" ELSE verdict, object.bad = 0,
                        refused \/ object.settles > WaitBefore(Attempts - 1)>>
<1> SUFFICES ASSUME TypeInv, TypeInv', StreamInv, StreamInv', HeadInv', [Next]_vars
             PROVE  [Verdict!Next]_<<IF step \in ScanSteps THEN "present" ELSE verdict,
                                     object.bad = 0,
                                     refused \/ object.settles > WaitBefore(Attempts - 1)>>
  OBVIOUS
<1>0. UNCHANGED object
  BY DEF Next, HeadObject, EndBackoff, FetchObject, OpenStream, ReadChunk, SendChunk, EndStream,
     ReadReply, ScanFails, ClamdAnswers, ClamdGivesUp, Tick, vars
<1>1. CASE HeadObject
  <2>1. step = "head" /\ verdict = "pending"
    BY <1>1 DEF HeadObject, StreamInv
  <2>2. refused => refused'
    BY <1>1 DEF HeadObject
  <2>3. verdict' = "missing" => refused' \/ object.settles > WaitBefore(Attempts - 1)
    BY <1>0 DEF HeadInv, SeenInTime, Attempts
  <2>4. \/ step' = "get"
        \/ step' = "backoff" /\ verdict' = "pending"
        \/ step' = "done" /\ verdict' = "missing"
    BY <1>1, <2>1 DEF HeadObject, Conclude
  <2> QED BY <1>0, <2>1, <2>2, <2>3, <2>4 DEF Verdict!Next, Verdict!FindObject, ScanSteps, Attempts
<1>2. CASE FetchObject \/ OpenStream \/ ReadChunk \/ SendChunk \/ EndStream \/ ReadReply \/ ScanFails
  <2>1. step \in ScanSteps /\ UNCHANGED refused
    BY <1>2 DEF FetchObject, OpenStream, ReadChunk, SendChunk, EndStream, ReadReply, ScanFails,
       Proceed, ScanSteps
  <2>2. \/ step' \in ScanSteps
        \/ step' = "done" /\ verdict' \in {"failed", "clean", "infected"}
    BY <1>2 DEF FetchObject, OpenStream, ReadChunk, SendChunk, EndStream, ReadReply, ScanFails,
       Proceed, Conclude, AfterChunk, Parse, ScanSteps, TypeInv, TypeOK
  <2>3. verdict' = "clean" => object.bad = 0
    BY <1>0, ObjectFields DEF StreamInv, TypeInv, TypeOK
  <2>4. verdict' = "infected" => object.bad # 0
    BY <1>0, ObjectFields DEF StreamInv, TypeInv, TypeOK
  <2> QED BY <1>0, <2>1, <2>2, <2>3, <2>4 DEF Verdict!Next, Verdict!JudgeObject, ScanSteps, Attempts
<1>3. CASE EndBackoff \/ ClamdAnswers \/ ClamdGivesUp \/ Tick \/ UNCHANGED vars
  BY <1>0, <1>3 DEF EndBackoff, ClamdAnswers, ClamdGivesUp, Tick, vars, ScanSteps, Attempts
<1> QED BY <1>1, <1>2, <1>3 DEF Next

(* The check of an object is the two steps UploadPipeline makes of it.     *)
THEOREM CheckIsVerdict == Spec => IsVerdict
<1>1. Init => StreamInv
  BY DEF Init, StreamInv
<1> QED BY <1>1, InitTypes, NextTypes, StreamStep, HeadInit, HeadStep, VerdictInit, VerdictStep, PTL
       DEF Spec, IsVerdict, Verdict!Spec

===============================================================================
