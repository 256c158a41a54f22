---------------------------- MODULE ObjectVerdict ----------------------------
(***************************************************************************)
(* What UploadPipeline takes from HeadObjectWithRetry and scanObject: two  *)
(* steps, the first of which finds the object or not, while the second     *)
(* judges what is in it.                                                   *)
(***************************************************************************)
VARIABLES
  verdict,  \* "pending", "present", or what the confirmation goes on with
  harmless, \* is there nothing in the object that ClamAV reports?
  excused   \* may the object be missed: S3 failed, or showed it too late?

Init ==
  /\ verdict = "pending"
  /\ harmless \in BOOLEAN
  /\ excused \in BOOLEAN

(* HeadObjectWithRetry, in UploadPipeline's HeadObject. *)
FindObject ==
  /\ verdict = "pending"
  /\ excused' \in {excused, TRUE}
  /\ \/ verdict' = "present"
     \/ verdict' = "missing" /\ excused'
     \/ UNCHANGED verdict
  /\ UNCHANGED harmless

(* scanObject, in UploadPipeline's ScanVerdict. *)
JudgeObject ==
  /\ verdict = "present"
  /\ \/ verdict' = "failed"
     \/ verdict' = "clean" /\ harmless
     \/ verdict' = "infected" /\ ~harmless
  /\ UNCHANGED <<harmless, excused>>

Next == FindObject \/ JudgeObject

Spec == Init /\ [][Next]_<<verdict, harmless, excused>>

===============================================================================
