--------------------------- MODULE MCShareLifecycle ---------------------------
(* Instances of ShareLifecycle for TLC. *)
EXTENDS ShareLifecycle, TLC

(* Hashes, requests, confirmations, instances and objects are compared for *)
(* equality only.                                                          *)
Symmetry ==
  Permutations(Hashes) \union Permutations(Requests) \union Permutations(Confirms)
    \union Permutations(Workers) \union Permutations(Objects)

(* Every upload has left uploads_pending. *)
NoEntries == {NoTime}

===============================================================================
