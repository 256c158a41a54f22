----------------------------- MODULE MCAuthSession ----------------------------
(* Instances of AuthSession for TLC. *)
EXTENDS AuthSession, TLC

(* Requests are compared for equality only. *)
Symmetry == Permutations(Requests)

===============================================================================
