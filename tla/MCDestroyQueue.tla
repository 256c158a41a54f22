---------------------------- MODULE MCDestroyQueue ----------------------------
(* Instances of DestroyQueue for TLC. *)
EXTENDS DestroyQueue, TLC

(* Jobs and instances are compared for equality only. *)
Symmetry == Permutations(Jobs) \union Permutations(Pollers)

===============================================================================
