----------------------------- MODULE OneTimeShare -----------------------------
(***************************************************************************)
(* What a share link promises, without Redis, S3 or handlers: it is issued *)
(* once, at most one request claims it, only that request may be served,   *)
(* and a link that is claimed or void never opens again.                   *)
(***************************************************************************)
CONSTANTS
  Hashes,    \* the shares
  Requests,  \* the requests that ask for their files
  NoOne

VARIABLES
  share,   \* life of each share
  holder,  \* the request that claimed it
  served   \* requests that were redirected to the file

vars == <<share, holder, served>>

Init ==
  /\ share = [h \in Hashes |-> "unissued"]
  /\ holder = [h \in Hashes |-> NoOne]
  /\ served = {}

(* Issuing may fail, which leaves a share nobody can ever claim. *)
Issue(h) ==
  /\ share[h] = "unissued"
  /\ \E s \in {"open", "void"} : share' = [share EXCEPT ![h] = s]
  /\ UNCHANGED <<holder, served>>

(* A request claims at most one share, and before it is served. *)
Claim(h, r) ==
  /\ share[h] = "open"
  /\ \A g \in Hashes : holder[g] # r
  /\ share' = [share EXCEPT ![h] = "claimed"]
  /\ holder' = [holder EXCEPT ![h] = r]
  /\ UNCHANGED served

Serve(h, r) ==
  /\ holder[h] = r
  /\ r \notin served
  /\ served' = served \union {r}
  /\ UNCHANGED <<share, holder>>

(* Revoked, expired, or taken by a request that never learns of it; the    *)
(* expiries of one instant are one step.                                   *)
Withdraw(H) ==
  /\ \A h \in H : share[h] = "open"
  /\ share' = [h \in Hashes |-> IF h \in H THEN "void" ELSE share[h]]
  /\ UNCHANGED <<holder, served>>

Next ==
  \/ \E h \in Hashes : Issue(h)
  \/ \E h \in Hashes, r \in Requests : Claim(h, r) \/ Serve(h, r)
  \/ \E H \in SUBSET Hashes : Withdraw(H)

Spec == Init /\ [][Next]_vars

===============================================================================
