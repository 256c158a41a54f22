----------------------------- MODULE AdminSession -----------------------------
(***************************************************************************)
(* What an admin session promises, without tokens, cookies or Redis: it is *)
(* opened at most once, it never opens again once it has ended, and while  *)
(* it is open is the only time at which a request is granted anything in   *)
(* its name.                                                               *)
(***************************************************************************)
CONSTANTS
  Sessions,
  Requests, \* the requests that ask to be served under a session
  NoSession

VARIABLES
  life,  \* of each session: "new", "open" or "ended"
  grant  \* the session a request was served under, or NoSession

vars == <<life, grant>>

Init ==
  /\ life = [s \in Sessions |-> "new"]
  /\ grant = [r \in Requests |-> NoSession]

Open(s) ==
  /\ life[s] = "new"
  /\ life' = [life EXCEPT ![s] = "open"]
  /\ UNCHANGED grant

(* A request is served once. *)
Grant(r, s) ==
  /\ life[s] = "open"
  /\ grant[r] = NoSession
  /\ grant' = [grant EXCEPT ![r] = s]
  /\ UNCHANGED life

(* A logout ends one session; those whose time is up end together. *)
End(S) ==
  /\ \A s \in S : life[s] = "open"
  /\ life' = [s \in Sessions |-> IF s \in S THEN "ended" ELSE life[s]]
  /\ UNCHANGED grant

Next ==
  \/ \E s \in Sessions : Open(s)
  \/ \E r \in Requests, s \in Sessions : Grant(r, s)
  \/ \E S \in SUBSET Sessions : End(S)

Spec == Init /\ [][Next]_vars

===============================================================================
