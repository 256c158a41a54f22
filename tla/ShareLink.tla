------------------------------- MODULE ShareLink -------------------------------
(***************************************************************************)
(* How a share URL finds its token again: GenerateToken makes the token    *)
(* and the hash it is stored under, ConfirmUpload puts the token in the    *)
(* URL, and the download handler hashes what the URL carries.  A digest    *)
(* and an encoding are represented by what they were computed from, so two *)
(* are equal only when their inputs are.                                   *)
(***************************************************************************)
CONSTANT Randoms  \* what rand.Read may fill the token's bytes with

VARIABLES
  stored,   \* hashes with a token:{hash} key
  links,    \* tokens handed out in share URLs
  answered  \* <<token, answer>> of the requests made

vars == <<stored, links, answered>>

Init ==
  /\ stored = {}
  /\ links = {}
  /\ answered = {}

Sum256(message) == [sha256 |-> message]

EncodeToString(bytes) == [base64 |-> bytes]

(* GenerateToken: the token and its hash, which is that of the raw bytes. *)
GenerateToken(tokenBytes) ==
  [token |-> EncodeToString(tokenBytes), hash |-> Sum256(tokenBytes)]

ConfirmUpload(tokenBytes) ==
  LET generated == GenerateToken(tokenBytes) IN
  /\ generated.hash \notin stored
  /\ stored' = stored \union {generated.hash}
  /\ links' = links \union {generated.token}
  /\ UNCHANGED answered

(* The download handler's hash: of the text of the URL's last segment. *)
HashToken(rawToken) == Sum256(rawToken)

Open(rawToken) ==
  /\ answered' = answered \union
       {<<rawToken, IF HashToken(rawToken) \in stored THEN "page" ELSE "expired">>}
  /\ UNCHANGED <<stored, links>>

Next ==
  \/ \E b \in Randoms : ConfirmUpload(b)
  \/ \E l \in links : Open(l)

Spec == Init /\ [][Next]_vars

(* requirements.md 15.2: the link of a stored token leads to it. *)
LinkOpens == \A l \in links : <<l, "expired">> \notin answered

===============================================================================
