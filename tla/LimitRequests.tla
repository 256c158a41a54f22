---------------------------- MODULE LimitRequests -----------------------------
(***************************************************************************)
(* Requests on their way through one of the limits.  The limits keep their *)
(* state under different keys, and a request passes them one after the     *)
(* other, so a behaviour follows the requests through one gate: the gate   *)
(* sees any arrivals, whatever the gates before it do.  A request is a     *)
(* slot that serves one request after another for ever.                    *)
(***************************************************************************)
EXTENDS Integers, FiniteSets

CONSTANTS
  Requests, \* how many requests may be under way at once
  MaxSlips  \* bound on failed calls, re-sent calls and crashes

ASSUME RequestsAssumption ==
  /\ IsFiniteSet(Requests)
  /\ MaxSlips \in Nat

VARIABLES
  gate,  \* the gate of this behaviour
  pc,    \* the next call of a request, or "idle"
  slips  \* history: calls that failed or were executed twice, and crashes

Gates == {"rate", "enum", "lockout", "admission"}

(* The first call each gate makes for a request. *)
FirstCall ==
  [rate |-> "incr", enum |-> "get", lockout |-> "check", admission |-> "pressure"]

Goto(r, step) == pc' = [pc EXCEPT ![r] = step]

(* The request is answered, or goes on past the gate. *)
Leave(r) == Goto(r, "idle")

Slip == slips < MaxSlips /\ slips' = slips + 1

At(step) == {r \in Requests : pc[r] = step}

===============================================================================
