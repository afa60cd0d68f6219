------------------------------ MODULE DrainGate ------------------------------
(***************************************************************************)
(* What a graceful shutdown promises, without saying how the program       *)
(* counts.  Requests enter and leave.  Shutting the gate keeps new ones    *)
(* out; the one who shuts it then waits for a verdict, and the verdict     *)
(* "quiet" may be given only when nobody is inside.  Giving up is always   *)
(* allowed: the wait has a timeout.                                        *)
(***************************************************************************)
CONSTANT Requests

VARIABLES
  inside,    \* the requests being served
  verdict    \* "open" until the gate is shut, then how the wait stands

gateVars == <<inside, verdict>>

GateInit == inside = {} /\ verdict = "open"

Enter(r) ==
  /\ verdict = "open"
  /\ r \notin inside
  /\ inside' = inside \cup {r}
  /\ UNCHANGED verdict

Leave(r) ==
  /\ r \in inside
  /\ inside' = inside \ {r}
  /\ UNCHANGED verdict

Shut ==
  /\ verdict = "open"
  /\ verdict' \in (IF inside = {} THEN {"quiet"} ELSE {}) \cup {"waiting"}
  /\ UNCHANGED inside

Judge ==
  /\ verdict = "waiting"
  /\ verdict' \in (IF inside = {} THEN {"quiet"} ELSE {}) \cup {"timed_out"}
  /\ UNCHANGED inside

GateNext ==
  \/ \E r \in Requests : Enter(r) \/ Leave(r)
  \/ Shut
  \/ Judge

GateSpec == GateInit /\ [][GateNext]_gateVars
=============================================================================
