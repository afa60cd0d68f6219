--------------------------- MODULE MCRequestQueue ---------------------------
(***************************************************************************)
(* RequestQueue for TLC: urgent requests and others.                       *)
(***************************************************************************)
EXTENDS RequestQueue

CONSTANT Urgent

UrgentFirst == [r \in Requests |-> IF r \in Urgent THEN 1 ELSE 5]
=============================================================================
