--------------------------- MODULE MCRoutingProxy ---------------------------
(***************************************************************************)
(* RoutingProxy for TLC: the identities are model values of the .cfg, the  *)
(* values a .cfg cannot write are defined here.                            *)
(***************************************************************************)
EXTENDS RoutingProxy

AllFlags == {"timeout", "connection", "5xx"}
No5xx == AllFlags \ {"5xx"}

\* Every request weighs the same: places are interchangeable.
EvenWeight == [r \in Requests |-> 1]

\* Streams are heavier than the other requests, so that a second
\* on_request_end takes away the load of somebody else.
StreamsHeavier == [r \in Requests |-> IF r \in Streams THEN 2 ELSE 1]
=============================================================================
