------------------------------ MODULE MCFleet ------------------------------
(***************************************************************************)
(* Fleet for TLC: LM Studio with two models, a GPU server of its own and   *)
(* the wildcard that the README warns of.                                  *)
(***************************************************************************)
EXTENDS Fleet

CONSTANTS mock, gpu, any, lm1, lm2, studio, server, m1, m2

Backend(a, m, t, c) == [address |-> a, model |-> m, tier |-> t, capacity |-> c]

ByHand == {[id |-> any, entry |-> Backend(studio, Wildcard, "local", 1)]}

\* The file has an exact model at LM Studio under an id of its own.
File ==
  <<[id |-> mock, entry |-> Backend(studio, m1, "local", 1)],
    [id |-> gpu, entry |-> Backend(server, m1, "remote", 2)]>>

\* Runs of the script are alike, and so are the places of requests.
Interchangeable == Permutations(Scripts) \cup Permutations(Requests)

BothModels == <<m1, m2>>
ScriptIds == [m \in Models |-> IF m = m1 THEN lm1 ELSE lm2]
=============================================================================
