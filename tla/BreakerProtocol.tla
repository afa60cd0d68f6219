--------------------------- MODULE BreakerProtocol ---------------------------
(***************************************************************************)
(* One breaker (src/dispatcher/circuit_breaker.py) and the callers it is   *)
(* made for: a caller asks allow_request(), sends its request if the       *)
(* answer is True, and reports the outcome when it has one.  Calls overlap *)
(* and last as long as they like, so an outcome may come in after the      *)
(* breaker has opened, half-opened or been reset since it was asked.       *)
(*                                                                         *)
(* RoutingProxy is not such a caller: it asks about instances it then does *)
(* not use.  This module says what the breaker promises to one that is.    *)
(***************************************************************************)
EXTENDS CircuitBreaker, FiniteSets

CONSTANT Callers

ASSUME CallersAssumption == IsFiniteSet(Callers)

VARIABLES
  breaker,   \* the breaker
  grant      \* what each caller was last allowed and has not reported on:
             \* "none", a "call", or a "probe" of the half-open episode that
             \* goes on; a probe of an earlier episode is a "call"

vars == <<breaker, grant>>

Init ==
  /\ breaker = Closed
  /\ grant = [c \in Callers |-> "none"]

\* The grants seen from a breaker in state s: only while it stays half-open
\* are the probes still probes.
SeenFrom(s, g) ==
  [c \in Callers |->
     IF s # "half_open" /\ g[c] = "probe" THEN "call" ELSE g[c]]

\* Mutant of Ask: the slot of the probe that ends the recovery is not taken.
AskFree(c) ==
  /\ grant[c] = "none"
  /\ Allows(breaker)
  /\ breaker' = IF Ripe(breaker)
                THEN [Asked(breaker) EXCEPT !.probes = 0]
                ELSE Asked(breaker)
  /\ grant' = [grant EXCEPT ![c] =
                 IF breaker'.state = "half_open" THEN "probe" ELSE "call"]

\* allow_request() returns True.
Ask(c) ==
  /\ grant[c] = "none"
  /\ Allows(breaker)
  /\ breaker' = Asked(breaker)
  /\ grant' = [grant EXCEPT ![c] =
                 IF breaker'.state = "half_open" THEN "probe" ELSE "call"]

\* Mutant of Report: a failed probe is not reported.
ReportGood(c) ==
  /\ grant[c] # "none"
  /\ breaker' \in IF grant[c] = "probe" THEN {breaker, Succeeded(breaker)}
                  ELSE {Succeeded(breaker), Failed(breaker)}
  /\ grant' = SeenFrom(breaker'.state, [grant EXCEPT ![c] = "none"])

\* record_success() or record_failure().
Report(c) ==
  /\ grant[c] # "none"
  /\ breaker' \in {Succeeded(breaker), Failed(breaker)}
  /\ grant' = SeenFrom(breaker'.state, [grant EXCEPT ![c] = "none"])

\* reset(), by the admin API.
Reset ==
  /\ breaker' = Closed
  /\ grant' = SeenFrom("closed", grant)

RecoveryElapses ==
  /\ breaker.state = "open" /\ ~Ripe(breaker)
  /\ breaker' = Ripen(breaker)
  /\ UNCHANGED grant

Next ==
  \/ \E c \in Callers : Ask(c) \/ Report(c)
  \/ Reset
  \/ RecoveryElapses

Spec == Init /\ [][Next]_vars

\* Every allowed request has an outcome in the end, and time passes.
FairSpec ==
  Spec /\ WF_vars(RecoveryElapses) /\ \A c \in Callers : WF_vars(Report(c))

-----------------------------------------------------------------------------
(* Properties.                                                             *)

\* The breaker keeps its ranges, and a grant is one of three.
TypeOK ==
  /\ breaker \in Breaker
  /\ grant \in [Callers -> {"none", "call", "probe"}]

Probes == {c \in Callers : grant[c] = "probe"}

\* half_open_max_calls is exact: no more probes are ever out in one half-open
\* episode, whatever late outcomes of earlier calls come in between.
ProbesAreBounded == Cardinality(Probes) <= HalfOpenMaxCalls

\* Every slot taken in the episode is still out or has been reported as a
\* success, so a breaker that has no slot left and nobody out is not
\* half-open any more: it cannot get stuck.
SlotsAreAccounted ==
  /\ breaker.state # "half_open" => Probes = {}
  /\ breaker.state = "half_open" =>
       /\ Cardinality(Probes) <= breaker.probes
       /\ breaker.probes <= Cardinality(Probes) + breaker.successes

\* What an induction over the calls needs: the bound on the probes follows from
\* the slots, and the slots from the ranges.
Inductive == TypeOK /\ SlotsAreAccounted

\* Nobody is refused for ever: a breaker without a free slot is decided by the
\* probes that are out, and one that opens recovers.
RefusalEnds == ~Allows(breaker) ~> Allows(breaker)
=============================================================================
