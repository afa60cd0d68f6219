---------------------------- MODULE HealthChecker ----------------------------
(***************************************************************************)
(* HealthChecker (src/dispatcher/health.py) over the part of the registry  *)
(* it works on (src/dispatcher/registry.py): the status of each id.        *)
(*                                                                         *)
(* A round takes a snapshot of the instances and checks all of them at     *)
(* once; each check gives up the event loop while it waits for the answer  *)
(* and then writes its verdict under the id, whatever is registered under  *)
(* that id by then.  Registrations, deregistrations and status changes     *)
(* happen in between.                                                      *)
(*                                                                         *)
(* The counters are compared with their thresholds only (>=), so they are  *)
(* kept up to the threshold and no further.                                *)
(***************************************************************************)
EXTENDS Naturals, FiniteSets

CONSTANTS
  Ids,                 \* instance ids
  Managed,             \* those that are deregistered and registered again
  Drainable,           \* those that update_status may set to DRAINING
  UnhealthyThreshold,
  HealthyThreshold,
  DeepEvery            \* deep_check_interval, 0 for no deep checks

ASSUME HealthAssumption ==
  /\ Managed \subseteq Ids /\ Drainable \subseteq Ids
  /\ UnhealthyThreshold \in Nat \ {0}
  /\ HealthyThreshold \in Nat \ {0}
  /\ DeepEvery \in Nat

VARIABLES
  status,      \* the registry: "healthy", "unhealthy", "draining", "absent"
  failures,    \* _failure_counts
  successes,   \* _success_counts
  check,       \* the check of each id that is under way: "none", "running",
               \* or "stale" when what it checks has been deregistered
  round,       \* run_forever: "resting", "checking", "deep", or "stopped"
  cycle,       \* _check_cycle, modulo DeepEvery
  stopping,    \* _stopped is set
  streak       \* history: failed checks in a row of what is registered now

counts == <<failures, successes>>
loop == <<round, cycle, stopping>>
history == <<streak>>
vars == <<status, failures, successes, check, round, cycle, stopping, streak>>

Status == {"healthy", "unhealthy", "draining"}

Init ==
  /\ status = [i \in Ids |-> "healthy"]
  /\ failures = [i \in Ids |-> 0]
  /\ successes = [i \in Ids |-> 0]
  /\ check = [i \in Ids |-> "none"]
  /\ round = "resting"
  /\ cycle = 0
  /\ stopping = FALSE
  /\ streak = [i \in Ids |-> 0]

UpTo(limit, n) == IF n < limit THEN n + 1 ELSE limit

-----------------------------------------------------------------------------
(* The loop.                                                               *)

\* Mutants of Rest: the outcomes of the wait are swapped; the event is ignored.
RestSwapped == IF stopping THEN "resting" ELSE "stopped"
RestRegardless == "resting"

\* Where run_forever goes when a round is through: to rest, unless the stop
\* event has been set.
Rest == IF stopping THEN "stopped" ELSE "resting"

Registered == {i \in Ids : status[i] # "absent"}

\* Mutant of RoundStarts: only the instances in service are checked.
RoundStartsWithHealthy ==
  /\ round = "resting"
  /\ Registered # {}
  /\ round' = "checking"
  /\ check' = [i \in Ids |-> IF status[i] = "healthy" THEN "running" ELSE "none"]
  /\ UNCHANGED <<status, counts, cycle, stopping, history>>

\* Mutant of RoundStarts: draining instances are checked, too.
RoundStartsWithAll ==
  /\ round = "resting"
  /\ Registered # {}
  /\ round' = "checking"
  /\ check' = [i \in Ids |-> IF i \in Registered THEN "running" ELSE "none"]
  /\ UNCHANGED <<status, counts, cycle, stopping, history>>

\* _check_all_instances: all that are not DRAINING now are checked at once.
RoundStarts ==
  /\ round = "resting"
  /\ Registered # {}
  /\ round' = "checking"
  /\ check' = [i \in Ids |->
                 IF i \in Registered /\ status[i] # "draining"
                 THEN "running" ELSE "none"]
  /\ UNCHANGED <<status, counts, cycle, stopping, history>>

\* The gather is through; every DeepEvery-th round goes on to deep checks.
RoundEnds ==
  /\ round = "checking"
  /\ \A i \in Ids : check[i] = "none"
  /\ cycle' = IF DeepEvery = 0 THEN 0 ELSE (cycle + 1) % DeepEvery
  /\ round' = IF DeepEvery > 0 /\ cycle' = 0 THEN "deep" ELSE Rest
  /\ UNCHANGED <<status, counts, check, stopping, history>>

\* The outcome of the deep checks is not used.
DeepEnds ==
  /\ round = "deep"
  /\ round' = Rest
  /\ UNCHANGED <<status, counts, check, cycle, stopping, history>>

-----------------------------------------------------------------------------
(* The end of one check: _check_and_update.                                *)

\* mark_healthy: only UNHEALTHY turns into HEALTHY.
MarkedHealthy(s) == IF s = "unhealthy" THEN "healthy" ELSE s

\* mark_unhealthy: any status does; an id nobody holds raises KeyError, which
\* the gather swallows.
MarkedUnhealthy(s) == IF s = "absent" THEN s ELSE "unhealthy"

CheckEnds(i) ==
  /\ check[i] # "none"
  /\ check' = [check EXCEPT ![i] = "none"]
  /\ UNCHANGED loop

\* Mutant of CheckSucceeds: the failures before it stay counted.
CheckSucceedsForgetful(i) ==
  /\ CheckEnds(i)
  /\ failures' = failures
  /\ successes' = [successes EXCEPT ![i] = UpTo(HealthyThreshold, @)]
  /\ status' = [status EXCEPT ![i] =
                  IF successes'[i] >= HealthyThreshold
                  THEN MarkedHealthy(@) ELSE @]
  /\ streak' = IF check[i] = "running" THEN [streak EXCEPT ![i] = 0] ELSE streak

\* 200 <= status < 300.
CheckSucceeds(i) ==
  /\ CheckEnds(i)
  /\ failures' = [failures EXCEPT ![i] = 0]
  /\ successes' = [successes EXCEPT ![i] = UpTo(HealthyThreshold, @)]
  /\ status' = [status EXCEPT ![i] =
                  IF successes'[i] >= HealthyThreshold
                  THEN MarkedHealthy(@) ELSE @]
  /\ streak' = IF check[i] = "running" THEN [streak EXCEPT ![i] = 0] ELSE streak

\* Mutant of CheckFails: the threshold is compared before counting.
CheckFailsLate(i) ==
  /\ CheckEnds(i)
  /\ successes' = [successes EXCEPT ![i] = 0]
  /\ failures' = [failures EXCEPT ![i] = UpTo(UnhealthyThreshold, @)]
  /\ status' = [status EXCEPT ![i] =
                  IF failures[i] >= UnhealthyThreshold
                  THEN MarkedUnhealthy(@) ELSE @]
  /\ streak' = IF check[i] = "running"
               THEN [streak EXCEPT ![i] = UpTo(UnhealthyThreshold, @)]
               ELSE streak

\* Another status (429 too), a timeout, an error, or no adapter.
CheckFails(i) ==
  /\ CheckEnds(i)
  /\ successes' = [successes EXCEPT ![i] = 0]
  /\ failures' = [failures EXCEPT ![i] = UpTo(UnhealthyThreshold, @)]
  /\ status' = [status EXCEPT ![i] =
                  IF failures'[i] >= UnhealthyThreshold
                  THEN MarkedUnhealthy(@) ELSE @]
  /\ streak' = IF check[i] = "running"
               THEN [streak EXCEPT ![i] = UpTo(UnhealthyThreshold, @)]
               ELSE streak

-----------------------------------------------------------------------------
(* What others do meanwhile.                                               *)

\* Registration takes the status from the request body; deregistration leaves
\* the checker's counts where they are.
Register(i, s) ==
  /\ status[i] = "absent"
  /\ status' = [status EXCEPT ![i] = s]
  /\ UNCHANGED <<counts, check, loop, streak>>

Deregister(i) ==
  /\ status[i] # "absent"
  /\ status' = [status EXCEPT ![i] = "absent"]
  /\ check' = [check EXCEPT ![i] = IF @ = "none" THEN "none" ELSE "stale"]
  /\ streak' = [streak EXCEPT ![i] = 0]
  /\ UNCHANGED <<counts, loop>>

\* update_status(i, DRAINING): the instance is being scaled in.
StartDraining(i) ==
  /\ status[i] \in {"healthy", "unhealthy"}
  /\ status' = [status EXCEPT ![i] = "draining"]
  /\ UNCHANGED <<counts, check, loop, streak>>

\* stop(): ends the rest at once, a round only when it is through.
Stop ==
  /\ ~stopping
  /\ stopping' = TRUE
  /\ round' = IF round = "resting" THEN "stopped" ELSE round
  /\ UNCHANGED <<status, counts, check, cycle, history>>

\* Mutant of Shutdown: the checks under way are not cancelled with the task.
ShutdownLeaky ==
  /\ round # "stopped"
  /\ stopping' = TRUE
  /\ round' = "stopped"
  /\ UNCHANGED <<status, counts, check, cycle, history>>

\* The lifespan handler calls stop() and cancels the task; the checks that
\* are under way are cancelled with it and write nothing.
Shutdown ==
  /\ round # "stopped"
  /\ stopping' = TRUE
  /\ round' = "stopped"
  /\ check' = [i \in Ids |-> "none"]
  /\ UNCHANGED <<status, counts, cycle, history>>

CheckReturns(i) == CheckSucceeds(i) \/ CheckFails(i)

Manage(i) == Deregister(i) \/ \E s \in Status : Register(i, s)

Next ==
  \/ RoundStarts \/ RoundEnds \/ DeepEnds
  \/ \E i \in Ids : CheckReturns(i)
  \/ \E i \in Managed : Manage(i)
  \/ \E i \in Drainable : StartDraining(i)
  \/ Stop \/ Shutdown

Spec == Init /\ [][Next]_vars

\* The interval elapses and each check ends: its client has a timeout.
FairSpec ==
  /\ Spec
  /\ WF_vars(RoundStarts) /\ WF_vars(RoundEnds) /\ WF_vars(DeepEnds)
  /\ \A i \in Ids : WF_vars(CheckReturns(i))

-----------------------------------------------------------------------------
(* Properties.                                                             *)

\* Every variable keeps its type, and no count passes its threshold.
TypeOK ==
  /\ status \in [Ids -> Status \cup {"absent"}]
  /\ failures \in [Ids -> 0 .. UnhealthyThreshold]
  /\ successes \in [Ids -> 0 .. HealthyThreshold]
  /\ check \in [Ids -> {"none", "running", "stale"}]
  /\ round \in {"resting", "checking", "deep", "stopped"}
  /\ cycle \in Nat
  /\ stopping \in BOOLEAN
  /\ streak \in [Ids -> 0 .. UnhealthyThreshold]

\* Rounds do not overlap, so no instance is checked twice at a time, and no
\* check outlives the loop: after the stop nothing is written any more.
ChecksBelongToARound ==
  /\ \A i \in Ids : check[i] # "none" => round = "checking"
  /\ round = "stopped" => stopping

\* Failures and successes in a row exclude each other.
OneRunAtATime == \A i \in Ids : failures[i] = 0 \/ successes[i] = 0

\* An instance that has been registered all along is routed to exactly as
\* long as its counts say: never with unhealthy_threshold failures in a row,
\* never kept out with healthy_threshold successes in a row.
StatusMatchesCounts ==
  \A i \in Ids \ Managed :
    /\ status[i] # "absent" /\ check[i] # "stale"
    /\ status[i] = "healthy" => failures[i] < UnhealthyThreshold
    /\ status[i] = "unhealthy" => successes[i] < HealthyThreshold
    /\ streak[i] = failures[i]

\* All of it together.
Inductive ==
  TypeOK /\ ChecksBelongToARound /\ OneRunAtATime /\ StatusMatchesCounts

\* DRAINING, "no new requests any more", holds against the checker: no step
\* puts a draining instance in service, and once no check of it is under way
\* there is none again, and only its deregistration ends the status.  (A check
\* that overlaps with the draining may mark it unhealthy: see the README.)
DrainingHolds ==
  [][\A i \in Ids : status[i] = "draining" =>
       /\ status'[i] # "healthy"
       /\ check[i] = "none" =>
            status'[i] \in {"draining", "absent"} /\ check'[i] = "none"]_vars

\* From some time on nobody stops the checker, drains i or takes it away.
Undisturbed(i) == <>[](~stopping /\ status[i] \in {"healthy", "unhealthy"})

\* An undisturbed instance that answers every check from some time on gets
\* requests again, for good.
RecoveryIsNoticed ==
  \A i \in Ids :
    Undisturbed(i) /\ <>[][~CheckFails(i)]_vars => <>[](status[i] = "healthy")

\* An undisturbed instance that fails every check from some time on gets no
\* more requests.
FailureIsNoticed ==
  \A i \in Ids :
    Undisturbed(i) /\ <>[][~CheckSucceeds(i)]_vars =>
      <>[](status[i] = "unhealthy")

\* stop() ends the loop, whatever it is doing.
StopEnds == stopping ~> round = "stopped"
=============================================================================
