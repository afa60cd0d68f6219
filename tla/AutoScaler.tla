----------------------------- MODULE AutoScaler -----------------------------
(***************************************************************************)
(* AutoScaler (src/dispatcher/scaler.py): decisions, and whoever carries   *)
(* them out.                                                               *)
(*                                                                         *)
(* evaluate() reads the fleet and the demand and keeps one thing, since    *)
(* when it has seen no load.  It is called by executors, which carry a     *)
(* decision out some time later and then call record_scale_event(), and by *)
(* the admin endpoint, where the decision is only looked at.  Instances    *)
(* come and go by the admin API meanwhile.  Nothing keeps evaluate() from  *)
(* making a second decision before the first is recorded.  The executors   *)
(* are not part of the repository.                                         *)
(*                                                                         *)
(* Times are kept as the seconds that have passed, up to the first value   *)
(* at which the comparison with its limit does not change any more.        *)
(***************************************************************************)
EXTENDS Naturals

CONSTANTS
  Executors,       \* those who act on decisions
  MinInstances, MaxInstances,
  IdleSeconds,     \* scale_down_idle_seconds
  CooldownSeconds,
  MaxCount         \* bound on the instances in the registry

ASSUME ScalerAssumption ==
  /\ MinInstances \in Nat /\ MaxInstances \in Nat
  /\ IdleSeconds \in Nat /\ CooldownSeconds \in Nat
  /\ MaxCount \in Nat

VARIABLES
  count,     \* registry.count
  demand,    \* queue depth and average load against their thresholds
  since,     \* now - _last_scale_time
  idle,      \* now - _idle_since, or Unset
  pending,   \* the decision each executor has yet to carry out
  moved,     \* history: the executors since whose decision the fleet has changed
  calm,      \* history: time since an evaluation of a fleet saw load
  rest       \* history: time since each executor carried out a decision

timers == <<since, idle>>
history == <<calm, rest>>
vars == <<count, demand, since, idle, pending, moved, calm, rest>>

\* Above both scale-up thresholds, below the scale-down ones with an empty
\* queue, or in between.
Demand == {"overload", "between", "idle"}

Unset == IdleSeconds + 2                          \* no time: None
Capped(limit, n) == IF n < limit THEN n + 1 ELSE limit
Later(t) == IF t = Unset THEN Unset ELSE Capped(IdleSeconds + 1, t)

\* _last_scale_time starts as 0.0 on the monotonic clock, whatever that says.
Init ==
  /\ count \in 0 .. MaxCount
  /\ demand = "between"
  /\ since \in 0 .. CooldownSeconds
  /\ idle = Unset
  /\ pending = [e \in Executors |-> "none"]
  /\ moved = {}
  /\ calm = IdleSeconds + 1
  /\ rest = [e \in Executors |-> CooldownSeconds]

-----------------------------------------------------------------------------
Rested == since >= CooldownSeconds

\* Mutants of ScalesUp: no comparison with max_instances; one too early.
ScalesUpUnbounded == demand = "overload" /\ Rested
ScalesUpShort == demand = "overload" /\ count + 1 < MaxInstances /\ Rested

\* Enough load, room for one more instance, and no cooldown.
ScalesUp == demand = "overload" /\ count < MaxInstances /\ Rested

\* Mutants of IdleSeen: _idle_since is kept when there is load; it is set
\* whether or not it was set before.
IdleSeenOnce == IF demand = "idle" /\ idle = Unset THEN 0 ELSE idle
IdleSeenAgain == IF demand = "idle" THEN 0 ELSE Unset

\* The timer after an evaluation: started by the first that sees no load,
\* cleared by any that sees some.
IdleSeen ==
  IF demand # "idle" THEN Unset ELSE IF idle = Unset THEN 0 ELSE idle

\* Idle for long enough, an instance to spare, and no cooldown.
ScalesDown ==
  demand = "idle" /\ IdleSeen > IdleSeconds /\ count > MinInstances /\ Rested

Decision ==
  IF ScalesUp THEN "scale_up" ELSE IF ScalesDown THEN "scale_down" ELSE "none"

\* evaluate(): without instances it returns before it looks at anything.
Evaluate ==
  IF count = 0
  THEN UNCHANGED <<idle, calm>>
  ELSE /\ idle' = IdleSeen
       /\ calm' = IF demand = "idle" THEN calm ELSE 0

\* An executor asks, and keeps the decision to carry it out, instead of one it
\* may still have.
Decide(e) ==
  /\ Evaluate
  /\ pending' = [pending EXCEPT ![e] = IF count = 0 THEN "none" ELSE Decision]
  /\ moved' = moved \ {e}
  /\ UNCHANGED <<count, demand, since, rest>>

\* GET /admin/scaling/evaluate: nobody acts on the answer.
Look ==
  /\ Evaluate
  /\ UNCHANGED <<count, demand, since, pending, moved, rest>>

\* MaxCount is a bound of the model: a fleet of that size stays as it is.
Resized(decision) ==
  IF decision = "scale_up" THEN Capped(MaxCount, count)
  ELSE IF count > 0 THEN count - 1 ELSE 0

\* Mutant of CarryOut: record_scale_event is not called.
CarryOutUnrecorded(e) ==
  /\ pending[e] # "none"
  /\ count' = Resized(pending[e])
  /\ pending' = [pending EXCEPT ![e] = "none"]
  /\ moved' = Executors
  /\ rest' = [rest EXCEPT ![e] = 0]
  /\ UNCHANGED <<demand, since, idle, calm>>

\* The fleet is changed and record_scale_event() called.
CarryOut(e) ==
  /\ pending[e] # "none"
  /\ count' = Resized(pending[e])
  /\ pending' = [pending EXCEPT ![e] = "none"]
  /\ moved' = Executors
  /\ since' = 0
  /\ rest' = [rest EXCEPT ![e] = 0]
  /\ UNCHANGED <<demand, idle, calm>>

\* An instance is registered or deregistered by the admin API.
Manage ==
  /\ count' \in (0 .. MaxCount) \cap {count - 1, count + 1}
  /\ moved' = Executors
  /\ UNCHANGED <<demand, timers, pending, history>>

DemandChanges ==
  /\ demand' \in Demand \ {demand}
  /\ UNCHANGED <<count, timers, pending, moved, history>>

Tick ==
  /\ since' = Capped(CooldownSeconds, since)
  /\ idle' = Later(idle)
  /\ calm' = Capped(IdleSeconds + 1, calm)
  /\ rest' = [e \in Executors |-> Capped(CooldownSeconds, rest[e])]
  /\ UNCHANGED <<count, demand, pending, moved>>

Next ==
  \/ \E e \in Executors : Decide(e) \/ CarryOut(e)
  \/ Look \/ Manage \/ DemandChanges \/ Tick

Spec == Init /\ [][Next]_vars

\* Time passes, and the executors go on asking and carrying out.
FairSpec ==
  /\ Spec /\ WF_vars(Tick)
  /\ \A e \in Executors : WF_vars(Decide(e)) /\ WF_vars(CarryOut(e))

-----------------------------------------------------------------------------
(* Properties.                                                             *)

\* Every variable keeps its type.
TypeOK ==
  /\ count \in 0 .. MaxCount
  /\ demand \in Demand
  /\ since \in 0 .. CooldownSeconds
  /\ idle \in 0 .. Unset
  /\ pending \in [Executors -> {"none", "scale_up", "scale_down"}]
  /\ moved \subseteq Executors
  /\ calm \in 0 .. IdleSeconds + 1
  /\ rest \in [Executors -> 0 .. CooldownSeconds]

\* The idle timer never claims more than what the evaluations have seen: all
\* of them, for so long, found an idle fleet.  The cooldown timer never claims
\* more than the rest any executor has given the fleet, and one with a decision
\* to carry out has given it all of the cooldown.
TimersAreHonest ==
  /\ idle # Unset => idle <= calm
  /\ \A e \in Executors :
       /\ since <= rest[e]
       /\ pending[e] # "none" => rest[e] = CooldownSeconds

\* The decision fits the fleet it was made for.
DecisionFits ==
  \A e \in Executors \ moved :
    /\ pending[e] = "scale_up" => count < MaxInstances
    /\ pending[e] = "scale_down" => count > MinInstances

\* All of it together.
Inductive == TypeOK /\ TimersAreHonest /\ DecisionFits

\* A fleet is made smaller only after scale_down_idle_seconds in which no
\* evaluation saw load; so never that soon after a decision to enlarge it.
NoFlapping ==
  [][\A e \in Executors :
       Decide(e) /\ pending'[e] = "scale_down" => calm > IdleSeconds]_vars

\* Decisions of one executor are carried out at least cooldown_seconds apart,
\* whatever the others do and however long it takes: so in one cooldown the
\* fleet changes at most as often as there are executors.  Two of them may both
\* be told to change it before either has recorded that it did.
CooldownIsKept ==
  [][\A e \in Executors : CarryOut(e) => rest[e] >= CooldownSeconds]_vars

\* Carrying out a decision leaves the fleet between min_instances and
\* max_instances, unless somebody else has changed it since.
LimitsAreKept ==
  [][\A e \in Executors \ moved : CarryOut(e) =>
       /\ count' > count => count' <= MaxInstances
       /\ count' < count => count' >= MinInstances]_vars

\* From some time on nobody registers or deregisters an instance.
Unmanaged == <>[][~Manage]_vars

\* A lasting overload brings the fleet to max_instances, unless there is
\* nothing left to evaluate.
OverloadIsAnswered ==
  Unmanaged /\ <>[](demand = "overload" /\ count > 0) =>
    <>[](count >= MaxInstances)

\* A fleet that stays idle shrinks to min_instances.
IdleFleetShrinks ==
  Unmanaged /\ <>[](demand = "idle") => <>[](count <= MinInstances)
=============================================================================
