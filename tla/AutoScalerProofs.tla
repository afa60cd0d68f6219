-------------------------- MODULE AutoScalerProofs --------------------------
(***************************************************************************)
(* The timers of the AutoScaler are honest, and what follows from that for *)
(* its decisions, for any limits and times.                                *)
(***************************************************************************)
EXTENDS AutoScaler, TLAPS

\* What an evaluation leaves behind: the idle timer is set only where no load
\* was seen.
LEMMA EvaluateKeepsTimers ==
  ASSUME TypeOK, TimersAreHonest, Evaluate
  PROVE  /\ idle' \in 0 .. Unset /\ calm' \in 0 .. IdleSeconds + 1
         /\ idle' # Unset => idle' <= calm'
<1> USE ScalerAssumption
<1>1. CASE count = 0
  BY <1>1 DEF TypeOK, TimersAreHonest, Evaluate
<1>2. CASE count # 0 /\ demand = "idle"
  BY <1>2 DEF TypeOK, TimersAreHonest, Evaluate, IdleSeen, Unset
<1>3. CASE count # 0 /\ demand # "idle"
  BY <1>3 DEF TypeOK, TimersAreHonest, Evaluate, IdleSeen, Unset
<1> QED BY <1>1, <1>2, <1>3

\* What a decision says of the fleet it is made for.
LEMMA DecisionSays ==
  ASSUME TypeOK
  PROVE  /\ Decision \in {"none", "scale_up", "scale_down"}
         /\ Decision = "scale_up" => count < MaxInstances
         /\ Decision = "scale_down" =>
              demand = "idle" /\ IdleSeen > IdleSeconds /\ count > MinInstances
         /\ Decision # "none" => since = CooldownSeconds
BY ScalerAssumption DEF TypeOK, Decision, ScalesUp, ScalesDown, Rested

\* Init establishes the invariant: no timer has been started.
LEMMA InitInductive == Init => Inductive
<1> SUFFICES ASSUME Init PROVE Inductive
  OBVIOUS
<1>1. TypeOK
  <2>1. /\ count \in 0 .. MaxCount /\ since \in 0 .. CooldownSeconds
        /\ idle \in 0 .. Unset /\ calm \in 0 .. IdleSeconds + 1
        /\ rest \in [Executors -> 0 .. CooldownSeconds]
    BY ScalerAssumption DEF Init, Unset
  <2>2. /\ demand \in Demand /\ moved \subseteq Executors
        /\ pending \in [Executors -> {"none", "scale_up", "scale_down"}]
    BY DEF Init, Demand
  <2> QED BY <2>1, <2>2 DEF TypeOK
<1>2. TimersAreHonest
  BY ScalerAssumption DEF Init, TimersAreHonest
<1>3. DecisionFits
  BY DEF Init, DecisionFits
<1> QED BY <1>1, <1>2, <1>3 DEF Inductive

\* Every step keeps it.
LEMMA NextInductive == Inductive /\ [Next]_vars => Inductive'
<1> SUFFICES ASSUME Inductive, [Next]_vars PROVE Inductive'
  OBVIOUS
<1> USE ScalerAssumption
<1> USE DEF Inductive
<1>1. ASSUME NEW e \in Executors, Decide(e) PROVE Inductive'
  <2>1. idle' \in 0 .. Unset /\ calm' \in 0 .. IdleSeconds + 1
        /\ (idle' # Unset => idle' <= calm')
    BY <1>1, EvaluateKeepsTimers DEF Decide
  <2> DEFINE d == IF count = 0 THEN "none" ELSE Decision
  <2>2. /\ d \in {"none", "scale_up", "scale_down"}
        /\ d = "scale_up" => count < MaxInstances
        /\ d = "scale_down" => count > MinInstances
        /\ d # "none" => since = CooldownSeconds
    BY DecisionSays
  <2>3. /\ pending' = [pending EXCEPT ![e] = d] /\ moved' = moved \ {e}
        /\ UNCHANGED <<count, demand, since, rest>>
    BY <1>1 DEF Decide
  <2> HIDE DEF d
  <2>4. TypeOK'
    BY <2>1, <2>2, <2>3 DEF TypeOK
  <2>5. /\ pending'[e] = d
        /\ \A f \in Executors \ {e} : pending'[f] = pending[f]
    BY <2>3 DEF TypeOK
  <2>6. TimersAreHonest'
    <3>1. since <= rest[e] /\ rest[e] \in 0 .. CooldownSeconds
          /\ since \in 0 .. CooldownSeconds
      BY DEF TypeOK, TimersAreHonest
    <3>2. d # "none" => rest[e] = CooldownSeconds
      BY <2>2, <3>1
    <3>3. \A f \in Executors :
            since' <= rest'[f] /\ (pending'[f] # "none" => rest'[f] = CooldownSeconds)
      BY <2>3, <2>5, <3>2 DEF TimersAreHonest
    <3>4. Unset' = Unset
      BY DEF Unset
    <3> QED BY <2>1, <3>3, <3>4 DEF TimersAreHonest
  <2>7. DecisionFits'
    BY <2>2, <2>3, <2>5 DEF DecisionFits
  <2> QED BY <2>4, <2>6, <2>7
<1>2. CASE Look
  <2>1. idle' \in 0 .. Unset /\ calm' \in 0 .. IdleSeconds + 1
        /\ (idle' # Unset => idle' <= calm')
    BY <1>2, EvaluateKeepsTimers DEF Look
  <2> QED
    BY <1>2, <2>1 DEF Look, TypeOK, TimersAreHonest, DecisionFits, Unset
<1>3. ASSUME NEW e \in Executors, CarryOut(e) PROVE Inductive'
  <2>1. count' \in 0 .. MaxCount
    BY <1>3 DEF CarryOut, TypeOK, Resized, Capped
  <2>2. /\ since' = 0 /\ rest' = [rest EXCEPT ![e] = 0]
        /\ pending' = [pending EXCEPT ![e] = "none"] /\ moved' = Executors
        /\ UNCHANGED <<demand, idle, calm>>
    BY <1>3 DEF CarryOut
  <2>3. TypeOK'
    BY <2>1, <2>2 DEF TypeOK
  <2>4. \A f \in Executors :
          0 <= rest'[f] /\ (pending'[f] # "none" => rest'[f] = CooldownSeconds)
    BY <2>2 DEF TypeOK, TimersAreHonest
  <2>5. TimersAreHonest'
    BY <2>2, <2>4 DEF TimersAreHonest, Unset
  <2> QED
    BY <2>2, <2>3, <2>5 DEF DecisionFits
<1>4. CASE Manage
  BY <1>4
  DEF Manage, timers, history, TypeOK, TimersAreHonest, DecisionFits, Unset
<1>5. CASE DemandChanges
  BY <1>5
  DEF DemandChanges, timers, history, TypeOK, TimersAreHonest, DecisionFits,
      Demand, Unset
<1>6. CASE Tick
  <2>1. /\ since' \in 0 .. CooldownSeconds
        /\ rest' \in [Executors -> 0 .. CooldownSeconds]
        /\ \A e \in Executors :
             since' <= rest'[e] /\ (rest[e] = CooldownSeconds => rest'[e] = rest[e])
    BY <1>6 DEF Tick, TypeOK, TimersAreHonest, Capped
  <2>2. calm' \in 0 .. IdleSeconds + 1
    BY <1>6 DEF Tick, TypeOK, Capped
  <2>3. idle' \in 0 .. Unset /\ (idle' # Unset => idle' <= calm')
    <3>1. CASE idle = Unset
      BY <1>6, <3>1 DEF Tick, TypeOK, Later, Unset
    <3>2. CASE idle # Unset
      BY <1>6, <3>2 DEF Tick, TypeOK, TimersAreHonest, Later, Capped, Unset
    <3> QED BY <3>1, <3>2
  <2>4. UNCHANGED <<count, demand, pending, moved>>
    BY <1>6 DEF Tick
  <2>5. TypeOK'
    BY <2>1, <2>2, <2>3, <2>4 DEF TypeOK
  <2>6. TimersAreHonest'
    BY <2>1, <2>3, <2>4 DEF TimersAreHonest, Unset
  <2>7. DecisionFits'
    BY <2>4 DEF DecisionFits
  <2> QED BY <2>5, <2>6, <2>7
<1>7. CASE UNCHANGED vars
  BY <1>7 DEF vars, TypeOK, TimersAreHonest, DecisionFits, Unset
<1> QED
  BY <1>1, <1>2, <1>3, <1>4, <1>5, <1>6, <1>7 DEF Next

\* The timers are honest and decisions fit their fleet in every reachable
\* state, for any limits and times (scaler.py evaluate, record_scale_event).
THEOREM ScalerInductive == Spec => []Inductive
BY InitInductive, NextInductive, PTL DEF Spec

\* A decision to shrink the fleet follows scale_down_idle_seconds in which no
\* evaluation saw load.
THEOREM DownMeansIdle == Spec => NoFlapping
<1>1. Inductive /\ [Next]_vars =>
        [\A e \in Executors :
           Decide(e) /\ pending'[e] = "scale_down" => calm > IdleSeconds]_vars
  <2> SUFFICES ASSUME Inductive, NEW e \in Executors,
                      Decide(e), pending'[e] = "scale_down"
               PROVE  calm > IdleSeconds
    OBVIOUS
  <2> USE ScalerAssumption
  <2>1. pending'[e] = IF count = 0 THEN "none" ELSE Decision
    BY DEF Decide, Inductive, TypeOK
  <2>2. Decision = "scale_down"
    BY <2>1
  <2>3. demand = "idle" /\ IdleSeen > IdleSeconds
    BY <2>2, DecisionSays DEF Inductive
  <2>4. idle # Unset /\ idle > IdleSeconds
    BY <2>3 DEF IdleSeen
  <2> QED
    BY <2>4 DEF Inductive, TypeOK, TimersAreHonest, Unset
<1> QED
  BY <1>1, ScalerInductive, PTL DEF Spec, NoFlapping

\* Decisions of one executor are carried out at least cooldown_seconds apart,
\* although time passes, and others record theirs, between a decision and its
\* record.
THEOREM CooldownHolds == Spec => CooldownIsKept
<1>1. Inductive /\ [Next]_vars =>
        [\A e \in Executors : CarryOut(e) => rest[e] >= CooldownSeconds]_vars
  BY ScalerAssumption DEF Inductive, TypeOK, TimersAreHonest, CarryOut
<1> QED
  BY <1>1, ScalerInductive, PTL DEF Spec, CooldownIsKept

\* Carrying out a decision leaves the fleet within its limits, unless somebody
\* else has changed it since.
THEOREM LimitsHold == Spec => LimitsAreKept
<1> DEFINE Kept == \A e \in Executors \ moved : CarryOut(e) =>
                     /\ count' > count => count' <= MaxInstances
                     /\ count' < count => count' >= MinInstances
<1>1. Inductive /\ [Next]_vars => [Kept]_vars
  <2> SUFFICES ASSUME Inductive, NEW e \in Executors \ moved, CarryOut(e)
               PROVE  /\ count' > count => count' <= MaxInstances
                      /\ count' < count => count' >= MinInstances
    OBVIOUS
  <2>1. pending[e] \in {"scale_up", "scale_down"}
    BY DEF CarryOut, Inductive, TypeOK
  <2>2. CASE pending[e] = "scale_up"
    BY <2>2, ScalerAssumption
    DEF CarryOut, Resized, Capped, Inductive, TypeOK, DecisionFits
  <2>3. CASE pending[e] = "scale_down"
    BY <2>3, ScalerAssumption
    DEF CarryOut, Resized, Inductive, TypeOK, DecisionFits
  <2> QED
    BY <2>1, <2>2, <2>3
<1> QED
  BY <1>1, ScalerInductive, PTL DEF Spec, LimitsAreKept
=============================================================================
