------------------------ MODULE HealthCheckerProofs ------------------------
(***************************************************************************)
(* The health checker's counts and the registry's status agree, for any    *)
(* instances, thresholds and interval of deep checks, as long as the       *)
(* instance is not deregistered in between.                                *)
(***************************************************************************)
EXTENDS HealthChecker, TLAPS

\* A count never passes its threshold.
LEMMA UpToStays ==
  ASSUME NEW limit \in Nat \ {0}, NEW n \in 0 .. limit
  PROVE  UpTo(limit, n) \in 1 .. limit /\ (n < limit => UpTo(limit, n) = n + 1)
BY DEF UpTo

\* Everybody starts in service with nothing counted.
LEMMA InductiveInit == Init => Inductive
<1>1. UnhealthyThreshold \in Nat \ {0} /\ HealthyThreshold \in Nat \ {0}
  BY HealthAssumption
<1>2. SUFFICES ASSUME Init PROVE Inductive
  OBVIOUS
<1>3. TypeOK
  <2>1. 0 \in 0 .. UnhealthyThreshold /\ 0 \in 0 .. HealthyThreshold
    BY <1>1
  <2>2. QED
    BY <1>2, <2>1 DEF Init, TypeOK, Status
<1>4. ChecksBelongToARound /\ OneRunAtATime /\ StatusMatchesCounts
  BY <1>1, <1>2
     DEF Init, ChecksBelongToARound, OneRunAtATime, StatusMatchesCounts
<1>5. QED
  BY <1>3, <1>4 DEF Inductive

\* What a step of the loop, which writes no status and no count, has to show.
LEMMA LoopStepKeeps ==
  ASSUME Inductive, UNCHANGED <<status, counts, history>>,
         check' \in [Ids -> {"none", "running", "stale"}],
         \A i \in Ids : check'[i] = "stale" => check[i] = "stale",
         ChecksBelongToARound',
         round' \in {"resting", "checking", "deep", "stopped"},
         cycle' \in Nat, stopping' \in BOOLEAN
  PROVE  Inductive'
<1>1. TypeOK'
  BY DEF Inductive, TypeOK, counts, history
<1>2. OneRunAtATime'
  BY DEF Inductive, OneRunAtATime, counts
<1>3. StatusMatchesCounts'
  BY DEF Inductive, StatusMatchesCounts, counts, history
<1>4. QED
  BY <1>1, <1>2, <1>3 DEF Inductive

\* What the end of a check does besides counting and marking.
LEMMA CheckEndsKeeps ==
  ASSUME Inductive, NEW i \in Ids, CheckEnds(i)
  PROVE  /\ check' \in [Ids -> {"none", "running", "stale"}]
         /\ check'[i] = "none"
         /\ \A j \in Ids \ {i} : check'[j] = check[j]
         /\ ChecksBelongToARound'
         /\ round' \in {"resting", "checking", "deep", "stopped"}
         /\ cycle' \in Nat /\ stopping' \in BOOLEAN
<1>1. /\ check \in [Ids -> {"none", "running", "stale"}]
      /\ check' = [check EXCEPT ![i] = "none"]
      /\ UNCHANGED <<round, cycle, stopping>>
  BY DEF CheckEnds, loop, Inductive, TypeOK
<1>2. /\ check'[i] = "none"
      /\ \A j \in Ids \ {i} : check'[j] = check[j]
  BY <1>1
<1>3. ChecksBelongToARound'
  BY <1>1, <1>2 DEF Inductive, ChecksBelongToARound
<1>4. QED
  BY <1>1, <1>2, <1>3 DEF Inductive, TypeOK

\* A check that succeeds.
LEMMA SuccessKeeps ==
  ASSUME Inductive, NEW i \in Ids, CheckSucceeds(i)
  PROVE  Inductive'
<1> DEFINE n == UpTo(HealthyThreshold, successes[i])
           s == IF n >= HealthyThreshold
                THEN MarkedHealthy(status[i]) ELSE status[i]
<1>1. UnhealthyThreshold \in Nat \ {0} /\ HealthyThreshold \in Nat \ {0}
  BY HealthAssumption
<1>2. TypeOK /\ OneRunAtATime /\ StatusMatchesCounts
  BY DEF Inductive
<1>3. /\ check[i] # "none"
      /\ failures' = [failures EXCEPT ![i] = 0]
      /\ successes' = [successes EXCEPT ![i] = n]
      /\ streak' = IF check[i] = "running" THEN [streak EXCEPT ![i] = 0]
                   ELSE streak
  BY DEF CheckSucceeds, CheckEnds
<1>4. n \in 1 .. HealthyThreshold
  BY <1>1, <1>2, UpToStays DEF TypeOK
<1>5. successes'[i] = n
  BY <1>2, <1>3 DEF TypeOK
<1>6. status' = [status EXCEPT ![i] = s]
  BY <1>5 DEF CheckSucceeds
<1>7. s \in Status \cup {"absent"}
  BY <1>2 DEF TypeOK, MarkedHealthy, Status
<1>8. /\ status'[i] = s /\ failures'[i] = 0
      /\ \A j \in Ids \ {i} : /\ status'[j] = status[j]
                              /\ failures'[j] = failures[j]
                              /\ successes'[j] = successes[j]
                              /\ streak'[j] = streak[j]
  BY <1>2, <1>3, <1>6 DEF TypeOK
<1>9. TypeOK'
  <2>1. /\ check' \in [Ids -> {"none", "running", "stale"}]
        /\ round' \in {"resting", "checking", "deep", "stopped"}
        /\ cycle' \in Nat /\ stopping' \in BOOLEAN
    BY CheckEndsKeeps DEF CheckSucceeds
  <2>2. /\ failures' \in [Ids -> 0 .. UnhealthyThreshold]
        /\ successes' \in [Ids -> 0 .. HealthyThreshold]
        /\ status' \in [Ids -> Status \cup {"absent"}]
    BY <1>1, <1>2, <1>3, <1>4, <1>6, <1>7 DEF TypeOK
  <2>3. streak' \in [Ids -> 0 .. UnhealthyThreshold]
    BY <1>1, <1>2, <1>3 DEF TypeOK
  <2>4. QED
    BY <2>1, <2>2, <2>3 DEF TypeOK
<1>10. OneRunAtATime'
  BY <1>2, <1>8 DEF OneRunAtATime
<1>11. StatusMatchesCounts'
  <2>1. ASSUME NEW j \in Ids \ Managed
        PROVE  /\ status'[j] # "absent" /\ check'[j] # "stale"
               /\ status'[j] = "healthy" => failures'[j] < UnhealthyThreshold
               /\ status'[j] = "unhealthy" => successes'[j] < HealthyThreshold
               /\ streak'[j] = failures'[j]
    <3>1. /\ check'[i] = "none"
          /\ \A k \in Ids \ {i} : check'[k] = check[k]
      BY CheckEndsKeeps DEF CheckSucceeds
    <3>2. /\ status[j] # "absent" /\ check[j] # "stale"
          /\ status[j] = "healthy" => failures[j] < UnhealthyThreshold
          /\ status[j] = "unhealthy" => successes[j] < HealthyThreshold
          /\ streak[j] = failures[j]
      BY <1>2 DEF StatusMatchesCounts
    <3>3. CASE j # i
      BY <1>8, <3>1, <3>2, <3>3
    <3>4. CASE j = i
      <4>1. check[i] = "running"
        BY <1>2, <1>3, <3>2, <3>4 DEF TypeOK
      <4>2. streak'[i] = 0
        BY <1>2, <1>3, <4>1 DEF TypeOK
      <4>3. s # "absent" /\ (s = "unhealthy" => n < HealthyThreshold)
        BY <1>1, <1>4, <3>2, <3>4 DEF MarkedHealthy
      <4>4. QED
        BY <1>1, <1>5, <1>8, <3>1, <3>4, <4>2, <4>3
    <3>5. QED
      BY <3>3, <3>4
  <2>2. QED
    BY <2>1 DEF StatusMatchesCounts
<1>12. QED
  BY <1>9, <1>10, <1>11, CheckEndsKeeps DEF Inductive, CheckSucceeds

\* A check that fails.
LEMMA FailureKeeps ==
  ASSUME Inductive, NEW i \in Ids, CheckFails(i)
  PROVE  Inductive'
<1> DEFINE n == UpTo(UnhealthyThreshold, failures[i])
           s == IF n >= UnhealthyThreshold
                THEN MarkedUnhealthy(status[i]) ELSE status[i]
<1>1. UnhealthyThreshold \in Nat \ {0} /\ HealthyThreshold \in Nat \ {0}
  BY HealthAssumption
<1>2. TypeOK /\ OneRunAtATime /\ StatusMatchesCounts
  BY DEF Inductive
<1>3. /\ check[i] # "none"
      /\ successes' = [successes EXCEPT ![i] = 0]
      /\ failures' = [failures EXCEPT ![i] = n]
      /\ streak' = IF check[i] = "running"
                   THEN [streak EXCEPT ![i] = UpTo(UnhealthyThreshold, @)]
                   ELSE streak
  BY DEF CheckFails, CheckEnds
<1>4. /\ n \in 1 .. UnhealthyThreshold
      /\ UpTo(UnhealthyThreshold, streak[i]) \in 1 .. UnhealthyThreshold
  BY <1>1, <1>2, UpToStays DEF TypeOK
<1>5. failures'[i] = n
  BY <1>2, <1>3 DEF TypeOK
<1>6. status' = [status EXCEPT ![i] = s]
  BY <1>5 DEF CheckFails
<1>7. s \in Status \cup {"absent"}
  BY <1>2 DEF TypeOK, MarkedUnhealthy, Status
<1>8. /\ status'[i] = s /\ successes'[i] = 0
      /\ \A j \in Ids \ {i} : /\ status'[j] = status[j]
                              /\ failures'[j] = failures[j]
                              /\ successes'[j] = successes[j]
                              /\ streak'[j] = streak[j]
  BY <1>2, <1>3, <1>6 DEF TypeOK
<1>9. TypeOK'
  <2>1. /\ check' \in [Ids -> {"none", "running", "stale"}]
        /\ round' \in {"resting", "checking", "deep", "stopped"}
        /\ cycle' \in Nat /\ stopping' \in BOOLEAN
    BY CheckEndsKeeps DEF CheckFails
  <2>2. /\ failures' \in [Ids -> 0 .. UnhealthyThreshold]
        /\ successes' \in [Ids -> 0 .. HealthyThreshold]
        /\ status' \in [Ids -> Status \cup {"absent"}]
    BY <1>1, <1>2, <1>3, <1>4, <1>6, <1>7 DEF TypeOK
  <2>3. streak' \in [Ids -> 0 .. UnhealthyThreshold]
    BY <1>1, <1>2, <1>3, <1>4 DEF TypeOK
  <2>4. QED
    BY <2>1, <2>2, <2>3 DEF TypeOK
<1>10. OneRunAtATime'
  BY <1>2, <1>8 DEF OneRunAtATime
<1>11. StatusMatchesCounts'
  <2>1. ASSUME NEW j \in Ids \ Managed
        PROVE  /\ status'[j] # "absent" /\ check'[j] # "stale"
               /\ status'[j] = "healthy" => failures'[j] < UnhealthyThreshold
               /\ status'[j] = "unhealthy" => successes'[j] < HealthyThreshold
               /\ streak'[j] = failures'[j]
    <3>1. /\ check'[i] = "none"
          /\ \A k \in Ids \ {i} : check'[k] = check[k]
      BY CheckEndsKeeps DEF CheckFails
    <3>2. /\ status[j] # "absent" /\ check[j] # "stale"
          /\ status[j] = "healthy" => failures[j] < UnhealthyThreshold
          /\ status[j] = "unhealthy" => successes[j] < HealthyThreshold
          /\ streak[j] = failures[j]
      BY <1>2 DEF StatusMatchesCounts
    <3>3. CASE j # i
      BY <1>8, <3>1, <3>2, <3>3
    <3>4. CASE j = i
      <4>1. check[i] = "running"
        BY <1>2, <1>3, <3>2, <3>4 DEF TypeOK
      <4>2. streak'[i] = n
        BY <1>2, <1>3, <3>2, <3>4, <4>1 DEF TypeOK
      <4>3. s # "absent" /\ (s = "healthy" => n < UnhealthyThreshold)
        BY <1>1, <1>4, <3>2, <3>4 DEF MarkedUnhealthy
      <4>4. QED
        BY <1>1, <1>5, <1>8, <3>1, <3>4, <4>2, <4>3
    <3>5. QED
      BY <3>3, <3>4
  <2>2. QED
    BY <2>1 DEF StatusMatchesCounts
<1>12. QED
  BY <1>9, <1>10, <1>11, CheckEndsKeeps DEF Inductive, CheckFails

\* Registration and deregistration of an instance that may come and go.
LEMMA ManageKeeps ==
  ASSUME Inductive, NEW i \in Managed, Manage(i)
  PROVE  Inductive'
<1>1. i \in Ids
  BY HealthAssumption
<1>2. TypeOK /\ ChecksBelongToARound /\ OneRunAtATime /\ StatusMatchesCounts
  BY DEF Inductive
<1>3. ASSUME NEW s \in Status, Register(i, s) PROVE Inductive'
  <2>1. /\ status' = [status EXCEPT ![i] = s]
        /\ UNCHANGED <<failures, successes, check, round, cycle, stopping,
                       streak>>
    BY <1>3 DEF Register, counts, loop
  <2>2. TypeOK'
    BY <1>2, <2>1 DEF TypeOK
  <2>3. StatusMatchesCounts'
    BY <1>1, <1>2, <2>1 DEF StatusMatchesCounts, TypeOK
  <2>4. QED
    BY <1>2, <2>1, <2>2, <2>3
       DEF Inductive, ChecksBelongToARound, OneRunAtATime
<1>4. ASSUME Deregister(i) PROVE Inductive'
  <2>1. /\ status' = [status EXCEPT ![i] = "absent"]
        /\ check' = [check EXCEPT ![i] = IF @ = "none" THEN "none" ELSE "stale"]
        /\ streak' = [streak EXCEPT ![i] = 0]
        /\ UNCHANGED <<failures, successes, round, cycle, stopping>>
    BY <1>4 DEF Deregister, counts, loop
  <2>2. TypeOK'
    <3>1. 0 \in 0 .. UnhealthyThreshold
      BY HealthAssumption
    <3>2. QED
      BY <1>2, <2>1, <3>1 DEF TypeOK
  <2>3. ChecksBelongToARound'
    BY <1>1, <1>2, <2>1 DEF ChecksBelongToARound, TypeOK
  <2>4. StatusMatchesCounts'
    BY <1>1, <1>2, <2>1 DEF StatusMatchesCounts, TypeOK
  <2>5. QED
    BY <1>2, <2>1, <2>2, <2>3, <2>4 DEF Inductive, OneRunAtATime
<1>5. QED
  BY <1>3, <1>4 DEF Manage

\* Every action keeps the invariant.
LEMMA InductiveNext == Inductive /\ [Next]_vars => Inductive'
<1>1. SUFFICES ASSUME Inductive, [Next]_vars PROVE Inductive'
  OBVIOUS
<1>2. TypeOK /\ ChecksBelongToARound /\ OneRunAtATime /\ StatusMatchesCounts
  BY <1>1 DEF Inductive
<1>3. ASSUME RoundStarts PROVE Inductive'
  <2>1. ChecksBelongToARound'
    BY <1>2, <1>3 DEF RoundStarts, ChecksBelongToARound
  <2>2. QED
    BY <1>1, <1>2, <1>3, <2>1, LoopStepKeeps DEF RoundStarts, TypeOK
<1>4. ASSUME RoundEnds PROVE Inductive'
  <2>1. cycle' \in Nat
    BY <1>2, <1>4, HealthAssumption DEF RoundEnds, TypeOK
  <2>2. /\ round' \in {"resting", "checking", "deep", "stopped"}
        /\ ChecksBelongToARound'
    BY <1>2, <1>4 DEF RoundEnds, Rest, ChecksBelongToARound
  <2>3. QED
    BY <1>1, <1>2, <1>4, <2>1, <2>2, LoopStepKeeps DEF RoundEnds, TypeOK
<1>5. ASSUME DeepEnds PROVE Inductive'
  <2>1. /\ round' \in {"resting", "checking", "deep", "stopped"}
        /\ ChecksBelongToARound'
    BY <1>2, <1>5 DEF DeepEnds, Rest, ChecksBelongToARound
  <2>2. QED
    BY <1>1, <1>2, <1>5, <2>1, LoopStepKeeps DEF DeepEnds, TypeOK
<1>6. ASSUME NEW i \in Ids, CheckReturns(i) PROVE Inductive'
  BY <1>1, <1>6, SuccessKeeps, FailureKeeps DEF CheckReturns
<1>7. ASSUME NEW i \in Managed, Manage(i) PROVE Inductive'
  BY <1>1, <1>7, ManageKeeps
<1>8. ASSUME NEW i \in Drainable, StartDraining(i) PROVE Inductive'
  <2>1. /\ i \in Ids
        /\ status' = [status EXCEPT ![i] = "draining"]
        /\ UNCHANGED <<failures, successes, check, round, cycle, stopping,
                       streak>>
    BY <1>8, HealthAssumption DEF StartDraining, counts, loop
  <2>2. TypeOK'
    BY <1>2, <2>1 DEF TypeOK, Status
  <2>3. StatusMatchesCounts'
    BY <1>2, <2>1 DEF StatusMatchesCounts, TypeOK
  <2>4. QED
    BY <1>2, <2>1, <2>2, <2>3
       DEF Inductive, ChecksBelongToARound, OneRunAtATime
<1>9. ASSUME Stop PROVE Inductive'
  <2>1. /\ round' \in {"resting", "checking", "deep", "stopped"}
        /\ stopping' \in BOOLEAN
        /\ ChecksBelongToARound'
    BY <1>2, <1>9 DEF Stop, TypeOK, ChecksBelongToARound
  <2>2. QED
    BY <1>1, <1>2, <1>9, <2>1, LoopStepKeeps DEF Stop, TypeOK
<1>10. ASSUME Shutdown PROVE Inductive'
  <2>1. ChecksBelongToARound'
    BY <1>10 DEF Shutdown, ChecksBelongToARound
  <2>2. QED
    BY <1>1, <1>2, <1>10, <2>1, LoopStepKeeps DEF Shutdown, TypeOK
<1>11. CASE UNCHANGED vars
  BY <1>2, <1>11 DEF vars, Inductive, TypeOK, ChecksBelongToARound,
     OneRunAtATime, StatusMatchesCounts
<1>12. QED
  BY <1>1, <1>3, <1>4, <1>5, <1>6, <1>7, <1>8, <1>9, <1>10, <1>11 DEF Next

\* The inductive invariant, for any fleet, thresholds and deep interval.
THEOREM HealthInductive == Spec => []Inductive
<1>1. QED
  BY InductiveInit, InductiveNext, PTL DEF Spec

\* An instance registered all along is in service exactly as its counts say.
THEOREM StatusFollowsCounts == Spec => []StatusMatchesCounts
<1>1. Inductive => StatusMatchesCounts
  BY DEF Inductive
<1>2. QED
  BY HealthInductive, <1>1, PTL

\* A check is under way only while the round that started it is, so a loop
\* that has stopped leaves none behind.
THEOREM ChecksEndWithTheirRound == Spec => []ChecksBelongToARound
<1>1. Inductive => ChecksBelongToARound
  BY DEF Inductive
<1>2. QED
  BY HealthInductive, <1>1, PTL

\* Nobody turns DRAINING into HEALTHY in one step, and once no check of a
\* draining instance is under way its status ends with its registration only.
THEOREM DrainingStays == Spec => DrainingHolds
<1> DEFINE Stays == \A i \in Ids : status[i] = "draining" =>
             /\ status'[i] # "healthy"
             /\ check[i] = "none" =>
                  status'[i] \in {"draining", "absent"} /\ check'[i] = "none"
<1>1. ASSUME Inductive, Next PROVE Stays
  <2>1. SUFFICES ASSUME NEW j \in Ids, status[j] = "draining"
        PROVE  /\ status'[j] # "healthy"
               /\ check[j] = "none" =>
                    status'[j] \in {"draining", "absent"} /\ check'[j] = "none"
    OBVIOUS
  <2> DEFINE Goal == /\ status'[j] # "healthy"
                     /\ check[j] = "none" =>
                          /\ status'[j] \in {"draining", "absent"}
                          /\ check'[j] = "none"
  <2>2. /\ status \in [Ids -> Status \cup {"absent"}]
        /\ check \in [Ids -> {"none", "running", "stale"}]
    BY <1>1 DEF Inductive, TypeOK
  <2>3. ASSUME NEW i \in Ids, CheckSucceeds(i) PROVE Goal
    BY <2>1, <2>2, <2>3 DEF CheckSucceeds, CheckEnds, MarkedHealthy
  <2>4. ASSUME NEW i \in Ids, CheckFails(i) PROVE Goal
    BY <2>1, <2>2, <2>4 DEF CheckFails, CheckEnds, MarkedUnhealthy
  <2>5. ASSUME NEW i \in Managed, Manage(i) PROVE Goal
    <3>1. i \in Ids
      BY HealthAssumption
    <3>2. QED
      BY <2>1, <2>2, <2>5, <3>1 DEF Manage, Register, Deregister
  <2>6. ASSUME NEW i \in Drainable, StartDraining(i) PROVE Goal
    <3>1. i \in Ids
      BY HealthAssumption
    <3>2. QED
      BY <2>1, <2>2, <2>6, <3>1 DEF StartDraining
  <2>7. ASSUME RoundStarts PROVE Goal
    BY <2>1, <2>2, <2>7 DEF RoundStarts
  <2>8. ASSUME RoundEnds \/ DeepEnds \/ Stop \/ Shutdown PROVE Goal
    BY <2>1, <2>2, <2>8 DEF RoundEnds, DeepEnds, Stop, Shutdown
  <2>9. QED
    BY <1>1, <2>3, <2>4, <2>5, <2>6, <2>7, <2>8 DEF Next, CheckReturns
<1>2. ASSUME Inductive, [Next]_vars PROVE [Stays]_vars
  BY <1>1, <1>2
<1>3. QED
  BY HealthInductive, <1>2, PTL DEF Spec, DrainingHolds
=============================================================================
