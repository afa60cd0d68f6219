----------------------- MODULE BreakerProtocolProofs -----------------------
(***************************************************************************)
(* half_open_max_calls bounds the probes, and no slot is lost, for any     *)
(* number of callers, any thresholds and any order of outcomes.            *)
(***************************************************************************)
EXTENDS BreakerProtocol, FiniteSetTheorems, TLAPS

-----------------------------------------------------------------------------
(* The breaker.                                                            *)

\* Each method of InstanceCircuitBreaker leaves its fields within their
\* ranges: no counter passes its limit, in any order of calls.
LEMMA BreakerClosure ==
  ASSUME NEW b \in Breaker
  PROVE  /\ Closed \in Breaker /\ Asked(b) \in Breaker
         /\ Succeeded(b) \in Breaker /\ Failed(b) \in Breaker
         /\ Ripen(b) \in Breaker
<1> USE BreakerAssumption DEF Breaker
<1>1. Closed \in Breaker
  BY DEF Closed
<1>2. Ripen(b) \in Breaker
  BY DEF Ripen
<1>3. Succeeded(b) \in Breaker
  BY <1>1 DEF Succeeded
<1>4. Asked(b) \in Breaker
  BY DEF Asked, Ripe
<1>5. Failed(b) \in Breaker
  BY DEF Failed, Opened
<1> HIDE DEF Breaker
<1>6. QED
  BY <1>1, <1>2, <1>3, <1>4, <1>5

\* A new breaker, and one that was reset, is within its ranges.
LEMMA ClosedIsBreaker == Closed \in Breaker
  BY BreakerAssumption DEF Closed, Breaker

-----------------------------------------------------------------------------
(* The protocol.                                                           *)

\* The callers that hold something are finitely many.
LEMMA CallersAreFinite ==
  ASSUME NEW S, S \subseteq Callers
  PROVE  IsFiniteSet(S) /\ Cardinality(S) \in Nat
BY FS_Subset, FS_CardinalityType, CallersAssumption

\* Nobody has asked yet.
LEMMA InductiveInit == Init => Inductive
<1>1. SUFFICES ASSUME Init PROVE Inductive
  OBVIOUS
<1>2. TypeOK
  BY <1>1, ClosedIsBreaker DEF Init, TypeOK
<1>3. breaker.state = "closed" /\ Probes = {}
  BY <1>1 DEF Init, Closed, Probes
<1>4. QED
  BY <1>2, <1>3 DEF Inductive, SlotsAreAccounted

\* One caller is allowed: a slot is taken exactly when it becomes a probe.
LEMMA AskKeeps ==
  ASSUME Inductive, NEW c \in Callers, Ask(c)
  PROVE  Inductive'
<1>1. /\ breaker \in Breaker /\ breaker' = Asked(breaker)
      /\ breaker' \in Breaker
      /\ grant \in [Callers -> {"none", "call", "probe"}]
      /\ grant[c] = "none"
  BY BreakerClosure DEF Inductive, TypeOK, Ask
<1>2. /\ breaker.state \in {"closed", "open", "half_open"}
      /\ breaker.probes \in Nat /\ breaker.successes \in Nat
      /\ breaker'.successes \in Nat
  BY <1>1, BreakerAssumption DEF Breaker
<1>3. TypeOK'
  BY <1>1 DEF TypeOK, Ask
<1>4. c \notin Probes /\ Probes \subseteq Callers
  BY <1>1 DEF Probes
<1>5. IsFiniteSet(Probes) /\ Cardinality(Probes) \in Nat
  BY <1>4, CallersAreFinite
<1>6. CASE breaker'.state # "half_open"
  <2>1. ~Ripe(breaker) /\ breaker.state # "half_open"
    BY <1>1, <1>6 DEF Asked, Ask, Allows
  <2>2. Probes = {}
    BY <2>1 DEF Inductive, SlotsAreAccounted
  <2>3. grant' = [grant EXCEPT ![c] = "call"]
    BY <1>6 DEF Ask
  <2>4. Probes' = {}
    BY <1>1, <2>2, <2>3 DEF Probes
  <2>5. QED
    BY <1>3, <1>6, <2>4 DEF Inductive, SlotsAreAccounted
<1>7. CASE breaker'.state = "half_open"
  <2>1. grant' = [grant EXCEPT ![c] = "probe"]
    BY <1>7 DEF Ask
  <2>2. Probes' = Probes \cup {c}
    BY <1>1, <2>1 DEF Probes
  <2>3. Cardinality(Probes') = Cardinality(Probes) + 1
    BY <1>4, <1>5, <2>2, FS_AddElement
  <2>4. CASE Ripe(breaker)
    <3>1. breaker'.probes = 1
      <4>1. Asked(breaker) =
              [state |-> "half_open", failures |-> breaker.failures,
               successes |-> 0, probes |-> 1, recovery |-> "pending"]
        BY <2>4 DEF Asked, Ripe
      <4>2. QED
        BY <1>1, <4>1
    <3>2. Probes = {} /\ Cardinality({}) = 0
      BY <2>4, FS_EmptySet DEF Inductive, SlotsAreAccounted, Ripe
    <3>3. /\ Cardinality(Probes') <= breaker'.probes
          /\ breaker'.probes <= Cardinality(Probes') + breaker'.successes
      BY <1>2, <2>3, <3>1, <3>2
    <3>4. QED
      BY <1>3, <1>7, <3>3 DEF Inductive, SlotsAreAccounted
  <2>5. CASE ~Ripe(breaker)
    <3>1. breaker.state = "half_open" /\ breaker.probes < HalfOpenMaxCalls
      BY <1>1, <1>2, <1>7, <2>5 DEF Asked, Ask, Allows
    <3>2. breaker' = [breaker EXCEPT !.probes = @ + 1]
      BY <1>1, <2>5, <3>1 DEF Asked
    <3>3. /\ breaker'.probes = breaker.probes + 1
          /\ breaker'.successes = breaker.successes
      BY <1>1, <3>2 DEF Breaker
    <3>4. /\ Cardinality(Probes) <= breaker.probes
          /\ breaker.probes <= Cardinality(Probes) + breaker.successes
      BY <3>1 DEF Inductive, SlotsAreAccounted
    <3>5. /\ Cardinality(Probes') <= breaker'.probes
          /\ breaker'.probes <= Cardinality(Probes') + breaker'.successes
      BY <1>2, <1>5, <2>3, <3>3, <3>4
    <3>6. QED
      BY <1>3, <1>7, <3>5 DEF Inductive, SlotsAreAccounted
  <2>6. QED
    BY <2>4, <2>5
<1>8. QED
  BY <1>6, <1>7

\* When the breaker is not half-open, nobody is seen as a probe.
LEMMA NoProbesElsewhere ==
  ASSUME NEW g \in [Callers -> {"none", "call", "probe"}],
         NEW s, s # "half_open", grant' = SeenFrom(s, g)
  PROVE  Probes' = {} /\ grant' \in [Callers -> {"none", "call", "probe"}]
BY DEF SeenFrom, Probes

\* One outcome is reported.  Where the breaker stays half-open it was a
\* success, and it makes up for the probe that is out no longer.
LEMMA ReportKeeps ==
  ASSUME Inductive, NEW c \in Callers, Report(c)
  PROVE  Inductive'
<1> DEFINE g == [grant EXCEPT ![c] = "none"]
<1>1. /\ breaker \in Breaker
      /\ breaker' \in {Succeeded(breaker), Failed(breaker)}
      /\ breaker' \in Breaker
      /\ grant \in [Callers -> {"none", "call", "probe"}]
      /\ grant' = SeenFrom(breaker'.state, g)
  BY BreakerClosure DEF Inductive, TypeOK, Report
<1>2. g \in [Callers -> {"none", "call", "probe"}]
  BY <1>1
<1>3. CASE breaker'.state # "half_open"
  <2>1. Probes' = {} /\ grant' \in [Callers -> {"none", "call", "probe"}]
    BY <1>1, <1>2, <1>3, NoProbesElsewhere
  <2>2. QED
    BY <1>1, <1>3, <2>1 DEF Inductive, TypeOK, SlotsAreAccounted
<1>4. CASE breaker'.state = "half_open"
  <2>1. breaker.state \in {"closed", "open", "half_open"}
    BY <1>1 DEF Breaker
  <2>2. Failed(breaker).state # "half_open"
    <3>1. CASE breaker.state = "closed"
      BY <1>1, <3>1 DEF Failed, Opened, Breaker
    <3>2. CASE breaker.state = "half_open"
      BY <3>2 DEF Failed, Opened
    <3>3. CASE breaker.state = "open"
      BY <3>3 DEF Failed
    <3>4. QED
      BY <2>1, <3>1, <3>2, <3>3
  <2>3. breaker' = Succeeded(breaker)
    BY <1>1, <1>4, <2>2
  <2>4. breaker.state = "half_open"
    <3>1. CASE breaker.state = "closed"
      BY <1>1, <1>4, <2>3, <3>1 DEF Succeeded, Breaker
    <3>2. CASE breaker.state = "open"
      BY <1>4, <2>3, <3>2 DEF Succeeded
    <3>3. QED
      BY <2>1, <3>1, <3>2
  <2>5. ~(breaker.successes + 1 >= HalfOpenMaxCalls)
    BY <1>4, <2>3, <2>4 DEF Succeeded, Closed
  <2>6. breaker' = [breaker EXCEPT !.successes = @ + 1]
    BY <2>3, <2>4, <2>5 DEF Succeeded
  <2>7. /\ breaker'.successes = breaker.successes + 1
        /\ breaker'.probes = breaker.probes
        /\ breaker.probes \in Nat /\ breaker.successes \in Nat
    BY <1>1, <2>6, BreakerAssumption DEF Breaker
  <2>8. grant' = g
    BY <1>1, <1>2, <1>4 DEF SeenFrom
  <2>9. Probes' = Probes \ {c}
    BY <1>1, <2>8 DEF Probes
  <2>10. IsFiniteSet(Probes) /\ Cardinality(Probes) \in Nat
    BY CallersAreFinite DEF Probes
  <2>11. Cardinality(Probes') =
           IF c \in Probes THEN Cardinality(Probes) - 1 ELSE Cardinality(Probes)
    BY <2>9, <2>10, FS_RemoveElement
  <2>12. /\ Cardinality(Probes) <= breaker.probes
         /\ breaker.probes <= Cardinality(Probes) + breaker.successes
    BY <2>4 DEF Inductive, SlotsAreAccounted
  <2>13. /\ Cardinality(Probes') <= breaker'.probes
         /\ breaker'.probes <= Cardinality(Probes') + breaker'.successes
    BY <2>7, <2>10, <2>11, <2>12
  <2>14. QED
    BY <1>1, <1>2, <1>4, <2>8, <2>13 DEF Inductive, TypeOK, SlotsAreAccounted
<1>5. QED
  BY <1>3, <1>4

\* Every action keeps the invariant.
LEMMA InductiveNext == Inductive /\ [Next]_vars => Inductive'
<1>1. SUFFICES ASSUME Inductive, [Next]_vars PROVE Inductive'
  OBVIOUS
<1>2. /\ breaker \in Breaker
      /\ grant \in [Callers -> {"none", "call", "probe"}]
  BY <1>1 DEF Inductive, TypeOK
<1>3. ASSUME NEW c \in Callers, Ask(c) PROVE Inductive'
  BY <1>1, <1>3, AskKeeps
<1>4. ASSUME NEW c \in Callers, Report(c) PROVE Inductive'
  BY <1>1, <1>4, ReportKeeps
<1>5. ASSUME Reset PROVE Inductive'
  <2>1. breaker' = Closed /\ breaker'.state = "closed" /\ breaker' \in Breaker
    BY <1>5, ClosedIsBreaker DEF Reset, Closed
  <2>2. Probes' = {} /\ grant' \in [Callers -> {"none", "call", "probe"}]
    BY <1>2, <1>5, NoProbesElsewhere DEF Reset
  <2>3. QED
    BY <2>1, <2>2 DEF Inductive, TypeOK, SlotsAreAccounted
<1>6. ASSUME RecoveryElapses PROVE Inductive'
  <2>1. breaker' \in Breaker
    BY <1>2, <1>6, BreakerClosure DEF RecoveryElapses
  <2>2. breaker'.state = "open" /\ breaker.state = "open" /\ grant' = grant
    BY <1>2, <1>6 DEF RecoveryElapses, Ripen, Breaker
  <2>3. QED
    BY <1>1, <2>1, <2>2 DEF Inductive, TypeOK, SlotsAreAccounted, Probes
<1>7. CASE UNCHANGED vars
  BY <1>1, <1>7 DEF vars, Inductive, TypeOK, SlotsAreAccounted, Probes
<1>8. QED
  BY <1>1, <1>3, <1>4, <1>5, <1>6, <1>7 DEF Next

\* Slots and probes agree in every reachable state.
THEOREM SlotsInductive == Spec => []Inductive
<1>1. QED
  BY InductiveInit, InductiveNext, PTL DEF Spec

\* At most half_open_max_calls probes are out in one half-open episode.
THEOREM ProbesStayBounded == Spec => []ProbesAreBounded
<1>1. ASSUME Inductive PROVE ProbesAreBounded
  <2>1. /\ breaker.state \in {"closed", "open", "half_open"}
        /\ breaker.probes \in 0 .. HalfOpenMaxCalls
        /\ HalfOpenMaxCalls \in Nat
    BY <1>1, BreakerAssumption DEF Inductive, TypeOK, Breaker
  <2>2. Cardinality(Probes) \in Nat
    BY CallersAreFinite DEF Probes
  <2>3. CASE breaker.state = "half_open"
    BY <1>1, <2>1, <2>2, <2>3
       DEF Inductive, SlotsAreAccounted, ProbesAreBounded
  <2>4. CASE breaker.state # "half_open"
    <3>1. Probes = {} /\ Cardinality({}) = 0
      BY <1>1, <2>4, FS_EmptySet DEF Inductive, SlotsAreAccounted
    <3>2. QED
      BY <2>1, <3>1 DEF ProbesAreBounded
  <2>5. QED
    BY <2>3, <2>4
<1>2. QED
  BY SlotsInductive, <1>1, PTL

\* A half-open breaker that refuses everybody has a probe out.
THEOREM RefusalHasAProbe ==
  ASSUME Inductive, breaker.state = "half_open", ~Allows(breaker)
  PROVE  Probes # {}
<1>1. /\ breaker.probes \in 0 .. HalfOpenMaxCalls
      /\ breaker.successes \in 0 .. HalfOpenMaxCalls - 1
      /\ HalfOpenMaxCalls \in Nat
  BY BreakerAssumption DEF Inductive, TypeOK, Breaker
<1>2. breaker.probes = HalfOpenMaxCalls
  BY <1>1 DEF Allows
<1>3. breaker.probes <= Cardinality(Probes) + breaker.successes
  BY DEF Inductive, SlotsAreAccounted
<1>4. Cardinality(Probes) \in Nat
  BY CallersAreFinite DEF Probes
<1>5. Cardinality(Probes) # 0
  BY <1>1, <1>2, <1>3, <1>4
<1>6. QED
  BY <1>5, FS_EmptySet
=============================================================================
