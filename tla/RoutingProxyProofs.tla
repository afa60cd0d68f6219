------------------------- MODULE RoutingProxyProofs -------------------------
(***************************************************************************)
(* What is proved of RoutingProxy for any instances, any number of         *)
(* concurrent requests, any retry limit and any breaker thresholds.        *)
(***************************************************************************)
EXTENDS RoutingProxy, FiniteSetTheorems, TLAPS

-----------------------------------------------------------------------------
(* The breaker.                                                            *)

\* Each method of InstanceCircuitBreaker leaves its fields within their
\* ranges: no counter passes its limit, in any order of calls.
LEMMA BreakerClosure ==
  ASSUME NEW b \in Breaker
  PROVE  /\ Closed \in Breaker /\ Asked(b) \in Breaker
         /\ Succeeded(b) \in Breaker /\ Failed(b) \in Breaker
         /\ Ripen(b) \in Breaker
<1> USE BreakerAssumption DEF Breaker
<1>1. Closed \in Breaker
  BY DEF Closed
<1>2. Ripen(b) \in Breaker
  BY DEF Ripen
<1>3. Succeeded(b) \in Breaker
  BY <1>1 DEF Succeeded
<1>4. Asked(b) \in Breaker
  BY DEF Asked, Ripe
<1>5. Failed(b) \in Breaker
  BY DEF Failed, Opened
<1> HIDE DEF Breaker
<1>6. QED
  BY <1>1, <1>2, <1>3, <1>4, <1>5

\* A new breaker, and one that was reset, is within its ranges.
LEMMA ClosedIsBreaker == Closed \in Breaker
  BY BreakerAssumption DEF Closed, Breaker

-----------------------------------------------------------------------------
(* Operators.                                                              *)

\* The LOCAL -> REMOTE fallback at the head of the retry loop is dead code: it
\* asks for an exhausted list that is still the list the loop started with.
THEOREM FallbackNeverHappens ==
  \A r, c : ~FallsBack(r, c) /\ Headed(r, c) = c
  BY DEF FallsBack, Headed, IsFirstList

LEMMA FirstTierIsOffered ==
  ASSUME NEW S \in SUBSET Instances
  PROVE  FirstTier(S) \subseteq S
  BY DEF FirstTier, LocalOf, RemoteOf

LEMMA FreshIsCall ==
  ASSUME NEW S \in SUBSET Instances
  PROVE  Fresh(S) \in Call /\ Fresh(S).pc = "idle"
  BY FirstTierIsOffered DEF Fresh, Call

LEMMA IdleIsCall == Idle \in Call /\ Idle.pc = "idle"
  BY FreshIsCall DEF Idle

\* on_request_start and on_request_end keep every load a natural number.
LEMMA LoadsStayNatural ==
  ASSUME NEW l \in [Instances -> Nat], NEW i \in Instances, NEW r \in Requests
  PROVE  /\ Started(l, i, r) \in [Instances -> Nat]
         /\ Ended(l, i, r) \in [Instances -> Nat]
<1>1. Weight[r] \in Nat
  BY ProxyAssumption
<1>2. Started(l, i, r) \in [Instances -> Nat]
  BY <1>1 DEF Started
<1>3. (IF l[i] > Weight[r] THEN l[i] - Weight[r] ELSE 0) \in Nat
  BY <1>1
<1>4. Ended(l, i, r) \in [Instances -> Nat]
  BY <1>3 DEF Ended
<1>5. QED
  BY <1>2, <1>4

\* What the balancer picks from is part of what it is given.
LEMMA PoolIsPart ==
  ASSUME NEW S, NEW cool
  PROVE  Pool(S, cool) \subseteq S
  BY DEF Pool

-----------------------------------------------------------------------------
(* One turn of the retry loop.                                             *)

\* What a call looks like at the head of the loop.
AtHead(c) ==
  /\ c \in Call
  /\ c.available \subseteq c.offered /\ c.tried \subseteq c.offered
  /\ c.available \cap c.tried = {}
  /\ Cardinality(c.tried) = c.attempt

\* What a call looks like between two steps.
AtRest(c) ==
  c.pc = "posting" =>
    /\ Cardinality(c.tried) = c.attempt + 1
    /\ c.attempt <= MaxRetries
    /\ c.instance \in c.tried
    /\ c.tried \subseteq c.offered
    /\ c.available \subseteq c.offered

\* The step leaves call r as k, having counted it in as one of count.
Leaves(r, k, count) ==
  /\ k \in Call /\ AtRest(k)
  /\ call' = [call EXCEPT ![r] = k]
  /\ k.pc # "idle" => active' = count
  /\ k.pc = "idle" => active' \in {count, count - 1}

LEMMA SentIsAtRest ==
  ASSUME NEW c, AtHead(c), c.attempt <= MaxRetries, NEW i \in c.available
  PROVE  Sent(c, i) \in Call /\ Sent(c, i).pc = "posting" /\ AtRest(Sent(c, i))
<1>1. /\ i \in Instances /\ i \notin c.tried /\ i \in c.offered
      /\ c.tried \subseteq Instances
  BY DEF AtHead, Call
<1>2. Sent(c, i) \in Call /\ Sent(c, i).pc = "posting"
  BY <1>1 DEF AtHead, Call, Sent
<1>3. IsFiniteSet(c.tried)
  BY <1>1, FS_Subset, ProxyAssumption
<1>4. Cardinality(c.tried \cup {i}) = c.attempt + 1
  BY <1>1, <1>3, FS_AddElement DEF AtHead
<1>5. AtRest(Sent(c, i))
  BY <1>1, <1>4 DEF AtHead, AtRest, Sent
<1>6. QED
  BY <1>2, <1>5

\* From the head of the loop a call is dispatched to an instance it has not
\* tried, or it is given up: in either way it is counted at most once.
LEMMA LoopLeaves ==
  ASSUME NEW r \in Requests, NEW c, AtHead(c),
         NEW loads \in [Instances -> Nat], NEW count \in Nat, NEW cool,
         Loop(r, c, loads, count, cool) \/ GiveUp(r, c, loads, count)
  PROVE  /\ load' \in [Instances -> Nat]
         /\ \E k : Leaves(r, k, count)
<1>1. CASE MayDispatch(r, c) /\ Dispatch(r, c, loads, count, cool)
  <2>1. PICK i \in Pool(c.available, cool) :
          /\ call' = [call EXCEPT ![r] = Sent(c, i)]
          /\ load' = Started(loads, i, r)
          /\ active' = count
    BY <1>1 DEF Dispatch
  <2>2. i \in c.available /\ i \in Instances
    BY PoolIsPart DEF AtHead, Call
  <2>3. c.attempt <= MaxRetries
    BY <1>1 DEF MayDispatch
  <2>4. Leaves(r, Sent(c, i), count)
    BY <2>1, <2>2, <2>3, SentIsAtRest DEF Leaves
  <2>5. QED
    BY <2>1, <2>2, <2>4, LoadsStayNatural
<1>2. CASE GiveUp(r, c, loads, count)
  <2>1. load' \in [Instances -> Nat]
    BY <1>2 DEF GiveUp
  <2>2. CASE call' = [call EXCEPT ![r] = Idle] /\ active' \in {count, count - 1}
    <3>1. Leaves(r, Idle, count)
      BY <2>2, IdleIsCall DEF Leaves, AtRest
    <3>2. QED
      BY <2>1, <3>1
  <2>3. CASE /\ call' = [call EXCEPT ![r] = [Idle EXCEPT !.pc = "reporting"]]
             /\ active' = count
    <3> DEFINE k == [Idle EXCEPT !.pc = "reporting"]
    <3>1. k \in Call /\ k.pc = "reporting"
      BY IdleIsCall DEF Call
    <3>2. Leaves(r, k, count)
      BY <2>3, <3>1 DEF Leaves, AtRest
    <3>3. QED
      BY <2>1, <3>2
  <2>4. QED
    BY <1>2, <2>1, <2>2, <2>3 DEF GiveUp
<1>3. QED
  BY <1>1, <1>2, FallbackNeverHappens DEF Loop

-----------------------------------------------------------------------------
(* The counter against the calls in flight.                                *)

\* A call that was let in is counted; one that was counted already and ends
\* is taken off once, or not at all.
LEMMA CounterKeepsUp ==
  ASSUME TypeOK, ActiveCoversInFlight, AttemptsVisitNewInstances,
         NEW r \in Requests, NEW k, NEW count, Leaves(r, k, count),
         \/ call[r].pc = "idle" /\ count = active + 1
         \/ call[r].pc # "idle" /\ count = active
  PROVE  /\ call' \in [Requests -> Call]
         /\ active' \in Nat
         /\ AttemptsVisitNewInstances'
         /\ ActiveCoversInFlight'
         /\ InFlight' = IF k.pc = "idle" THEN InFlight \ {r}
                                         ELSE InFlight \cup {r}
<1>1. /\ call' = [call EXCEPT ![r] = k] /\ k \in Call
      /\ call \in [Requests -> Call] /\ active \in Nat
  BY DEF Leaves, TypeOK
<1>2. call' \in [Requests -> Call]
  BY <1>1
<1>3. AttemptsVisitNewInstances'
  BY <1>1 DEF AttemptsVisitNewInstances, Leaves, AtRest
<1>4. InFlight' = IF k.pc = "idle" THEN InFlight \ {r} ELSE InFlight \cup {r}
  BY <1>1 DEF InFlight
<1>5. IsFiniteSet(InFlight)
  BY FS_Subset, ProxyAssumption DEF InFlight
<1>6. Cardinality(InFlight) \in Nat /\ active >= Cardinality(InFlight)
  BY <1>5, FS_CardinalityType DEF ActiveCoversInFlight
<1>7. CASE call[r].pc = "idle" /\ count = active + 1
  <2>1. r \notin InFlight
    BY <1>7 DEF InFlight
  <2>2. InFlight \ {r} = InFlight
    BY <2>1
  <2>3. Cardinality(InFlight \cup {r}) = Cardinality(InFlight) + 1
    BY <2>1, <1>5, FS_AddElement
  <2>4. active' \in Nat /\ active' >= Cardinality(InFlight')
    BY <1>1, <1>4, <1>6, <1>7, <2>2, <2>3 DEF Leaves
  <2>5. QED
    BY <1>2, <1>3, <1>4, <2>4 DEF ActiveCoversInFlight
<1>8. CASE call[r].pc # "idle" /\ count = active
  <2>1. r \in InFlight
    BY <1>8 DEF InFlight
  <2>2. InFlight \cup {r} = InFlight
    BY <2>1
  <2>3. Cardinality(InFlight \ {r}) = Cardinality(InFlight) - 1
    BY <2>1, <1>5, FS_RemoveElement
  <2>4. Cardinality(InFlight) # 0
    BY <2>1, <1>5, FS_EmptySet
  <2>5. active - 1 \in Nat /\ active - 1 >= Cardinality(InFlight) - 1
    BY <1>1, <1>6, <2>4
  <2>6. CASE k.pc = "idle"
    <3>1. active' \in {active, active - 1}
      BY <1>8, <2>6 DEF Leaves
    <3>2. Cardinality(InFlight') = Cardinality(InFlight) - 1
      BY <1>4, <2>3, <2>6
    <3>3. active' \in Nat /\ active' >= Cardinality(InFlight')
      BY <1>1, <1>6, <2>5, <3>1, <3>2
    <3>4. QED
      BY <1>2, <1>3, <1>4, <3>3 DEF ActiveCoversInFlight
  <2>7. CASE k.pc # "idle"
    <3>1. active' = active
      BY <1>8, <2>7 DEF Leaves
    <3>2. InFlight' = InFlight
      BY <1>4, <2>2, <2>7
    <3>3. QED
      BY <1>1, <1>2, <1>3, <1>4, <1>6, <3>1, <3>2 DEF ActiveCoversInFlight
  <2>8. QED
    BY <2>6, <2>7
<1>9. QED
  BY <1>7, <1>8

-----------------------------------------------------------------------------
(* The actions on a call.                                                  *)

LEMMA RetryingIsAtHead ==
  ASSUME TypeOK, AttemptsVisitNewInstances,
         NEW r \in Requests, call[r].pc = "posting"
  PROVE  /\ AtHead(Retrying(call[r]))
         /\ call[r] \in Call
         /\ call[r].instance \in Instances
<1>1. call[r] \in Call
  BY DEF TypeOK
<1>2. /\ Cardinality(call[r].tried) = call[r].attempt + 1
      /\ call[r].instance \in call[r].tried
      /\ call[r].tried \subseteq call[r].offered
      /\ call[r].available \subseteq call[r].offered
  BY DEF AttemptsVisitNewInstances
<1>3. call[r].instance \in Instances
  BY <1>1, <1>2 DEF Call
<1>4. Retrying(call[r]) \in Call
  BY <1>1 DEF Call, Retrying
<1>5. AtHead(Retrying(call[r]))
  BY <1>2, <1>4 DEF AtHead, Retrying
<1>6. QED
  BY <1>1, <1>3, <1>5

LEMMA FreshIsAtHead ==
  ASSUME NEW S \in SUBSET Instances
  PROVE  AtHead(Fresh(S))
<1>1. Cardinality({}) = 0
  BY FS_EmptySet
<1>2. QED
  BY <1>1, FreshIsCall, FirstTierIsOffered DEF AtHead, Fresh

LEMMA ArriveLeaves ==
  ASSUME TypeOK, NEW r \in Requests, Arrive(r)
  PROVE  /\ load' \in [Instances -> Nat]
         /\ \E k : Leaves(r, k, active + 1)
         /\ call[r].pc = "idle" /\ ~draining
<1>1. Offered \in SUBSET Instances
  BY DEF Offered, Candidates
<1>2. AtHead(Fresh(Offered))
  BY <1>1, FreshIsAtHead
<1>3. /\ Loop(r, Fresh(Offered), load, active + 1, cooling)
      /\ call[r].pc = "idle" /\ ~draining
  BY DEF Arrive
<1>4. load \in [Instances -> Nat] /\ active + 1 \in Nat
  BY DEF TypeOK
<1>5. QED
  BY <1>2, <1>3, <1>4, LoopLeaves

\* The steps that follow an answer of the upstream, and those of a client.
Answer(r) == Reply(r) \/ StreamDropped(r)

LEMMA AnswerLeaves ==
  ASSUME TypeOK, AttemptsVisitNewInstances, NEW r \in Requests, Answer(r)
  PROVE  /\ load' \in [Instances -> Nat]
         /\ \E k : Leaves(r, k, active)
         /\ call[r].pc # "idle"
<1>1. load \in [Instances -> Nat] /\ active \in Nat
  BY DEF TypeOK
<1>2. ASSUME call[r].pc = "posting"
      PROVE  /\ AtHead(Retrying(call[r]))
             /\ Release(r) \in [Instances -> Nat]
             /\ Ended(Release(r), call[r].instance, r) \in [Instances -> Nat]
  BY <1>1, <1>2, RetryingIsAtHead, LoadsStayNatural DEF Release
<1>3. ASSUME call' = [call EXCEPT ![r] = Idle], active' \in {active, active - 1}
      PROVE  \E k : Leaves(r, k, active)
  <2>1. Leaves(r, Idle, active)
    BY <1>3, IdleIsCall DEF Leaves, AtRest
  <2>2. QED
    BY <2>1
<1>4. ASSUME NEW slow \in BOOLEAN, ForwardOk(r, slow)
      PROVE  /\ load' \in [Instances -> Nat]
             /\ \E k : Leaves(r, k, active)
             /\ call[r].pc # "idle"
  BY <1>2, <1>3, <1>4 DEF ForwardOk, Settles
<1>5. ASSUME NEW why \in Failures, ForwardFails(r, why)
      PROVE  /\ load' \in [Instances -> Nat]
             /\ \E k : Leaves(r, k, active)
             /\ call[r].pc # "idle"
  <2>1. call[r].pc = "posting"
    BY <1>5 DEF ForwardFails, Settles
  <2>2. \/ Loop(r, Retrying(call[r]), Release(r), active, cooling')
        \/ GiveUp(r, Retrying(call[r]), Release(r), active)
    BY <1>5 DEF ForwardFails, TotalTimeout
  <2>3. QED
    BY <1>1, <1>2, <2>1, <2>2, LoopLeaves
<1>6. ASSUME ForwardErrorReturned(r)
      PROVE  /\ load' \in [Instances -> Nat]
             /\ \E k : Leaves(r, k, active)
             /\ call[r].pc # "idle"
  <2>1. /\ call[r].pc = "posting" /\ r \notin Streams
        /\ GiveUp(r, call[r], Release(r), active)
    BY <1>6, ProxyAssumption DEF ForwardErrorReturned, Settles
  <2>2. call' = [call EXCEPT ![r] = Idle] /\ active' \in {active, active - 1}
        /\ load' = Release(r)
    BY <2>1 DEF GiveUp
  <2>3. QED
    BY <1>2, <1>3, <2>1, <2>2
<1>7. ASSUME NEW counted \in BOOLEAN, StreamDone(r, counted)
      PROVE  /\ load' \in [Instances -> Nat]
             /\ \E k : Leaves(r, k, active)
             /\ call[r].pc # "idle"
  BY <1>2, <1>3, <1>7 DEF StreamDone, Settles
<1>8. ASSUME StreamFails(r)
      PROVE  /\ load' \in [Instances -> Nat]
             /\ \E k : Leaves(r, k, active)
             /\ call[r].pc # "idle"
  <2>1. /\ call[r].pc = "posting"
        /\ Loop(r, Retrying(call[r]), Ended(Release(r), call[r].instance, r),
                active, cooling')
    BY <1>8 DEF StreamFails, Settles
  <2>2. QED
    BY <1>1, <1>2, <2>1, LoopLeaves
<1>9. ASSUME StreamDropped(r)
      PROVE  /\ load' \in [Instances -> Nat]
             /\ \E k : Leaves(r, k, active)
             /\ call[r].pc # "idle"
  <2>1. /\ load' \in [Instances -> Nat] /\ call[r].pc # "idle"
    BY <1>1, <1>2, <1>9 DEF StreamDropped, Settles
  <2>2. call' = [call EXCEPT ![r] = Idle] /\ active' = active
    BY <1>9 DEF StreamDropped
  <2>3. QED
    BY <1>3, <2>1, <2>2
<1>10. ASSUME StreamReported(r)
       PROVE  /\ load' \in [Instances -> Nat]
              /\ \E k : Leaves(r, k, active)
              /\ call[r].pc # "idle"
  BY <1>1, <1>3, <1>10 DEF StreamReported, routing
<1>11. QED
  BY <1>4, <1>5, <1>6, <1>7, <1>8, <1>9, <1>10 DEF Answer, Reply

-----------------------------------------------------------------------------
(* What calls leave alone, and the rest of the system.                     *)

LEMMA BreakersStayBreakers ==
  ASSUME breaker \in [Instances -> Breaker], NEW i \in Instances
  PROVE  /\ AllAsked \in [Instances -> Breaker]
         /\ [breaker EXCEPT ![i] = Succeeded(@)] \in [Instances -> Breaker]
         /\ [breaker EXCEPT ![i] = Failed(@)] \in [Instances -> Breaker]
         /\ [breaker EXCEPT ![i] = Ripen(@)] \in [Instances -> Breaker]
         /\ [breaker EXCEPT ![i] = Closed] \in [Instances -> Breaker]
<1>1. \A j \in Instances : Asked(breaker[j]) \in Breaker
  BY BreakerClosure
<1>2. AllAsked \in [Instances -> Breaker]
  BY <1>1 DEF AllAsked
<1>3. /\ Succeeded(breaker[i]) \in Breaker /\ Failed(breaker[i]) \in Breaker
      /\ Ripen(breaker[i]) \in Breaker /\ Closed \in Breaker
  BY BreakerClosure
<1>4. QED
  BY <1>2, <1>3

\* A step of a call changes neither the registry nor the shutdown, and keeps
\* the breakers and the cooldowns well typed.
LEMMA CallsKeepTheRest ==
  ASSUME TypeOK, AttemptsVisitNewInstances, NEW r \in Requests,
         Arrive(r) \/ Answer(r)
  PROVE  /\ status' = status /\ UNCHANGED gate
         /\ breaker' \in [Instances -> Breaker]
         /\ cooling' \subseteq Instances
<1>1. /\ breaker \in [Instances -> Breaker] /\ cooling \subseteq Instances
  BY DEF TypeOK
<1>2. ASSUME call[r].pc = "posting"
      PROVE  call[r].instance \in Instances
  BY <1>2, RetryingIsAtHead
<1>3. CASE Arrive(r)
  <2>1. AllAsked \in [Instances -> Breaker]
    <3>1. \A j \in Instances : Asked(breaker[j]) \in Breaker
      BY <1>1, BreakerClosure
    <3>2. QED
      BY <1>1, <3>1 DEF AllAsked
  <2>2. QED
    BY <1>1, <1>3, <2>1 DEF Arrive
<1>4. ASSUME NEW slow \in BOOLEAN, ForwardOk(r, slow)
      PROVE  /\ status' = status /\ UNCHANGED gate
             /\ breaker' \in [Instances -> Breaker]
             /\ cooling' \subseteq Instances
  BY <1>1, <1>2, <1>4, BreakersStayBreakers DEF ForwardOk, Settles
<1>5. ASSUME NEW why \in Failures, ForwardFails(r, why)
      PROVE  /\ status' = status /\ UNCHANGED gate
             /\ breaker' \in [Instances -> Breaker]
             /\ cooling' \subseteq Instances
  BY <1>1, <1>2, <1>5, BreakersStayBreakers DEF ForwardFails, Settles, Penalise
<1>6. ASSUME NEW counted \in BOOLEAN, StreamDone(r, counted)
      PROVE  /\ status' = status /\ UNCHANGED gate
             /\ breaker' \in [Instances -> Breaker]
             /\ cooling' \subseteq Instances
  BY <1>1, <1>2, <1>6, BreakersStayBreakers DEF StreamDone, Settles
<1>7. CASE StreamFails(r)
  BY <1>1, <1>2, <1>7, BreakersStayBreakers DEF StreamFails, Settles, Penalise
<1>8. CASE ForwardErrorReturned(r)
  BY <1>1, <1>8 DEF ForwardErrorReturned
<1>9. CASE StreamDropped(r)
  BY <1>1, <1>9 DEF StreamDropped
<1>10. CASE StreamReported(r)
  BY <1>1, <1>10 DEF StreamReported, routing
<1>11. QED
  BY <1>3, <1>4, <1>5, <1>6, <1>7, <1>8, <1>9, <1>10 DEF Answer, Reply

\* Time and the admin API touch neither the calls nor the shutdown.
Around(i) == Elapse(i) \/ Manage(i)

LEMMA AroundKeepsTheRest ==
  ASSUME TypeOK, NEW i \in Instances, Around(i)
  PROVE  /\ UNCHANGED <<load, call, active, gate>>
         /\ status' \in [Instances -> {"healthy", "unhealthy", "absent"}]
         /\ breaker' \in [Instances -> Breaker]
         /\ cooling' \subseteq Instances
<1>1. /\ status \in [Instances -> {"healthy", "unhealthy", "absent"}]
      /\ breaker \in [Instances -> Breaker]
      /\ cooling \subseteq Instances
  BY DEF TypeOK
<1>2. CASE RecoveryElapses(i)
  BY <1>1, <1>2, BreakersStayBreakers DEF RecoveryElapses
<1>3. CASE CooldownElapses(i)
  BY <1>1, <1>3 DEF CooldownElapses
<1>4. CASE MarkUnhealthy(i)
  BY <1>1, <1>4 DEF MarkUnhealthy
<1>5. CASE MarkHealthy(i)
  BY <1>1, <1>5 DEF MarkHealthy
<1>6. CASE Register(i)
  BY <1>1, <1>6 DEF Register
<1>7. CASE Deregister(i)
  BY <1>1, <1>7, BreakersStayBreakers DEF Deregister
<1>8. CASE ResetBreaker(i)
  BY <1>1, <1>8, BreakersStayBreakers DEF ResetBreaker
<1>9. QED
  BY <1>2, <1>3, <1>4, <1>5, <1>6, <1>7, <1>8 DEF Around, Elapse, Manage

-----------------------------------------------------------------------------
(* The invariant.                                                          *)

LEMMA NextSplits ==
  ASSUME Next
  PROVE  \/ \E r \in Requests : Arrive(r) \/ Answer(r)
         \/ \E r \in Requests : ArriveRaises(r)
         \/ \E i \in Instances : Around(i)
         \/ Drain
         \/ WaitDrainEnds
  BY ProxyAssumption DEF Next, Request, Answer, Around

LEMMA InductiveInit == Init => Inductive
<1> SUFFICES ASSUME Init PROVE Inductive
  OBVIOUS
<1>1. InFlight = {}
  BY IdleIsCall DEF Init, InFlight
<1>2. Cardinality(InFlight) = 0
  BY <1>1, FS_EmptySet
<1>3. TypeOK
  <2>1. /\ breaker \in [Instances -> Breaker]
        /\ call \in [Requests -> Call]
    BY IdleIsCall, ClosedIsBreaker DEF Init
  <2>2. QED
    BY <2>1 DEF Init, TypeOK
<1>4. AttemptsVisitNewInstances
  BY IdleIsCall DEF Init, AttemptsVisitNewInstances
<1>5. QED
  BY <1>2, <1>3, <1>4
  DEF Init, Inductive, ActiveCoversInFlight, GateAgrees, DrainedMeansQuiet

LEMMA InductiveNext == Inductive /\ [Next]_vars => Inductive'
<1> SUFFICES ASSUME Inductive, [Next]_vars PROVE Inductive'
  OBVIOUS
<1>1. /\ TypeOK /\ AttemptsVisitNewInstances /\ ActiveCoversInFlight
      /\ GateAgrees /\ DrainedMeansQuiet
  BY DEF Inductive
<1>2. ASSUME NEW r \in Requests, Arrive(r) \/ Answer(r)
      PROVE  Inductive'
  <2>1. /\ load' \in [Instances -> Nat]
        /\ \E k, count :
             /\ Leaves(r, k, count)
             /\ \/ call[r].pc = "idle" /\ count = active + 1 /\ ~draining
                \/ call[r].pc # "idle" /\ count = active
    BY <1>1, <1>2, ArriveLeaves, AnswerLeaves
  <2>2. PICK k, count :
             /\ Leaves(r, k, count)
             /\ \/ call[r].pc = "idle" /\ count = active + 1 /\ ~draining
                \/ call[r].pc # "idle" /\ count = active
    BY <2>1
  <2>3. /\ call' \in [Requests -> Call] /\ active' \in Nat
        /\ AttemptsVisitNewInstances' /\ ActiveCoversInFlight'
        /\ InFlight' = IF k.pc = "idle" THEN InFlight \ {r}
                                        ELSE InFlight \cup {r}
    BY <1>1, <2>2, CounterKeepsUp
  <2>4. /\ status' = status /\ UNCHANGED gate
        /\ breaker' \in [Instances -> Breaker] /\ cooling' \subseteq Instances
    BY <1>1, <1>2, CallsKeepTheRest
  <2>5. TypeOK'
    BY <1>1, <2>1, <2>3, <2>4 DEF TypeOK, gate
  <2>6. GateAgrees'
    BY <1>1, <2>4 DEF GateAgrees, gate
  <2>7. DrainedMeansQuiet'
    <3>1. SUFFICES ASSUME shutdown' = "quiet" PROVE InFlight' = {}
      BY DEF DrainedMeansQuiet
    <3>2. InFlight = {} /\ draining
      BY <1>1, <2>4, <3>1 DEF DrainedMeansQuiet, GateAgrees, gate
    <3>3. FALSE
      BY <2>2, <3>2 DEF InFlight
    <3>4. QED
      BY <3>3
  <2>8. QED
    BY <2>3, <2>5, <2>6, <2>7 DEF Inductive
<1>3. ASSUME NEW i \in Instances, Around(i)
      PROVE  Inductive'
  <2>1. /\ UNCHANGED <<load, call, active, gate>>
        /\ status' \in [Instances -> {"healthy", "unhealthy", "absent"}]
        /\ breaker' \in [Instances -> Breaker] /\ cooling' \subseteq Instances
    BY <1>1, <1>3, AroundKeepsTheRest
  <2>2. TypeOK'
    BY <1>1, <2>1 DEF TypeOK, gate
  <2>3. InFlight' = InFlight /\ AttemptsVisitNewInstances'
    BY <1>1, <2>1 DEF InFlight, AttemptsVisitNewInstances
  <2>4. ActiveCoversInFlight' /\ GateAgrees' /\ DrainedMeansQuiet'
    BY <1>1, <2>1, <2>3
    DEF ActiveCoversInFlight, GateAgrees, DrainedMeansQuiet, gate
  <2>5. QED
    BY <2>2, <2>3, <2>4 DEF Inductive
<1>4. CASE Drain
  <2>1. UNCHANGED <<routing, call, active>> /\ InFlight' = InFlight
    BY <1>4 DEF Drain, InFlight
  <2>2. TypeOK' /\ AttemptsVisitNewInstances' /\ ActiveCoversInFlight'
    BY <1>1, <1>4, <2>1
    DEF Drain, TypeOK, AttemptsVisitNewInstances, ActiveCoversInFlight, routing
  <2>3. GateAgrees'
    BY <1>4 DEF Drain, GateAgrees
  <2>4. DrainedMeansQuiet'
    <3>1. IsFiniteSet(InFlight)
      BY FS_Subset, ProxyAssumption DEF InFlight
    <3>2. ASSUME active = 0 PROVE InFlight = {}
      BY <1>1, <3>1, <3>2, FS_CardinalityType, FS_EmptySet
      DEF ActiveCoversInFlight
    <3>3. QED
      BY <1>4, <2>1, <3>2 DEF Drain, DrainedMeansQuiet
  <2>5. QED
    BY <2>2, <2>3, <2>4 DEF Inductive
<1>5. CASE WaitDrainEnds
  <2>1. UNCHANGED <<routing, call, active, draining, drainEvent>>
        /\ InFlight' = InFlight /\ shutdown' = "timed_out"
    BY <1>1, <1>5 DEF WaitDrainEnds, InFlight, GateAgrees
  <2>2. TypeOK' /\ AttemptsVisitNewInstances' /\ ActiveCoversInFlight'
    BY <1>1, <2>1
    DEF TypeOK, AttemptsVisitNewInstances, ActiveCoversInFlight, routing
  <2>3. GateAgrees' /\ DrainedMeansQuiet'
    BY <1>1, <1>5, <2>1 DEF GateAgrees, DrainedMeansQuiet, WaitDrainEnds
  <2>4. QED
    BY <2>2, <2>3 DEF Inductive
<1>6. CASE UNCHANGED vars
  <2>1. UNCHANGED <<status, breaker, load, cooling, call, active, draining,
                    drainEvent, shutdown>> /\ InFlight' = InFlight
    BY <1>6 DEF vars, InFlight
  <2>2. QED
    BY <1>1, <2>1 DEF Inductive, TypeOK, AttemptsVisitNewInstances,
                      ActiveCoversInFlight, GateAgrees, DrainedMeansQuiet
<1>7. ASSUME NEW r \in Requests, ArriveRaises(r)
      PROVE  Inductive'
  <2>1. UNCHANGED <<routing, call, gate>> /\ active' = active + 1
    BY <1>7 DEF ArriveRaises
  <2>2. IsFiniteSet(InFlight) /\ InFlight' = InFlight
    BY <2>1, FS_Subset, ProxyAssumption DEF InFlight
  <2>3. TypeOK' /\ AttemptsVisitNewInstances'
    BY <1>1, <2>1 DEF TypeOK, AttemptsVisitNewInstances, routing, gate
  <2>4. ActiveCoversInFlight'
    BY <1>1, <2>1, <2>2, FS_CardinalityType DEF ActiveCoversInFlight, TypeOK
  <2>5. GateAgrees' /\ DrainedMeansQuiet'
    BY <1>1, <2>1, <2>2 DEF GateAgrees, DrainedMeansQuiet, gate
  <2>6. QED
    BY <2>3, <2>4, <2>5 DEF Inductive
<1>8. QED
  BY <1>2, <1>3, <1>4, <1>5, <1>6, <1>7, NextSplits

\* Everything the counter of active requests and the drain flag have to
\* satisfy together holds in every reachable state of the proxy.
THEOREM InductiveHolds == Spec => []Inductive
<1>1. QED
  BY InductiveInit, InductiveNext, PTL DEF Spec

\* Every variable of the proxy keeps its type: loads and the counter of active
\* requests stay natural numbers, breakers stay within their limits.
THEOREM TypeCorrect == Spec => []TypeOK
<1>1. Inductive => TypeOK
  BY DEF Inductive
<1>2. QED
  BY <1>1, InductiveHolds, PTL

\* A retry never goes back to an instance the request has tried, and goes only
\* to one the breaker filter let through when the request arrived.
THEOREM RetriesAreDistinct == Spec => []AttemptsVisitNewInstances
<1>1. Inductive => AttemptsVisitNewInstances
  BY DEF Inductive
<1>2. QED
  BY <1>1, InductiveHolds, PTL

\* wait_drain() answers True only when no request is in flight, and that stays
\* so: "All in-flight requests completed" is never logged too early.
THEOREM DrainIsHonest == Spec => []DrainedMeansQuiet
<1>1. Inductive => DrainedMeansQuiet
  BY DEF Inductive
<1>2. QED
  BY <1>1, InductiveHolds, PTL

\* A shutdown ends quietly in drain() itself, with nothing counted as active,
\* or not at all: only drain() sets _drain_event, so one that has to wait runs
\* into its timeout, whatever the requests do meanwhile.
QuietAtOnceOrNever ==
  [][shutdown # "quiet" /\ shutdown' = "quiet" => Drain /\ active = 0]_vars

THEOREM WaitingIsInVain == Spec => QuietAtOnceOrNever
<1>1. Inductive /\ [Next]_vars =>
        [shutdown # "quiet" /\ shutdown' = "quiet" => Drain /\ active = 0]_vars
  <2>1. SUFFICES ASSUME Inductive, Next, shutdown # "quiet", shutdown' = "quiet"
                 PROVE  Drain /\ active = 0
    OBVIOUS
  <2>2. /\ TypeOK /\ AttemptsVisitNewInstances
        /\ shutdown = "waiting" => ~drainEvent
    BY <2>1 DEF Inductive, GateAgrees
  <2>3. ASSUME NEW r \in Requests, Arrive(r) \/ Answer(r) PROVE FALSE
    BY <2>1, <2>2, <2>3, CallsKeepTheRest DEF gate
  <2>4. ASSUME NEW i \in Instances, Around(i) PROVE FALSE
    BY <2>1, <2>2, <2>4, AroundKeepsTheRest DEF gate
  <2>5. ~WaitDrainEnds /\ \A r \in Requests : ~ArriveRaises(r)
    BY <2>1, <2>2 DEF WaitDrainEnds, ArriveRaises, gate
  <2>6. Drain
    BY <2>1, <2>3, <2>4, <2>5, NextSplits
  <2>7. QED
    BY <2>1, <2>6 DEF Drain
<1>2. QED
  BY <1>1, InductiveHolds, PTL DEF Spec, QuietAtOnceOrNever

-----------------------------------------------------------------------------
(* Where a step of a call leaves it, and the loads.                        *)

\* The head of the loop that a step of call r may reach.
Turn(r) == IF call[r].pc = "idle" THEN Fresh(Offered) ELSE Retrying(call[r])

\* The call ends, or goes on to an instance that is still available to it;
\* loads are what is left when its last attempt is taken off.
Stops(r, loads) ==
  /\ \E k : k.pc # "posting" /\ call' = [call EXCEPT ![r] = k]
  /\ load' = loads
Moves(r, loads) ==
  /\ MayDispatch(r, Turn(r))
  /\ \E i \in Turn(r).available :
       /\ call' = [call EXCEPT ![r] = Sent(Turn(r), i)]
       /\ load' = Started(loads, i, r)

LEMMA LoopStopsOrMoves ==
  ASSUME NEW r \in Requests, NEW loads, NEW count, NEW cool,
         \/ Loop(r, Turn(r), loads, count, cool)
         \/ GiveUp(r, Turn(r), loads, count)
  PROVE  Stops(r, loads) \/ Moves(r, loads)
<1>1. CASE MayDispatch(r, Turn(r)) /\ Dispatch(r, Turn(r), loads, count, cool)
  BY <1>1, PoolIsPart DEF Dispatch, Moves
<1>2. CASE GiveUp(r, Turn(r), loads, count)
  <2>1. Idle \in Call /\ Idle.pc = "idle"
    BY IdleIsCall
  <2>2. [Idle EXCEPT !.pc = "reporting"].pc = "reporting"
    BY <2>1 DEF Call
  <2>3. QED
    BY <1>2, <2>1, <2>2 DEF GiveUp, Stops
<1>3. QED
  BY <1>1, <1>2, FallbackNeverHappens DEF Loop

\* What a step of a call has taken off the loads before it goes on: nothing
\* when the call was not posted, its weight once or twice when it was.
TakenOff(r, loads) ==
  IF call[r].pc = "posting"
  THEN loads \in {Release(r), Ended(Release(r), call[r].instance, r)}
  ELSE loads = load

LEMMA CallsStopOrMove ==
  ASSUME TypeOK, NEW r \in Requests, Arrive(r) \/ Answer(r)
  PROVE  /\ \E loads : TakenOff(r, loads) /\ (Stops(r, loads) \/ Moves(r, loads))
         /\ call[r].pc \in {"idle", "posting"} \/ call'[r].pc # "posting"
<1>1. call \in [Requests -> Call] /\ Idle.pc = "idle"
  BY IdleIsCall DEF TypeOK
<1>2. ASSUME NEW loads, TakenOff(r, loads), call' = [call EXCEPT ![r] = Idle],
             load' = loads
      PROVE  /\ \E l : TakenOff(r, l) /\ (Stops(r, l) \/ Moves(r, l))
             /\ call'[r].pc # "posting"
  BY <1>1, <1>2 DEF Stops
<1>3. CASE Arrive(r)
  <2>1. call[r].pc = "idle" /\ Turn(r) = Fresh(Offered)
    BY <1>3 DEF Arrive, Turn
  <2>2. Stops(r, load) \/ Moves(r, load)
    BY <1>3, <2>1, LoopStopsOrMoves DEF Arrive
  <2>3. QED
    BY <2>1, <2>2 DEF TakenOff
<1>4. ASSUME NEW slow \in BOOLEAN, ForwardOk(r, slow)
      PROVE  /\ \E l : TakenOff(r, l) /\ (Stops(r, l) \/ Moves(r, l))
             /\ call'[r].pc # "posting"
  BY <1>2, <1>4 DEF ForwardOk, Settles, TakenOff
<1>5. ASSUME NEW why \in Failures, ForwardFails(r, why)
      PROVE  /\ \E l : TakenOff(r, l) /\ (Stops(r, l) \/ Moves(r, l))
             /\ call[r].pc = "posting"
  <2>1. call[r].pc = "posting" /\ Turn(r) = Retrying(call[r])
    BY <1>5 DEF ForwardFails, Settles, Turn
  <2>2. Stops(r, Release(r)) \/ Moves(r, Release(r))
    BY <1>5, <2>1, LoopStopsOrMoves DEF ForwardFails, TotalTimeout
  <2>3. QED
    BY <2>1, <2>2 DEF TakenOff
<1>6. CASE ForwardErrorReturned(r)
  <2>1. /\ call[r].pc = "posting" /\ r \notin Streams
        /\ GiveUp(r, call[r], Release(r), active)
    BY <1>6, ProxyAssumption DEF ForwardErrorReturned, Settles
  <2>2. call' = [call EXCEPT ![r] = Idle] /\ load' = Release(r)
    BY <2>1 DEF GiveUp
  <2>3. QED
    BY <1>2, <2>1, <2>2 DEF TakenOff
<1>7. ASSUME NEW counted \in BOOLEAN, StreamDone(r, counted)
      PROVE  /\ \E l : TakenOff(r, l) /\ (Stops(r, l) \/ Moves(r, l))
             /\ call'[r].pc # "posting"
  BY <1>2, <1>7 DEF StreamDone, Settles, TakenOff
<1>8. CASE StreamFails(r)
  <2> DEFINE twice == Ended(Release(r), call[r].instance, r)
  <2>1. call[r].pc = "posting" /\ Turn(r) = Retrying(call[r])
    BY <1>8 DEF StreamFails, Settles, Turn
  <2>2. Stops(r, twice) \/ Moves(r, twice)
    BY <1>8, <2>1, LoopStopsOrMoves DEF StreamFails
  <2>3. QED
    BY <2>1, <2>2 DEF TakenOff
<1>9. CASE StreamDropped(r)
  <2>1. /\ call' = [call EXCEPT ![r] = Idle]
        /\ load' = IF call[r].pc = "posting" THEN Release(r) ELSE load
    BY <1>9 DEF StreamDropped, Settles
  <2>2. TakenOff(r, load')
    BY <2>1 DEF TakenOff
  <2>3. QED
    BY <1>2, <2>1, <2>2
<1>10. CASE StreamReported(r)
  <2>1. /\ call' = [call EXCEPT ![r] = Idle] /\ load' = load
        /\ call[r].pc = "reporting"
    BY <1>10 DEF StreamReported, routing
  <2>2. QED
    BY <1>2, <2>1 DEF TakenOff
<1>11. QED
  BY <1>3, <1>4, <1>5, <1>6, <1>7, <1>8, <1>9, <1>10 DEF Answer, Reply

\* A step that is not of a call leaves the calls and the loads alone.
LEMMA OthersKeepCallAndLoad ==
  ASSUME TypeOK, [Next]_vars
  PROVE  \/ UNCHANGED <<call, load>>
         \/ \E r \in Requests : Arrive(r) \/ Answer(r)
<1>1. CASE \E i \in Instances : Around(i)
  BY <1>1, AroundKeepsTheRest
<1>2. CASE Drain \/ WaitDrainEnds \/ \E r \in Requests : ArriveRaises(r)
  BY <1>2 DEF Drain, WaitDrainEnds, ArriveRaises, routing
<1>3. CASE UNCHANGED vars
  BY <1>3 DEF vars
<1>4. QED
  BY <1>1, <1>2, <1>3, NextSplits

-----------------------------------------------------------------------------
(* Tiers.                                                                  *)

\* What LocalFirst rests on: a call keeps to the tier its loop started with.
StaysInTier ==
  \A r \in Requests : call[r].pc = "posting" =>
    /\ call[r].available \subseteq FirstTier(call[r].offered)
    /\ call[r].instance \in FirstTier(call[r].offered)

LEMMA StaysInTierNext ==
  TypeOK /\ StaysInTier /\ [Next]_vars => StaysInTier'
<1> SUFFICES ASSUME TypeOK, StaysInTier, [Next]_vars PROVE StaysInTier'
  OBVIOUS
<1>1. CASE UNCHANGED <<call, load>>
  BY <1>1 DEF StaysInTier
<1>2. ASSUME NEW r \in Requests, Arrive(r) \/ Answer(r)
      PROVE  StaysInTier'
  <2>1. call \in [Requests -> Call]
    BY DEF TypeOK
  <2>2. PICK loads : Stops(r, loads) \/ Moves(r, loads)
    BY <1>2, CallsStopOrMove
  <2>3. CASE Stops(r, loads)
    BY <2>1, <2>3 DEF Stops, StaysInTier
  <2>4. CASE Moves(r, loads)
    <3>1. PICK i \in Turn(r).available :
                 call' = [call EXCEPT ![r] = Sent(Turn(r), i)]
      BY <2>4 DEF Moves
    <3>2. CASE call[r].pc = "idle"
      <4>1. Turn(r).available \subseteq FirstTier(Turn(r).offered)
        BY <3>2 DEF Turn, Fresh
      <4>2. QED
        BY <2>1, <3>1, <4>1 DEF StaysInTier, Sent
    <3>3. CASE call[r].pc # "idle"
      <4>1. call[r].pc = "posting"
        BY <2>1, <1>2, <3>1, <3>3, CallsStopOrMove DEF Sent, Call
      <4>2. Turn(r).available \subseteq FirstTier(Turn(r).offered)
        BY <3>3, <4>1 DEF Turn, Retrying, StaysInTier
      <4>3. QED
        BY <2>1, <3>1, <4>2 DEF StaysInTier, Sent
    <3>4. QED
      BY <3>2, <3>3
  <2>5. QED
    BY <2>2, <2>3, <2>4
<1>3. QED
  BY <1>1, <1>2, OthersKeepCallAndLoad

\* A request that was offered a LOCAL instance is never posted to a REMOTE
\* one: retries use up the LOCAL ones and then give up, although README.md
\* describes a fallback.
RemoteMeansNoLocal ==
  \A r \in Requests : call[r].pc = "posting" /\ call[r].instance \notin Local =>
    LocalOf(call[r].offered) = {}

THEOREM NoFallback == Spec => [](StaysInTier /\ RemoteMeansNoLocal)
<1>1. Init => StaysInTier
  BY IdleIsCall DEF Init, StaysInTier
<1>2. Inductive => TypeOK
  BY DEF Inductive
<1>3. StaysInTier => RemoteMeansNoLocal
  BY DEF StaysInTier, RemoteMeansNoLocal, FirstTier, LocalOf
<1>4. QED
  BY <1>1, <1>2, <1>3, StaysInTierNext, InductiveHolds, PTL DEF Spec

\* A request is posted to a REMOTE instance only when it has tried every LOCAL
\* one it was offered, for any tiers, filters and failures.
THEOREM LocalComesFirst == Spec => []LocalFirst
<1>1. RemoteMeansNoLocal => LocalFirst
  BY DEF RemoteMeansNoLocal, LocalFirst
<1>2. QED
  BY <1>1, NoFallback, PTL

-----------------------------------------------------------------------------
(* Where retries end.                                                      *)

\* What is left to a call is its tier without what it has tried before, and
\* a stream goes on only with two instances left.
LeavesOne ==
  \A r \in Requests : call[r].pc = "posting" =>
    LET c == call[r]
    IN  /\ c.available = FirstTier(c.offered) \ (c.tried \ {c.instance})
        /\ r \in Streams /\ c.attempt > 0 => Cardinality(c.available) > 1

LEMMA LeavesOneNext ==
  Inductive /\ LeavesOne /\ [Next]_vars => LeavesOne'
<1> SUFFICES ASSUME Inductive, LeavesOne, [Next]_vars PROVE LeavesOne'
  OBVIOUS
<1>1. TypeOK /\ AttemptsVisitNewInstances /\ call \in [Requests -> Call]
  BY DEF Inductive, TypeOK
<1>2. CASE UNCHANGED <<call, load>>
  BY <1>2 DEF LeavesOne
<1>3. ASSUME NEW r \in Requests, Arrive(r) \/ Answer(r)
      PROVE  LeavesOne'
  <2>1. PICK loads : Stops(r, loads) \/ Moves(r, loads)
    BY <1>1, <1>3, CallsStopOrMove
  <2>2. CASE Stops(r, loads)
    BY <1>1, <2>2 DEF Stops, LeavesOne
  <2>3. CASE Moves(r, loads)
    <3> DEFINE h == Turn(r)
    <3>1. PICK i \in h.available : call' = [call EXCEPT ![r] = Sent(h, i)]
      BY <2>3 DEF Moves
    <3>2. /\ MayDispatch(r, h)
          /\ h.available = FirstTier(h.offered) \ h.tried
          /\ h.available \subseteq Instances
          /\ h.attempt \in Nat
          /\ h.attempt > 0 => h.tried # {}
      <4>1. CASE call[r].pc = "idle"
        <5>1. h = Fresh(Offered) /\ Offered \subseteq Instances
          BY <4>1 DEF Turn, Offered, Candidates
        <5>2. QED
          BY <2>3, <5>1, FirstTierIsOffered DEF Moves, Fresh
      <4>2. CASE call[r].pc # "idle"
        <5>1. call[r].pc = "posting" /\ h = Retrying(call[r])
          BY <1>1, <1>3, <3>1, <4>2, CallsStopOrMove DEF Sent, Call, Turn
        <5>2. /\ call[r].available = FirstTier(call[r].offered) \
                                       (call[r].tried \ {call[r].instance})
              /\ call[r].instance \in call[r].tried
              /\ call[r].available \subseteq Instances /\ call[r].attempt \in Nat
          BY <1>1, <5>1 DEF LeavesOne, AttemptsVisitNewInstances, Call
        <5>3. QED
          BY <2>3, <5>1, <5>2 DEF Moves, Retrying
      <4>3. QED
        BY <4>1, <4>2
    <3> HIDE DEF h
    <3>3. Sent(h, i).available = FirstTier(h.offered) \ ((h.tried \cup {i}) \ {i})
      BY <3>2 DEF Sent
    <3>4. ASSUME r \in Streams, h.attempt > 0 PROVE Cardinality(h.available) > 1
      <4>1. ~(Cardinality(h.available) <= 1)
        BY <3>2, <3>4 DEF MayDispatch, LastOne
      <4>2. Cardinality(h.available) \in Nat
        BY <3>2, FS_Subset, FS_CardinalityType, ProxyAssumption
      <4>3. QED
        BY <4>1, <4>2
    <3>5. QED
      BY <1>1, <3>1, <3>3, <3>4 DEF LeavesOne, Sent
  <2>4. QED
    BY <2>1, <2>2, <2>3
<1>4. QED
  BY <1>1, <1>2, <1>3, OthersKeepCallAndLoad

\* forward_stream gives up when one instance is left and something was tried:
\* however many engines fail, a retried stream never reaches the last one of
\* its tier, so with two there is no retry at all.  forward, which looks at
\* the list it started with, has no such remainder.
StreamsSpareOne ==
  \A r \in Streams : call[r].pc = "posting" /\ call[r].attempt > 0 =>
    \E i \in FirstTier(call[r].offered) : i \notin call[r].tried

THEOREM LastIsNeverStreamed == Spec => []StreamsSpareOne
<1>1. Init => LeavesOne
  BY IdleIsCall DEF Init, LeavesOne
<1>2. Inductive /\ LeavesOne => StreamsSpareOne
  <2>1. SUFFICES ASSUME Inductive, LeavesOne, NEW r \in Streams,
                        call[r].pc = "posting", call[r].attempt > 0
                 PROVE  \E i \in FirstTier(call[r].offered) : i \notin call[r].tried
    BY DEF StreamsSpareOne
  <2>2. /\ call[r].available = FirstTier(call[r].offered) \
                                 (call[r].tried \ {call[r].instance})
        /\ Cardinality(call[r].available) > 1
    BY <2>1 DEF LeavesOne, Requests
  <2>3. \E i \in call[r].available : i # call[r].instance
    <3>1. SUFFICES ASSUME call[r].available \subseteq {call[r].instance}
                   PROVE  FALSE
      OBVIOUS
    <3>2. Cardinality({call[r].instance}) = 1 /\ IsFiniteSet({call[r].instance})
      BY FS_Singleton
    <3>3. /\ Cardinality(call[r].available) <= 1
          /\ Cardinality(call[r].available) \in Nat
      BY <3>1, <3>2, FS_Subset, FS_CardinalityType
    <3>4. QED
      BY <2>2, <3>3
  <2>4. QED
    BY <2>2, <2>3
<1>3. QED
  BY <1>1, <1>2, LeavesOneNext, InductiveHolds, PTL DEF Spec

-----------------------------------------------------------------------------
(* Loads.                                                                  *)

\* Units of load are finitely many, and add up over requests.
LEMMA UnitsAdd ==
  ASSUME NEW S \in SUBSET Requests, NEW r \in Requests, r \notin S
  PROVE  /\ IsFiniteSet(Units(S)) /\ Cardinality(Units(S)) \in Nat
         /\ Cardinality(Units(S \cup {r})) = Cardinality(Units(S)) + Weight[r]
<1> DEFINE own(q) == {q} \X (1 .. Weight[q])
           parts == {own(q) : q \in S}
<1>1. \A q \in Requests : Weight[q] \in Nat
  BY ProxyAssumption
<1>2. \A q \in Requests : IsFiniteSet(own(q)) /\ Cardinality(own(q)) = Weight[q]
  <2>1. TAKE q \in Requests
  <2>2. Weight[q] \in Nat /\ Weight[q] \in Int /\ 1 \in Int
    BY <1>1
  <2>3. /\ IsFiniteSet(1 .. Weight[q])
        /\ Cardinality(1 .. Weight[q]) =
             IF 1 > Weight[q] THEN 0 ELSE Weight[q] - 1 + 1
    BY <2>2, FS_Interval
  <2>4. IsFiniteSet(1 .. Weight[q]) /\ Cardinality(1 .. Weight[q]) = Weight[q]
    BY <2>2, <2>3
  <2>5. IsFiniteSet({q}) /\ Cardinality({q}) = 1
    BY FS_Singleton
  <2>6. IsFiniteSet(own(q)) /\ Cardinality(own(q)) = 1 * Weight[q]
    BY <2>4, <2>5, FS_Product
  <2>7. QED
    BY <1>1, <2>6
<1>3. IsFiniteSet(parts)
  <2> DEFINE part == [q \in S |-> own(q)]
  <2>1. part \in Surjection(S, parts)
    BY DEF Surjection
  <2>2. IsFiniteSet(S)
    BY FS_Subset, ProxyAssumption
  <2>3. QED
    BY <2>1, <2>2, FS_Surjection
<1>4. IsFiniteSet(Units(S))
  <2>1. \A P \in parts : IsFiniteSet(P)
    BY <1>2
  <2>2. IsFiniteSet(UNION parts)
    BY <1>3, <2>1, FS_UNION
  <2>3. QED
    BY <2>2 DEF Units
<1>5. Units(S \cup {r}) = Units(S) \cup own(r)
  BY DEF Units
<1>6. Units(S) \cap own(r) = {}
  BY DEF Units
<1>7. Cardinality(Units(S \cup {r})) =
        Cardinality(Units(S)) + Cardinality(own(r)) - Cardinality({})
  <2> HIDE DEF own
  <2>1. IsFiniteSet(own(r))
    BY <1>2
  <2>2. Cardinality(Units(S) \cup own(r)) =
          Cardinality(Units(S)) + Cardinality(own(r)) - Cardinality(Units(S) \cap own(r))
    BY <1>4, <2>1, FS_Union
  <2>3. QED
    BY <1>5, <1>6, <2>2
<1>8. Cardinality(Units(S)) \in Nat
  BY <1>4, FS_CardinalityType
<1>9. QED
  BY <1>1, <1>2, <1>4, <1>7, <1>8, FS_EmptySet

\* The weight of what is posted to i besides r.
Besides(i, r) == Cardinality(Units(Posting(i) \ {r}))

LEMMA WeightBesides ==
  ASSUME NEW i \in Instances, NEW r \in Requests
  PROVE  /\ Besides(i, r) \in Nat
         /\ InFlightWeight(i) = Besides(i, r) + (IF r \in Posting(i) THEN Weight[r] ELSE 0)
<1>1. /\ Besides(i, r) \in Nat
      /\ Cardinality(Units((Posting(i) \ {r}) \cup {r})) = Besides(i, r) + Weight[r]
  <2>1. Posting(i) \ {r} \in SUBSET Requests /\ r \notin Posting(i) \ {r}
    BY DEF Posting
  <2>2. QED
    BY <2>1, UnitsAdd DEF Besides
<1>2. CASE r \in Posting(i)
  <2>1. (Posting(i) \ {r}) \cup {r} = Posting(i)
    BY <1>2
  <2>2. QED
    BY <1>1, <1>2, <2>1 DEF InFlightWeight
<1>3. CASE r \notin Posting(i)
  <2>1. Posting(i) \ {r} = Posting(i)
    BY <1>3
  <2>2. InFlightWeight(i) = Besides(i, r)
    BY <2>1 DEF Besides, InFlightWeight
  <2>3. QED
    BY <1>1, <1>3, <2>2
<1>4. QED
  BY <1>2, <1>3

\* Once the last attempt of r is taken off, no load exceeds what the others
\* have in flight: the second on_request_end can only take off more.
LEMMA TakenOffFits ==
  ASSUME TypeOK, LoadNeverExceedsInFlight, NEW r \in Requests,
         call[r].pc = "posting" => call[r].instance \in Instances,
         NEW loads, TakenOff(r, loads)
  PROVE  /\ loads \in [Instances -> Nat]
         /\ \A i \in Instances : loads[i] <= Besides(i, r)
<1>1. load \in [Instances -> Nat] /\ Weight[r] \in Nat
  BY ProxyAssumption DEF TypeOK
<1>2. \A i \in Instances : load[i] <= InFlightWeight(i)
  BY DEF LoadNeverExceedsInFlight
<1>3. CASE call[r].pc = "posting"
  <2> DEFINE j == call[r].instance
  <2>1. j \in Instances /\ \A i \in Instances : r \in Posting(i) <=> i = j
    BY <1>3 DEF Posting
  <2>2. /\ Release(r) \in [Instances -> Nat]
        /\ Ended(Release(r), j, r) \in [Instances -> Nat]
    BY <1>1, <2>1, LoadsStayNatural DEF Release
  <2>3. \A i \in Instances : Release(r)[i] <= Besides(i, r)
    <3>1. TAKE i \in Instances
    <3>2. /\ Besides(i, r) \in Nat /\ load[i] \in Nat
          /\ load[i] <= Besides(i, r) + (IF i = j THEN Weight[r] ELSE 0)
      BY <1>1, <1>2, <2>1, WeightBesides
    <3>3. Release(r)[i] = IF i # j THEN load[i]
                          ELSE IF load[i] > Weight[r] THEN load[i] - Weight[r] ELSE 0
      BY <1>1 DEF Release, Ended
    <3>4. QED
      BY <1>1, <3>2, <3>3
  <2>4. \A i \in Instances : Ended(Release(r), j, r)[i] <= Release(r)[i]
    BY <1>1, <2>1, <2>2 DEF Ended
  <2>5. \A i \in Instances : Ended(Release(r), j, r)[i] <= Besides(i, r)
    <3>1. TAKE i \in Instances
    <3>2. /\ Besides(i, r) \in Nat /\ Release(r)[i] \in Nat
          /\ Ended(Release(r), j, r)[i] \in Nat
      BY <2>2, WeightBesides
    <3>3. QED
      BY <2>3, <2>4, <3>2
  <2>6. QED
    BY <1>3, <2>2, <2>3, <2>5 DEF TakenOff
<1>4. CASE call[r].pc # "posting"
  <2>1. \A i \in Instances : r \notin Posting(i)
    BY <1>4 DEF Posting
  <2>2. \A i \in Instances : load[i] <= Besides(i, r)
    BY <1>2, <2>1, WeightBesides
  <2>3. QED
    BY <1>1, <1>4, <2>2 DEF TakenOff
<1>5. QED
  BY <1>3, <1>4

LEMMA LoadFitsNext ==
  Inductive /\ LoadNeverExceedsInFlight /\ [Next]_vars => LoadNeverExceedsInFlight'
<1> SUFFICES ASSUME Inductive, LoadNeverExceedsInFlight, [Next]_vars
             PROVE  LoadNeverExceedsInFlight'
  OBVIOUS
<1>1. TypeOK /\ AttemptsVisitNewInstances
  BY DEF Inductive
<1>2. CASE UNCHANGED <<call, load>>
  BY <1>2 DEF LoadNeverExceedsInFlight, InFlightWeight, Posting
<1>3. ASSUME NEW r \in Requests, Arrive(r) \/ Answer(r), NEW j \in Instances
      PROVE  load'[j] <= InFlightWeight(j)'
  <2>1. call \in [Requests -> Call] /\ Weight[r] \in Nat
    BY <1>1, ProxyAssumption DEF TypeOK
  <2>2. PICK loads : TakenOff(r, loads) /\ (Stops(r, loads) \/ Moves(r, loads))
    BY <1>1, <1>3, CallsStopOrMove
  <2>3. call[r].pc = "posting" => call[r].instance \in Instances
    BY <1>1, RetryingIsAtHead
  <2>4. /\ loads \in [Instances -> Nat]
        /\ \A i \in Instances : loads[i] <= Besides(i, r)
    BY <1>1, <2>2, <2>3, TakenOffFits
  <2>5. Besides(j, r) \in Nat
    BY WeightBesides
  <2>6. CASE Stops(r, loads)
    <3>1. Posting(j)' = Posting(j) \ {r}
      BY <2>1, <2>6 DEF Stops, Posting
    <3>2. InFlightWeight(j)' = Besides(j, r)
      BY <3>1 DEF InFlightWeight, Besides
    <3>3. QED
      BY <2>4, <2>6, <3>2 DEF Stops
  <2>7. CASE Moves(r, loads)
    <3>1. PICK i \in Turn(r).available :
            /\ call' = [call EXCEPT ![r] = Sent(Turn(r), i)]
            /\ load' = Started(loads, i, r)
      BY <2>7 DEF Moves
    <3>2. Posting(j)' = IF i = j THEN (Posting(j) \ {r}) \cup {r} ELSE Posting(j) \ {r}
      BY <2>1, <3>1 DEF Posting, Sent
    <3>3. Posting(j) \ {r} \in SUBSET Requests
      BY DEF Posting
    <3>4. InFlightWeight(j)' = Besides(j, r) + (IF i = j THEN Weight[r] ELSE 0)
      <4>1. CASE i = j
        BY <3>2, <3>3, <4>1, UnitsAdd DEF InFlightWeight, Besides
      <4>2. CASE i # j
        BY <2>5, <3>2, <4>2 DEF InFlightWeight, Besides
      <4>3. QED
        BY <4>1, <4>2
    <3>5. load'[j] = loads[j] + (IF i = j THEN Weight[r] ELSE 0)
      BY <2>1, <2>4, <3>1 DEF Started
    <3>6. QED
      BY <2>1, <2>4, <2>5, <3>4, <3>5
  <2>8. QED
    BY <2>2, <2>6, <2>7
<1>4. QED
  BY <1>1, <1>2, <1>3, OthersKeepCallAndLoad DEF LoadNeverExceedsInFlight

\* No load exceeds the weight of what is posted to its instance, whichever way
\* calls end and however often they are retried: an idle instance has load 0,
\* although forward_stream ends a failed attempt twice.
THEOREM LoadsAreInFlight == Spec => []LoadNeverExceedsInFlight
<1>1. Init => LoadNeverExceedsInFlight
  <2> SUFFICES ASSUME Init, NEW i \in Instances PROVE load[i] <= InFlightWeight(i)
    BY DEF LoadNeverExceedsInFlight
  <2>1. Posting(i) = {} /\ load[i] = 0
    BY IdleIsCall DEF Init, Posting
  <2>2. Cardinality(Units({})) = 0
    <3>1. Units({}) = {}
      BY DEF Units
    <3>2. QED
      BY <3>1, FS_EmptySet
  <2>3. QED
    BY <2>1, <2>2 DEF InFlightWeight
<1>2. QED
  BY <1>1, LoadFitsNext, InductiveHolds, PTL DEF Spec

-----------------------------------------------------------------------------
(* The refinement of DrainGate.                                            *)

LEMMA GateInitially == Init => Gate!GateInit
<1> SUFFICES ASSUME Init PROVE Gate!GateInit
  OBVIOUS
<1>1. InFlight = {}
  BY IdleIsCall DEF Init, InFlight
<1>2. QED
  BY <1>1 DEF Init, Gate!GateInit

\* An arrival that is dispatched enters, an arrival that is refused is a
\* stutter, and so is every step of a call that goes on.
LEMMA GateStep ==
  Inductive /\ [Next]_vars => [Gate!GateNext]_(Gate!gateVars)
<1> SUFFICES ASSUME Inductive, [Next]_vars
             PROVE  [Gate!GateNext]_(Gate!gateVars)
  OBVIOUS
<1>1. /\ TypeOK /\ AttemptsVisitNewInstances /\ ActiveCoversInFlight
      /\ GateAgrees /\ DrainedMeansQuiet
  BY DEF Inductive
<1>2. ASSUME InFlight' = InFlight, shutdown' = shutdown
      PROVE  [Gate!GateNext]_(Gate!gateVars)
  BY <1>2 DEF Gate!gateVars
<1>3. ASSUME NEW r \in Requests, Arrive(r) \/ Answer(r)
      PROVE  [Gate!GateNext]_(Gate!gateVars)
  <2>1. PICK k, count :
          /\ Leaves(r, k, count)
          /\ \/ call[r].pc = "idle" /\ count = active + 1 /\ ~draining
             \/ call[r].pc # "idle" /\ count = active
    BY <1>1, <1>3, ArriveLeaves, AnswerLeaves
  <2>2. InFlight' = IF k.pc = "idle" THEN InFlight \ {r} ELSE InFlight \cup {r}
    BY <1>1, <2>1, CounterKeepsUp
  <2>3. shutdown' = shutdown
    BY <1>1, <1>3, CallsKeepTheRest DEF gate
  <2>4. CASE k.pc = "idle" /\ r \in InFlight
    <3>1. Gate!Leave(r)
      BY <2>2, <2>3, <2>4 DEF Gate!Leave
    <3>2. QED
      BY <3>1 DEF Gate!GateNext
  <2>5. CASE k.pc # "idle" /\ r \notin InFlight
    <3>1. shutdown = "serving"
      BY <1>1, <2>1, <2>5 DEF InFlight, GateAgrees
    <3>2. Gate!Enter(r)
      BY <2>2, <2>3, <2>5, <3>1 DEF Gate!Enter
    <3>3. QED
      BY <3>2 DEF Gate!GateNext
  <2>6. CASE \/ k.pc = "idle" /\ r \notin InFlight
             \/ k.pc # "idle" /\ r \in InFlight
    <3>1. InFlight' = InFlight
      BY <2>2, <2>6
    <3>2. QED
      BY <1>2, <2>3, <3>1
  <2>7. QED
    BY <2>4, <2>5, <2>6
<1>4. ASSUME NEW i \in Instances, Around(i)
      PROVE  [Gate!GateNext]_(Gate!gateVars)
  <2>1. UNCHANGED <<call, gate>>
    BY <1>1, <1>4, AroundKeepsTheRest
  <2>2. InFlight' = InFlight /\ shutdown' = shutdown
    BY <2>1 DEF InFlight, gate
  <2>3. QED
    BY <1>2, <2>2
<1>5. CASE Drain
  <2>1. Inductive'
    BY InductiveNext
  <2>2. InFlight' = InFlight
    BY <1>5 DEF Drain, InFlight
  <2>3. shutdown = "serving" /\ shutdown' \in {"quiet", "waiting"}
    BY <1>5 DEF Drain
  <2>4. shutdown' = "quiet" => InFlight = {}
    BY <2>1, <2>2 DEF Inductive, DrainedMeansQuiet
  <2>5. Gate!Shut
    BY <2>2, <2>3, <2>4 DEF Gate!Shut
  <2>6. QED
    BY <2>5 DEF Gate!GateNext
<1>6. CASE WaitDrainEnds
  <2>1. InFlight' = InFlight
    BY <1>6 DEF WaitDrainEnds, InFlight
  <2>2. shutdown = "waiting" /\ shutdown' = "timed_out"
    BY <1>1, <1>6 DEF WaitDrainEnds, GateAgrees
  <2>3. Gate!Judge
    BY <2>1, <2>2 DEF Gate!Judge
  <2>4. QED
    BY <2>3 DEF Gate!GateNext
<1>7. CASE UNCHANGED vars \/ \E r \in Requests : ArriveRaises(r)
  BY <1>2, <1>7 DEF vars, InFlight, ArriveRaises, gate
<1>8. QED
  BY <1>3, <1>4, <1>5, <1>6, <1>7, NextSplits

\* RoutingProxy with its leaking counter still implements the gate: nobody
\* enters once it is shut, and "quiet" is said only of an empty house.
THEOREM ProxyKeepsGate == Spec => KeepsGate
<1>1. QED
  BY GateInitially, GateStep, InductiveHolds, PTL
  DEF Spec, KeepsGate, Gate!GateSpec
=============================================================================
