---------------------------- MODULE RoutingProxy ----------------------------
(***************************************************************************)
(* RoutingProxy (src/dispatcher/proxy.py) with what it works on: the       *)
(* instance registry, the circuit breaker of each instance, the load and   *)
(* the cooldown kept by WeightedBalancer, and the shutdown sequence of the *)
(* lifespan handler in main.py.                                            *)
(*                                                                         *)
(* The program is one asyncio event loop.  A coroutine gives up the loop   *)
(* only while it awaits the upstream (client.post, client.stream), yields  *)
(* a line to the client, or waits for the drain; an action below is        *)
(* everything that happens between two such points.  So an upstream answer *)
(* and the next dispatch of the retry loop are ONE step.                   *)
(***************************************************************************)
EXTENDS CircuitBreaker, FiniteSets, FiniteSetsExt

CONSTANTS
  Instances,   \* the instances that serve the model being asked for
  Local,       \* those of tier LOCAL; the others are REMOTE
  Managed,     \* those whose health or registration changes during a run
  NoInstance,  \* no instance
  Forwards,    \* places for concurrent calls of forward()
  Streams,     \* places for concurrent calls of forward_stream()
  Weight,      \* estimated_weight of the request in each place
  MaxRetries,  \* routing.max_retries
  RetryOn,     \* the retry_on_* flags that are set
  MaxActive    \* bound on the active-request counter

Requests == Forwards \cup Streams

ASSUME ProxyAssumption ==
  /\ IsFiniteSet(Instances) /\ IsFiniteSet(Requests)
  /\ Local \subseteq Instances /\ Managed \subseteq Instances
  /\ NoInstance \notin Instances
  /\ Forwards \cap Streams = {}
  /\ Weight \in [Requests -> Nat]
  /\ MaxRetries \in Nat
  /\ MaxActive \in Nat

VARIABLES
  status,      \* registry: "healthy", "unhealthy", or "absent"
  breaker,     \* CircuitBreakerRegistry._breakers
  load,        \* WeightedBalancer._loads
  cooling,     \* the instances whose _cooldown_until lies ahead
  call,        \* the local variables of each forward / forward_stream
  active,      \* _active_requests
  draining,    \* _draining
  drainEvent,  \* _drain_event is set
  shutdown     \* how far the lifespan handler's shutdown is

routing == <<status, breaker, load, cooling>>
gate == <<draining, drainEvent, shutdown>>
vars == <<status, breaker, load, cooling, call, active, draining, drainEvent,
          shutdown>>

Call ==
  [pc        : {"idle", "posting", "reporting"},
   offered   : SUBSET Instances,      \* what the breaker filter let through
   available : SUBSET Instances,
   tried     : SUBSET Instances,
   attempt   : Nat,
   instance  : Instances \cup {NoInstance}]

InFlight == {r \in Requests : call[r].pc # "idle"}
Posting(i) == {r \in Requests : call[r].pc = "posting" /\ call[r].instance = i}

-----------------------------------------------------------------------------
(* The parts of forward and forward_stream.                                *)

LocalOf(S) == S \cap Local
RemoteOf(S) == S \ Local
AnyTier(S) == S                                       \* mutant of FirstTier
FirstTier(S) == IF LocalOf(S) # {} THEN LocalOf(S) ELSE RemoteOf(S)

\* The locals of a call that has been offered S and made no attempt yet.
Fresh(S) ==
  [pc |-> "idle", offered |-> S, available |-> FirstTier(S), tried |-> {},
   attempt |-> 0, instance |-> NoInstance]

Idle == Fresh({})

Init ==
  /\ status = [i \in Instances |-> "healthy"]
  /\ breaker = [i \in Instances |-> Closed]
  /\ load = [i \in Instances |-> 0]
  /\ cooling = {}
  /\ call = [r \in Requests |-> Idle]
  /\ active = 0
  /\ draining = FALSE
  /\ drainEvent = FALSE
  /\ shutdown = "serving"

\* list_by_model, then allow_request on every candidate: a filter that
\* changes the breakers it asks, whichever instance is picked afterwards.
CandidatesUnfiltered ==                               \* mutant of Candidates
  {i \in Instances : status[i] # "absent"}
Candidates == {i \in Instances : status[i] = "healthy"}
Offered == {i \in Candidates : Allows(breaker[i])}
AllAsked == [i \in Instances |->
               IF i \in Candidates THEN Asked(breaker[i]) ELSE breaker[i]]

\* "available is local": true of the list object the loop starts with, and of
\* none of the filtered copies that replace it after a failure.
IsFirstList(c) == c.tried = {} /\ c.available = LocalOf(c.offered)

\* The single-instance test: forward looks at the list it started with,
\* forward_stream at what is left of it.
LastOne(r, c) ==
  Cardinality(IF r \in Streams THEN c.available ELSE FirstTier(c.offered)) <= 1

\* The head of the retry loop, LOCAL -> REMOTE: the attempt is spent on it.
FallsBack(r, c) ==
  /\ c.available = {} \/ (r \in Forwards /\ LastOne(r, c) /\ c.tried # {})
  /\ LocalOf(c.offered) # {} /\ RemoteOf(c.offered) # {}
  /\ IsFirstList(c)

Headed(r, c) ==
  IF FallsBack(r, c)
  THEN [c EXCEPT !.available = RemoteOf(c.offered), !.attempt = @ + 1]
  ELSE c

MayDispatch(r, c) ==
  /\ c.attempt <= MaxRetries
  /\ c.available # {}
  /\ ~(LastOne(r, c) /\ c.tried # {})

\* What WeightedBalancer.select picks from: the instances not cooling down,
\* or all of them.  Which one has the least score is left open.
Pool(S, cool) == IF S \ cool # {} THEN S \ cool ELSE S

Started(l, i, r) == [l EXCEPT ![i] = @ + Weight[r]]
EndedBelowZero(l, i, r) == [l EXCEPT ![i] = @ - Weight[r]]  \* mutant of Ended
Ended(l, i, r) ==
  [l EXCEPT ![i] = IF @ > Weight[r] THEN @ - Weight[r] ELSE 0]

\* Mutant of Sent: the instance is not added to tried.
SentUntried(c, i) ==
  [c EXCEPT !.pc = "posting", !.instance = i]
Sent(c, i) ==
  [pc |-> "posting", offered |-> c.offered, available |-> c.available,
   tried |-> c.tried \cup {i}, attempt |-> c.attempt, instance |-> i]

\* Mutants of Retrying: the list is not filtered; the loop does not advance.
RetryingAnywhere(c) == [c EXCEPT !.attempt = @ + 1]
RetryingForever(c) == c

\* One more turn of the loop after a failure.
Retrying(c) ==
  [pc |-> c.pc, offered |-> c.offered, available |-> c.available \ c.tried,
   tried |-> c.tried, attempt |-> c.attempt + 1, instance |-> c.instance]

\* Mutant of GiveUp: a stream is counted out before its error is read.
GiveUpEarly(r, c, loads, count) ==
  /\ load' = loads
  /\ call' = [call EXCEPT ![r] =
                IF r \in Streams THEN [Idle EXCEPT !.pc = "reporting"] ELSE Idle]
  /\ active' = IF c.tried = {} THEN count ELSE count - 1

\* forward_stream returns its error as lines of the stream; forward returns
\* the last response, or raises NoAvailableInstanceError when there is none:
\* that path leaves _active_requests as it is.
GiveUp(r, c, loads, count) ==
  /\ load' = loads
  /\ \/ /\ r \in Streams
        /\ call' = [call EXCEPT ![r] = [Idle EXCEPT !.pc = "reporting"]]
        /\ active' = count
     \/ /\ r \in Forwards
        /\ call' = [call EXCEPT ![r] = Idle]
        /\ active' = IF c.tried = {} THEN count ELSE count - 1

Dispatch(r, c, loads, count, cool) ==
  \E i \in Pool(c.available, cool) :
    /\ call' = [call EXCEPT ![r] = Sent(c, i)]
    /\ load' = Started(loads, i, r)
    /\ active' = count

\* From the head of the loop to the next await.
Loop(r, c, loads, count, cool) ==
  LET h == Headed(r, c)
  IN  \/ MayDispatch(r, h) /\ Dispatch(r, h, loads, count, cool)
      \/ ~MayDispatch(r, h) /\ GiveUp(r, h, loads, count)

\* The total retry timeout is looked at before a retry; only in forward.
TotalTimeout(r, c, loads) ==
  /\ r \in Forwards /\ c.attempt <= MaxRetries
  /\ GiveUp(r, c, loads, active)

-----------------------------------------------------------------------------
(* Requests.                                                               *)

\* Mutant of Arrive: _draining is not looked at.
ArriveUngated(r) ==
  /\ call[r].pc = "idle"
  /\ active < MaxActive
  /\ breaker' = AllAsked
  /\ Loop(r, Fresh(Offered), load, active + 1, cooling)
  /\ UNCHANGED <<status, cooling, gate>>

\* A call is accepted, the candidates are filtered and the first dispatch is
\* made.  The guard on active is the bound MaxActive of the model.
Arrive(r) ==
  /\ ~draining
  /\ call[r].pc = "idle"
  /\ active < MaxActive
  /\ breaker' = AllAsked
  /\ Loop(r, Fresh(Offered), load, active + 1, cooling)
  /\ UNCHANGED <<status, cooling, gate>>

\* A message whose content is null, as in a turn that only calls tools, makes
\* estimated_weight raise after the call was counted in and before the loop:
\* the exception is caught by nobody and the count is not given back.
ArriveRaises(r) ==
  /\ ~draining
  /\ call[r].pc = "idle"
  /\ active < MaxActive
  /\ active' = active + 1
  /\ UNCHANGED <<routing, call, gate>>

Settles(r) == call[r].pc = "posting"

Penalise(i) ==
  /\ breaker' = [breaker EXCEPT ![i] = Failed(@)]
  /\ cooling' = cooling \cup {i}

\* on_request_end, as both kinds of call make it when an attempt is over.
Release(r) == Ended(load, call[r].instance, r)

\* The upstream answered forward with a body the adapter could parse (so a
\* 429 with a JSON body, too).  A slow answer counts against the instance.
ForwardOk(r, slow) ==
  /\ r \in Forwards /\ Settles(r)
  /\ LET i == call[r].instance
     IN  /\ breaker' = [breaker EXCEPT ![i] = Succeeded(@)]
         /\ cooling' = IF slow THEN cooling \cup {i} ELSE cooling \ {i}
  /\ load' = Release(r)
  /\ call' = [call EXCEPT ![r] = Idle]
  /\ active' = active - 1
  /\ UNCHANGED <<status, gate>>

\* The upstream timed out, refused the connection, answered 5xx or failed in
\* another way, and the failure was recorded.
ForwardFails(r, why) ==
  /\ r \in Forwards /\ Settles(r)
  /\ why = "5xx" => why \in RetryOn
  /\ Penalise(call[r].instance)
  /\ LET c == Retrying(call[r])
     IN  \/ why \in RetryOn /\ Loop(r, c, Release(r), active, cooling')
         \/ why \in RetryOn /\ TotalTimeout(r, c, Release(r))
         \/ why \notin RetryOn /\ GiveUp(r, c, Release(r), active)
  /\ UNCHANGED <<status, gate>>

\* With retry_on_5xx off a 5xx is handed to the client and recorded nowhere.
ForwardErrorReturned(r) ==
  /\ r \in Forwards /\ Settles(r)
  /\ "5xx" \notin RetryOn
  /\ GiveUp(r, call[r], Release(r), active)
  /\ UNCHANGED <<status, breaker, cooling, gate>>

\* The upstream's stream came to its end.  Only an answer with a token count
\* ends the cooldown; _active_requests is not decremented on this path.
StreamDone(r, counted) ==
  /\ r \in Streams /\ Settles(r)
  /\ LET i == call[r].instance
     IN  /\ breaker' = [breaker EXCEPT ![i] = Succeeded(@)]
         /\ cooling' = IF counted THEN cooling \ {i} ELSE cooling
  /\ load' = Release(r)
  /\ call' = [call EXCEPT ![r] = Idle]
  /\ UNCHANGED <<status, active, gate>>

\* Mutant of StreamFails: the counter is decremented in the finally clause.
StreamFailsCounted(r) ==
  /\ r \in Streams /\ Settles(r)
  /\ Penalise(call[r].instance)
  /\ Loop(r, Retrying(call[r]), Release(r), active - 1, cooling')
  /\ UNCHANGED <<status, gate>>

\* The stream failed: the except clause calls on_request_end, and the finally
\* clause calls it once more before the loop goes on.
StreamFails(r) ==
  /\ r \in Streams /\ Settles(r)
  /\ Penalise(call[r].instance)
  /\ Loop(r, Retrying(call[r]), Ended(Release(r), call[r].instance, r), active,
          cooling')
  /\ UNCHANGED <<status, gate>>

\* Mutant of StreamDropped: no finally clause.
StreamDroppedSilently(r) ==
  /\ r \in Streams /\ call[r].pc # "idle"
  /\ call' = [call EXCEPT ![r] = Idle]
  /\ UNCHANGED <<routing, active, gate>>

\* The client went away: the generator is closed and only finally runs.
StreamDropped(r) ==
  /\ r \in Streams /\ call[r].pc # "idle"
  /\ load' = IF Settles(r) THEN Release(r) ELSE load
  /\ call' = [call EXCEPT ![r] = Idle]
  /\ UNCHANGED <<status, breaker, cooling, active, gate>>

\* The client has read the lines of the final error.
StreamReported(r) ==
  /\ r \in Streams /\ call[r].pc = "reporting"
  /\ call' = [call EXCEPT ![r] = Idle]
  /\ active' = active - 1
  /\ UNCHANGED <<routing, gate>>

-----------------------------------------------------------------------------
(* The rest of the system, as far as routing can tell.                     *)

RecoveryElapses(i) ==
  /\ breaker[i].state = "open" /\ ~Ripe(breaker[i])
  /\ breaker' = [breaker EXCEPT ![i] = Ripen(@)]
  /\ UNCHANGED <<status, load, cooling, call, active, gate>>

CooldownElapses(i) ==
  /\ i \in cooling
  /\ cooling' = cooling \ {i}
  /\ UNCHANGED <<status, breaker, load, call, active, gate>>

MarkUnhealthy(i) ==
  /\ status[i] = "healthy"
  /\ status' = [status EXCEPT ![i] = "unhealthy"]
  /\ UNCHANGED <<breaker, load, cooling, call, active, gate>>

MarkHealthy(i) ==
  /\ status[i] = "unhealthy"
  /\ status' = [status EXCEPT ![i] = "healthy"]
  /\ UNCHANGED <<breaker, load, cooling, call, active, gate>>

\* The admin API: registration, deregistration, which drops the breaker but
\* neither the load nor the cooldown, and the reset of a breaker.
Register(i) ==
  /\ status[i] = "absent"
  /\ status' = [status EXCEPT ![i] = "healthy"]
  /\ UNCHANGED <<breaker, load, cooling, call, active, gate>>

Deregister(i) ==
  /\ status[i] # "absent"
  /\ status' = [status EXCEPT ![i] = "absent"]
  /\ breaker' = [breaker EXCEPT ![i] = Closed]
  /\ UNCHANGED <<load, cooling, call, active, gate>>

ResetBreaker(i) ==
  /\ breaker' = [breaker EXCEPT ![i] = Closed]
  /\ UNCHANGED <<status, load, cooling, call, active, gate>>

-----------------------------------------------------------------------------
(* Shutdown: drain(), then wait_drain(timeout).                            *)

\* Mutant of Drain: the event is set whether or not requests are active.
DrainAtOnce ==
  /\ shutdown = "serving"
  /\ draining' = TRUE
  /\ drainEvent' = TRUE
  /\ shutdown' = IF active = 0 THEN "quiet" ELSE "waiting"
  /\ UNCHANGED <<routing, call, active>>

\* drain() sets the event, and wait_drain() returns at once, exactly when
\* the counter is 0.
Drain ==
  /\ shutdown = "serving"
  /\ draining' = TRUE
  /\ drainEvent' = (active = 0)
  /\ shutdown' = IF active = 0 THEN "quiet" ELSE "waiting"
  /\ UNCHANGED <<routing, call, active>>

\* wait_for(_drain_event.wait(), timeout) comes to an end.
WaitDrainEnds ==
  /\ shutdown = "waiting"
  /\ shutdown' = IF drainEvent THEN "quiet" ELSE "timed_out"
  /\ UNCHANGED <<routing, call, active, draining, drainEvent>>

-----------------------------------------------------------------------------
Failures == {"timeout", "connection", "5xx", "other"}

Reply(r) ==
  \/ \E slow \in BOOLEAN : ForwardOk(r, slow)
  \/ \E why \in Failures : ForwardFails(r, why)
  \/ ForwardErrorReturned(r)
  \/ \E counted \in BOOLEAN : StreamDone(r, counted)
  \/ StreamFails(r)
  \/ StreamReported(r)

Request(r) == Arrive(r) \/ ArriveRaises(r) \/ Reply(r) \/ StreamDropped(r)

Elapse(i) == RecoveryElapses(i) \/ CooldownElapses(i)

Manage(i) ==
  \/ MarkUnhealthy(i) \/ MarkHealthy(i)
  \/ Register(i) \/ Deregister(i) \/ ResetBreaker(i)

Next ==
  \/ \E r \in Requests : Request(r)
  \/ \E i \in Instances : Elapse(i)
  \/ \E i \in Managed : Manage(i)
  \/ Drain
  \/ WaitDrainEnds

Spec == Init /\ [][Next]_vars

\* Every upstream call ends, and so does the reading of a final error: httpx
\* bounds each read by the timeout and an engine's answer has a finite length.
\* Nothing else is promised: no arrival, no recovery, no change of health.
FairSpec == Spec /\ \A r \in Requests : WF_vars(Reply(r))

-----------------------------------------------------------------------------
(* Properties.                                                             *)

\* Every variable keeps its type; in particular no load falls below 0.
TypeOK ==
  /\ status \in [Instances -> {"healthy", "unhealthy", "absent"}]
  /\ breaker \in [Instances -> Breaker]
  /\ load \in [Instances -> Nat]
  /\ cooling \subseteq Instances
  /\ call \in [Requests -> Call]
  /\ active \in Nat
  /\ draining \in BOOLEAN /\ drainEvent \in BOOLEAN
  /\ shutdown \in {"serving", "waiting", "quiet", "timed_out"}

\* Every attempt of a request goes to an instance it has not tried, among
\* those the filter let through: a request that is being posted has tried as
\* many instances as it has made attempts, and the last one is among them.
AttemptsVisitNewInstances ==
  \A r \in Requests : call[r].pc = "posting" =>
    /\ Cardinality(call[r].tried) = call[r].attempt + 1
    /\ call[r].attempt <= MaxRetries
    /\ call[r].instance \in call[r].tried
    /\ call[r].tried \subseteq call[r].offered
    /\ call[r].available \subseteq call[r].offered

\* _active_requests may count requests that are gone, but misses none that
\* is there, however the paths of forward and forward_stream interleave.
ActiveCoversInFlight == active >= Cardinality(InFlight)

\* wait_drain() returns True only when no request is in flight, and none is
\* let in afterwards.
DrainedMeansQuiet == shutdown = "quiet" => InFlight = {}

\* The drain flag and the event agree with how far the shutdown is: the event
\* is never set while somebody waits for it.
GateAgrees ==
  /\ draining <=> shutdown # "serving"
  /\ shutdown = "waiting" => ~drainEvent

\* What makes the invariants inductive together.  DrainedMeansQuiet rests on
\* the counter, the counter on each call leaving the loop once, and both on
\* the event not being set behind the waiter's back.
Inductive ==
  TypeOK /\ AttemptsVisitNewInstances /\ ActiveCoversInFlight
    /\ GateAgrees /\ DrainedMeansQuiet

\* The whole of it keeps the promise of a graceful shutdown.
Gate == INSTANCE DrainGate WITH
  inside <- InFlight,
  verdict <- IF shutdown = "serving" THEN "open" ELSE shutdown
KeepsGate == Gate!GateSpec

\* on_request_start and on_request_end in pairs would make the load of an
\* instance the weight of what is posted to it.  With forward_stream's second
\* on_request_end it can fall short, but it never exceeds what is in flight:
\* no load outlives its requests, whatever the outcomes, retries included.
\* The weight of a set of requests is the number of units in it.
Units(S) == UNION {{r} \X (1 .. Weight[r]) : r \in S}
InFlightWeight(i) == Cardinality(Units(Posting(i)))
LoadNeverExceedsInFlight == \A i \in Instances : load[i] <= InFlightWeight(i)

\* LOCAL comes first: a request goes to a REMOTE instance only when it has
\* tried every LOCAL one it was offered.
LocalFirst ==
  \A r \in Requests : call[r].pc = "posting" /\ call[r].instance \notin Local =>
    LocalOf(call[r].offered) \subseteq call[r].tried

\* An instance whose breaker went half-open gets a verdict, closed or open
\* again, as long as requests keep being accepted: traffic returns to it.
HalfOpenIsDecided ==
  []<><<\E r \in Requests : Arrive(r)>>_vars =>
    \A i \in Instances :
      breaker[i].state = "half_open" ~> breaker[i].state # "half_open"

\* "Graceful shutdown timed out" is logged of a shutdown that had to leave
\* requests behind.
TimedOutMeansBusy ==
  [][shutdown # "timed_out" /\ shutdown' = "timed_out" => InFlight # {}]_vars
=============================================================================
