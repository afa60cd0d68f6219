# LLM dispatcher: specification, model checking, proofs

The dispatcher (`src/src/dispatcher`) is an OpenAI-compatible gateway in front of several LLM
inference servers. It is one Python process with one asyncio event loop: no threads, so everything
between two `await`s is atomic, and everything across an `await` is not. The specifications are
written at exactly that grain: **an action is what one coroutine does between two awaits.**

Paths below are relative to the repository; `proxy.py` means `src/dispatcher/proxy.py`.

## 1. Inventory

| component | state it keeps | operations | talks to |
|---|---|---|---|
| `RoutingProxy` (`proxy.py`) | `_active_requests`, `_draining`, `_drain_event`, the locals of each running `forward` / `forward_stream` | `forward`, `forward_stream`, `drain`, `wait_drain`, `close` | registry, breakers, balancer, adapters, upstream HTTP |
| `InstanceCircuitBreaker`, its registry (`circuit_breaker.py`) | `_state`, failure, success and probe counts, `_opened_at`; one breaker per id | `allow_request`, `record_success`, `record_failure`, `reset`; `get_or_create`, `remove` | called by proxy and admin API |
| `InstanceRegistry` (`registry.py`) | id → instance with `status` | `register`, `deregister`, `list_*`, `update_status`, `mark_*` | shared by proxy, health checker, admin API, scaler |
| `WeightedBalancer`, `LeastConnections`, `RoundRobin` (`balancer/`) | loads, cooldown, averages; connection counts; index | `select`, `on_request_start/end`, `on_success/failure` | called by the proxy |
| `HealthChecker` (`health.py`) | failure and success counts by id, cycle counter, stop event | `run_forever`, `stop` | writes registry status |
| `DynamicBatcher` (`batcher.py`) | `_buffer`, `_delayed_task`, the futures of the callers | `submit`, `flush` | calls `proxy.forward` |
| `RequestQueue` (`queue.py`) | a bounded heap | `enqueue`, `dequeue` | built by `main.py`, read by the admin API |
| `AutoScaler` (`scaler.py`) | `_last_scale_time`, `_idle_since` | `evaluate`, `record_scale_event` | reads registry, balancer, metrics |
| inference API (`api/inference.py`) | none | the two completion endpoints | calls the proxy; turns its exceptions and answers into replies |
| engine adapters (`engine/`) | none | `build_request`, `parse_response` | called by the proxy, one per engine type |
| admin and health API (`api/`) | none | instances, breaker reset, scaling; `/health`, `/ready` | registry, breakers, scaler, proxy |
| lifespan (`main.py`) | the order of start-up and shutdown | load the file, wire, stop health checks, drain, wait, close | all |
| mock engine (`scripts/mock_engine.py`) | two fault counters | the engine endpoints, `/admin/fail*`, a middleware in front | plays an engine |
| setup script (`scripts/setup_lmstudio.py`) | the locals of one run | list, delete and register instances | calls the admin API, asks LM Studio |
| metrics, configuration, tracing, dashboard, benchmarks | samples, or nothing the scheduling depends on | | |

`main.py` builds a queue, a batcher and a scaler when they are configured, but no endpoint submits
requests to the queue or the batcher. They are components with their own tests and contracts.

**What is hard here.** A request outlives what it was routed by: between its filter and its retry,
breakers open, instances are deregistered, other requests add and remove load. A shutdown decides by
a counter that five exit paths of two coroutines lower, or do not. A probe slot of a half-open
breaker is a resource somebody has to give back. A health check writes its verdict about an
instance that may have been drained, removed or replaced since. A delayed task is cancelled while it
is waiting for the answers of a batch. What a client is told depends on three pieces that never meet
in one test: what the endpoint makes of an exception, what the adapter reads in a body, and what the
engine sent. And the fleet is rebuilt, call by call, by scripts that may run twice, die, or meet a
person who does the same by hand.

**What makes each component correct.**

* *Proxy:* each accepted request ends; no attempt repeats an instance; LOCAL before REMOTE; load
  starts and ends in pairs; a drain that reports success is true; a drain that can succeed does.
* *Breaker:* no more than `half_open_max_calls` probes per episode; nobody refused for ever; only
  probes decide an episode; no dispatch to an open breaker.
* *Health checker:* status follows counts; counts follow the instance itself; DRAINING is final
  until the instance is registered anew; recoveries and failures are noticed; stopping stops.
* *Batcher:* batches are bounded; a request is sent once, and within `max_wait_ms`; each caller gets its
  answer.
* *Endpoints, adapters, engines:* each client gets one reply, a refusal means that nothing was run,
  no engine runs a request twice, what a client is told of an answer is true, nobody is served
  while `/ready` says no.
* *Registry and setup script:* one entry per backend; who creates an ambiguity is told; a script run
  that is not disturbed leaves every model served.
* *Queue:* priority, then arrival order; nothing expired is delivered. *Scaler:* instance limits and
  cooldown are kept. *Balancers:* the pick is one of the candidates; counts match what is in flight.

## 2. Modules

| module | models | kind |
|---|---|---|
| `CircuitBreaker` | one breaker as a value, each method as an operator | component |
| `BreakerProtocol` | one breaker with concurrent callers that report late | component |
| `RoutingProxy` | proxy, with registry, breakers, load and cooldown, and the shutdown | composition |
| `Gateway` | `RoutingProxy` between the inference API and the adapters and engines, mock ones with faults among them | composition |
| `Fleet` | the registry with addresses, models and tiers, admin API, setup script, restart, and the two simple balancers | component |
| `DrainGate` | what a graceful shutdown promises | abstract specification |
| `HealthChecker` | check rounds over the registry's status | component |
| `DynamicBatcher` | submit, delayed task, flush, cancellation | component |
| `RequestQueue` | priority queue with expiry, concurrent consumers with timeouts | component |
| `AutoScaler` | decisions, and an executor that carries them out later | component |
| `MCRoutingProxy`, `MCGateway`, `MCFleet`, `MCRequestQueue` | values for TLC | model checking |
| `BreakerProtocolProofs`, `RoutingProxyProofs`, `HealthCheckerProofs`, `DynamicBatcherProofs`, `RequestQueueProofs`, `AutoScalerProofs`, `GatewayProofs`, `FleetProofs` | | proofs |

`RoutingProxy` and `BreakerProtocol` both extend `CircuitBreaker`: the first is how the program uses
a breaker, the second how the breaker is meant to be used. The two are contrasted on purpose
(section 5). `Gateway` extends `RoutingProxy`: each of its actions that moves the proxy is a conjunction
with one of the proxy's, so its behaviours are behaviours of the proxy (`GatewayIsProxy`), and what is
proved of the proxy holds of the service. The other modules check themselves: their `.cfg` files need no definitions.

Operators that are described as *mutants* in a comment are wrong variants of the definition that
follows them. They are used by nothing in the specification; substituting one for its original must
break the property named in `PROJECT.json`, which shows that the property can fail.

### RoutingProxy

State and code:

| variable | code |
|---|---|
| `status` | `ModelInstance.status` and whether the id is registered; `"absent"` if not |
| `breaker` | `CircuitBreakerRegistry._breakers`; a missing one is `Closed`, as `get_or_create` makes it |
| `load`, `cooling` | `WeightedBalancer._loads`, and the ids whose `_cooldown_until` lies ahead |
| `call[r]` | locals of a running call: `available`, `tried`, `attempt`, `instance`, what the filter offered |
| `active`, `draining`, `drainEvent` | `_active_requests`, `_draining`, `_drain_event` |
| `shutdown` | `"serving"`, then whether the lifespan handler waits, was told quiet, or timed out |

Actions: `Arrive` is a call from its first line to the first await, so it contains the draining
test, the breaker filter (with its side effect on *every* candidate), the tier choice and the first
dispatch. `ForwardOk`, `ForwardFails`, `ForwardErrorReturned`, `StreamDone`, `StreamFails` are an
upstream outcome **and** the next turn of the retry loop, as the code runs both without an await in
between: `on_request_end`, breaker, cooldown, the tests at the head of the loop, and either the next
dispatch (`Dispatch`) or the end of the call (`GiveUp`). `StreamDropped` is the generator closed by a
client that went away; `StreamReported` the client reading the final error lines. `RecoveryElapses`
and `CooldownElapses` are the two clocks. `MarkHealthy`, `MarkUnhealthy`, `Register`, `Deregister`,
`ResetBreaker` are the other tasks, at any time. `Drain` and `WaitDrainEnds` are the shutdown.

`forward` and `forward_stream` differ in details that matter, and the model keeps them: the
single-instance test looks at the list the loop *started* with in `forward` and at what is *left* in
`forward_stream` (`LastOne`); the total retry timeout exists in `forward` only (`TotalTimeout`); a
stream that succeeds or is dropped does not lower `_active_requests`; a failed stream ends its load
twice; `NoAvailableInstanceError` leaves the counter raised, and so does whatever is raised between the
increment and the loop (`ArriveRaises`: `estimated_weight` takes the length of every message's content,
and a message may have none).

Abstracted: which instance has the least score (any of `Pool`), the averages behind it, times (a
timeout may happen whenever its comparison is evaluated), bodies and streamed lines. An upstream
answer is one of the outcomes the code tells apart; a 429 with a JSON body is a success to `forward`,
so it is one here. Not modelled: `close()` and the HTTP client, metrics, tracing attributes, and the
cancellation of `forward` by its caller.

### Gateway

| variable | code |
|---|---|
| `asked[r]` | what client `r` posts: a chat, a chat as a stream, a completion, a completion with `stream` set |
| `reply[r]` | `"unsent"`, `"waiting"`, or what it has been told (below) |
| `answer[r]` | what the engine makes of the attempt under way: code, form of the body, the field with the text |
| `seen[r]` | the engines the request has reached |
| `output[r]` | the engines from which lines of the stream have been relayed |
| `fault[m]` | `_fail_count` and `_fail_until_success` of a mock engine |
| `otherModels` | whether the registry holds a healthy instance of another model, which `/ready` counts and the client's request cannot use |

Replies: `invalid` (422), `unavailable` and `shutting down` (503), `raised` (500), `stop` and `empty` (an
answer with or without text), `error` (a 200 with `finish_reason` "error"), and of streams `ended`, `masked`
(the relayed body was an error), `failed` (the final error lines), `cut` (a 200 and nothing more) and
`gone` (the client left). `Refused` are those that speak of no attempt.

`Post` is an endpoint up to the proxy's first await; `PostInvalid`, `PostRaises` and `PostWhileDraining` are
its early ways out. `EngineReceives` is the adapter's `build_request` and the engine's handler: a mock takes
the path alone into account and asks its fault counters first; a real engine (`Answers`) may serve the
request, with a text, with reasoning only, or with neither, refuse it with a 429, fail with a 500,
answer JSON of another shape (a message that is null), or a page (404). `ForwardAnswered` and
`ForwardBroken` are what `_try_one` makes of that, with the adapter's `parse_response` and the reply:
`FindsText` is where each adapter looks, `ParseFails` its `except` clause, whose status "error"
`forward` retries like a 5xx. `Relay`, `StreamEnds`, `StreamBroken`, `StreamGivesUp`, `ClientLeaves` are the
stream. `SetFailCount`, `SetFailUntilSuccess`, `ResetFail` are the mock's admin endpoints, `HealthProbed`
anybody else who takes a failure from its count. A network failure may come before or after the engine
has seen the request, except a refused connection, which comes before.

Abstracted: texts, headers, keys, token counts (of a stream it matters whether the last line has any:
`CountsTokens`), delays. A client sends one request.

### Fleet

| variable | code |
|---|---|
| `instance`, `order` | `InstanceRegistry._instances` and the order of that dict; `warned` records whether the caller of `POST /admin/instances` was shown a warning |
| `phase`, `old`, `post` | where each run of `setup_instances()` is, what it still has to delete, what to register |
| `missed` | history: the models whose last posting was refused otherwise than by a 409 |
| `strategy`, `counter`, `connections` | `load_balancer.strategy`, `RoundRobinBalancer._counter`, `LeastConnectionsBalancer._active` |
| `routed` | the instance each request is at |
| `disturbed` | history: somebody deleted by hand, the dispatcher was restarted, or a script died while registering |

`Register` is `register()` with its rules (`Refused`: a 409 that changes nothing; `Warns`: the three kinds of
warnings); `PostInstance`, `DeleteInstance`, `MarkInstance` are people and the health checker; `Restart`
forgets everything but the file. A script run lists (`SetupLists`), deletes one by one
(`SetupDeletes`), registers one by one (`SetupPosts`). The middleware or the server may refuse either
call (a 401, a 422, a 5xx), which the script prints and passes over; a call that fails altogether ends the deleting
(`SetupSkipsDeleting`) or the script (`SetupDies`). `Route` is one attempt: `ListByModel`, some of it filtered
out, the first tier of the rest, the balancer's pick; `EndRequest` and `StreamBreaks` are its end, the
latter with the second `on_request_end`. A list that `list_by_model` returns is the set of its members:
`Before` is the order it has them in (the stable sort, by tier and capacity, of the order of the dict),
`IndexIn` an instance's index in it, `FirstFewest` what `min()` returns. Handlers of the admin API have
no await after they have read
the body, so each call is one step.

### BreakerProtocol

`grant[c]` is what a caller holds: nothing, an ordinary call, or a probe of the current half-open
episode. A probe of an episode that is over counts as an ordinary call (`SeenFrom`): its outcome may
still come, and the breaker cannot tell. `Ask`, `Report`, `Reset`, `RecoveryElapses` are
`allow_request`, `record_success/failure`, `reset` and the passing of `recovery_timeout`.

### HealthChecker

`round` is where `run_forever` is, `check[i]` whether a check of `i` is awaiting its answer, and
`"stale"` if what it checks has been deregistered since; its verdict is written all the same, by id.
`failures` and `successes` are the two dictionaries, kept up to their thresholds (the code compares
with `>=` only). `RoundStarts` takes the snapshot and filters DRAINING at that moment; `CheckSucceeds`
and `CheckFails` are the rest of `_check_and_update`, with `mark_healthy`, which changes UNHEALTHY
only, and `mark_unhealthy`, which changes anything. `RoundEnds` is the end of the gather and decides
about deep checks, whose outcome the code ignores. `Stop` is `stop()`; `Shutdown` is the lifespan
handler, which also cancels the task and with it the checks. `Register` (with the status from the
request body), `Deregister` and `StartDraining` (`update_status`) fall in between. `streak` is a
history variable: the failed checks of the *present* registration.

### DynamicBatcher

`batch[t]` is the batch whose gather task `t` awaits; tasks are the `submit()` calls, the delayed
task and one outside caller of `flush()`. `timer` tells the states of `_delayed_task` apart that
`done()` and `cancel()` see. `_flush_lock` is never held over an await, so it never blocks and is not
modelled. `SubmitLast` is a submit that fills the buffer: it cancels the delayed task, whatever that
is doing, and awaits the batch itself. `Abandon` is a caller that cancels its `submit()`. `late` is a history
variable: the requests that came while the delayed task was past its sleep but undone, and for which no
other has been started since. `MaxWaitIsKept` promises the others that they leave the buffer without
any help from later traffic.
The order in the buffer is abstracted, because a batch is sent all at once.

### RequestQueue

`line` is the content of the heap in order of arrival, `age` the time since `enqueue_time` in ticks,
`getters` the sleeping `get()` calls, `pc` and `held` where a consumer is. `Before` is
`QueueItem.__lt__`; two items enqueued at the same reading of the clock are unordered, so either may come
first. `Enqueue` is `enqueue()`, `Dequeue` and `Return` are the two halves of `dequeue()` around its
await: an item is taken in `wait_for`'s task and looked at one turn of the loop later. `Get`, `Resume`,
`WakeNext` and `WokenTooLate` are asyncio's `PriorityQueue` and are marked external. A consumer that is
cancelled while it sleeps behaves like one whose second is over (`TimesOut`).

### AutoScaler

Times are the seconds passed since `_last_scale_time` and `_idle_since`, up to where the comparisons with
the limits no longer change; `demand` is the outcome of comparing queue depth and average load with
the thresholds. `Evaluate` is `evaluate()`, called by an executor (`Decide`) or by the admin endpoint, where
nobody acts on it (`Look`); `CarryOut` is the executor changing the fleet and calling
`record_scale_event()`, any time later; `Manage` is an instance registered or deregistered by somebody
else. There may be several executors, and nothing keeps `evaluate()` from deciding again, for the same or
another one, before the first decision is recorded. The repository has no executor: with `Executors`
empty, `CarryOut` never happens. `calm`, `rest` and `moved` are history variables the properties are
stated with.

## 3. Runs

Passing:

| run | asks |
|---|---|
| `proxy_mixed` | a `forward` and a heavier stream, two LOCAL and one REMOTE, two retries, 5xx handed on, shutdown at any time: a new instance each attempt, tier order, no load without its request, refinement of `DrainGate` |
| `gateway` | one client of any kind, three engines (a mock that speaks Ollama, vLLM, TGI), injected faults, refusals, answers without text or of the wrong shape, a fleet that changes, shutdown at any time: both inductive invariants, refusals that no engine has seen, a quiet shutdown that leaves nobody waiting, nobody dispatched while `/ready` says no, replies that fit the answers, no engine asked twice, and (fairness) everybody answered |
| `fleet` | two runs of the script, a person with a wildcard, restarts, health changes, two streams under each strategy: one entry per backend, models served or owed unless their posting was refused, warnings in either order, no connection that nobody holds |
| `breaker` | slots balance; probes are bounded; nobody is refused for ever |
| `batcher` | bounded batches, single sending, answers lost only with cancelled tasks; no request waits in the buffer for later traffic, but one that came while the delayed task was past its sleep and undone |
| `health` | rounds do not overlap and nothing is written after the end; counts exclude each other; status follows counts for the instance that stays; no step takes DRAINING to HEALTHY, and none takes a draining instance anywhere once its last check is in; recoveries and failures are noticed for good, and `stop()` ends the loop |
| `queue` | no wake-up is lost, no request is handed out twice; a request leaves only returned in time or expired; urgent ones are served |
| `scaler` | timers are honest; the fleet shrinks only after real idleness; two executors that may both hold a decision each space theirs and keep within limits; lasting overload or idleness is answered |

Violations (`proxy_probe_lost`, `proxy_drain_stuck`, `batcher_lost`, `gateway_throttled`): each shows that the code does not do what a document, comment or test of the repository
says (section 5).

**Bounds.** `MaxActive` bounds `_active_requests`, which the leaking paths raise for ever; 3 to 5 is
enough to have two requests in flight and a leaked count at the same time. Two concurrent requests are
enough for each property of a pair (a stale filter, a stolen load, a probe and a late outcome); the
proofs remove the bound where they apply. Three instances are the least with which a second retry
still has a choice, or with which LOCAL can be exhausted by more than one attempt; `MaxRetries` 1 and 2
put the limit both before and after the instances run out. `FailureThreshold` 1 opens breakers within
one request, 2 makes a success reset a count. Streams weigh 2 and forwards 1 where a stolen load must
show. Four callers against two probe slots, or five requests against batches of three, give a full
episode or batch, one late comer and one left over; in a batch of three a second submit joins a first
one without filling it, which is where a timer may be missing. Health thresholds of 2 need several rounds to be
reached. Three queue consumers and four requests allow a sleeper, a woken one and a newcomer at once, with the
line full. Scaler times of 2 ticks and a fleet of up to 4 with limits 1 and 3 put each comparison on
both sides.

In `gateway` three engines are the least with which a stream is retried, and one per adapter; a single
client is enough for every property there, because each is about one client (two clients, and more,
are what the theorems are for). The fleet may lose engines before the client comes, so that it meets
none, and TGI comes and goes later (`LoneNext`); one retry and one counted failure put a fault before
and after the retry. In `fleet` two runs of the script can delete what the other has registered; two
models make a run that has registered one and not the other; the wildcard, an exact entry of the file
and the script's ids on one address give each rule of `register()` its case; two requests are enough for
a connection to be taken away from the other one. `Cycle` is a multiple of every list length that can occur
(at most two in one tier), so counting modulo `Cycle` picks what `_counter` picks. `fleet` uses
symmetry of the runs of the script and of the places for requests: they are alike, and only invariants are
checked there. No other run does, because their instances and requests differ by tier, kind or engine.

**Fairness.** `RoutingProxy!FairSpec`, `Gateway!GatewayFairSpec`: weak fairness of the end of each
attempt in flight. httpx bounds every read by the configured timeout and an answer has a finite length,
so a reply comes. No arrival, no recovery, no choice of outcome is promised; `EveryClientIsAnswered` of
the gateway needs no more, and `HalfOpenIsDecided` is stated under infinitely many arrivals instead.
`BreakerProtocol`: each allowed call is reported, and time passes. `DynamicBatcher`: the sleep ends, a
cancelled task is resumed by the loop, each batch is answered. `HealthChecker`: the interval elapses and
each check has a timeout. `RequestQueue`: the loop runs what is ready and consumers keep asking.
`AutoScaler`: time passes and the executors keep asking and carrying out; no demand and no registration
is promised. Nothing is assumed about who submits, flushes, cancels, registers or stops.

**Deadlock** is checked where the system must go on (breaker, batcher, queue, scaler). The proxy and
the gateway may stop for good after a shutdown, the checker after its loop has ended, and a fleet when
nobody manages it any more, so those runs say `CHECK_DEADLOCK FALSE`.

## 4. Proofs

All theorems are checked by TLAPS for every value of the constants that satisfies the named
assumptions: `BreakerAssumption` (thresholds are positive), `ProxyAssumption` (finitely many instances
and requests, natural weights), `CallersAssumption`, `BatcherAssumption`, `HealthAssumption`,
`QueueAssumption`, `ScalerAssumption`,
`GatewayAssumption` (each instance has one of the three engine types) and
`FleetAssumption` (the script's ids are nobody else's, and differ for different models: the code does not
make sure of either, section 5).

* **RoutingProxy.** `TypeCorrect`, `RetriesAreDistinct`, `DrainIsHonest` follow from `InductiveHolds`.
  `DrainedMeansQuiet` is not inductive by itself: it needs `ActiveCoversInFlight` (the counter may be
  too high, never too low), which needs that each call leaves the loop once, and `GateAgrees` (the
  event is not set behind the waiter's back). `AttemptsVisitNewInstances` needs that `available`
  excludes `tried` after each failure. Each action reduces to three lemmas about the retry loop
  (dispatch, give up, total timeout). `ProxyKeepsGate` is the refinement of `DrainGate`: each step
  enters, leaves, shuts, judges or stutters. `FallbackNeverHappens` shows that the LOCAL → REMOTE
  fallback at the head of the loop is dead code; `NoFallback` adds that nothing else in the code falls
  back either, because a call keeps to the tier its loop started with, and `LocalComesFirst` follows.
  `LoadsAreInFlight` counts: an instance's load is at most the number of units (request, 1),
  (request, 2), ... of the requests at it. A start adds a request with its units, the first end of a
  request takes away all of them, and a second one or a clamp at 0 never raises the load.
  Two theorems state for every instance of the system what section 5 says of it: `WaitingIsInVain` (a
  shutdown that has to wait times out) and `LastIsNeverStreamed` (a stream leaves the last instance of its
  tier untried; its invariant is what `available` is after each failure).
* **Gateway.** `GatewayIsProxy` makes every theorem above one of the service; `GatewayKeepsGate` and
  `GatewayKeepsTiersAndLoads` are instances. `GatewayInductiveHolds` is `Inductive` together with what
  is kept on the clients' side:
  `RefusedMeansUnseen` needs that an engine is reached only by a request that waits
  (`WaitingMeansInFlight`), and that whoever is told "unavailable" was told so before its first attempt;
  `NoEngineRunsItTwice` needs that the engines a request has reached are among those tried
  (`SeenAreTried`), and that the loop sends it to one it has not tried; `RepliesAreTrue` needs that an
  answer under way is one its own engine may give to its own request (`AnswerFits`), and goes through what
  each adapter makes of it and what the retry loop records. `UnreadyServesNobody` shows that what `/ready`
  looks at covers what a dispatch needs, and that a client of a service that does not drain is told
  "unavailable" only if no healthy instance of its model has a breaker that lets it through.
* **Fleet.** `BackendsAreUnique` by induction over registrations. `ScriptsServe` needs `ModelsStayOwed`:
  whenever some run has posted a model, it is served or some run still has to post it, because a
  run that deletes posts later; and an id of the script means its model at LM Studio. Both except the
  models in `missed`, and only those: a refused deletion does no harm.
  `RuleFourIsDead`: rule 1 refuses whatever rule 4 of `register()` would warn of.
  `FleetIsTyped` and `ShadowingIsTold` are about the order of the dict: an id is appended where it was
  not and taken out where it is, so the others keep their order, and a warning stays true of everything
  that came earlier. `ConnectionsAreHeld` needs no strengthening but the types. `IdleIsPreferred` is what
  it is good for: `least_conn` never passes over an instance that serves nobody for one with a
  connection. `TurnsGoRound`: `Before` is a strict total order of the registered, so in a list of n the
  indexes are 0 .. n - 1, one each, and n counts in a row leave every remainder by n once. It is stated
  for a list that stays; with the counter shared by all models no more can be said (section 5).
* **BreakerProtocol.** `SlotsInductive`: in a half-open episode, probes out ≤ slots taken ≤ probes out
  + successes. The left inequality gives `ProbesStayBounded`, the right one `RefusalHasAProbe`: a
  breaker that refuses everybody is waiting for somebody. Late outcomes only add to the right side.
* **DynamicBatcher.** `BatcherInductive`: bounded batches, one place per request, tasks await their
  own batch, and what is in the buffer and not `late` has a sleeping task (`BufferIsTimed`), because a
  task that sleeps is cancelled only by the submit that empties the buffer. `LossIsCancellation` is an action property from it.
* **HealthChecker.** `HealthInductive`, and from it `StatusFollowsCounts`, `ChecksEndWithTheirRound` and
  `DrainingStays`.
* **RequestQueue.** `QueueInductive`: as long as a consumer sleeps, no fewer consumers are woken than
  items are in line. An item that comes wakes one; a woken consumer takes an item or, when its second is
  over, passes the wake-up on; a newcomer takes an item without one, which only helps. Also no item is
  in two places, which needs that a line without repetitions loses exactly the item that is removed.
  `NoRequestIsLost` is an action property from it, by what each half of `dequeue()` does.
  `OneIsAlwaysFirst`: of the most urgent items the oldest, and of those the earliest in line, comes after
  no other, so `Get` covers `get()` in every state although `QueueItem.__lt__` is only a partial order.
* **AutoScaler.** `ScalerInductive`: the idle timer never exceeds the time without load, the cooldown timer
  never exceeds the rest any executor has given, and an executor with a decision has rested since its last
  one. `DownMeansIdle`, `CooldownHolds` and `LimitsHold` are action properties from it.

Only model-checked: all liveness, because fairness and ENABLED are out of the prover's reach
(`EveryClientIsAnswered`, `RefusalEnds`, `MaxWaitIsKept`, `RecoveryIsNoticed`, `FailureIsNoticed`, `StopEnds`,
`UrgentIsServed`, `OverloadIsAnswered`, `IdleFleetShrinks`). Every other property of a passing run is a
theorem. A sum over a set is a fold, and facts about folds need an induction theorem with an operator
parameter: that is why loads are compared with the cardinality of a set of units.

## 5. Where code and documents disagree

| run | what happens |
|---|---|
| `proxy_drain_stuck` | the last request to end does not set `_drain_event`: a shutdown with anything active always runs into its timeout (`WaitingIsInVain`), and a leaked count has the same effect with nothing active |
| `proxy_probe_lost` | the filter takes a half-open slot of an instance the balancer then does not pick; with two or more instances the breaker can stay half-open for ever. `breaker` and `RefusalHasAProbe` show that the breaker is not at fault |
| `batcher_lost` | filling the buffer cancels the batch the delayed task is waiting for; its callers wait for ever |
| `gateway_throttled` | a 429 is parsed, found without text and recorded as a success: the branch that should lower the engine's reliability is never reached |

The models also behave in ways worth knowing that no run is spent on. They are facts about the code that
the properties above are stated around:

* A retry may go to an instance whose breaker has opened since the request was filtered: the filter
  runs once (`proxy.py:154`).
* The fallback from LOCAL to REMOTE after failures (`proxy.py:121`) is dead code, as the theorems
  `FallbackNeverHappens` and `NoFallback` show, although `src/README.md:87` describes it: it asks for the list object the
  loop started with, which every failure replaces.
* `forward_stream` gives up when one instance is left and something was tried (`proxy.py:331`), so the
  last instance is never tried, and a stream with two instances is never retried
  (`LastIsNeverStreamed`).
* A late failure of an ordinary call ends a half-open episode while its probe is out
  (`circuit_breaker.py:128`); `RefusalEnds` shows that this does no lasting harm.
* A request submitted while the delayed task awaits its batch gets no timer (`batcher.py:71`);
  it then waits, past `max_wait_ms`, until somebody submits or flushes. `MaxWaitIsKept` shows that this
  is the only such case, and that the next submit after the task is done ends it.
* `/ready` counts healthy instances of any model (`health.py:57` of the API) and looks at no breaker: a yes
  may be followed by a 503. `UnreadyIsRefused` is what a no and a 503 are worth.
* A message whose content is null (a turn that only calls tools) makes `estimated_weight` raise in `forward`
  after the request was counted in (`proxy.py:77`, `86`): the client gets a 500, and the count is never given
  back, so a later shutdown runs into its timeout.
* A 200 without text is told as an answer with `finish_reason` "stop" and no content; a 404 page or a body
  of another shape is retried and held against the engine.
* Nothing keeps two executors, or one that asks again, from holding two decisions made for the same fleet:
  the cooldown starts when the first is recorded (`scaler.py:123`). `CooldownIsKept` bounds the changes in one
  cooldown by the number of executors.
* An instance registered under a used id inherits failure counts, and the verdict of a check of its
  predecessor (`health.py:189`); `StatusMatchesCounts` is stated for the ids that stay.
* Without instances `evaluate()` returns early (`scaler.py:67`): an empty fleet is never enlarged, and the
  idle timer runs on through whatever demand there is.
* Expired requests keep their place in the queue until a consumer takes them (`queue.py:40`), so a queue
  may be full of requests that will not be served.
* A failed stream calls `on_request_end` in `except` and in `finally` (`proxy.py:392`, `396`), and takes away
  the load, or the connection, of another request, although `tests/test_proxy.py:187` says that the calls
  come in pairs. `LoadNeverExceedsInFlight` and `NeverOvercounted` are the half that holds.
* A check under way when its instance is set to DRAINING may turn it into UNHEALTHY, and the next one
  into HEALTHY (`health.py:192`), although `health.py:4` says that draining instances are skipped.
  `DrainingHolds` shows that nothing else does.
* A stream never looks at the status code (`proxy.py:350`): the body of a 5xx is relayed with a 200, counted
  as a success, and not retried (reply `masked`), although `models.py:141` and `src/README.md:202` speak
  of retries of server errors and of streams.
* A stream that fails after it has relayed lines is retried, and the next engine's lines are appended to
  the first one's (`proxy.py:355`). `NoEngineRunsItTwice` is the half that holds.
* A client of a stream that comes while draining gets a 200 that is cut off, not the 503 of
  `inference.py:72`: a generator raises when it is first asked for a line.
* `/v1/completions` ignores that `stream` was set, but the adapters do not: the engine sends a stream,
  `resp.json()` raises, and a healthy engine is blamed for it (`proxy.py:266`).
* When all attempts of `forward` fail the client gets a 200 with `finish_reason` "error".
* The usage of a stream is never counted: the last line of SSE is empty, that of Ollama has no `usage`. So
  a stream never ends a cooldown.
* `/admin/fail-until-success` of the mock fails every request until the reset, whatever its count
  (`mock_engine.py:438`); health checks use up failures of `/admin/fail`; and the mock has no `/v1/models`, so
  it is never healthy as a vLLM.
* An Ollama stream reaches the client as lines of JSON, although `inference.py:30` promises SSE.
* `model_to_instance_id` keeps the last three parts of a name (`setup_lmstudio.py:103`): two models may get one
  id, the second is then a 409, counts as registered and is not served. `FleetAssumption` excludes it.
* A script that dies between deleting and registering leaves the fleet empty or short
  (`setup_lmstudio.py:138`); a model whose posting is refused (a 401, a 422, a 5xx) is printed as failed and
  passed over, and the script ends as if nothing had happened (`setup_lmstudio.py:145`); a restart forgets every instance that is not in the file.
* The counter of round robin is shared by all models: with requests that alternate between two
  models, an instance may never get its turn.
* `load_from_config` drops the warnings of `register()`; `create_balancer` does not pass on
  `load_balancer.weights`; the factor of the priority is the same for all candidates and so cancels out of
  the score; without `load_balancer.strategy` the balancer is round robin (`main.py:62`), while
  `default.yaml` says weighted.

## 6. Not modelled, and the plan

Not modelled for good: configuration, logging, tracing, authentication, metrics (a log), dashboard,
benchmarks and the other scripts (clients), HTTP clients and their closing, the mock's delays and the two
endpoints of it that no adapter calls.

What is left, in the order of what it would add:

1. `WeightedBalancer`'s score with its averages and the reset of slow instances; the choice is open in
   `RoutingProxy`, so the properties hold for any score, but nothing is said about fairness among
   instances.
2. One registry for `Fleet`, `HealthChecker` and `Gateway` together; the batcher in front of a proxy that
   drains; queue, metrics and scaler together.
3. Theorems: an abstract delivery contract that queue and batcher refine.
4. `close()` and the cancellation of `forward` by its caller.
