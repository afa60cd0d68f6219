--------------------------- MODULE GatewayProofs ---------------------------
(***************************************************************************)
(* What holds of the proxy holds behind its endpoints, and what clients    *)
(* and engines are promised, for any engines, clients and limits.          *)
(***************************************************************************)
EXTENDS Gateway, RoutingProxyProofs

-----------------------------------------------------------------------------
(* The gateway implements the proxy.                                       *)

LEMMA ProgressAnswers ==
  ASSUME NEW r \in Requests, Progress(r) \/ ClientLeaves(r)
  PROVE  Answer(r)
<1> USE DEF Answer, Reply, Failures
<1>1. CASE ForwardAnswered(r)
  BY <1>1 DEF ForwardAnswered
<1>2. CASE ForwardBroken(r)
  BY <1>2 DEF ForwardBroken
<1>3. CASE StreamEnds(r)
  <2>1. CountsTokens(LastLine(answer[r])) \in BOOLEAN
    BY DEF CountsTokens
  <2>2. QED
    BY <1>3, <2>1 DEF StreamEnds
<1>4. CASE StreamBroken(r)
  BY <1>4 DEF StreamBroken
<1>5. CASE StreamGivesUp(r)
  BY <1>5 DEF StreamGivesUp
<1>6. CASE ClientLeaves(r)
  BY <1>6 DEF ClientLeaves
<1>7. QED
  BY <1>1, <1>2, <1>3, <1>4, <1>5, <1>6 DEF Progress

\* Every step of the gateway is a step of the proxy, or leaves it alone.
LEMMA GatewayStepsAreProxySteps == [GatewayNext]_gvars => [Next]_vars
<1> SUFFICES ASSUME [GatewayNext]_gvars PROVE [Next]_vars
  OBVIOUS
<1>1. ASSUME NEW r \in Requests, Post(r) PROVE Next
  BY <1>1 DEF Post, Next, Request
<1>2. ASSUME NEW r \in Requests, Progress(r) \/ ClientLeaves(r) PROVE Next
  BY <1>2, ProgressAnswers DEF Answer, Next, Request
<1>3. ASSUME NEW r \in Requests,
             PostInvalid(r) \/ PostWhileDraining(r) \/ EngineReceives(r) \/ Relay(r)
      PROVE  UNCHANGED vars
  BY <1>3 DEF PostInvalid, PostWhileDraining, EngineReceives, Relay
<1>8. ASSUME NEW r \in Requests, PostRaises(r) PROVE Next
  BY <1>8 DEF PostRaises, Next, Request
<1>4. ASSUME NEW m \in Mocks, Inject(m) PROVE UNCHANGED vars
  BY <1>4 DEF Inject, SetFailCount, SetFailUntilSuccess, ResetFail, HealthProbed
<1>5. CASE Elsewhere
  BY <1>5 DEF Elsewhere, Next
<1>6. CASE OtherModelsChange \/ UNCHANGED gvars
  BY <1>6 DEF OtherModelsChange, gvars
<1>7. QED
  BY <1>1, <1>2, <1>3, <1>4, <1>5, <1>6, <1>8 DEF GatewayNext

\* Behind the endpoints and in front of the engines the proxy does nothing
\* that it would not do alone.
THEOREM GatewayIsProxy == GatewaySpec => Spec
<1>1. GatewayInit => Init
  BY DEF GatewayInit
<1>2. QED
  BY <1>1, GatewayStepsAreProxySteps, PTL DEF GatewaySpec, Spec

\* So the whole service keeps the promise of a graceful shutdown.
THEOREM GatewayKeepsGate == GatewaySpec => KeepsGate
BY GatewayIsProxy, ProxyKeepsGate

\* And it keeps to the tiers and to the loads: what a client asks, and what an
\* engine makes of it, cannot send it to a REMOTE instance early, or leave
\* load behind on an instance.
THEOREM GatewayKeepsTiersAndLoads ==
  GatewaySpec => [](LocalFirst /\ LoadNeverExceedsInFlight)
BY GatewayIsProxy, LocalComesFirst, LoadsAreInFlight, PTL

-----------------------------------------------------------------------------
(* Retries of the proxy, as the engines see them.                          *)

\* What a call has tried when it is posted: one engine more than before.
TriesAnother(r, tried) ==
  call'[r].pc = "posting" =>
    /\ call'[r].instance \notin tried
    /\ call'[r].tried = tried \cup {call'[r].instance}

LEMMA LoopTriesAnother ==
  ASSUME TypeOK, NEW r \in Requests, NEW c, AtHead(c),
         NEW loads, NEW count, NEW cool,
         Loop(r, c, loads, count, cool) \/ GiveUp(r, c, loads, count)
  PROVE  TriesAnother(r, c.tried)
<1>1. call \in [Requests -> Call]
  BY DEF TypeOK
<1>2. CASE MayDispatch(r, c) /\ Dispatch(r, c, loads, count, cool)
  <2>1. PICK i \in Pool(c.available, cool) : call' = [call EXCEPT ![r] = Sent(c, i)]
    BY <1>2 DEF Dispatch
  <2>2. i \notin c.tried
    BY <2>1, PoolIsPart DEF AtHead
  <2>3. call'[r] = Sent(c, i)
    BY <1>1, <2>1
  <2>4. QED
    BY <2>2, <2>3 DEF Sent, TriesAnother
<1>3. CASE GiveUp(r, c, loads, count)
  <2>1. call'[r] = Idle \/ call'[r].pc = "reporting"
    BY <1>1, <1>3, IdleIsCall DEF GiveUp, Call
  <2>2. QED
    BY <2>1, IdleIsCall DEF TriesAnother
<1>4. QED
  BY <1>2, <1>3, FallbackNeverHappens DEF Loop

LEMMA ArriveTriesAnother ==
  ASSUME TypeOK, NEW r \in Requests, Arrive(r)
  PROVE  TriesAnother(r, {})
<1>1. AtHead(Fresh(Offered)) /\ Fresh(Offered).tried = {}
  BY FreshIsAtHead DEF Offered, Candidates, Fresh
<1>2. QED
  BY <1>1, LoopTriesAnother DEF Arrive

LEMMA AnswerTriesAnother ==
  ASSUME TypeOK, AttemptsVisitNewInstances, NEW r \in Requests, Answer(r)
  PROVE  TriesAnother(r, call[r].tried)
<1>1. call \in [Requests -> Call]
  BY DEF TypeOK
<1>2. ASSUME call' = [call EXCEPT ![r] = Idle] PROVE TriesAnother(r, call[r].tried)
  BY <1>1, <1>2, IdleIsCall DEF TriesAnother
<1>3. ASSUME call[r].pc = "posting"
      PROVE  AtHead(Retrying(call[r])) /\ Retrying(call[r]).tried = call[r].tried
  BY <1>3, RetryingIsAtHead DEF Retrying
<1>4. ASSUME NEW why \in Failures, ForwardFails(r, why)
      PROVE  TriesAnother(r, call[r].tried)
  <2>1. call[r].pc = "posting"
    BY <1>4 DEF ForwardFails, Settles
  <2>2. \/ Loop(r, Retrying(call[r]), Release(r), active, cooling')
        \/ GiveUp(r, Retrying(call[r]), Release(r), active)
    BY <1>4 DEF ForwardFails, TotalTimeout
  <2>3. QED
    BY <1>3, <2>1, <2>2, LoopTriesAnother
<1>5. ASSUME StreamFails(r) PROVE TriesAnother(r, call[r].tried)
  BY <1>3, <1>5, LoopTriesAnother DEF StreamFails, Settles
<1>6. ASSUME ForwardErrorReturned(r) PROVE call' = [call EXCEPT ![r] = Idle]
  BY <1>6, ProxyAssumption DEF ForwardErrorReturned, GiveUp
<1>7. QED
  BY <1>2, <1>4, <1>5, <1>6
  DEF Answer, Reply, ForwardOk, StreamDone, StreamDropped, StreamReported

-----------------------------------------------------------------------------
(* The steps of a client's request.                                        *)

\* What a step that moves the proxy leaves behind: the call k, of which the
\* client of r has been told x, after attempts at the engines in tried.
Settled(r, k, x, tried) ==
  /\ call' = [call EXCEPT ![r] = k] /\ k \in Call
  /\ reply' = [reply EXCEPT ![r] = x]
  /\ answer' = [answer EXCEPT ![r] = NoAnswer]
  /\ UNCHANGED <<asked, seen, output, fault, otherModels>>
  /\ x \in Told \cup {"waiting"} /\ (x = "waiting" <=> k.pc # "idle")
  /\ x \in Refused => seen[r] = {}
  /\ k.pc = "posting" =>
       /\ seen[r] \subseteq tried
       /\ k.instance \notin tried /\ k.tried = tried \cup {k.instance}

LEMMA PostSettles ==
  ASSUME Inductive, GatewayInductive, NEW r \in Requests, Post(r)
  PROVE  \E k, x : Settled(r, k, x, {})
<1> USE DEF Inductive, GatewayInductive
<1>1. PICK k : Leaves(r, k, active + 1)
  BY ArriveLeaves DEF Post
<1>2. call \in [Requests -> Call] /\ call'[r] = k /\ k \in Call
  BY <1>1 DEF TypeOK, Leaves
<1>3. TriesAnother(r, {})
  BY ArriveTriesAnother DEF Post
<1>4. seen[r] = {} /\ reply[r] = Unsent
  BY DEF Post, Sends, SeenAreTried
<1>5. call[r].pc = "idle"
  BY ArriveLeaves DEF Post
<1>6. answer[r] = NoAnswer /\ answer \in [Requests -> Body]
  BY <1>5 DEF AnswerFits, GatewayTypeOK
<1>7. answer' = [answer EXCEPT ![r] = NoAnswer]
  BY <1>6 DEF Post
<1>8. Settled(r, k, IF k.pc = "idle" THEN "unavailable" ELSE "waiting", {})
  BY <1>1, <1>2, <1>3, <1>4, <1>7
  DEF Settled, Leaves, TriesAnother, Post, Tell, Told, Refused
<1>9. QED
  BY <1>8

\* The answers an engine gives are bodies, and none is the lack of one.  What
\* is usable of them has a text exactly where the adapter looks for it.
LEMMA AnswersAreBodies ==
  ASSUME NEW i \in Instances, NEW r \in Requests,
         NEW body \in Answers(BuildRequest(Engine[i], r))
  PROVE  /\ body \in Body /\ body # NoAnswer
         /\ Usable(body) => (FindsText(Engine[i], body) <=> HasText(body))
<1>1. Engine[i] \in {"ollama", "vllm", "tgi"}
  BY GatewayAssumption DEF EngineTypes
<1> DEFINE q == BuildRequest(Engine[i], r)
<1>2. CASE body \in {Refusal, NotFound, InjectedFailure}
  <2>1. /\ body \in Body /\ body # NoAnswer
        /\ body.field \in {"error", "none"} /\ (Usable(body) => body.form = "json")
    BY <1>2 DEF Refusal, NotFound, InjectedFailure, Body, NoAnswer, Usable
  <2>2. ~HasText(body)
    BY <2>1 DEF HasText
  <2>3. ~FindsText(Engine[i], body)
    BY <1>1, <2>1 DEF FindsText, OllamaFinds, VLLMFinds, TGIFinds
  <2>4. QED
    BY <2>1, <2>2, <2>3
<1>3. CASE /\ body = Served(q)
           /\ body \in {OllamaStream, SseStream, JsonOf("message"),
                        JsonOf("choices"), JsonOf("generated_text")}
  <2>1. \/ Engine[i] = "ollama" /\ body \in {OllamaStream, JsonOf("message")}
        \/ Engine[i] = "vllm" /\ body \in {SseStream, JsonOf("choices")}
        \/ Engine[i] = "tgi" /\ body = JsonOf("generated_text")
    BY <1>1, <1>3 DEF BuildRequest, Served, OllamaRequest, VLLMRequest, TGIRequest,
       OllamaChat, OpenaiChat, TgiGenerate
  <2>2. body \in Body /\ body # NoAnswer
    BY <1>3 DEF OllamaStream, SseStream, JsonOf, Body, NoAnswer
  <2>3. \/ Engine[i] = "ollama" /\ body.field = "message"
        \/ Engine[i] = "vllm" /\ body.field = "choices"
        \/ Engine[i] = "tgi" /\ body.field = "generated_text"
    BY <2>1 DEF OllamaStream, SseStream, JsonOf
  <2>4. HasText(body)
    BY <2>3 DEF HasText
  <2>5. FindsText(Engine[i], body)
    BY <2>3 DEF FindsText, OllamaFinds, VLLMFinds, TGIFinds
  <2>6. QED
    BY <2>2, <2>4, <2>5
<1>4. CASE \E field \in Odd(q) : body = JsonOf(field)
  <2>1. PICK field : field \in Odd(q) /\ body = JsonOf(field)
    BY <1>4
  <2>2. field \in {"none", "bad"} \/ (Engine[i] = "vllm" /\ field = "reasoning")
    <3>1. q.path = "/v1/chat/completions" => Engine[i] = "vllm"
      BY <1>1 DEF BuildRequest, OllamaRequest, VLLMRequest, TGIRequest
    <3>2. CASE q.path = "/v1/chat/completions"
      BY <2>1, <3>1, <3>2 DEF Odd
    <3>3. CASE q.path # "/v1/chat/completions"
      BY <2>1, <3>3 DEF Odd
    <3>4. QED
      BY <3>2, <3>3
  <2>3. body \in Body /\ body # NoAnswer /\ body.field = field
    BY <2>1, <2>2 DEF JsonOf, Body, NoAnswer
  <2>4. FindsText(Engine[i], body) <=> HasText(body)
    BY <1>1, <2>2, <2>3 DEF HasText, FindsText, OllamaFinds, VLLMFinds, TGIFinds
  <2>5. QED
    BY <2>3, <2>4
<1>5. Served(q) \in {OllamaStream, SseStream, JsonOf("message"),
                     JsonOf("choices"), JsonOf("generated_text")}
  BY <1>1 DEF BuildRequest, Served, OllamaRequest, VLLMRequest, TGIRequest,
     OllamaChat, OpenaiChat, TgiGenerate
<1>6. QED
  BY <1>2, <1>3, <1>4, <1>5 DEF Answers

\* A reply to a request that is in flight, or no change of it.
LEMMA ProgressTells ==
  ASSUME Inductive, GatewayInductive, NEW r \in Requests,
         Progress(r) \/ ClientLeaves(r)
  PROVE  \E x : /\ reply' = [reply EXCEPT ![r] = x]
                /\ x \in (Told \ Refused)
                          \cup {"waiting"}
                /\ x = "waiting" <=> call'[r].pc # "idle"
<1> DEFINE Goal(x) == /\ reply' = [reply EXCEPT ![r] = x]
                      /\ x \in (Told \ Refused)
                                \cup {"waiting"}
                      /\ x = "waiting" <=> call'[r].pc # "idle"
<1>1. /\ call \in [Requests -> Call] /\ reply \in [Requests -> Told \cup {Unsent, "waiting"}]
      /\ answer[r].code \in {200, 404, 429, 500}
  BY DEF Inductive, TypeOK, GatewayInductive, GatewayTypeOK, Body
<1>2. call[r].pc # "idle" => reply[r] = "waiting"
  BY DEF GatewayInductive, WaitingMeansInFlight, InFlight
<1>3. Answer(r)
  BY ProgressAnswers
<1>4. call[r].pc # "idle"
  BY <1>3, AnswerLeaves DEF Inductive
<1>5. ASSUME TellFailure(r) PROVE \E x : Goal(x)
  <2>1. CASE call'[r].pc = "idle"
    <3>1. Tell(r, "error") /\ "error" \in Told \ Refused /\ "error" # "waiting"
      BY <1>5, <2>1 DEF TellFailure, Told, Refused
    <3>2. PICK x : x = "error"
      OBVIOUS
    <3>3. Goal(x)
      BY <2>1, <3>1, <3>2 DEF Tell
    <3> HIDE DEF Goal
    <3>4. QED
      BY <3>3
  <2>2. CASE call'[r].pc # "idle"
    <3>1. Goal("waiting")
      BY <1>1, <1>2, <1>4, <1>5, <2>2 DEF TellFailure
    <3>2. QED
      BY <3>1
  <2>3. QED
    BY <2>1, <2>2
<1>6. ASSUME call' = [call EXCEPT ![r] = Idle],
             NEW x \in {"stop", "empty", "ended", "masked", "failed", "gone"},
             Tell(r, x)
      PROVE  \E y : Goal(y)
  <2>1. call'[r].pc = "idle"
    BY <1>1, <1>6, IdleIsCall
  <2>2. reply' = [reply EXCEPT ![r] = x]
    BY <1>6 DEF Tell
  <2>3. Goal(x)
    BY <2>1, <2>2 DEF Told, Refused
  <2>4. QED
    BY <2>3
<1>7. CASE ForwardAnswered(r)
  <2>1. CASE TellFailure(r)
    BY <1>5, <2>1
  <2>2. CASE \E slow \in BOOLEAN : ForwardOk(r, slow)
    <3>1. call' = [call EXCEPT ![r] = Idle]
      BY <2>2 DEF ForwardOk
    <3>2. Tell(r, "stop") \/ Tell(r, "empty") \/ TellFailure(r)
      BY <1>7 DEF ForwardAnswered
    <3>3. QED
      BY <1>5, <1>6, <3>1, <3>2
  <2>3. QED
    BY <1>7, <2>1, <2>2 DEF ForwardAnswered
<1>8. CASE ForwardBroken(r)
  BY <1>5, <1>8 DEF ForwardBroken
<1>9. CASE StreamEnds(r)
  <2>1. call' = [call EXCEPT ![r] = Idle]
    BY <1>9 DEF StreamEnds, StreamDone
  <2>2. Tell(r, "ended") \/ Tell(r, "empty") \/ Tell(r, "masked")
    BY <1>1, <1>9 DEF StreamEnds
  <2>3. QED
    BY <1>6, <2>1, <2>2
<1>10. CASE StreamBroken(r)
  <2>1. r \in Streams /\ r \notin Forwards
    BY <1>10, ProxyAssumption DEF StreamBroken, StreamFails
  <2>2. call'[r].pc # "idle"
    <3>1. \/ \E i : call' = [call EXCEPT ![r] = Sent(Retrying(call[r]), i)]
          \/ call' = [call EXCEPT ![r] = [Idle EXCEPT !.pc = "reporting"]]
      BY <1>10, <2>1, FallbackNeverHappens
      DEF StreamBroken, StreamFails, Loop, Dispatch, GiveUp
    <3>2. QED
      BY <1>1, <3>1, IdleIsCall DEF Sent, Call
  <2>3. Goal("waiting")
    BY <1>1, <1>2, <1>4, <1>10, <2>2 DEF StreamBroken
  <2>4. QED
    BY <2>3
<1>11. CASE StreamGivesUp(r)
  BY <1>6, <1>11 DEF StreamGivesUp, StreamReported
<1>12. CASE ClientLeaves(r)
  BY <1>6, <1>12 DEF ClientLeaves, StreamDropped
<1>13. QED
  BY <1>7, <1>8, <1>9, <1>10, <1>11, <1>12 DEF Progress

LEMMA ProgressSettles ==
  ASSUME Inductive, GatewayInductive, NEW r \in Requests,
         Progress(r) \/ ClientLeaves(r)
  PROVE  \E k, x : Settled(r, k, x, call[r].tried)
<1>1. Answer(r)
  BY ProgressAnswers
<1>2. PICK k : Leaves(r, k, active)
  BY <1>1, AnswerLeaves DEF Inductive
<1>3. call \in [Requests -> Call] /\ call'[r] = k /\ k \in Call
  BY <1>2 DEF Inductive, TypeOK, Leaves
<1>4. TriesAnother(r, call[r].tried)
  BY <1>1, AnswerTriesAnother DEF Inductive
<1>5. PICK x : /\ reply' = [reply EXCEPT ![r] = x]
               /\ x \in (Told \ Refused)
                         \cup {"waiting"}
               /\ x = "waiting" <=> call'[r].pc # "idle"
  BY ProgressTells
<1>6. answer \in [Requests -> Body]
  BY DEF GatewayInductive, GatewayTypeOK
<1>7. answer' = [answer EXCEPT ![r] = NoAnswer] /\ UNCHANGED <<asked, seen, output, fault, otherModels>>
  <2>1. CASE StreamGivesUp(r)
    <3>1. call[r].pc = "reporting"
      BY <2>1 DEF StreamGivesUp, StreamReported
    <3>2. answer[r] = NoAnswer
      BY <3>1 DEF GatewayInductive, AnswerFits
    <3>3. QED
      BY <1>6, <2>1, <3>2 DEF StreamGivesUp
  <2>2. QED
    BY <2>1 DEF Progress, ForwardAnswered, ForwardBroken, StreamEnds,
                StreamBroken, ClientLeaves, NextAttempt
<1>8. k.pc = "posting" => call[r].pc = "posting"
  <2>1. call[r].pc # "posting" => call' = [call EXCEPT ![r] = Idle]
    BY <1>1 DEF Answer, Reply, ForwardOk, ForwardFails, ForwardErrorReturned,
                StreamDone, StreamFails, StreamDropped, StreamReported, Settles
  <2>2. QED
    BY <1>3, <2>1, IdleIsCall
<1>9. k.pc = "posting" => seen[r] \subseteq call[r].tried
  BY <1>8 DEF GatewayInductive, SeenAreTried
<1>10. Settled(r, k, x, call[r].tried)
  BY <1>2, <1>3, <1>4, <1>5, <1>7, <1>9 DEF Settled, Leaves, TriesAnother, Refused
<1>11. QED
  BY <1>10

-----------------------------------------------------------------------------
(* The invariant of the clients' side.                                     *)

LEMMA SettledKeeps ==
  ASSUME Inductive, GatewayInductive, NEW r \in Requests, NEW k, NEW x, NEW tried,
         Settled(r, k, x, tried)
  PROVE  GatewayInductive'
<1> USE DEF Settled
<1>1. /\ call \in [Requests -> Call] /\ call'[r] = k
      /\ \A q \in Requests \ {r} : call'[q] = call[q]
  BY DEF Inductive, TypeOK
<1>2. /\ reply \in [Requests -> Told \cup {Unsent, "waiting"}] /\ reply'[r] = x
      /\ \A q \in Requests \ {r} : reply'[q] = reply[q]
  BY DEF GatewayInductive, GatewayTypeOK
<1>3. /\ answer \in [Requests -> Body] /\ answer'[r] = NoAnswer /\ NoAnswer \in Body
      /\ \A q \in Requests \ {r} : answer'[q] = answer[q]
  <2>1. NoAnswer \in Body
    BY DEF Body, NoAnswer
  <2>2. answer \in [Requests -> Body] /\ answer' = [answer EXCEPT ![r] = NoAnswer]
    BY DEF GatewayInductive, GatewayTypeOK
  <2>3. QED
    BY <2>1, <2>2
<1>4. GatewayTypeOK'
  BY <1>2, <1>3 DEF GatewayInductive, GatewayTypeOK
<1>5. WaitingMeansInFlight'
  BY <1>1, <1>2 DEF GatewayInductive, WaitingMeansInFlight, InFlight
<1>6. RefusedMeansUnseen'
  BY <1>2 DEF GatewayInductive, RefusedMeansUnseen, Refused
<1>7. AnswerFits'
  BY <1>1, <1>3 DEF GatewayInductive, AnswerFits, BuildRequest, OllamaRequest,
                    VLLMRequest, TGIRequest, Streamed
<1>8. x # Unsent
  BY DEF Told, Refused, Unsent
<1>9. SeenAreTried'
  BY <1>1, <1>2, <1>3, <1>8 DEF GatewayInductive, SeenAreTried
<1>10. QED
  BY <1>4, <1>5, <1>6, <1>7, <1>9 DEF GatewayInductive

\* A request that is turned away without an attempt.
LEMMA TurnedAwayKeeps ==
  ASSUME GatewayInductive, NEW r \in Requests, Sends(r),
         NEW x \in Refused, Tell(r, x),
         UNCHANGED <<call, asked, answer, seen, output, fault, otherModels>>
  PROVE  GatewayInductive'
<1>1. /\ reply \in [Requests -> Told \cup {Unsent, "waiting"}] /\ reply'[r] = x
      /\ \A q \in Requests \ {r} : reply'[q] = reply[q]
      /\ reply[r] = Unsent /\ x \in Told /\ x # "waiting" /\ Unsent # "waiting"
  BY DEF GatewayInductive, GatewayTypeOK, Tell, Told, Refused, Sends, Unsent
<1>2. call' = call
  OBVIOUS
<1>3. GatewayTypeOK'
  BY <1>1 DEF GatewayInductive, GatewayTypeOK, Tell
<1>4. WaitingMeansInFlight'
  BY <1>1, <1>2 DEF GatewayInductive, WaitingMeansInFlight, InFlight
<1>5. seen[r] = {}
  BY <1>1 DEF GatewayInductive, SeenAreTried
<1>6. RefusedMeansUnseen' /\ SeenAreTried'
  BY <1>1, <1>2, <1>5 DEF GatewayInductive, RefusedMeansUnseen, SeenAreTried, Refused
<1>7. AnswerFits'
  BY <1>2 DEF GatewayInductive, AnswerFits, BuildRequest, OllamaRequest,
              VLLMRequest, TGIRequest, Streamed
<1>8. QED
  BY <1>3, <1>4, <1>6, <1>7 DEF GatewayInductive

LEMMA FaultsStayFaults ==
  ASSUME GatewayTypeOK, NEW m \in Mocks
  PROVE  /\ [fault EXCEPT ![m] = Consumed(@)] \in [Mocks -> [left : 0..MaxFaults, stuck : BOOLEAN]]
         /\ \A n \in 0..MaxFaults, b \in BOOLEAN :
              [fault EXCEPT ![m] = [left |-> n, stuck |-> b]]
                \in [Mocks -> [left : 0..MaxFaults, stuck : BOOLEAN]]
         /\ fault[m].left \in 0..MaxFaults /\ fault[m].stuck \in BOOLEAN
<1>1. fault \in [Mocks -> [left : 0..MaxFaults, stuck : BOOLEAN]]
  BY DEF GatewayTypeOK
<1>2. MaxFaults \in Nat
  BY GatewayAssumption
<1>3. ASSUME fault[m].left > 0
      PROVE  [fault[m] EXCEPT !.left = fault[m].left - 1]
               \in [left : 0..MaxFaults, stuck : BOOLEAN]
  <2>1. fault[m].left - 1 \in 0..MaxFaults
    BY <1>1, <1>2, <1>3
  <2>2. QED
    BY <1>1, <2>1
<1>4. Consumed(fault[m]) \in [left : 0..MaxFaults, stuck : BOOLEAN]
  BY <1>1, <1>3 DEF Consumed
<1>5. [fault EXCEPT ![m] = Consumed(@)] \in [Mocks -> [left : 0..MaxFaults, stuck : BOOLEAN]]
  BY <1>1, <1>4
<1>6. QED
  BY <1>1, <1>5

LEMMA ReceivingKeeps ==
  ASSUME Inductive, GatewayInductive, NEW r \in Requests, EngineReceives(r)
  PROVE  GatewayInductive'
<1>1. /\ call \in [Requests -> Call] /\ answer \in [Requests -> Body]
      /\ seen \in [Requests -> SUBSET Instances] /\ call' = call /\ reply' = reply
      /\ call[r].pc = "posting" /\ answer[r] = NoAnswer
  BY DEF Inductive, TypeOK, GatewayInductive, GatewayTypeOK, EngineReceives, vars
<1> DEFINE i == call[r].instance
           possible == Answers(BuildRequest(Engine[i], r))
<1>2. i \in Instances /\ i \in call[r].tried
  BY <1>1, RetryingIsAtHead DEF Inductive, AttemptsVisitNewInstances
<1>3. PICK body \in possible : answer' = [answer EXCEPT ![r] = body]
  BY DEF EngineReceives, Answers
<1>4. body \in Body /\ body # NoAnswer
  BY <1>2, <1>3, AnswersAreBodies
<1>5. fault' \in [Mocks -> [left : 0..MaxFaults, stuck : BOOLEAN]]
  BY FaultsStayFaults DEF EngineReceives, GatewayInductive, GatewayTypeOK
<1>6. seen' = [seen EXCEPT ![r] = @ \cup {i}]
  BY DEF EngineReceives
<1>7. GatewayTypeOK'
  BY <1>1, <1>2, <1>3, <1>4, <1>5, <1>6
  DEF GatewayInductive, GatewayTypeOK, EngineReceives
<1>8. reply[r] = "waiting"
  BY <1>1 DEF GatewayInductive, WaitingMeansInFlight, InFlight
<1>9. WaitingMeansInFlight'
  BY <1>1 DEF GatewayInductive, WaitingMeansInFlight, InFlight
<1>10. RefusedMeansUnseen'
  BY <1>1, <1>6, <1>8 DEF GatewayInductive, RefusedMeansUnseen, Refused
<1>11. AnswerFits'
  <2>1. asked' = asked
    BY DEF EngineReceives
  <2>2. QED
    BY <1>1, <1>3, <2>1 DEF GatewayInductive, AnswerFits, BuildRequest,
       OllamaRequest, VLLMRequest, TGIRequest, Streamed
<1>12. SeenAreTried'
  <2>1. answer'[r] # NoAnswer
    BY <1>1, <1>3, <1>4
  <2>2. \A q \in Requests \ {r} : seen'[q] = seen[q] /\ answer'[q] = answer[q]
    BY <1>1, <1>3, <1>6
  <2>3. seen'[r] = seen[r] \cup {i}
    BY <1>1, <1>6
  <2>4. QED
    BY <1>1, <1>2, <1>8, <2>1, <2>2, <2>3
    DEF GatewayInductive, SeenAreTried, Unsent
<1>13. QED
  BY <1>7, <1>9, <1>10, <1>11, <1>12 DEF GatewayInductive

\* Neither the clients nor the engines are touched, and no call moves.
LEMMA AsideKeeps ==
  ASSUME GatewayInductive, UNCHANGED <<call, asked, reply, answer, seen>>,
         output' \in [Requests -> SUBSET Instances],
         fault' \in [Mocks -> [left : 0..MaxFaults, stuck : BOOLEAN]],
         otherModels' \in BOOLEAN
  PROVE  GatewayInductive'
<1>1. GatewayTypeOK'
  BY DEF GatewayInductive, GatewayTypeOK
<1>2. WaitingMeansInFlight' /\ RefusedMeansUnseen' /\ SeenAreTried'
  BY DEF GatewayInductive, WaitingMeansInFlight, InFlight, RefusedMeansUnseen,
         SeenAreTried
<1>3. AnswerFits'
  BY DEF GatewayInductive, AnswerFits, BuildRequest, OllamaRequest, VLLMRequest,
         TGIRequest, Streamed
<1>4. QED
  BY <1>1, <1>2, <1>3 DEF GatewayInductive

LEMMA GatewayInductiveInit == GatewayInit => GatewayInductive
<1> SUFFICES ASSUME GatewayInit PROVE GatewayInductive
  OBVIOUS
<1>1. \A r \in Requests : call[r] = Idle /\ Idle.pc = "idle"
  BY IdleIsCall DEF GatewayInit, Init
<1>2. NoAnswer \in Body /\ 0 \in 0..MaxFaults
  BY GatewayAssumption DEF NoAnswer, Body
<1>3. GatewayTypeOK
  BY <1>2 DEF GatewayInit, GatewayTypeOK, NoFault
<1>4. WaitingMeansInFlight /\ RefusedMeansUnseen /\ AnswerFits /\ SeenAreTried
  BY <1>1 DEF GatewayInit, WaitingMeansInFlight, RefusedMeansUnseen, AnswerFits,
              SeenAreTried, InFlight, Unsent
<1>5. QED
  BY <1>3, <1>4 DEF GatewayInductive

LEMMA GatewayInductiveNext ==
  Inductive /\ GatewayInductive /\ [GatewayNext]_gvars => GatewayInductive'
<1> SUFFICES ASSUME Inductive, GatewayInductive, [GatewayNext]_gvars
             PROVE  GatewayInductive'
  OBVIOUS
<1>1. /\ output \in [Requests -> SUBSET Instances]
      /\ fault \in [Mocks -> [left : 0..MaxFaults, stuck : BOOLEAN]]
      /\ otherModels \in BOOLEAN
      /\ GatewayTypeOK
  BY DEF GatewayInductive, GatewayTypeOK
<1>2. ASSUME NEW r \in Requests, Post(r) PROVE GatewayInductive'
  BY <1>2, PostSettles, SettledKeeps
<1>3. ASSUME NEW r \in Requests, Progress(r) \/ ClientLeaves(r)
      PROVE  GatewayInductive'
  BY <1>3, ProgressSettles, SettledKeeps
<1>4. ASSUME NEW r \in Requests,
             PostInvalid(r) \/ PostRaises(r) \/ PostWhileDraining(r)
      PROVE  GatewayInductive'
  BY <1>4, TurnedAwayKeeps
  DEF PostInvalid, PostRaises, ArriveRaises, PostWhileDraining, Refused, vars
<1>5. ASSUME NEW r \in Requests, EngineReceives(r) PROVE GatewayInductive'
  BY <1>5, ReceivingKeeps
<1>6. ASSUME NEW r \in Requests, Relay(r) PROVE GatewayInductive'
  <2>1. call[r].instance \in Instances
    BY <1>6, RetryingIsAtHead DEF Relay, UnderWay, Inductive
  <2>2. output' \in [Requests -> SUBSET Instances]
    BY <1>1, <1>6, <2>1 DEF Relay
  <2>3. QED
    BY <1>1, <1>6, <2>2, AsideKeeps DEF Relay, vars
<1>7. ASSUME NEW m \in Mocks, Inject(m) PROVE GatewayInductive'
  <2>1. fault' \in [Mocks -> [left : 0..MaxFaults, stuck : BOOLEAN]]
    <3>1. CASE SetFailCount(m)
      <4>1. PICK n \in 0..MaxFaults : fault' = [fault EXCEPT ![m].left = n]
        BY <3>1 DEF SetFailCount
      <4>2. [fault[m] EXCEPT !.left = n] = [left |-> n, stuck |-> fault[m].stuck]
        BY <1>1
      <4>3. QED
        BY <1>1, <4>1, <4>2, FaultsStayFaults
    <3>2. CASE SetFailUntilSuccess(m)
      BY <1>1, <3>2, GatewayAssumption, FaultsStayFaults DEF SetFailUntilSuccess
    <3>3. CASE ResetFail(m)
      BY <1>1, <3>3, GatewayAssumption, FaultsStayFaults DEF ResetFail, NoFault
    <3>4. CASE HealthProbed(m)
      BY <1>1, <3>4, FaultsStayFaults DEF HealthProbed
    <3>5. QED
      BY <1>7, <3>1, <3>2, <3>3, <3>4 DEF Inject
  <2>2. UNCHANGED <<vars, client, otherModels>>
    BY <1>7 DEF Inject, SetFailCount, SetFailUntilSuccess, ResetFail, HealthProbed
  <2>3. QED
    BY <1>1, <2>1, <2>2, AsideKeeps DEF vars, client
<1>8. CASE Elsewhere
  <2>1. call' = call /\ UNCHANGED <<client, fault, otherModels>>
    BY <1>8 DEF Elsewhere, Elapse, RecoveryElapses, CooldownElapses, Manage,
       MarkUnhealthy, MarkHealthy, Register, Deregister, ResetBreaker, Drain,
       WaitDrainEnds
  <2>2. QED
    BY <1>1, <2>1, AsideKeeps DEF client
<1>9. CASE OtherModelsChange \/ UNCHANGED gvars
  BY <1>1, <1>9, AsideKeeps DEF OtherModelsChange, gvars, vars, client
<1>10. QED
  BY <1>2, <1>3, <1>4, <1>5, <1>6, <1>7, <1>8, <1>9 DEF GatewayNext

-----------------------------------------------------------------------------
(* What clients and engines are promised.                                  *)

\* Clients' replies, engines' answers and the proxy's calls agree in every
\* reachable state.
THEOREM GatewayInductiveHolds == GatewaySpec => [](Inductive /\ GatewayInductive)
<1>1. GatewaySpec => []Inductive
  BY GatewayIsProxy, InductiveHolds
<1>2. QED
  BY <1>1, GatewayInductiveInit, GatewayInductiveNext, PTL DEF GatewaySpec

\* A client waits exactly as long as its call is in the proxy.
THEOREM ClientsAreTold == GatewaySpec => []WaitingMeansInFlight
<1>1. GatewayInductive => WaitingMeansInFlight
  BY DEF GatewayInductive
<1>2. QED
  BY <1>1, GatewayInductiveHolds, PTL

\* No engine has seen the request of a client that was refused.
THEOREM RefusalIsSafe == GatewaySpec => []RefusedMeansUnseen
<1>1. GatewayInductive => RefusedMeansUnseen
  BY DEF GatewayInductive
<1>2. QED
  BY <1>1, GatewayInductiveHolds, PTL

\* A shutdown that reports that all requests completed leaves no client
\* without its reply.
THEOREM NobodyIsLeftWaiting == GatewaySpec => []QuietLeavesNobodyWaiting
<1>1. Inductive /\ GatewayInductive => QuietLeavesNobodyWaiting
  BY DEF Inductive, GatewayInductive, DrainedMeansQuiet, WaitingMeansInFlight,
         QuietLeavesNobodyWaiting
<1>2. QED
  BY <1>1, GatewayInductiveHolds, PTL

\* No engine is made to run a request twice.
THEOREM EnginesRunOnce == GatewaySpec => NoEngineRunsItTwice
<1> DEFINE Step == \A r \in Requests : EngineReceives(r) => call[r].instance \notin seen[r]
<1>1. GatewayInductive => Step
  BY DEF GatewayInductive, SeenAreTried, EngineReceives
<1>2. QED
  BY <1>1, GatewayInductiveHolds, PTL DEF NoEngineRunsItTwice

-----------------------------------------------------------------------------
(* What the reply of a client says of the answer.                          *)

\* The step that brings the client of r an answer.
Fits(r) ==
  /\ Becomes(r, "stop") => Usable(answer[r]) /\ HasText(answer[r])
  /\ Becomes(r, "empty") => Usable(answer[r]) /\ ~HasText(answer[r])
  /\ UnderWay(r) /\ ~Usable(answer[r]) /\ answer'[r] = NoAnswer /\ "5xx" \in RetryOn
       => call[r].instance \in cooling'

\* A step that tells the client neither of a text nor of an empty answer, and
\* leaves the attempt under way or holds it against the engine.
LEMMA TellsNoAnswer ==
  ASSUME GatewayInductive, NEW r \in Requests,
         \/ reply' = reply
         \/ \E q \in Requests : \E x : x \notin {"stop", "empty"} /\ Tell(q, x),
         \/ answer'[r] = answer[r]
         \/ call[r].instance \in cooling'
  PROVE  Fits(r)
<1>1. reply \in [Requests -> Told \cup {Unsent, "waiting"}]
  BY DEF GatewayInductive, GatewayTypeOK
<1>2. ~Becomes(r, "stop") /\ ~Becomes(r, "empty")
  BY <1>1 DEF Becomes, Tell
<1>3. QED
  BY <1>2 DEF Fits, UnderWay

LEMMA FitsStep ==
  Inductive /\ GatewayInductive /\ [GatewayNext]_gvars
    => \A r \in Forwards : Fits(r)
<1> SUFFICES ASSUME Inductive, GatewayInductive, [GatewayNext]_gvars,
                    NEW r \in Forwards
             PROVE  Fits(r)
  OBVIOUS
<1>1. /\ answer \in [Requests -> Body] /\ r \in Requests /\ r \notin Streams
      /\ reply \in [Requests -> Told \cup {Unsent, "waiting"}]
  BY ProxyAssumption DEF GatewayInductive, GatewayTypeOK, Requests
<1>2. ASSUME NEW q \in Requests, NEW why, ForwardFails(q, why)
      PROVE  call[q].instance \in cooling'
  BY <1>2 DEF ForwardFails, Penalise
<1>3. ASSUME NEW q \in Requests, TellFailure(q)
      PROVE  \/ reply' = reply
             \/ \E p \in Requests : \E x : x \notin {"stop", "empty"} /\ Tell(p, x)
  <2>1. "error" \notin {"stop", "empty"}
    OBVIOUS
  <2>2. QED
    BY <1>3, <2>1 DEF TellFailure
<1>4. ASSUME NEW q \in Requests, q # r, NextAttempt(q) PROVE answer'[r] = answer[r]
  BY <1>1, <1>4 DEF NextAttempt
<1>5. ASSUME NEW q \in Requests, ForwardAnswered(q) PROVE Fits(r)
  <2>1. CASE /\ q = r /\ Usable(answer[q])
             /\ Tell(q, IF FindsText(Engine[call[q].instance], answer[q])
                        THEN "stop" ELSE "empty")
    <3>1. /\ answer[r] \in Answers(BuildRequest(Engine[call[r].instance], r))
          /\ call[r].pc = "posting"
      BY <1>5, <2>1 DEF ForwardAnswered, UnderWay, GatewayInductive, AnswerFits
    <3>2. call[r].instance \in Instances
      BY <1>1, <3>1, RetryingIsAtHead DEF Inductive
    <3>3. FindsText(Engine[call[r].instance], answer[r]) <=> HasText(answer[r])
      BY <1>1, <2>1, <3>1, <3>2, AnswersAreBodies
    <3>4. reply'[r] = IF HasText(answer[r]) THEN "stop" ELSE "empty"
      BY <1>1, <2>1, <3>3 DEF Tell
    <3>5. QED
      BY <2>1, <3>4 DEF Fits, Becomes
  <2>2. CASE /\ q # r
             /\ Tell(q, IF FindsText(Engine[call[q].instance], answer[q])
                        THEN "stop" ELSE "empty")
    <3>1. reply'[r] = reply[r] /\ answer'[r] = answer[r]
      BY <1>1, <1>4, <1>5, <2>2 DEF Tell, ForwardAnswered
    <3>2. QED
      BY <3>1 DEF Fits, Becomes, UnderWay
  <2>3. CASE TellFailure(q) /\ ForwardErrorReturned(q)
    <3>1. \/ reply' = reply
          \/ \E p \in Requests : \E x : x \notin {"stop", "empty"} /\ Tell(p, x)
      BY <1>3, <2>3
    <3>2. ~Becomes(r, "stop") /\ ~Becomes(r, "empty")
      BY <1>1, <3>1 DEF Becomes, Tell
    <3>3. QED
      BY <2>3, <3>2 DEF Fits, ForwardErrorReturned
  <2>4. CASE TellFailure(q) /\ \E why : ForwardFails(q, why)
    <3>1. answer'[r] = answer[r] \/ call[r].instance \in cooling'
      BY <1>2, <1>4, <1>5, <2>4 DEF ForwardAnswered
    <3>2. QED
      BY <1>1, <1>3, <2>4, <3>1, TellsNoAnswer
  <2>5. QED
    BY <1>5, <2>1, <2>2, <2>3, <2>4 DEF ForwardAnswered
<1>6. ASSUME NEW q \in Requests, ForwardBroken(q) PROVE Fits(r)
  <2>1. \E why : ForwardFails(q, why)
    BY <1>6 DEF ForwardBroken
  <2>2. answer'[r] = answer[r] \/ call[r].instance \in cooling'
    BY <1>2, <1>4, <1>6, <2>1 DEF ForwardBroken
  <2>3. QED
    BY <1>1, <1>3, <1>6, <2>2, TellsNoAnswer DEF ForwardBroken
<1>7. ASSUME NEW q \in Requests,
             StreamEnds(q) \/ StreamBroken(q) \/ StreamGivesUp(q) \/ ClientLeaves(q)
      PROVE  Fits(r)
  <2>1. q \in Streams
    BY <1>7 DEF StreamEnds, StreamDone, StreamBroken, StreamFails, StreamGivesUp,
       StreamReported, ClientLeaves, StreamDropped
  <2>2. answer'[r] = answer[r]
    BY <1>1, <1>4, <1>7, <2>1
    DEF StreamEnds, StreamBroken, StreamGivesUp, ClientLeaves
  <2>3. \/ reply' = reply
        \/ Tell(q, "ended") \/ Tell(q, "masked") \/ Tell(q, "failed") \/ Tell(q, "gone")
    BY <1>7 DEF StreamEnds, StreamBroken, StreamGivesUp, ClientLeaves
  <2>4. QED
    BY <1>1, <2>2, <2>3, TellsNoAnswer
<1>8. ASSUME NEW q \in Requests,
             \/ Post(q) \/ PostInvalid(q) \/ PostRaises(q) \/ PostWhileDraining(q)
      PROVE  Fits(r)
  <2>1. \/ Tell(q, "unavailable") \/ Tell(q, "waiting") \/ Tell(q, "invalid")
        \/ Tell(q, "cut") \/ Tell(q, "raised") \/ Tell(q, "shutting down")
    BY <1>8 DEF Post, PostInvalid, PostRaises, PostWhileDraining
  <2>2. answer'[r] = answer[r]
    BY <1>8 DEF Post, PostInvalid, PostRaises, PostWhileDraining
  <2>3. QED
    BY <1>1, <2>1, <2>2, TellsNoAnswer
<1>9. ASSUME NEW q \in Requests, EngineReceives(q) PROVE Fits(r)
  <2>1. reply' = reply /\ \E body : answer' = [answer EXCEPT ![q] = body]
    BY <1>9 DEF EngineReceives
  <2>2. q = r => answer[r] = NoAnswer
    BY <1>9 DEF EngineReceives
  <2>3. QED
    BY <1>1, <2>1, <2>2 DEF Fits, Becomes, UnderWay
<1>10. ASSUME reply' = reply, answer' = answer PROVE Fits(r)
  BY <1>1, <1>10, TellsNoAnswer
<1>11. ASSUME NEW q \in Requests, Relay(q) PROVE Fits(r)
  BY <1>10, <1>11 DEF Relay
<1>12. ASSUME NEW m \in Mocks, Inject(m) PROVE Fits(r)
  BY <1>10, <1>12 DEF Inject, SetFailCount, SetFailUntilSuccess, ResetFail,
                      HealthProbed, client
<1>13. CASE Elsewhere \/ OtherModelsChange \/ UNCHANGED gvars
  BY <1>10, <1>13 DEF Elsewhere, OtherModelsChange, gvars, client
<1>14. QED
  BY <1>5, <1>6, <1>7, <1>8, <1>9, <1>11, <1>12, <1>13 DEF GatewayNext, Progress

\* Endpoint, adapter and engine agree where the text of an answer is, and what
\* they cannot use is held against the engine, for any mixture of engine types
\* and any answers, those without text and those that cannot be parsed included.
THEOREM RepliesAreTrue == GatewaySpec => RepliesFitAnswers
<1>1. GatewaySpec => [][\A r \in Forwards : Fits(r)]_gvars
  BY FitsStep, GatewayInductiveHolds, PTL DEF GatewaySpec
<1>2. QED
  BY <1>1 DEF RepliesFitAnswers, Fits

-----------------------------------------------------------------------------
(* What /ready says of the request that follows.                           *)

\* An arrival that is offered an instance is dispatched, and no other is.
LEMMA OfferedIsDispatched ==
  ASSUME TypeOK, NEW r \in Requests, Arrive(r)
  PROVE  call'[r].pc = "posting" <=> Offered # {}
<1> DEFINE c == Fresh(Offered)
<1>1. /\ c.available = FirstTier(Offered) /\ c.tried = {} /\ c.attempt <= MaxRetries
  BY ProxyAssumption DEF Fresh
<1>2. FirstTier(Offered) = {} <=> Offered = {}
  BY DEF FirstTier, LocalOf, RemoteOf
<1>3. Headed(r, c) = c
  BY FallbackNeverHappens
<1>4. call \in [Requests -> Call]
  BY DEF TypeOK
<1>5. CASE Offered # {}
  <2>1. Dispatch(r, c, load, active + 1, cooling)
    BY <1>1, <1>2, <1>3, <1>5 DEF Arrive, Loop, MayDispatch
  <2>2. PICK i : call' = [call EXCEPT ![r] = Sent(c, i)]
    BY <2>1 DEF Dispatch
  <2>3. QED
    BY <1>4, <1>5, <2>2 DEF Sent
<1>6. CASE Offered = {}
  <2>1. GiveUp(r, c, load, active + 1)
    BY <1>1, <1>2, <1>3, <1>6 DEF Arrive, Loop, MayDispatch
  <2>2. call'[r] = Idle \/ call'[r] = [Idle EXCEPT !.pc = "reporting"]
    BY <1>4, <2>1 DEF GiveUp
  <2>3. QED
    BY <1>6, <2>2, IdleIsCall DEF Call
<1>7. QED
  BY <1>5, <1>6

\* The step that takes the request of r, or turns it away.
ReadyTells(r) ==
  reply[r] = Unsent =>
    /\ ~Ready => call'[r].pc # "posting"
    /\ reply'[r] = "unavailable" => Offered = {}

LEMMA ReadyStep ==
  Inductive /\ GatewayInductive /\ [GatewayNext]_gvars
    => \A r \in Requests : ReadyTells(r)
<1> SUFFICES ASSUME Inductive, GatewayInductive, [GatewayNext]_gvars,
                    NEW r \in Requests, reply[r] = Unsent
             PROVE  ReadyTells(r)
  BY DEF ReadyTells
<1>1. /\ reply \in [Requests -> Told \cup {Unsent, "waiting"}]
      /\ TypeOK /\ call \in [Requests -> Call]
  BY DEF GatewayInductive, GatewayTypeOK, Inductive, TypeOK
<1>2. call[r].pc = "idle" /\ Unsent # "unavailable"
  BY DEF GatewayInductive, WaitingMeansInFlight, InFlight, Unsent
<1>3. ASSUME call'[r] = call[r], reply'[r] # "unavailable" PROVE ReadyTells(r)
  BY <1>2, <1>3 DEF ReadyTells
<1>4. ASSUME Post(r) PROVE ReadyTells(r)
  <2>1. ~draining /\ (call'[r].pc = "posting" <=> Offered # {})
    BY <1>1, <1>4, OfferedIsDispatched DEF Post, Arrive
  <2>2. ~Ready => Offered = {}
    BY <2>1 DEF Ready, Offered, Candidates
  <2>3. reply'[r] = "unavailable" => call'[r].pc = "idle"
    BY <1>1, <1>4 DEF Post, Tell
  <2>4. QED
    BY <2>1, <2>2, <2>3 DEF ReadyTells
<1>5. ASSUME NEW q \in Requests, q # r, Post(q) \/ Progress(q) \/ ClientLeaves(q)
      PROVE  ReadyTells(r)
  <2>1. \E k, x : call' = [call EXCEPT ![q] = k] /\ reply' = [reply EXCEPT ![q] = x]
    BY <1>5, PostSettles, ProgressSettles DEF Settled
  <2>2. QED
    BY <1>1, <1>2, <1>3, <1>5, <2>1
<1>6. ASSUME Progress(r) \/ ClientLeaves(r) PROVE ReadyTells(r)
  BY <1>1, <1>2, <1>6, ProgressAnswers, AnswerLeaves DEF Inductive
<1>7. ASSUME NEW q \in Requests,
             \/ PostInvalid(q) \/ PostRaises(q) \/ PostWhileDraining(q)
             \/ EngineReceives(q) \/ Relay(q)
      PROVE  ReadyTells(r)
  <2>1. call' = call
    BY <1>7 DEF PostInvalid, PostRaises, ArriveRaises, PostWhileDraining,
       EngineReceives, Relay, vars
  <2>2. \/ reply' = reply
        \/ Tell(q, "invalid") \/ Tell(q, "raised") \/ Tell(q, "cut")
        \/ Tell(q, "shutting down")
    BY <1>7 DEF PostInvalid, PostRaises, PostWhileDraining, EngineReceives, Relay
  <2>3. reply'[r] # "unavailable"
    BY <1>1, <1>2, <2>2 DEF Tell
  <2>4. QED
    BY <1>3, <2>1, <2>3
<1>8. ASSUME call' = call, reply' = reply PROVE ReadyTells(r)
  BY <1>2, <1>3, <1>8
<1>9. ASSUME NEW m \in Mocks, Inject(m) PROVE ReadyTells(r)
  BY <1>8, <1>9 DEF Inject, SetFailCount, SetFailUntilSuccess, ResetFail,
                    HealthProbed, client, vars
<1>10. CASE Elsewhere
  <2>1. call' = call
    BY <1>10 DEF Elsewhere, Elapse, RecoveryElapses, CooldownElapses, Manage,
       MarkUnhealthy, MarkHealthy, Register, Deregister, ResetBreaker, Drain,
       WaitDrainEnds
  <2>2. QED
    BY <1>8, <1>10, <2>1 DEF Elsewhere, client
<1>11. CASE OtherModelsChange \/ UNCHANGED gvars
  BY <1>8, <1>11 DEF OtherModelsChange, gvars, vars, client
<1>12. QED
  BY <1>4, <1>5, <1>6, <1>7, <1>9, <1>10, <1>11 DEF GatewayNext

\* While /ready says no, no request that is posted gets to an engine; and a
\* client is told "unavailable" only when no instance of its model is there to
\* be tried, for any instances, tiers and breakers.
THEOREM UnreadyServesNobody == GatewaySpec => UnreadyIsRefused
<1>1. GatewaySpec => [][\A r \in Requests : ReadyTells(r)]_gvars
  BY ReadyStep, GatewayInductiveHolds, PTL DEF GatewaySpec
<1>2. QED
  BY <1>1 DEF UnreadyIsRefused, ReadyTells
=============================================================================
