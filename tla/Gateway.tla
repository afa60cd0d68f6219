------------------------------ MODULE Gateway ------------------------------
(***************************************************************************)
(* The service from end to end: the two endpoints of api/inference.py in   *)
(* front of RoutingProxy, and behind it the engine adapters and the        *)
(* engines.  An engine is either scripts/mock_engine.py, with its injected *)
(* faults, or a real one, which may also refuse a request, fail on its     *)
(* own, or answer what has no text or cannot be read.                      *)
(*                                                                         *)
(* What an engine answers decides which step RoutingProxy takes: every     *)
(* action below that moves the proxy is a conjunction with one of its      *)
(* actions.  A client sends one request.  Texts are left out: of a body    *)
(* the model keeps its code, its form and the field that carries the text. *)
(***************************************************************************)
EXTENDS RoutingProxy

CONSTANTS
  Engine,     \* engine_type of each instance
  Mocks,      \* the instances that are mock engines
  MaxFaults   \* bound on the count given to /admin/fail/{count}

EngineTypes == {"ollama", "vllm", "tgi"}

ASSUME GatewayAssumption ==
  /\ Engine \in [Instances -> EngineTypes]
  /\ Mocks \subseteq Instances
  /\ MaxFaults \in Nat

VARIABLES
  asked,   \* what each client posts
  reply,   \* what each client has been told
  answer,  \* what the engine makes of the attempt under way
  seen,    \* the engines the request has reached
  output,  \* the engines a line of the client's stream came from
  fault,   \* the injected faults of each mock engine
  otherModels  \* a healthy instance of some other model is registered

client == <<asked, reply, answer, seen, output>>
gvars == <<vars, client, fault, otherModels>>

\* A chat asks for an answer or for a stream; a completion may set "stream",
\* too, but is always passed to forward.
Kinds == {"chat", "stream", "completion", "streamed completion"}
Unsent == "unsent"
\* Refused: told so without an attempt.  "raised" is a 500, "cut" a stream
\* that ends behind its headers.
Refused == {"invalid", "unavailable", "shutting down", "raised", "cut"}
Told == Refused \cup {"stop", "empty", "error", "ended", "masked", "failed", "gone"}

\* Of a body: "none" of the known fields has a text; "bad" is JSON of another
\* shape than the adapters take apart, such as a message that is null or a
\* list instead of an object; a "page" is no JSON at all.
Body == [code : {200, 404, 429, 500},
         form : {"none", "json", "ndjson", "sse", "page"},
         field : {"none", "message", "choices", "reasoning", "generated_text",
                  "error", "bad"}]
NoAnswer == [code |-> 200, form |-> "none", field |-> "none"]

HasText(body) == body.field \in {"message", "choices", "reasoning", "generated_text"}

-----------------------------------------------------------------------------
(* The mock engine.  The path alone selects the handler, whatever engine   *)
(* type the mock was started as.                                           *)

JsonOf(field) == [code |-> 200, form |-> "json", field |-> field]
OllamaStream == [code |-> 200, form |-> "ndjson", field |-> "message"]
SseStream == [code |-> 200, form |-> "sse", field |-> "choices"]

OllamaChat(stream) == IF stream THEN OllamaStream ELSE JsonOf("message")
OpenaiChat(stream) == IF stream THEN SseStream ELSE JsonOf("choices")
TgiGenerate == JsonOf("generated_text")

Served(q) ==
  CASE q.path = "/api/chat" -> OllamaChat(q.stream)
    [] q.path = "/v1/chat/completions" -> OpenaiChat(q.stream)
    [] q.path = "/generate" -> TgiGenerate

InjectedFailure == [code |-> 500, form |-> "json", field |-> "error"]

\* fault_injection_middleware: a count of failures, or failing until reset.
NoFault == [left |-> 0, stuck |-> FALSE]
Fails(f) == f.left > 0 \/ f.stuck
ConsumedAlways(f) == [f EXCEPT !.left = @ - 1]          \* mutant of Consumed
Consumed(f) == IF f.left > 0 THEN [f EXCEPT !.left = @ - 1] ELSE f

\* What a real engine says of a request it will not serve, or does not know.
Refusal == [code |-> 429, form |-> "json", field |-> "error"]
NotFound == [code |-> 404, form |-> "page", field |-> "none"]

\* A real engine may serve a request without a text, too, or, if it is a
\* thinking model behind the OpenAI path, with nothing but its reasoning.
Odd(q) ==
  IF q.path = "/v1/chat/completions" THEN {"none", "bad", "reasoning"}
                                     ELSE {"none", "bad"}
Answers(q) ==
  {Served(q), Refusal, NotFound, InjectedFailure}
    \cup {JsonOf(field) : field \in IF Served(q).form = "json" THEN Odd(q) ELSE {}}

-----------------------------------------------------------------------------
(* The adapters.                                                           *)

Streamed(r) == asked[r] \in {"stream", "streamed completion"}

OllamaRequest(r) == [path |-> "/api/chat", stream |-> Streamed(r)]
VLLMRequest(r) == [path |-> "/v1/chat/completions", stream |-> Streamed(r)]
TGIRequest(r) == [path |-> "/generate", stream |-> FALSE]   \* no such flag

BuildRequest(engine, r) ==
  CASE engine = "ollama" -> OllamaRequest(r)
    [] engine = "vllm" -> VLLMRequest(r)
    [] engine = "tgi" -> TGIRequest(r)

\* parse_response: whether the text is found where the adapter looks for it.
\* A missing field is read as an empty text, with status "ok"; without content
\* the reasoning is the text.
OllamaFinds(body) == body.field = "message"
VLLMFindsContent(body) == body.field = "choices"        \* mutant of VLLMFinds
VLLMFinds(body) == body.field \in {"choices", "reasoning"}
TGIFinds(body) == body.field = "generated_text"

FindsText(engine, body) ==
  CASE engine = "ollama" -> OllamaFinds(body)
    [] engine = "vllm" -> VLLMFinds(body)
    [] engine = "tgi" -> TGIFinds(body)

\* What each parse_response raises on ends in its except clause.
ParseFails(body) == body.form = "json" /\ body.field = "bad"

\* The last line of a stream is all _parse_stream_usage looks at.  SSE events
\* end with an empty line, after [DONE]; the last object of an Ollama stream
\* and the only one of TGI or of an error have no "usage".
LastLine(body) == IF body.form = "sse" THEN "blank" ELSE "object"
CountsTokens(line) == line = "object with usage"

-----------------------------------------------------------------------------
(* The endpoints.                                                          *)

GatewayInit ==
  /\ Init
  /\ asked \in [Requests -> Kinds \cup {"nothing"}]
  /\ \A r \in Requests : asked[r] # "nothing" =>
       (asked[r] = "stream" <=> r \in Streams)
  /\ reply = [r \in Requests |-> Unsent]
  /\ answer = [r \in Requests |-> NoAnswer]
  /\ seen = [r \in Requests |-> {}]
  /\ output = [r \in Requests |-> {}]
  /\ fault = [m \in Mocks |-> NoFault]
  /\ otherModels \in BOOLEAN

Tell(r, what) == reply' = [reply EXCEPT ![r] = what]

Sends(r) == reply[r] = Unsent /\ asked[r] # "nothing"

\* GET /ready: not draining, and a healthy instance is registered, whatever
\* its model.
Ready ==
  ~draining /\ (otherModels \/ \E i \in Instances : status[i] = "healthy")

\* Mutant of Post: NoAvailableInstanceError is not turned into a reply.
PostUnanswered(r) ==
  /\ Sends(r)
  /\ Arrive(r)
  /\ Tell(r, "waiting")
  /\ UNCHANGED <<asked, answer, seen, output, fault, otherModels>>

\* The handler parses the body and calls the proxy.  forward raises
\* NoAvailableInstanceError if it ends before an attempt: a 503.
Post(r) ==
  /\ Sends(r)
  /\ Arrive(r)
  /\ Tell(r, IF call'[r].pc = "idle" THEN "unavailable" ELSE "waiting")
  /\ UNCHANGED <<asked, answer, seen, output, fault, otherModels>>

\* A body that is no JSON, or does not fit InferenceRequest: a 422.  That of a
\* completion is taken apart outside the try: a 500 if it is no object.
PostInvalid(r) ==
  /\ Sends(r)
  /\ \/ Tell(r, "invalid")
     \/ asked[r] \in {"completion", "streamed completion"} /\ Tell(r, "raised")
  /\ UNCHANGED <<vars, asked, answer, seen, output, fault, otherModels>>

\* What forward raises on the messages is caught by nobody: a 500.
PostRaises(r) ==
  /\ Sends(r)
  /\ ArriveRaises(r)
  /\ Tell(r, IF r \in Streams THEN "cut" ELSE "raised")
  /\ UNCHANGED <<asked, answer, seen, output, fault, otherModels>>

\* DrainInProgressError is a 503 when forward raises it.  forward_stream is a
\* generator: it raises when the 200 and the headers are already out.
PostWhileDraining(r) ==
  /\ Sends(r) /\ draining
  /\ Tell(r, IF r \in Streams THEN "cut" ELSE "shutting down")
  /\ UNCHANGED <<vars, asked, answer, seen, output, fault, otherModels>>

-----------------------------------------------------------------------------
(* An attempt, from the engine to the client.                              *)

UnderWay(r) == call[r].pc = "posting" /\ answer[r] # NoAnswer
NextAttempt(r) == answer' = [answer EXCEPT ![r] = NoAnswer]

\* The request reaches the engine, which settles what it will answer.
EngineReceives(r) ==
  /\ call[r].pc = "posting" /\ answer[r] = NoAnswer
  /\ LET i == call[r].instance
         request == BuildRequest(Engine[i], r)
     IN  /\ seen' = [seen EXCEPT ![r] = @ \cup {i}]
         /\ \/ /\ i \in Mocks
               /\ answer' = [answer EXCEPT ![r] =
                               IF Fails(fault[i]) THEN InjectedFailure
                                                  ELSE Served(request)]
               /\ fault' = [fault EXCEPT ![i] = Consumed(@)]
            \/ /\ i \notin Mocks
               /\ \E body \in Answers(request) :
                    answer' = [answer EXCEPT ![r] = body]
               /\ UNCHANGED fault
  /\ UNCHANGED <<vars, asked, reply, output, otherModels>>

\* Mutant of TellFailure: the last failure is reported as a 503.
TellUnavailable(r) ==
  IF call'[r].pc = "idle" THEN Tell(r, "unavailable") ELSE UNCHANGED reply

\* What the client of forward is told when an attempt has failed: nothing as
\* long as the loop goes on, then finish_reason "error" with a 200.
TellFailure(r) == IF call'[r].pc = "idle" THEN Tell(r, "error") ELSE UNCHANGED reply

\* A body below 500 that is JSON of the expected shape is an answer, text or
\* not.  On one that is not JSON (a page, or the stream of a completion that
\* asked for one) resp.json() raises.
StatusIsError(body) == body.code >= 500 \/ ParseFails(body)
Usable(body) == body.form = "json" /\ ~StatusIsError(body)

\* The answer reaches forward: what the adapter could not parse is an error
\* like a 5xx, retried if those are.
ForwardAnswered(r) ==
  /\ r \in Forwards /\ UnderWay(r)
  /\ \/ /\ Usable(answer[r])
        /\ \E slow \in BOOLEAN : ForwardOk(r, slow)
        /\ Tell(r, IF FindsText(Engine[call[r].instance], answer[r])
                   THEN "stop" ELSE "empty")
     \/ /\ answer[r].code < 500 /\ answer[r].form # "json"
        /\ ForwardFails(r, "other")
        /\ TellFailure(r)
     \/ /\ StatusIsError(answer[r])
        /\ ForwardFails(r, "5xx") \/ ForwardErrorReturned(r)
        /\ TellFailure(r)
  /\ NextAttempt(r)
  /\ UNCHANGED <<asked, seen, output, fault, otherModels>>

\* The network fails forward: no connection, no answer in time, or a broken
\* one.  A refused connection is one the engine has not seen.
ForwardBroken(r) ==
  /\ \/ ForwardFails(r, "timeout") \/ ForwardFails(r, "other")
     \/ answer[r] = NoAnswer /\ ForwardFails(r, "connection")
  /\ TellFailure(r)
  /\ NextAttempt(r)
  /\ UNCHANGED <<asked, seen, output, fault, otherModels>>

\* forward_stream hands on the lines of whatever body it gets.
Relay(r) ==
  /\ r \in Streams /\ UnderWay(r)
  /\ call[r].instance \notin output[r]
  /\ output' = [output EXCEPT ![r] = @ \cup {call[r].instance}]
  /\ UNCHANGED <<vars, asked, reply, answer, seen, fault, otherModels>>

\* The end of the body is a success, whatever its code was.
StreamEnds(r) ==
  /\ UnderWay(r) /\ call[r].instance \in output[r]
  /\ StreamDone(r, CountsTokens(LastLine(answer[r])))
  /\ Tell(r, IF answer[r].code = 200 THEN "ended" ELSE "masked")
  /\ NextAttempt(r)
  /\ UNCHANGED <<asked, seen, output, fault, otherModels>>

\* Lines that were relayed before stay with the client.
StreamBroken(r) ==
  /\ StreamFails(r)
  /\ NextAttempt(r)
  /\ UNCHANGED <<asked, reply, seen, output, fault, otherModels>>

StreamGivesUp(r) ==
  /\ StreamReported(r)
  /\ Tell(r, "failed")
  /\ UNCHANGED <<asked, answer, seen, output, fault, otherModels>>

ClientLeaves(r) ==
  /\ StreamDropped(r)
  /\ Tell(r, "gone")
  /\ NextAttempt(r)
  /\ UNCHANGED <<asked, seen, output, fault, otherModels>>

-----------------------------------------------------------------------------
(* The mock's admin endpoints and everybody else who asks it something.    *)

SetFailCount(m) ==
  /\ \E count \in 0..MaxFaults : fault' = [fault EXCEPT ![m].left = count]
  /\ UNCHANGED <<vars, client, otherModels>>

\* The count given is not used: any value makes every request fail until the
\* reset, because nothing counts successes.
SetFailUntilSuccess(m) ==
  /\ fault' = [fault EXCEPT ![m] = [left |-> 0, stuck |-> TRUE]]
  /\ UNCHANGED <<vars, client, otherModels>>

ResetFail(m) ==
  /\ fault' = [fault EXCEPT ![m] = NoFault]
  /\ UNCHANGED <<vars, client, otherModels>>

\* A health check takes a failure from the count like any request.
HealthProbed(m) ==
  /\ fault' = [fault EXCEPT ![m] = Consumed(@)]
  /\ UNCHANGED <<vars, client, otherModels>>

Inject(m) ==
  SetFailCount(m) \/ SetFailUntilSuccess(m) \/ ResetFail(m) \/ HealthProbed(m)

Elsewhere ==
  /\ \/ \E i \in Instances : Elapse(i)
     \/ \E i \in Managed : Manage(i)
     \/ Drain
     \/ WaitDrainEnds
  /\ UNCHANGED <<client, fault, otherModels>>

\* An instance of another model comes, goes, recovers or falls ill.
OtherModelsChange ==
  /\ otherModels' = ~otherModels
  /\ UNCHANGED <<vars, client, fault>>

Progress(r) ==
  \/ ForwardAnswered(r) \/ ForwardBroken(r)
  \/ StreamEnds(r) \/ StreamBroken(r) \/ StreamGivesUp(r)

GatewayNext ==
  \/ \E r \in Requests :
       \/ Post(r) \/ PostInvalid(r) \/ PostRaises(r) \/ PostWhileDraining(r)
       \/ EngineReceives(r) \/ Relay(r) \/ Progress(r) \/ ClientLeaves(r)
  \/ \E m \in Mocks : Inject(m)
  \/ Elsewhere
  \/ OtherModelsChange

GatewaySpec == GatewayInit /\ [][GatewayNext]_gvars

\* As for the proxy: an upstream call comes to an end.  That a line is relayed
\* or an engine answers is not promised, a timeout ends the call as well.
GatewayFairSpec ==
  GatewaySpec /\ \A r \in Requests : WF_gvars(Progress(r))

-----------------------------------------------------------------------------
(* Properties.                                                             *)

GatewayTypeOK ==
  /\ asked \in [Requests -> Kinds \cup {"nothing"}]
  /\ reply \in [Requests -> Told \cup {Unsent, "waiting"}]
  /\ answer \in [Requests -> Body]
  /\ seen \in [Requests -> SUBSET Instances]
  /\ output \in [Requests -> SUBSET Instances]
  /\ fault \in [Mocks -> [left : 0..MaxFaults, stuck : BOOLEAN]]
  /\ otherModels \in BOOLEAN

\* A client that was refused (422, 500, 503, or a stream cut off behind its
\* headers) may send its request again without fear: no engine has seen it.
RefusedMeansUnseen ==
  \A r \in Requests : reply[r] \in Refused => seen[r] = {}

\* A client waits exactly as long as its call is in the proxy: no path out of
\* forward or forward_stream leaves the client without a reply.
WaitingMeansInFlight ==
  \A r \in Requests : reply[r] = "waiting" <=> r \in InFlight

\* What an engine has made of the attempt under way is what that engine makes
\* of that client's request, and nothing is left of an attempt that is over.
AnswerFits ==
  \A r \in Requests : answer[r] # NoAnswer =>
    /\ call[r].pc = "posting"
    /\ answer[r] \in Answers(BuildRequest(Engine[call[r].instance], r))

\* The engines a request has reached are among those the proxy has tried, and
\* the one it is being sent to is new to it.
SeenAreTried ==
  \A r \in Requests :
    /\ reply[r] = Unsent => seen[r] = {}
    /\ call[r].pc = "posting" =>
         /\ seen[r] \subseteq call[r].tried
         /\ answer[r] = NoAnswer => call[r].instance \notin seen[r]

\* What the clients' side keeps, on top of what the proxy keeps.
GatewayInductive ==
  GatewayTypeOK /\ WaitingMeansInFlight /\ RefusedMeansUnseen
    /\ AnswerFits /\ SeenAreTried

\* Whom /ready keeps away would not have been served: while it says no, no
\* request that is posted gets to an engine.  A yes promises less, it may be
\* owed to another model: but as long as the service does not drain, a client
\* is told "unavailable" only if every healthy instance of its own model has
\* a breaker that refuses.
UnreadyIsRefused ==
  [][\A r \in Requests : reply[r] = Unsent =>
       /\ ~Ready => call'[r].pc # "posting"
       /\ reply'[r] = "unavailable" => Offered = {}]_gvars

Becomes(r, what) == reply[r] # what /\ reply'[r] = what

\* "All in-flight requests completed" is logged of a shutdown that leaves no
\* client without its reply.
QuietLeavesNobodyWaiting ==
  shutdown = "quiet" => \A r \in Requests : reply[r] # "waiting"

\* Whatever engine answers, after whatever retries, the client of forward is
\* told of a text exactly if the answer has one, and of an empty answer only
\* if it could be read and has none.  An answer that could not be used is held
\* against the engine, where the retry flags let it be recorded.
RepliesFitAnswers ==
  [][\A r \in Forwards :
       /\ Becomes(r, "stop") => Usable(answer[r]) /\ HasText(answer[r])
       /\ Becomes(r, "empty") => Usable(answer[r]) /\ ~HasText(answer[r])
       /\ UnderWay(r) /\ ~Usable(answer[r]) /\ answer'[r] = NoAnswer
            /\ "5xx" \in RetryOn
          => call[r].instance \in cooling']_gvars

\* No engine is made to run the same request twice, through retries, failures
\* in the middle of a stream and changes of the fleet.
NoEngineRunsItTwice ==
  [][\A r \in Requests : EngineReceives(r) => call[r].instance \notin seen[r]]_gvars

\* Every client is told something in the end.
EveryClientIsAnswered ==
  \A r \in Requests : reply[r] = "waiting" ~> reply[r] # "waiting"

\* README: "429" lowers the reliability of the engine.  An engine that answered
\* with a 429 is held back for a while when the answer has been taken.
ErrorsCountAgainstTheEngine ==
  [][\A r \in Requests :
       UnderWay(r) /\ answer[r] = Refusal /\ reply'[r] # "gone"
         /\ answer'[r] = NoAnswer
       => call[r].instance \in cooling']_gvars
=============================================================================
