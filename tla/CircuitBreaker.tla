--------------------------- MODULE CircuitBreaker ---------------------------
(***************************************************************************)
(* The breaker kept for one inference instance, as a value: the fields of  *)
(* InstanceCircuitBreaker (src/dispatcher/circuit_breaker.py) and what     *)
(* each method makes of them.  The methods contain no await, so a call is  *)
(* atomic and the operators below are its whole effect.                    *)
(*                                                                         *)
(* Time enters only in the test "recovery_timeout has elapsed since        *)
(* opened_at": recovery says whether it has.  Ripen is the passing of that *)
(* time.  A breaker CircuitBreakerRegistry does not hold is a Closed one,  *)
(* because get_or_create makes it on demand.                               *)
(***************************************************************************)
EXTENDS Naturals

CONSTANTS
  FailureThreshold,   \* failures in a row that open the breaker
  HalfOpenMaxCalls    \* probes of one half-open episode

ASSUME BreakerAssumption ==
  /\ FailureThreshold \in Nat \ {0}
  /\ HalfOpenMaxCalls \in Nat \ {0}

\* The values a breaker takes.  One that has counted to the threshold is no
\* longer CLOSED, and one that is CLOSED has no probe out.
Breaker ==
  {b \in [state     : {"closed", "open", "half_open"},
          failures  : 0 .. FailureThreshold,
          successes : 0 .. HalfOpenMaxCalls - 1,
          probes    : 0 .. HalfOpenMaxCalls,
          recovery  : {"pending", "elapsed"}] :
     b.state = "closed" => b.failures < FailureThreshold /\ b.probes = 0}

\* The state of __init__, and of reset().
Closed ==
  [state |-> "closed", failures |-> 0, successes |-> 0, probes |-> 0,
   recovery |-> "pending"]

\* OPEN for recovery_timeout or longer.
Ripe(b) == b.state = "open" /\ b.recovery = "elapsed"

\* Whether allow_request() returns True.
Allows(b) ==
  \/ b.state = "closed"
  \/ Ripe(b)
  \/ b.state = "half_open" /\ b.probes < HalfOpenMaxCalls

\* The breaker after allow_request(): asking is what moves a ripe OPEN
\* breaker to HALF_OPEN, and what takes a probe slot.
Asked(b) ==
  CASE Ripe(b) ->
         [state |-> "half_open", failures |-> b.failures, successes |-> 0,
          probes |-> 1, recovery |-> "pending"]
    [] b.state = "half_open" /\ b.probes < HalfOpenMaxCalls ->
         [b EXCEPT !.probes = @ + 1]
    [] OTHER -> b

\* Mutant of Succeeded: one success too many is asked for.
SucceededTooLate(b) ==
  CASE b.state = "closed" -> [b EXCEPT !.failures = 0]
    [] b.state = "half_open" ->
         IF b.successes + 1 > HalfOpenMaxCalls
         THEN Closed
         ELSE [b EXCEPT !.successes = @ + 1]
    [] OTHER -> b

\* record_success()
Succeeded(b) ==
  CASE b.state = "closed" -> [b EXCEPT !.failures = 0]
    [] b.state = "half_open" ->
         IF b.successes + 1 >= HalfOpenMaxCalls
         THEN Closed
         ELSE [b EXCEPT !.successes = @ + 1]
    [] OTHER -> b

\* _state = OPEN, _opened_at = now.  The slots are given back; a CLOSED breaker
\* has none taken.
Opened(b, failures) ==
  [state |-> "open", failures |-> failures, successes |-> b.successes,
   probes |-> 0, recovery |-> "pending"]

\* record_failure()
Failed(b) ==
  CASE b.state = "closed" ->
         IF b.failures + 1 >= FailureThreshold
         THEN Opened(b, b.failures + 1)
         ELSE [b EXCEPT !.failures = @ + 1]
    [] b.state = "half_open" -> Opened(b, b.failures)
    [] OTHER -> b

\* recovery_timeout seconds have passed since the breaker opened.
Ripen(b) == [b EXCEPT !.recovery = "elapsed"]
=============================================================================
