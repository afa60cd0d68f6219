----------------------------- MODULE MCGateway -----------------------------
(***************************************************************************)
(* Gateway for TLC: a mock engine of type Ollama, a real vLLM (LM Studio)  *)
(* and a real TGI.  LoneSpec is the behaviours in which one client sends;  *)
(* before it does, the instances of its model other than the TGI may fall  *)
(* ill, and the other models may come and go when none of them is left.    *)
(***************************************************************************)
EXTENDS Gateway

CONSTANTS mock, lmstudio, tgi

Engines == [i \in Instances |->
              IF i = mock THEN "ollama" ELSE IF i = tgi THEN "tgi" ELSE "vllm"]
AllFlags == {"timeout", "connection", "5xx"}
EvenWeight == [r \in Requests |-> 1]

LoneInit ==
  /\ GatewayInit
  /\ \E r \in Requests : \A q \in Requests \ {r} : asked[q] = "nothing"
  /\ otherModels

LoneNext ==
  /\ GatewayNext
  /\ \A i \in Instances \ {tgi} : status'[i] # status[i] =>
       status'[i] = "unhealthy" /\ \A r \in Requests : reply[r] = Unsent
  /\ otherModels' # otherModels =>
       /\ \A i \in Instances : status[i] # "healthy"
       /\ \A r \in Requests : reply[r] = Unsent

LoneSpec ==
  /\ LoneInit /\ [][LoneNext]_gvars
  /\ \A r \in Requests : WF_gvars(Progress(r))
=============================================================================
