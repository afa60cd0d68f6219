------------------------------- MODULE Fleet -------------------------------
(***************************************************************************)
(* The fleet of instances as its operators see it: InstanceRegistry with   *)
(* addresses, models, tiers and capacities behind the admin API, the runs  *)
(* of scripts/setup_lmstudio.py that rebuild it, the file it is loaded     *)
(* from at a start, and the two balancers that pick from its lists.        *)
(*                                                                         *)
(* A handler of the admin API has no await after it has read its body, so  *)
(* each call is one step; a script makes one call after the other.  Of     *)
(* RoutingProxy there are single attempts: the list, the pick, the end.    *)
(***************************************************************************)
EXTENDS Integers, FiniteSets, Sequences, SequencesExt

CONSTANTS
  Ids,        \* instance ids
  Addresses, Models, Wildcard,   \* Wildcard is the model "*"
  Absent,     \* the value of an id that is not registered
  Manual,     \* the instances people register by hand
  Watched,    \* those whose health changes during a run
  FileConfig, \* "instances" of the YAML file, in its order
  Scripts,    \* runs of setup_lmstudio.py
  LMStudio,   \* LM_STUDIO_BASE
  Loaded,     \* the models LM Studio has loaded, in its order
  InstanceId, \* model_to_instance_id on those models
  Requests,   \* places for concurrent requests
  Streams,    \* those of forward_stream
  Cycle       \* a multiple of every list length: bounds the counter

Entry ==
  [address : Addresses, model : Models \cup {Wildcard},
   tier : {"local", "remote"}, capacity : Nat]

Instance ==
  [entry : Entry, healthy : BOOLEAN, from : {"file", "api"}, warned : BOOLEAN]

\* Script ids carry the prefix "lm-", which people do not use; no two loaded
\* models are mapped to one id (see the README).
ASSUME FleetAssumption ==
  /\ IsFiniteSet(Ids) /\ IsFiniteSet(Requests) /\ Wildcard \notin Models
  /\ Absent \notin Instance /\ Absent \notin Ids
  /\ Watched \subseteq Ids /\ Streams \subseteq Requests
  /\ Manual \subseteq [id : Ids, entry : Entry]
  /\ FileConfig \in Seq([id : Ids, entry : Entry])
  /\ LMStudio \in Addresses
  /\ Loaded \in Seq(Models)
  /\ InstanceId \in [ToSet(Loaded) -> Ids]
  /\ \A m, n \in ToSet(Loaded) : InstanceId[m] = InstanceId[n] => m = n
  /\ \A b \in Manual \cup ToSet(FileConfig) :
       \A m \in ToSet(Loaded) : b.id # InstanceId[m]
  /\ Cycle \in Nat \ {0}

VARIABLES
  instance,  \* InstanceRegistry._instances
  order,     \* the insertion order of that dict
  phase,     \* how far each run of the script is
  old,       \* what it still has to delete
  post,      \* the models it still has to register
  missed,    \* the models whose last posting was refused otherwise than by a 409
  disturbed, \* somebody deleted by hand, or a script or the dispatcher died
  strategy,  \* load_balancer.strategy
  counter,   \* RoundRobinBalancer._counter
  connections, \* LeastConnectionsBalancer._active
  routed     \* the instance that serves the request in each place

registry == <<instance, order>>
balancer == <<strategy, counter, connections>>
setup == <<phase, old, post, missed>>
fvars == <<registry, setup, disturbed, balancer, routed>>

Registered == {i \in Ids : instance[i] # Absent}

-----------------------------------------------------------------------------
(* The rules of register().                                                *)

\* Rule 1, and the id itself: what makes a registration a 409.
SameBackend(e, f) == e.address = f.address /\ e.model = f.model
ClashesOnAddress(inst, e) ==                           \* mutant of Clashes
  \E j \in Ids : inst[j] # Absent /\ inst[j].entry.address = e.address
Clashes(inst, e) ==
  \E j \in Ids : inst[j] # Absent /\ SameBackend(inst[j].entry, e)
RefusedById(inst, id, e) == inst[id] # Absent            \* mutant of Refused
Refused(inst, id, e) == inst[id] # Absent \/ Clashes(inst, e)

OnAddress(inst, a) == {j \in Ids : inst[j] # Absent /\ inst[j].entry.address = a}
WildcardsOn(inst, a) == {j \in OnAddress(inst, a) : inst[j].entry.model = Wildcard}

\* Rules 2 and 3: a wildcard beside exact models on one address.
ShadowsExact(inst, e) ==
  e.model = Wildcard /\ OnAddress(inst, e.address) # WildcardsOn(inst, e.address)
NeverShadowed(inst, e) == FALSE                          \* mutant of IsShadowed
IsShadowed(inst, e) ==
  e.model # Wildcard /\ WildcardsOn(inst, e.address) # {}

\* Rule 4: several wildcards on one address.
IsPseudoRedundant(inst, e) ==
  e.model = Wildcard /\ WildcardsOn(inst, e.address) # {}

Warns(inst, e) ==
  ShadowsExact(inst, e) \/ IsShadowed(inst, e) \/ IsPseudoRedundant(inst, e)

\* An instance of the admin API; warned tells whether its caller was shown a
\* warning.  load_from_config drops what register() returns.
New(inst, e) ==
  [entry |-> e, healthy |-> TRUE, from |-> "api", warned |-> Warns(inst, e)]

\* load_from_config: one register() after the other; the first refusal raises
\* and the dispatcher does not start.
FileIsSound ==
  \A k, l \in DOMAIN FileConfig :
    k # l => /\ FileConfig[k].id # FileConfig[l].id
             /\ ~SameBackend(FileConfig[k].entry, FileConfig[l].entry)
FromFile(i) == CHOOSE c \in ToSet(FileConfig) : c.id = i
LoadedFile ==
  [i \in Ids |-> IF \E c \in ToSet(FileConfig) : c.id = i
                 THEN [entry |-> FromFile(i).entry, healthy |-> TRUE,
                       from |-> "file", warned |-> FALSE]
                 ELSE Absent]

-----------------------------------------------------------------------------
(* list_by_model: healthy, exact or wildcard, LOCAL first and the larger   *)
(* first.  A list is the set of its members: Before is the order in which  *)
(* every list has them.                                                    *)

Serves(i, m) ==
  /\ instance[i].healthy
  /\ instance[i].entry.model \in {m, Wildcard}

ListByModel(m) == {i \in Registered : Serves(i, m)}

Precedes(i, j) ==
  LET e == instance[i].entry
      f == instance[j].entry
  IN  \/ e.tier = "local" /\ f.tier = "remote"
      \/ e.tier = f.tier /\ e.capacity > f.capacity

\* The sort is stable: what it does not tell apart stays as the dict has it.
Place(i) == CHOOSE k \in DOMAIN order : order[k] = i
Before(i, j) ==
  \/ Precedes(i, j)
  \/ ~Precedes(j, i) /\ Place(i) < Place(j)

\* What the proxy chooses from: the LOCAL ones if there are any.
FirstTier(list) ==
  LET local == {i \in list : instance[i].entry.tier = "local"}
  IN  IF local # {} THEN local ELSE list

-----------------------------------------------------------------------------
(* The balancers.                                                          *)

IndexIn(list, i) == Cardinality({j \in list : Before(j, i)})
TurnOf(list) ==
  CHOOSE i \in list : IndexIn(list, i) = counter % Cardinality(list)

\* min() takes the first of those with the fewest.
Fewer(i, j) ==
  \/ connections[i] < connections[j]
  \/ connections[i] = connections[j] /\ Before(i, j)
FirstFewest(list) == CHOOSE i \in list : \A j \in list \ {i} : Fewer(i, j)

Picked(list) == IF strategy = "round_robin" THEN TurnOf(list) ELSE FirstFewest(list)

Serving(i) == Cardinality({r \in Requests : routed[r] = i})

-----------------------------------------------------------------------------
FleetInit ==
  /\ FileIsSound
  /\ instance = LoadedFile
  /\ order = [k \in DOMAIN FileConfig |-> FileConfig[k].id]
  /\ phase = [s \in Scripts |-> "ready"]
  /\ old = [s \in Scripts |-> <<>>]
  /\ post = [s \in Scripts |-> Loaded]
  /\ missed = {}
  /\ disturbed = FALSE
  /\ strategy \in {"round_robin", "least_conn"}
  /\ counter = 0
  /\ connections = [i \in Ids |-> 0]
  /\ routed = [r \in Requests |-> Absent]

\* POST and DELETE /admin/instances; a 409 or a 404 changes nothing.
Register(id, e) ==
  IF Refused(instance, id, e) THEN UNCHANGED registry
  ELSE /\ instance' = [instance EXCEPT ![id] = New(instance, e)]
       /\ order' = Append(order, id)

Deregister(id) ==
  \/ instance[id] = Absent /\ UNCHANGED registry
  \/ /\ instance' = [instance EXCEPT ![id] = Absent]
     /\ \E k \in DOMAIN order :
          order[k] = id /\ order' = RemoveAt(order, k)

PostInstance ==
  /\ \E b \in Manual : Register(b.id, b.entry)
  /\ UNCHANGED <<setup, disturbed, balancer, routed>>

DeleteInstance ==
  /\ \E i \in Registered : Deregister(i)
  /\ disturbed' = TRUE
  /\ UNCHANGED <<setup, balancer, routed>>

\* HealthChecker.
MarkInstance ==
  /\ \E i \in Registered \cap Watched :
       instance' = [instance EXCEPT ![i].healthy = ~@]
  /\ UNCHANGED <<order, setup, disturbed, balancer, routed>>

\* The dispatcher is started again: all it knows is the file.  Calls of the
\* scripts fail meanwhile.
Restart ==
  /\ FileIsSound
  /\ instance' = LoadedFile
  /\ order' = [k \in DOMAIN FileConfig |-> FileConfig[k].id]
  /\ counter' = 0
  /\ connections' = [i \in Ids |-> 0]
  /\ routed' = [r \in Requests |-> Absent]
  /\ disturbed' = TRUE
  /\ UNCHANGED <<setup, strategy>>

-----------------------------------------------------------------------------
(* setup_lmstudio.py.                                                      *)

\* The script has the models, and asks what is registered.
SetupLists(s) ==
  /\ phase[s] = "ready" /\ Loaded # <<>>
  /\ phase' = [phase EXCEPT ![s] = "deleting"]
  /\ old' = [old EXCEPT ![s] = order]
  /\ UNCHANGED <<registry, post, missed, disturbed, balancer, routed>>

\* It deletes one after the other, whatever the answers are: an ERR(code) is
\* printed, and the instance stays.
SetupDeletes(s) ==
  /\ phase[s] = "deleting" /\ old[s] # <<>>
  /\ Deregister(Head(old[s])) \/ UNCHANGED registry
  /\ old' = [old EXCEPT ![s] = Tail(@)]
  /\ UNCHANGED <<phase, post, missed, disturbed, balancer, routed>>

Posts(s) ==
  /\ phase' = [phase EXCEPT ![s] = "posting"]
  /\ old' = [old EXCEPT ![s] = <<>>]
  /\ UNCHANGED <<registry, post, missed, disturbed, balancer, routed>>

SetupHasDeleted(s) == phase[s] = "deleting" /\ old[s] = <<>> /\ Posts(s)

\* A failing call while it lists or deletes is caught: the rest of the old
\* instances stay.
SetupSkipsDeleting(s) ==
  phase[s] \in {"ready", "deleting"} /\ Loaded # <<>> /\ Posts(s)

BodyOf(m) ==
  [address |-> LMStudio, model |-> m, tier |-> "local", capacity |-> 1]

\* Mutant of SetupPosts: a 409 ends the script.
SetupPostsOrStops(s) ==
  /\ phase[s] = "posting" /\ post[s] # <<>>
  /\ LET m == Head(post[s])
     IN  /\ Register(InstanceId[m], BodyOf(m))
         /\ post' = [post EXCEPT ![s] =
                       IF Refused(instance, InstanceId[m], BodyOf(m)) THEN <<>> ELSE Tail(@)]
  /\ UNCHANGED <<phase, old, missed, disturbed, balancer, routed>>

\* It registers the next model; a 409 counts as registered.  Any other answer
\* (a 401, a 422, a 5xx) is printed, and the script goes on to the next model.
SetupPosts(s) ==
  /\ phase[s] = "posting" /\ post[s] # <<>>
  /\ LET m == Head(post[s])
     IN  \/ Register(InstanceId[m], BodyOf(m)) /\ missed' = missed \ {m}
         \/ UNCHANGED registry /\ missed' = missed \cup {m}
  /\ post' = [post EXCEPT ![s] = Tail(@)]
  /\ UNCHANGED <<phase, old, disturbed, balancer, routed>>

SetupEnds(s) ==
  /\ phase[s] = "posting" /\ post[s] = <<>>
  /\ phase' = [phase EXCEPT ![s] = "done"]
  /\ UNCHANGED <<registry, old, post, missed, disturbed, balancer, routed>>

\* A call that fails while it registers is not caught: the script dies.
SetupDies(s) ==
  /\ phase[s] = "posting" /\ post[s] # <<>>
  /\ phase' = [phase EXCEPT ![s] = "dead"]
  /\ disturbed' = TRUE
  /\ UNCHANGED <<registry, old, post, missed, balancer, routed>>

Setup(s) ==
  \/ SetupLists(s) \/ SetupDeletes(s) \/ SetupHasDeleted(s)
  \/ SetupSkipsDeleting(s) \/ SetupPosts(s)
  \/ SetupEnds(s) \/ SetupDies(s)

-----------------------------------------------------------------------------
(* Requests.                                                               *)

\* An attempt: some of the list may be out, tried before or refused by their
\* breakers.  on_request_start counts for least_conn only; the counter of
\* round robin moves with every pick.
Route(r, m) ==
  /\ routed[r] = Absent
  /\ \E out \in SUBSET Registered :
       LET list == ListByModel(m) \ out
           i == Picked(FirstTier(list))
       IN  /\ list # {}
           /\ routed' = [routed EXCEPT ![r] = i]
           /\ connections' = IF strategy = "least_conn"
                             THEN [connections EXCEPT ![i] = @ + 1] ELSE connections
  /\ counter' = IF strategy = "round_robin" THEN (counter + 1) % Cycle ELSE counter
  /\ UNCHANGED <<registry, setup, disturbed, strategy>>

OneLessAlways(n) == n - 1                                \* mutant of OneLess
OneLess(n) == IF n > 0 THEN n - 1 ELSE 0

\* Mutant of EndRequest: no on_request_end.
EndRequestUncounted(r) ==
  /\ routed[r] # Absent
  /\ routed' = [routed EXCEPT ![r] = Absent]
  /\ UNCHANGED <<registry, setup, disturbed, balancer>>

EndRequest(r) ==
  /\ routed[r] # Absent
  /\ routed' = [routed EXCEPT ![r] = Absent]
  /\ connections' = [connections EXCEPT ![routed[r]] = OneLess(@)]
  /\ UNCHANGED <<registry, setup, disturbed, strategy, counter>>

\* A stream that fails is counted out twice (see RoutingProxy).
StreamBreaks(r) ==
  /\ r \in Streams /\ routed[r] # Absent
  /\ routed' = [routed EXCEPT ![r] = Absent]
  /\ connections' = [connections EXCEPT ![routed[r]] = OneLess(OneLess(@))]
  /\ UNCHANGED <<registry, setup, disturbed, strategy, counter>>

FleetNext ==
  \/ PostInstance \/ DeleteInstance \/ MarkInstance \/ Restart
  \/ \E s \in Scripts : Setup(s)
  \/ \E r \in Requests :
       EndRequest(r) \/ StreamBreaks(r) \/ \E m \in Models : Route(r, m)

FleetSpec == FleetInit /\ [][FleetNext]_fvars

-----------------------------------------------------------------------------
(* Properties.                                                             *)

\* Every variable keeps its type; the dict's order lists what is registered.
FleetTypeOK ==
  /\ instance \in [Ids -> Instance \cup {Absent}]
  /\ order \in Seq(Ids) /\ IsInjective(order) /\ ToSet(order) = Registered
  /\ phase \in [Scripts -> {"ready", "deleting", "posting", "done", "dead"}]
  /\ old \in [Scripts -> Seq(Ids)]
  /\ post \in [Scripts -> Seq(Models)]
  /\ missed \subseteq ToSet(Loaded)
  /\ disturbed \in BOOLEAN
  /\ strategy \in {"round_robin", "least_conn"}
  /\ counter \in 0..(Cycle - 1)
  /\ connections \in [Ids -> Nat]
  /\ routed \in [Requests -> Ids \cup {Absent}]

\* No backend is listed twice for a model, whoever registers, deletes or
\* restarts in between, so no balancer takes one backend for two.
OneEntryPerBackend ==
  \A i, j \in Registered :
    SameBackend(instance[i].entry, instance[j].entry) => i = j

\* However runs of the script interleave with each other and with people who
\* register, wherever their deleting is cut short and whatever is refused:
\* once one of them is done and none is under way, each loaded model is served
\* at LM Studio, except those whose last posting failed, which the script that
\* made it has printed, unless somebody deleted by hand or something died.  So
\* it is enough to look at the last run's lines of a model.
IsServed(m) == \E i \in Registered : SameBackend(instance[i].entry, BodyOf(m))
SetupServes ==
  (/\ ~disturbed
   /\ \A s \in Scripts : phase[s] \in {"ready", "done"}
   /\ \E s \in Scripts : phase[s] = "done")
  => \A m \in ToSet(Loaded) \ missed : IsServed(m)

\* Why SetupServes holds: whoever may take a model away, or has yet to
\* register it, will try to register it; until then, a model whose last posting
\* was not refused is served.  And an id of the script means what it says.
HasPosted(s, m) == phase[s] \in {"posting", "done"} /\ m \notin ToSet(post[s])
Owes(s, m) == phase[s] = "deleting" \/ (phase[s] = "posting" /\ m \in ToSet(post[s]))
ModelsAreOwed ==
  /\ ~disturbed => \A m \in ToSet(Loaded) \ missed :
       (\E s \in Scripts : HasPosted(s, m))
         => IsServed(m) \/ \E s \in Scripts : Owes(s, m)
  /\ \A m \in ToSet(Loaded) :
       instance[InstanceId[m]] # Absent => instance[InstanceId[m]].entry = BodyOf(m)
  /\ \A s \in Scripts :
       /\ phase[s] \in {"ready", "deleting"} => post[s] = Loaded
       /\ phase[s] = "done" => post[s] = <<>>
       /\ ToSet(post[s]) \subseteq ToSet(Loaded)

\* A wildcard and an exact model on one address compete for requests.  In
\* whichever order the two came, the one who registered the later of them
\* was shown a warning, unless it came from the file.
WarnedOfShadowing ==
  \A k, l \in DOMAIN order :
    LET early == instance[order[k]]
        late == instance[order[l]]
    IN  /\ k < l /\ late.from = "api"
        /\ early.entry.address = late.entry.address
        /\ (early.entry.model = Wildcard) # (late.entry.model = Wildcard)
        => late.warned

\* least_conn never counts a connection that no request holds, through
\* retries, broken streams, deletions and new registrations of an id: an
\* instance that serves nobody is never passed over for one with a request.
NeverOvercounted == \A i \in Ids : connections[i] <= Serving(i)
=============================================================================
