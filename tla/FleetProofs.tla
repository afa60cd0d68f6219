---------------------------- MODULE FleetProofs ----------------------------
(***************************************************************************)
(* What registrations and runs of the setup script add up to, for any      *)
(* fleet, models, scripts and requests.                                    *)
(***************************************************************************)
EXTENDS Fleet, FiniteSetTheorems, SequenceTheorems, TLAPS

\* Rule 4 of register() is never reached: where it would warn, rule 1 has
\* refused already.
THEOREM RuleFourIsDead ==
  ASSUME NEW inst, NEW id, NEW e, IsPseudoRedundant(inst, e)
  PROVE  Refused(inst, id, e)
BY DEF IsPseudoRedundant, WildcardsOn, OnAddress, Refused, Clashes, SameBackend

-----------------------------------------------------------------------------
(* The registry.                                                           *)

\* What the two operations of the registry can do to its dict.
Registers(id, e) ==
  \/ instance' = instance /\ Refused(instance, id, e)
  \/ /\ instance' = [instance EXCEPT ![id] = New(instance, e)]
     /\ ~Refused(instance, id, e)
Removes(id) == instance' = [instance EXCEPT ![id] = Absent]

RegistryOK ==
  instance \in [Ids -> Instance \cup {Absent}] /\ OneEntryPerBackend

LEMMA NewIsInstance ==
  ASSUME NEW inst, NEW e \in Entry
  PROVE  New(inst, e) \in Instance /\ New(inst, e).entry = e
<1>1. Warns(inst, e) \in BOOLEAN
  BY DEF Warns, ShadowsExact, IsShadowed, IsPseudoRedundant
<1>2. QED
  BY <1>1 DEF New, Instance

LEMMA RegisteringKeeps ==
  ASSUME RegistryOK, NEW id, NEW e \in Entry, Registers(id, e)
  PROVE  RegistryOK'
<1>1. CASE instance' = instance
  BY <1>1 DEF RegistryOK, OneEntryPerBackend, Registered
<1>2. CASE /\ instance' = [instance EXCEPT ![id] = New(instance, e)]
           /\ ~Refused(instance, id, e)
  <2>1. New(instance, e) \in Instance /\ New(instance, e).entry = e
    BY NewIsInstance
  <2>2. instance' \in [Ids -> Instance \cup {Absent}]
    BY <1>2, <2>1 DEF RegistryOK
  <2>3. \A j \in Registered : ~SameBackend(instance[j].entry, e)
    BY <1>2 DEF Refused, Clashes, Registered
  <2>4. ASSUME NEW i \in Registered', NEW j \in Registered',
               SameBackend(instance'[i].entry, instance'[j].entry)
        PROVE  i = j
    <3>1. \A k \in Ids \ {id} : instance'[k] = instance[k]
      BY <1>2 DEF RegistryOK
    <3>2. id \in Ids => instance'[id].entry = e
      BY <1>2, <2>1 DEF RegistryOK
    <3>3. CASE i # id /\ j # id
      BY <2>4, <3>1, <3>3 DEF RegistryOK, OneEntryPerBackend, Registered
    <3>4. CASE i = id /\ j # id
      BY <2>3, <2>4, <3>1, <3>2, <3>4 DEF Registered, SameBackend
    <3>5. CASE i # id /\ j = id
      BY <2>3, <2>4, <3>1, <3>2, <3>5 DEF Registered, SameBackend
    <3>6. QED
      BY <3>3, <3>4, <3>5
  <2>5. QED
    BY <2>2, <2>4 DEF RegistryOK, OneEntryPerBackend
<1>3. QED
  BY <1>1, <1>2 DEF Registers

LEMMA DeregisterRemoves ==
  ASSUME RegistryOK, NEW id, Deregister(id)
  PROVE  Removes(id)
BY DEF RegistryOK, Deregister, Removes, registry

LEMMA RemovingKeeps ==
  ASSUME RegistryOK, NEW id, Removes(id)
  PROVE  RegistryOK'
BY DEF RegistryOK, OneEntryPerBackend, Registered, Removes

LEMMA FileIsOK ==
  ASSUME FileIsSound
  PROVE  /\ LoadedFile \in [Ids -> Instance \cup {Absent}]
         /\ \A i, j \in Ids :
              /\ LoadedFile[i] # Absent /\ LoadedFile[j] # Absent
              /\ SameBackend(LoadedFile[i].entry, LoadedFile[j].entry)
              => i = j
<1>1. \A c \in ToSet(FileConfig) :
        /\ c.entry \in Entry /\ c.id \in Ids
        /\ \A d \in ToSet(FileConfig) :
             (c.id = d.id \/ SameBackend(c.entry, d.entry)) => c = d
  <2> DEFINE Config == [id : Ids, entry : Entry]
  <2>1. \A k \in DOMAIN FileConfig : FileConfig[k] \in Config
    <3>1. FileConfig \in Seq(Config)
      BY FleetAssumption
    <3> HIDE DEF Config
    <3>2. QED
      BY <3>1
  <2>2. QED
    BY <2>1 DEF ToSet, FileIsSound
<1>2. ASSUME NEW i \in Ids, \E c \in ToSet(FileConfig) : c.id = i
      PROVE  FromFile(i) \in ToSet(FileConfig) /\ FromFile(i).id = i
  BY <1>2 DEF FromFile
<1>3. LoadedFile \in [Ids -> Instance \cup {Absent}]
  BY <1>1, <1>2 DEF LoadedFile, Instance
<1>4. \A i \in Ids : LoadedFile[i] # Absent =>
        FromFile(i) \in ToSet(FileConfig) /\ FromFile(i).id = i
          /\ LoadedFile[i].entry = FromFile(i).entry
  BY <1>2 DEF LoadedFile
<1>5. QED
  BY <1>1, <1>3, <1>4

-----------------------------------------------------------------------------
(* The setup script.                                                       *)

SetupOK ==
  /\ phase \in [Scripts -> {"ready", "deleting", "posting", "done", "dead"}]
  /\ post \in [Scripts -> Seq(Models)]
  /\ missed \subseteq ToSet(Loaded)
  /\ ModelsAreOwed

LEMMA BodyIsEntry ==
  ASSUME NEW m \in ToSet(Loaded)
  PROVE  BodyOf(m) \in Entry /\ m \in Models /\ InstanceId[m] \in Ids
<1>1. Loaded \in Seq(Models) /\ LMStudio \in Addresses
      /\ InstanceId \in [ToSet(Loaded) -> Ids]
  BY FleetAssumption
<1>2. m \in Models
  BY <1>1 DEF ToSet
<1>3. QED
  BY <1>1, <1>2 DEF BodyOf, Entry

\* A registration changes no entry that is there.
LEMMA EntriesStay ==
  ASSUME RegistryOK, NEW id, NEW e \in Entry, Registers(id, e)
  PROVE  /\ \A i \in Registered : i \in Registered' /\ instance'[i].entry = instance[i].entry
         /\ \A i \in Ids : instance'[i] # instance[i] => i = id /\ instance'[i].entry = e
         /\ \A m : IsServed(m) => IsServed(m)'
<1>1. \A i \in Registered : i \in Registered' /\ instance'[i].entry = instance[i].entry
  BY DEF RegistryOK, Registers, Registered, Refused, New
<1>2. \A i \in Ids : instance'[i] # instance[i] => i = id /\ instance'[i].entry = e
  BY NewIsInstance DEF RegistryOK, Registers
<1>3. \A m : IsServed(m) => IsServed(m)'
  BY <1>1 DEF IsServed
<1>4. QED
  BY <1>1, <1>2, <1>3

\* Neither people nor the file use the ids of the script.
LEMMA OthersUseOtherIds ==
  ASSUME NEW m \in ToSet(Loaded)
  PROVE  /\ \A b \in Manual : b.id # InstanceId[m]
         /\ \A c \in ToSet(FileConfig) : c.id # InstanceId[m]
         /\ \A n \in ToSet(Loaded) : InstanceId[n] = InstanceId[m] => n = m
BY FleetAssumption

LEMMA ManualKeepsSetup ==
  ASSUME RegistryOK, SetupOK, NEW b \in Manual, Registers(b.id, b.entry),
         UNCHANGED <<setup, disturbed>>
  PROVE  SetupOK'
<1>1. b.entry \in Entry
  BY FleetAssumption
<1>2. /\ \A m : IsServed(m) => IsServed(m)'
      /\ \A i \in Ids : instance'[i] # instance[i] => i = b.id
  BY <1>1, EntriesStay
<1>3. \A m \in ToSet(Loaded) : instance'[InstanceId[m]] = instance[InstanceId[m]]
  BY <1>2, BodyIsEntry, OthersUseOtherIds
<1>4. \A m : (\A s : HasPosted(s, m)' <=> HasPosted(s, m)) /\ (\A s : Owes(s, m)' <=> Owes(s, m))
  BY DEF setup, HasPosted, Owes
<1>5. ModelsAreOwed'
  BY <1>2, <1>3, <1>4 DEF SetupOK, ModelsAreOwed, setup
<1>6. QED
  BY <1>5 DEF SetupOK, setup

LEMMA SequencesEnd ==
  ASSUME NEW q \in Seq(Models), q # <<>>
  PROVE  /\ Head(q) \in ToSet(q) /\ Tail(q) \in Seq(Models)
         /\ ToSet(q) = {Head(q)} \cup ToSet(Tail(q))
<1>1. Len(q) \in Nat /\ Len(q) > 0 /\ DOMAIN q = 1..Len(q) /\ Head(q) = q[1]
  OBVIOUS
<1>2. /\ Tail(q) \in Seq(Models) /\ DOMAIN Tail(q) = 1..(Len(q) - 1)
      /\ \A k \in 1..(Len(q) - 1) : Tail(q)[k] = q[k + 1]
  BY <1>1
<1>3. ToSet(Tail(q)) \subseteq ToSet(q)
  BY <1>1, <1>2 DEF ToSet
<1>4. ASSUME NEW x \in ToSet(q), x # Head(q) PROVE x \in ToSet(Tail(q))
  <2>1. PICK k \in 1..Len(q) : x = q[k]
    BY <1>1, <1>4 DEF ToSet
  <2>2. k # 1
    BY <1>1, <1>4, <2>1
  <2>3. k - 1 \in 1..(Len(q) - 1) /\ Tail(q)[k - 1] = x
    BY <1>1, <1>2, <2>1, <2>2
  <2>4. QED
    BY <1>2, <2>3 DEF ToSet
<1>5. Head(q) \in ToSet(q)
  BY <1>1 DEF ToSet
<1>6. QED
  BY <1>2, <1>3, <1>4, <1>5

LEMMA PostingKeepsSetup ==
  ASSUME RegistryOK, SetupOK, NEW s \in Scripts,
         phase[s] = "posting", post[s] # <<>>,
         NEW m \in ToSet(Loaded), m = Head(post[s]),
         \/ Registers(InstanceId[m], BodyOf(m)) /\ missed' = missed \ {m}
         \/ UNCHANGED instance /\ missed' = missed \cup {m},
         post' = [post EXCEPT ![s] = Tail(@)], UNCHANGED <<phase, disturbed>>
  PROVE  SetupOK'
<1>1. /\ BodyOf(m) \in Entry /\ InstanceId[m] \in Ids
  BY BodyIsEntry
<1>2. /\ \A n : IsServed(n) => IsServed(n)'
      /\ \A i \in Ids : instance'[i] # instance[i]
                        => i = InstanceId[m] /\ instance'[i].entry = BodyOf(m)
  <2>1. CASE UNCHANGED instance
    BY <2>1 DEF IsServed, Registered
  <2>2. CASE Registers(InstanceId[m], BodyOf(m))
    BY <1>1, <2>2, EntriesStay
  <2>3. QED
    BY <2>1, <2>2
<1>3. \A n \in ToSet(Loaded) :
        instance'[InstanceId[n]] # Absent => instance'[InstanceId[n]].entry = BodyOf(n)
  <2>1. TAKE n \in ToSet(Loaded)
  <2>2. InstanceId[n] \in Ids /\ (InstanceId[n] = InstanceId[m] => n = m)
    BY BodyIsEntry, OthersUseOtherIds
  <2>3. QED
    BY <1>2, <2>2 DEF SetupOK, ModelsAreOwed
<1>4. ASSUME m \notin missed' PROVE IsServed(m)'
  <2> USE <1>4
  <2>1. CASE Refused(instance, InstanceId[m], BodyOf(m))
    <3>1. CASE instance[InstanceId[m]] # Absent
      <4>1. instance[InstanceId[m]].entry = BodyOf(m)
        BY <3>1 DEF SetupOK, ModelsAreOwed
      <4>2. IsServed(m)
        BY <1>1, <3>1, <4>1 DEF IsServed, Registered, SameBackend
      <4>3. QED
        BY <1>2, <4>2
    <3>2. CASE Clashes(instance, BodyOf(m))
      BY <1>2, <3>2 DEF Clashes, IsServed, Registered
    <3>3. QED
      BY <2>1, <3>1, <3>2 DEF Refused
  <2>2. CASE ~Refused(instance, InstanceId[m], BodyOf(m))
    <3>1. instance' = [instance EXCEPT ![InstanceId[m]] = New(instance, BodyOf(m))]
      BY <2>2 DEF Registers
    <3>2. /\ New(instance, BodyOf(m)) \in Instance
          /\ New(instance, BodyOf(m)).entry = BodyOf(m)
      BY <1>1, NewIsInstance
    <3>3. Absent \notin Instance
      BY FleetAssumption
    <3>4. instance'[InstanceId[m]] = New(instance, BodyOf(m))
      BY <1>1, <3>1 DEF RegistryOK
    <3>5. QED
      BY <1>1, <3>2, <3>3, <3>4 DEF IsServed, Registered, SameBackend
  <2>3. QED
    BY <2>1, <2>2
<1>5. /\ post \in [Scripts -> Seq(Models)] /\ Tail(post[s]) \in Seq(Models)
      /\ ToSet(post[s]) = {m} \cup ToSet(Tail(post[s]))
  BY SequencesEnd DEF SetupOK
<1>6. /\ post'[s] = Tail(post[s]) /\ \A t \in Scripts \ {s} : post'[t] = post[t]
  BY <1>5
<1>7. ASSUME NEW n, n # m, NEW t \in Scripts
      PROVE  (HasPosted(t, n)' <=> HasPosted(t, n)) /\ (Owes(t, n)' <=> Owes(t, n))
  BY <1>5, <1>6, <1>7 DEF HasPosted, Owes
<1>8. ASSUME ~disturbed', NEW n \in ToSet(Loaded) \ missed',
             \E t \in Scripts : HasPosted(t, n)'
      PROVE  IsServed(n)' \/ \E t \in Scripts : Owes(t, n)'
  <2>1. CASE n = m
    BY <1>4, <1>8, <2>1
  <2>2. CASE n # m
    <3>1. \E t \in Scripts : HasPosted(t, n)
      BY <1>7, <1>8, <2>2
    <3>2. n \in ToSet(Loaded) \ missed /\ ~disturbed
      BY <1>8, <2>2
    <3>3. IsServed(n) \/ \E t \in Scripts : Owes(t, n)
      BY <3>1, <3>2 DEF SetupOK, ModelsAreOwed
    <3>4. QED
      BY <1>2, <1>7, <2>2, <3>3
  <2>3. QED
    BY <2>1, <2>2
<1>9. \A t \in Scripts : /\ phase'[t] \in {"ready", "deleting"} => post'[t] = Loaded
                         /\ phase'[t] = "done" => post'[t] = <<>>
                         /\ ToSet(post'[t]) \subseteq ToSet(Loaded)
  BY <1>5, <1>6 DEF SetupOK, ModelsAreOwed
<1>10. ModelsAreOwed'
  BY <1>3, <1>8, <1>9 DEF ModelsAreOwed
<1>11. missed' \subseteq ToSet(Loaded)
  BY DEF SetupOK
<1>12. QED
  BY <1>5, <1>10, <1>11 DEF SetupOK

\* The ids of the script, when an instance goes or comes from the file.
IdsAreKept ==
  \A m \in ToSet(Loaded) :
    instance[InstanceId[m]] # Absent => instance[InstanceId[m]].entry = BodyOf(m)

LEMMA FileKeepsIds ==
  ASSUME NEW m \in ToSet(Loaded) PROVE LoadedFile[InstanceId[m]] = Absent
BY BodyIsEntry, OthersUseOtherIds DEF LoadedFile

\* The script is past a step in which it touched no entry, or took one away
\* while it deletes: it owes every model.
LEMMA OwingKeepsSetup ==
  ASSUME SetupOK, NEW s \in Scripts, IdsAreKept',
         phase' \in [Scripts -> {"ready", "deleting", "posting", "done", "dead"}],
         UNCHANGED <<post, missed>>, post[s] = Loaded,
         phase'[s] \in {"deleting", "posting"},
         \A t \in Scripts \ {s} : phase'[t] = phase[t]
  PROVE  SetupOK'
<1>1. \A m \in ToSet(Loaded) : Owes(s, m)'
  BY DEF Owes
<1>2. \A t \in Scripts : /\ phase'[t] \in {"ready", "deleting"} => post'[t] = Loaded
                         /\ phase'[t] = "done" => post'[t] = <<>>
                         /\ ToSet(post'[t]) \subseteq ToSet(Loaded)
  BY DEF SetupOK, ModelsAreOwed
<1>3. QED
  BY <1>1, <1>2 DEF SetupOK, ModelsAreOwed, IdsAreKept

\* After a step that disturbs, nothing is owed.
LEMMA DisturbingKeepsSetup ==
  ASSUME SetupOK, IdsAreKept', disturbed', UNCHANGED <<post, missed>>,
         \A t \in Scripts : phase'[t] = phase[t] \/ phase'[t] = "dead",
         phase' \in [Scripts -> {"ready", "deleting", "posting", "done", "dead"}]
  PROVE  SetupOK'
BY DEF SetupOK, ModelsAreOwed, IdsAreKept

LEMMA RemovingKeepsIds ==
  ASSUME RegistryOK, SetupOK, NEW id, Removes(id) PROVE IdsAreKept'
BY BodyIsEntry DEF RegistryOK, SetupOK, ModelsAreOwed, IdsAreKept, Removes

FleetOK == RegistryOK /\ SetupOK

LEMMA FleetOKInit == FleetInit => FleetOK
<1> SUFFICES ASSUME FleetInit PROVE FleetOK
  OBVIOUS
<1>1. RegistryOK
  BY FileIsOK DEF FleetInit, RegistryOK, OneEntryPerBackend, Registered
<1>2. IdsAreKept
  BY FileKeepsIds DEF FleetInit, IdsAreKept
<1>3. Loaded \in Seq(Models)
  BY FleetAssumption
<1>4. SetupOK
  BY <1>2, <1>3 DEF FleetInit, SetupOK, ModelsAreOwed, IdsAreKept, HasPosted
<1>5. QED
  BY <1>1, <1>4 DEF FleetOK

LEMMA SetupKeepsFleet ==
  ASSUME FleetOK, NEW s \in Scripts, Setup(s)
  PROVE  FleetOK'
<1> USE DEF FleetOK
<1>1. /\ phase \in [Scripts -> {"ready", "deleting", "posting", "done", "dead"}]
      /\ post \in [Scripts -> Seq(Models)]
      /\ IdsAreKept
      /\ phase[s] \in {"ready", "deleting"} => post[s] = Loaded
  BY DEF SetupOK, ModelsAreOwed, IdsAreKept
<1>2. ASSUME UNCHANGED instance PROVE RegistryOK' /\ IdsAreKept'
  <2>1. RegistryOK'
    BY <1>2 DEF RegistryOK, OneEntryPerBackend, Registered
  <2>2. IdsAreKept'
    BY <1>1, <1>2 DEF IdsAreKept
  <2>3. QED
    BY <2>1, <2>2
<1>3. CASE SetupLists(s)
  <2>1. /\ phase' = [phase EXCEPT ![s] = "deleting"] /\ post[s] = Loaded
        /\ UNCHANGED <<instance, post, missed>>
    BY <1>1, <1>3 DEF SetupLists, registry
  <2>2. /\ phase' \in [Scripts -> {"ready", "deleting", "posting", "done", "dead"}]
        /\ phase'[s] = "deleting" /\ \A t \in Scripts \ {s} : phase'[t] = phase[t]
    BY <1>1, <2>1
  <2>3. RegistryOK' /\ IdsAreKept'
    BY <1>2, <2>1
  <2>4. SetupOK'
    BY <2>1, <2>2, <2>3, OwingKeepsSetup
  <2>5. QED
    BY <2>3, <2>4
<1>4. CASE SetupDeletes(s)
  <2>1. (\E i : Removes(i)) \/ UNCHANGED instance
    BY <1>4, DeregisterRemoves DEF SetupDeletes, registry
  <2>2. RegistryOK' /\ IdsAreKept'
    BY <1>2, <2>1, RemovingKeeps, RemovingKeepsIds
  <2>3. phase[s] = "deleting" /\ UNCHANGED <<phase, post, missed>>
    BY <1>4 DEF SetupDeletes
  <2>4. SetupOK'
    BY <1>1, <2>2, <2>3, OwingKeepsSetup
  <2>5. QED
    BY <2>2, <2>4
<1>5. CASE Posts(s) /\ phase[s] \in {"ready", "deleting"}
  <2>1. /\ phase' = [phase EXCEPT ![s] = "posting"] /\ post[s] = Loaded
        /\ UNCHANGED <<instance, post, missed>>
    BY <1>1, <1>5 DEF Posts, registry
  <2>2. /\ phase' \in [Scripts -> {"ready", "deleting", "posting", "done", "dead"}]
        /\ phase'[s] = "posting" /\ \A t \in Scripts \ {s} : phase'[t] = phase[t]
    BY <1>1, <2>1
  <2>3. RegistryOK' /\ IdsAreKept'
    BY <1>2, <2>1
  <2>4. SetupOK'
    BY <2>1, <2>2, <2>3, OwingKeepsSetup
  <2>5. QED
    BY <2>3, <2>4
<1>6. CASE SetupPosts(s)
  <2>1. PICK m : m = Head(post[s])
    OBVIOUS
  <2>2. /\ phase[s] = "posting" /\ post[s] # <<>>
        /\ \/ Registers(InstanceId[m], BodyOf(m)) /\ missed' = missed \ {m}
           \/ UNCHANGED instance /\ missed' = missed \cup {m}
        /\ post' = [post EXCEPT ![s] = Tail(@)] /\ UNCHANGED <<phase, disturbed>>
    BY <1>6, <2>1 DEF SetupPosts, Register, Registers, registry
  <2>3. m \in ToSet(Loaded)
    BY <1>1, <2>1, <2>2, SequencesEnd DEF SetupOK, ModelsAreOwed
  <2>4. RegistryOK'
    BY <1>2, <2>2, <2>3, BodyIsEntry, RegisteringKeeps
  <2>5. SetupOK'
    BY <2>1, <2>2, <2>3, PostingKeepsSetup
  <2>6. QED
    BY <2>4, <2>5
<1>7. CASE SetupEnds(s)
  <2>1. /\ phase' = [phase EXCEPT ![s] = "done"] /\ phase[s] = "posting" /\ post[s] = <<>>
        /\ UNCHANGED <<instance, post, missed, disturbed>>
    BY <1>7 DEF SetupEnds, registry
  <2>2. /\ phase'[s] = "done" /\ \A t \in Scripts \ {s} : phase'[t] = phase[t]
        /\ phase' \in [Scripts -> {"ready", "deleting", "posting", "done", "dead"}]
    BY <1>1, <2>1
  <2>3. ToSet(post[s]) = {}
    BY <2>1 DEF ToSet
  <2>4. \A m : \A t \in Scripts : /\ HasPosted(t, m)' <=> HasPosted(t, m)
                                  /\ Owes(t, m)' <=> Owes(t, m)
    BY <2>1, <2>2, <2>3 DEF HasPosted, Owes
  <2>5. \A m : IsServed(m)' <=> IsServed(m)
    BY <2>1 DEF IsServed, Registered
  <2>6. \A t \in Scripts : /\ phase'[t] \in {"ready", "deleting"} => post'[t] = Loaded
                           /\ phase'[t] = "done" => post'[t] = <<>>
                           /\ ToSet(post'[t]) \subseteq ToSet(Loaded)
    BY <2>1, <2>2 DEF SetupOK, ModelsAreOwed
  <2>7. SetupOK'
    BY <2>1, <2>2, <2>4, <2>5, <2>6 DEF SetupOK, ModelsAreOwed
  <2>8. QED
    BY <1>2, <2>1, <2>7
<1>8. CASE SetupDies(s)
  BY <1>1, <1>2, <1>8, DisturbingKeepsSetup DEF SetupDies, registry
<1>9. QED
  BY <1>3, <1>4, <1>5, <1>6, <1>7, <1>8 DEF Setup, SetupHasDeleted, SetupSkipsDeleting

LEMMA FleetOKNext == FleetOK /\ [FleetNext]_fvars => FleetOK'
<1> SUFFICES ASSUME FleetOK, [FleetNext]_fvars PROVE FleetOK'
  OBVIOUS
<1> USE DEF FleetOK
<1>1. /\ phase \in [Scripts -> {"ready", "deleting", "posting", "done", "dead"}]
      /\ IdsAreKept
  BY DEF SetupOK, ModelsAreOwed, IdsAreKept
<1>2. ASSUME UNCHANGED <<instance, setup, disturbed>> PROVE FleetOK'
  <2>1. RegistryOK'
    BY <1>2 DEF RegistryOK, OneEntryPerBackend, Registered
  <2>2. SetupOK'
    BY <1>2 DEF SetupOK, ModelsAreOwed, HasPosted, Owes, IsServed, Registered, setup
  <2>3. QED
    BY <2>1, <2>2
<1>3. CASE PostInstance
  <2>1. PICK b \in Manual : Registers(b.id, b.entry)
    BY <1>3 DEF PostInstance, Register, Registers, registry
  <2>2. b.entry \in Entry
    BY FleetAssumption
  <2>3. RegistryOK'
    BY <2>1, <2>2, RegisteringKeeps
  <2>4. SetupOK'
    BY <1>3, <2>1, ManualKeepsSetup DEF PostInstance
  <2>5. QED
    BY <2>3, <2>4
<1>4. CASE DeleteInstance
  <2>1. PICK i : Removes(i)
    BY <1>4, DeregisterRemoves DEF DeleteInstance
  <2>2. RegistryOK' /\ IdsAreKept'
    BY <2>1, RemovingKeeps, RemovingKeepsIds
  <2>3. SetupOK'
    BY <1>1, <1>4, <2>2, DisturbingKeepsSetup DEF DeleteInstance, setup
  <2>4. QED
    BY <2>2, <2>3
<1>5. CASE MarkInstance
  <2>1. PICK i \in Registered : instance' = [instance EXCEPT ![i].healthy = ~@]
    BY <1>5 DEF MarkInstance
  <2>2. instance \in [Ids -> Instance \cup {Absent}] /\ instance[i] \in Instance /\ i \in Ids
    BY <2>1 DEF RegistryOK, Registered
  <2>3. PICK j : j = [instance[i] EXCEPT !.healthy = ~instance[i].healthy]
    OBVIOUS
  <2>4. j \in Instance /\ j.entry = instance[i].entry /\ j # Absent
    BY <2>2, <2>3, FleetAssumption DEF Instance
  <2>5. instance' = [instance EXCEPT ![i] = j]
    BY <2>1, <2>3
  <2>6. /\ instance' \in [Ids -> Instance \cup {Absent}]
        /\ Registered' = Registered
        /\ \A k \in Registered : instance'[k].entry = instance[k].entry
    BY <2>1, <2>2, <2>4, <2>5 DEF Registered
  <2>7. RegistryOK'
    BY <2>6 DEF RegistryOK, OneEntryPerBackend
  <2>8. \A m : IsServed(m)' <=> IsServed(m)
    BY <2>6 DEF IsServed
  <2>9. IdsAreKept'
    BY <1>1, <2>6, BodyIsEntry DEF IdsAreKept, Registered
  <2>10. SetupOK'
    BY <1>5, <2>8, <2>9
    DEF MarkInstance, SetupOK, ModelsAreOwed, IdsAreKept, HasPosted, Owes, setup
  <2>11. QED
    BY <2>7, <2>10
<1>6. CASE Restart
  <2>1. instance' = LoadedFile /\ FileIsSound /\ disturbed' /\ UNCHANGED setup
    BY <1>6 DEF Restart
  <2>2. RegistryOK'
    BY <2>1, FileIsOK DEF RegistryOK, OneEntryPerBackend, Registered
  <2>3. IdsAreKept'
    BY <2>1, FileKeepsIds DEF IdsAreKept
  <2>4. SetupOK'
    BY <1>1, <2>1, <2>3, DisturbingKeepsSetup DEF setup
  <2>5. QED
    BY <2>2, <2>4
<1>7. ASSUME NEW s \in Scripts, Setup(s) PROVE FleetOK'
  BY <1>7, SetupKeepsFleet
<1>8. ASSUME NEW r \in Requests,
             EndRequest(r) \/ StreamBreaks(r) \/ \E m \in Models : Route(r, m)
      PROVE  FleetOK'
  BY <1>2, <1>8 DEF EndRequest, StreamBreaks, Route, registry
<1>9. CASE UNCHANGED fvars
  BY <1>2, <1>9 DEF fvars, registry
<1>10. QED
  BY <1>3, <1>4, <1>5, <1>6, <1>7, <1>8, <1>9 DEF FleetNext

LEMMA FleetIsOK == FleetSpec => []FleetOK
BY FleetOKInit, FleetOKNext, PTL DEF FleetSpec

-----------------------------------------------------------------------------
(* What operators are promised.                                            *)

\* No backend is listed twice for a model.
THEOREM BackendsAreUnique == FleetSpec => []OneEntryPerBackend
<1>1. FleetOK => OneEntryPerBackend
  BY DEF FleetOK, RegistryOK
<1>2. QED
  BY <1>1, FleetIsOK, PTL

\* Whoever may take a model of LM Studio away will try to register it
\* afterwards, and one whose last posting was not refused is served till then.
THEOREM ModelsStayOwed == FleetSpec => []ModelsAreOwed
<1>1. FleetOK => ModelsAreOwed
  BY DEF FleetOK, SetupOK
<1>2. QED
  BY <1>1, FleetIsOK, PTL

\* When undisturbed runs of the script are over, however many there were and
\* however they interleaved and whatever was refused, every loaded model is
\* served whose last posting was not.
THEOREM ScriptsServe == FleetSpec => []SetupServes
<1>1. ModelsAreOwed => SetupServes
  <2>1. ASSUME ModelsAreOwed, ~disturbed, NEW m \in ToSet(Loaded) \ missed,
               \A s \in Scripts : phase[s] \in {"ready", "done"},
               NEW s \in Scripts, phase[s] = "done"
        PROVE  IsServed(m)
    <3>1. post[s] = <<>>
      BY <2>1 DEF ModelsAreOwed
    <3>2. HasPosted(s, m)
      BY <2>1, <3>1 DEF HasPosted, ToSet
    <3>3. \A t \in Scripts : ~Owes(t, m)
      BY <2>1 DEF Owes
    <3>4. QED
      BY <2>1, <3>2, <3>3 DEF ModelsAreOwed
  <2>2. QED
    BY <2>1 DEF SetupServes
<1>2. QED
  BY <1>1, ModelsStayOwed, PTL
-----------------------------------------------------------------------------
(* The order of the dict.                                                  *)

LEMMA RemoveAtShifts ==
  ASSUME NEW S, NEW s \in Seq(S), NEW k \in DOMAIN s
  PROVE  /\ RemoveAt(s, k) \in Seq(S)
         /\ Len(RemoveAt(s, k)) = Len(s) - 1
         /\ \A j \in 1 .. Len(s) - 1 :
              RemoveAt(s, k)[j] = IF j < k THEN s[j] ELSE s[j + 1]
<1> DEFINE before == SubSeq(s, 1, k - 1)
           after == SubSeq(s, k + 1, Len(s))
<1>1. k \in 1 .. Len(s) /\ Len(s) \in Nat
  BY LenProperties
<1>2. /\ before \in Seq(S) /\ Len(before) = k - 1
      /\ \A j \in 1 .. k - 1 : before[j] = s[j]
  BY <1>1
<1>3. /\ after \in Seq(S) /\ Len(after) = Len(s) - k
      /\ \A j \in 1 .. Len(s) - k : after[j] = s[k + j]
  BY <1>1
<1> HIDE DEF before, after
<1>4. /\ before \o after \in Seq(S)
      /\ Len(before \o after) = Len(before) + Len(after)
      /\ \A j \in 1 .. Len(before) + Len(after) :
           (before \o after)[j]
             = IF j <= Len(before) THEN before[j] ELSE after[j - Len(before)]
  BY <1>2, <1>3, ConcatProperties
<1>5. Len(before) + Len(after) = Len(s) - 1
  BY <1>1, <1>2, <1>3
<1>6. ASSUME NEW j \in 1 .. Len(s) - 1
      PROVE  (before \o after)[j] = IF j < k THEN s[j] ELSE s[j + 1]
  <2>1. (before \o after)[j]
          = IF j <= Len(before) THEN before[j] ELSE after[j - Len(before)]
    BY <1>4, <1>5
  <2>2. CASE j < k
    <3>1. j <= Len(before) /\ j \in 1 .. k - 1
      BY <1>1, <1>2, <2>2
    <3>2. before[j] = s[j]
      BY <1>2, <3>1
    <3>3. QED
      BY <2>1, <2>2, <3>1, <3>2
  <2>3. CASE ~(j < k)
    <3>1. ~(j <= Len(before)) /\ j - Len(before) \in 1 .. Len(s) - k
      BY <1>1, <1>2, <2>3
    <3>2. after[j - Len(before)] = s[k + (j - Len(before))]
      BY <1>3, <3>1
    <3>3. k + (j - Len(before)) = j + 1
      BY <1>1, <1>2
    <3>4. QED
      BY <2>1, <2>3, <3>1, <3>2, <3>3
  <2>4. QED
    BY <2>2, <2>3
<1>7. QED
  BY <1>4, <1>5, <1>6 DEF RemoveAt, before, after

\* What del does to the order: one member goes, the others keep theirs.
LEMMA RemoveAtKeepsOrder ==
  ASSUME NEW S, NEW s \in Seq(S), IsInjective(s), NEW k \in DOMAIN s
  PROVE  /\ RemoveAt(s, k) \in Seq(S) /\ IsInjective(RemoveAt(s, k))
         /\ ToSet(RemoveAt(s, k)) = ToSet(s) \ {s[k]}
         /\ \A a, b \in DOMAIN RemoveAt(s, k) : a < b =>
              \E c, d \in DOMAIN s :
                c < d /\ RemoveAt(s, k)[a] = s[c] /\ RemoveAt(s, k)[b] = s[d]
<1> DEFINE rest == RemoveAt(s, k)
           Old(j) == IF j < k THEN j ELSE j + 1
<1>1. /\ rest \in Seq(S) /\ Len(rest) = Len(s) - 1 /\ Len(s) \in Nat
      /\ \A j \in 1 .. Len(s) - 1 : rest[j] = IF j < k THEN s[j] ELSE s[j + 1]
      /\ k \in 1 .. Len(s) /\ DOMAIN s = 1 .. Len(s)
  BY RemoveAtShifts, LenProperties
<1> HIDE DEF rest
<1>2. DOMAIN rest = 1 .. Len(s) - 1
  BY <1>1
<1>3. \A j \in DOMAIN rest : Old(j) \in DOMAIN s \ {k} /\ rest[j] = s[Old(j)]
  BY <1>1, <1>2
<1>4. \A a, b \in DOMAIN rest :
        (a < b => Old(a) < Old(b)) /\ (Old(a) = Old(b) => a = b)
  BY <1>1, <1>2
<1>5. ASSUME NEW l \in DOMAIN s \ {k} PROVE \E j \in DOMAIN rest : Old(j) = l
  <2>1. CASE l < k
    <3>1. l \in DOMAIN rest /\ Old(l) = l
      BY <1>1, <1>2, <2>1
    <3>2. QED
      BY <3>1
  <2>2. CASE l > k
    <3>1. l - 1 \in DOMAIN rest /\ Old(l - 1) = l
      BY <1>1, <1>2, <2>2
    <3>2. QED
      BY <3>1
  <2>3. QED
    BY <1>1, <2>1, <2>2
<1> HIDE DEF Old
<1>6. IsInjective(rest)
  BY <1>3, <1>4 DEF IsInjective
<1>7. ToSet(rest) = ToSet(s) \ {s[k]}
  <2>1. ASSUME NEW x \in ToSet(rest) PROVE x \in ToSet(s) \ {s[k]}
    BY <1>3 DEF ToSet, IsInjective
  <2>2. ASSUME NEW x \in ToSet(s) \ {s[k]} PROVE x \in ToSet(rest)
    <3>1. PICK l \in DOMAIN s \ {k} : x = s[l]
      BY <2>2 DEF ToSet
    <3>2. PICK j \in DOMAIN rest : Old(j) = l
      BY <1>5
    <3>3. QED
      BY <1>3, <3>1, <3>2 DEF ToSet
  <2>3. QED
    BY <2>1, <2>2
<1>8. ASSUME NEW a \in DOMAIN rest, NEW b \in DOMAIN rest, a < b
      PROVE  \E c, d \in DOMAIN s : c < d /\ rest[a] = s[c] /\ rest[b] = s[d]
  BY <1>3, <1>4, <1>8
<1>9. QED
  BY <1>1, <1>6, <1>7, <1>8 DEF rest

OrderOK == order \in Seq(Ids) /\ IsInjective(order) /\ ToSet(order) = Registered

Listed == OrderOK /\ WarnedOfShadowing

LEMMA OrderIsAPermutation ==
  ASSUME OrderOK
  PROVE  /\ Len(order) \in Nat /\ DOMAIN order = 1 .. Len(order)
         /\ \A k \in DOMAIN order : order[k] \in Registered
         /\ \A k, l \in DOMAIN order : order[k] = order[l] => k = l
<1>1. Len(order) \in Nat /\ DOMAIN order = 1 .. Len(order)
  BY LenProperties DEF OrderOK
<1>2. QED
  BY <1>1 DEF OrderOK, ToSet, IsInjective

\* A registration comes last, and is told of what is there.
LEMMA RegisterKeepsListed ==
  ASSUME RegistryOK, Listed, NEW id \in Ids, NEW e \in Entry, Register(id, e)
  PROVE  Listed'
<1>1. CASE UNCHANGED registry
  BY <1>1 DEF registry, Listed, OrderOK, WarnedOfShadowing, Registered
<1>2. CASE /\ instance' = [instance EXCEPT ![id] = New(instance, e)]
           /\ order' = Append(order, id)
           /\ ~Refused(instance, id, e)
  <2>1. /\ instance \in [Ids -> Instance \cup {Absent}] /\ Absent \notin Instance
        /\ New(instance, e) \in Instance /\ New(instance, e).entry = e
    BY NewIsInstance, FleetAssumption DEF RegistryOK
  <2>2. /\ instance'[id] = New(instance, e) /\ id \notin Registered
        /\ \A i \in Registered : i # id /\ instance'[i] = instance[i]
        /\ Registered' = Registered \cup {id}
    BY <1>2, <2>1 DEF Registered, Refused
  <2>3. /\ Len(order) \in Nat /\ DOMAIN order = 1 .. Len(order)
        /\ \A k \in DOMAIN order : order[k] \in Registered
        /\ \A k, l \in DOMAIN order : order[k] = order[l] => k = l
    BY OrderIsAPermutation DEF Listed
  <2>4. /\ order' \in Seq(Ids) /\ DOMAIN order' = 1 .. Len(order) + 1
        /\ \A k \in 1 .. Len(order) : order'[k] = order[k]
        /\ order'[Len(order) + 1] = id
    BY <1>2, AppendProperties, LenProperties DEF Listed, OrderOK
  <2>5. IsInjective(order')
    BY <2>2, <2>3, <2>4 DEF IsInjective
  <2>6. ToSet(order') = ToSet(order) \cup {id}
    BY <2>3, <2>4 DEF ToSet
  <2>7. OrderOK'
    BY <2>2, <2>4, <2>5, <2>6 DEF OrderOK, Listed
  <2>8. ASSUME NEW k \in DOMAIN order', NEW l \in DOMAIN order', k < l,
               instance'[order'[l]].from = "api",
               instance'[order'[k]].entry.address = instance'[order'[l]].entry.address,
               (instance'[order'[k]].entry.model = Wildcard)
                 # (instance'[order'[l]].entry.model = Wildcard)
        PROVE  instance'[order'[l]].warned
    <3>1. k \in DOMAIN order /\ order'[k] = order[k] /\ order[k] \in Registered
      BY <2>3, <2>4, <2>8
    <3>2. CASE l \in DOMAIN order
      <4>1. order'[l] = order[l] /\ order[l] \in Registered
        BY <2>3, <2>4, <3>2
      <4>2. QED
        BY <2>2, <2>8, <3>1, <3>2, <4>1 DEF Listed, WarnedOfShadowing
    <3>3. CASE l = Len(order) + 1
      <4> DEFINE i == order[k]
      <4>1. /\ i \in OnAddress(instance, e.address)
            /\ (instance[i].entry.model = Wildcard) # (e.model = Wildcard)
        BY <2>1, <2>2, <2>4, <2>8, <3>1, <3>3 DEF OnAddress, Registered
      <4>2. Warns(instance, e)
        BY <4>1 DEF Warns, ShadowsExact, IsShadowed, WildcardsOn
      <4>3. QED
        BY <2>2, <2>4, <3>3, <4>2 DEF New
    <3>4. QED
      BY <2>3, <2>4, <3>2, <3>3
  <2>9. QED
    BY <2>7, <2>8 DEF Listed, WarnedOfShadowing
<1>3. QED
  BY <1>1, <1>2 DEF Register

LEMMA DeregisterKeepsListed ==
  ASSUME RegistryOK, Listed, NEW id, Deregister(id)
  PROVE  Listed'
<1>1. CASE UNCHANGED registry
  BY <1>1 DEF registry, Listed, OrderOK, WarnedOfShadowing, Registered
<1>2. CASE /\ instance' = [instance EXCEPT ![id] = Absent]
           /\ \E k \in DOMAIN order : order[k] = id /\ order' = RemoveAt(order, k)
  <2>1. PICK k \in DOMAIN order : order[k] = id /\ order' = RemoveAt(order, k)
    BY <1>2
  <2>2. order \in Seq(Ids) /\ IsInjective(order) /\ ToSet(order) = Registered
    BY DEF Listed, OrderOK
  <2>3. /\ order' \in Seq(Ids) /\ IsInjective(order')
        /\ ToSet(order') = Registered \ {id}
        /\ \A a, b \in DOMAIN order' : a < b =>
             \E c, d \in DOMAIN order : c < d /\ order'[a] = order[c] /\ order'[b] = order[d]
    BY <2>1, <2>2, RemoveAtKeepsOrder
  <2>4. /\ Registered' = Registered \ {id}
        /\ \A i \in Registered' : instance'[i] = instance[i]
    BY <1>2 DEF RegistryOK, Registered
  <2>5. OrderOK'
    BY <2>3, <2>4 DEF OrderOK
  <2>6. \A a \in DOMAIN order' : instance'[order'[a]] = instance[order'[a]]
    BY <2>3, <2>4 DEF ToSet
  <2>7. WarnedOfShadowing'
    <3>1. SUFFICES ASSUME NEW a \in DOMAIN order', NEW b \in DOMAIN order', a < b,
                          instance'[order'[b]].from = "api",
                          instance'[order'[a]].entry.address
                            = instance'[order'[b]].entry.address,
                          (instance'[order'[a]].entry.model = Wildcard)
                            # (instance'[order'[b]].entry.model = Wildcard)
                   PROVE  instance'[order'[b]].warned
      BY DEF WarnedOfShadowing
    <3>2. PICK c \in DOMAIN order, d \in DOMAIN order :
            c < d /\ order'[a] = order[c] /\ order'[b] = order[d]
      BY <2>3, <3>1
    <3>3. QED
      BY <2>6, <3>1, <3>2 DEF Listed, WarnedOfShadowing
  <2>8. QED
    BY <2>5, <2>7 DEF Listed
<1>3. QED
  BY <1>1, <1>2 DEF Deregister

\* The file's order; nobody is warned of what is in it.
HasTheFile ==
  /\ FileIsSound /\ instance = LoadedFile
  /\ order = [k \in DOMAIN FileConfig |-> FileConfig[k].id]

LEMMA FileIsListed == HasTheFile => Listed
<1> SUFFICES ASSUME HasTheFile PROVE Listed
  OBVIOUS
<1> USE DEF HasTheFile
<1> DEFINE Config == [id : Ids, entry : Entry]
<1>1. /\ Len(FileConfig) \in Nat /\ DOMAIN FileConfig = 1 .. Len(FileConfig)
      /\ \A k \in DOMAIN FileConfig : FileConfig[k] \in Config
  <2>1. FileConfig \in Seq(Config)
    BY FleetAssumption
  <2> HIDE DEF Config
  <2>2. QED
    BY <2>1, LenProperties, ElementOfSeq
<1>2. order \in [1 .. Len(FileConfig) -> Ids]
  BY <1>1
<1>3. order \in Seq(Ids)
  BY <1>1, <1>2, IsASeq
<1>4. IsInjective(order)
  <2>1. \A k, l \in DOMAIN FileConfig : FileConfig[k].id = FileConfig[l].id => k = l
    BY DEF FileIsSound
  <2>2. DOMAIN order = DOMAIN FileConfig
        /\ \A k \in DOMAIN FileConfig : order[k] = FileConfig[k].id
    OBVIOUS
  <2>3. QED
    BY <2>1, <2>2 DEF IsInjective
<1>5. Registered = {i \in Ids : \E c \in ToSet(FileConfig) : c.id = i}
  <2>1. \A i \in Ids : (\E c \in ToSet(FileConfig) : c.id = i) => LoadedFile[i] # Absent
    <3>1. ASSUME NEW i \in Ids, \E c \in ToSet(FileConfig) : c.id = i
          PROVE  LoadedFile[i] \in Instance
      <4>1. FromFile(i) \in ToSet(FileConfig)
        BY <3>1 DEF FromFile
      <4>2. FromFile(i).entry \in Entry
        BY <1>1, <4>1 DEF ToSet
      <4>3. QED
        BY <3>1, <4>2 DEF LoadedFile, Instance
    <3>2. QED
      BY <3>1, FleetAssumption
  <2>2. QED
    BY <2>1 DEF Registered, LoadedFile
<1>6. ToSet(order) = Registered
  BY <1>1, <1>5 DEF ToSet
<1>7. \A i \in Registered : instance[i].from = "file"
  BY <1>5 DEF LoadedFile, Registered
<1>8. WarnedOfShadowing
  BY <1>6, <1>7 DEF WarnedOfShadowing, ToSet
<1>9. QED
  BY <1>3, <1>4, <1>6, <1>8 DEF Listed, OrderOK

-----------------------------------------------------------------------------
(* The balancers' choice.                                                  *)

\* An order without ties.
IsStrictOrder(R, S) ==
  /\ \A x, y \in S : x # y => <<x, y>> \in R \/ <<y, x>> \in R
  /\ \A x \in S : <<x, x>> \notin R
  /\ \A x, y, z \in S : <<x, y>> \in R /\ <<y, z>> \in R => <<x, z>> \in R

\* A finite set in such an order has one member at every index.
LEMMA EveryIndexIsTaken ==
  ASSUME NEW S, IsFiniteSet(S), NEW R, IsStrictOrder(R, S),
         NEW index, index = [x \in S |-> Cardinality({y \in S : <<y, x>> \in R})]
  PROVE  /\ \A x \in S : index[x] \in 0 .. Cardinality(S) - 1
         /\ \A k \in 0 .. Cardinality(S) - 1 : \E x \in S : index[x] = k
         /\ \A x, z \in S : index[x] = index[z] => x = z
<1> DEFINE n == Cardinality(S)
           Below(x) == {y \in S : <<y, x>> \in R}
<1>1. n \in Nat
  BY FS_CardinalityType
<1>2. ASSUME NEW x \in S
      PROVE  IsFiniteSet(Below(x)) /\ Cardinality(Below(x)) \in 0 .. n - 1
  <2>1. IsFiniteSet(Below(x)) /\ Cardinality(Below(x)) \in Nat
    BY FS_Subset, FS_CardinalityType
  <2>2. Below(x) \subseteq S \ {x} /\ IsFiniteSet(S \ {x})
    BY FS_Subset DEF IsStrictOrder
  <2>3. Cardinality(S \ {x}) = n - 1
    BY FS_RemoveElement
  <2> HIDE DEF Below, n
  <2>4. Cardinality(Below(x)) <= n - 1
    BY <2>2, <2>3, FS_Subset
  <2>5. QED
    BY <1>1, <2>1, <2>4
<1>3. ASSUME NEW x \in S, NEW y \in S, <<x, y>> \in R
      PROVE  Cardinality(Below(x)) < Cardinality(Below(y))
  <2>1. Below(x) \cup {x} \subseteq Below(y) /\ x \notin Below(x)
    BY <1>3 DEF IsStrictOrder
  <2>2. IsFiniteSet(Below(x)) /\ IsFiniteSet(Below(y))
    BY <1>2
  <2> HIDE DEF Below, n
  <2>3. Cardinality(Below(x) \cup {x}) = Cardinality(Below(x)) + 1
    BY <2>1, <2>2, FS_AddElement
  <2>4. Cardinality(Below(x) \cup {x}) <= Cardinality(Below(y))
    BY <2>1, <2>2, FS_Subset
  <2>5. QED
    BY <1>1, <1>2, <2>3, <2>4
<1> HIDE DEF Below, n
<1>4. index \in [S -> 0 .. n - 1] /\ \A x \in S : index[x] = Cardinality(Below(x))
  BY <1>2 DEF Below
<1>5. ASSUME NEW x \in S, NEW y \in S, index[x] = index[y] PROVE x = y
  <2>1. index[x] = Cardinality(Below(x)) /\ index[y] = Cardinality(Below(y))
    BY <1>4
  <2>2. Cardinality(Below(x)) = Cardinality(Below(y)) /\ Cardinality(Below(x)) \in Int
    <3>1. PICK c : c = Cardinality(Below(x))
      OBVIOUS
    <3>2. c \in 0 .. n - 1
      BY <1>2, <3>1
    <3>3. c \in Int
      BY <3>2
    <3>4. Cardinality(Below(y)) = c
      BY <1>5, <2>1, <3>1
    <3>5. QED
      BY <3>1, <3>3, <3>4
  <2>3. <<x, y>> \in R => Cardinality(Below(x)) < Cardinality(Below(y))
    BY <1>3
  <2>4. <<y, x>> \in R => Cardinality(Below(y)) < Cardinality(Below(x))
    BY <1>3
  <2>5. ~(<<x, y>> \in R) /\ ~(<<y, x>> \in R)
    BY <2>2, <2>3, <2>4
  <2>6. QED
    BY <2>5 DEF IsStrictOrder
<1>6. index \in Injection(S, 0 .. n - 1)
  BY <1>4, <1>5 DEF Injection, IsInjective
<1>7. IsFiniteSet(0 .. n - 1) /\ Cardinality(0 .. n - 1) = n
  <2>1. 0 \in Int /\ n - 1 \in Int /\ (0 > n - 1 => n = 0)
    BY <1>1
  <2>2. QED
    BY <1>1, <2>1, FS_Interval
<1>8. index \in Surjection(S, 0 .. n - 1)
  <2>1. Cardinality(S) = Cardinality(0 .. n - 1)
    BY <1>7 DEF n
  <2>2. QED
    BY <1>6, <1>7, <2>1, FS_Injection
<1>9. \A k \in 0 .. n - 1 : \E x \in S : index[x] = k
  BY <1>8 DEF Surjection
<1>10. QED
  BY <1>4, <1>5, <1>9 DEF n

LEMMA PlaceIsFound ==
  ASSUME OrderOK, NEW i \in Registered
  PROVE  Place(i) \in 1 .. Len(order) /\ Len(order) \in Nat /\ order[Place(i)] = i
<1>1. \E k \in DOMAIN order : order[k] = i
  BY DEF OrderOK, ToSet
<1>2. QED
  BY <1>1, OrderIsAPermutation DEF Place

\* The order of the lists has no ties and no cycles.
LEMMA BeforeIsStrict ==
  ASSUME RegistryOK, OrderOK
  PROVE  /\ \A i, j \in Registered : i # j => Before(i, j) \/ Before(j, i)
         /\ \A i \in Registered : ~Before(i, i)
         /\ \A i, j, k \in Registered :
              Before(i, j) /\ Before(j, k) => Before(i, k)
<1> DEFINE tier(i) == instance[i].entry.tier
           capacity(i) == instance[i].entry.capacity
<1>1. \A i \in Registered : tier(i) \in {"local", "remote"} /\ capacity(i) \in Nat
  BY DEF RegistryOK, Registered, Instance, Entry
<1>2. \A i \in Registered : Place(i) \in Nat
  BY PlaceIsFound
<1>3. \A i, j \in Registered : i # j => Place(i) # Place(j)
  BY PlaceIsFound
<1>4. \A i, j \in Registered :
        Before(i, j) <=> \/ tier(i) = "local" /\ tier(j) = "remote"
                         \/ /\ tier(i) = tier(j)
                            /\ \/ capacity(i) > capacity(j)
                               \/ capacity(i) = capacity(j) /\ Place(i) < Place(j)
  BY <1>1, <1>2 DEF Before, Precedes
<1> HIDE DEF tier, capacity
<1>5. \A i, j \in Registered : i # j => Before(i, j) \/ Before(j, i)
  BY <1>1, <1>2, <1>3, <1>4
<1>6. \A i \in Registered : ~Before(i, i)
  BY <1>1, <1>2, <1>4
<1>7. \A i, j, k \in Registered : Before(i, j) /\ Before(j, k) => Before(i, k)
  BY <1>1, <1>2, <1>4
<1>8. QED
  BY <1>5, <1>6, <1>7

LEMMA ListIsFinite ==
  ASSUME NEW list \in SUBSET Registered, list # {}
  PROVE  IsFiniteSet(list) /\ Cardinality(list) \in Nat \ {0}
<1>1. IsFiniteSet(list)
  BY FleetAssumption, FS_Subset DEF Registered
<1>2. QED
  BY <1>1, FS_CardinalityType, FS_EmptySet

LEMMA IndexesAreTurns ==
  ASSUME RegistryOK, OrderOK, NEW list \in SUBSET Registered, list # {}
  PROVE  /\ \A i \in list : IndexIn(list, i) \in 0 .. Cardinality(list) - 1
         /\ \A k \in 0 .. Cardinality(list) - 1 : \E i \in list : IndexIn(list, i) = k
         /\ \A i, j \in list : IndexIn(list, i) = IndexIn(list, j) => i = j
<1> DEFINE R == {e \in list \X list : Before(e[1], e[2])}
<1>1. IsFiniteSet(list)
  BY ListIsFinite
<1>2. \A i, j \in list : <<i, j>> \in R <=> Before(i, j)
  OBVIOUS
<1> HIDE DEF R
<1>3. IsStrictOrder(R, list)
  BY <1>2, BeforeIsStrict DEF IsStrictOrder
<1>4. PICK index : index = [i \in list |-> Cardinality({j \in list : <<j, i>> \in R})]
  OBVIOUS
<1>5. \A i \in list : IndexIn(list, i) = index[i]
  <2>1. \A i \in list : {j \in list : <<j, i>> \in R} = {j \in list : Before(j, i)}
    BY <1>2
  <2>2. QED
    BY <1>4, <2>1 DEF IndexIn
<1>6. /\ \A i \in list : index[i] \in 0 .. Cardinality(list) - 1
      /\ \A k \in 0 .. Cardinality(list) - 1 : \E i \in list : index[i] = k
      /\ \A i, j \in list : index[i] = index[j] => i = j
  BY <1>1, <1>3, <1>4, EveryIndexIsTaken
<1>7. QED
  BY <1>5, <1>6

\* RoundRobinBalancer: whatever the counter is, somebody's turn it is.
LEMMA TurnIsTaken ==
  ASSUME RegistryOK, OrderOK, NEW list \in SUBSET Registered, list # {},
         counter \in Nat
  PROVE  /\ TurnOf(list) \in list
         /\ IndexIn(list, TurnOf(list)) = counter % Cardinality(list)
<1>1. counter % Cardinality(list) \in 0 .. Cardinality(list) - 1
  BY ListIsFinite
<1>2. \E i \in list : IndexIn(list, i) = counter % Cardinality(list)
  BY <1>1, IndexesAreTurns
<1>3. QED
  BY <1>2 DEF TurnOf

\* What % is good for here: among n numbers in a row, each remainder occurs
\* once.
LEMMA DivMod ==
  ASSUME NEW n \in Nat, n > 0, NEW x \in Nat
  PROVE  /\ x \div n \in Nat /\ x % n \in 0 .. n - 1
         /\ x = n * (x \div n) + (x % n)
<1>1. x % n \in 0 .. n - 1 /\ x \div n \in Int
  OBVIOUS
<1>2. x = n * (x \div n) + (x % n)
  OBVIOUS
<1>3. x \div n >= 0
  <2>1. SUFFICES ASSUME x \div n <= -1 PROVE FALSE
    BY <1>1
  <2>2. n * (x \div n) <= -n
    BY <1>1, <2>1
  <2>3. QED
    BY <1>1, <1>2, <2>2
<1>4. QED
  BY <1>1, <1>2, <1>3

LEMMA RemaindersAreUnique ==
  ASSUME NEW n \in Nat, n > 0, NEW q \in Int, NEW p \in Int,
         NEW r \in 0 .. n - 1, NEW s \in 0 .. n - 1, n * q + r = n * p + s
  PROVE  q = p
<1>1. n * (q - p) = s - r
  OBVIOUS
<1>2. CASE q > p
  <2>1. n * (q - p) >= n
    BY <1>2
  <2>2. QED
    BY <1>1, <2>1
<1>3. CASE q < p
  <2>1. n * (q - p) <= -n
    BY <1>3
  <2>2. QED
    BY <1>1, <2>1
<1>4. QED
  BY <1>2, <1>3

LEMMA RemainderOccurs ==
  ASSUME NEW n \in Nat, n > 0, NEW c \in Nat, NEW k \in 0 .. n - 1
  PROVE  \E d \in 0 .. n - 1 : (c + d) % n = k
<1> DEFINE r == c % n
           d == IF k >= r THEN k - r ELSE k - r + n
           x == c + d
<1>1. r \in 0 .. n - 1 /\ c = n * (c \div n) + r /\ c \div n \in Nat
  BY DivMod
<1>2. d \in 0 .. n - 1 /\ x \in Nat
  BY <1>1
<1>3. x % n \in 0 .. n - 1 /\ x = n * (x \div n) + (x % n) /\ x \div n \in Nat
  BY <1>2, DivMod
<1>4. PICK q \in Int : x = n * q + k
  <2>1. k >= r => x = n * (c \div n) + k
    BY <1>1
  <2>2. k < r => x = n * ((c \div n) + 1) + k
    <3>1. n * ((c \div n) + 1) = n * (c \div n) + n
      BY <1>1
    <3>2. QED
      BY <1>1, <3>1
  <2>3. c \div n \in Int /\ (c \div n) + 1 \in Int /\ (k >= r \/ k < r)
    BY <1>1
  <2> HIDE DEF x, r, d
  <2>4. QED
    BY <2>1, <2>2, <2>3
<1>5. q = x \div n
  BY <1>3, <1>4, RemaindersAreUnique
<1>6. x % n = k
  BY <1>3, <1>4, <1>5
<1>7. QED
  BY <1>2, <1>6

LEMMA RemaindersDiffer ==
  ASSUME NEW n \in Nat, n > 0, NEW x \in Nat, NEW y \in Nat,
         x <= y, y < x + n, x % n = y % n
  PROVE  x = y
<1>1. x = n * (x \div n) + (x % n) /\ x \div n \in Nat /\ x % n \in 0 .. n - 1
  BY DivMod
<1>2. y = n * (y \div n) + (x % n) /\ y \div n \in Nat
  BY DivMod
<1>3. y - x = n * (y \div n - x \div n)
  BY <1>1, <1>2
<1>4. CASE y \div n > x \div n
  <2>1. n * (y \div n - x \div n) >= n
    BY <1>1, <1>2, <1>4
  <2>2. QED
    BY <1>3, <2>1
<1>5. CASE y \div n <= x \div n
  <2>1. n * (y \div n) <= n * (x \div n)
    BY <1>1, <1>2, <1>5
  <2>2. QED
    BY <1>1, <1>2, <2>1
<1>6. QED
  BY <1>1, <1>2, <1>4, <1>5

\* The choice of RoundRobinBalancer when its counter is c.
TurnAt(list, c) == CHOOSE i \in list : IndexIn(list, i) = c % Cardinality(list)

LEMMA TurnAtCounter == ASSUME NEW list PROVE TurnOf(list) = TurnAt(list, counter)
BY DEF TurnOf, TurnAt

\* RoundRobinBalancer, whose counter only counts up: as many choices in a row
\* as a list has members choose each of them once, wherever the counter was.
THEOREM TurnsGoRound ==
  ASSUME RegistryOK, OrderOK, NEW list \in SUBSET Registered, list # {},
         NEW c \in Nat, NEW i \in list
  PROVE  \E d \in 0 .. Cardinality(list) - 1 :
           /\ TurnAt(list, c + d) = i
           /\ \A e \in 0 .. Cardinality(list) - 1 : TurnAt(list, c + e) = i => e = d
<1> DEFINE n == Cardinality(list)
<1>1. n \in Nat /\ n > 0
  BY ListIsFinite
<1> HIDE DEF n
<1>2. /\ \A j \in list : IndexIn(list, j) \in 0 .. n - 1
      /\ \A k \in 0 .. n - 1 : \E j \in list : IndexIn(list, j) = k
      /\ \A j, k \in list : IndexIn(list, j) = IndexIn(list, k) => j = k
  BY IndexesAreTurns DEF n
<1>3. \A x \in Nat :
        TurnAt(list, x) \in list /\ IndexIn(list, TurnAt(list, x)) = x % n
  <2>1. TAKE x \in Nat
  <2>2. x % n \in 0 .. n - 1
    BY <1>1
  <2>3. \E j \in list : IndexIn(list, j) = x % n
    BY <1>2, <2>2
  <2>4. QED
    BY <2>3 DEF TurnAt, n
<1>4. PICK d \in 0 .. n - 1 : (c + d) % n = IndexIn(list, i)
  BY <1>1, <1>2, RemainderOccurs
<1>5. TurnAt(list, c + d) = i
  <2>1. c + d \in Nat
    BY <1>1
  <2>2. QED
    BY <1>2, <1>3, <1>4, <2>1
<1>6. ASSUME NEW e \in 0 .. n - 1, TurnAt(list, c + e) = i PROVE e = d
  <2>1. c + e \in Nat /\ c + d \in Nat
    BY <1>1
  <2>2. (c + e) % n = (c + d) % n
    BY <1>3, <1>5, <1>6, <2>1
  <2>3. c + e <= c + d => c + e = c + d
    BY <1>1, <2>1, <2>2, RemaindersDiffer
  <2>4. c + d <= c + e => c + e = c + d
    BY <1>1, <2>1, <2>2, RemaindersDiffer
  <2>5. QED
    BY <1>1, <2>1, <2>3, <2>4
<1>7. QED
  BY <1>5, <1>6 DEF n

\* LeastConnectionsBalancer: there is a first of those with the fewest.
LEMMA FewestIsFirst ==
  ASSUME RegistryOK, OrderOK, NEW list \in SUBSET Registered, list # {},
         connections \in [Ids -> Nat]
  PROVE  /\ FirstFewest(list) \in list
         /\ \A j \in list \ {FirstFewest(list)} : Fewer(FirstFewest(list), j)
<1> DEFINE R == {e \in list \X list : Fewer(e[1], e[2])}
<1>1. IsFiniteSet(list) /\ Cardinality(list) \in Nat \ {0}
  BY ListIsFinite
<1>2. \A i, j \in list : <<i, j>> \in R <=> Fewer(i, j)
  OBVIOUS
<1> HIDE DEF R
<1>3. \A i \in list : connections[i] \in Nat
  BY DEF Registered
<1>4. IsStrictOrder(R, list)
  <2>1. /\ \A i, j \in list : i # j => Before(i, j) \/ Before(j, i)
        /\ \A i \in list : ~Before(i, i)
        /\ \A i, j, l \in list : Before(i, j) /\ Before(j, l) => Before(i, l)
    BY BeforeIsStrict
  <2>2. QED
    BY <1>2, <1>3, <2>1 DEF Fewer, IsStrictOrder
<1>5. PICK index : index = [i \in list |-> Cardinality({j \in list : <<j, i>> \in R})]
  OBVIOUS
<1>6. PICK i \in list : index[i] = 0
  <2>1. 0 \in 0 .. Cardinality(list) - 1
    BY <1>1
  <2>2. QED
    BY <1>1, <1>4, <1>5, <2>1, EveryIndexIsTaken
<1>7. {j \in list : <<j, i>> \in R} = {}
  <2>1. IsFiniteSet({j \in list : <<j, i>> \in R})
    BY <1>1, FS_Subset
  <2>2. Cardinality({j \in list : <<j, i>> \in R}) = 0
    BY <1>5, <1>6
  <2>3. QED
    BY <2>1, <2>2, FS_EmptySet
<1>8. \A j \in list \ {i} : Fewer(i, j)
  BY <1>2, <1>4, <1>7 DEF IsStrictOrder
<1>9. QED
  BY <1>8 DEF FirstFewest

\* Either balancer picks one of the list.
LEMMA PickedIsInList ==
  ASSUME RegistryOK, OrderOK, NEW list \in SUBSET Registered, list # {},
         counter \in Nat, connections \in [Ids -> Nat]
  PROVE  Picked(list) \in list
BY TurnIsTaken, FewestIsFirst DEF Picked

-----------------------------------------------------------------------------
(* Requests and connections.                                               *)

CountsOK ==
  /\ strategy \in {"round_robin", "least_conn"}
  /\ counter \in 0 .. Cycle - 1
  /\ connections \in [Ids -> Nat]
  /\ routed \in [Requests -> Ids \cup {Absent}]
  /\ NeverOvercounted

\* What a request's coming or going does to the number it is served by.
LEMMA ServingIsCounted ==
  ASSUME NEW r \in Requests, NEW i \in Ids, NEW x,
         routed \in [Requests -> Ids \cup {Absent}],
         routed' = [routed EXCEPT ![r] = x]
  PROVE  /\ Serving(i) \in Nat /\ Serving(i)' \in Nat
         /\ routed[r] # i /\ x = i => Serving(i)' = Serving(i) + 1
         /\ routed[r] = i /\ x # i => Serving(i)' = Serving(i) - 1
         /\ (routed[r] = i <=> x = i) => Serving(i)' = Serving(i)
<1> DEFINE before == {q \in Requests : routed[q] = i}
           after == {q \in Requests : routed'[q] = i}
<1>1. IsFiniteSet(before) /\ IsFiniteSet(after)
  BY FleetAssumption, FS_Subset
<1>2. routed'[r] = x /\ \A q \in Requests \ {r} : routed'[q] = routed[q]
  OBVIOUS
<1>3. Serving(i) = Cardinality(before) /\ Serving(i)' = Cardinality(after)
  BY DEF Serving
<1>4. Serving(i) \in Nat /\ Serving(i)' \in Nat
  BY <1>1, <1>3, FS_CardinalityType
<1>5. ASSUME routed[r] # i, x = i PROVE Serving(i)' = Serving(i) + 1
  <2>1. after = before \cup {r} /\ r \notin before
    BY <1>2, <1>5
  <2>2. QED
    BY <1>1, <1>3, <2>1, FS_AddElement
<1>6. ASSUME routed[r] = i, x # i PROVE Serving(i)' = Serving(i) - 1
  <2>1. after = before \ {r} /\ r \in before
    BY <1>2, <1>6
  <2>2. QED
    BY <1>1, <1>3, <2>1, FS_RemoveElement
<1>7. ASSUME routed[r] = i <=> x = i PROVE Serving(i)' = Serving(i)
  <2>1. after = before
    BY <1>2, <1>7
  <2>2. QED
    BY <1>3, <2>1
<1>8. QED
  BY <1>4, <1>5, <1>6, <1>7

LEMMA RouteKeepsCounts ==
  ASSUME RegistryOK, OrderOK, CountsOK,
         NEW r \in Requests, NEW m \in Models, Route(r, m)
  PROVE  CountsOK'
<1>1. Cycle \in Nat \ {0} /\ Absent \notin Ids
  BY FleetAssumption
<1>2. PICK out \in SUBSET Registered :
        LET list == ListByModel(m) \ out
            i == Picked(FirstTier(list))
        IN  /\ list # {}
            /\ routed' = [routed EXCEPT ![r] = i]
            /\ connections' = IF strategy = "least_conn"
                              THEN [connections EXCEPT ![i] = @ + 1] ELSE connections
  BY DEF Route
<1> DEFINE list == ListByModel(m) \ out
           tier == FirstTier(list)
           i == Picked(tier)
<1>3. tier \in SUBSET Registered /\ tier # {}
  BY <1>2 DEF FirstTier, ListByModel
<1> HIDE DEF tier
<1>4. i \in Ids
  <2>1. counter \in Nat /\ connections \in [Ids -> Nat]
    BY <1>1 DEF CountsOK
  <2>2. QED
    BY <1>3, <2>1, PickedIsInList DEF Registered
<1> HIDE DEF i
<1>5. /\ routed[r] = Absent /\ routed' = [routed EXCEPT ![r] = i]
      /\ connections' = IF strategy = "least_conn"
                        THEN [connections EXCEPT ![i] = @ + 1] ELSE connections
  BY <1>2 DEF Route, i, tier
<1>6. routed' \in [Requests -> Ids \cup {Absent}]
  BY <1>4, <1>5 DEF CountsOK
<1>7. connections' \in [Ids -> Nat]
  BY <1>4, <1>5 DEF CountsOK
<1>8. strategy' = strategy /\ counter' \in 0 .. Cycle - 1
  <2>1. counter \in Nat
    BY <1>1 DEF CountsOK
  <2>2. (counter + 1) % Cycle \in 0 .. Cycle - 1
    BY <1>1, <2>1
  <2>3. QED
    BY <2>2 DEF Route, CountsOK
<1>9. ASSUME NEW j \in Ids PROVE connections'[j] <= Serving(j)'
  <2>1. /\ Serving(j) \in Nat /\ Serving(j)' \in Nat
        /\ i = j => Serving(j)' = Serving(j) + 1
        /\ i # j => Serving(j)' = Serving(j)
    BY <1>1, <1>5, ServingIsCounted DEF CountsOK
  <2>2. connections[j] \in Nat /\ connections[j] <= Serving(j)
    BY DEF CountsOK, NeverOvercounted
  <2>3. /\ i = j => connections'[j] \in {connections[j], connections[j] + 1}
        /\ i # j => connections'[j] = connections[j]
    BY <1>4, <1>5 DEF CountsOK
  <2>4. QED
    BY <2>1, <2>2, <2>3
<1>10. QED
  BY <1>6, <1>7, <1>8, <1>9 DEF CountsOK, NeverOvercounted

\* A request ends, or its stream breaks and is counted out twice.
LEMMA EndKeepsCounts ==
  ASSUME CountsOK, NEW r \in Requests, EndRequest(r) \/ StreamBreaks(r)
  PROVE  CountsOK'
<1> DEFINE i == routed[r]
           n == connections'[i]
<1>1. i \in Ids /\ routed' = [routed EXCEPT ![r] = Absent] /\ Absent \notin Ids
  BY FleetAssumption DEF EndRequest, StreamBreaks, CountsOK
<1>2. \A c \in Nat :
        OneLess(c) \in Nat /\ OneLess(c) = (IF c > 0 THEN c - 1 ELSE 0)
  BY DEF OneLess
<1>3. \/ connections' = [connections EXCEPT ![i] = OneLess(connections[i])]
      \/ connections' = [connections EXCEPT ![i] = OneLess(OneLess(connections[i]))]
  BY DEF EndRequest, StreamBreaks
<1>4. /\ connections' \in [Ids -> Nat]
      /\ n \in {OneLess(connections[i]), OneLess(OneLess(connections[i]))}
      /\ \A j \in Ids \ {i} : connections'[j] = connections[j]
  BY <1>1, <1>2, <1>3 DEF CountsOK
<1>5. ASSUME NEW j \in Ids PROVE connections'[j] <= Serving(j)'
  <2>1. /\ Serving(j) \in Nat /\ Serving(j)' \in Nat
        /\ i = j => Serving(j)' = Serving(j) - 1
        /\ i # j => Serving(j)' = Serving(j)
    BY <1>1, ServingIsCounted DEF CountsOK
  <2>2. connections[j] \in Nat /\ connections[j] <= Serving(j)
    BY DEF CountsOK, NeverOvercounted
  <2>3. CASE j = i
    BY <1>2, <1>4, <2>1, <2>2, <2>3
  <2>4. CASE j # i
    BY <1>4, <2>1, <2>2, <2>4
  <2>5. QED
    BY <2>3, <2>4
<1>6. routed' \in [Requests -> Ids \cup {Absent}] /\ UNCHANGED <<strategy, counter>>
  BY <1>1 DEF CountsOK, EndRequest, StreamBreaks
<1>7. QED
  BY <1>4, <1>5, <1>6 DEF CountsOK, NeverOvercounted

\* Nobody is served when the dispatcher starts.
ServesNobody ==
  /\ strategy \in {"round_robin", "least_conn"} /\ counter = 0
  /\ connections = [i \in Ids |-> 0] /\ routed = [r \in Requests |-> Absent]

LEMMA NothingIsCounted == ServesNobody => CountsOK
<1> SUFFICES ASSUME ServesNobody PROVE CountsOK
  OBVIOUS
<1> USE DEF ServesNobody
<1>1. Cycle \in Nat \ {0} /\ Absent \notin Ids /\ IsFiniteSet(Requests)
  BY FleetAssumption
<1>2. \A i \in Ids : Serving(i) = 0
  <2>1. \A i \in Ids : {r \in Requests : routed[r] = i} = {}
    BY <1>1
  <2>2. QED
    BY <2>1, FS_EmptySet DEF Serving
<1>3. QED
  BY <1>1, <1>2 DEF CountsOK, NeverOvercounted

-----------------------------------------------------------------------------
(* All of it together.                                                     *)

ScriptsOK == old \in [Scripts -> Seq(Ids)] /\ disturbed \in BOOLEAN

WholeFleet == FleetOK /\ Listed /\ CountsOK /\ ScriptsOK

LEMMA WholeFleetInit == FleetInit => WholeFleet
<1> SUFFICES ASSUME FleetInit PROVE WholeFleet
  OBVIOUS
<1>1. FleetOK
  BY FleetOKInit
<1>2. Listed
  BY FileIsListed DEF FleetInit, HasTheFile
<1>3. CountsOK
  BY NothingIsCounted DEF FleetInit, ServesNobody
<1>4. ScriptsOK
  BY EmptySeq DEF FleetInit, ScriptsOK
<1>5. QED
  BY <1>1, <1>2, <1>3, <1>4 DEF WholeFleet

LEMMA SetupKeepsWhole ==
  ASSUME WholeFleet, NEW s \in Scripts, Setup(s)
  PROVE  Listed' /\ CountsOK' /\ ScriptsOK'
<1>1. RegistryOK /\ SetupOK /\ Listed /\ CountsOK /\ ScriptsOK
  BY DEF WholeFleet, FleetOK
<1>2. UNCHANGED <<balancer, routed>>
  BY DEF Setup, SetupLists, SetupDeletes, SetupHasDeleted, SetupSkipsDeleting, Posts,
     SetupPosts, SetupEnds, SetupDies
<1>3. CountsOK'
  BY <1>1, <1>2 DEF CountsOK, NeverOvercounted, Serving, balancer
<1>4. ASSUME UNCHANGED registry PROVE Listed'
  BY <1>1, <1>4 DEF registry, Listed, OrderOK, WarnedOfShadowing, Registered
<1>5. CASE SetupLists(s)
  <2>1. order \in Seq(Ids)
    BY <1>1 DEF Listed, OrderOK
  <2>2. ScriptsOK'
    BY <1>1, <1>5, <2>1 DEF SetupLists, ScriptsOK
  <2>3. QED
    BY <1>3, <1>4, <1>5, <2>2 DEF SetupLists
<1>6. CASE SetupDeletes(s)
  <2>1. Listed'
    BY <1>1, <1>4, <1>6, DeregisterKeepsListed DEF SetupDeletes
  <2>2. old[s] \in Seq(Ids) /\ old[s] # <<>>
    BY <1>1, <1>6 DEF SetupDeletes, ScriptsOK
  <2>3. Tail(old[s]) \in Seq(Ids)
    BY <2>2, HeadTailProperties
  <2>4. ScriptsOK'
    BY <1>1, <1>6, <2>3 DEF SetupDeletes, ScriptsOK
  <2>5. QED
    BY <1>3, <2>1, <2>4
<1>7. CASE Posts(s)
  <2>1. ScriptsOK'
    BY <1>1, <1>7, EmptySeq DEF Posts, ScriptsOK
  <2>2. QED
    BY <1>3, <1>4, <1>7, <2>1 DEF Posts
<1>8. CASE SetupPosts(s)
  <2> DEFINE m == Head(post[s])
  <2>1. /\ Register(InstanceId[m], BodyOf(m)) \/ UNCHANGED registry
        /\ UNCHANGED <<old, disturbed>>
    BY <1>8 DEF SetupPosts
  <2>2. m \in ToSet(Loaded)
    BY <1>1, <1>8, SequencesEnd DEF SetupPosts, SetupOK, ModelsAreOwed
  <2>3. Listed'
    BY <1>1, <1>4, <2>1, <2>2, BodyIsEntry, RegisterKeepsListed
  <2>4. QED
    BY <1>1, <1>3, <2>1, <2>3 DEF ScriptsOK
<1>9. CASE SetupEnds(s) \/ SetupDies(s)
  BY <1>1, <1>3, <1>4, <1>9 DEF SetupEnds, SetupDies, ScriptsOK
<1>10. QED
  BY <1>5, <1>6, <1>7, <1>8, <1>9 DEF Setup, SetupHasDeleted, SetupSkipsDeleting

LEMMA MarkKeepsListed ==
  ASSUME RegistryOK, Listed, MarkInstance
  PROVE  Listed'
<1>1. PICK i \in Registered : instance' = [instance EXCEPT ![i].healthy = ~@]
  BY DEF MarkInstance
<1>2. instance \in [Ids -> Instance \cup {Absent}] /\ instance[i] \in Instance
  BY DEF RegistryOK, Registered
<1>3. PICK j : j = [instance[i] EXCEPT !.healthy = ~instance[i].healthy]
  OBVIOUS
<1>4. /\ j \in Instance /\ j # Absent
      /\ j.entry = instance[i].entry /\ j.from = instance[i].from
      /\ j.warned = instance[i].warned
  BY <1>2, <1>3, FleetAssumption DEF Instance
<1>5. instance' = [instance EXCEPT ![i] = j]
  BY <1>1, <1>3
<1>6. /\ Registered' = Registered /\ UNCHANGED order
      /\ \A k \in Registered : /\ instance'[k].entry = instance[k].entry
                               /\ instance'[k].from = instance[k].from
                               /\ instance'[k].warned = instance[k].warned
  BY <1>2, <1>4, <1>5 DEF Registered, MarkInstance
<1>7. \A k \in DOMAIN order : order[k] \in Registered
  BY OrderIsAPermutation DEF Listed
<1>8. QED
  BY <1>6, <1>7 DEF Listed, OrderOK, WarnedOfShadowing

LEMMA WholeFleetNext == WholeFleet /\ [FleetNext]_fvars => WholeFleet'
<1> SUFFICES ASSUME WholeFleet, [FleetNext]_fvars PROVE WholeFleet'
  OBVIOUS
<1>1. RegistryOK /\ SetupOK /\ Listed /\ CountsOK /\ ScriptsOK
  BY DEF WholeFleet, FleetOK
<1>2. FleetOK'
  BY FleetOKNext DEF WholeFleet
<1>3. SUFFICES Listed' /\ CountsOK' /\ ScriptsOK'
  BY <1>2 DEF WholeFleet
<1>4. ASSUME UNCHANGED <<balancer, routed>> PROVE CountsOK'
  BY <1>1, <1>4 DEF CountsOK, NeverOvercounted, Serving, balancer
<1>5. ASSUME UNCHANGED registry PROVE Listed'
  BY <1>1, <1>5 DEF registry, Listed, OrderOK, WarnedOfShadowing, Registered
<1>6. ASSUME UNCHANGED <<setup, disturbed>> PROVE ScriptsOK'
  BY <1>1, <1>6 DEF ScriptsOK, setup
<1>7. CASE PostInstance
  <2>1. PICK b \in Manual : Register(b.id, b.entry)
    BY <1>7 DEF PostInstance
  <2>2. b.id \in Ids /\ b.entry \in Entry
    BY FleetAssumption
  <2>3. Listed'
    BY <1>1, <2>1, <2>2, RegisterKeepsListed
  <2>4. QED
    BY <1>4, <1>6, <1>7, <2>3 DEF PostInstance
<1>8. CASE DeleteInstance
  <2>1. Listed'
    BY <1>1, <1>8, DeregisterKeepsListed DEF DeleteInstance
  <2>2. ScriptsOK'
    BY <1>1, <1>8 DEF DeleteInstance, ScriptsOK, setup
  <2>3. QED
    BY <1>4, <1>8, <2>1, <2>2 DEF DeleteInstance
<1>9. CASE MarkInstance
  BY <1>1, <1>4, <1>6, <1>9, MarkKeepsListed DEF MarkInstance
<1>10. CASE Restart
  <2>1. Listed'
    <3>1. HasTheFile'
      BY <1>10 DEF Restart, HasTheFile
    <3>2. QED
      BY <3>1, FileIsListed, PTL
  <2>2. CountsOK'
    <3>1. ServesNobody'
      BY <1>1, <1>10 DEF Restart, CountsOK, ServesNobody
    <3>2. QED
      BY <3>1, NothingIsCounted, PTL
  <2>3. ScriptsOK'
    BY <1>1, <1>10 DEF Restart, ScriptsOK, setup
  <2>4. QED
    BY <2>1, <2>2, <2>3
<1>11. ASSUME NEW s \in Scripts, Setup(s) PROVE Listed' /\ CountsOK' /\ ScriptsOK'
  BY <1>11, SetupKeepsWhole
<1>12. ASSUME NEW r \in Requests, NEW m \in Models, Route(r, m)
       PROVE  Listed' /\ CountsOK' /\ ScriptsOK'
  <2>1. CountsOK'
    BY <1>1, <1>12, RouteKeepsCounts DEF Listed
  <2>2. QED
    BY <1>5, <1>6, <1>12, <2>1 DEF Route
<1>13. ASSUME NEW r \in Requests, EndRequest(r) \/ StreamBreaks(r)
       PROVE  Listed' /\ CountsOK' /\ ScriptsOK'
  <2>1. CountsOK'
    BY <1>1, <1>13, EndKeepsCounts
  <2>2. QED
    BY <1>5, <1>6, <1>13, <2>1 DEF EndRequest, StreamBreaks
<1>14. CASE UNCHANGED fvars
  BY <1>4, <1>5, <1>6, <1>14 DEF fvars
<1>15. QED
  BY <1>7, <1>8, <1>9, <1>10, <1>11, <1>12, <1>13, <1>14 DEF FleetNext

LEMMA FleetIsWhole == FleetSpec => []WholeFleet
BY WholeFleetInit, WholeFleetNext, PTL DEF FleetSpec

\* Every variable keeps its type, and the dict's order lists each registered
\* instance once: whatever a balancer picks is registered.
THEOREM FleetIsTyped == FleetSpec => []FleetTypeOK
<1>1. WholeFleet => FleetTypeOK
  BY DEF WholeFleet, FleetOK, RegistryOK, SetupOK, Listed, OrderOK, CountsOK,
     ScriptsOK, FleetTypeOK
<1>2. QED
  BY <1>1, FleetIsWhole, PTL

\* Of a wildcard and an exact model on one address, whoever registered the
\* later one by the admin API was shown a warning.
THEOREM ShadowingIsTold == FleetSpec => []WarnedOfShadowing
<1>1. WholeFleet => WarnedOfShadowing
  BY DEF WholeFleet, Listed
<1>2. QED
  BY <1>1, FleetIsWhole, PTL

\* least_conn counts no connection that no request holds, although a broken
\* stream is counted out twice and an id may be registered anew.
THEOREM ConnectionsAreHeld == FleetSpec => []NeverOvercounted
<1>1. WholeFleet => NeverOvercounted
  BY DEF WholeFleet, CountsOK
<1>2. QED
  BY <1>1, FleetIsWhole, PTL

\* So an instance that serves nobody is never passed over for one with a
\* request counted: least_conn then picks one without any.
IdleFirst ==
  strategy = "least_conn" =>
    \A list \in SUBSET Registered :
      (\E j \in list : Serving(j) = 0) => connections[Picked(list)] = 0

THEOREM IdleIsPreferred == FleetSpec => []IdleFirst
<1>1. WholeFleet => IdleFirst
  <2>1. SUFFICES ASSUME WholeFleet, strategy = "least_conn",
                        NEW list \in SUBSET Registered,
                        NEW j \in list, Serving(j) = 0
                 PROVE  connections[Picked(list)] = 0
    BY DEF IdleFirst
  <2>2. RegistryOK /\ OrderOK /\ CountsOK
    BY <2>1 DEF WholeFleet, FleetOK, Listed
  <2>3. connections \in [Ids -> Nat] /\ list \subseteq Ids
    BY <2>2 DEF CountsOK, Registered
  <2>4. connections[j] = 0
    BY <2>1, <2>2, <2>3 DEF CountsOK, NeverOvercounted
  <2>5. /\ Picked(list) \in list
        /\ j # Picked(list) => Fewer(Picked(list), j)
    BY <2>1, <2>2, <2>3, FewestIsFirst DEF Picked
  <2>6. QED
    BY <2>3, <2>4, <2>5 DEF Fewer
<1>2. QED
  BY <1>1, FleetIsWhole, PTL

=============================================================================
