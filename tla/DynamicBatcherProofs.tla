------------------------ MODULE DynamicBatcherProofs ------------------------
(***************************************************************************)
(* The batcher never sends too large a batch and never sends a request     *)
(* twice, for any requests, impatient callers and max_batch_size.          *)
(***************************************************************************)
EXTENDS DynamicBatcher, FiniteSetTheorems, TLAPS

\* Sets of requests are finite.
LEMMA RequestsAreFinite ==
  ASSUME NEW S, S \subseteq Requests
  PROVE  IsFiniteSet(S) /\ Cardinality(S) \in Nat
BY FS_Subset, FS_CardinalityType, BatcherAssumption

\* One request more makes the buffer at most one larger: the buffer that is
\* full for the first time has exactly room for max_batch_size.
LEMMA OneMore ==
  ASSUME NEW S, S \subseteq Requests, NEW r \in Requests
  PROVE  /\ Cardinality(S \cup {r}) \in Nat
         /\ Cardinality(S \cup {r}) <= Cardinality(S) + 1
<1>1. IsFiniteSet(S) /\ Cardinality(S) \in Nat
  BY RequestsAreFinite
<1>2. Cardinality(S \cup {r}) =
        IF r \in S THEN Cardinality(S) ELSE Cardinality(S) + 1
  BY <1>1, FS_AddElement
<1>3. QED
  BY <1>1, <1>2

\* Nothing has been submitted: the invariant holds.
LEMMA InductiveInit == Init => Inductive
<1>1. Cardinality({}) = 0
  BY FS_EmptySet
<1>2. MaxBatchSize \in Nat /\ MaxBatchSize > 0
  BY BatcherAssumption
<1>3. Timer \in Tasks
  BY DEF Tasks
<1>4. SUFFICES ASSUME Init PROVE Inductive
  OBVIOUS
<1>5. TypeOK
  BY <1>4 DEF Init, TypeOK
<1>6. BatchesAreBounded
  BY <1>1, <1>2, <1>4 DEF Init, BatchesAreBounded
<1>7. HeldOnce
  BY <1>4 DEF Init, HeldOnce
<1>8. OwnersAwait
  BY <1>3, <1>4 DEF Init, OwnersAwait, Tasks
<1>9. BufferIsTimed
  BY <1>4 DEF Init, BufferIsTimed
<1>10. QED
  BY <1>5, <1>6, <1>7, <1>8, <1>9 DEF Inductive

\* What a request is that may be submitted: no task awaits anything for it,
\* and it is in no batch.
LEMMA FreePlace ==
  ASSUME Inductive, NEW r \in Requests, r \notin waiting \cup Held
  PROVE  /\ r \notin buffer /\ batch[r] = {}
         /\ \A t \in Tasks : r \notin batch[t]
<1>1. r \in Tasks
  BY DEF Tasks
<1>2. QED
  BY <1>1 DEF Inductive, OwnersAwait, Held, Sent

\* submit() of a request that fills the buffer.
LEMMA SubmitLastKeeps ==
  ASSUME Inductive, NEW r \in Requests, r \notin waiting \cup Held,
         waiting' = waiting \cup {r}, SubmitLast(r)
  PROVE  Inductive'
<1> DEFINE b == buffer \cup {r}
<1>1. /\ Timer \in Tasks /\ r \in Tasks /\ Timer # r
      /\ MaxBatchSize \in Nat /\ MaxBatchSize > 0
  BY BatcherAssumption DEF Tasks
<1>2. /\ buffer' = {} /\ late' = {}
      /\ batch' = [batch EXCEPT ![Timer] = {}, ![r] = b]
      /\ timer' \in {"done", "cancelled"}
  BY DEF SubmitLast, Emptied, Cancelled
<1>3. /\ buffer \subseteq Requests /\ waiting \subseteq Requests
      /\ batch \in [Tasks -> SUBSET Requests]
  BY DEF Inductive, TypeOK
<1>4. /\ batch'[Timer] = {} /\ batch'[r] = b
      /\ \A t \in Tasks \ {Timer, r} : batch'[t] = batch[t]
  BY <1>1, <1>2, <1>3
<1>5. /\ r \notin buffer
      /\ \A t \in Tasks : r \notin batch[t]
  BY FreePlace
<1>6. TypeOK'
  BY <1>2, <1>3 DEF TypeOK
<1>7. BatchesAreBounded'
  <2>1. Cardinality(b) <= MaxBatchSize
    <3>1. Cardinality(buffer) \in Nat /\ Cardinality(buffer) < MaxBatchSize
      BY <1>3, RequestsAreFinite DEF Inductive, BatchesAreBounded
    <3>2. Cardinality(b) \in Nat /\ Cardinality(b) <= Cardinality(buffer) + 1
      BY <1>3, OneMore
    <3>3. QED
      BY <1>1, <3>1, <3>2
  <2>2. Cardinality({}) = 0
    BY FS_EmptySet
  <2>3. \A t \in Tasks : Cardinality(batch[t]) <= MaxBatchSize
    BY DEF Inductive, BatchesAreBounded
  <2>4. \A t \in Tasks : Cardinality(batch'[t]) <= MaxBatchSize
    BY <1>1, <1>4, <2>1, <2>2, <2>3
  <2>5. Cardinality(buffer') < MaxBatchSize
    BY <1>1, <1>2, <2>2
  <2>6. QED
    BY <2>4, <2>5 DEF BatchesAreBounded
<1>8. HeldOnce'
  <2>1. \A t \in Tasks : buffer \cap batch[t] = {}
    BY DEF Inductive, HeldOnce
  <2>2. \A t, u \in Tasks : t # u => batch[t] \cap batch[u] = {}
    BY DEF Inductive, HeldOnce
  <2>3. \A t \in Tasks \ {Timer, r} : b \cap batch[t] = {}
    BY <1>5, <2>1
  <2>4. \A t, u \in Tasks : t # u => batch'[t] \cap batch'[u] = {}
    BY <1>1, <1>4, <2>2, <2>3
  <2>5. QED
    BY <1>2, <2>4 DEF HeldOnce
<1>9. OwnersAwait'
  <2>1. \A q \in Requests : q \in Tasks /\ q # Timer
    BY BatcherAssumption DEF Tasks
  <2>2. \A q \in Requests : batch[q] # {} => q \in batch[q] /\ q \in waiting
    BY DEF Inductive, OwnersAwait
  <2>3. \A q \in Requests : batch'[q] # {} => q \in batch'[q] /\ q \in waiting'
    BY <1>4, <2>1, <2>2
  <2>4. batch'[Timer] = {} /\ timer' # "sending"
    BY <1>2, <1>4
  <2>5. QED
    BY <2>3, <2>4 DEF OwnersAwait
<1>10. BufferIsTimed'
  BY <1>2 DEF BufferIsTimed
<1>11. QED
  BY <1>6, <1>7, <1>8, <1>9, <1>10 DEF Inductive

\* submit() of a request that leaves room in the buffer.
LEMMA SubmitEarlyKeeps ==
  ASSUME Inductive, NEW r \in Requests, r \notin waiting \cup Held,
         waiting' = waiting \cup {r}, SubmitEarly(r)
  PROVE  Inductive'
<1>1. /\ buffer' = buffer \cup {r} /\ batch' = batch
      /\ timer' = IF timer = "done" THEN "sleeping" ELSE timer
      /\ ~IsFull(buffer \cup {r}) /\ late' = LateWith(r)
  BY DEF SubmitEarly
<1>2. /\ \A t \in Tasks : r \notin batch[t]
      /\ buffer \subseteq Requests
  BY FreePlace DEF Inductive, TypeOK
<1>3. TypeOK'
  BY <1>1 DEF Inductive, TypeOK, LateWith
<1>4. BatchesAreBounded'
  <2>1. Cardinality(buffer \cup {r}) \in Nat /\ MaxBatchSize \in Nat
    BY <1>2, OneMore, BatcherAssumption
  <2>2. QED
    BY <1>1, <2>1 DEF Inductive, BatchesAreBounded, IsFull
<1>5. HeldOnce'
  BY <1>1, <1>2 DEF Inductive, HeldOnce
<1>6. OwnersAwait'
  BY <1>1 DEF Inductive, OwnersAwait
<1>7. BufferIsTimed'
  BY <1>1 DEF Inductive, BufferIsTimed, LateWith
<1>8. QED
  BY <1>3, <1>4, <1>5, <1>6, <1>7 DEF Inductive

\* flush() by a task that awaits no batch, whatever becomes of the timer: the
\* batch is the buffer as it was.
LEMMA FlushKeeps ==
  ASSUME Inductive, NEW t \in Tasks \ Requests, batch[t] = {}, Flush(t),
         waiting' = waiting,
         timer' = IF t = Timer THEN "sending" ELSE timer
  PROVE  Inductive'
<1>1. /\ buffer # {} /\ buffer' = {} /\ late' = {}
      /\ batch' = [batch EXCEPT ![t] = buffer]
  BY DEF Flush, Emptied
<1>2. /\ buffer \subseteq Requests
      /\ batch \in [Tasks -> SUBSET Requests]
  BY DEF Inductive, TypeOK
<1>3. /\ batch'[t] = buffer
      /\ \A u \in Tasks \ {t} : batch'[u] = batch[u]
  BY <1>1, <1>2
<1>4. TypeOK'
  BY <1>1, <1>2 DEF Inductive, TypeOK
<1>5. BatchesAreBounded'
  <2>1. Cardinality({}) = 0 /\ MaxBatchSize \in Nat /\ MaxBatchSize > 0
    BY FS_EmptySet, BatcherAssumption
  <2>2. Cardinality(buffer) \in Nat /\ Cardinality(buffer) < MaxBatchSize
    BY <1>2, RequestsAreFinite DEF Inductive, BatchesAreBounded
  <2>3. \A u \in Tasks : Cardinality(batch[u]) <= MaxBatchSize
    BY DEF Inductive, BatchesAreBounded
  <2>4. \A u \in Tasks : Cardinality(batch'[u]) <= MaxBatchSize
    BY <1>3, <2>1, <2>2, <2>3
  <2>5. QED
    BY <1>1, <2>1, <2>4 DEF BatchesAreBounded
<1>6. HeldOnce'
  <2>1. \A u \in Tasks : buffer \cap batch[u] = {}
    BY DEF Inductive, HeldOnce
  <2>2. \A u, v \in Tasks : u # v => batch[u] \cap batch[v] = {}
    BY DEF Inductive, HeldOnce
  <2>3. \A u, v \in Tasks : u # v => batch'[u] \cap batch'[v] = {}
    BY <1>3, <2>1, <2>2
  <2>4. QED
    BY <1>1, <2>3 DEF HeldOnce
<1>7. OwnersAwait'
  <2>1. \A r \in Requests : r \in Tasks \ {t} /\ batch'[r] = batch[r]
    BY <1>3 DEF Tasks
  <2>2. \A r \in Requests : batch[r] # {} => r \in batch[r] /\ r \in waiting
    BY DEF Inductive, OwnersAwait
  <2>3. batch[Timer] # {} <=> timer = "sending"
    BY DEF Inductive, OwnersAwait
  <2>4. batch'[Timer] # {} <=> timer' = "sending"
    <3>1. Timer \in Tasks
      BY DEF Tasks
    <3>2. QED
      BY <1>1, <1>3, <2>3, <3>1
  <2>5. QED
    BY <2>1, <2>2, <2>4 DEF OwnersAwait
<1>8. BufferIsTimed'
  BY <1>1 DEF BufferIsTimed
<1>9. QED
  BY <1>4, <1>5, <1>6, <1>7, <1>8 DEF Inductive

\* A batch that ends, answered or cancelled, leaves smaller batches behind.
LEMMA BatchEndKeeps ==
  ASSUME Inductive, NEW t \in Tasks, batch' = [batch EXCEPT ![t] = {}],
         t = Timer => batch[t] # {},
         UNCHANGED <<buffer, late>>, waiting' \subseteq waiting,
         \A r \in Requests \ {t} : batch[r] # {} => r \in waiting',
         timer' = IF t = Timer THEN "done" ELSE timer
  PROVE  Inductive'
<1>1. /\ waiting \subseteq Requests
      /\ batch \in [Tasks -> SUBSET Requests]
  BY DEF Inductive, TypeOK
<1>2. /\ batch'[t] = {}
      /\ \A u \in Tasks \ {t} : batch'[u] = batch[u]
  BY <1>1
<1>3. TypeOK'
  BY <1>1 DEF Inductive, TypeOK
<1>4. BatchesAreBounded'
  <2>1. Cardinality({}) = 0 /\ MaxBatchSize \in Nat /\ MaxBatchSize > 0
    BY FS_EmptySet, BatcherAssumption
  <2>2. QED
    BY <1>2, <2>1 DEF Inductive, BatchesAreBounded
<1>5. HeldOnce'
  BY <1>2 DEF Inductive, HeldOnce
<1>6. OwnersAwait'
  <2>1. \A r \in Requests : r \in Tasks
    BY DEF Tasks
  <2>2. \A r \in Requests : batch'[r] # {} => r \in batch'[r] /\ r \in waiting'
    BY <1>2, <2>1 DEF Inductive, OwnersAwait
  <2>3. batch[Timer] # {} <=> timer = "sending"
    BY DEF Inductive, OwnersAwait
  <2>4. batch'[Timer] # {} <=> timer' = "sending"
    <3>1. Timer \in Tasks
      BY DEF Tasks
    <3>2. QED
      BY <1>2, <2>3, <3>1
  <2>5. QED
    BY <2>2, <2>4 DEF OwnersAwait
<1>7. BufferIsTimed'
  <2>1. t = Timer => timer = "sending"
    BY DEF Inductive, OwnersAwait
  <2>2. QED
    BY <2>1 DEF Inductive, BufferIsTimed
<1>8. QED
  BY <1>3, <1>4, <1>5, <1>6, <1>7 DEF Inductive

\* Every action keeps the invariant.
LEMMA InductiveNext == Inductive /\ [Next]_vars => Inductive'
<1>1. SUFFICES ASSUME Inductive, [Next]_vars PROVE Inductive'
  OBVIOUS
<1>2. ASSUME NEW r \in Requests, Submit(r) PROVE Inductive'
  <2>1. r \notin waiting \cup Held /\ waiting' = waiting \cup {r}
    BY <1>2 DEF Submit
  <2>2. CASE SubmitLast(r)
    BY <1>1, <2>1, <2>2, SubmitLastKeeps
  <2>3. CASE SubmitEarly(r)
    BY <1>1, <2>1, <2>3, SubmitEarlyKeeps
  <2>4. QED
    BY <1>2, <2>2, <2>3 DEF Submit
<1>3. ASSUME NEW r \in Requests, Abandon(r) PROVE Inductive'
  <2>1. /\ r \in Tasks /\ r # Timer
    BY BatcherAssumption DEF Tasks
  <2>2. /\ waiting' = waiting \ {r} /\ batch' = [batch EXCEPT ![r] = {}]
        /\ UNCHANGED <<buffer, late>> /\ timer' = timer
    BY <1>3 DEF Abandon
  <2>3. \A q \in Requests \ {r} : batch[q] # {} => q \in waiting'
    BY <1>1, <2>2 DEF Inductive, OwnersAwait
  <2>4. QED
    BY <1>1, <2>1, <2>2, <2>3, BatchEndKeeps
<1>4. ASSUME NEW t \in Tasks, BatchAnswered(t) PROVE Inductive'
  <2>1. /\ waiting' = waiting \ batch[t] /\ batch' = [batch EXCEPT ![t] = {}]
        /\ timer' = IF t = Timer THEN "done" ELSE timer
        /\ UNCHANGED <<buffer, late>> /\ batch[t] # {}
    BY <1>4 DEF BatchAnswered
  <2>2. ASSUME NEW q \in Requests \ {t}, batch[q] # {} PROVE q \in waiting'
    <3>1. q \in Tasks
      BY DEF Tasks
    <3>2. q \in batch[q] /\ q \in waiting /\ batch[q] \cap batch[t] = {}
      BY <1>1, <2>2, <3>1 DEF Inductive, OwnersAwait, HeldOnce
    <3>3. QED
      BY <2>1, <3>2
  <2>3. QED
    BY <1>1, <2>1, <2>2, BatchEndKeeps
<1>5. ASSUME TimerFires PROVE Inductive'
  <2>1. /\ Timer \in Tasks \ Requests
        /\ timer = "sleeping" /\ batch[Timer] = {} /\ waiting' = waiting
    BY <1>1, <1>5, BatcherAssumption
       DEF TimerFires, Inductive, OwnersAwait, Tasks
  <2>2. CASE Flush(Timer) /\ timer' = "sending"
    BY <1>1, <2>1, <2>2, FlushKeeps
  <2>3. CASE buffer = {} /\ timer' = "done" /\ UNCHANGED <<buffer, batch, late>>
    BY <1>1, <2>1, <2>3
       DEF Inductive, TypeOK, BatchesAreBounded, HeldOnce, OwnersAwait, BufferIsTimed
  <2>4. QED
    BY <1>5, <2>2, <2>3 DEF TimerFires
<1>6. ASSUME TimerCancelled PROVE Inductive'
  BY <1>1, <1>6 DEF TimerCancelled, Inductive, TypeOK, BatchesAreBounded,
     HeldOnce, OwnersAwait, BufferIsTimed
<1>7. ASSUME OutsiderFlushes PROVE Inductive'
  <2>1. Outsider \in Tasks \ Requests /\ Outsider # Timer
    BY BatcherAssumption DEF Tasks
  <2>2. QED
    BY <1>1, <1>7, <2>1, FlushKeeps DEF OutsiderFlushes
<1>8. CASE UNCHANGED vars
  BY <1>1, <1>8 DEF vars, Inductive, TypeOK, BatchesAreBounded, HeldOnce,
     OwnersAwait, BufferIsTimed
<1>9. QED
  BY <1>1, <1>2, <1>3, <1>4, <1>5, <1>6, <1>7, <1>8 DEF Next

\* No batch is larger than max_batch_size, no request is forwarded twice, and
\* only live submit() calls await a batch, in every reachable state.
THEOREM BatcherInductive == Spec => []Inductive
<1>1. QED
  BY InductiveInit, InductiveNext, PTL DEF Spec

\* A waiting request drops out of the buffer and of every batch, unanswered,
\* only with a batch whose task was cancelled.
THEOREM LossIsCancellation == Spec => OnlyCancelledBatchesAreLost
<1> DEFINE Loss == \A r \in waiting \cap waiting' :
       r \in Held /\ r \notin Held' =>
         \/ r \in batch[Timer] /\ timer' = "cancelled"
         \/ \E q \in Impatient : r \in batch[q] /\ q \notin waiting'
<1>1. ASSUME Inductive, Next PROVE Loss
  <2>1. SUFFICES ASSUME NEW r \in waiting \cap waiting',
                        r \in Held, r \notin Held'
        PROVE  \/ r \in batch[Timer] /\ timer' = "cancelled"
               \/ \E q \in Impatient : r \in batch[q] /\ q \notin waiting'
    OBVIOUS
  <2>2. /\ batch \in [Tasks -> SUBSET Requests]
        /\ Timer \in Tasks /\ Outsider \in Tasks
        /\ \A q \in Requests : q \in Tasks /\ q # Timer
    BY <1>1, BatcherAssumption DEF Inductive, TypeOK, Tasks
  <2>3. /\ r \in buffer \/ \E t \in Tasks : r \in batch[t]
        /\ r \notin buffer' /\ \A t \in Tasks : r \notin batch'[t]
    BY <2>1 DEF Held, Sent
  <2>4. ASSUME NEW q \in Requests, Submit(q)
        PROVE  r \in batch[Timer] /\ timer' = "cancelled"
    <3>1. CASE SubmitLast(q)
      <4>1. batch' = [batch EXCEPT ![Timer] = {}, ![q] = buffer \cup {q}]
        BY <3>1 DEF SubmitLast
      <4>2. batch[q] = {}
        BY <1>1, <2>4, FreePlace DEF Submit
      <4>3. r \in batch[Timer]
        BY <2>2, <2>3, <4>1, <4>2
      <4>4. timer = "sending"
        BY <1>1, <4>3 DEF Inductive, OwnersAwait
      <4>5. QED
        BY <3>1, <4>3, <4>4 DEF SubmitLast, Cancelled
    <3>2. CASE SubmitEarly(q)
      BY <2>3, <3>2 DEF SubmitEarly
    <3>3. QED
      BY <2>4, <3>1, <3>2 DEF Submit
  <2>5. ASSUME NEW q \in Requests, Abandon(q)
        PROVE  \E p \in Impatient : r \in batch[p] /\ p \notin waiting'
    <3>1. /\ q \in Impatient /\ q \notin waiting'
          /\ batch' = [batch EXCEPT ![q] = {}] /\ buffer' = buffer
      BY <2>5 DEF Abandon
    <3>2. r \in batch[q]
      BY <2>2, <2>3, <3>1
    <3>3. QED
      BY <3>1, <3>2
  <2>6. ASSUME NEW t \in Tasks, BatchAnswered(t) PROVE FALSE
    <3>1. /\ waiting' = waiting \ batch[t]
          /\ batch' = [batch EXCEPT ![t] = {}] /\ buffer' = buffer
      BY <2>6 DEF BatchAnswered
    <3>2. r \in batch[t]
      BY <2>2, <2>3, <3>1
    <3>3. QED
      BY <2>1, <3>1, <3>2
  <2>7. ASSUME NEW t \in Tasks, batch[t] = {}, Flush(t) PROVE FALSE
    <3>1. batch' = [batch EXCEPT ![t] = buffer]
      BY <2>7 DEF Flush
    <3>2. QED
      BY <2>2, <2>3, <2>7, <3>1
  <2>8. ASSUME TimerFires PROVE FALSE
    <3>1. batch[Timer] = {}
      BY <1>1, <2>8 DEF TimerFires, Inductive, OwnersAwait
    <3>2. QED
      BY <2>2, <2>3, <2>7, <2>8, <3>1 DEF TimerFires
  <2>9. ASSUME TimerCancelled PROVE FALSE
    BY <2>3, <2>9 DEF TimerCancelled
  <2>10. ASSUME OutsiderFlushes PROVE FALSE
    BY <2>2, <2>7, <2>10 DEF OutsiderFlushes
  <2>11. QED
    BY <1>1, <2>4, <2>5, <2>6, <2>8, <2>9, <2>10 DEF Next
<1>2. ASSUME Inductive, [Next]_vars PROVE [Loss]_vars
  BY <1>1, <1>2
<1>3. QED
  BY BatcherInductive, <1>2, PTL DEF Spec, OnlyCancelledBatchesAreLost
=============================================================================
