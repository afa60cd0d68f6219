--------------------------- MODULE DynamicBatcher ---------------------------
(***************************************************************************)
(* DynamicBatcher (src/dispatcher/batcher.py): concurrent submit() calls   *)
(* collect their requests in one buffer, which is sent by whoever flushes  *)
(* it: the submit() that fills it, the delayed task, or a caller of        *)
(* flush() from outside.                                                   *)
(*                                                                         *)
(* An action is what one task does between two awaits.  _flush_lock is     *)
(* never held over an await, so nobody ever waits for it and it has no     *)
(* state here; what takes time in flush() is the gather of the batch, and  *)
(* cancelling the task that waits there cancels the forwards and loses     *)
(* their futures.                                                          *)
(***************************************************************************)
EXTENDS Naturals, FiniteSets

CONSTANTS
  Requests,      \* places for concurrent calls of submit()
  Impatient,     \* those whose caller may cancel the call
  Timer,         \* the task _delayed_task
  Outsider,      \* a task that calls flush() itself
  MaxBatchSize   \* max_batch_size

\* A batch is awaited by the task that flushed it; a submit() is the task of
\* its request.
Tasks == Requests \cup {Timer, Outsider}

ASSUME BatcherAssumption ==
  /\ IsFiniteSet(Requests)
  /\ Impatient \subseteq Requests
  /\ Timer \notin Requests /\ Outsider \notin Requests
  /\ Timer # Outsider
  /\ MaxBatchSize \in Nat \ {0}

VARIABLES
  buffer,   \* _buffer
  waiting,  \* the requests whose future is not done and has a caller
  batch,    \* the batch whose gather each task awaits, {} if it awaits none
  timer,    \* _delayed_task: "done" (or None), "sleeping", "sending" a batch,
            \* or "cancelled" and not yet told
  late      \* what came when the delayed task was past its sleep, but undone,
            \* and has seen no other one started since

vars == <<buffer, waiting, batch, timer, late>>

Sent == UNION {batch[t] : t \in Tasks}
Held == buffer \cup Sent

Init ==
  /\ buffer = {}
  /\ waiting = {}
  /\ batch = [t \in Tasks |-> {}]
  /\ timer = "done"
  /\ late = {}

-----------------------------------------------------------------------------
IsFull(b) == Cardinality(b) >= MaxBatchSize

\* Mutant of Emptied: the buffer is copied, not cleared.
Kept(b) == b
Emptied(b) == {}

\* cancel() on the delayed task: it stays undone until the loop has resumed
\* it, and a batch it was waiting for is given up.
Cancelled == IF timer = "done" THEN "done" ELSE "cancelled"

\* The task of r sends the buffer, r included, and waits for the answers.
SubmitLast(r) ==
  /\ IsFull(buffer \cup {r})
  /\ timer' = Cancelled
  /\ batch' = [batch EXCEPT ![Timer] = {}, ![r] = buffer \cup {r}]
  /\ buffer' = Emptied(buffer \cup {r})
  /\ late' = {}

LateWith(r) ==
  CASE timer = "done" -> {}
    [] timer = "sleeping" -> late
    [] OTHER -> late \cup {r}

\* Mutant of SubmitEarly: only the first request in the buffer starts a timer.
SubmitUntimed(r) ==
  /\ ~IsFull(buffer \cup {r})
  /\ timer' = IF timer = "done" /\ buffer = {} THEN "sleeping" ELSE timer
  /\ buffer' = buffer \cup {r}
  /\ late' = LateWith(r)
  /\ batch' = batch

\* The request waits; a delayed task is started unless there is one undone.
SubmitEarly(r) ==
  /\ ~IsFull(buffer \cup {r})
  /\ timer' = IF timer = "done" THEN "sleeping" ELSE timer
  /\ buffer' = buffer \cup {r}
  /\ late' = LateWith(r)
  /\ batch' = batch

\* A place is taken again only when nothing of its last request is left.
Submit(r) ==
  /\ r \notin waiting \cup Held
  /\ waiting' = waiting \cup {r}
  /\ SubmitLast(r) \/ SubmitEarly(r)

\* flush() by a task other than a submit(); nothing happens to an empty buffer.
Flush(t) ==
  /\ buffer # {}
  /\ batch' = [batch EXCEPT ![t] = buffer]
  /\ buffer' = Emptied(buffer)
  /\ late' = {}

TimerFires ==
  /\ timer = "sleeping"
  /\ \/ Flush(Timer) /\ timer' = "sending"
     \/ buffer = {} /\ timer' = "done" /\ UNCHANGED <<buffer, batch, late>>
  /\ UNCHANGED waiting

OutsiderFlushes ==
  /\ batch[Outsider] = {}
  /\ Flush(Outsider)
  /\ UNCHANGED <<waiting, timer>>

TimerCancelled ==
  /\ timer = "cancelled"
  /\ timer' = "done"
  /\ UNCHANGED <<buffer, waiting, batch, late>>

\* All forwards of the batch have returned or raised; each future gets its
\* own outcome, and the task is through.
BatchAnswered(t) ==
  /\ batch[t] # {}
  /\ waiting' = waiting \ batch[t]
  /\ batch' = [batch EXCEPT ![t] = {}]
  /\ timer' = IF t = Timer THEN "done" ELSE timer
  /\ UNCHANGED <<buffer, late>>

\* Mutant of Abandon: the caller takes what is left in the buffer with it.
AbandonAll(r) ==
  /\ r \in Impatient \cap waiting
  /\ waiting' = waiting \ {r}
  /\ batch' = [batch EXCEPT ![r] = {}]
  /\ buffer' = {}
  /\ UNCHANGED <<timer, late>>

\* The caller of submit() cancels it.  A request that waits in the buffer
\* stays there; one whose task awaits the batch takes the batch with it.
Abandon(r) ==
  /\ r \in Impatient \cap waiting
  /\ waiting' = waiting \ {r}
  /\ batch' = [batch EXCEPT ![r] = {}]
  /\ UNCHANGED <<buffer, timer, late>>

Next ==
  \/ \E r \in Requests : Submit(r) \/ Abandon(r)
  \/ \E t \in Tasks : BatchAnswered(t)
  \/ TimerFires \/ TimerCancelled
  \/ OutsiderFlushes

Spec == Init /\ [][Next]_vars

\* The sleep ends, a cancelled task is resumed, and every forward ends (the
\* gateway's EveryClientIsAnswered).  Nobody is promised to submit, flush or cancel.
FairSpec ==
  /\ Spec
  /\ WF_vars(TimerFires) /\ WF_vars(TimerCancelled)
  /\ \A t \in Tasks : WF_vars(BatchAnswered(t))

-----------------------------------------------------------------------------
(* Properties.                                                             *)

\* Every variable keeps its type.
TypeOK ==
  /\ buffer \subseteq Requests
  /\ waiting \subseteq Requests
  /\ batch \in [Tasks -> SUBSET Requests]
  /\ timer \in {"done", "sleeping", "sending", "cancelled"}
  /\ late \subseteq Requests

\* No flush sends more than max_batch_size requests, however submissions, the
\* timer and outside flushes fall together.
BatchesAreBounded ==
  /\ Cardinality(buffer) < MaxBatchSize
  /\ \A t \in Tasks : Cardinality(batch[t]) <= MaxBatchSize

\* No request is in two places: none is forwarded twice, none is answered by
\* the outcome of another batch.
HeldOnce ==
  /\ \A t \in Tasks : buffer \cap batch[t] = {}
  /\ \A t, u \in Tasks : t # u => batch[t] \cap batch[u] = {}

\* A submit() awaits no batch but one with its own request in it, and the
\* delayed task awaits one exactly while it is sending.
OwnersAwait ==
  /\ \A r \in Requests : batch[r] # {} => r \in batch[r] /\ r \in waiting
  /\ batch[Timer] # {} <=> timer = "sending"

\* What is in the buffer and not late has a delayed task that will take it.
\* Only a submit() that fills the buffer cancels one.
BufferIsTimed == buffer \subseteq late \/ timer = "sleeping"

\* All of it together: a batch is within bounds because the buffer was, a
\* request is in one place because its place was free.
Inductive ==
  TypeOK /\ BatchesAreBounded /\ HeldOnce /\ OwnersAwait /\ BufferIsTimed

\* A waiting request that is neither buffered nor in a batch any more, and
\* has no answer, has lost it with the delayed task's batch or with the
\* submit() that was cancelled while it awaited the batch of both.
OnlyCancelledBatchesAreLost ==
  [][\A r \in waiting \cap waiting' :
       r \in Held /\ r \notin Held' =>
         \/ r \in batch[Timer] /\ timer' = "cancelled"
         \/ \E q \in Impatient : r \in batch[q] /\ q \notin waiting']_vars

\* max_wait_ms: a request does not stay in the buffer, though nobody submits or
\* flushes any more.  What comes while the delayed task is past its sleep but
\* undone has no such promise; but one submit() after that task is done, full
\* buffer or not, is enough for all that were left behind.
MaxWaitIsKept == \A r \in Requests : r \in buffer \ late ~> r \notin buffer

\* "The request has certainly been processed": a submit() nobody cancelled
\* waits for a future that some task will set.
WaitersAreHeld == waiting \subseteq Held
=============================================================================
