---------------------------- MODULE RequestQueue ----------------------------
(***************************************************************************)
(* RequestQueue (src/dispatcher/queue.py) with the order of QueueItem      *)
(* (src/shared/models.py): producers that enqueue, and consumers that wait *)
(* in dequeue() for at most a second at a time.                            *)
(*                                                                         *)
(* dequeue() awaits asyncio's PriorityQueue.get() in a task of its own     *)
(* (wait_for).  A put wakes the consumer that has waited longest, but a    *)
(* consumer that comes along before it runs takes the item, and a consumer *)
(* may be woken and time out at once.  Between taking an item and looking  *)
(* at its age there is another turn of the event loop.                     *)
(*                                                                         *)
(* Ages are kept in ticks up to MaxWait + 1, where an item has expired.    *)
(***************************************************************************)
EXTENDS Naturals, FiniteSets, SequencesExt

CONSTANTS
  Requests,   \* places for requests; one is used again when its request is gone
  Consumers,
  Priority,   \* request.priority of each place; the smaller is served first
  MaxSize,
  MaxWait,    \* max_wait_seconds, in ticks
  NoRequest

ASSUME QueueAssumption ==
  /\ IsFiniteSet(Requests) /\ IsFiniteSet(Consumers)
  /\ Priority \in [Requests -> Nat]
  /\ MaxSize \in Nat /\ MaxWait \in Nat
  /\ NoRequest \notin Requests

VARIABLES
  line,     \* what is in the heap, in the order of arrival
  age,      \* now - enqueue_time
  getters,  \* PriorityQueue._getters that have not been woken
  pc,       \* each consumer: "outside", "waiting", "woken", or "taken"
  held      \* the item its get() has taken

vars == <<line, age, getters, pc, held>>

InLine == Range(line)
Present == InLine \cup (Range(held) \ {NoRequest})
Woken == {c \in Consumers : pc[c] = "woken"}

Init ==
  /\ line = <<>>
  /\ age = [r \in Requests |-> 0]
  /\ getters = <<>>
  /\ pc = [c \in Consumers |-> "outside"]
  /\ held = [c \in Consumers |-> NoRequest]

-----------------------------------------------------------------------------
Expired(r) == age[r] > MaxWait

\* Mutant of Before: the larger number is served first.
BeforeReversed(j, k) == Priority[line[j]] > Priority[line[k]]

\* QueueItem.__lt__.  Items that were enqueued at the same reading of the
\* clock have no order; two that have both expired are told apart by arrival.
Before(j, k) ==
  \/ Priority[line[j]] < Priority[line[k]]
  \/ /\ Priority[line[j]] = Priority[line[k]]
     /\ \/ age[line[j]] > age[line[k]]
        \/ Expired(line[j]) /\ Expired(line[k]) /\ j < k

\* What the heap may hand out: an item that comes after no other one.
IsFirst(k) == ~\E j \in DOMAIN line : Before(j, k)

\* PriorityQueue.get() up to its first await: an item if there is one, even
\* if somebody else has been woken for it; else the end of the waiting list.
Get(c) ==
  \/ \E k \in DOMAIN line :
       /\ IsFirst(k)
       /\ line' = RemoveAt(line, k)
       /\ held' = [held EXCEPT ![c] = line[k]]
       /\ pc' = [pc EXCEPT ![c] = "taken"]
       /\ UNCHANGED getters
  \/ /\ line = <<>>
     /\ held' = [held EXCEPT ![c] = NoRequest]
     /\ pc' = [pc EXCEPT ![c] = "waiting"]
     /\ getters' = Append(getters, c)
     /\ UNCHANGED line

\* PriorityQueue._wakeup_next(_getters), on top of what pc0 says.
WakeNext(pc0) ==
  IF getters = <<>>
  THEN pc' = pc0 /\ UNCHANGED getters
  ELSE pc' = [pc0 EXCEPT ![Head(getters)] = "woken"] /\ getters' = Tail(getters)

-----------------------------------------------------------------------------
\* enqueue(): refused when the queue is full, otherwise never blocks.
Enqueue(r) ==
  /\ r \notin Present
  /\ Len(line) < MaxSize
  /\ line' = Append(line, r)
  /\ age' = [age EXCEPT ![r] = 0]
  /\ WakeNext(pc)
  /\ UNCHANGED held

\* dequeue() is called.
Dequeue(c) ==
  /\ pc[c] = "outside"
  /\ Get(c)
  /\ UNCHANGED age

\* A consumer that has been woken looks again.
Resume(c) ==
  /\ pc[c] = "woken"
  /\ Get(c)
  /\ UNCHANGED age

\* The second is over, or the consumer is cancelled, while it waits:
\* dequeue() returns None.
TimesOut(c) ==
  /\ \E k \in DOMAIN getters :
       getters[k] = c /\ getters' = RemoveAt(getters, k)
  /\ pc' = [pc EXCEPT ![c] = "outside"]
  /\ UNCHANGED <<line, age, held>>

\* Mutant of WokenTooLate: the wake-up is not passed on.
WokenForNothing(c) ==
  /\ pc[c] = "woken"
  /\ pc' = [pc EXCEPT ![c] = "outside"]
  /\ UNCHANGED <<line, age, getters, held>>

\* The same when it has been woken already: the next one is woken instead if
\* there is an item.
WokenTooLate(c) ==
  /\ pc[c] = "woken"
  /\ IF line = <<>>
     THEN pc' = [pc EXCEPT ![c] = "outside"] /\ UNCHANGED getters
     ELSE WakeNext([pc EXCEPT ![c] = "outside"])
  /\ UNCHANGED <<line, age, held>>

\* Mutant of Return: the age is not looked at.
ReturnAny(c) ==
  /\ pc[c] = "taken"
  /\ pc' = [pc EXCEPT ![c] = "outside"]
  /\ held' = [held EXCEPT ![c] = NoRequest]
  /\ UNCHANGED <<line, age, getters>>

\* dequeue() goes on with the item: an expired one is dropped and the next one
\* is asked for; another one is returned.
Return(c) ==
  /\ pc[c] = "taken"
  /\ \/ /\ Expired(held[c])
        /\ Get(c)
     \/ /\ ~Expired(held[c])
        /\ pc' = [pc EXCEPT ![c] = "outside"]
        /\ held' = [held EXCEPT ![c] = NoRequest]
        /\ UNCHANGED <<line, getters>>
  /\ UNCHANGED age

Tick ==
  /\ age' = [r \in Requests |->
               IF r \in Present /\ ~Expired(r) THEN age[r] + 1 ELSE age[r]]
  /\ age' # age
  /\ UNCHANGED <<line, getters, pc, held>>

Next ==
  \/ \E r \in Requests : Enqueue(r)
  \/ \E c \in Consumers :
       \/ Dequeue(c) \/ Resume(c) \/ Return(c)
       \/ TimesOut(c) \/ WokenTooLate(c)
  \/ Tick

Spec == Init /\ [][Next]_vars

\* The event loop runs what is ready, and consumers keep asking.
FairSpec ==
  /\ Spec
  /\ \A c \in Consumers :
       WF_vars(Dequeue(c)) /\ WF_vars(Resume(c)) /\ WF_vars(Return(c))
  /\ WF_vars(Tick)

-----------------------------------------------------------------------------
(* Properties.                                                             *)

\* Every variable keeps its type, and max_size is never exceeded.
TypeOK ==
  /\ line \in Seq(Requests) /\ Len(line) <= MaxSize
  /\ age \in [Requests -> 0 .. MaxWait + 1]
  /\ getters \in Seq(Consumers)
  /\ pc \in [Consumers -> {"outside", "waiting", "woken", "taken"}]
  /\ held \in [Consumers -> Requests \cup {NoRequest}]

\* No request is in two places, so none is handed out twice.
HeldOnce ==
  /\ IsInjective(line)
  /\ \A c \in Consumers : held[c] \notin InLine
  /\ \A c \in Consumers : pc[c] = "taken" <=> held[c] # NoRequest
  /\ \A c, d \in Consumers : held[c] = held[d] /\ c # d => held[c] = NoRequest

\* The waiting list is what it says.
GettersWait ==
  /\ IsInjective(getters)
  /\ Range(getters) = {c \in Consumers : pc[c] = "waiting"}

\* No wake-up is lost: as long as somebody sleeps in dequeue(), as many have
\* been woken as there are items, whoever takes them and whoever times out.
NobodySleepsOnWork == getters # <<>> => Cardinality(Woken) >= Len(line)

\* All of it together.
Inductive == TypeOK /\ HeldOnce /\ GettersWait /\ NobodySleepsOnWork

\* A request leaves only by being returned to a caller before it has expired,
\* or by having expired: no timeout, wake-up or cancellation loses it.
LeavesForAReason ==
  [][\A r \in Present \ Present' :
       \E c \in Consumers :
         /\ held[c] = r /\ held'[c] # r
         /\ Expired(r) <=> pc'[c] # "outside"]_vars

\* A request of the most urgent priority leaves the line, however many others
\* keep coming: those of its own priority that come later are served later.
UrgentIsServed ==
  \A r \in Requests :
    (\A q \in Requests : Priority[q] >= Priority[r]) =>
      (r \in InLine ~> r \notin InLine)
=============================================================================
