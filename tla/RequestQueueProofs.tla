------------------------- MODULE RequestQueueProofs -------------------------
(***************************************************************************)
(* What RequestQueue keeps, for any requests, priorities, consumers and    *)
(* limits.  Timeouts, cancellations and consumers that overtake the one    *)
(* that was woken are all in it.                                           *)
(***************************************************************************)
EXTENDS RequestQueue, FiniteSetTheorems, SequenceTheorems, TLAPS

(* The sequences: a list without repetitions, less or more one member.     *)

LEMMA RemoveAtShifts ==
  ASSUME NEW S, NEW s \in Seq(S), NEW k \in DOMAIN s
  PROVE  /\ RemoveAt(s, k) \in Seq(S)
         /\ Len(RemoveAt(s, k)) = Len(s) - 1
         /\ \A j \in 1 .. Len(s) - 1 :
              RemoveAt(s, k)[j] = IF j < k THEN s[j] ELSE s[j + 1]
<1> DEFINE before == SubSeq(s, 1, k - 1)
           after == SubSeq(s, k + 1, Len(s))
<1>1. k \in 1 .. Len(s) /\ Len(s) \in Nat
  BY LenProperties
<1>2. /\ before \in Seq(S) /\ Len(before) = k - 1
      /\ \A j \in 1 .. k - 1 : before[j] = s[j]
  BY <1>1
<1>3. /\ after \in Seq(S) /\ Len(after) = Len(s) - k
      /\ \A j \in 1 .. Len(s) - k : after[j] = s[k + j]
  BY <1>1
<1> HIDE DEF before, after
<1>4. /\ before \o after \in Seq(S)
      /\ Len(before \o after) = Len(before) + Len(after)
      /\ \A j \in 1 .. Len(before) + Len(after) :
           (before \o after)[j]
             = IF j <= Len(before) THEN before[j] ELSE after[j - Len(before)]
  BY <1>2, <1>3, ConcatProperties
<1>5. Len(before) + Len(after) = Len(s) - 1
  BY <1>1, <1>2, <1>3
<1>6. ASSUME NEW j \in 1 .. Len(s) - 1
      PROVE  (before \o after)[j] = IF j < k THEN s[j] ELSE s[j + 1]
  <2>1. (before \o after)[j]
          = IF j <= Len(before) THEN before[j] ELSE after[j - Len(before)]
    BY <1>4, <1>5
  <2>2. CASE j < k
    <3>1. j <= Len(before) /\ j \in 1 .. k - 1
      BY <1>1, <1>2, <2>2
    <3>2. before[j] = s[j]
      BY <1>2, <3>1
    <3>3. QED
      BY <2>1, <2>2, <3>1, <3>2
  <2>3. CASE ~(j < k)
    <3>1. ~(j <= Len(before)) /\ j - Len(before) \in 1 .. Len(s) - k
      BY <1>1, <1>2, <2>3
    <3>2. after[j - Len(before)] = s[k + (j - Len(before))]
      BY <1>3, <3>1
    <3>3. k + (j - Len(before)) = j + 1
      BY <1>1, <1>2
    <3>4. QED
      BY <2>1, <2>3, <3>1, <3>2, <3>3
  <2>4. QED
    BY <2>2, <2>3
<1>7. QED
  BY <1>4, <1>5, <1>6 DEF RemoveAt, before, after

\* One member goes, and the others stay apart.
LEMMA RemoveAtRemoves ==
  ASSUME NEW S, NEW s \in Seq(S), IsInjective(s), NEW k \in DOMAIN s
  PROVE  /\ IsInjective(RemoveAt(s, k))
         /\ Range(RemoveAt(s, k)) = Range(s) \ {s[k]}
         /\ s[k] \in S
<1> DEFINE rest == RemoveAt(s, k)
<1>1. /\ rest \in Seq(S) /\ Len(rest) = Len(s) - 1 /\ Len(s) \in Nat
      /\ \A j \in 1 .. Len(s) - 1 : rest[j] = IF j < k THEN s[j] ELSE s[j + 1]
      /\ k \in 1 .. Len(s) /\ DOMAIN s = 1 .. Len(s)
  BY RemoveAtShifts, LenProperties
<1> HIDE DEF rest
<1>2. DOMAIN rest = 1 .. Len(s) - 1
  BY <1>1
<1>3. ASSUME NEW a \in 1 .. Len(s) - 1, NEW b \in 1 .. Len(s) - 1, rest[a] = rest[b]
      PROVE  a = b
  <2> DEFINE Old(j) == IF j < k THEN j ELSE j + 1
  <2>1. /\ Old(a) \in DOMAIN s /\ Old(b) \in DOMAIN s
        /\ Old(a) = Old(b) => a = b
    BY <1>1
  <2>2. rest[a] = s[Old(a)] /\ rest[b] = s[Old(b)]
    BY <1>1
  <2> HIDE DEF Old
  <2>3. Old(a) = Old(b)
    BY <1>3, <2>1, <2>2 DEF IsInjective
  <2>4. QED
    BY <2>1, <2>3
<1>4. ASSUME NEW x \in Range(rest) PROVE x \in Range(s) /\ x # s[k]
  <2>1. PICK j \in 1 .. Len(s) - 1 : x = rest[j]
    BY <1>2, <1>4 DEF Range
  <2>2. PICK l \in 1 .. Len(s) : x = s[l] /\ l # k
    BY <1>1, <2>1
  <2>3. QED
    BY <1>1, <2>2 DEF Range, IsInjective
<1>5. ASSUME NEW x \in Range(s), x # s[k] PROVE x \in Range(rest)
  <2>1. PICK l \in 1 .. Len(s) : x = s[l] /\ l # k
    BY <1>1, <1>5 DEF Range
  <2>2. CASE l < k
    <3>1. l \in 1 .. Len(s) - 1 /\ rest[l] = x
      BY <1>1, <2>1, <2>2
    <3>2. QED
      BY <1>2, <3>1 DEF Range
  <2>3. CASE l > k
    <3>1. l - 1 \in 1 .. Len(s) - 1 /\ rest[l - 1] = x
      BY <1>1, <2>1, <2>3
    <3>2. QED
      BY <1>2, <3>1 DEF Range
  <2>4. QED
    BY <1>1, <2>1, <2>2, <2>3
<1>6. Range(rest) = Range(s) \ {s[k]}
  BY <1>4, <1>5
<1>7. s[k] \in S
  BY ElementOfSeq, <1>1
<1>8. QED
  BY <1>2, <1>3, <1>6, <1>7 DEF rest, IsInjective

LEMMA AppendAdds ==
  ASSUME NEW S, NEW s \in Seq(S), IsInjective(s), NEW x \in S, x \notin Range(s)
  PROVE  /\ Append(s, x) \in Seq(S) /\ IsInjective(Append(s, x))
         /\ Len(Append(s, x)) = Len(s) + 1
         /\ Range(Append(s, x)) = Range(s) \cup {x}
<1>1. /\ Append(s, x) \in Seq(S) /\ Len(Append(s, x)) = Len(s) + 1
      /\ Len(s) \in Nat /\ DOMAIN s = 1 .. Len(s)
      /\ DOMAIN Append(s, x) = 1 .. Len(s) + 1
      /\ \A j \in 1 .. Len(s) : Append(s, x)[j] = s[j]
      /\ Append(s, x)[Len(s) + 1] = x
  BY AppendProperties, LenProperties
<1>2. \A j \in 1 .. Len(s) : s[j] # x
  BY <1>1 DEF Range
<1>3. IsInjective(Append(s, x))
  BY <1>1, <1>2 DEF IsInjective
<1>4. Range(Append(s, x)) = Range(s) \cup {x}
  BY <1>1 DEF Range
<1>5. QED
  BY <1>1, <1>3, <1>4

LEMMA TailDropsTheHead ==
  ASSUME NEW S, NEW s \in Seq(S), IsInjective(s), s # <<>>
  PROVE  /\ Tail(s) \in Seq(S) /\ IsInjective(Tail(s))
         /\ Head(s) \in Range(s)
         /\ Range(Tail(s)) = Range(s) \ {Head(s)}
<1>1. /\ Head(s) = s[1] /\ Tail(s) \in Seq(S) /\ Len(s) \in Nat \ {0}
      /\ DOMAIN s = 1 .. Len(s) /\ DOMAIN Tail(s) = 1 .. Len(s) - 1
      /\ \A j \in 1 .. Len(s) - 1 : Tail(s)[j] = s[j + 1]
  BY HeadTailProperties, LenProperties, EmptySeq
<1>2. IsInjective(Tail(s))
  BY <1>1 DEF IsInjective
<1>3. ASSUME NEW x \in Range(Tail(s)) PROVE x \in Range(s) /\ x # Head(s)
  <2>1. PICK j \in 1 .. Len(s) - 1 : x = s[j + 1]
    BY <1>1, <1>3 DEF Range
  <2>2. j + 1 \in 1 .. Len(s) /\ j + 1 # 1
    BY <1>1
  <2>3. QED
    BY <1>1, <2>1, <2>2 DEF Range, IsInjective
<1>4. ASSUME NEW x \in Range(s), x # Head(s) PROVE x \in Range(Tail(s))
  <2>1. PICK j \in 1 .. Len(s) : x = s[j]
    BY <1>1, <1>4 DEF Range
  <2>2. j - 1 \in 1 .. Len(s) - 1 /\ Tail(s)[j - 1] = x
    BY <1>1, <1>4, <2>1
  <2>3. QED
    BY <1>1, <2>2 DEF Range
<1>5. Head(s) \in Range(s)
  BY <1>1 DEF Range
<1>6. QED
  BY <1>1, <1>2, <1>3, <1>4, <1>5

-----------------------------------------------------------------------------
(* The queue.                                                              *)

LEMMA InductiveInit == Init => Inductive
<1> SUFFICES ASSUME Init PROVE Inductive
  OBVIOUS
<1>1. MaxSize \in Nat /\ MaxWait \in Nat /\ NoRequest \notin Requests
  BY QueueAssumption
<1>2. TypeOK
  <2>1. 0 \in 0 .. MaxWait + 1 /\ Len(line) = 0
    BY <1>1 DEF Init
  <2>2. QED
    BY <1>1, <2>1, EmptySeq DEF Init, TypeOK
<1>3. Range(<<>>) = {} /\ IsInjective(<<>>)
  BY DEF Range, IsInjective
<1>4. HeldOnce
  BY <1>3 DEF Init, HeldOnce, InLine
<1>5. GettersWait
  BY <1>3 DEF Init, GettersWait
<1>6. NobodySleepsOnWork
  BY DEF Init, NobodySleepsOnWork
<1>7. QED
  BY <1>2, <1>4, <1>5, <1>6 DEF Inductive

\* How many have been woken, when one more is and when one less is.
LEMMA WokenIsCounted ==
  ASSUME NEW c \in Consumers, \A d \in Consumers \ {c} : pc'[d] = pc[d]
  PROVE  /\ Cardinality(Woken) \in Nat /\ Cardinality(Woken') \in Nat
         /\ pc[c] # "woken" /\ pc'[c] = "woken"
            => Cardinality(Woken') = Cardinality(Woken) + 1
         /\ pc[c] = "woken" /\ pc'[c] # "woken"
            => Cardinality(Woken') = Cardinality(Woken) - 1
         /\ (pc[c] = "woken" <=> pc'[c] = "woken")
            => Cardinality(Woken') = Cardinality(Woken)
<1>1. IsFiniteSet(Woken) /\ IsFiniteSet(Woken')
  BY QueueAssumption, FS_Subset DEF Woken
<1>2. Cardinality(Woken) \in Nat /\ Cardinality(Woken') \in Nat
  BY <1>1, FS_CardinalityType
<1>3. ASSUME pc[c] # "woken", pc'[c] = "woken"
      PROVE  Cardinality(Woken') = Cardinality(Woken) + 1
  <2>1. Woken' = Woken \cup {c} /\ c \notin Woken
    BY <1>3 DEF Woken
  <2>2. QED
    BY <1>1, <2>1, FS_AddElement
<1>4. ASSUME pc[c] = "woken", pc'[c] # "woken"
      PROVE  Cardinality(Woken') = Cardinality(Woken) - 1
  <2>1. Woken' = Woken \ {c} /\ c \in Woken
    BY <1>4 DEF Woken
  <2>2. QED
    BY <1>1, <2>1, FS_RemoveElement
<1>5. ASSUME pc[c] = "woken" <=> pc'[c] = "woken" PROVE Woken' = Woken
  BY <1>5 DEF Woken
<1>6. QED
  BY <1>2, <1>3, <1>4, <1>5

\* get() takes an item or joins the waiting list; whoever calls it sleeps
\* on nothing.
LEMMA GetKeeps ==
  ASSUME Inductive, NEW c \in Consumers, pc[c] # "waiting", Get(c), UNCHANGED age
  PROVE  Inductive'
<1>1. TypeOK /\ HeldOnce /\ GettersWait /\ NobodySleepsOnWork
  BY DEF Inductive
<1>2. /\ MaxSize \in Nat /\ NoRequest \notin Requests
      /\ line \in Seq(Requests) /\ IsInjective(line)
      /\ InLine \subseteq Requests /\ Len(line) \in Nat
  BY <1>1, QueueAssumption, RangeOfSeq, LenProperties DEF TypeOK, HeldOnce, InLine
<1>3. CASE \E k \in DOMAIN line :
             /\ line' = RemoveAt(line, k)
             /\ held' = [held EXCEPT ![c] = line[k]]
             /\ pc' = [pc EXCEPT ![c] = "taken"]
             /\ UNCHANGED getters
  <2>1. PICK k \in DOMAIN line :
          /\ line' = RemoveAt(line, k)
          /\ held' = [held EXCEPT ![c] = line[k]]
          /\ pc' = [pc EXCEPT ![c] = "taken"]
          /\ UNCHANGED getters
    BY <1>3
  <2>2. /\ line' \in Seq(Requests) /\ Len(line') = Len(line) - 1
        /\ IsInjective(line') /\ line[k] \in Requests /\ line[k] \in InLine
        /\ InLine' = InLine \ {line[k]}
    <3>1. /\ RemoveAt(line, k) \in Seq(Requests)
          /\ Len(RemoveAt(line, k)) = Len(line) - 1
      BY <1>2, RemoveAtShifts
    <3>2. /\ IsInjective(RemoveAt(line, k))
          /\ Range(RemoveAt(line, k)) = Range(line) \ {line[k]}
          /\ line[k] \in Requests
      BY <1>2, RemoveAtRemoves
    <3>3. line[k] \in Range(line)
      BY DEF Range
    <3>4. QED
      BY <2>1, <3>1, <3>2, <3>3 DEF InLine
  <2>3. TypeOK'
    BY <1>1, <1>2, <2>1, <2>2 DEF TypeOK
  <2>4. /\ held'[c] = line[k] /\ pc'[c] = "taken"
        /\ \A d \in Consumers \ {c} : held'[d] = held[d] /\ pc'[d] = pc[d]
    BY <1>1, <2>1 DEF TypeOK
  <2>5. HeldOnce'
    BY <1>1, <1>2, <2>2, <2>4 DEF HeldOnce
  <2>6. GettersWait'
    BY <1>1, <2>1, <2>4 DEF GettersWait
  <2>7. NobodySleepsOnWork'
    <3>1. /\ Cardinality(Woken) \in Nat /\ Cardinality(Woken') \in Nat
          /\ Cardinality(Woken') >= Cardinality(Woken) - 1
      BY <2>4, WokenIsCounted
    <3>2. QED
      BY <1>1, <1>2, <2>1, <2>2, <3>1 DEF NobodySleepsOnWork
  <2>8. QED
    BY <2>3, <2>5, <2>6, <2>7 DEF Inductive
<1>4. CASE /\ line = <<>>
           /\ held' = [held EXCEPT ![c] = NoRequest]
           /\ pc' = [pc EXCEPT ![c] = "waiting"]
           /\ getters' = Append(getters, c)
           /\ UNCHANGED line
  <2>1. c \notin Range(getters)
    BY <1>1 DEF GettersWait
  <2>2. /\ getters' \in Seq(Consumers) /\ IsInjective(getters')
        /\ Range(getters') = Range(getters) \cup {c}
    BY <1>1, <1>4, <2>1, AppendAdds DEF TypeOK, GettersWait
  <2>3. TypeOK'
    BY <1>1, <1>4, <2>2 DEF TypeOK
  <2>4. /\ held'[c] = NoRequest /\ pc'[c] = "waiting"
        /\ \A d \in Consumers \ {c} : held'[d] = held[d] /\ pc'[d] = pc[d]
        /\ InLine' = InLine /\ IsInjective(line')
    BY <1>1, <1>2, <1>4 DEF TypeOK, InLine
  <2>5. HeldOnce'
    BY <1>1, <1>2, <2>4 DEF HeldOnce
  <2>6. GettersWait'
    BY <1>1, <2>2, <2>4 DEF GettersWait
  <2>7. NobodySleepsOnWork'
    <3>1. Cardinality(Woken') \in Nat
      BY <2>4, WokenIsCounted
    <3>2. Len(line') = 0
      BY <1>4
    <3>3. QED
      BY <3>1, <3>2 DEF NobodySleepsOnWork
  <2>8. QED
    BY <2>3, <2>5, <2>6, <2>7 DEF Inductive
<1>5. QED
  BY <1>3, <1>4 DEF Get

LEMMA EnqueueKeeps ==
  ASSUME Inductive, NEW r \in Requests, Enqueue(r)
  PROVE  Inductive'
<1>1. TypeOK /\ HeldOnce /\ GettersWait /\ NobodySleepsOnWork
  BY DEF Inductive
<1>2. /\ MaxSize \in Nat /\ MaxWait \in Nat /\ NoRequest \notin Requests
      /\ line \in Seq(Requests) /\ IsInjective(line) /\ Len(line) \in Nat
  BY <1>1, QueueAssumption, LenProperties DEF TypeOK, HeldOnce
<1>3. r \notin InLine /\ \A c \in Consumers : held[c] # r
  BY <1>1, <1>2 DEF Enqueue, Present, Range, TypeOK
<1>4. /\ line' \in Seq(Requests) /\ IsInjective(line')
      /\ Len(line') = Len(line) + 1 /\ InLine' = InLine \cup {r}
  BY <1>2, <1>3, AppendAdds DEF Enqueue, InLine
<1>5. Len(line') <= MaxSize
  BY <1>2, <1>4 DEF Enqueue
<1>6. age' \in [Requests -> 0 .. MaxWait + 1]
  <2>1. 0 \in 0 .. MaxWait + 1
    BY <1>2
  <2>2. QED
    BY <1>1, <2>1 DEF Enqueue, TypeOK
<1>7. CASE getters = <<>>
  <2>1. UNCHANGED <<pc, getters, held>>
    BY <1>7 DEF Enqueue, WakeNext
  <2>2. TypeOK'
    BY <1>1, <1>4, <1>5, <1>6, <2>1 DEF TypeOK
  <2>3. HeldOnce'
    BY <1>1, <1>3, <1>4, <2>1 DEF HeldOnce
  <2>4. QED
    BY <1>1, <1>7, <2>1, <2>2, <2>3
       DEF Inductive, GettersWait, NobodySleepsOnWork
<1>8. CASE getters # <<>>
  <2> DEFINE d == Head(getters)
  <2>1. /\ pc' = [pc EXCEPT ![d] = "woken"] /\ getters' = Tail(getters)
        /\ UNCHANGED held
    BY <1>8 DEF Enqueue, WakeNext
  <2>2. /\ getters' \in Seq(Consumers) /\ IsInjective(getters')
        /\ d \in Range(getters) /\ Range(getters') = Range(getters) \ {d}
    BY <1>1, <1>8, <2>1, TailDropsTheHead DEF TypeOK, GettersWait
  <2>3. d \in Consumers /\ pc[d] = "waiting"
    BY <1>1, <2>2 DEF GettersWait
  <2> HIDE DEF d
  <2>4. pc'[d] = "woken" /\ \A c \in Consumers \ {d} : pc'[c] = pc[c]
    BY <1>1, <2>1, <2>3 DEF TypeOK
  <2>5. TypeOK'
    BY <1>1, <1>4, <1>5, <1>6, <2>1, <2>2 DEF TypeOK
  <2>6. HeldOnce'
    <3>1. held[d] = NoRequest
      BY <1>1, <2>3 DEF HeldOnce
    <3>2. QED
      BY <1>1, <1>3, <1>4, <2>1, <2>3, <2>4, <3>1 DEF HeldOnce
  <2>7. GettersWait'
    BY <1>1, <2>2, <2>4 DEF GettersWait
  <2>8. NobodySleepsOnWork'
    <3>1. /\ Cardinality(Woken) \in Nat
          /\ Cardinality(Woken') = Cardinality(Woken) + 1
      BY <2>3, <2>4, WokenIsCounted
    <3>2. QED
      BY <1>1, <1>2, <1>4, <1>8, <3>1 DEF NobodySleepsOnWork
  <2>9. QED
    BY <2>5, <2>6, <2>7, <2>8 DEF Inductive
<1>9. QED
  BY <1>7, <1>8

\* The waiting is over before a wake-up.
LEMMA TimesOutKeeps ==
  ASSUME Inductive, NEW c \in Consumers, TimesOut(c)
  PROVE  Inductive'
<1>1. TypeOK /\ HeldOnce /\ GettersWait /\ NobodySleepsOnWork
  BY DEF Inductive
<1>2. PICK k \in DOMAIN getters : getters[k] = c /\ getters' = RemoveAt(getters, k)
  BY DEF TimesOut
<1>3. pc' = [pc EXCEPT ![c] = "outside"] /\ UNCHANGED <<line, age, held>>
  BY DEF TimesOut
<1>4. /\ getters' \in Seq(Consumers) /\ IsInjective(getters')
      /\ Range(getters') = Range(getters) \ {c}
  BY <1>1, <1>2, RemoveAtShifts, RemoveAtRemoves DEF TypeOK, GettersWait
<1>5. pc[c] = "waiting" /\ getters # <<>>
  <2>1. c \in Range(getters)
    BY <1>2 DEF Range
  <2>2. QED
    BY <1>1, <2>1 DEF GettersWait, Range
<1>6. pc'[c] = "outside" /\ \A d \in Consumers \ {c} : pc'[d] = pc[d]
  BY <1>1, <1>3 DEF TypeOK
<1>7. TypeOK'
  BY <1>1, <1>3, <1>4 DEF TypeOK
<1>8. HeldOnce'
  BY <1>1, <1>3, <1>5, <1>6 DEF HeldOnce, InLine
<1>9. GettersWait'
  BY <1>1, <1>4, <1>6 DEF GettersWait
<1>10. NobodySleepsOnWork'
  <2>1. Cardinality(Woken') = Cardinality(Woken)
    BY <1>5, <1>6, WokenIsCounted
  <2>2. QED
    BY <1>1, <1>3, <1>5, <2>1 DEF NobodySleepsOnWork
<1>11. QED
  BY <1>7, <1>8, <1>9, <1>10 DEF Inductive

\* A wake-up that comes too late is passed on.
LEMMA WokenTooLateKeeps ==
  ASSUME Inductive, NEW c \in Consumers, WokenTooLate(c)
  PROVE  Inductive'
<1>1. TypeOK /\ HeldOnce /\ GettersWait /\ NobodySleepsOnWork
  BY DEF Inductive
<1>2. pc[c] = "woken" /\ UNCHANGED <<line, age, held>>
  BY DEF WokenTooLate
<1>3. held[c] = NoRequest
  BY <1>1, <1>2 DEF HeldOnce
<1>4. CASE line = <<>> \/ getters = <<>>
  <2>1. pc' = [pc EXCEPT ![c] = "outside"] /\ UNCHANGED getters
    BY <1>4 DEF WokenTooLate, WakeNext
  <2>2. pc'[c] = "outside" /\ \A d \in Consumers \ {c} : pc'[d] = pc[d]
    BY <1>1, <2>1 DEF TypeOK
  <2>3. TypeOK'
    BY <1>1, <1>2, <2>1 DEF TypeOK
  <2>4. HeldOnce'
    BY <1>1, <1>2, <1>3, <2>2 DEF HeldOnce, InLine
  <2>5. GettersWait'
    BY <1>1, <1>2, <2>1, <2>2 DEF GettersWait
  <2>6. NobodySleepsOnWork'
    <3>1. Cardinality(Woken') \in Nat
      BY <2>2, WokenIsCounted
    <3>2. line = <<>> => Len(line') = 0
      BY <1>2
    <3>3. QED
      BY <1>4, <2>1, <3>1, <3>2 DEF NobodySleepsOnWork
  <2>7. QED
    BY <2>3, <2>4, <2>5, <2>6 DEF Inductive
<1>5. CASE line # <<>> /\ getters # <<>>
  <2> DEFINE d == Head(getters)
             left == [pc EXCEPT ![c] = "outside"]
  <2>1. pc' = [left EXCEPT ![d] = "woken"] /\ getters' = Tail(getters)
    BY <1>5 DEF WokenTooLate, WakeNext
  <2>2. /\ getters' \in Seq(Consumers) /\ IsInjective(getters')
        /\ d \in Range(getters) /\ Range(getters') = Range(getters) \ {d}
    BY <1>1, <1>5, <2>1, TailDropsTheHead DEF TypeOK, GettersWait
  <2>3. d \in Consumers /\ pc[d] = "waiting" /\ d # c
    BY <1>1, <1>2, <2>2 DEF GettersWait
  <2> HIDE DEF d
  <2>4. /\ pc'[d] = "woken" /\ pc'[c] = "outside"
        /\ \A b \in Consumers \ {c, d} : pc'[b] = pc[b]
    BY <1>1, <2>1, <2>3 DEF TypeOK
  <2>5. TypeOK'
    BY <1>1, <1>2, <2>1, <2>2 DEF TypeOK
  <2>6. HeldOnce'
    <3>1. held[d] = NoRequest
      BY <1>1, <2>3 DEF HeldOnce
    <3>2. QED
      BY <1>1, <1>2, <1>3, <2>3, <2>4, <3>1 DEF HeldOnce, InLine
  <2>7. GettersWait'
    BY <1>1, <1>2, <2>2, <2>3, <2>4 DEF GettersWait
  <2>8. Cardinality(Woken') = Cardinality(Woken)
    <3>1. Woken' = (Woken \ {c}) \cup {d} /\ c \in Woken /\ d \notin Woken \ {c}
      BY <1>2, <2>3, <2>4 DEF Woken
    <3>2. IsFiniteSet(Woken) /\ IsFiniteSet(Woken \ {c})
      BY QueueAssumption, FS_Subset DEF Woken
    <3>3. Cardinality(Woken \ {c}) = Cardinality(Woken) - 1
      BY <3>1, <3>2, FS_RemoveElement
    <3>4. Cardinality((Woken \ {c}) \cup {d}) = Cardinality(Woken \ {c}) + 1
      BY <3>1, <3>2, FS_AddElement
    <3>5. Cardinality(Woken) \in Nat
      BY <3>2, FS_CardinalityType
    <3>6. QED
      BY <3>1, <3>3, <3>4, <3>5
  <2>9. NobodySleepsOnWork'
    BY <1>1, <1>2, <1>5, <2>8 DEF NobodySleepsOnWork
  <2>10. QED
    BY <2>5, <2>6, <2>7, <2>9 DEF Inductive
<1>6. QED
  BY <1>4, <1>5

LEMMA ReturnKeeps ==
  ASSUME Inductive, NEW c \in Consumers, Return(c)
  PROVE  Inductive'
<1>1. TypeOK /\ HeldOnce /\ GettersWait /\ NobodySleepsOnWork
  BY DEF Inductive
<1>2. pc[c] = "taken" /\ UNCHANGED age
  BY DEF Return
<1>3. CASE Get(c)
  BY <1>2, <1>3, GetKeeps
<1>4. CASE /\ pc' = [pc EXCEPT ![c] = "outside"]
           /\ held' = [held EXCEPT ![c] = NoRequest]
           /\ UNCHANGED <<line, getters>>
  <2>1. /\ pc'[c] = "outside" /\ held'[c] = NoRequest
        /\ \A d \in Consumers \ {c} : pc'[d] = pc[d] /\ held'[d] = held[d]
    BY <1>1, <1>4 DEF TypeOK
  <2>2. TypeOK'
    BY <1>1, <1>2, <1>4 DEF TypeOK
  <2>3. NoRequest \notin InLine
    BY <1>1, QueueAssumption, RangeOfSeq DEF InLine, TypeOK
  <2>4. HeldOnce'
    BY <1>1, <1>4, <2>1, <2>3 DEF HeldOnce, InLine
  <2>5. GettersWait'
    BY <1>1, <1>2, <1>4, <2>1 DEF GettersWait
  <2>6. Cardinality(Woken') = Cardinality(Woken)
    BY <1>2, <2>1, WokenIsCounted
  <2>7. QED
    BY <1>1, <1>4, <2>2, <2>4, <2>5, <2>6 DEF Inductive, NobodySleepsOnWork
<1>5. QED
  BY <1>3, <1>4 DEF Return

LEMMA TickKeeps ==
  ASSUME Inductive, Tick
  PROVE  Inductive'
<1>1. TypeOK /\ HeldOnce /\ GettersWait /\ NobodySleepsOnWork
  BY DEF Inductive
<1>2. age' \in [Requests -> 0 .. MaxWait + 1]
  <2>1. MaxWait \in Nat
    BY QueueAssumption
  <2>2. \A r \in Requests : ~Expired(r) => age[r] + 1 \in 0 .. MaxWait + 1
    BY <1>1, <2>1 DEF Expired, TypeOK
  <2>3. QED
    BY <1>1, <2>2 DEF Tick, TypeOK
<1>3. QED
  BY <1>1, <1>2 DEF Tick, Inductive, TypeOK, HeldOnce, InLine, GettersWait,
     NobodySleepsOnWork, Woken

LEMMA InductiveNext == Inductive /\ [Next]_vars => Inductive'
<1> SUFFICES ASSUME Inductive, [Next]_vars PROVE Inductive'
  OBVIOUS
<1>1. ASSUME NEW r \in Requests, Enqueue(r) PROVE Inductive'
  BY <1>1, EnqueueKeeps
<1>2. ASSUME NEW c \in Consumers, Dequeue(c) PROVE Inductive'
  BY <1>2, GetKeeps DEF Dequeue
<1>3. ASSUME NEW c \in Consumers, Resume(c) PROVE Inductive'
  BY <1>3, GetKeeps DEF Resume
<1>4. ASSUME NEW c \in Consumers, Return(c) PROVE Inductive'
  BY <1>4, ReturnKeeps
<1>5. ASSUME NEW c \in Consumers, TimesOut(c) PROVE Inductive'
  BY <1>5, TimesOutKeeps
<1>6. ASSUME NEW c \in Consumers, WokenTooLate(c) PROVE Inductive'
  BY <1>6, WokenTooLateKeeps
<1>7. ASSUME Tick PROVE Inductive'
  BY <1>7, TickKeeps
<1>8. CASE UNCHANGED vars
  BY <1>8 DEF vars, Inductive, TypeOK, HeldOnce, InLine, GettersWait,
     NobodySleepsOnWork, Woken
<1>9. QED
  BY <1>1, <1>2, <1>3, <1>4, <1>5, <1>6, <1>7, <1>8 DEF Next

\* Whatever the producers and consumers do, in whatever order the event loop
\* runs them: max_size holds, no request is handed out twice, and as long as
\* somebody sleeps in dequeue() a wake-up is under way for every item.
THEOREM QueueInductive == Spec => []Inductive
<1>1. QED
  BY InductiveInit, InductiveNext, PTL DEF Spec

-----------------------------------------------------------------------------
(* How a request leaves.                                                   *)

\* get() replaces what its caller had by an item, or by nothing: nothing
\* else leaves.
LEMMA GetLosesNothing ==
  ASSUME Inductive, NEW c \in Consumers, Get(c),
         NEW r \in Present \ Present'
  PROVE  held[c] = r /\ held'[c] # r /\ pc'[c] # "outside"
<1>1. /\ line \in Seq(Requests) /\ IsInjective(line)
      /\ held \in [Consumers -> Requests \cup {NoRequest}]
      /\ pc \in [Consumers -> {"outside", "waiting", "woken", "taken"}]
      /\ r # NoRequest
  <2>1. NoRequest \notin Requests
    BY QueueAssumption
  <2>2. QED
    BY <2>1, RangeOfSeq DEF Inductive, TypeOK, HeldOnce, Present, InLine
<1> DEFINE Replaces ==
             /\ held' \in [Consumers -> Requests \cup {NoRequest}]
             /\ pc'[c] # "outside"
             /\ \A d \in Consumers \ {c} : held'[d] = held[d]
             /\ InLine \subseteq InLine' \cup {held'[c]}
<1>2. Replaces
  <2>1. ASSUME NEW k \in DOMAIN line,
               line' = RemoveAt(line, k),
               held' = [held EXCEPT ![c] = line[k]],
               pc' = [pc EXCEPT ![c] = "taken"]
        PROVE  Replaces
    <3>1. InLine' = InLine \ {line[k]} /\ line[k] \in Requests
      BY <1>1, <2>1, RemoveAtRemoves DEF InLine
    <3>2. QED
      BY <1>1, <2>1, <3>1
  <2>2. ASSUME UNCHANGED line,
               held' = [held EXCEPT ![c] = NoRequest],
               pc' = [pc EXCEPT ![c] = "waiting"]
        PROVE  Replaces
    BY <1>1, <2>2 DEF InLine
  <2>3. QED
    BY <2>1, <2>2 DEF Get
<1>3. \A d \in Consumers : held'[d] # r
  BY <1>1, <1>2 DEF Present, Range
<1>4. r \notin InLine
  BY <1>2, <1>3 DEF Present
<1>5. PICK d \in Consumers : held[d] = r
  BY <1>1, <1>4 DEF Present, Range
<1>6. d = c
  BY <1>2, <1>3, <1>5
<1>7. QED
  BY <1>2, <1>3, <1>5, <1>6

\* A request that leaves was returned to a caller before it had expired, or
\* had expired: nothing else makes dequeue(), its timeout or its
\* cancellation drop an item.
THEOREM NoRequestIsLost == Spec => LeavesForAReason
<1> DEFINE HasAReason ==
             \A r \in Present \ Present' :
               \E c \in Consumers :
                 /\ held[c] = r /\ held'[c] # r
                 /\ Expired(r) <=> pc'[c] # "outside"
<1>1. ASSUME Inductive, Next PROVE HasAReason
  <2>1. SUFFICES ASSUME NEW r \in Present \ Present'
                 PROVE  \E c \in Consumers :
                          /\ held[c] = r /\ held'[c] # r
                          /\ Expired(r) <=> pc'[c] # "outside"
    OBVIOUS
  <2>2. /\ line \in Seq(Requests) /\ IsInjective(line)
        /\ held \in [Consumers -> Requests \cup {NoRequest}]
        /\ pc \in [Consumers -> {"outside", "waiting", "woken", "taken"}]
        /\ \A c \in Consumers : pc[c] = "taken" <=> held[c] # NoRequest
        /\ NoRequest \notin Requests /\ r # NoRequest
    <3>1. NoRequest \notin Requests
      BY QueueAssumption
    <3>2. QED
      BY <1>1, <3>1, RangeOfSeq DEF Inductive, TypeOK, HeldOnce, Present, InLine
  <2>3. ASSUME UNCHANGED <<line, held>> PROVE FALSE
    BY <2>1, <2>3 DEF Present, InLine
  <2>4. ASSUME NEW q \in Requests, Enqueue(q) PROVE FALSE
    <3>1. q \notin Range(line) /\ UNCHANGED held /\ line' = Append(line, q)
      BY <2>4 DEF Enqueue, Present, InLine
    <3>2. InLine' = InLine \cup {q}
      BY <2>2, <3>1, AppendAdds DEF InLine
    <3>3. QED
      BY <2>1, <3>1, <3>2 DEF Present
  <2>5. ASSUME NEW c \in Consumers, Dequeue(c) \/ Resume(c) PROVE FALSE
    <3>1. held[c] = r
      BY <1>1, <2>1, <2>5, GetLosesNothing DEF Dequeue, Resume
    <3>2. QED
      BY <2>2, <2>5, <3>1 DEF Dequeue, Resume
  <2>6. ASSUME NEW c \in Consumers, Return(c)
        PROVE  /\ held[c] = r /\ held'[c] # r
               /\ Expired(r) <=> pc'[c] # "outside"
    <3>1. CASE Expired(held[c]) /\ Get(c)
      BY <1>1, <2>1, <3>1, GetLosesNothing
    <3>2. CASE /\ ~Expired(held[c])
               /\ pc' = [pc EXCEPT ![c] = "outside"]
               /\ held' = [held EXCEPT ![c] = NoRequest]
               /\ UNCHANGED <<line, getters>>
      <4>1. r \in Range(held) /\ r \notin Range(held')
        BY <2>1, <3>2 DEF Present, InLine
      <4>2. PICK d \in Consumers : held[d] = r
        BY <2>2, <4>1 DEF Range
      <4>3. d = c
        BY <2>2, <3>2, <4>1, <4>2 DEF Range
      <4>4. QED
        BY <2>2, <3>2, <4>2, <4>3
    <3>3. QED
      BY <2>6, <3>1, <3>2 DEF Return
  <2>7. ASSUME NEW c \in Consumers, TimesOut(c) \/ WokenTooLate(c) PROVE FALSE
    BY <2>3, <2>7 DEF TimesOut, WokenTooLate
  <2>8. ASSUME Tick PROVE FALSE
    BY <2>3, <2>8 DEF Tick
  <2>9. QED
    BY <1>1, <2>4, <2>5, <2>6, <2>7, <2>8 DEF Next
<1>2. ASSUME Inductive, [Next]_vars PROVE [HasAReason]_vars
  BY <1>1, <1>2
<1>3. QED
  BY QueueInductive, <1>2, PTL DEF Spec, LeavesForAReason

-----------------------------------------------------------------------------
(* The order of the items.                                                 *)

LEMMA LeastOf ==
  ASSUME NEW T \in SUBSET Nat, T # {}
  PROVE  \E x \in T : \A y \in T : x <= y
<1>1. PICK x \in T : \A y \in T : ~(<<y, x>> \in OpToRel(<, Nat))
  BY NatLessThanWellFounded, WFMin
<1>2. \A y \in T : ~(y < x)
  BY <1>1 DEF OpToRel
<1>3. QED
  BY <1>2

\* QueueItem.__lt__ is only a partial order: items of one priority that were
\* enqueued at the same time have none.  A line still has a first item, one
\* that nothing comes before, so the heap of dequeue() can always hand one
\* out: a get() that finds items never fails, and never sleeps on them.
SomebodyIsFirst == line # <<>> => \E k \in DOMAIN line : IsFirst(k)

THEOREM OneIsAlwaysFirst == Spec => []SomebodyIsFirst
<1>1. TypeOK => SomebodyIsFirst
  <2>1. SUFFICES ASSUME TypeOK, line # <<>>
                 PROVE  \E k \in DOMAIN line : IsFirst(k)
    BY DEF SomebodyIsFirst
  <2> DEFINE Rank(j) == Priority[line[j]]
             Left(j) == MaxWait + 1 - age[line[j]]
             Ranks == {Rank(j) : j \in DOMAIN line}
  <2>2. /\ DOMAIN line # {} /\ DOMAIN line \subseteq Nat
        /\ \A j \in DOMAIN line : line[j] \in Requests
    BY <2>1, ElementOfSeq, LenProperties, EmptySeq DEF TypeOK
  <2>3. /\ MaxWait \in Nat
        /\ \A j \in DOMAIN line : Rank(j) \in Nat /\ Left(j) \in Nat
        /\ \A j \in DOMAIN line : age[line[j]] \in 0 .. MaxWait + 1
    <3>1. ASSUME NEW r \in Requests
          PROVE  Priority[r] \in Nat /\ age[r] \in 0 .. MaxWait + 1
      BY <2>1, QueueAssumption DEF TypeOK
    <3>2. ASSUME NEW x \in 0 .. MaxWait + 1 PROVE MaxWait + 1 - x \in Nat
      BY QueueAssumption
    <3>3. QED
      BY <2>2, <3>1, <3>2, QueueAssumption
  <2> HIDE DEF Rank
  <2>4. PICK p \in Ranks : \A q \in Ranks : p <= q
    BY <2>2, <2>3, LeastOf
  <2> DEFINE Urgent == {j \in DOMAIN line : Rank(j) = p}
             Lefts == {Left(j) : j \in Urgent}
  <2>5. Urgent # {}
    BY <2>4
  <2> HIDE DEF Left
  <2>6. PICK a \in Lefts : \A b \in Lefts : a <= b
    BY <2>3, <2>5, LeastOf
  <2> DEFINE Oldest == {j \in Urgent : Left(j) = a}
  <2>7. Oldest # {} /\ Oldest \in SUBSET Nat
    BY <2>2, <2>6
  <2>8. PICK k \in Oldest : \A j \in Oldest : k <= j
    BY <2>7, LeastOf
  <2>9. ASSUME NEW j \in DOMAIN line, Before(j, k) PROVE FALSE
    <3>1. Rank(j) >= Rank(k) /\ Rank(k) \in Nat /\ Rank(j) \in Nat
      BY <2>3, <2>4
    <3>2. Rank(j) = Rank(k)
      BY <2>9, <3>1 DEF Before, Rank
    <3>3. j \in Urgent /\ Left(k) <= Left(j)
      BY <2>6, <3>2
    <3>4. age[line[j]] <= age[line[k]]
      BY <2>3, <3>3 DEF Left
    <3>5. Expired(line[j]) /\ Expired(line[k]) /\ j < k
      BY <2>3, <2>9, <3>1, <3>2, <3>4 DEF Before, Rank
    <3>6. Left(j) = Left(k)
      BY <2>3, <3>5 DEF Left, Expired
    <3>7. j \in Oldest
      BY <3>3, <3>6
    <3>8. k <= j /\ k \in Nat /\ j \in Nat
      BY <2>2, <2>8, <3>7
    <3>9. QED
      BY <3>5, <3>8
  <2>10. QED
    BY <2>9 DEF IsFirst
<1>2. QED
  BY <1>1, QueueInductive, PTL DEF Inductive
=============================================================================
