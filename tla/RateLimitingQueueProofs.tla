----------------------- MODULE RateLimitingQueueProofs -----------------------
(***************************************************************************)
(* What each operation of the work queue does, for any set of keys: the    *)
(* lemmas the proofs about its users rest on.                              *)
(***************************************************************************)
EXTENDS RateLimitingQueue, TLAPS

-----------------------------------------------------------------------------
(* What each operation does to the fields of a queue, and that it keeps    *)
(* the queue's type.                                                       *)

LEMMA EmptyQueueType == EmptyQueue \in Queues /\ ListsOnce(EmptyQueue)
  BY MaxFailuresAssumption DEF EmptyQueue, Queues, ListsOnce

LEMMA AddFields ==
  ASSUME NEW w \in Queues, NEW k \in Keys
  PROVE  /\ Add(w, k) \in Queues
         /\ Add(w, k).dirty = IF w.shuttingDown THEN w.dirty ELSE w.dirty \cup {k}
         /\ Add(w, k).queue = IF w.shuttingDown \/ k \in w.dirty \/ k \in w.processing
                                THEN w.queue ELSE Append(w.queue, k)
         /\ Add(w, k).processing = w.processing
         /\ Add(w, k).waiting = w.waiting
         /\ Add(w, k).failures = w.failures
         /\ Add(w, k).shuttingDown = w.shuttingDown
  <1> DEFINE d == w.dirty \cup {k}
             s == IF k \in w.processing THEN w.queue ELSE Append(w.queue, k)
  <1>1. w.queue \in Seq(Keys) /\ w.dirty \in SUBSET Keys /\ w.shuttingDown \in BOOLEAN
    BY DEF Queues
  <1>2. d \in SUBSET Keys /\ s \in Seq(Keys)
    BY <1>1
  <1>3. CASE w.shuttingDown \/ k \in w.dirty
    BY <1>1, <1>3 DEF Add
  <1>4. CASE ~(w.shuttingDown \/ k \in w.dirty)
    <2>1. Add(w, k) = [w EXCEPT !.dirty = d, !.queue = s]
      BY <1>4 DEF Add
    <2> HIDE DEF d, s
    <2>2. [w EXCEPT !.dirty = d, !.queue = s] \in Queues
      BY <1>2 DEF Queues
    <2>3. /\ Add(w, k).dirty = d
          /\ Add(w, k).queue = s
          /\ Add(w, k).processing = w.processing
          /\ Add(w, k).waiting = w.waiting
          /\ Add(w, k).failures = w.failures
          /\ Add(w, k).shuttingDown = w.shuttingDown
      BY <2>1 DEF Queues
    <2>4. QED
      BY <1>4, <2>1, <2>2, <2>3 DEF d, s
  <1>5. QED
    BY <1>3, <1>4

LEMMA GetFields ==
  ASSUME NEW w \in Queues, CanGet(w)
  PROVE  /\ Head(w.queue) \in Keys
         /\ Get(w) \in Queues
         /\ Get(w).dirty = w.dirty \ {Head(w.queue)}
         /\ Get(w).queue = Tail(w.queue)
         /\ Get(w).processing = w.processing \cup {Head(w.queue)}
         /\ Get(w).waiting = w.waiting
         /\ Get(w).failures = w.failures
         /\ Get(w).shuttingDown = w.shuttingDown
  <1> DEFINE h == Head(w.queue)
             d == w.dirty \ {h}
             s == Tail(w.queue)
             p == w.processing \cup {h}
  <1>1. w.queue \in Seq(Keys) /\ w.queue # << >>
    BY DEF Queues, CanGet
  <1>2. h \in Keys /\ s \in Seq(Keys)
    BY <1>1
  <1>3. d \in SUBSET Keys /\ p \in SUBSET Keys
    BY <1>2 DEF Queues
  <1>4. Get(w) = [w EXCEPT !.queue = s, !.dirty = d, !.processing = p]
    BY DEF Get
  <1> HIDE DEF d, s, p
  <1>5. [w EXCEPT !.queue = s, !.dirty = d, !.processing = p] \in Queues
    BY <1>2, <1>3 DEF Queues
  <1>6. /\ Get(w).dirty = d
        /\ Get(w).queue = s
        /\ Get(w).processing = p
        /\ Get(w).waiting = w.waiting
        /\ Get(w).failures = w.failures
        /\ Get(w).shuttingDown = w.shuttingDown
    BY <1>4 DEF Queues
  <1>7. QED
    BY <1>2, <1>4, <1>5, <1>6 DEF d, s, p

LEMMA DoneFields ==
  ASSUME NEW w \in Queues, NEW k \in Keys
  PROVE  /\ Done(w, k) \in Queues
         /\ Done(w, k).processing = w.processing \ {k}
         /\ Done(w, k).queue = IF k \in w.dirty THEN Append(w.queue, k) ELSE w.queue
         /\ Done(w, k).dirty = w.dirty
         /\ Done(w, k).waiting = w.waiting
         /\ Done(w, k).failures = w.failures
         /\ Done(w, k).shuttingDown = w.shuttingDown
  <1> DEFINE p == w.processing \ {k}
             s == IF k \in w.dirty THEN Append(w.queue, k) ELSE w.queue
  <1>1. p \in SUBSET Keys /\ s \in Seq(Keys)
    BY DEF Queues
  <1>2. Done(w, k) = [w EXCEPT !.processing = p, !.queue = s]
    BY DEF Done
  <1> HIDE DEF p, s
  <1>3. [w EXCEPT !.processing = p, !.queue = s] \in Queues
    BY <1>1 DEF Queues
  <1>4. /\ Done(w, k).processing = p
        /\ Done(w, k).queue = s
        /\ Done(w, k).dirty = w.dirty
        /\ Done(w, k).waiting = w.waiting
        /\ Done(w, k).failures = w.failures
        /\ Done(w, k).shuttingDown = w.shuttingDown
    BY <1>2 DEF Queues
  <1>5. QED
    BY <1>2, <1>3, <1>4 DEF p, s

LEMMA AddAfterFields ==
  ASSUME NEW w \in Queues, NEW k \in Keys
  PROVE  /\ AddAfter(w, k) \in Queues
         /\ AddAfter(w, k).waiting = IF w.shuttingDown THEN w.waiting ELSE w.waiting \cup {k}
         /\ AddAfter(w, k).queue = w.queue
         /\ AddAfter(w, k).dirty = w.dirty
         /\ AddAfter(w, k).processing = w.processing
         /\ AddAfter(w, k).failures = w.failures
         /\ AddAfter(w, k).shuttingDown = w.shuttingDown
  BY DEF AddAfter, Queues

LEMMA ForgetFields ==
  ASSUME NEW w \in Queues, NEW k \in Keys
  PROVE  /\ Forget(w, k) \in Queues
         /\ Forget(w, k).queue = w.queue
         /\ Forget(w, k).dirty = w.dirty
         /\ Forget(w, k).processing = w.processing
         /\ Forget(w, k).waiting = w.waiting
         /\ Forget(w, k).shuttingDown = w.shuttingDown
         /\ Forget(w, k).failures = [w.failures EXCEPT ![k] = 0]
  <1> DEFINE f == [w.failures EXCEPT ![k] = 0]
  <1>1. f \in [Keys -> 0..MaxFailures]
    BY MaxFailuresAssumption DEF Queues
  <1>2. Forget(w, k) = [w EXCEPT !.failures = f]
    BY DEF Forget
  <1> HIDE DEF f
  <1>3. Forget(w, k).failures = f
    BY <1>2 DEF Queues
  <1>4. Forget(w, k).failures = [w.failures EXCEPT ![k] = 0]
    BY <1>3 DEF f
  <1>5. QED
    BY <1>1, <1>2, <1>4 DEF Queues

LEMMA AddRateLimitedFields ==
  ASSUME NEW w \in Queues, NEW k \in Keys
  PROVE  /\ AddRateLimited(w, k) \in Queues
         /\ AddRateLimited(w, k).waiting =
              IF w.shuttingDown THEN w.waiting ELSE w.waiting \cup {k}
         /\ AddRateLimited(w, k).queue = w.queue
         /\ AddRateLimited(w, k).dirty = w.dirty
         /\ AddRateLimited(w, k).processing = w.processing
         /\ AddRateLimited(w, k).shuttingDown = w.shuttingDown
         /\ MaxFailures > 0 => AddRateLimited(w, k).failures[k] > 0
         /\ \A x \in Keys \ {k} : AddRateLimited(w, k).failures[x] = w.failures[x]
  <1> DEFINE n == IF w.failures[k] < MaxFailures THEN w.failures[k] + 1 ELSE w.failures[k]
             f == [w.failures EXCEPT ![k] = n]
             c == [w EXCEPT !.failures = f]
  <1>1. n \in 0..MaxFailures
    BY MaxFailuresAssumption DEF Queues
  <1>2. f \in [Keys -> 0..MaxFailures]
    BY <1>1 DEF Queues
  <1>3. AddRateLimited(w, k) = AddAfter(c, k)
    BY DEF AddRateLimited
  <1>6. f[k] = n /\ \A x \in Keys \ {k} : f[x] = w.failures[x]
    BY DEF Queues
  <1>7. MaxFailures > 0 => n > 0
    BY MaxFailuresAssumption DEF Queues
  <1> HIDE DEF f, n
  <1>4. /\ c \in Queues
        /\ c.waiting = w.waiting /\ c.queue = w.queue /\ c.dirty = w.dirty
        /\ c.processing = w.processing /\ c.shuttingDown = w.shuttingDown
        /\ c.failures = f
    BY <1>2 DEF Queues
  <1> HIDE DEF c
  <1>5. QED
    BY <1>3, <1>4, <1>6, <1>7, AddAfterFields

LEMMA FireFields ==
  ASSUME NEW w \in Queues, NEW k \in Keys
  PROVE  /\ Fire(w, k) \in Queues
         /\ Fire(w, k).waiting = w.waiting \ {k}
         /\ Fire(w, k).dirty = IF w.shuttingDown THEN w.dirty ELSE w.dirty \cup {k}
         /\ Fire(w, k).queue = IF w.shuttingDown \/ k \in w.dirty \/ k \in w.processing
                                 THEN w.queue ELSE Append(w.queue, k)
         /\ Fire(w, k).processing = w.processing
         /\ Fire(w, k).shuttingDown = w.shuttingDown
         /\ Fire(w, k).failures = w.failures
  <1> DEFINE x == w.waiting \ {k}
             c == [w EXCEPT !.waiting = x]
  <1>1. Fire(w, k) = Add(c, k)
    BY DEF Fire
  <1>2. /\ c \in Queues
        /\ c.waiting = x /\ c.queue = w.queue /\ c.dirty = w.dirty
        /\ c.processing = w.processing /\ c.shuttingDown = w.shuttingDown
        /\ c.failures = w.failures
    BY DEF Queues
  <1> HIDE DEF c, x
  <1>3. Add(c, k).failures = c.failures
    BY <1>2, AddFields
  <1>4. Fire(w, k).failures = w.failures
    BY <1>1, <1>2, <1>3
  <1>5. QED
    BY <1>1, <1>2, <1>4, AddFields DEF x

LEMMA ShutDownFields ==
  ASSUME NEW w \in Queues
  PROVE  /\ ShutDown(w) \in Queues
         /\ ShutDown(w).queue = w.queue
         /\ ShutDown(w).dirty = w.dirty
         /\ ShutDown(w).processing = w.processing
         /\ ShutDown(w).waiting = {}
         /\ ShutDown(w).shuttingDown = TRUE
         /\ ShutDown(w).failures = w.failures
  BY DEF ShutDown, Queues

-----------------------------------------------------------------------------
(* Add, Get and Done keep every waiting key in the queue, once. *)

LEMMA AppendLists ==
  ASSUME NEW w \in Queues, NEW v \in Queues, NEW k \in Keys, ListsOnce(w),
         k \notin w.dirty \ w.processing,
         v.queue = Append(w.queue, k),
         v.dirty \ v.processing = (w.dirty \ w.processing) \cup {k}
  PROVE  ListsOnce(v)
  <1>1. w.queue \in Seq(Keys)
    BY DEF Queues
  <1>2. /\ DOMAIN v.queue = 1..(Len(w.queue) + 1)
        /\ \A i \in 1..Len(w.queue) : v.queue[i] = w.queue[i]
        /\ v.queue[Len(w.queue) + 1] = k
        /\ DOMAIN w.queue = 1..Len(w.queue)
        /\ Len(w.queue) \in Nat
    BY <1>1
  <1>3. \A i \in 1..Len(w.queue) : w.queue[i] # k
    BY <1>2 DEF ListsOnce
  <1>4. ASSUME NEW x \in Keys
        PROVE  x \in v.dirty \ v.processing <=> \E i \in DOMAIN v.queue : v.queue[i] = x
    <2>1. CASE x = k
      BY <1>2, <2>1
    <2>2. CASE x # k
      <3>1. x \in v.dirty \ v.processing <=> x \in w.dirty \ w.processing
        BY <2>2
      <3>2. (\E i \in DOMAIN v.queue : v.queue[i] = x)
              <=> (\E i \in DOMAIN w.queue : w.queue[i] = x)
        BY <1>2, <2>2
      <3>3. QED
        BY <3>1, <3>2 DEF ListsOnce
    <2>3. QED
      BY <2>1, <2>2
  <1>5. ASSUME NEW i \in DOMAIN v.queue, NEW j \in DOMAIN v.queue, v.queue[i] = v.queue[j]
        PROVE  i = j
    BY <1>2, <1>3, <1>5 DEF ListsOnce
  <1>6. QED
    BY <1>4, <1>5 DEF ListsOnce

LEMMA AddLists ==
  ASSUME NEW w \in Queues, NEW k \in Keys, ListsOnce(w)
  PROVE  ListsOnce(Add(w, k))
  <1>1. CASE w.shuttingDown \/ k \in w.dirty
    BY <1>1, AddFields DEF ListsOnce, Add
  <1>2. CASE ~(w.shuttingDown \/ k \in w.dirty) /\ k \in w.processing
    <2>1. /\ Add(w, k).dirty \ Add(w, k).processing = w.dirty \ w.processing
          /\ Add(w, k).queue = w.queue
      BY <1>2, AddFields
    <2>2. QED
      BY <2>1 DEF ListsOnce
  <1>3. CASE ~(w.shuttingDown \/ k \in w.dirty) /\ k \notin w.processing
    <2> DEFINE v == Add(w, k)
    <2>1. /\ v \in Queues
          /\ v.queue = Append(w.queue, k)
          /\ v.dirty = w.dirty \cup {k}
          /\ v.processing = w.processing
      BY <1>3, AddFields
    <2> HIDE DEF v
    <2>2. v.dirty \ v.processing = (w.dirty \ w.processing) \cup {k}
      BY <1>3, <2>1
    <2>3. QED
      BY <1>3, <2>1, <2>2, AppendLists DEF v
  <1>4. QED
    BY <1>1, <1>2, <1>3

LEMMA GetLists ==
  ASSUME NEW w \in Queues, CanGet(w), ListsOnce(w)
  PROVE  ListsOnce(Get(w))
  <1> DEFINE h == Head(w.queue)
             v == Get(w)
  <1>1. w.queue \in Seq(Keys) /\ w.queue # << >>
    BY DEF Queues, CanGet
  <1>2. /\ v.queue = Tail(w.queue)
        /\ v.dirty \ v.processing = (w.dirty \ w.processing) \ {h}
        /\ h \in Keys
    BY GetFields
  <1> HIDE DEF v
  <1>3. /\ Len(w.queue) \in Nat /\ Len(w.queue) > 0
        /\ DOMAIN w.queue = 1..Len(w.queue)
        /\ DOMAIN v.queue = 1..(Len(w.queue) - 1)
        /\ \A i \in DOMAIN v.queue : v.queue[i] = w.queue[i + 1]
        /\ h = w.queue[1]
    BY <1>1, <1>2
  <1> HIDE DEF h
  <1>4. ASSUME NEW x \in Keys
        PROVE  x \in v.dirty \ v.processing <=> \E i \in DOMAIN v.queue : v.queue[i] = x
    <2>1. ASSUME x \in v.dirty \ v.processing
          PROVE  \E i \in DOMAIN v.queue : v.queue[i] = x
      <3>1. PICK i \in DOMAIN w.queue : w.queue[i] = x
        BY <1>2, <2>1 DEF ListsOnce
      <3>2. i # 1
        BY <1>2, <1>3, <2>1, <3>1
      <3>3. i - 1 \in DOMAIN v.queue /\ v.queue[i - 1] = x
        BY <1>3, <3>1, <3>2
      <3>4. QED
        BY <3>3
    <2>2. ASSUME NEW i \in DOMAIN v.queue, v.queue[i] = x
          PROVE  x \in v.dirty \ v.processing
      <3>1. i + 1 \in DOMAIN w.queue /\ w.queue[i + 1] = x /\ i + 1 # 1 /\ 1 \in DOMAIN w.queue
        BY <1>3, <2>2
      <3>2. x # h
        BY <1>3, <3>1 DEF ListsOnce
      <3>3. QED
        BY <1>2, <3>1, <3>2 DEF ListsOnce
    <2>3. QED
      BY <2>1, <2>2
  <1>5. ASSUME NEW i \in DOMAIN v.queue, NEW j \in DOMAIN v.queue, v.queue[i] = v.queue[j]
        PROVE  i = j
    <2>1. i + 1 \in DOMAIN w.queue /\ j + 1 \in DOMAIN w.queue
          /\ w.queue[i + 1] = w.queue[j + 1]
      BY <1>3, <1>5
    <2>2. i + 1 = j + 1
      BY <2>1 DEF ListsOnce
    <2>3. QED
      BY <1>3, <2>2
  <1>6. QED
    BY <1>4, <1>5 DEF ListsOnce, v

LEMMA DoneLists ==
  ASSUME NEW w \in Queues, NEW k \in Keys, k \in w.processing, ListsOnce(w)
  PROVE  ListsOnce(Done(w, k))
  <1>1. CASE k \in w.dirty
    <2>1. /\ Done(w, k) \in Queues
          /\ Done(w, k).queue = Append(w.queue, k)
          /\ Done(w, k).dirty \ Done(w, k).processing = (w.dirty \ w.processing) \cup {k}
      BY <1>1, DoneFields
    <2>2. QED
      BY <2>1, AppendLists
  <1>2. CASE k \notin w.dirty
    <2>1. /\ Done(w, k).dirty \ Done(w, k).processing = w.dirty \ w.processing
          /\ Done(w, k).queue = w.queue
      BY <1>2, DoneFields
    <2>2. QED
      BY <2>1 DEF ListsOnce
  <1>3. QED
    BY <1>1, <1>2

\* Two queues that agree on what is queued, dirty and in processing.
LEMMA SameLists ==
  ASSUME NEW w, NEW v, ListsOnce(w),
         v.queue = w.queue, v.dirty = w.dirty, v.processing = w.processing
  PROVE  ListsOnce(v)
  BY DEF ListsOnce

LEMMA FireLists ==
  ASSUME NEW w \in Queues, NEW k \in Keys, ListsOnce(w)
  PROVE  ListsOnce(Fire(w, k))
  <1> DEFINE c == [w EXCEPT !.waiting = @ \ {k}]
  <1>1. /\ c \in Queues
        /\ c.queue = w.queue /\ c.dirty = w.dirty /\ c.processing = w.processing
    BY DEF Queues
  <1>2. ListsOnce(c)
    BY <1>1, SameLists
  <1> HIDE DEF c
  <1>3. ListsOnce(Add(c, k))
    BY <1>1, <1>2, AddLists
  <1>4. QED
    BY <1>3 DEF Fire, c
=============================================================================
