------------------------- MODULE ProcessNextProofs -------------------------
(***************************************************************************)
(* What processNext keeps of its queue, for any set of keys: type          *)
(* correctness, that a key is queued once, that a key once heard of is     *)
(* never dropped, that the back-off follows the last pass, that queue and  *)
(* worker implement KeyHints, that each key is as if it were alone, and    *)
(* that after a shutdown the worker runs out of things to do.              *)
(***************************************************************************)
EXTENDS ProcessNext, RateLimitingQueueProofs

-----------------------------------------------------------------------------
(* The inductive invariant.  NeverDropped alone is not inductive: that Done *)
(* may forget the key rests on the key having been scheduled just before.   *)

HoldsItsKey == key = NoKey <=> Idle

ScheduledBeforeDone == pc = "done" /\ ~q.shuttingDown => Scheduled(q, key)

AnswersAreRecorded == unanswered = q.dirty

IInv == /\ TypeOK
        /\ HoldsItsKey
        /\ QueuedOnce
        /\ NeverDropped
        /\ ScheduledBeforeDone
        /\ AnswersAreRecorded

LEMMA InitInv == Init => IInv
  <1> SUFFICES ASSUME Init PROVE IInv
    OBVIOUS
  <1>1. TypeOK
    BY EmptyQueueType DEF Init, TypeOK, Steps
  <1>2. q.dirty = {} /\ q.processing = {}
    BY DEF Init, EmptyQueue
  <1>3. QED
    BY <1>1, <1>2, EmptyQueueType
    DEF Init, IInv, HoldsItsKey, Idle, QueuedOnce, NeverDropped,
        ScheduledBeforeDone, AnswersAreRecorded

\* Every step of the worker, the handlers, the timers and the shutdown keeps
\* the invariant.
LEMMA NextInv == IInv /\ [Next]_vars => IInv'
  <1> SUFFICES ASSUME IInv, [Next]_vars PROVE IInv'
    OBVIOUS
  <1> USE NoKeyAssumption
  <1>0. /\ q \in Queues /\ announced \subseteq Keys /\ unanswered \subseteq Keys
        /\ lastPass \in [Keys -> {"none", "ok", "error"}]
        /\ q.shuttingDown \in BOOLEAN
        /\ ListsOnce(q)
        /\ pc \in Steps
    BY DEF IInv, TypeOK, QueuedOnce, Queues
  <1>1. ASSUME NEW k \in Keys, Enqueue(k) PROVE IInv'
    <2>1. /\ q' = Add(q, k) /\ announced' = announced \cup {k}
          /\ UNCHANGED << pc, key, lastPass >>
          /\ unanswered' = IF q.shuttingDown THEN unanswered ELSE unanswered \cup {k}
      BY <1>1 DEF Enqueue, CallFor
    <2>2. ListsOnce(q')
      BY <1>0, <2>1, AddLists
    <2>3. /\ q' \in Queues
          /\ q'.dirty = IF q.shuttingDown THEN q.dirty ELSE q.dirty \cup {k}
          /\ q'.processing = q.processing
          /\ q'.waiting \in {q.waiting, q.waiting \ {k}}
          /\ q'.shuttingDown = q.shuttingDown
      BY <1>0, <2>1, AddFields
    <2>4. TypeOK' /\ HoldsItsKey' /\ QueuedOnce' /\ AnswersAreRecorded'
      BY <1>0, <2>1, <2>2, <2>3
      DEF IInv, TypeOK, HoldsItsKey, Idle, QueuedOnce, AnswersAreRecorded
    <2>5. NeverDropped' /\ ScheduledBeforeDone'
      BY <1>0, <2>1, <2>3
      DEF IInv, NeverDropped, ScheduledBeforeDone, Scheduled
    <2>6. QED
      BY <2>4, <2>5 DEF IInv
  <1>2. ASSUME NEW k \in Keys, TimerFires(k) PROVE IInv'
    <2>1. /\ q' = Fire(q, k)
          /\ UNCHANGED << pc, key, announced, lastPass >>
          /\ unanswered' = IF q.shuttingDown THEN unanswered ELSE unanswered \cup {k}
      BY <1>2 DEF TimerFires, CallFor
    <2>2. ListsOnce(q')
      BY <1>0, <2>1, FireLists
    <2>3. /\ q' \in Queues
          /\ q'.dirty = IF q.shuttingDown THEN q.dirty ELSE q.dirty \cup {k}
          /\ q'.processing = q.processing
          /\ q'.waiting \in {q.waiting, q.waiting \ {k}}
          /\ q'.shuttingDown = q.shuttingDown
      BY <1>0, <2>1, FireFields
    <2>4. TypeOK' /\ HoldsItsKey' /\ QueuedOnce' /\ AnswersAreRecorded'
      BY <1>0, <2>1, <2>2, <2>3
      DEF IInv, TypeOK, HoldsItsKey, Idle, QueuedOnce, AnswersAreRecorded
    <2>5. NeverDropped' /\ ScheduledBeforeDone'
      BY <1>0, <2>1, <2>3
      DEF IInv, NeverDropped, ScheduledBeforeDone, Scheduled
    <2>6. QED
      BY <2>4, <2>5 DEF IInv
  <1>3. CASE StopObserving
    <2>1. q' = ShutDown(q) /\ UNCHANGED << pc, key, announced, unanswered, lastPass >>
      BY <1>3 DEF StopObserving
    <2>2. ListsOnce(q')
      BY <1>0, <2>1, ShutDownFields, SameLists
    <2>3. QED
      BY <1>0, <2>1, <2>2, ShutDownFields
      DEF IInv, TypeOK, HoldsItsKey, Idle, QueuedOnce, NeverDropped,
          ScheduledBeforeDone, AnswersAreRecorded
  <1>4. CASE TakeKey
    <2>1. /\ pc = "get" /\ pc' = "reconcile" /\ CanGet(q) /\ q' = Get(q)
          /\ key' = Head(q.queue) /\ unanswered' = unanswered \ {Head(q.queue)}
          /\ UNCHANGED << announced, lastPass >>
      BY <1>4 DEF TakeKey
    <2>2. ListsOnce(q')
      BY <1>0, <2>1, GetLists
    <2>3. key' \in Keys /\ key' # NoKey
      BY <1>0, <2>1, GetFields
    <2>4. q.processing = {}
      BY <2>1 DEF IInv, QueuedOnce, Idle
    <2>5. q'.processing = {key'}
      BY <1>0, <2>1, <2>4, GetFields
    <2>6. /\ q' \in Queues
          /\ q'.dirty = q.dirty \ {key'}
          /\ q'.waiting = q.waiting
          /\ q'.shuttingDown = q.shuttingDown
      BY <1>0, <2>1, GetFields
    <2>7. TypeOK' /\ HoldsItsKey' /\ QueuedOnce' /\ AnswersAreRecorded'
      BY <1>0, <2>1, <2>2, <2>3, <2>5, <2>6
      DEF IInv, TypeOK, Steps, HoldsItsKey, Idle, QueuedOnce, AnswersAreRecorded
    <2>8. NeverDropped' /\ ScheduledBeforeDone'
      BY <2>1, <2>4, <2>5, <2>6 DEF IInv, NeverDropped, ScheduledBeforeDone, Scheduled
    <2>9. QED
      BY <2>7, <2>8 DEF IInv
  <1>5. CASE EndWorker
    BY <1>0, <1>5
    DEF EndWorker, IInv, TypeOK, Steps, HoldsItsKey, Idle, QueuedOnce, NeverDropped,
        ScheduledBeforeDone, AnswersAreRecorded
  <1>6. CASE Reconciled \/ Failed
    <2>1. key \in Keys /\ UNCHANGED << q, key, announced, unanswered >>
          /\ pc = "reconcile" /\ pc' \in {"forget", "addRateLimited"}
          /\ lastPass' \in [Keys -> {"none", "ok", "error"}]
      BY <1>0, <1>6 DEF Reconciled, Failed, IInv, TypeOK, HoldsItsKey, Idle
    <2>2. QED
      BY <1>0, <2>1
      DEF IInv, TypeOK, Steps, HoldsItsKey, Idle, QueuedOnce, NeverDropped,
          ScheduledBeforeDone, AnswersAreRecorded
  <1>7. CASE RetryLater
    <2>1. /\ key \in Keys /\ pc = "addRateLimited" /\ pc' = "done"
          /\ q' = AddRateLimited(q, key)
          /\ UNCHANGED << key, announced, unanswered, lastPass >>
      BY <1>7 DEF RetryLater, IInv, TypeOK, HoldsItsKey, Idle
    <2>2. ListsOnce(q')
      BY <1>0, <2>1, AddRateLimitedFields, SameLists
    <2>3. /\ q' \in Queues
          /\ q'.waiting = IF q.shuttingDown THEN q.waiting ELSE q.waiting \cup {key}
          /\ q'.dirty = q.dirty
          /\ q'.processing = q.processing
          /\ q'.shuttingDown = q.shuttingDown
      BY <1>0, <2>1, AddRateLimitedFields
    <2>4. TypeOK' /\ HoldsItsKey' /\ QueuedOnce' /\ AnswersAreRecorded'
      BY <1>0, <2>1, <2>2, <2>3
      DEF IInv, TypeOK, Steps, HoldsItsKey, Idle, QueuedOnce, AnswersAreRecorded
    <2>5. NeverDropped' /\ ScheduledBeforeDone'
      BY <2>1, <2>3 DEF IInv, NeverDropped, ScheduledBeforeDone, Scheduled
    <2>6. QED
      BY <2>4, <2>5 DEF IInv
  <1>8. CASE ForgetFailures
    <2>1. /\ key \in Keys /\ pc = "forget" /\ pc' = "addAfter"
          /\ q' = Forget(q, key)
          /\ UNCHANGED << key, announced, unanswered, lastPass >>
      BY <1>8 DEF ForgetFailures, IInv, TypeOK, HoldsItsKey, Idle
    <2>2. ListsOnce(q')
      BY <1>0, <2>1, ForgetFields, SameLists
    <2>3. QED
      BY <1>0, <2>1, <2>2, ForgetFields
      DEF IInv, TypeOK, Steps, HoldsItsKey, Idle, QueuedOnce, NeverDropped, Scheduled,
          ScheduledBeforeDone, AnswersAreRecorded
  <1>9. CASE ResyncLater
    <2>1. /\ key \in Keys /\ pc = "addAfter" /\ pc' = "done"
          /\ q' = AddAfter(q, key)
          /\ UNCHANGED << key, announced, unanswered, lastPass >>
      BY <1>9 DEF ResyncLater, IInv, TypeOK, HoldsItsKey, Idle
    <2>2. ListsOnce(q')
      BY <1>0, <2>1, AddAfterFields, SameLists
    <2>3. /\ q' \in Queues
          /\ q'.waiting = IF q.shuttingDown THEN q.waiting ELSE q.waiting \cup {key}
          /\ q'.dirty = q.dirty
          /\ q'.processing = q.processing
          /\ q'.shuttingDown = q.shuttingDown
      BY <1>0, <2>1, AddAfterFields
    <2>4. TypeOK' /\ HoldsItsKey' /\ QueuedOnce' /\ AnswersAreRecorded'
      BY <1>0, <2>1, <2>2, <2>3
      DEF IInv, TypeOK, Steps, HoldsItsKey, Idle, QueuedOnce, AnswersAreRecorded
    <2>5. NeverDropped' /\ ScheduledBeforeDone'
      BY <2>1, <2>3 DEF IInv, NeverDropped, ScheduledBeforeDone, Scheduled
    <2>6. QED
      BY <2>4, <2>5 DEF IInv
  <1>10. CASE HandIn
    <2>1. /\ key \in Keys /\ pc = "done" /\ pc' = "get" /\ key' = NoKey
          /\ q' = Done(q, key)
          /\ UNCHANGED << announced, unanswered, lastPass >>
      BY <1>10 DEF HandIn, IInv, TypeOK, HoldsItsKey, Idle
    <2>2. q.processing = {key}
      BY <2>1 DEF IInv, QueuedOnce, Idle
    <2>3. ListsOnce(q')
      BY <1>0, <2>1, <2>2, DoneLists
    <2>4. q'.processing = {}
      BY <1>0, <2>1, <2>2, DoneFields
    <2>5. /\ q' \in Queues
          /\ q'.dirty = q.dirty
          /\ q'.waiting = q.waiting
          /\ q'.shuttingDown = q.shuttingDown
      BY <1>0, <2>1, DoneFields
    <2>6. TypeOK' /\ HoldsItsKey' /\ QueuedOnce' /\ AnswersAreRecorded'
      BY <1>0, <2>1, <2>3, <2>4, <2>5
      DEF IInv, TypeOK, Steps, HoldsItsKey, Idle, QueuedOnce, AnswersAreRecorded
    <2>7. NeverDropped' /\ ScheduledBeforeDone'
      BY <2>1, <2>2, <2>4, <2>5 DEF IInv, NeverDropped, ScheduledBeforeDone, Scheduled
    <2>8. QED
      BY <2>6, <2>7 DEF IInv
  <1>11. CASE UNCHANGED vars
    BY <1>11 DEF vars, IInv, TypeOK, HoldsItsKey, Idle, QueuedOnce, NeverDropped, Scheduled,
                 ScheduledBeforeDone, AnswersAreRecorded
  <1>12. QED
    BY <1>1, <1>2, <1>3, <1>4, <1>5, <1>6, <1>7, <1>8, <1>9, <1>10, <1>11
    DEF Next, Worker

-----------------------------------------------------------------------------
\* Type correctness of the worker and its queue.
THEOREM TypeCorrect == Spec => []TypeOK
  <1>1. IInv => TypeOK
    BY DEF IInv
  <1>2. QED
    BY <1>1, InitInv, NextInv, PTL DEF Spec

\* Whatever the order of events, timers and the worker's calls, a key is
\* queued once and worked on by one pass.
THEOREM KeysQueuedOnce == Spec => []QueuedOnce
  <1>1. IInv => QueuedOnce
    BY DEF IInv
  <1>2. QED
    BY <1>1, InitInv, NextInv, PTL DEF Spec

\* Until the shutdown, a key the controller has heard of keeps coming back.
THEOREM KeysNeverDropped == Spec => []NeverDropped
  <1>1. IInv => NeverDropped
    BY DEF IInv
  <1>2. QED
    BY <1>1, InitInv, NextInv, PTL DEF Spec

-----------------------------------------------------------------------------
(* BackoffIsCurrent: between the end of a pass and the call that tells the *)
(* rate limiter of it, the count of the held key is one pass behind.       *)

Behind(k) == pc \in {"forget", "addRateLimited"} /\ k = key

BackoffFollows ==
  /\ pc = "forget" => lastPass[key] = "ok"
  /\ pc = "addRateLimited" => lastPass[key] = "error"
  /\ MaxFailures > 0 =>
       \A k \in Keys : Behind(k) \/ ((q.failures[k] > 0) <=> (lastPass[k] = "error"))

LEMMA InitBackoff == Init => BackoffFollows
  <1> SUFFICES ASSUME Init, NEW k \in Keys
               PROVE  pc = "get" /\ ((q.failures[k] > 0) <=> (lastPass[k] = "error"))
    BY DEF Init, BackoffFollows
  <1>1. q.failures[k] = 0 /\ lastPass[k] = "none"
    BY DEF Init, EmptyQueue
  <1>2. QED
    BY <1>1 DEF Init

\* Forget and AddRateLimited bring the count of the held key up to date; no
\* other call touches a count, and no other step ends a pass.
LEMMA NextBackoff == IInv /\ BackoffFollows /\ [Next]_vars => BackoffFollows'
  <1> SUFFICES ASSUME IInv, BackoffFollows, [Next]_vars PROVE BackoffFollows'
    OBVIOUS
  <1>0. /\ q \in Queues /\ lastPass \in [Keys -> {"none", "ok", "error"}]
        /\ q.failures \in [Keys -> 0..MaxFailures]
        /\ ~Idle => key \in Keys
    BY DEF IInv, TypeOK, HoldsItsKey, Queues
  <1> DEFINE Unmoved == /\ q'.failures = q.failures /\ lastPass' = lastPass
                        /\ Behind(key) => key' = key /\ pc' = pc
                        /\ pc' \in {"forget", "addRateLimited"} => key' = key /\ pc' = pc
  <1>1. ASSUME NEW x \in Keys, Enqueue(x) PROVE Unmoved
    BY <1>0, <1>1, AddFields DEF Enqueue
  <1>2. ASSUME NEW x \in Keys, TimerFires(x) PROVE Unmoved
    BY <1>0, <1>2, FireFields DEF TimerFires
  <1>3. ASSUME StopObserving PROVE Unmoved
    BY <1>0, <1>3, ShutDownFields DEF StopObserving
  <1>4. ASSUME TakeKey PROVE Unmoved
    BY <1>0, <1>4, GetFields DEF TakeKey, Behind
  <1>5. ASSUME ResyncLater PROVE Unmoved
    BY <1>0, <1>5, AddAfterFields DEF ResyncLater, Behind, Idle
  <1>6. ASSUME HandIn PROVE Unmoved
    BY <1>0, <1>6, DoneFields DEF HandIn, Behind, Idle
  <1>7. ASSUME EndWorker \/ UNCHANGED vars PROVE Unmoved
    BY <1>7 DEF EndWorker, vars, Behind
  <1>8. ASSUME Unmoved PROVE BackoffFollows'
    BY <1>8 DEF BackoffFollows, Behind
  <1>9. CASE Reconciled \/ Failed
    BY <1>0, <1>9 DEF Reconciled, Failed, BackoffFollows, Behind, Idle
  <1>10. CASE RetryLater
    <2>1. /\ key \in Keys /\ pc = "addRateLimited" /\ q' = AddRateLimited(q, key)
          /\ lastPass' = lastPass /\ pc' = "done" /\ lastPass[key] = "error"
      BY <1>0, <1>10 DEF RetryLater, BackoffFollows, Idle
    <2>2. /\ MaxFailures > 0 => q'.failures[key] > 0
          /\ \A k \in Keys \ {key} : q'.failures[k] = q.failures[k]
      BY <1>0, <2>1, AddRateLimitedFields
    <2>3. QED
      BY <2>1, <2>2 DEF BackoffFollows, Behind
  <1>11. CASE ForgetFailures
    <2>1. /\ key \in Keys /\ pc = "forget" /\ q' = Forget(q, key)
          /\ lastPass' = lastPass /\ pc' = "addAfter" /\ lastPass[key] = "ok"
      BY <1>0, <1>11 DEF ForgetFailures, BackoffFollows, Idle
    <2>2. q'.failures = [q.failures EXCEPT ![key] = 0]
      BY <1>0, <2>1, ForgetFields
    <2>3. QED
      BY <1>0, <2>1, <2>2 DEF BackoffFollows, Behind
  <1> HIDE DEF Unmoved
  <1>12. QED
    BY <1>1, <1>2, <1>3, <1>4, <1>5, <1>6, <1>7, <1>8, <1>9, <1>10, <1>11 DEF Next, Worker

\* Between passes the rate limiter counts failures for exactly the keys whose
\* last pass failed: an old failure never slows a new retry, and a failure is
\* never retried without a back-off.
THEOREM BackoffStaysCurrent == Spec => []BackoffIsCurrent
  <1>1. IInv /\ BackoffFollows => BackoffIsCurrent
    BY DEF BackoffFollows, BackoffIsCurrent, Behind, Idle
  <1>2. QED
    BY <1>1, InitInv, NextInv, InitBackoff, NextBackoff, PTL DEF Spec

-----------------------------------------------------------------------------
LEMMA InitHints == Init => Hints!Init
  BY DEF Init, EmptyQueue, Hints!Init

\* Every step is a step of KeyHints or changes nothing there.
LEMMA StepHints == IInv /\ [Next]_vars => [Hints!Next]_Hints!hintVars
  <1> SUFFICES ASSUME IInv, [Next]_vars PROVE [Hints!Next]_Hints!hintVars
    OBVIOUS
  <1>0. q \in Queues /\ ListsOnce(q) /\ unanswered = q.dirty /\ q.shuttingDown \in BOOLEAN
    BY DEF IInv, TypeOK, QueuedOnce, AnswersAreRecorded, Queues
  <1>1. ASSUME NEW k \in Keys, Enqueue(k) \/ TimerFires(k)
        PROVE  [Hints!Next]_Hints!hintVars
    <2> DEFINE Called == /\ q'.processing = q.processing
                         /\ q'.shuttingDown = q.shuttingDown
                         /\ unanswered' = IF q.shuttingDown THEN unanswered
                                           ELSE unanswered \cup {k}
    <2>a. ASSUME Enqueue(k) PROVE Called
      BY <1>0, <2>a, AddFields DEF Enqueue, CallFor
    <2>b. ASSUME TimerFires(k) PROVE Called
      BY <1>0, <2>b, FireFields DEF TimerFires, CallFor
    <2>1. Called
      BY <1>1, <2>a, <2>b
    <2>2. CASE q.shuttingDown
      BY <2>1, <2>2 DEF Hints!hintVars
    <2>3. CASE ~q.shuttingDown
      BY <2>1, <2>3 DEF Hints!Next, Hints!Note
    <2>4. QED
      BY <2>2, <2>3
  <1>2. CASE StopObserving
    BY <1>0, <1>2, ShutDownFields DEF StopObserving, Hints!Next, Hints!Close
  <1>3. CASE TakeKey
    <2> DEFINE h == Head(q.queue)
    <2>1. /\ CanGet(q) /\ q' = Get(q) /\ unanswered' = unanswered \ {h}
      BY <1>3 DEF TakeKey
    <2>2. /\ h \in Keys
          /\ q'.processing = q.processing \cup {h}
          /\ q'.shuttingDown = q.shuttingDown
      BY <1>0, <2>1, GetFields
    <2>3. 1 \in DOMAIN q.queue /\ q.queue[1] = h
      BY <1>0, <2>1 DEF CanGet, Queues
    <2>4. h \in unanswered \ q.processing
      BY <1>0, <2>2, <2>3 DEF ListsOnce
    <2>5. Hints!Take(h)
      BY <2>1, <2>2, <2>4 DEF Hints!Take
    <2>6. QED
      BY <2>2, <2>5 DEF Hints!Next
  <1>4. CASE HandIn
    <2>1. key \in Keys /\ key \in q.processing
      BY <1>4 DEF HandIn, IInv, TypeOK, HoldsItsKey, QueuedOnce, Idle
    <2>2. /\ q'.processing = q.processing \ {key}
          /\ q'.shuttingDown = q.shuttingDown
          /\ unanswered' = unanswered
      BY <1>0, <1>4, <2>1, DoneFields DEF HandIn
    <2>3. Hints!Finish(key)
      BY <2>1, <2>2 DEF Hints!Finish
    <2>4. QED
      BY <2>1, <2>3 DEF Hints!Next
  <1>5. CASE RetryLater \/ ForgetFailures \/ ResyncLater
    <2>1. key \in Keys
      BY <1>5 DEF RetryLater, ForgetFailures, ResyncLater, IInv, TypeOK, HoldsItsKey, Idle
    <2> DEFINE Unheard == /\ q'.processing = q.processing
                          /\ q'.shuttingDown = q.shuttingDown
                          /\ unanswered' = unanswered
    <2>a. ASSUME RetryLater PROVE Unheard
      BY <1>0, <2>1, <2>a, AddRateLimitedFields DEF RetryLater
    <2>b. ASSUME ForgetFailures PROVE Unheard
      BY <1>0, <2>1, <2>b, ForgetFields DEF ForgetFailures
    <2>c. ASSUME ResyncLater PROVE Unheard
      BY <1>0, <2>1, <2>c, AddAfterFields DEF ResyncLater
    <2>2. Unheard
      BY <1>5, <2>a, <2>b, <2>c
    <2>3. QED
      BY <2>2 DEF Hints!hintVars
  <1>6. CASE EndWorker \/ Reconciled \/ Failed \/ UNCHANGED vars
    BY <1>6 DEF EndWorker, Reconciled, Failed, vars, Hints!hintVars
  <1>7. QED
    BY <1>1, <1>2, <1>3, <1>4, <1>5, <1>6 DEF Next, Worker

\* The queue and its worker implement KeyHints: a pass begins only for a key
\* that was called for since its last pass began, never beside another pass
\* of the key, and no call for a pass is lost but to the shutdown.
THEOREM ImplementsHints == Spec => HintsSafety
  BY InitHints, InitInv, NextInv, StepHints, PTL DEF Spec, HintsSafety, Hints!Safety

-----------------------------------------------------------------------------
(* EachKeyAlone: what a key sees of the queue is told from whether it is    *)
(* dirty, on its timer and in a pass, and from the shutdown.  An operation  *)
(* of the whole queue on that key does to this what it does to a queue of   *)
(* the key alone; one on another key leaves it as it is.                    *)

\* What k sees: D, P and W are {k} or {} as k is dirty, in a pass, delayed.
Sight(k, D, P, W, c) ==
  [ queue        |-> IF k \in D \ P THEN << k >> ELSE << >>,
    dirty        |-> D,
    processing   |-> P,
    waiting      |-> W,
    failures     |-> [j \in {k} |-> 0],
    shuttingDown |-> c ]

\* The operations of a queue whose one key is k, on what k sees.
LEMMA AloneAdd ==
  ASSUME NEW k, NEW D \in SUBSET {k}, NEW P \in SUBSET {k}, NEW W, NEW c \in BOOLEAN,
         NEW E, E = IF c THEN D ELSE {k}
  PROVE  Alone(k)!Add(Sight(k, D, P, W, c), k) = Sight(k, E, P, W, c)
  <1> SUFFICES ASSUME NEW r, r = Sight(k, D, P, W, c), NEW v, v = Alone(k)!Add(r, k)
               PROVE  v = Sight(k, E, P, W, c)
    OBVIOUS
  <1>1. /\ r.queue = IF k \in D \ P THEN << k >> ELSE << >>
        /\ r.dirty = D /\ r.processing = P /\ r.shuttingDown = c
    BY DEF Sight
  <1>2. CASE k \in D \/ c
    <2>1. D = E
      BY <1>2
    <2>2. v = r
      BY <1>1, <1>2 DEF Alone!Add
    <2>3. QED
      BY <2>1, <2>2
  <1>3. CASE k \notin D /\ ~c
    <2>1. r.dirty \cup {k} = {k} /\ Append(<< >>, k) = << k >>
      BY <1>1, <1>3
    <2>2. (IF k \in r.processing THEN r.queue ELSE Append(r.queue, k))
            = IF k \in P THEN << >> ELSE << k >>
      BY <1>1, <1>3, <2>1
    <2>3. v = [r EXCEPT !.dirty = r.dirty \cup {k},
                        !.queue = IF k \in r.processing THEN r.queue ELSE Append(r.queue, k)]
      BY <1>1, <1>3 DEF Alone!Add
    <2>4. v = [r EXCEPT !.dirty = {k}, !.queue = IF k \in P THEN << >> ELSE << k >>]
      BY <2>1, <2>2, <2>3
    <2>5. QED
      BY <1>3, <2>4 DEF Sight
  <1>4. QED
    BY <1>2, <1>3

LEMMA AloneFire ==
  ASSUME NEW k, NEW D \in SUBSET {k}, NEW P \in SUBSET {k}, NEW W \in SUBSET {k}, NEW c \in BOOLEAN,
         NEW E, E = IF c THEN D ELSE {k}
  PROVE  Alone(k)!Fire(Sight(k, D, P, W, c), k) = Sight(k, E, P, {}, c)
  <1> SUFFICES ASSUME NEW r, r = Sight(k, D, P, W, c)
               PROVE  Alone(k)!Fire(r, k) = Sight(k, E, P, {}, c)
    OBVIOUS
  <1>1. r.waiting \ {k} = {}
    BY DEF Sight
  <1>2. ASSUME NEW e, e = [r EXCEPT !.waiting = {}] PROVE e = Sight(k, D, P, {}, c)
    BY <1>2 DEF Sight
  <1>3. Alone(k)!Fire(r, k) = Alone(k)!Add(Sight(k, D, P, {}, c), k)
    BY <1>1, <1>2 DEF Alone!Fire
  <1>4. QED
    BY <1>3, AloneAdd

LEMMA AloneShutDown ==
  ASSUME NEW k, NEW D, NEW P, NEW W, NEW c
  PROVE  Alone(k)!ShutDown(Sight(k, D, P, W, c)) = Sight(k, D, P, {}, TRUE)
  <1> DEFINE r == Sight(k, D, P, W, c)
             v == Alone(k)!ShutDown(r)
  <1>1. v = [r EXCEPT !.shuttingDown = TRUE, !.waiting = {}]
    BY DEF Alone!ShutDown
  <1>2. r = Sight(k, D, P, W, c)
    OBVIOUS
  <1> HIDE DEF r, v
  <1>3. v = Sight(k, D, P, {}, TRUE)
    BY <1>1, <1>2 DEF Sight
  <1>4. QED
    BY <1>3 DEF r, v

LEMMA AloneGet ==
  ASSUME NEW k, NEW W, NEW c
  PROVE  /\ Alone(k)!CanGet(Sight(k, {k}, {}, W, c))
         /\ Alone(k)!Get(Sight(k, {k}, {}, W, c)) = Sight(k, {}, {k}, W, c)
  <1> SUFFICES ASSUME NEW r, r = Sight(k, {k}, {}, W, c), NEW v, v = Alone(k)!Get(r)
               PROVE  Alone(k)!CanGet(r) /\ v = Sight(k, {}, {k}, W, c)
    OBVIOUS
  <1>1. r.queue = << k >> /\ r.dirty = {k} /\ r.processing = {}
    BY DEF Sight
  <1>2. /\ << k >> # << >> /\ Tail(<< k >>) = << >> /\ Head(<< k >>) = k
        /\ {k} \ {k} = {} /\ {} \cup {k} = {k}
    OBVIOUS
  <1>3. v = [r EXCEPT !.queue = << >>, !.dirty = {}, !.processing = {k}]
    BY <1>1, <1>2 DEF Alone!Get
  <1>4. v = Sight(k, {}, {k}, W, c)
    BY <1>3 DEF Sight
  <1>5. QED
    BY <1>1, <1>2, <1>4 DEF Alone!CanGet

LEMMA AloneAddAfter ==
  ASSUME NEW k, NEW D, NEW P, NEW W \in SUBSET {k}, NEW c \in BOOLEAN
  PROVE  Alone(k)!AddAfter(Sight(k, D, P, W, c), k) = Sight(k, D, P, IF c THEN W ELSE {k}, c)
  <1> SUFFICES ASSUME NEW r, r = Sight(k, D, P, W, c), NEW v, v = Alone(k)!AddAfter(r, k)
               PROVE  v = Sight(k, D, P, IF c THEN W ELSE {k}, c)
    OBVIOUS
  <1>1. r.waiting \cup {k} = {k} /\ r.shuttingDown = c
    BY DEF Sight
  <1>2. CASE c
    BY <1>1, <1>2 DEF Alone!AddAfter
  <1>3. CASE ~c
    <2>1. v = [r EXCEPT !.waiting = {k}]
      BY <1>1, <1>3 DEF Alone!AddAfter
    <2>2. QED
      BY <1>3, <2>1 DEF Sight
  <1>4. QED
    BY <1>2, <1>3

LEMMA AloneDone ==
  ASSUME NEW k, NEW D \in SUBSET {k}, NEW W, NEW c
  PROVE  Alone(k)!Done(Sight(k, D, {k}, W, c), k) = Sight(k, D, {}, W, c)
  <1> SUFFICES ASSUME NEW r, r = Sight(k, D, {k}, W, c), NEW v, v = Alone(k)!Done(r, k)
               PROVE  v = Sight(k, D, {}, W, c)
    OBVIOUS
  <1>1. r.queue = << >> /\ r.dirty = D /\ r.processing = {k}
    BY DEF Sight
  <1>2. {k} \ {k} = {} /\ Append(<< >>, k) = << k >>
    OBVIOUS
  <1>3. v = [r EXCEPT !.processing = {}, !.queue = IF k \in D THEN << k >> ELSE << >>]
    BY <1>1, <1>2 DEF Alone!Done
  <1>4. QED
    BY <1>3 DEF Sight

\* With no failures to count, a pass that fails and one that succeeds put the
\* key back the same way.
LEMMA AloneForget ==
  ASSUME NEW k, NEW D, NEW P, NEW W, NEW c
  PROVE  LET s == Sight(k, D, P, W, c)
         IN  /\ Alone(k)!Forget(s, k) = s
             /\ Alone(k)!AddRateLimited(s, k) = Alone(k)!AddAfter(s, k)
  <1> DEFINE f == [j \in {k} |-> 0]
  <1> SUFFICES ASSUME NEW r, r = Sight(k, D, P, W, c)
               PROVE  /\ Alone(k)!Forget(r, k) = r
                      /\ Alone(k)!AddRateLimited(r, k) = Alone(k)!AddAfter(r, k)
    OBVIOUS
  <1>1. r = [ queue |-> IF k \in D \ P THEN << k >> ELSE << >>, dirty |-> D, processing |-> P,
              waiting |-> W, failures |-> f, shuttingDown |-> c ]
    BY DEF Sight
  <1>2. [f EXCEPT ![k] = 0] = f /\ [f EXCEPT ![k] = IF f[k] < 0 THEN f[k] + 1 ELSE f[k]] = f
    OBVIOUS
  <1> HIDE DEF f
  <1>3. [r EXCEPT !.failures = f] = r /\ r.failures = f
    BY <1>1
  <1>4. QED
    BY <1>2, <1>3 DEF Alone!Forget, Alone!AddRateLimited

LEMMA AloneBack ==
  ASSUME NEW k, NEW D \in SUBSET {k}, NEW W \in SUBSET {k}, NEW c \in BOOLEAN
  PROVE  LET s == Sight(k, D, {k}, W, c)
             t == Sight(k, D, {}, IF c THEN W ELSE {k}, c)
         IN  /\ Alone(k)!Done(Alone(k)!AddAfter(Alone(k)!Forget(s, k), k), k) = t
             /\ Alone(k)!Done(Alone(k)!AddRateLimited(s, k), k) = t
  <1> DEFINE W2 == IF c THEN W ELSE {k}
             s == Sight(k, D, {k}, W, c)
             a == Sight(k, D, {k}, W2, c)
  <1>1. Alone(k)!AddAfter(s, k) = a
    BY AloneAddAfter
  <1>2. Alone(k)!Forget(s, k) = s /\ Alone(k)!AddRateLimited(s, k) = Alone(k)!AddAfter(s, k)
    BY AloneForget
  <1>3. Alone(k)!Done(a, k) = Sight(k, D, {}, W2, c)
    BY AloneDone
  <1>4. QED
    BY <1>1, <1>2, <1>3

\* What each key sees, told from what is dirty, on the timer and in a pass.
PlainSights ==
  \A k \in Keys : SeenBy(k) = Sight(k, q.dirty \cap {k}, IF InPass(k) THEN {k} ELSE {},
                                   q.waiting \cap {k}, q.shuttingDown)

LEMMA SeenPlainly == IInv => PlainSights
  <1> SUFFICES ASSUME IInv, NEW k \in Keys
               PROVE  SeenBy(k) = Sight(k, q.dirty \cap {k}, IF InPass(k) THEN {k} ELSE {},
                                        q.waiting \cap {k}, q.shuttingDown)
    BY DEF PlainSights
  <1>1. /\ pc \in Steps /\ k # NoKey /\ (key = NoKey <=> Idle)
        /\ q.processing = IF Idle THEN {} ELSE {key}
        /\ Listed(k) <=> k \in q.dirty \ q.processing
    BY NoKeyAssumption DEF IInv, TypeOK, HoldsItsKey, QueuedOnce, ListsOnce, Listed
  <1>2. k \in q.processing <=> InPass(k) \/ HandingIn(k)
    BY <1>1 DEF Idle, InPass, HandingIn, Steps
  <1>3. ~(InPass(k) /\ HandingIn(k))
    BY DEF InPass, HandingIn
  <1>4. (IF HandingIn(k) THEN {} ELSE q.processing \cap {k}) = IF InPass(k) THEN {k} ELSE {}
    BY <1>2, <1>3
  <1>5. Listed(k) \/ (HandingIn(k) /\ k \in q.dirty)
          <=> k \in (q.dirty \cap {k}) \ (IF InPass(k) THEN {k} ELSE {})
    BY <1>1, <1>2, <1>3
  <1>6. QED
    BY <1>4, <1>5 DEF SeenBy, Sight

LEMMA InitAlone == Init => \A k \in Keys : Alone(k)!Init
  <1> SUFFICES ASSUME Init, NEW k \in Keys PROVE Alone(k)!Init
    OBVIOUS
  <1>1. /\ q.queue = << >> /\ q.dirty = {} /\ q.processing = {} /\ q.waiting = {}
        /\ q.shuttingDown = FALSE /\ pc = "get"
    BY DEF Init, EmptyQueue
  <1>2. ~InPass(k) /\ ~HandingIn(k) /\ ~Listed(k)
    BY <1>1 DEF InPass, HandingIn, Listed
  <1>3. SeenBy(k) = Alone(k)!EmptyQueue
    BY <1>1, <1>2 DEF SeenBy, Alone!EmptyQueue
  <1>4. QED
    BY <1>2, <1>3 DEF Alone!Init

\* A step is the step of k it is about, or changes nothing k sees.
LEMMA StepAlone ==
  IInv /\ [Next]_vars => \A k \in Keys : [Alone(k)!Next]_(Alone(k)!queueVars)
  <1> SUFFICES ASSUME IInv, [Next]_vars, NEW k \in Keys
               PROVE  [Alone(k)!Next]_(Alone(k)!queueVars)
    OBVIOUS
  <1> DEFINE D == q.dirty \cap {k}
             P == IF InPass(k) THEN {k} ELSE {}
             W == q.waiting \cap {k}
             c == q.shuttingDown
  <1>0. /\ q \in Queues /\ ListsOnce(q) /\ k # NoKey /\ (key = NoKey <=> Idle)
        /\ ~Idle => key \in Keys
    BY NoKeyAssumption DEF IInv, TypeOK, QueuedOnce, HoldsItsKey
  <1>1. SeenBy(k) = Sight(k, D, P, W, c)
    BY SeenPlainly DEF PlainSights
  <1>2. SeenBy(k)' = Sight(k, D', P', W', c')
    <2>1. IInv'
      BY NextInv
    <2>2. PlainSights'
      BY <2>1, SeenPlainly, PTL
    <2>3. QED
      BY <2>2 DEF PlainSights
  <1>3. D \in SUBSET {k} /\ P \in SUBSET {k} /\ W \in SUBSET {k} /\ c \in BOOLEAN
    BY <1>0 DEF Queues
  <1>4. ASSUME D' = D, W' = W, c' = c, InPass(k)' <=> InPass(k)
        PROVE  UNCHANGED Alone(k)!queueVars
    <2>1. SeenBy(k)' = SeenBy(k)
      BY <1>1, <1>2, <1>4
    <2>2. InPass(k)' = InPass(k)
      BY <1>4 DEF InPass
    <2>3. QED
      BY <2>1, <2>2 DEF Alone!queueVars
  <1> HIDE DEF D, P, W, c
  <1>5. ASSUME NEW x \in Keys, Enqueue(x) PROVE [Alone(k)!Next]_(Alone(k)!queueVars)
    <2>1. q' = Add(q, x) /\ InPass(k)' = InPass(k)
      BY <1>5 DEF Enqueue, InPass
    <2>2. W' = W /\ c' = c /\ P' = P /\ q'.dirty = IF c THEN q.dirty ELSE q.dirty \cup {x}
      BY <1>0, <2>1, AddFields DEF P, W, c
    <2>3. CASE x = k
      <3>1. D' = IF c THEN D ELSE {k}
        BY <2>2, <2>3 DEF D
      <3>2. Alone(k)!Add(Sight(k, D, P, W, c), k) = Sight(k, D', P, W, c)
        BY <1>3, <3>1, AloneAdd
      <3>3. SeenBy(k)' = Alone(k)!Add(SeenBy(k), k)
        BY <1>1, <1>2, <2>2, <3>2
      <3>4. QED
        BY <2>1, <3>3 DEF Alone!Next, Alone!Added
    <2>4. CASE x # k
      <3>1. D' = D
        BY <2>2, <2>4 DEF D
      <3>2. QED
        BY <1>4, <2>1, <2>2, <3>1
    <2>5. QED
      BY <2>3, <2>4
  <1>6. ASSUME NEW x \in Keys, TimerFires(x) PROVE [Alone(k)!Next]_(Alone(k)!queueVars)
    <2>1. x \in q.waiting /\ q' = Fire(q, x) /\ InPass(k)' = InPass(k)
      BY <1>6 DEF TimerFires, InPass
    <2>2. /\ c' = c /\ P' = P
          /\ q'.dirty = IF c THEN q.dirty ELSE q.dirty \cup {x}
          /\ q'.waiting = q.waiting \ {x}
      BY <1>0, <2>1, FireFields DEF P, c
    <2>3. CASE x = k
      <3>1. D' = (IF c THEN D ELSE {k}) /\ W' = {}
        BY <2>2, <2>3 DEF D, W
      <3>2. Alone(k)!Fire(Sight(k, D, P, W, c), k) = Sight(k, D', P, {}, c)
        BY <1>3, <3>1, AloneFire
      <3>3. SeenBy(k)' = Alone(k)!Fire(SeenBy(k), k)
        BY <1>1, <1>2, <2>2, <3>1, <3>2
      <3>4. SeenBy(k).waiting = q.waiting \cap {k}
        BY DEF SeenBy
      <3>5. QED
        BY <2>1, <2>3, <3>3, <3>4 DEF Alone!Next, Alone!Fired
    <2>4. CASE x # k
      <3>1. D' = D /\ W' = W
        BY <2>2, <2>4 DEF D, W
      <3>2. QED
        BY <1>4, <2>1, <2>2, <3>1
    <2>5. QED
      BY <2>3, <2>4
  <1>7. CASE StopObserving
    <2>1. q' = ShutDown(q) /\ InPass(k)' = InPass(k)
      BY <1>7 DEF StopObserving, InPass
    <2>2. D' = D /\ W' = {} /\ c' = TRUE /\ P' = P
      BY <1>0, <2>1, ShutDownFields DEF D, P, W, c
    <2>3. SeenBy(k)' = Alone(k)!ShutDown(SeenBy(k))
      BY <1>1, <1>2, <2>2, AloneShutDown
    <2>4. QED
      BY <2>1, <2>3 DEF Alone!Next, Alone!Closed
  <1>8. CASE TakeKey
    <2>1. /\ pc = "get" /\ pc' = "reconcile" /\ CanGet(q) /\ q' = Get(q)
          /\ key' = Head(q.queue) /\ ~InPass(k)
      BY <1>8 DEF TakeKey, InPass
    <2>2. InPass(k)' <=> key' = k
      BY <2>1 DEF InPass
    <2>3. key' \in q.dirty
      <3>1. q.queue \in Seq(Keys) /\ q.queue # << >> /\ key' = q.queue[1]
        BY <1>0, <2>1 DEF CanGet, Queues
      <3>2. 1 \in DOMAIN q.queue /\ key' \in Keys
        BY <3>1
      <3>3. QED
        BY <1>0, <3>1, <3>2 DEF ListsOnce
    <2>4. W' = W /\ c' = c /\ D' = D \ {key'}
      BY <1>0, <2>1, GetFields DEF D, W, c
    <2>5. CASE key' = k
      <3>1. D = {k} /\ D' = {} /\ P = {} /\ P' = {k}
        BY <2>1, <2>2, <2>3, <2>4, <2>5 DEF D, P
      <3>2. CanGet(SeenBy(k)) /\ SeenBy(k)' = Alone(k)!Get(SeenBy(k))
        BY <1>1, <1>2, <2>4, <3>1, AloneGet DEF CanGet, Alone!CanGet
      <3>3. QED
        BY <2>1, <2>2, <2>5, <3>2 DEF Alone!Next, Alone!Taken, CanGet, Alone!CanGet
    <2>6. CASE key' # k
      BY <1>4, <2>1, <2>2, <2>4, <2>6 DEF D
    <2>7. QED
      BY <2>5, <2>6
  <1>9. CASE RetryLater
    <2>1. /\ key \in Keys /\ pc = "addRateLimited" /\ pc' = "done" /\ key' = key
          /\ q' = AddRateLimited(q, key)
      BY <1>0, <1>9 DEF RetryLater, Idle
    <2>2. /\ D' = D /\ c' = c /\ ~InPass(k)' /\ (InPass(k) <=> key = k)
          /\ W' = IF c \/ key # k THEN W ELSE {k}
      BY <1>0, <2>1, AddRateLimitedFields DEF D, W, c, InPass
    <2>3. CASE key = k
      <3>1. P = {k} /\ P' = {}
        BY <2>2, <2>3 DEF P
      <3>2. SeenBy(k)' = Alone(k)!Done(Alone(k)!AddRateLimited(SeenBy(k), k), k)
        BY <1>1, <1>2, <1>3, <2>2, <2>3, <3>1, AloneBack
      <3>3. QED
        BY <2>2, <2>3, <3>2 DEF Alone!Next, Alone!Failed
    <2>4. CASE key # k
      BY <1>4, <2>2, <2>4
    <2>5. QED
      BY <2>3, <2>4
  <1>10. CASE ResyncLater
    <2>1. /\ key \in Keys /\ pc = "addAfter" /\ pc' = "done" /\ key' = key
          /\ q' = AddAfter(q, key)
      BY <1>0, <1>10 DEF ResyncLater, Idle
    <2>2. /\ D' = D /\ c' = c /\ ~InPass(k)' /\ (InPass(k) <=> key = k)
          /\ W' = IF c \/ key # k THEN W ELSE {k}
      BY <1>0, <2>1, AddAfterFields DEF D, W, c, InPass
    <2>3. CASE key = k
      <3>1. P = {k} /\ P' = {}
        BY <2>2, <2>3 DEF P
      <3>2. SeenBy(k)' = Alone(k)!Done(Alone(k)!AddAfter(Alone(k)!Forget(SeenBy(k), k), k), k)
        BY <1>1, <1>2, <1>3, <2>2, <2>3, <3>1, AloneBack
      <3>3. QED
        BY <2>2, <2>3, <3>2 DEF Alone!Next, Alone!Succeeded
    <2>4. CASE key # k
      BY <1>4, <2>2, <2>4
    <2>5. QED
      BY <2>3, <2>4
  <1>11. CASE Reconciled \/ Failed \/ ForgetFailures
    <2>1. /\ pc \in {"reconcile", "forget"} /\ pc' \in {"forget", "addRateLimited", "addAfter"}
          /\ key' = key /\ (q' = q \/ q' = Forget(q, key))
      BY <1>11 DEF Reconciled, Failed, ForgetFailures
    <2>2. key \in Keys /\ (InPass(k)' <=> InPass(k))
      BY <1>0, <2>1 DEF Idle, InPass
    <2>3. D' = D /\ W' = W /\ c' = c
      BY <1>0, <2>1, <2>2, ForgetFields DEF D, W, c
    <2>4. QED
      BY <1>4, <2>2, <2>3
  <1>12. CASE HandIn
    <2>1. /\ key \in Keys /\ pc = "done" /\ pc' = "get" /\ q' = Done(q, key)
      BY <1>0, <1>12 DEF HandIn, Idle
    <2>2. D' = D /\ W' = W /\ c' = c /\ (InPass(k)' <=> InPass(k))
      BY <1>0, <2>1, DoneFields DEF D, W, c, InPass
    <2>3. QED
      BY <1>4, <2>2
  <1>13. CASE EndWorker \/ UNCHANGED vars
    <2>1. D' = D /\ W' = W /\ c' = c /\ (InPass(k)' <=> InPass(k))
      BY <1>13 DEF EndWorker, vars, D, W, c, InPass
    <2>2. QED
      BY <1>4, <2>1
  <1>14. QED
    BY <1>5, <1>6, <1>7, <1>8, <1>9, <1>10, <1>11, <1>12, <1>13 DEF Next, Worker

\* Whatever other keys the queue holds, and whoever calls it between the calls
\* that end a pass, each key finds it a queue of its own whose passes end in
\* one step: this is what Controller, which has one Website, takes for granted.
THEOREM KeysAreAlone == Spec => EachKeyAlone
  <1> DEFINE N == \A k \in Keys : [Alone(k)!Next]_(Alone(k)!queueVars)
             I == \A k \in Keys : Alone(k)!Init
  <1>1. Init => I
    BY InitAlone
  <1>2. IInv /\ [Next]_vars => N
    BY StepAlone
  <1> HIDE DEF N, I
  <1>3. Spec => I /\ [][N]_vars
    BY <1>1, <1>2, InitInv, NextInv, PTL DEF Spec
  <1>4. QED
    BY <1>3 DEF EachKeyAlone, N, I

-----------------------------------------------------------------------------
(* DrainsDown: what WorkerEnds rests on besides the scheduling of the       *)
(* worker.  The keys still to be taken are the queued ones and the held one *)
(* if it has become dirty again.                                            *)

Untaken == Len(q.queue) + (IF key \in q.dirty THEN 1 ELSE 0)

\* After the shutdown TakeKey lowers their number and nothing raises it.
LEMMA KeysRunOut ==
  ASSUME IInv, [Next]_vars, q.shuttingDown
  PROVE  /\ Untaken \in Nat /\ Untaken' \in Nat
         /\ TakeKey => Untaken' = Untaken - 1
         /\ ~TakeKey => Untaken' = Untaken
  <1>0. /\ q \in Queues /\ q.queue \in Seq(Keys) /\ q.dirty \subseteq Keys /\ ListsOnce(q)
        /\ ~Idle => key \in Keys
        /\ Idle => key = NoKey /\ key \notin q.dirty
    BY NoKeyAssumption DEF IInv, TypeOK, QueuedOnce, HoldsItsKey, Queues
  <1>1. /\ Len(q.queue) \in Nat /\ Untaken \in Nat
        /\ Untaken = IF key \in q.dirty THEN Len(q.queue) + 1 ELSE Len(q.queue)
    <2>1. Len(q.queue) \in Nat
      BY <1>0
    <2>2. CASE key \in q.dirty
      BY <2>1, <2>2 DEF Untaken
    <2>3. CASE key \notin q.dirty
      BY <2>1, <2>3 DEF Untaken
    <2>4. QED
      BY <2>1, <2>2, <2>3
  <1> DEFINE Same == q'.queue = q.queue /\ q'.dirty = q.dirty /\ key' = key
  <1>2. ASSUME NEW k \in Keys, Enqueue(k) PROVE Same
    BY <1>0, <1>2, AddFields DEF Enqueue
  <1>3. ASSUME NEW k \in Keys, TimerFires(k) PROVE Same
    BY <1>0, <1>3, FireFields DEF TimerFires
  <1>4. ASSUME StopObserving \/ EndWorker \/ Reconciled \/ Failed \/ UNCHANGED vars PROVE Same
    BY <1>4 DEF StopObserving, EndWorker, Reconciled, Failed, vars
  <1>5. ASSUME RetryLater PROVE Same
    BY <1>0, <1>5, AddRateLimitedFields DEF RetryLater, Idle
  <1>6. ASSUME ForgetFailures PROVE Same
    BY <1>0, <1>6, ForgetFields DEF ForgetFailures, Idle
  <1>7. ASSUME ResyncLater PROVE Same
    BY <1>0, <1>7, AddAfterFields DEF ResyncLater, Idle
  <1>8. ASSUME HandIn PROVE Untaken' = Untaken
    <2>1. /\ key \in Keys /\ key' = NoKey /\ q'.dirty = q.dirty
          /\ q'.queue = IF key \in q.dirty THEN Append(q.queue, key) ELSE q.queue
      BY <1>0, <1>8, DoneFields DEF HandIn, Idle
    <2>2. key' \notin q'.dirty
      BY <1>0, <2>1, NoKeyAssumption
    <2>3. Len(q'.queue) = Untaken
      BY <1>0, <1>1, <2>1
    <2>4. Untaken' = Len(q'.queue)
      BY <1>1, <2>2, <2>3 DEF Untaken
    <2>5. QED
      BY <2>3, <2>4
  <1>9. ASSUME TakeKey PROVE Untaken' = Untaken - 1
    <2>1. /\ q.queue # << >> /\ key' = Head(q.queue)
          /\ q'.queue = Tail(q.queue) /\ q'.dirty = q.dirty \ {Head(q.queue)}
      BY <1>0, <1>9, GetFields DEF TakeKey, CanGet
    <2>2. Len(q'.queue) = Len(q.queue) - 1 /\ key' \notin q'.dirty
      BY <1>0, <2>1
    <2>3. Untaken = Len(q.queue)
      BY <1>0, <1>1, <1>9 DEF Untaken, TakeKey, Idle
    <2>4. Untaken' = Len(q'.queue)
      BY <1>1, <2>2 DEF Untaken
    <2>5. QED
      BY <2>2, <2>3, <2>4
  <1>10. Same => Untaken' = Untaken
    BY DEF Untaken
  <1> HIDE DEF Same
  <1>11. TakeKey \/ Same \/ Untaken' = Untaken
    BY <1>2, <1>3, <1>4, <1>5, <1>6, <1>7, <1>8 DEF Next, Worker
  <1>12. ASSUME TakeKey PROVE Untaken > 0
    <2>1. q.queue # << >>
      BY <1>12 DEF TakeKey, CanGet
    <2>2. QED
      BY <1>0, <1>1, <2>1
  <1>13. QED
    BY <1>1, <1>9, <1>10, <1>11, <1>12

LEMMA FewerKeysFewerSteps ==
  ASSUME NEW m \in Nat, NEW n \in Nat, NEW s \in 0..5, NEW t \in 0..5,
         (n = m - 1 /\ s = 1) \/ (n = m /\ t < s)
  PROVE  5 * n + t < 5 * m + s
  OBVIOUS

\* A shutdown cannot be put off: whatever the handlers and the timers do, the
\* worker is at the end of its loop after five steps for each key that was
\* queued or dirty in its hand, and the rest of its pass.
THEOREM ShutdownDrains == Spec => DrainsDown
  <1>1. ASSUME IInv, [Next]_vars, q.shuttingDown
        PROVE  IF Worker THEN StepsAhead' < StepsAhead ELSE StepsAhead' = StepsAhead
    <2>1. /\ Untaken \in Nat /\ Untaken' \in Nat
          /\ TakeKey => Untaken' = Untaken - 1
          /\ ~TakeKey => Untaken' = Untaken
      BY <1>1, KeysRunOut
    <2>2. StepsAhead = 5 * Untaken + StepsLeft /\ StepsAhead' = 5 * Untaken' + StepsLeft'
      BY DEF StepsAhead, Untaken
    <2>3. StepsLeft \in 0..5 /\ StepsLeft' \in 0..5
      BY <1>1, NextInv DEF IInv, TypeOK, Steps, StepsLeft
    <2>4. CASE TakeKey
      <3>1. Worker /\ StepsLeft = 1
        BY <2>4 DEF Worker, TakeKey, StepsLeft
      <3>2. StepsAhead' < StepsAhead
        BY <2>1, <2>2, <2>3, <2>4, <3>1, FewerKeysFewerSteps
      <3>3. QED
        BY <3>1, <3>2
    <2>5. CASE Worker /\ ~TakeKey
      <3>1. StepsLeft' < StepsLeft
        BY <2>5 DEF Worker, EndWorker, Reconciled, Failed, RetryLater, ForgetFailures, ResyncLater,
                    HandIn, StepsLeft
      <3>2. Untaken \in Nat /\ Untaken' \in Nat /\ Untaken' = Untaken
        BY <2>1, <2>5
      <3>3. 5 * Untaken' + StepsLeft' < 5 * Untaken + StepsLeft
        BY <2>3, <3>1, <3>2, FewerKeysFewerSteps
      <3>4. StepsAhead' < StepsAhead
        BY <2>2, <3>3
      <3>5. QED
        BY <2>5, <3>4
    <2>6. CASE ~Worker
      <3>1. pc' = pc /\ ~TakeKey
        BY <1>1, <2>6 DEF Next, Enqueue, TimerFires, StopObserving, Worker, vars
      <3>2. StepsLeft' = StepsLeft
        BY <3>1 DEF StepsLeft
      <3>3. QED
        BY <2>1, <2>2, <2>6, <3>1, <3>2
    <2>7. QED
      BY <2>4, <2>5, <2>6
  <1>2. QED
    BY <1>1, InitInv, NextInv, PTL DEF Spec, DrainsDown
=============================================================================
