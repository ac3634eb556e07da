---------------------------- MODULE ProcessNext ----------------------------
(***************************************************************************)
(* processNext, the loop of the controller's worker, against the work      *)
(* queue: the informer handlers announce keys, the one worker goroutine    *)
(* takes a key, reconciles it, arranges for it to come back and hands it   *)
(* in, the timers bring delayed keys back, and observe shuts the queue     *)
(* down when its context ends.  What reconcile does is in Controller; here *)
(* it succeeds or fails.                                                   *)
(***************************************************************************)
EXTENDS RateLimitingQueue

CONSTANT NoKey

ASSUME NoKeyAssumption == NoKey \notin Keys

VARIABLES q,          \* the work queue
          pc,         \* where the worker is in processNext
          key,        \* the key it holds, or NoKey
          announced,  \* history: the keys an informer handler has ever added
          unanswered, \* history: the keys called for since their last pass began
          lastPass    \* history: how the last pass of each key ended

vars == << q, pc, key, announced, unanswered, lastPass >>

Init == /\ q = EmptyQueue
        /\ pc = "get"
        /\ key = NoKey
        /\ announced = {}
        /\ unanswered = {}
        /\ lastPass = [k \in Keys |-> "none"]

\* Whatever adds k to an open queue calls for a pass of k.
CallFor(k) ==
  unanswered' = IF q.shuttingDown THEN unanswered ELSE unanswered \cup {k}

\* Slips: a key that could not be made is added all the same; a key that is
\* being worked on is not added.
EnqueueUnnamed(k) ==
  /\ q' = Add(q, NoKey)
  /\ announced' = announced \cup {k}
  /\ CallFor(k)
  /\ UNCHANGED << pc, key, lastPass >>

EnqueueUnlessHeld(k) ==
  /\ q' = IF k \in q.processing THEN q ELSE Add(q, k)
  /\ announced' = announced \cup {k}
  /\ CallFor(k)
  /\ UNCHANGED << pc, key, lastPass >>

\* An informer handler: enqueue for a Website, enqueueOwner for a child.
Enqueue(k) ==
  /\ q' = Add(q, k)
  /\ announced' = announced \cup {k}
  /\ CallFor(k)
  /\ UNCHANGED << pc, key, lastPass >>

TakeKey ==
  /\ pc = "get"
  /\ CanGet(q)
  /\ q' = Get(q)
  /\ key' = Head(q.queue)
  /\ pc' = "reconcile"
  /\ unanswered' = unanswered \ {Head(q.queue)}
  /\ UNCHANGED << announced, lastPass >>

\* A slip: the shutdown Get reports is not heeded.
IgnoreShutdown ==
  /\ pc = "get"
  /\ Drained(q)
  /\ UNCHANGED vars

\* Get reports the shutdown and the worker's loop ends.
EndWorker ==
  /\ pc = "get"
  /\ Drained(q)
  /\ pc' = "ended"
  /\ UNCHANGED << q, key, announced, unanswered, lastPass >>

Reconciled ==
  /\ pc = "reconcile"
  /\ pc' = "forget"
  /\ lastPass' = [lastPass EXCEPT ![key] = "ok"]
  /\ UNCHANGED << q, key, announced, unanswered >>

Failed ==
  /\ pc = "reconcile"
  /\ pc' = "addRateLimited"
  /\ lastPass' = [lastPass EXCEPT ![key] = "error"]
  /\ UNCHANGED << q, key, announced, unanswered >>

RetryLater ==
  /\ pc = "addRateLimited"
  /\ q' = AddRateLimited(q, key)
  /\ pc' = "done"
  /\ UNCHANGED << key, announced, unanswered, lastPass >>

\* A slip: the failures of a key that has recovered are kept.
KeepFailures ==
  /\ pc = "forget"
  /\ pc' = "addAfter"
  /\ UNCHANGED << q, key, announced, unanswered, lastPass >>

ForgetFailures ==
  /\ pc = "forget"
  /\ q' = Forget(q, key)
  /\ pc' = "addAfter"
  /\ UNCHANGED << key, announced, unanswered, lastPass >>

\* A slip: a pass that succeeds is taken to be the last.
NoResync ==
  /\ pc = "addAfter"
  /\ pc' = "done"
  /\ UNCHANGED << q, key, announced, unanswered, lastPass >>

ResyncLater ==
  /\ pc = "addAfter"
  /\ q' = AddAfter(q, key)
  /\ pc' = "done"
  /\ UNCHANGED << key, announced, unanswered, lastPass >>

\* A slip: the key is kept.
HandInNothing ==
  /\ pc = "done"
  /\ key' = NoKey
  /\ pc' = "get"
  /\ UNCHANGED << q, announced, unanswered, lastPass >>

\* The deferred Done, on every way out of processNext.
HandIn ==
  /\ pc = "done"
  /\ q' = Done(q, key)
  /\ key' = NoKey
  /\ pc' = "get"
  /\ UNCHANGED << announced, unanswered, lastPass >>

TimerFires(k) ==
  /\ k \in q.waiting
  /\ q' = Fire(q, k)
  /\ CallFor(k)
  /\ UNCHANGED << pc, key, announced, lastPass >>

\* The deferred ShutDown of observe, when its context ends.
StopObserving ==
  /\ ~q.shuttingDown
  /\ q' = ShutDown(q)
  /\ UNCHANGED << pc, key, announced, unanswered, lastPass >>

Worker == \/ TakeKey
          \/ EndWorker
          \/ Reconciled
          \/ Failed
          \/ RetryLater
          \/ ForgetFailures
          \/ ResyncLater
          \/ HandIn

Next == \/ Worker
        \/ StopObserving
        \/ \E k \in Keys : Enqueue(k) \/ TimerFires(k)

\* The worker is a running goroutine whose calls return, and timers expire;
\* nothing makes an event or a shutdown happen.
Fairness == /\ WF_vars(Worker)
            /\ \A k \in Keys : WF_vars(TimerFires(k))

Spec == Init /\ [][Next]_vars /\ Fairness

-----------------------------------------------------------------------------
Steps == {"get", "reconcile", "forget", "addAfter", "addRateLimited", "done", "ended"}

Idle == pc \in {"get", "ended"}

\* Type correctness of the queue, the worker and the history.
TypeOK == /\ q \in Queues
          /\ pc \in Steps
          /\ key \in Keys \cup {NoKey}
          /\ announced \subseteq Keys
          /\ unanswered \subseteq Keys
          /\ lastPass \in [Keys -> {"none", "ok", "error"}]

\* A key is queued exactly when it is dirty and nobody works on it, and it
\* is queued once: whatever the order of Add, Get and Done, a pass that an
\* event asked for is never run twice, and never beside another of its key.
QueuedOnce ==
  /\ ListsOnce(q)
  /\ q.processing = IF Idle THEN {} ELSE {key}

\* A key the controller has ever heard of stays on a pass, in the queue or
\* on a timer until the shutdown: this is the heartbeat that repairs drift
\* no event reports, and the retry after an error.
NeverDropped ==
  ~q.shuttingDown =>
    \A k \in announced : Scheduled(q, k) \/ k \in q.processing

\* Between passes, a key is in back-off exactly if its last pass failed: an
\* old failure never slows the retry of a new one.
BackoffIsCurrent ==
  Idle /\ MaxFailures > 0 =>
    \A k \in Keys : (q.failures[k] > 0) <=> (lastPass[k] = "error")

\* The queue and its worker keep every promise of KeyHints, fairness
\* included.  A hint is a call for a pass, whether or not the queue recorded
\* it: none is lost, none is answered by a pass that began before it, and
\* none waits forever behind other keys.
Hints == INSTANCE KeyHints WITH pending <- unanswered,
                                busy    <- q.processing,
                                closed  <- q.shuttingDown

HintsSafety == Hints!Safety

HintsKept == Hints!Spec

\* A pass of k, up to the call that arranges for its return; what is left of
\* processNext then is to hand k in.
InPass(k) == key = k /\ pc \in {"reconcile", "forget", "addAfter", "addRateLimited"}

HandingIn(k) == key = k /\ pc = "done"

Listed(k) == \E i \in DOMAIN q.queue : q.queue[i] = k

\* The queue as k sees it, which is as good as handed in with that call.
SeenBy(k) ==
  [ queue        |-> IF Listed(k) \/ (HandingIn(k) /\ k \in q.dirty) THEN << k >> ELSE << >>,
    dirty        |-> q.dirty \cap {k},
    processing   |-> IF HandingIn(k) THEN {} ELSE q.processing \cap {k},
    waiting      |-> q.waiting \cap {k},
    failures     |-> [j \in {k} |-> 0],
    shuttingDown |-> q.shuttingDown ]

\* Whatever other keys there are, and whoever calls the queue between the calls
\* that end a pass, to each key the queue and its worker are as if it were alone
\* and a pass ended in one step.
Alone(k) == INSTANCE OneKeyQueue WITH Key <- k, q <- SeenBy(k), busy <- InPass(k)

EachKeyAlone ==
  /\ \A k \in Keys : Alone(k)!Init
  /\ [][\A k \in Keys : [Alone(k)!Next]_(Alone(k)!queueVars)]_vars

\* After the shutdown the worker drains the queue and its loop ends; it does
\* not spin on keys that keep coming back.
WorkerEnds == q.shuttingDown ~> pc = "ended"

\* What the worker has before it when nothing is added any more: the rest of
\* this pass, and a pass of each queued key and of the held one if it is dirty.
StepsLeft == [get |-> 1, reconcile |-> 5, forget |-> 4, addAfter |-> 3,
              addRateLimited |-> 3, done |-> 2, ended |-> 0][pc]

StepsAhead == 5 * (Len(q.queue) + (IF key \in q.dirty THEN 1 ELSE 0)) + StepsLeft

\* From the shutdown on each step of the worker brings the end of its loop
\* nearer, and no handler, timer or pass puts it off.
DrainsDown ==
  [][q.shuttingDown => IF Worker THEN StepsAhead' < StepsAhead
                                 ELSE StepsAhead' = StepsAhead]_vars
=============================================================================
