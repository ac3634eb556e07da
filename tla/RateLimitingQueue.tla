------------------------- MODULE RateLimitingQueue -------------------------
(***************************************************************************)
(* The client-go rate-limiting work queue, as the controller course uses   *)
(* it: observe creates one, the informer handlers Add to it, processNext   *)
(* takes keys from it.  The queue is a value; an operation maps the value  *)
(* before the call to the value after it, so that a step of a program may  *)
(* make several calls.                                                     *)
(*                                                                         *)
(* A key is dirty from the moment it needs a pass until a worker takes it, *)
(* and in processing from then until Done.  A key that becomes dirty while *)
(* in processing is not handed out again: Done puts it back.  A delay is   *)
(* the set of keys whose timer runs; how long is not modelled, except that *)
(* failures, which sets the back-off, is counted up to MaxFailures.        *)
(***************************************************************************)
EXTENDS Naturals, Sequences

CONSTANTS Keys,          \* the keys, one per Website
          MaxFailures    \* the bound on the count of failures of a key

ASSUME MaxFailuresAssumption == MaxFailures \in Nat

Queues == [ queue        : Seq(Keys),
            dirty        : SUBSET Keys,
            processing   : SUBSET Keys,
            waiting      : SUBSET Keys,
            failures     : [Keys -> 0..MaxFailures],
            shuttingDown : BOOLEAN ]

EmptyQueue == [ queue        |-> << >>,
                dirty        |-> {},
                processing   |-> {},
                waiting      |-> {},
                failures     |-> [k \in Keys |-> 0],
                shuttingDown |-> FALSE ]

Add(q, k) ==
  IF q.shuttingDown \/ k \in q.dirty
    THEN q
    ELSE [q EXCEPT !.dirty = @ \cup {k},
                   !.queue = IF k \in q.processing THEN @ ELSE Append(@, k)]

\* Get blocks while there is nothing to hand out and the queue is open.
CanGet(q) == q.queue # << >>

Get(q) == [q EXCEPT !.queue      = Tail(@),
                    !.dirty      = @ \ {Head(q.queue)},
                    !.processing = @ \cup {Head(q.queue)}]

Drained(q) == q.shuttingDown /\ q.queue = << >>

Done(q, k) == [q EXCEPT !.processing = @ \ {k},
                        !.queue = IF k \in q.dirty THEN Append(@, k) ELSE @]

AddAfter(q, k) ==
  IF q.shuttingDown THEN q ELSE [q EXCEPT !.waiting = @ \cup {k}]

AddRateLimited(q, k) ==
  AddAfter([q EXCEPT !.failures[k] = IF @ < MaxFailures THEN @ + 1 ELSE @], k)

Forget(q, k) == [q EXCEPT !.failures[k] = 0]

\* The timer of k expires: the delaying goroutine Adds the key.
Fire(q, k) == Add([q EXCEPT !.waiting = @ \ {k}], k)

\* The delayed keys are dropped; the queued ones are still handed out.
ShutDown(q) == [q EXCEPT !.shuttingDown = TRUE, !.waiting = {}]

\* A key the queue will hand out again without any further call.
Scheduled(q, k) == k \in q.dirty \cup q.waiting

\* The queue lists the dirty keys nobody works on, each of them once.
ListsOnce(q) ==
  /\ \A k \in Keys : k \in q.dirty \ q.processing
                      <=> \E i \in DOMAIN q.queue : q.queue[i] = k
  /\ \A i, j \in DOMAIN q.queue : q.queue[i] = q.queue[j] => i = j
=============================================================================
