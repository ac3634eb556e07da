----------------------------- MODULE OneKeyQueue -----------------------------
(***************************************************************************)
(* What a single key sees of the work queue and its worker: the key is     *)
(* added, fires, is taken and comes back, each in one step, as if there    *)
(* were no other key.  A pass is busy with the key, or none is.            *)
(***************************************************************************)
CONSTANT Key

INSTANCE RateLimitingQueue WITH Keys <- {Key}, MaxFailures <- 0

VARIABLES q,    \* the queue, so far as it is about the key
          busy  \* a pass of the key is under way

queueVars == << q, busy >>

Init == q = EmptyQueue /\ busy = FALSE

Added == q' = Add(q, Key) /\ UNCHANGED busy

Fired == Key \in q.waiting /\ q' = Fire(q, Key) /\ UNCHANGED busy

Closed == q' = ShutDown(q) /\ UNCHANGED busy

Taken == ~busy /\ CanGet(q) /\ q' = Get(q) /\ busy' = TRUE

Succeeded == busy /\ q' = Done(AddAfter(Forget(q, Key), Key), Key) /\ busy' = FALSE

Failed == busy /\ q' = Done(AddRateLimited(q, Key), Key) /\ busy' = FALSE

Next == Added \/ Fired \/ Closed \/ Taken \/ Succeeded \/ Failed

Spec == Init /\ [][Next]_queueVars
=============================================================================
