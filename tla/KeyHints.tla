------------------------------ MODULE KeyHints ------------------------------
(***************************************************************************)
(* What the controller needs from its queue.  An event is a hint that a    *)
(* key wants a pass.  Hints about one key collapse; a hint is not lost and *)
(* not consumed by a pass that began before it; one key is worked on by at *)
(* most one pass; every hint is acted on.  Once closed, hints that come in *)
(* are dropped, and those already taken in are still acted on.             *)
(***************************************************************************)
CONSTANT Keys

VARIABLES pending,   \* the keys with a hint no pass has begun for
          busy,      \* the keys being worked on
          closed     \* whether hints are still taken

hintVars == << pending, busy, closed >>

Init == /\ pending = {}
        /\ busy = {}
        /\ closed = FALSE

Note(k) == /\ ~closed
           /\ pending' = pending \cup {k}
           /\ UNCHANGED << busy, closed >>

Take(k) == /\ k \in pending \ busy
           /\ pending' = pending \ {k}
           /\ busy' = busy \cup {k}
           /\ UNCHANGED closed

Finish(k) == /\ k \in busy
             /\ busy' = busy \ {k}
             /\ UNCHANGED << pending, closed >>

Close == /\ closed' = TRUE
         /\ UNCHANGED << pending, busy >>

Next == Close \/ \E k \in Keys : Note(k) \/ Take(k) \/ Finish(k)

Safety == Init /\ [][Next]_hintVars

Fairness == \A k \in Keys : /\ WF_hintVars(Take(k))
                            /\ WF_hintVars(Finish(k))

Spec == Safety /\ Fairness
=============================================================================
