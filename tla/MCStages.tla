------------------------------- MODULE MCStages -------------------------------
(***************************************************************************)
(* The three courses graded, in one run: a behaviour is one grading of one   *)
(* course, with that course's variables; the others keep their first values. *)
(* ControllerStages, WebhookStages and KubectlStages say what a snapshot, a  *)
(* check and its cluster do; the variables of one name are of all of them.   *)
(***************************************************************************)
EXTENDS Integers, Sequences

CONSTANTS None, MostReplicas, Burst, Lag

VARIABLES course, prog, check, prompt, script, verdict, crd, pods, proc, out,
          site, dep, svc, born, evts, lease, cache, feed, notes, childNews,
          queue, backoff, timers, pass, tally,
          answer, hooks, heed, list, namespace, records, leaf, log, pending, waiting,
          config, replicas

siteVars == <<site, dep, svc, born, evts, lease, cache, feed, notes, childNews,
              queue, backoff, timers, pass, tally>>
hookVars == <<answer, hooks, heed, list, namespace, records, leaf, log, pending, waiting>>
fileVars == <<config, replicas>>
vars == <<course, prog, check, prompt, script, verdict, crd, pods, proc, out,
          siteVars, hookVars, fileVars>>

-------------------------------------------------------------------------------
(* Every snapshot against the check of its stage, of stages before and of the *)
(* one after: all of them, and for the controller, whose gradings are large,   *)
(* the last snapshot and an early one.                                         *)

UpTo(last) == {<<n, k, p>> \in (1..last) \X (1..last) \X BOOLEAN : k <= n + 1}

ControllerGradings ==
    {<<n, n>> : n \in 1..28} \cup {<<k - 1, k>> : k \in 2..28}
    \cup {<<7, k>> : k \in 3..6}
    \cup {<<28, k>> : k \in {1, 8, 13, 14, 17, 18} \cup (23..27)}

Controller == INSTANCE ControllerStages WITH Gradings <- ControllerGradings
Webhook == INSTANCE WebhookStages WITH Gradings <- UpTo(26)
Kubectl == INSTANCE KubectlStages WITH Gradings <- UpTo(30)

NoSite ==
    /\ site = None /\ dep = None /\ svc = None /\ born = None /\ evts = None
    /\ lease = None /\ cache = None /\ feed = None /\ notes = None /\ childNews = None
    /\ queue = None /\ backoff = None /\ timers = None /\ pass = None /\ tally = None
NoHooks ==
    /\ answer = None /\ hooks = None /\ heed = None /\ list = None /\ namespace = None
    /\ records = None /\ leaf = None /\ log = None /\ pending = None /\ waiting = None
NoFiles == config = None /\ replicas = None

Init ==
    \/ /\ course = "controller" /\ NoHooks /\ NoFiles
       /\ prompt = FALSE /\ pods = None /\ Controller!Init
    \/ /\ course = "webhook" /\ NoSite /\ NoFiles
       /\ out = None /\ Webhook!Init
    \/ /\ course = "kubectl" /\ NoSite /\ NoHooks
       /\ crd = None /\ Kubectl!Init

InController(A) ==
    course = "controller" /\ A /\ UNCHANGED <<course, prompt, pods, hookVars, fileVars>>
InWebhook(A) == course = "webhook" /\ A /\ UNCHANGED <<course, out, siteVars, fileVars>>
InKubectl(A) == course = "kubectl" /\ A /\ UNCHANGED <<course, crd, siteVars, hookVars>>

Next == \/ InController(Controller!Next)
        \/ InWebhook(Webhook!Next)
        \/ InKubectl(Kubectl!Next)

\* Less is assumed than the modules' own Fairness: the check goes on, the program,
\* and, taken together, what else there is in the cluster; and the timers of a
\* controller, whose worker might pass over what it has for ever.
Running(A) == verdict = "running" /\ A

AroundSites ==
    \/ Controller!Established \/ Controller!LeaseExpires
    \/ Controller!News \/ Controller!enqueueOwner
    \/ \E who \in Controller!Procs : Controller!Start(who)
    \/ \E name \in Controller!Names : Controller!Cluster(name)
AroundHooks ==
    \/ Webhook!rotate \/ Webhook!Gone
    \/ \E hook \in Webhook!Hooks : Webhook!Learn(hook)
    \/ \E pod \in Webhook!Names : Webhook!Kubelet(pod) \/ Webhook!Empty(pod)

Fairness ==
    /\ WF_vars(\/ InController(Running(Controller!Check \/ Controller!Pass))
               \/ InWebhook(Running(Webhook!Check \/ Webhook!Pass))
               \/ InKubectl(Kubectl!Next))
    /\ WF_vars(\/ InController(Running(Controller!Working))
               \/ InWebhook(Running(Webhook!run \/ Webhook!recordVerdict \/ Webhook!waited)))
    /\ WF_vars(InController(Running(AroundSites)) \/ InWebhook(Running(AroundHooks)))
    /\ WF_vars(InController(Running(\E name \in Controller!Names : Controller!Timer(name))))

Grading == Init /\ [][Next]_vars /\ Fairness

-------------------------------------------------------------------------------
\* Two checks cannot tell.  The kubectl's of the sorted output (18) takes a program
\* for one that sorts when the server happened to answer in order.  The controller's
\* of the conflicts (20) waits for status to catch up with the last edit, and it
\* does so without a retry in snapshot 19 too, whose pass returns the 409 and comes
\* back through the queue.
Untold == \/ course = "kubectl" /\ check = 18
          \/ course = "controller" /\ check = 20 /\ prog = 19

\* What a stage teaches, its check can tell: a snapshot never passes the check of
\* the stage after its own, but for the two above.
NoneSkipsAhead == verdict = "passed" => check <= prog \/ Untold

\* Gradings of the controller that a lost race fails, seldom: the handlers may be
\* told after the sync (4), a child's event makes a pass no Website event asked
\* for (6), and an adoption that meets the Deployment controller's report is not
\* tried again (10).
ControllerRaces == \/ check = 4
                   \/ check = 6 /\ prog >= 22
                   \/ check = 10 /\ prog \in 10..13

\* Checks of the webhook that ask once, and may ask before the API server enforces
\* what it has stored or before the program listens: the pod they then see admitted
\* is the one they wanted refused, or the first eviction or deletion of a poll goes
\* through and the next is told there is no such pod (21, 22).  Only snapshot 26 has
\* the edit of an OwnerList judged (25).
AskOnce == \/ check \in {3, 6} \cup (13..19) \cup (21..24)
           \/ check = 25 /\ prog = 26

\* Checks of the kubectl that look before the watch has told (19), the event is
\* written (27), the container has printed (28) or listens (30).
LookOnce == check \in {19, 27, 28, 30}

Early == CASE course = "controller" -> ControllerRaces
           [] course = "webhook" -> ~prompt /\ AskOnce
           [] course = "kubectl" -> ~prompt /\ LookOnce

\* Each snapshot passes the check of its stage and of every stage before it
\* (web/src/content/docs/getting-started.md, "passed stages 1..N"), in whatever
\* order the program, the cluster and the check take their steps, but for the
\* checks named above, and too early.
KeepsItsStages == <>(verdict = "passed" \/ check > prog \/ Early)
===============================================================================
