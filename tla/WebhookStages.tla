---------------------------- MODULE WebhookStages ----------------------------
(***************************************************************************)
(* A snapshot of the webhook graded by a check of the course.  prog is the   *)
(* snapshot, check the stage.  The API server enforces what is registered   *)
(* once its caches have it, which is later; the program says it serves      *)
(* before it listens.  A request is one step, from the first webhook it     *)
(* meets to storage; what a handler does after its answer is another.       *)
(* prompt says the check is slower than the caches and the listener.        *)
(***************************************************************************)
EXTENDS WebhookVerdicts, WebhookChecks

CONSTANTS None,       \* nothing is stored
          Gradings    \* the <<snapshot, check, prompt>> to run

VARIABLES prog, check, prompt, script, verdict, answer,   \* the check
          hooks, heed,                          \* registered, and enforced
          pods, list, crd, namespace, records,  \* the rest of the cluster
          proc, leaf, log, pending, waiting     \* the program

grading == <<prog, check, prompt>>
cluster == <<hooks, pods, list, crd, namespace, records>>
vars == <<prog, check, prompt, script, verdict, answer, hooks, heed, pods, list, crd,
          namespace, records, proc, leaf, log, pending, waiting>>

Hooks == {"validating", "mutating", "policy"}
Names == {"good", "bad", "plain", "slow"}

Listening == proc.alive /\ proc.left = <<>>
Does(what) == what \in Validate[prog] \cup Decide[prog]
-------------------------------------------------------------------------------
(* What a request meets. *)

\* The rules, selectors and conditions of a registration; the second webhook of
\* the validating one, for sessions, has no object selector.
Reaches(hook, r) ==
    /\ <<r.verb, r.res>> \in hook.rules \cup hook.sessions
    /\ r.ns \in hook.only \ hook.leaves
    /\ hook.conditions => r.user # "exempt"
    /\ hook.skips /\ r.res = "pods" => "skip" \notin r.marks
    /\ r.res = "ownerlists" => r.version \in hook.spellings

\* The object of a request that names a stored pod is that pod.
Subject(r) ==
    IF r.verb = "DELETE" THEN [r EXCEPT !.owner = pods[r.name].owner, !.marks = pods[r.name].marks]
    ELSE r

OnPod(r) ==
    r.res # "ownerlists" /\ (r.verb \in {"UPDATE", "DELETE", "CONNECT"} \/ r.res = "pods/eviction")
Missing(r) == \/ OnPod(r) /\ pods[r.name] = None
              \/ r.res = "ownerlists" /\ r.version \notin crd

\* What mutate adds; none of it is added twice.
Patched(marks, verb) ==
    marks \cup Mutate[prog].always
    \cup {m \in Mutate[prog].created : verb = "CREATE" /\ (m = "sidecar" => "inject" \in marks)}

\* decide, decideProtected, decideOwnerList, and the delete let through after all.
Denied(r) ==
    CASE r.res = "ownerlists" -> Does("lists") /\ r.owner # "good"
      [] r.res = "pods/eviction" -> Does("evictions") /\ "protected" \in pods[r.name].marks
      [] r.verb = "CONNECT" -> Does("sessions") /\ "protected" \in pods[r.name].marks
      [] r.verb = "DELETE" ->
           /\ Does("deletes") /\ "protected" \in r.marks
           /\ ~(Does("ending") /\ Does("unless ending") /\ namespace = "ending")
      [] OTHER -> Does("owner") /\ r.owner = "none"

PolicyDenies(r) ==
    /\ heed["policy"] /\ Reaches(Policy[prog], r)
    /\ \/ r.owner = "none"
       \/ Policy[prog].params /\ (list = None \/ r.owner \notin list)

\* The two webhooks a request is sent to; the patch of one that is not reached is
\* done without.
Judged(r) == heed["validating"] /\ Reaches(Register[prog], r)
Mutated(r) == heed["mutating"] /\ Reaches(RegisterMutating[prog], r) /\ Listening
Held(r) == "slow" \in r.marks /\ Does("waits")

Outcome(req) ==
    LET r == Subject(req)
    IN CASE Missing(req) -> "missing"
         [] ~Missing(req) /\ PolicyDenies(r) -> "policy"
         [] ~Missing(req) /\ ~PolicyDenies(r) /\ Judged(r) /\ (~Listening \/ Held(r)) ->
              IF Register[prog].onFailure = "Fail" THEN "unreached" ELSE "admitted"
         [] ~Missing(req) /\ ~PolicyDenies(r) /\ Judged(r) /\ Listening /\ ~Held(r) ->
              IF Denied(r) THEN "denied"
              ELSE IF "legacy" \in r.marks /\ "warnings" \in Answer[prog] THEN "warned"
              ELSE "admitted"
         [] OTHER -> "admitted"

\* What the handlers do on the way: the name in the log, the verdict recorded
\* before the answer or after it, a handler that waits for its caller.
Handled(req) ==
    LET r == Subject(req)
        met == ~Missing(req) /\ ~PolicyDenies(r) /\ Judged(r) /\ Listening
        real == met /\ ~Held(r) /\ (~r.dry \/ "real" \notin Records[prog])
        named == (met /\ Does("logs")) \/ (~Missing(req) /\ Mutated(r) /\ Mutate[prog].logs)
    IN /\ log' = IF named THEN log \cup {r.name} ELSE log
       /\ records' = IF real /\ Does("records first") THEN records \cup {r.name} ELSE records
       /\ pending' = IF real /\ Does("records last") THEN pending \cup {r.name} ELSE pending
       /\ waiting' = (waiting \/ (met /\ Held(r)))

\* What is stored of an admitted request.
Stored(req) ==
    LET marks == IF Mutated(req) THEN Patched(req.marks, req.verb) ELSE req.marks
        was == pods[req.name]
    IN CASE req.dry \/ req.res \notin {"pods", "pods/eviction"} -> pods
         [] ~req.dry /\ req.res = "pods/eviction" -> [pods EXCEPT ![req.name].going = TRUE]
         [] ~req.dry /\ req.res = "pods" /\ req.verb = "CREATE" ->
              IF was # None THEN pods
              ELSE [pods EXCEPT ![req.name] =
                      [owner |-> req.owner, marks |-> marks, going |-> FALSE]]
         [] ~req.dry /\ req.res = "pods" /\ req.verb = "UPDATE" ->
              [pods EXCEPT ![req.name] =
                 [was EXCEPT !.owner = req.owner, !.marks =
                    (@ \ {"protected", "round"}) \cup marks]]
         [] OTHER ->
              [pods EXCEPT ![req.name] =
                 IF req.grace THEN [was EXCEPT !.going = TRUE] ELSE None]

Send(req) ==
    /\ Handled(req)
    /\ pods' = IF Outcome(req) \in Ok THEN Stored(req) ELSE pods
    /\ answer' = Outcome(req)
-------------------------------------------------------------------------------
(* The cluster. *)

\* A cache of the API server catches up.
Learn(hook) ==
    /\ heed[hook] # hooks[hook]
    /\ heed' = [heed EXCEPT ![hook] = hooks[hook]]
    /\ UNCHANGED <<grading, script, verdict, answer, cluster, proc, leaf, log, pending, waiting>>

\* The kubelet's final delete of a pod that is going, and the delete of a pod by
\* the controller that empties a namespace.
Kubelet(name) ==
    /\ pods[name] # None /\ pods[name].going
    /\ Outcome(clientAs("kubelet", Delete(name))) \in Ok
    /\ pods' = [pods EXCEPT ![name] = None]
    /\ UNCHANGED <<grading, script, verdict, answer, hooks, heed, list, crd, namespace,
                   records, proc, leaf, log, pending, waiting>>

Empty(name) ==
    /\ namespace = "ending" /\ pods[name] # None /\ ~pods[name].going
    /\ Outcome(clientAs("controller", Delete(name))) \in Ok
    /\ pods' = [pods EXCEPT ![name].going = TRUE]
    /\ UNCHANGED <<grading, script, verdict, answer, hooks, heed, list, crd, namespace,
                   records, proc, leaf, log, pending, waiting>>

Gone ==
    /\ namespace = "ending" /\ \A name \in Names : pods[name] = None
    /\ namespace' = "gone"
    /\ UNCHANGED <<grading, script, verdict, answer, hooks, heed, pods, list, crd,
                   records, proc, leaf, log, pending, waiting>>
-------------------------------------------------------------------------------
(* The program. *)

ensureOwnerLists ==
    /\ crd' = IF crd = {} \/ Lists[prog].keepsCurrent THEN Lists[prog].versions ELSE crd
    /\ list' = IF list = None THEN {"platform"} ELSE list
    /\ UNCHANGED <<hooks, log>>

Registers(hook) == hooks' = [hooks EXCEPT ![hook] = TRUE] /\ UNCHANGED <<crd, list, log>>

run ==
    LET step == Head(proc.left)
    IN /\ proc.alive /\ proc.left # <<>>
       /\ proc' = [proc EXCEPT !.left = Tail(@)]
       /\ \/ step = "ensureOwnerLists" /\ ensureOwnerLists
          \/ step = "installPolicy" /\ Registers("policy")
          \/ step = "register" /\ Registers("validating")
          \/ step = "registerMutating" /\ Registers("mutating")
          \/ step = "announce" /\ log' = log \cup {"serving"} /\ UNCHANGED <<hooks, crd, list>>
          \/ step = "bind" /\ UNCHANGED <<hooks, crd, list, log>>
       /\ UNCHANGED <<grading, script, verdict, answer, heed, pods, namespace, records,
                      leaf, pending, waiting>>

\* The leaf is new until the check has seen it.
rotate ==
    /\ proc.alive /\ Run[prog].rotates /\ check = 16
    /\ leaf' = "new" /\ log' = log \cup {"rotated certificate"}
    /\ UNCHANGED <<grading, script, verdict, answer, cluster, heed, proc, pending, waiting>>

recordVerdict ==
    /\ proc.alive /\ pending # {}
    /\ \E name \in pending : records' = records \cup {name} /\ pending' = pending \ {name}
    /\ UNCHANGED <<grading, script, verdict, answer, hooks, heed, pods, list, crd, namespace,
                   proc, leaf, log, waiting>>

\* The API server closes the connection of a request it gave up on.
waited ==
    /\ proc.alive /\ waiting
    /\ waiting' = FALSE /\ log' = log \cup {"gave up"}
    /\ UNCHANGED <<grading, script, verdict, answer, cluster, heed, proc, leaf, pending>>
-------------------------------------------------------------------------------
(* The check. *)

\* What validate answers to a review posted to it.
Reply(review) ==
    IF ~Listening \/ "/validate" \notin Run[prog].paths THEN "error"
    ELSE IF review = "broken" /\ Does("owner") /\ ~Does("answers unreadable") THEN "error"
    ELSE IF \/ review \in {"unowned", "broken"} /\ Does("owner")
            \/ review = "configmap" /\ Does("owner") /\ ~Does("only pods")
    THEN "refused" ELSE "let through"

\* What the server shows is signed by the authority whose certificate register put
\* into the registration.
Verifies == Cert[prog].signer = "authority"

Judge == Register[prog]
Bare == {"inject"}
Holds(w) ==
    LET n == w.name
    IN CASE w.what = "line" -> n \in log
         [] w.what = "healthz" -> Listening /\ "/healthz" \in Run[prog].paths
         [] w.what = "registered" -> hooks["validating"]
         [] w.what = "patching" -> hooks["mutating"]
         [] w.what = "policy" -> hooks["policy"]
         [] w.what = "answered" -> Reply(n) # "error"
         [] w.what \in {"let through", "refused"} -> Reply(n) = w.what
         [] w.what = "annotated" -> "annotations" \in Answer[prog]
         [] w.what = "judges creates" -> <<"CREATE", "pods">> \in Judge.rules
         [] w.what = "judges updates" -> <<"UPDATE", "pods">> \in Judge.rules
         [] w.what = "judges evictions" -> <<"CREATE", "pods/eviction">> \in Judge.rules
         [] w.what = "judges deletes" -> <<"DELETE", "pods">> \in Judge.rules
         [] w.what = "judges sessions" -> <<"CONNECT", "pods/exec">> \in Judge.sessions
         [] w.what = "judges lists" -> <<"CREATE", "ownerlists">> \in Judge.rules
         [] w.what = "namespaced" -> Judge.scoped
         [] w.what = "narrowed" -> Judge.only = {"course"}
         [] w.what = "skips" -> Judge.skips
         [] w.what = "none on dry run" -> Judge.dryRun
         [] w.what = "fails closed" -> Judge.onFailure = "Fail"
         [] w.what = "reinvoked" -> RegisterMutating[prog].again
         [] w.what = "conditions" -> Judge.conditions /\ RegisterMutating[prog].conditions
         [] w.what = "excludes own" ->
              /\ hooks["mutating"] /\ Run[prog].knowsOwn
              /\ "own" \in Judge.leaves \cap RegisterMutating[prog].leaves
         [] w.what = "params" -> Policy[prog].params
         [] w.what = "patches once" ->
              /\ Listening /\ "/mutate" \in Run[prog].paths
              /\ Patched(Bare, "CREATE") # Bare
              /\ Patched(Patched(Bare, "CREATE"), "CREATE") = Patched(Bare, "CREATE")
         [] w.what = "verifies" -> Verifies
         [] w.what = "bundle kept" ->
              \A i \in DOMAIN proc.left : proc.left[i] # "register"
         [] w.what = "new leaf" -> Listening /\ leaf = "new"
         [] w.what \in {"cpu", "sidecar", "injected"} -> w.what \in pods[n].marks
         [] w.what = "no sidecar" -> "sidecar" \notin pods[n].marks
         [] w.what = "gone" -> pods[n] = None
         [] w.what = "not stored" -> n \notin Names \/ pods[n] = None
         [] w.what = "not recorded" -> n \notin records
         [] w.what = "silence" -> n \notin log
         [] w.what = "the last answer" -> answer = n
         [] w.what = "namespace gone" -> namespace = "gone"

Then(words) == script' = words /\ UNCHANGED verdict
Failed == verdict' = "failed" /\ UNCHANGED script
OnFailed(ok) == IF ok THEN Then(Tail(script)) ELSE Failed

Look(w) ==
    /\ \/ w.op = "wait" /\ Holds(w) /\ Then(Tail(script))
       \/ w.op = "expect" /\ OnFailed(Holds(w))
       \/ /\ w.op = "both"
          /\ Outcome(w.request) \in w.good /\ Outcome(w.other) = "policy"
          /\ Then(Tail(script))
    /\ UNCHANGED <<answer, cluster, proc, leaf, log, pending, waiting>>

\* A poll goes on until it is answered as wanted, and deletes what it stored in
\* vain, at once or before it tries again.
Poll(w) ==
    LET req == w.request
        ok == Outcome(req) \in Ok
        after == IF ok THEN Stored(req) ELSE pods
        done == /\ Outcome(req) \in w.good
                /\ w.shows # {} => w.shows \subseteq after[req.name].marks
                /\ w.recorded => req.name \in records
        undone == ok /\ req.res = "pods" /\ req.verb = "CREATE" /\ ~req.dry
                  /\ ~w.recorded /\ ~w.fresh
    IN /\ Handled(req) /\ answer' = Outcome(req)
       /\ IF done THEN Then(Tail(script)) /\ pods' = after
          ELSE IF Outcome(req) \in w.never THEN Failed /\ pods' = after
          ELSE /\ Then(IF w.fresh THEN deletePod(req.name) \o script ELSE script)
               /\ pods' = IF undone THEN [after EXCEPT ![req.name] = None] ELSE after

Request(w) ==
    /\ \/ w.op = "must" /\ Send(w.request) /\ OnFailed(answer' \in w.good)
       \/ w.op = "until" /\ Poll(w)
    /\ UNCHANGED <<hooks, list, crd, namespace, proc, leaf>>

\* The other things a check does to the program and to the cluster.
Deed(w) ==
    /\ \/ /\ w.op = "sweep"
          /\ hooks' = [h \in Hooks |-> hooks[h] /\ h \notin w.hooks]
          /\ Then(Tail(script))
          /\ UNCHANGED <<proc, list, namespace, leaf, pending, waiting>>
       \/ /\ w.op = "start"
          /\ proc' = [alive |-> TRUE, left |-> Run[prog].steps]
          /\ Then(Tail(script))
          /\ UNCHANGED <<hooks, list, namespace, leaf, pending, waiting>>
       \/ /\ w.op = "kill"
          /\ proc' = [alive |-> FALSE, left |-> <<>>]
          /\ pending' = {} /\ waiting' = FALSE
          /\ Then(Tail(script))
          /\ UNCHANGED <<hooks, list, namespace, leaf>>
       \/ /\ w.op = "owners"
          /\ IF Outcome([OwnerList("v1", "good") EXCEPT !.verb = "UPDATE"]) \in Ok
             THEN list' = w.owners /\ Then(Tail(script))
             ELSE Failed /\ UNCHANGED list
          /\ UNCHANGED <<hooks, proc, namespace, leaf, pending, waiting>>
       \/ /\ w.op = "drop"
          /\ list' = None /\ Then(Tail(script))
          /\ UNCHANGED <<hooks, proc, namespace, leaf, pending, waiting>>
       \/ /\ w.op = "delete namespace"
          /\ namespace' = "ending" /\ Then(Tail(script))
          /\ UNCHANGED <<hooks, proc, list, leaf, pending, waiting>>
       \/ /\ w.op = "handshake"
          /\ IF Listening /\ Verifies /\ Cert[prog].shows # "authority"
             THEN leaf' = "seen" /\ Then(Tail(script)) ELSE Failed /\ UNCHANGED leaf
          /\ UNCHANGED <<hooks, proc, list, namespace, pending, waiting>>
    /\ UNCHANGED <<answer, pods, crd, records, log>>

\* A check that is slower than the caches of the API server and the listener.
Settled == heed = hooks /\ ~(proc.alive /\ proc.left = <<"bind">>)

Check ==
    /\ script # <<>> /\ (prompt => Settled)
    /\ LET w == Head(script) IN Look(w) \/ Request(w) \/ Deed(w)
    /\ UNCHANGED <<grading, heed>>

Pass ==
    /\ script = <<>>
    /\ verdict' = "passed"
    /\ UNCHANGED <<grading, script, answer, cluster, heed, proc, leaf, log, pending, waiting>>
-------------------------------------------------------------------------------
\* The type of a list of owners may be left over from an earlier snapshot.
Init ==
    /\ \E g \in Gradings : prog = g[1] /\ check = g[2] /\ prompt = g[3]
    /\ script = Checks[check] /\ verdict = "running" /\ answer = "none"
    /\ hooks = [h \in Hooks |-> FALSE] /\ heed = hooks
    /\ pods = [n \in Names |-> None] /\ list = None /\ crd \in {{}, {"v1"}}
    /\ namespace = "active" /\ records = {}
    /\ proc = [alive |-> FALSE, left |-> <<>>] /\ leaf = "new" /\ log = {}
    /\ pending = {} /\ waiting = FALSE

Running(A) == verdict = "running" /\ A

Next ==
    \/ Running(Check \/ Pass)
    \/ Running(run \/ recordVerdict \/ waited)
    \/ Running(rotate)
    \/ Running(Gone) \/ \E hook \in Hooks : Running(Learn(hook))
    \/ \E name \in Names : Running(Kubelet(name) \/ Empty(name))

\* The check, the program, its handlers, the caches and the controllers go on.
Fairness ==
    /\ WF_vars(Running(Check \/ Pass))
    /\ WF_vars(Running(run)) /\ WF_vars(Running(recordVerdict)) /\ WF_vars(Running(waited))
    /\ WF_vars(Running(rotate)) /\ WF_vars(Running(Gone))
    /\ \A hook \in Hooks : WF_vars(Running(Learn(hook)))
    /\ \A name \in Names : WF_vars(Running(Kubelet(name) \/ Empty(name)))

Grading == Init /\ [][Next]_vars /\ Fairness
===============================================================================
