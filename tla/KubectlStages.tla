----------------------------- MODULE KubectlStages -----------------------------
(***************************************************************************)
(* A snapshot of the kubectl graded by a check of the course: the check      *)
(* fills its namespace, runs the program, and asserts on what it printed and  *)
(* did, while the scheduler and the kubelet take the seeded pods on.  Every   *)
(* call the program makes is a step of its own.                               *)
(*                                                                          *)
(* A prompt cluster is one that has come to rest before the check goes on.   *)
(***************************************************************************)
EXTENDS KubectlCommands, KubectlChecks, FiniteSets, SequencesExt

CONSTANTS None,       \* no object, no process, no exit code
          Gradings    \* the <<snapshot, check, prompt>> triples to run

VARIABLES prog, check, prompt, script, verdict,   \* the check
          pods, config, replicas,                 \* its namespace
          proc, out                               \* the program and its output

grading == <<prog, check, prompt>>
cluster == <<pods, config, replicas>>
vars == <<grading, script, verdict, cluster, proc, out>>

Names == {"a", "b", "c"}
Order == <<"a", "b", "c", "config", "system">>     \* by namespace, then by name

-------------------------------------------------------------------------------
(* The cluster. *)

\* The way of a container: on a node, running, and having printed its marker or
\* opened its port.
NextState == [created |-> "scheduled", scheduled |-> "running", running |-> "up"]
Moves(pod) == pod.at \in DOMAIN NextState /\ ~pod.going
              /\ (pod.at = "running" => pod.container # "pause")
Unrecorded(pod) == pod.at # "created" /\ ~pod.event

\* The scheduler writes its event after it has bound the pod.
Evolve(name) ==
    /\ pods[name] # None
    /\ \/ /\ Moves(pods[name])
          /\ pods' = [pods EXCEPT ![name].at = NextState[@]]
       \/ Unrecorded(pods[name]) /\ pods' = [pods EXCEPT ![name].event = TRUE]
       \/ pods[name].going /\ pods' = [pods EXCEPT ![name] = None]
    /\ UNCHANGED <<grading, script, verdict, config, replicas, proc, out>>

Resting(pod) == pod # None => ~Moves(pod) /\ ~Unrecorded(pod) /\ ~pod.going

-------------------------------------------------------------------------------
(* The program's command line. *)

words == proc.line.words
Read == CASE Parse[prog] = "nowhere" -> {}
          [] Parse[prog] = "leading" -> IF words = <<>> THEN proc.line.flags ELSE {}
          [] Parse[prog] = "anywhere" -> proc.line.flags
Given(flag) == \E pair \in Read : pair[1] = flag
Value(flag) == (CHOOSE pair \in Read : pair[1] = flag)[2]

\* resolve: the flag, then what the context carries, then "default".
Namespace == IF Given("namespace") /\ "namespace" \in Resolve[prog] THEN Value("namespace")
             ELSE IF proc.line.scoped THEN "course" ELSE "default"
Everywhere == Given("all-namespaces")
Here == Namespace = "course" \/ Everywhere

Exit(code) == proc' = None /\ out' = [out EXCEPT !.code = code]
Proceed(left) ==
    IF left = <<>> THEN proc' = None ELSE proc' = [proc EXCEPT !.left = left]

\* The calls of a command, in their order.
Calls(verb) ==
    CASE verb = "version" -> Version[prog]
      [] verb = "get" -> <<"MAP", "FETCH", "SHOW">>
                         \o (IF Given("watch") THEN Stream[prog] ELSE <<>>)
      [] verb = "api-resources" -> ApiResources[prog]
      [] verb = "delete" -> Delete[prog]
      [] verb = "create" -> Create[prog]
      [] verb = "apply" -> Apply[prog].calls
      [] verb = "patch" -> Patch[prog]
      [] verb = "scale" -> Scale[prog]
      [] verb = "describe" -> Describe[prog]
      [] verb = "logs" -> Logs[prog]
      [] verb = "exec" -> Exec[prog]
      [] verb = "port-forward" -> PortForward[prog]

Misread ==
    \/ \E pair \in Read : pair[1] \notin Main[prog].flags
    \/ "context" \in Resolve[prog] /\ <<"context", "no-such-context">> \in Read

main ==
    /\ proc # None /\ proc.left = <<"MAIN">>
    /\ IF Misread THEN Exit(1)
       ELSE IF words = <<>> \/ words[1] \notin Main[prog].commands
       THEN proc' = None /\ out' = [out EXCEPT !.code = 0, !.says = {"host"}]
       ELSE Proceed(Calls(words[1])) /\ UNCHANGED out
    /\ UNCHANGED <<grading, script, verdict, cluster>>

-------------------------------------------------------------------------------
(* The calls. *)

Op == Head(proc.left)
Left == Tail(proc.left)

\* A call that succeeds, and what is printed by then.
Done(shown) ==
    /\ Proceed(Left)
    /\ out' = IF Left = <<>> THEN [shown EXCEPT !.code = 0] ELSE shown
Say(what) == [out EXCEPT !.says = @ \cup what]

Kind == IF words[2] \in {"configmap", "configmaps"} THEN "configmaps"
        ELSE IF words[2] = "deployment" THEN "deployments" ELSE "pods"
Name == IF Len(words) > 2 THEN words[3] ELSE None
Exists(name) == Here /\ name \in Names /\ pods[name] # None
Runs(name) == Exists(name) /\ pods[name].at \in {"running", "up"}

\* What a list finds: the server applies the selectors.
Selected(name) ==
    /\ "selector" \in Fetch[prog].selects /\ Given("selector")
       => pods[name].app = Value("selector")
    /\ "field-selector" \in Fetch[prog].selects /\ Given("field-selector")
       => name = Value("field-selector")
Listed == IF Kind = "configmaps" THEN IF config # None /\ Here THEN {"config"} ELSE {}
          ELSE {name \in Names : Exists(name) /\ Selected(name)}
               \cup (IF Everywhere THEN {"system"} ELSE {})

\* A Get, or a List in whatever order the server has the objects.
fetch ==
    /\ Op = "FETCH"
    /\ IF Kind \notin Fetch[prog].kinds THEN Exit(1)
       ELSE IF Name # None /\ Fetch[prog].one
       THEN IF Exists(Name)
            THEN proc' = [proc EXCEPT !.left = Left, !.list = <<Name>>] /\ UNCHANGED out
            ELSE Exit(1)
       ELSE /\ \E list \in SetToSeqs(Listed) :
                 proc' = [proc EXCEPT !.left = Left, !.list = list]
            /\ UNCHANGED out

Format == IF Given("output") THEN Value("output") ELSE "table"
Sorted(list) == SelectSeq(Order, LAMBDA name : name \in ToSet(list))

\* get, from the list on: JSON and YAML are the whole answer.
show ==
    LET does == Get[prog]
    IN /\ Op = "SHOW"
       /\ IF Format \notin does.formats \cup {"table"} THEN Exit(1)
          ELSE IF Format \in {"json", "yaml"}
          THEN /\ proc' = None
               /\ out' = [out EXCEPT !.code = 0, !.says = {Format}, !.rows = proc.list]
          ELSE Done([out EXCEPT
                  !.rows = IF does.sorted THEN Sorted(proc.list) ELSE proc.list,
                  !.age = does.age,
                  !.cols = IF ~does.header THEN <<>>
                           ELSE (IF Everywhere THEN <<"NAMESPACE">> ELSE <<>>)
                                \o <<"NAME", "AGE">>
                                \o (IF Format = "wide" THEN Wide[prog] ELSE <<>>)])

\* Of the changes only new pods are kept, and they are told of from the list on.
Unseen == {name \in Names : Exists(name) /\ Selected(name)} \ ToSet(out.rows)
streamChanges ==
    /\ Op = "WATCH"
    /\ \E name \in Unseen : out' = [out EXCEPT !.rows = Append(@, name)]
    /\ UNCHANGED proc

\* The calls that only read.
Ask ==
    \/ /\ Op = "MAP"
       /\ IF words[2] \in Spellings[prog] THEN Done(out) ELSE Exit(1)
    \/ fetch \/ show \/ streamChanges
    \/ Op = "VERSION" /\ Done(Say({"version"}))
    \/ Op = "DISCOVER" /\ Done(Say({"every resource"}))
    \/ /\ Op = "DESCRIBE"
       /\ IF Exists(Name) THEN Done([Say({"fields"}) EXCEPT !.rows = <<Name>>]) ELSE Exit(1)
    \/ /\ Op = "EVENTS"
       /\ Done(Say({"Events:"} \cup
               IF Exists(Name) /\ pods[Name].event THEN {"Scheduled"} ELSE {}))

\* The calls that reach the pod's container.
Reach ==
    LET pod == words[2]
    IN /\ Op \in {"LOG", "EXEC", "FORWARD"}
       /\ IF ~Runs(pod) \/ (Op = "EXEC" /\ proc.line.behind = <<>>) THEN Exit(1)
          ELSE IF Op = "FORWARD"
          THEN ~proc.tunnel /\ proc' = [proc EXCEPT !.tunnel = TRUE] /\ UNCHANGED out
          ELSE Done(Say(CASE Op = "EXEC" -> {"from-inside"}
                          [] Op = "LOG" /\ pods[pod].at = "up" -> {"marker"}
                          [] OTHER -> {}))

ConfigMap(value, owner, applied) ==
    [ns |-> "course", greeting |-> value, colour |-> "none", owner |-> owner,
     applied |-> applied]

\* The calls that write: each is accepted, or it is an error and changes nothing.
Forced == Apply[prog].forces /\ Given("force-conflicts")
Accepted ==
    CASE Op = "DELETE" -> Exists(Name)
      [] Op = "POST" -> config = None
      [] Op = "APPLY" -> \/ config = None \/ config.owner = "byok8s"
                         \/ config.greeting = Value("filename") \/ Forced
      [] Op = "MERGE" -> config # None
      [] Op = "SCALE" -> replicas # None

Manifest == [ConfigMap(Value("filename"), "byok8s", Op = "APPLY") EXCEPT !.ns = Namespace]
Taken == [config EXCEPT !.greeting = Value("filename"), !.owner = "byok8s", !.applied = TRUE]

Write ==
    /\ Op \in {"DELETE", "POST", "APPLY", "MERGE", "SCALE"}
    /\ IF ~Accepted THEN Exit(1) /\ UNCHANGED cluster
       ELSE /\ Done(out)
            /\ pods' = IF Op # "DELETE" THEN pods
                       ELSE [pods EXCEPT ![Name] = IF @.at = "created" THEN None
                                                   ELSE [@ EXCEPT !.going = TRUE]]
            /\ config' = CASE Op = "MERGE" -> [config EXCEPT !.colour = Value("patch")]
                           [] Op = "APPLY" /\ config # None -> Taken
                           [] Op \in {"POST", "APPLY"} /\ config = None -> Manifest
                           [] OTHER -> config
            /\ replicas' = IF Op = "SCALE" THEN Value("replicas") ELSE replicas

run ==
    /\ proc # None /\ proc.left # <<"MAIN">>
    /\ ((Ask \/ Reach) /\ UNCHANGED cluster) \/ Write
    /\ UNCHANGED <<grading, script, verdict>>

\* The program has ended, or has nothing to do before something happens.
Idle == IF proc = None THEN TRUE
        ELSE (Op = "WATCH" /\ Unseen = {}) \/ (Op = "FORWARD" /\ proc.tunnel)

-------------------------------------------------------------------------------
(* The check. *)

Silent == [code |-> None, says |-> {}, rows |-> <<>>, cols |-> <<>>, age |-> "none"]

Holds(w) ==
    LET n == w.name
    IN CASE w.what = "exit 0" -> out.code = 0
         [] w.what = "exit 1" -> out.code # 0
         [] w.what = "says" -> n \in out.says
         [] w.what = "shows" -> n \in ToSet(out.rows)
         [] w.what = "shows not" -> n \notin ToSet(out.rows)
         [] w.what = "rows" -> out.rows = n
         [] w.what = "first row" -> out.rows # <<>> /\ out.rows[1] = n
         [] w.what = "column" -> Len(out.cols) >= n[1] /\ out.cols[n[1]] = n[2]
         [] w.what = "short ages" -> out.rows # <<>> /\ out.age = "short"
         [] w.what = "no table" -> out.cols = <<>>
         [] w.what = "greeting" -> config # None /\ config.greeting = n
         [] w.what = "colour" -> config.colour = n
         [] w.what = "applied" -> config.applied
         [] w.what = "in the namespace" -> config.ns = "course"
         [] w.what = "replicas" -> replicas = n
         [] w.what = "scheduled" -> pods[n] # None /\ pods[n].at # "created"
         [] w.what = "running" -> pods[n] # None /\ pods[n].at \in {"running", "up"}
         [] w.what = "gone" -> pods[n] = None

Then(rest) == script' = rest /\ UNCHANGED verdict
Failed == verdict' = "failed" /\ UNCHANGED script
OnFailed(ok) == IF ok THEN Then(Tail(script)) ELSE Failed

Settled == Idle /\ \A name \in Names : Resting(pods[name])

\* A word that changes nothing but the script and the verdict.  The knocking at
\* the local port is given up after five times.
Look(w) ==
    /\ \/ w.op = "wait" /\ Holds(w) /\ Then(Tail(script))
       \/ w.op = "expect" /\ OnFailed(Holds(w))
       \/ w.op = "ended" /\ proc = None /\ Then(Tail(script))
       \/ /\ w.op = "knock"
          /\ OnFailed(proc # None /\ proc.tunnel /\ pods[w.name].at = "up")
    /\ UNCHANGED <<cluster, proc, out>>

\* A word that starts or stops the program, or fills the cluster.
Deed(w) ==
    /\ \/ /\ w.op = "start"
          /\ proc' = [line |-> w.line, left |-> <<"MAIN">>, list |-> <<>>, tunnel |-> FALSE]
          /\ out' = Silent
          /\ UNCHANGED cluster
       \/ w.op = "kill" /\ proc' = None /\ UNCHANGED <<cluster, out>>
       \/ /\ w.op = "pod"
          /\ pods' = [pods EXCEPT ![w.name] =
                        [app |-> w.app, container |-> w.container, at |-> "created",
                         event |-> FALSE, going |-> FALSE]]
          /\ UNCHANGED <<config, replicas, proc, out>>
       \/ /\ w.op = "configmap"
          /\ config' = ConfigMap(w.greeting, w.owner, w.owner # "seed")
          /\ UNCHANGED <<pods, replicas, proc, out>>
       \/ /\ w.op = "deployment" /\ replicas' = w.replicas
          /\ UNCHANGED <<pods, config, proc, out>>
    /\ Then(Tail(script))

Check ==
    /\ script # <<>> /\ (prompt => Settled)
    /\ LET w == Head(script) IN Look(w) \/ Deed(w)
    /\ UNCHANGED grading

Pass ==
    /\ script = <<>>
    /\ verdict' = "passed"
    /\ UNCHANGED <<grading, script, cluster, proc, out>>
-------------------------------------------------------------------------------
Init ==
    /\ \E g \in Gradings : prog = g[1] /\ check = g[2] /\ prompt = g[3]
    /\ script = Checks[check] /\ verdict = "running"
    /\ pods = [name \in Names |-> None] /\ config = None /\ replicas = None
    /\ proc = None /\ out = Silent

Running(A) == verdict = "running" /\ A

Next ==
    \/ Running(Check \/ Pass)
    \/ Running(main \/ run)
    \/ \E name \in Names : Running(Evolve(name))

\* The check, the program and the cluster go on.
Fairness ==
    /\ WF_vars(Running(Check \/ Pass)) /\ WF_vars(Running(main \/ run))
    /\ \A name \in Names : WF_vars(Running(Evolve(name)))

Grading == Init /\ [][Next]_vars /\ Fairness
===============================================================================
