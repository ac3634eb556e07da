---------------------------- MODULE KubectlChecks ----------------------------
(***************************************************************************)
(* The 30 checks a kubectl is graded by, one script for each stage function *)
(* of internal/stages/kubectl/stages.go: what it puts into the cluster, the *)
(* command lines it runs the program with, and what it asserts of the exit  *)
(* code, of the output and of the cluster.  Pods are named for their order: *)
(* "a" comes before "b".  KubectlStages gives the words their meaning.      *)
(***************************************************************************)
EXTENDS Integers, Sequences

-------------------------------------------------------------------------------
\* Command lines: words and flags, and the words behind a "--".  Flags stand behind
\* the words where there are any.  scoped says that $KUBECONFIG has the stage's
\* namespace in its context.

Line(words, flags) == [words |-> words, flags |-> flags, scoped |-> TRUE, behind |-> <<>>]
Unscoped(line) == [line EXCEPT !.scoped = FALSE]
Listing(words, flags) == Line(<<"get">> \o words, flags)
ListPods(flags) == Listing(<<"pods">>, flags)

-------------------------------------------------------------------------------
\* The words of a script.

\* env.SeedPods, SeedLabeledPod, SeedRunningPod and SeedServingPod, up to their wait.
Pod(name, app, container) ==
    [op |-> "pod", name |-> name, app |-> app, container |-> container]
SeedPods(names) == [i \in 1..Len(names) |-> Pod(names[i], "none", "pause")]
SeedLabeledPod(name, app) == <<Pod(name, app, "pause")>>
Await(what, name) == [op |-> "wait", what |-> what, name |-> name]
WaitForScheduled(name) == <<Await("scheduled", name)>>
SeedRunningPod(name) == <<Pod(name, "none", "marker"), Await("running", name)>>
SeedServingPod(name) == <<Pod(name, "none", "server"), Await("running", name)>>

\* env.SeedConfigMap, ApplyAs and SeedDeployment.
SeedConfigMap == <<[op |-> "configmap", greeting |-> "hello", owner |-> "seed"]>>
ApplyAs(value) == <<[op |-> "configmap", greeting |-> value, owner |-> "other-tool"]>>
SeedDeployment(replicas) == <<[op |-> "deployment", replicas |-> replicas]>>

\* runner.InvokeEnv, in two: the program is started, and it ends.
Start(line) == [op |-> "start", line |-> line]
Ended == [op |-> "ended"]
Bound == [op |-> "kill"]
Expect(what, name) == [op |-> "expect", what |-> what, name |-> name]
Exit0 == Expect("exit 0", "")
Run(line) == <<Start(line), Ended>>
Fine(line) == Run(line) \o <<Exit0>>
Fails(line) == Run(line) \o <<Expect("exit 1", "")>>
Says(what) == Expect("says", what)
Shows(name) == Expect("shows", name)
ShowsNot(name) == Expect("shows not", name)

-------------------------------------------------------------------------------
\* The scripts.

stageServerURL == Fine(Unscoped(Line(<<>>, {}))) \o <<Says("host")>>

stageContextOverride ==
    Fine(Unscoped(Line(<<>>, {<<"context", "kind-byok8s">>}))) \o <<Says("host")>>
    \o Fails(Unscoped(Line(<<>>, {<<"context", "no-such-context">>})))

stageServerVersion == Fine(Unscoped(Line(<<"version">>, {}))) \o <<Says("version")>>

stageListPods == SeedPods(<<"a", "b">>) \o Fine(ListPods({})) \o <<Shows("a"), Shows("b")>>

stageNamespaceFlag ==
    SeedPods(<<"a">>)
    \o Fine(Unscoped(ListPods({<<"namespace", "course">>}))) \o <<Shows("a")>>
    \o Fine(Unscoped(ListPods({}))) \o <<ShowsNot("a")>>

stageTableOutput ==
    SeedPods(<<"a">>) \o Fine(ListPods({}))
    \o <<Expect("column", <<1, "NAME">>), Expect("column", <<2, "AGE">>), Expect("first row", "a")>>

stageAgeColumn == SeedPods(<<"a">>) \o Fine(ListPods({})) \o <<Expect("short ages", "")>>

stageOutputJSON ==
    SeedPods(<<"a">>) \o Fine(ListPods({<<"output", "json">>}))
    \o <<Says("json"), Expect("rows", <<"a">>)>>

stageOutputYAML ==
    SeedPods(<<"a">>) \o Fine(ListPods({<<"output", "yaml">>})) \o <<Says("yaml"), Shows("a")>>

stageAllNamespaces ==
    SeedPods(<<"a">>) \o Fine(ListPods({<<"all-namespaces", "true">>}))
    \o <<Expect("column", <<1, "NAMESPACE">>), Expect("column", <<3, "AGE">>),
         Shows("a"), Shows("system")>>

stageGetByName ==
    SeedPods(<<"a", "b">>) \o Fine(Listing(<<"pod", "a">>, {})) \o <<Shows("a"), ShowsNot("b")>>
    \o Fails(Listing(<<"pod", "c">>, {}))

stageAPIResources ==
    Fine(Unscoped(Line(<<"api-resources">>, {}))) \o <<Says("every resource")>>

Spelled(resource) == Fine(Listing(<<resource>>, {})) \o <<Shows("a")>>
stageRESTMapper ==
    SeedPods(<<"a">>) \o Spelled("po") \o Spelled("pods") \o Spelled("pod") \o Spelled("Pod")

stageDynamicClient ==
    SeedConfigMap \o Fine(Listing(<<"configmaps">>, {})) \o <<Shows("config")>>
    \o SeedPods(<<"a">>) \o Fine(ListPods({})) \o <<Shows("a")>>

stageOutputWide ==
    SeedPods(<<"a">>) \o Fine(ListPods({<<"output", "wide">>}))
    \o <<Expect("column", <<3, "NODE">>), Expect("column", <<4, "IP">>)>>

stageLabelSelector ==
    SeedLabeledPod("b", "web") \o SeedLabeledPod("a", "db")
    \o Fine(ListPods({<<"selector", "web">>})) \o <<Shows("b"), ShowsNot("a")>>

stageFieldSelector ==
    SeedPods(<<"b", "a">>) \o Fine(ListPods({<<"field-selector", "b">>}))
    \o <<Shows("b"), ShowsNot("a")>>

stageSortedOutput ==
    SeedPods(<<"c", "a", "b">>) \o Fine(ListPods({})) \o <<Expect("rows", <<"a", "b", "c">>)>>

\* The second pod is created at some moment while the program runs, which is killed
\* after that.
stageWatch ==
    SeedPods(<<"a">>) \o <<Start(ListPods({<<"watch", "true">>}))>> \o SeedPods(<<"b">>)
    \o <<Bound, Shows("a"), Shows("b")>>

stageDelete ==
    SeedPods(<<"a">>) \o Fine(Line(<<"delete", "pod", "a">>, {})) \o <<Await("gone", "a")>>
    \o Fails(Line(<<"delete", "pod", "c">>, {}))

File(verb, value) == Line(<<verb>>, {<<"filename", value>>})
Greets(value) == Expect("greeting", value)

stageCreateFromFile ==
    Fine(File("create", "hello")) \o <<Greets("hello"), Expect("in the namespace", "")>>

stageApplySSA ==
    Fine(File("apply", "hello")) \o Fine(File("apply", "hello"))
    \o <<Greets("hello"), Expect("applied", "")>>

stageApplyConflict ==
    ApplyAs("theirs") \o Fails(File("apply", "ours"))
    \o Fine([File("apply", "ours") EXCEPT !.flags = @ \cup {<<"force-conflicts", "true">>}])
    \o <<Greets("ours")>>

stagePatch ==
    SeedConfigMap \o Fine(Line(<<"patch", "configmap", "config">>, {<<"patch", "blue">>}))
    \o <<Expect("colour", "blue"), Greets("hello")>>

stageScale ==
    SeedDeployment(1) \o Fine(Line(<<"scale", "deployment", "web">>, {<<"replicas", 3>>}))
    \o <<Expect("replicas", 3)>>

DescribeA == Line(<<"describe", "pod", "a">>, {})

stageDescribe ==
    SeedPods(<<"a">>) \o WaitForScheduled("a") \o Fine(DescribeA)
    \o <<Says("fields"), Shows("a"), Expect("no table", "")>>

stageDescribeEvents ==
    SeedPods(<<"a", "b">>) \o WaitForScheduled("a") \o WaitForScheduled("b") \o Fine(DescribeA)
    \o <<Says("Events:"), Says("Scheduled"), ShowsNot("b")>>

stageLogs == SeedRunningPod("a") \o Fine(Line(<<"logs", "a">>, {})) \o <<Says("marker")>>

stageExec ==
    SeedRunningPod("a") \o Fine([Line(<<"exec", "a">>, {}) EXCEPT !.behind = <<"echo">>])
    \o <<Says("from-inside")>>

stagePortForward ==
    SeedServingPod("a") \o <<Start(Line(<<"port-forward", "a", "18080:80">>, {})),
                             [op |-> "knock", name |-> "a"], Bound>>

Checks ==
    <<stageServerURL, stageContextOverride, stageServerVersion, stageListPods,
      stageNamespaceFlag, stageTableOutput, stageAgeColumn, stageOutputJSON, stageOutputYAML,
      stageAllNamespaces, stageGetByName, stageAPIResources, stageRESTMapper,
      stageDynamicClient, stageOutputWide, stageLabelSelector, stageFieldSelector,
      stageSortedOutput, stageWatch, stageDelete, stageCreateFromFile, stageApplySSA,
      stageApplyConflict, stagePatch, stageScale, stageDescribe, stageDescribeEvents,
      stageLogs, stageExec, stagePortForward>>
===============================================================================
