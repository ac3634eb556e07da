--------------------------- MODULE ControllerChecks ---------------------------
(***************************************************************************)
(* The 28 checks a controller is graded by, one script for each stage       *)
(* function of internal/stages/controller/stages.go.  A script is the       *)
(* sequence of what the check does to the cluster and to the program, of    *)
(* what it waits for and what it asserts.  The Websites a check makes are   *)
(* "a", "b" and "c" in the order it makes them; its sleeps are left out:    *)
(* any step may come late.  ControllerStages gives the words their meaning. *)
(***************************************************************************)
EXTENDS Integers, Sequences

CONSTANT Burst      \* how many edits a check makes in a row (5 and 20 there)

NotSet == -1        \* spec.replicas left out
Text == -2          \* spec.replicas given as a string

Spec(image, replicas) == [image |-> image, replicas |-> replicas, host |-> TRUE]

-------------------------------------------------------------------------------
\* The words of a script.

removeCRD == [op |-> "removeCRD"]
ensureCRD == [op |-> "ensureCRD"]
launch(who, flags) == [op |-> "launch", who |-> who, flags |-> flags]
Stop(who) == [op |-> "stop", who |-> who]
Create(name, spec) == [op |-> "create", name |-> name, spec |-> spec]
Refused(spec) == [op |-> "refused", spec |-> spec]
updateWebsite(name, change) == [op |-> "update", name |-> name, change |-> change]
touchWebsite(name) == updateWebsite(name, [touched |-> TRUE])
Delete(name) == [op |-> "delete", name |-> name]
scaleTo(name, n) == [op |-> "scale", name |-> name, replicas |-> n]
DeleteChild(name) == [op |-> "deleteChild", name |-> name]
seed(name, owner) == [op |-> "seed", name |-> name, owner |-> owner]
waitFor(what, name) == [op |-> "wait", what |-> what, name |-> name]
Expect(what, name) == [op |-> "expect", what |-> what, name |-> name]

\* A line of the output of the first, or of the second, program.
awaitLine(line) == [op |-> "wait", what |-> "line", who |-> "first", line |-> line]
Second(await) == [await EXCEPT !.who = "second"]
awaitDeployment(name) == waitFor("deployment", name)
waitReplicas(name, n) == [op |-> "wait", what |-> "replicas", name |-> name, n |-> n]
expectReplicas(name, n) == [waitReplicas(name, n) EXCEPT !.op = "expect"]

Announced == awaitLine(<<"crd">>)
Synced == waitFor("synced", "first")
Warm == <<ensureCRD, launch("first", {}), Synced>>
Grown(name, n) == <<Create(name, Spec("old", n)), awaitDeployment(name)>>

Repeat(word(_)) == [i \in 1..Burst |-> word(i)]
EditImage(i) == updateWebsite("a", [image |-> IF i % 2 = 0 THEN "old" ELSE "new"])
EditReplicas(i) == updateWebsite("a", [replicas |-> (i % 2) + 1])

-------------------------------------------------------------------------------
\* The scripts.

stageInstallCRD ==
    <<removeCRD, launch("first", {}), Announced,
      Expect("established", "a"), Expect("namespaced", "a")>>

stageCRDSchema ==
    <<removeCRD, launch("first", {}), Announced, Expect("columns", "a"),
      Refused(Spec("old", Text)), Refused(Spec("none", 1)),
      Create("a", Spec("old", NotSet)), Expect("defaulted", "a")>>

stageListThenWatch ==
    <<ensureCRD, Create("a", Spec("old", NotSet)), launch("first", {}),
      awaitLine(<<"add", "a">>),
      Create("b", Spec("old", NotSet)), awaitLine(<<"add", "b">>),
      updateWebsite("b", [image |-> "new"]), awaitLine(<<"update", "b">>),
      Delete("b"), awaitLine(<<"delete", "b">>), Expect("reported once", "a")>>

stageSharedInformer ==
    <<ensureCRD, Create("a", Spec("old", NotSet)), Create("b", Spec("old", NotSet)),
      launch("first", {}), Synced, Expect("synced two", "a"),
      Expect("add reported", "a"), Expect("add reported", "b"),
      Create("c", Spec("old", NotSet)), awaitLine(<<"add", "c">>)>>

stageLister ==
    <<ensureCRD, Create("a", Spec("old", NotSet)), launch("first", {}), Synced,
      Create("b", Spec("old", NotSet)), Create("c", Spec("old", NotSet)),
      awaitLine(<<"cache", 3>>), Delete("c"), awaitLine(<<"cache", 2>>)>>

stageWorkqueue ==
    Warm \o <<Create("a", Spec("old", NotSet)), waitFor("reconciled", "a")>>
    \o Repeat(EditImage)
    \o <<awaitLine(<<"update", "a">>), Expect("no work invented", "a")>>

stageReconcile ==
    Warm \o
    <<Create("a", Spec("old", 3)), awaitLine(<<"reconcile", "a", 3>>),
      updateWebsite("a", [replicas |-> 5]), awaitLine(<<"reconcile", "a", 5>>),
      Delete("a"), awaitLine(<<"gone", "a">>), Expect("running", "first")>>

stageCreateChild ==
    Warm \o Grown("a", 2)
    \o <<expectReplicas("a", 2), Expect("image follows", "a"), Expect("selects", "a")>>

stageOwnerReferences ==
    Warm \o Grown("a", NotSet)
    \o <<Expect("owned", "a"), Delete("a"), waitFor("collected", "a")>>

stageAdoptExisting ==
    <<ensureCRD, seed("a", "nobody"), launch("first", {}), Synced,
      Create("a", Spec("old", NotSet)), waitFor("owned", "a"),
      Expect("never replaced", "a")>>

\* A slip: the check edits the Website and leaves the Deployment alone.
stageRepairNothing ==
    Warm \o Grown("a", 2) \o <<touchWebsite("a"), waitReplicas("a", 2)>>

stageRepairDrift ==
    Warm \o Grown("a", 2)
    \o <<scaleTo("a", 0), touchWebsite("a"), waitReplicas("a", 2)>>

stageUpdateSpec ==
    Warm \o Grown("a", 1)
    \o <<updateWebsite("a", [image |-> "new", replicas |-> 3]),
         waitFor("spec follows", "a")>>

stageSecondChild ==
    Warm \o Grown("a", NotSet)
    \o <<waitFor("service", "a"), Expect("service selects pods", "a"),
         Expect("service owned", "a")>>

stageRequeueOnError ==
    Warm \o
    <<Create("a", [Spec("old", NotSet) EXCEPT !.host = FALSE]),
      awaitLine(<<"retry", "a">>), Expect("running", "first"), Expect("backs off", "a"),
      updateWebsite("a", [host |-> TRUE]), awaitDeployment("a")>>

stageRequeueAfter ==
    Warm \o Grown("a", 2) \o <<scaleTo("a", 0), waitReplicas("a", 2)>>

stagePausedAnnotation ==
    Warm \o Grown("a", 2) \o
    <<updateWebsite("a", [paused |-> TRUE]), awaitLine(<<"paused", "a">>),
      scaleTo("a", 0), expectReplicas("a", 0),
      updateWebsite("a", [paused |-> FALSE]), waitReplicas("a", 2)>>

stageStatusSubresource ==
    <<removeCRD, ensureCRD, Expect("status subresource", "a"),
      launch("first", {}), Synced, Create("a", Spec("old", NotSet)),
      waitFor("observed", "a"), Expect("replicas reported", "a"),
      Expect("first generation", "a")>>

stageConditions ==
    <<removeCRD, ensureCRD, launch("first", {}), Synced,
      Create("a", Spec("old", 1)), waitFor("condition", "a"), waitFor("ready", "a")>>

stageFinalizer ==
    Warm \o
    <<Create("a", Spec("old", NotSet)), waitFor("claimed", "a"),
      awaitDeployment("a"), Stop("first"), Delete("a"), Expect("held open", "a"),
      launch("second", {}), Second(awaitLine(<<"cleaned up", "a">>)),
      waitFor("website gone", "a")>>

stageConflictRetry ==
    Warm \o Grown("a", 1) \o Repeat(EditReplicas)
    \o <<waitFor("observed", "a"), Expect("running", "first")>>

stageServerSideApply ==
    Warm \o Grown("a", 2)
    \o <<Expect("applied", "a"), scaleTo("a", 3), waitReplicas("a", 2)>>

stageSecondaryWatch ==
    Warm \o Grown("a", NotSet)
    \o <<DeleteChild("a"), awaitLine(<<"child", "a">>), waitFor("replaced", "a")>>

stageForeignChildren ==
    <<ensureCRD, seed("a", "other"), launch("first", {}), Synced,
      Create("a", Spec("new", 4)), awaitLine(<<"controlled by", "a">>),
      Expect("untouched", "a")>>

stageEvents ==
    Warm \o
    <<Create("a", Spec("old", NotSet)), waitFor("event", "a"),
      Expect("few events", "a")>>

stageMetrics ==
    <<ensureCRD, launch("first", {"metrics-addr"}), Synced>> \o Grown("a", NotSet)
    \o <<waitFor("metrics", "first"), Expect("passes counted", "a")>>

stageHealthProbes ==
    <<ensureCRD, launch("first", {"metrics-addr"}), waitFor("healthz", "first"),
      waitFor("readyz", "first"), Expect("synced", "first"), Stop("first"),
      Expect("endpoints gone", "first")>>

stageLeaderElection ==
    <<ensureCRD, launch("first", {"metrics-addr", "identity"}),
      awaitLine(<<"leading">>), launch("second", {"metrics-addr", "identity"}),
      Expect("standing by", "second"), Expect("holder", "first"),
      Stop("first"), Second(awaitLine(<<"leading">>))>>

stageGracefulShutdown ==
    <<ensureCRD, launch("first", {"metrics-addr", "identity"}),
      awaitLine(<<"leading">>)>> \o Grown("a", NotSet) \o
    <<Stop("first"), Expect("exit code 0", "first"), Expect("said so", "first"),
      launch("second", {"metrics-addr", "identity"}), Second(awaitLine(<<"leading">>))>>

Checks ==
    <<stageInstallCRD, stageCRDSchema, stageListThenWatch, stageSharedInformer,
      stageLister, stageWorkqueue, stageReconcile, stageCreateChild,
      stageOwnerReferences, stageAdoptExisting, stageRepairDrift, stageUpdateSpec,
      stageSecondChild, stageRequeueOnError, stageRequeueAfter,
      stagePausedAnnotation, stageStatusSubresource, stageConditions,
      stageFinalizer, stageConflictRetry, stageServerSideApply,
      stageSecondaryWatch, stageForeignChildren, stageEvents, stageMetrics,
      stageHealthProbes, stageLeaderElection, stageGracefulShutdown>>

===============================================================================
