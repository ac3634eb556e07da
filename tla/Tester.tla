------------------------------- MODULE Tester -------------------------------
(***************************************************************************)
(* cmd/tester and internal/kube: the cases of a run, in order, each in a   *)
(* namespace of its own that is emptied and made anew before it begins,    *)
(* while what an earlier run left behind may still be at work in it.       *)
(***************************************************************************)
EXTENDS Naturals, FiniteSets

CONSTANTS Cases,      \* how many cases a run has
          Kinds,      \* kinds of namespaced objects, one object of each
          Opaque,     \* the kinds discovery does not give, or not with list and patch
          MaxRuns,    \* how often the learner runs the tester
          MaxMeddling, \* how often a program left behind makes an object
          MaxFaults   \* how many calls of Begin fail

ASSUME TesterAssumption ==
  Cases \in Nat \ {0} /\ IsFiniteSet(Kinds) /\ Opaque \subseteq Kinds /\ "none" \notin Kinds
  /\ MaxRuns \in Nat /\ MaxMeddling \in Nat /\ MaxFaults \in Nat

CaseNumbers == 1..Cases

\* An object is absent, held by a finalizer, or free to go.
Objects == {"absent", "held", "free"}

VARIABLES space,   \* each case's namespace: none, active or ending
          objects, \* what is in it
          made,    \* history: the run that made it
          run,     \* the number of this run, 0 before the first
          case,    \* the case it is at
          pc,      \* what the tester is at
          kinds,   \* the kinds still to be cleared
          found,   \* the kind whose list showed a finalizer
          passed,  \* history: the cases this run has passed
          exit,    \* what the last run came to
          meddling, faults

vars == << space, objects, made, run, case, pc, kinds, found, passed, exit, meddling,
           faults >>

budget == << meddling, faults >>

None == "none"

Init ==
  /\ space = [c \in CaseNumbers |-> None]
  /\ objects = [c \in CaseNumbers |-> [k \in Kinds |-> "absent"]]
  /\ made = [c \in CaseNumbers |-> 0]
  /\ run = 0 /\ case = 1
  /\ pc = "over" /\ exit = None
  /\ kinds = {} /\ found = None
  /\ passed = {}
  /\ meddling = MaxMeddling /\ faults = MaxFaults

\* byok8s run: the program is built once, and the cases begin with the first.
StartRun ==
  /\ pc = "over" /\ run < MaxRuns /\ exit # "passed"
  /\ run' = run + 1
  /\ case' = 1 /\ passed' = {} /\ exit' = None
  /\ pc' = "get"
  /\ UNCHANGED << space, objects, made, kinds, found, budget >>

Fail ==
  /\ pc' = "over" /\ exit' = "failed"
  /\ kinds' = {} /\ found' = None

----------------------------------------------------------------------------
(* Begin: reset.                                                           *)

\* What its calls ask of the API server.
Patched ==
  objects' = [objects EXCEPT ![case][found] =
                IF @ = "absent" THEN @
                ELSE IF space[case] = "ending" THEN "absent" ELSE "free"]
Deleted == space' = [space EXCEPT ![case] = IF @ = None THEN None ELSE "ending"]
Created == space' = [space EXCEPT ![case] = "active"] /\ made' = [made EXCEPT ![case] = run]

\* A slip: what is on its way out is taken to have been cleared.
GetNamespaceActive ==
  /\ pc = "get"
  /\ IF space[case] = "active"
     THEN pc' = "clear" /\ kinds' = Kinds \ Opaque
     ELSE /\ pc' = IF space[case] = "ending" THEN "delete" ELSE "create"
          /\ UNCHANGED kinds
  /\ UNCHANGED << space, objects, made, run, case, found, passed, exit, budget >>

\* A slip: a namespace that is empty is as good as a new one.
GetNamespaceEmpty ==
  /\ pc = "get"
  /\ IF space[case] = "active" /\ \A k \in Kinds : objects[case][k] = "absent"
     THEN pc' = "stage" /\ UNCHANGED kinds
     ELSE IF space[case] = None THEN pc' = "create" /\ UNCHANGED kinds
     ELSE pc' = "clear" /\ kinds' = Kinds \ Opaque
  /\ UNCHANGED << space, objects, made, run, case, found, passed, exit, budget >>

GetNamespace ==
  /\ pc = "get"
  /\ IF space[case] = None
     THEN pc' = "create" /\ UNCHANGED kinds
     ELSE pc' = "clear" /\ kinds' = Kinds \ Opaque
  /\ UNCHANGED << space, objects, made, run, case, found, passed, exit, budget >>

\* clearFinalizers lists kind by kind ...
ListKind ==
  /\ pc = "clear" /\ found = None
  /\ \E k \in kinds :
       /\ kinds' = kinds \ {k}
       /\ found' = IF objects[case][k] = "held" THEN k ELSE None
  /\ UNCHANGED << space, objects, made, run, case, pc, passed, exit, budget >>

\* ... and patches what it has listed, which may be gone by then.
PatchObject ==
  /\ pc = "clear" /\ found # None
  /\ Patched
  /\ found' = None
  /\ UNCHANGED << space, made, run, case, pc, kinds, passed, exit, budget >>

Cleared ==
  /\ pc = "clear" /\ kinds = {} /\ found = None
  /\ pc' = "delete"
  /\ UNCHANGED << space, objects, made, run, case, kinds, found, passed, exit, budget >>

DeleteNamespace ==
  /\ pc = "delete"
  /\ Deleted
  /\ pc' = "wait"
  /\ UNCHANGED << objects, made, run, case, kinds, found, passed, exit, budget >>

SeenGone ==
  /\ pc = "wait" /\ space[case] = None
  /\ pc' = "create"
  /\ UNCHANGED << space, objects, made, run, case, kinds, found, passed, exit, budget >>

\* The wait outlasts its context only if something still holds the namespace.
WaitTimesOut ==
  /\ pc = "wait" /\ space[case] = "ending"
  /\ \E k \in Kinds : objects[case][k] = "held"
  /\ Fail
  /\ UNCHANGED << space, objects, made, run, case, passed, budget >>

CreateNamespace ==
  /\ pc = "create"
  /\ IF space[case] # None
     THEN Fail /\ UNCHANGED << space, made >>
     ELSE /\ Created
          /\ pc' = "stage"
          /\ UNCHANGED << kinds, found, exit >>
  /\ UNCHANGED << objects, run, case, passed, budget >>

\* A list that fails is passed over, and with it the finalizers it had to show.
SkipKind ==
  /\ pc = "clear" /\ found = None
  /\ \E k \in kinds : kinds' = kinds \ {k}
  /\ UNCHANGED << space, objects, made, pc, found, exit >>

\* The Get, the discovery, a Patch, the Delete or the Create that fails ends the
\* run, and the API server may have done what it was asked all the same.
RequestFails ==
  /\ \/ /\ pc = "get" \/ (pc = "clear" /\ found = None /\ kinds = Kinds \ Opaque)
        /\ UNCHANGED << space, objects, made >>
     \/ /\ pc = "clear" /\ found # None
        /\ Patched \/ UNCHANGED objects
        /\ UNCHANGED << space, made >>
     \/ /\ pc = "delete"
        /\ Deleted \/ UNCHANGED space
        /\ UNCHANGED << objects, made >>
     \/ /\ pc = "create" /\ space[case] = None
        /\ Created \/ UNCHANGED << space, made >>
        /\ UNCHANGED objects
  /\ Fail

\* A Get that fails while the namespace is waited for is only asked again.
CallFails ==
  /\ faults > 0 /\ faults' = faults - 1
  /\ SkipKind \/ RequestFails
  /\ UNCHANGED << run, case, passed, meddling >>

----------------------------------------------------------------------------
(* The stage, and the loop around it.                                      *)

\* Whatever a stage and its program leave in the namespace stays there.
Leave == \E o \in [Kinds -> Objects] : objects' = [objects EXCEPT ![case] = o]

StageFails ==
  /\ pc = "stage"
  /\ Leave
  /\ Fail
  /\ UNCHANGED << space, made, run, case, passed, budget >>

\* A stage waits for its fixture, a running pod say, through kube.WaitFor ...
AwaitFixture ==
  /\ pc = "stage" /\ pc' = "fixture"
  /\ UNCHANGED << space, objects, made, run, case, kinds, found, passed, exit, budget >>

\* ... which ends when the cluster has come to it, and by nothing else: the
\* context Begin bounds is its own, and stage.Run is given one without an end.
FixtureReady ==
  /\ pc = "fixture" /\ pc' = "stage"
  /\ UNCHANGED << space, objects, made, run, case, kinds, found, passed, exit, budget >>

StagePasses ==
  /\ pc = "stage"
  /\ Leave
  /\ passed' = passed \cup {case}
  /\ IF case < Cases
     THEN case' = case + 1 /\ pc' = "get" /\ UNCHANGED exit
     ELSE exit' = "passed" /\ pc' = "over" /\ UNCHANGED case
  /\ UNCHANGED << space, made, run, kinds, found, budget >>

----------------------------------------------------------------------------
(* The cluster.                                                            *)

\* A program of before, or a controller of its objects, makes one more, held
\* or not, or takes hold of one; in a namespace that is ending nothing can be
\* made.
Meddle ==
  /\ meddling > 0 /\ pc \notin {"stage", "fixture"}
  /\ \E c \in CaseNumbers, k \in Kinds, o \in {"held", "free"} :
       /\ IF objects[c][k] = "absent" THEN space[c] = "active"
          ELSE objects[c][k] = "free" /\ o = "held"
       /\ objects' = [objects EXCEPT ![c][k] = o]
  /\ meddling' = meddling - 1
  /\ UNCHANGED << space, made, run, case, pc, kinds, found, passed, exit, faults >>

\* The namespace controller deletes what is in a namespace that ends.
ObjectGoes ==
  /\ \E c \in CaseNumbers, k \in Kinds :
       /\ space[c] = "ending" /\ objects[c][k] = "free"
       /\ objects' = [objects EXCEPT ![c][k] = "absent"]
  /\ UNCHANGED << space, made, run, case, pc, kinds, found, passed, exit, budget >>

NamespaceGoes ==
  /\ \E c \in CaseNumbers :
       /\ space[c] = "ending" /\ \A k \in Kinds : objects[c][k] = "absent"
       /\ space' = [space EXCEPT ![c] = None]
  /\ UNCHANGED << objects, made, run, case, pc, kinds, found, passed, exit, budget >>

Begin == \/ GetNamespace \/ ListKind \/ PatchObject \/ Cleared \/ DeleteNamespace
         \/ SeenGone \/ WaitTimesOut \/ CreateNamespace

Stage == \/ StageFails \/ StagePasses
         \/ AwaitFixture \/ FixtureReady

Next == \/ StartRun \/ Begin \/ CallFails \/ Stage
        \/ Meddle \/ ObjectGoes \/ NamespaceGoes

Spec == Init /\ [][Next]_vars

\* The tester runs on, and the namespace controller too. Nothing is assumed of
\* when a fixture is ready.
FairSpec ==
  Spec /\ WF_vars(Begin) /\ WF_vars(StageFails \/ StagePasses)
       /\ WF_vars(ObjectGoes) /\ WF_vars(NamespaceGoes)

----------------------------------------------------------------------------

\* The tester is at one case, and the finalizers it has found are of a kind it
\* can patch.
TypeOK ==
  /\ space \in [CaseNumbers -> {None, "active", "ending"}]
  /\ objects \in [CaseNumbers -> [Kinds -> Objects]]
  /\ made \in [CaseNumbers -> 0..MaxRuns]
  /\ run \in 0..MaxRuns /\ case \in CaseNumbers
  /\ pc \in {"over", "get", "clear", "delete", "wait", "create", "stage", "fixture"}
  /\ kinds \subseteq Kinds \ Opaque /\ found \in (Kinds \ Opaque) \cup {None}
  /\ passed \subseteq CaseNumbers
  /\ exit \in {None, "passed", "failed"}
  /\ meddling \in 0..MaxMeddling /\ faults \in 0..MaxFaults

\* Begin "gives a stage a clean namespace": the stage that is being judged runs
\* in a namespace this run has made, whatever earlier runs left behind.
CleanNamespace ==
  pc = "stage" => space[case] = "active" /\ made[case] = run

\* "Exit 0 means every case passed", and they are judged in order: no case is
\* begun before those ahead of it have passed in the same run.
JudgedInOrder ==
  /\ pc # "over" => passed = 1..(case - 1)
  /\ exit = "passed" => passed = CaseNumbers

\* Both at once: what a verdict is worth depends on where it was reached and on
\* what came before it.
JudgedCleanly == CleanNamespace /\ JudgedInOrder

\* The comment on Begin: what a failed stage left "wedges the namespace in
\* Terminating forever and breaks every later run". Not here, whatever failed and
\* was cut short before: once nothing of before is at work in its namespace and the
\* calls succeed, a case that is begun gets to its stage.
BeginSucceeds == [](pc = "get" /\ meddling = 0 /\ faults = 0 => <>(pc = "stage"))

\* The part of BeginSucceeds that is safety, and of later runs too: from a case
\* that is begun with nothing of before at work and no call to fail, neither the
\* wait nor the creation has a reason to, but for kinds that clearFinalizers does
\* not see.
NothingWedges ==
  [](pc = "get" /\ meddling = 0 /\ faults = 0
       => [](/\ pc = "wait" => \A k \in Kinds \ Opaque : objects[case][k] # "held"
             /\ pc = "create" => space[case] = None))

\* The comment on stages.Timeout, that it "bounds one stage".
\* The program does not keep it (README).
StageEnds == pc \in {"stage", "fixture"} ~> pc \notin {"stage", "fixture"}
=============================================================================
