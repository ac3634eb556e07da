---------------------------- MODULE WebhookChecks ----------------------------
(***************************************************************************)
(* The 26 checks a webhook is graded by, one script for each stage function *)
(* of internal/stages/webhook/stages.go: the requests it makes of the API   *)
(* server, each with the answers it takes, what it waits for and what it    *)
(* asserts.  Polling has no period and a deadline never comes: a check that *)
(* waits for ever is one that fails.  WebhookStages gives the words their   *)
(* meaning.                                                                 *)
(***************************************************************************)
EXTENDS Sequences

-------------------------------------------------------------------------------
\* Requests.

Create(name, owner, marks) ==
    [verb |-> "CREATE", res |-> "pods", name |-> name, owner |-> owner, marks |-> marks,
     ns |-> "course", user |-> "ordinary", dry |-> FALSE, grace |-> TRUE, version |-> "v1"]
Unowned(name) == Create(name, "none", {})
Owned(name) == Create(name, "platform", {})
Update(name, owner, marks) == [Create(name, owner, marks) EXCEPT !.verb = "UPDATE"]
Delete(name) == [Unowned(name) EXCEPT !.verb = "DELETE"]
evict(name) == [Unowned(name) EXCEPT !.res = "pods/eviction"]
connect(subresource, name) ==
    [Unowned(name) EXCEPT !.verb = "CONNECT", !.res = subresource]
OwnerList(version, owners) ==
    [Create("list", owners, {}) EXCEPT !.res = "ownerlists", !.version = version, !.dry = TRUE]
Dry(request) == [request EXCEPT !.dry = TRUE]
createPodIn(namespace, name) == [Unowned(name) EXCEPT !.ns = namespace]
clientAs(user, request) == [request EXCEPT !.user = user]

-------------------------------------------------------------------------------
\* The words of a script.

Answers == {"admitted", "warned", "denied", "policy", "unreached", "missing"}
Ok == {"admitted", "warned"}

sweepRegistrations == [op |-> "sweep", hooks |-> {"validating", "mutating"}]
sweepPolicies == [op |-> "sweep", hooks |-> {"policy"}]
Start == [op |-> "start"]
Kill == [op |-> "kill"]
waitFor(what, name) == [op |-> "wait", what |-> what, name |-> name]
Expect(what, name) == [op |-> "expect", what |-> what, name |-> name]
awaitLine(line) == waitFor("line", line)
Answered(review) == waitFor("answered", review)

\* One call, and its answer; a poll of calls until one is answered so, until the
\* stored pod carries the marks in shows, or until an answer no poll survives.
Must(request, good) == [op |-> "must", request |-> request, good |-> good]
Until(request, good) ==
    [op |-> "until", request |-> request, good |-> good, shows |-> {}, never |-> {},
     fresh |-> FALSE, recorded |-> FALSE]
Showing(request, marks) == [Until(request, Ok) EXCEPT !.shows = marks]

\* The list of owners the policy reads, edited and deleted.
setOwners(owners) == [op |-> "owners", owners |-> owners]
dropOwners == [op |-> "drop"]
deletePod(name) ==
    <<Must([Delete(name) EXCEPT !.grace = FALSE], Ok \cup {"missing"}), waitFor("gone", name)>>

launchKeepingPolicy == <<Start>>
awaitPolicyQuiet == Until(Dry(Unowned("probe")), Answers \ {"policy"})
launch == launchKeepingPolicy \o <<awaitLine("serving"), sweepPolicies, awaitPolicyQuiet>>
findRegistration == waitFor("registered", "")
findMutatingRegistration == waitFor("patching", "")
Fresh(poll) == deletePod(poll.request.name) \o <<[poll EXCEPT !.fresh = TRUE]>>
findPolicy == waitFor("policy", "")
Begin == <<sweepRegistrations>> \o launch \o <<findRegistration>>
BeginPatching == <<sweepRegistrations>> \o launch \o <<findMutatingRegistration>>
Refuses == Until(Unowned("bad"), {"denied"})
StillRefuses == [Refuses EXCEPT !.never = Ok]

-------------------------------------------------------------------------------
\* The scripts.

stageServeTLS == launch \o <<waitFor("healthz", "")>>

stageAdmissionReview == launch \o <<Answered("unowned")>>

stageRegisterValidating ==
    Begin \o <<Expect("judges creates", ""), Must(Owned("good"), Ok), awaitLine("good")>>

stageDeny == Begin \o <<Refuses, Must(Owned("good"), Ok)>>

stageUIDEcho == launch \o <<Answered("fine"), Answered("unowned"), Answered("broken")>>

stageRulesScope ==
    Begin \o
    <<Expect("judges updates", ""), Expect("namespaced", ""), Until(Owned("good"), Ok),
      Must(Update("good", "none", {}), {"denied"}),
      Answered("configmap"), Expect("let through", "configmap")>>

stageNamespaceSelector ==
    Begin \o
    <<Expect("narrowed", ""), Must(createPodIn("other", "plain"), Ok), Refuses>>

stageObjectSelector ==
    Begin \o
    <<Expect("skips", ""), Until(Create("good", "none", {"skip"}), Ok), Refuses>>

stageMutatePatch ==
    BeginPatching \o <<Showing(Owned("good"), {"injected"}), Refuses>>

stageDefaulting ==
    BeginPatching \o
    <<Showing(Owned("good"), {"cpu"}), Until(Update("good", "platform", {"round"}), Ok),
      Expect("cpu", "good"), Refuses>>

stageSidecarInject ==
    BeginPatching \o
    <<Showing(Create("good", "platform", {"inject"}), {"sidecar"}),
      Must(Owned("plain"), Ok), Expect("no sidecar", "plain"),
      Until(Update("good", "platform", {"inject", "round"}), Ok),
      Expect("sidecar", "good"), Refuses>>

stageDryRun ==
    Begin \o
    <<Expect("none on dry run", ""),
      [Until(Owned("good"), Ok) EXCEPT !.recorded = TRUE],
      Must(Dry(Owned("ghost")), Ok), Expect("not stored", "ghost"),
      Expect("not recorded", "ghost"), Must(Dry(Unowned("bad")), {"denied"})>>

stageFailurePolicy ==
    Begin \o
    <<Expect("fails closed", ""), Until(Owned("good"), Ok), Kill,
      Expect("registered", ""), Must(Owned("plain"), {"unreached"})>>

stageTimeout ==
    Begin \o
    <<Until(Owned("good"), Ok), Must(Create("slow", "platform", {"slow"}), {"unreached"}),
      awaitLine("gave up"), StillRefuses>>

stageReinvocation ==
    BeginPatching \o
    <<Expect("reinvoked", ""), Until(Create("good", "platform", {"inject"}), Ok),
      Expect("sidecar", "good"), Expect("injected", "good"), Expect("patches once", ""),
      StillRefuses>>

stageCertRotation ==
    Begin \o
    <<[op |-> "handshake"], awaitLine("rotated certificate"), waitFor("new leaf", ""),
      Expect("verifies", ""), Expect("registered", ""), Expect("bundle kept", ""),
      Must(Owned("good"), Ok), Must(Unowned("bad"), {"denied"})>>

stageAuditAnnotations ==
    Begin \o
    <<Expect("let through", "fine"), Expect("annotated", ""),
      Expect("let through", "legacy"), Expect("refused", "unowned"),
      Must(Create("good", "platform", {"legacy"}), {"warned"})>>

stageMatchConditions ==
    Begin \o
    <<findMutatingRegistration, Expect("conditions", "")>>
    \o deletePod("bad") \o <<Must(Unowned("bad"), Answers \ Ok)>>
    \o deletePod("plain")
    \o <<[Until(clientAs("exempt", Unowned("plain")), Ok) EXCEPT !.never = {"denied"}]>>
    \o deletePod("good")
    \o <<Must(Owned("good"), Ok), awaitLine("good"), Expect("silence", "plain")>>

stageValidatingAdmissionPolicy ==
    <<sweepRegistrations, sweepPolicies>> \o launchKeepingPolicy \o
    <<awaitLine("serving"), findPolicy, Kill, sweepRegistrations>>
    \o Fresh(Until(Unowned("bad"), Answers \ Ok)) \o <<Expect("the last answer", "policy")>>
    \o Fresh(Until(Owned("good"), Ok))

stageSelfExclusion ==
    Begin \o
    <<Expect("excludes own", ""), Refuses, Must(createPodIn("own", "plain"), Ok),
      Kill, Must(createPodIn("own", "good"), Ok)>>

Protected(name) == Create(name, "byok8s", {"protected"})

stageSubresourceEviction ==
    Begin \o
    <<Expect("judges evictions", ""), Must(Protected("bad"), Ok), Must(Owned("good"), Ok),
      Until(evict("bad"), Answers \ Ok), Expect("the last answer", "denied"),
      Until(evict("good"), Ok), Must(Owned("plain"), Ok)>> \o deletePod("plain")

stageDeleteOldObject ==
    Begin \o
    <<Expect("judges deletes", ""), Must(Protected("bad"), Ok), Must(Owned("good"), Ok),
      Until(Delete("bad"), Answers \ Ok), Expect("the last answer", "denied")>>
    \o deletePod("good")
    \o <<Must(Update("bad", "byok8s", {}), Ok), Until(Delete("bad"), Ok)>>

stageConnectExec ==
    Begin \o
    <<Expect("judges sessions", ""), Must(Protected("bad"), Ok), Must(Owned("good"), Ok),
      Until(connect("pods/exec", "bad"), {"denied"}),
      Must(connect("pods/attach", "bad"), {"denied"}),
      Must(connect("pods/exec", "good"), Answers \ {"denied"})>>

stageNamespaceTeardown ==
    Begin \o
    <<Must(Protected("bad"), Ok), Until(Dry(Delete("bad")), {"denied"}),
      [op |-> "delete namespace"], waitFor("namespace gone", "")>>

stagePolicyParams ==
    <<sweepRegistrations, sweepPolicies>> \o launchKeepingPolicy \o
    <<awaitLine("serving"), findPolicy, Expect("params", ""), setOwners({"platform"}),
      Kill, sweepRegistrations,
      [op |-> "both", request |-> Dry(Owned("good")), good |-> Ok,
       other |-> Dry(Create("good", "research", {}))],
      setOwners({"platform", "research"}), Until(Dry(Create("good", "research", {})), Ok),
      dropOwners, Until(Dry(Owned("good")), {"policy"})>>

stageMatchPolicy ==
    Begin \o
    <<Expect("judges lists", ""), Until(OwnerList("v1", "typo"), {"denied"}),
      Must(OwnerList("v1", "empty"), {"denied"}),
      Until(OwnerList("v1beta1", "typo"), Answers \ {"missing"}),
      Expect("the last answer", "denied"), Must(OwnerList("v1beta1", "good"), Ok)>>

Checks ==
    <<stageServeTLS, stageAdmissionReview, stageRegisterValidating, stageDeny, stageUIDEcho,
      stageRulesScope, stageNamespaceSelector, stageObjectSelector, stageMutatePatch,
      stageDefaulting, stageSidecarInject, stageDryRun, stageFailurePolicy, stageTimeout,
      stageReinvocation, stageCertRotation, stageAuditAnnotations, stageMatchConditions,
      stageValidatingAdmissionPolicy, stageSelfExclusion, stageSubresourceEviction,
      stageDeleteOldObject, stageConnectExec, stageNamespaceTeardown, stagePolicyParams,
      stageMatchPolicy>>
===============================================================================
