# Formal models of byo-k8s-x

byo-k8s-x is a course in which learners build three Kubernetes programs: a
controller (28 stages), an admission webhook (26) and a kubectl (30). For each
stage there is a snapshot of a reference program
(`courses/<course>/reference/stages/NN-*/main.go`; `reference/work/main.go` is
the last one) and a check that a learner's program has to pass
(`internal/stages/<course>/stages.go`); a tester and a runner put the two
together in a cluster. The models follow the three finished programs in depth,
the runner and the tester, and every snapshot under every check it should pass.
TLC checks small instances; TLAPS proves the safety properties that matter most
for every instance.

Line numbers of a program are those of its `reference/work/main.go`.

## Inventory

| Part | State | Operations | How it meets the others | What makes it correct | Modelled |
|---|---|---|---|---|---|
| Controller, worker loop (`observe`, `processNext`) | work queue, delayed keys, failure counts | handlers add keys; the worker takes a key, reconciles it, forgets or backs off, hands it in | informers call the handlers from their own goroutines; timers call back; the context ends it | no call for a pass is lost, doubled or starved; the loop ends | yes |
| Controller, `reconcile` | informer cache; nothing else between passes | `ensureDeployment`, `ensureService`, `writeStatus`, `addFinalizer`, `finalize` | API calls on objects that users and other controllers write too | acts on the right Website though the cache is stale; undoes no edit; converges; a deletion completes | partly: conditions and labels are one flag |
| Controller, leadership and shutdown (`lead`, `run`) | a Lease; `runErr` | acquire, renew, release, stop | `observe` runs while the Lease is held | one worker at a time; a quick handover | yes |
| Controller, CRD (`installCRD`, `waitEstablished`) | the definition | create or update, wait for a condition | before everything else | converges over an older definition | yes, as steps of a start |
| Controller, endpoints (`serveObservability`) | two atomics | HTTP handlers | reads what `observe` sets | ready only after the cache has synced | partly: when they answer |
| Webhook, lifecycle (`run`, `register*`, `unregister`) | two configurations, a listener | register, serve, stop, unregister | the API server calls what is registered | nothing registered that nobody serves | yes |
| Webhook, certificates (`certAuthority`, `leafFor`) | authority, leaf | issue, renew on a timer | the registration carries the authority | the leaf served is trusted at any time | yes |
| Webhook, decisions (`validate`, `decide*`, `mutate`, `recordVerdict`) | owner lists, verdicts | one handler per request, beside each other | reads ConfigMaps, writes verdicts after answering | same answer on retry, no lock-out, each verdict recorded | yes |
| Webhook, policy (`installPolicy`) | a policy and its binding | create or update | judged in the API server, beside the webhook | agrees with the webhook | yes |
| kubectl (`get`, `-w`, logs, exec, ...) | a resource version | list, then watch; streams; writes | API server | shows each change once | yes |
| kubectl, command line (`parseInterspersed`, `afterDoubleDash`) | words left | the loop over the `flag` package | – | flags mean the same wherever they stand | yes |
| Runner (`internal/runner`) | a child process, its pipes and its exit | start, poll, stop, kill | drives the program under test | one exit per process; every call returns | yes |
| Tester (`internal/kube`, `cmd/tester`) | a namespace per case | empty, delete, create, run the case | the cluster, and what earlier runs left in it | every case in a clean namespace | yes |
| Stage checks (84) | a script's progress | deeds, waits, assertions | run against the program and the cluster | right programs pass, early ones do not | yes |
| Snapshots (84) | as the programs' | as the programs' | judged by the checks | each passes its stage and those before | yes |
| Course registry, lessons, website generator, skeletons, scripts | – | – | – | data and prose | no, see *Not modelled* |

What is hard: in the controller four parties (users, the worker, the cluster's
own controllers, the watch) act on three objects, the controller sees them late,
any call may fail, and the process may die between any two calls. The webhook is
asked about writes it makes itself, by an API server that keeps asking when it
is gone. The tester starts over in namespaces that are still ending. The checks
are themselves concurrent programs: each reads lines and objects while the
informer, the worker, the API server's caches and the cluster go on.

## Modules

| Module | What it is |
|---|---|
| `RateLimitingQueue` | client-go's work queue (a library) as a value: each operation maps a queue to a queue. A delay is a set of keys whose timer runs. |
| `KeyHints` | abstract: what a controller needs of its queue, with fairness. |
| `ProcessNext` | the worker loop at any number of keys, one queue call a step; refines `KeyHints`. |
| `OneKeyQueue` | abstract: the queue and the worker as a single key sees them, a pass and its hand-in one step each. |
| `Controller` | one name of one namespace: API server, cache, events, queue, worker with one API call a step, users, other controllers, garbage collector, crash and restart. |
| `ControllerInvariant` | the inductive invariant of `Controller`. |
| `WebsiteLife` | abstract: the three objects, and a controller that acts on them in one step, with what the Website asks for or has asked for since it was last forgotten. |
| `Leadership` | instances around one Lease in discrete time. |
| `WebhookLifecycle` | the webhook's `run`, and what the API server asks of the registration. |
| `Admission` | the webhook's and the policy's decisions in front of the pods and the OwnerList of a namespace. |
| `CertRotation` | authority and leaf on a clock. |
| `Mutate` | the patch, op by op, beside another webhook and with reinvocation. |
| `RecordVerdict`, `VerdictLog` | handlers that write into one ConfigMap; abstract: a log in which each verdict is written in one step. |
| `GetWatch` | kubectl's list and the watch that goes on from it. |
| `Arguments` | kubectl's command line, word by word. |
| `Runner` | a program in its process group, its pipes, `cmd.Wait` and the calls of a stage. |
| `Tester` | the loop over the cases, and `reset` object by object. |
| `ControllerSnapshots`, `ControllerPasses`, `ControllerChecks`, `ControllerStages` | the controller course: 28 programs as data, 28 checks as scripts, and what both mean. |
| `WebhookSnapshots`, `WebhookVerdicts`, `WebhookChecks`, `WebhookStages` | the webhook course, the same way. |
| `KubectlSnapshots`, `KubectlCommands`, `KubectlChecks`, `KubectlStages` | the kubectl course, the same way. |
| `MC*` | instances for TLC. `MCWebhook`, `MCHarness`, `MCKubectl` and `MCStages` each put several parts into one run. |
| `RateLimitingQueueProofs`, `ProcessNextProofs`, `ControllerProofs`, `LeadershipProofs`, `WebhookLifecycleProofs` | the proofs about these modules. |
| `WebhookProofs`, `HarnessProofs`, `KubectlProofs` | the proofs about the parts that `MCWebhook`, `MCHarness` and `MCKubectl` put together. |

### ProcessNext

`pc` is where the worker is in `processNext`: `get` (blocked in `queue.Get`),
`reconcile`, `forget` and `addAfter` after a nil error, `addRateLimited` after
an error, `done` for the deferred `queue.Done`, `ended`. Every queue call is a
step of its own, because handlers and timers call the queue from other
goroutines in between. `Enqueue` is any informer handler, `TimerFires` the
delaying goroutine, `StopObserving` the deferred `queue.ShutDown`. What
`reconcile` does is reduced to success or failure. `announced`, `unanswered` and
`lastPass` are history variables. The abstract `KeyHints` has a set of pending
hints; a hint is mapped to *a call for a pass*, recorded by `CallFor` whenever
the code adds a key, and not to the queue's `dirty` set, so the refinement says
that the queue records every call.

### Controller

A pass is a sequence of API calls, and each is an action:

| Action | Code (`main.go`) |
|---|---|
| `TakeKey`, `PassOk`, `PassFailed` | `processNext`; its queue calls after `reconcile` are one step here, on a queue of one key, which `EachKeyAlone` justifies |
| `Lookup`, `Branch` | `reconcile`: the lister's Get and the tests for deletion, finalizer and pause |
| `AddFinalizerGet`, `AddFinalizerUpdate` | `addFinalizer`, inside `RetryOnConflict` |
| `DeploymentOwner`, `DeploymentApply` | `ownedByUs`, then the forced Apply of `ensureDeployment` |
| `ServiceApply` | `ensureService` |
| `StatusDeployment`, `StatusGet`, `StatusUpdate` | `writeStatus`, the last two inside `RetryOnConflict` |
| `FinalizeDelete`, `FinalizeGet`, `FinalizeUpdate` | `finalize` |
| `ApiError` | any of these calls returns another error |
| `DeliverSite`, `Relist`, `DeliverChild` | the informers and their handlers, `enqueue` and `enqueueOwner` |
| `Start`, `Crash` | `observe` up to the worker's start; the death of the process |
| `UserCreate/Edit/Delete`, `MeddleDeployment/Service` | other clients of the API server (external) |
| `CollectDeployment`, `DeploymentReady` | garbage collector and deployment controller (external); no Service is ever left to collect (`ServiceCleanedBeforeGone`) |

Uids number the Websites of the name in order of creation. `gen` is
`metadata.generation`, `obs` is `status.observedGeneration`. A resource version
is modelled by what it is compared for: `moved` is set when the Website changes
after the Get a pending Update is based on. A *bad* spec is one the API server
refuses a Deployment for, the case the comment on `siteLabels` describes.

Assumed of the environment: ours is the only finalizer, and only the controller
adds or removes it; a list returns what is there; events of one kind arrive in
order; the API server refuses a second controller among the owners of an object
and an update based on an old version. Not modelled here: fields of a child
other than "made from this spec", the immutable selector of an adopted
Deployment, conditions beyond the ready flag, Kubernetes events, and a call that
is applied though its answer is lost (the next call failing has the same effect).

### Leadership

`phase` is where a process is in `run` and `lead`; `observe`, which `lead` starts
in a goroutine of its own, and its worker's pass have their own variables,
because nobody waits for them. `patience`, `wait`, `due` and `answer` are the
elector's clocks; `Tick` passes one unit for all. A renewal is applied when it is
sent and answered up to `MaxDelay` later, or never. `PeriodsAssumption` asks that
a Lease outlives the deadline, a retry and a late answer. The program's 15, 10
and 2 seconds leave three for the answer; nothing in it bounds an answer, so the
assumption is one about the cluster. Identities are distinct (a host name and a
random suffix).

### The webhook

`WebhookLifecycle` has one action per call of `run`. An authority lives as long
as the process that minted it, so a registration is `Stale` when that process is
gone. The API server asks the webhook about two writes of the program's own: the
OwnerList it seeds, and the pod it runs in.

`Admission` has the pods of one namespace, possibly older than the rule, with a
protection, a skip label and perhaps a finalizer of somebody else; the list of
owners, edited and deleted by anybody; requests of the exempt user, whom the
match condition lets past the webhook and the policy (1061), and of everybody
else; and the end of the namespace, in which the namespace controller deletes and
the kubelet removes what nobody holds. On SIGTERM the program first stops
listening, with the configuration still there (`Stop`), and then takes it away
(`Unregister`); killed, or when that call fails, it leaves it behind (`Kill`). It
comes up again only where nothing is left behind and the namespace is not ending,
because the OwnerList it begins by writing is refused otherwise; what an operator
would clear away by hand is left out. Requests are atomic: `validate` reads the
pod it judges an eviction by from the API server, and a relabelling between that
read and the eviction is left out, as is a change of the list between the two
judges; so are sessions of `exec` and `attach`, which change nothing here.

`CertRotation` rotates at a tick or up to `MaxLate` after it, and minting fails
up to `MaxFails` times in a row. `Mutate` applies each JSON patch by the API
server's rules, with a webhook in between that adds containers and annotations,
and calls a second time when it changed something (`IfNeeded`). `RecordVerdict`
is get, create or update with its retries; `VerdictsKept` shows that to anyone
who reads the ConfigMap it is `VerdictLog`.

### kubectl

`GetWatch` numbers the changes to a collection; a list has the number it was
taken at, and a watch starts behind one. Objects come and go, are selected or
not, old versions are dropped, and a watch may end at any time. `Arguments` runs
the loop of `parseInterspersed` around the standard `flag` package, over every
command line up to a length; a value may be any word, also one that looks like
a flag, except that a flag that counts (`--replicas`) takes a number only and is
refused with any other word, like a flag that is unknown or lacks its value. Positions are counted (`Cardinality`) where the code appends, in the
statement of what is shown as in `Sorted`: that form can be reasoned about.

### Runner and Tester

`Runner` has a program that prints, forks into its group or out of it, heeds
SIGTERM or not; the kernel's pipe; the goroutine that copies; `cmd.Wait` with
its delay; and a stage that makes any sequence of calls. `Tester` has what
earlier runs and their programs, still at work, leave in the namespaces: objects
that finalizers hold, in a namespace that is ending or not. Any call of `reset`
may fail, applied or not: a list that fails is passed over with the finalizers it
had to show, a Get in the wait is asked again, and every other failure ends the
run.

### The three courses

`X_n` in a Snapshots module (and in `ControllerPasses`, `WebhookVerdicts`,
`KubectlCommands`) stands for one group of functions of snapshot *n*. A snapshot
is a whole program; where it leaves a group of functions as its predecessor had
it, `X_n == X_(n-1)`. This has been read off the programs group by group: the
functions of the group are the same but for comments, renamings and the
parameters other groups make necessary. `X[n]` is the group of snapshot *n*. A
Checks module has one script per stage function: deeds, waits and assertions in
the order of the code. A Stages module gives both their meaning. A behaviour is
one *grading*: a snapshot, a check and a cluster; in the webhook and the kubectl
course a grading is either `prompt`, when the cluster comes to rest between any
two words of the check, or not.

- A check's deadlines and sleeps have no length: a wait goes on until it holds,
  and one that never holds is a check that fails. Where a check bounds a count by
  a time (no more than forty retries in five seconds, stage 14) the script asks
  for what makes the difference: that failures go through the back-off.
- `ControllerStages` keeps the informer's store, its handlers and the worker
  apart, as client-go does, and makes each API call a step. `Burst`, the edits a
  check makes in a row, is 2 instead of 5 and 20, and `Lag` bounds how far the
  program is behind by one change; three Websites are the most a check makes.
- `WebhookStages` takes a request in one step, from the first webhook to
  storage, but separates what is registered (`hooks`) from what the API server's
  caches enforce (`heed`), and "serving" from listening. Left out: what earlier
  registrations leave in those caches, the delay of RBAC, the
  `timeoutSeconds` of a registration, and unregistering (a check kills).
- `KubectlStages` makes each call of a command a step while the scheduler and the
  kubelet take the seeded pods on. Lists come in any order. Field managers and
  other semantics of the API server are external.

### Several parts in one run

The parts of `MCWebhook` share no state, and neither do those of `MCHarness`,
`MCKubectl` and `MCStages`: a variable (`part`, `course`) chosen in the initial
state says whose steps a behaviour takes, and the others keep a first value. A
behaviour of the composition restricted to one part's variables is a behaviour
of that part, and every behaviour of a part is such a restriction, so what holds
there holds of each part alone. The fairness is that of the part that moves;
`MCStages` assumes less than its three modules do (below).

## Runs

| Run | Instance | What it shows |
|---|---|---|
| `worker_loop` | 3 keys, failures counted to 1 | `QueuedOnce`, `NeverDropped`, `BackoffIsCurrent`; `EachKeyAlone` (refinement of `OneKeyQueue` by every key); `HintsKept` (refinement of `KeyHints` with its fairness); `WorkerEnds` |
| `controller_mishaps` | 2 Websites of the name, two specs, 2 events in flight, 2 tries, one edit, meddling, failing call and crash | `HeldWhileApplying`, `FinalizeSparesTheLiving`, `ServiceCleanedBeforeGone`; `RestIsStable`; `ImplementsLife` (refinement of `WebsiteLife`) |
| `controller_liveness` | 2 Websites, a good and a bad spec, 2 events in flight, 2 tries; a failing call and a crash with an edit or a meddling, or an edit with a meddling | `Converges`, `DeletionCompletes` |
| `leadership` | 2 instances; a SIGTERM, a crash and an outage; periods 5, 2, 1 | `OneLeader`, `QuickHandover`, `SomeoneWorks`, `StopsWhenTold` |
| `webhook` | one process with two mishaps of each kind; one pod and two owners, a program that stops or is killed twice; rotation every 2 of 8 with late ticks; every small pod and patch; 3 handlers | the eleven properties of `WebhookLifecycle`, `Admission`, `CertRotation`, `Mutate` and `RecordVerdict` (refinement of `VerdictLog`) |
| `harness` | output above the cap and the pipe, 3 calls; 2 cases, 2 kinds, 3 runs, 2 objects of a program left behind, 2 failing calls | the runner's five and the tester's two properties |
| `kubectl` | 3 objects in 2 namespaces, 2 changes, every request; every command line of up to 5 words over a switch, a flag with any value, one with a number, an unknown one, two plain words, one of them a number, and "--" | `ScreenFollows`, `FlagsAnywhere` |
| `stages` | the gradings listed below | `NoneSkipsAhead`, `KeepsItsStages` |
| `status_of_old_spec` | users only | expected violation of `ObservedGenerationHonest` |
| `foreign_service` | two meddlings | expected violation of `ForeignServiceUntouched` |
| `webhook_restart` | one kill | expected violation of `ServesAgain` |
| `exec_flags` | command lines of up to 5 words | expected violation of `CommandKeptAway` |

### What `stages` finds

Of the controller every snapshot is graded by the check of its own stage and by
the next one, snapshot 7 by the checks 3 to 6, and the last one by eleven of the
checks before its own. Of the webhook
and the kubectl every snapshot is graded by every check up to the one after its
own, prompt or not.

`NoneSkipsAhead`: no snapshot passes the check of the stage after its own, with
two exceptions (`Untold`):

- the kubectl check 18 (`sort`) cannot tell a program that does not sort from a
  server that happened to answer in order;
- the controller check 20 (`conflict-retry`, `stages.go` 1187-1199) waits until
  `observedGeneration` has caught up with the last of its edits. Snapshot 19,
  which retries no conflict, passes it too: the 409 of its status update comes
  back from `reconcile` (181-186), the queue's back-off runs the pass again, and
  that one meets no edit.

`KeepsItsStages`: every snapshot passes the check of its stage and those before
(`web/src/content/docs/getting-started.md`, "passed stages 1..N"), in whatever
order program, cluster and check take their steps, but for races that a right
program can lose:

- controller: check 4 may read a line the handlers have yet to print, since
  `HasSynced` speaks of the store; check 6 counts passes against events, and from
  snapshot 22 on a child's event makes a pass too; in check 10 the adoption of
  snapshots 10 to 13 meets the Deployment controller's report, and the pass is
  not tried again;
- webhook, when not prompt: the checks 3, 6, 13 to 19, 21 to 24, and 25 with
  snapshot 26, ask once, and may ask before the API server enforces what it has
  stored or before the program that said "serving" listens;
- kubectl, when not prompt: check 19 starts the watch and creates the pod
  without knowing that the watch is there; 27 waits for a pod with a node where
  its comment (`internal/kube/kube.go:338`) speaks of "a node and at least one
  event"; 28 and 30 ask a container that runs and has not printed or does not
  listen yet.

Two more races show in the model and no property names them: in check 5 the last
wait is met by what came before it; "shutting down" is printed by a goroutine
that may lose to the return of `main`.

### Bounds

Three keys are the least for which one key may overtake another behind a third.
Two Websites of one name are the least for which the cache may speak of one and
the API server hold another; two events in flight let a deletion and a creation
both be pending when a relist skips them (`MaxLag` bounds only what users do
while the watch is behind). Two tries of `RetryOnConflict` show both a retry and
giving up. One mishap of each kind, at every point where it can happen, covers
every single failure and every combination of different ones. Liveness takes
longer to check: `controller_liveness` has a failing call and a crash with an edit
or with a meddling, and these two with each other, but not all four, each time
with Websites deleted and created again and a watch that misses it. Its bad spec,
which the API server refuses, is what `controller_mishaps` replaces by a second
good one, since only there does it matter which of two specs a pass has applied.
Two instances and
one mishap of each kind show every way a Lease changes hands. The clocks of
`CertRotation` run past the authority's end. Five words are the least in which a
"--", a switch, a flag with its value and a plain word stand in any order. Two
changes let one fall between list and watch and one behind it. Three runs of the
tester let what the first left meet what the second makes. `Lasting` (10) is
above the generations and events of any script and `MostReplicas` (5) above any
number of replicas. The proofs lift the bounds for the theorems below.

### Fairness

`WF(Worker)`: one goroutine loops over `processNext` and its API calls return,
with an answer or an error. `WF` of each timer, each delivery, the garbage
collector and the deployment controller: they run on their own. `WF(Start)`: the
container is restarted. In `Leadership` time passes and the elector's loops run;
in `WebhookLifecycle` the main goroutine goes on and a process that has ended is
started again; in `Admission` the namespace controller and the kubelet keep trying,
and a program that has stopped listening goes on to unregister; that it comes up
again is not assumed. In `Runner`
programs print and read pipes are copied, and a program that was not told to
stop ends; no fairness makes one heed SIGTERM. In `Tester` objects that
no finalizer holds and namespaces that are empty go, and the tester goes on.

`MCStages` has four conditions: the check goes on; the program (the worker, or
the webhook's main goroutine and handlers) goes on; what is around it, taken
together, goes on; and the controller's timers, taken together, fire. One
condition for several is weaker than one for each: it never promises that a
particular one of them acts, only that something does. It is enough because each
of them runs out of things to do. The kubectl program, its check and its cluster
are one condition for the same reason.

Users, meddlers, failing calls, relists and crashes have no fairness, and are
bounded, so that the liveness properties speak of what happens once they stop.
No strong fairness is used. Runs set `CHECK_DEADLOCK FALSE` where the system
really stops: a name nobody uses, a budget that is spent, a check with a
verdict, a program that has ended.

The operators whose comment begins *A slip* are not used by the specifications:
each is a plausible mistake in the operator that follows it, and putting it in
its place breaks the property that `PROJECT.json` pairs it with.

## Proofs

All are for every value of the constants that satisfies the named assumptions,
each of which TLC evaluates on the run of its module: constants of the right
kind, model values distinct from each other and from the data they stand beside
(`NoPod` is no pod, `Refused` no pod, `Nothing` no verdict, a "--" no flag), and
beyond that only

- `PeriodsAssumption` (`AtMostOneLeads`): a Lease outlives the deadline, a retry
  and a late answer;
- in `CertAssumption` (`ServedLeavesTrusted`): a leaf outlives the rotations that
  may fail in a row and the lateness of a tick.

There is no induction over the natural numbers among what the provers can use.
Where a definition is recursive (the loop of `mutate`, the words of a command
line) or a list is built step by step, the proofs take the least number for
which the claim fails (`NatLessThanWellFounded`, lemma `Least`) and refute it
from the number before.

Some theorems are about what no run checks any more, having given its place to
a deeper property (the types of `ProcessNext`, `Leadership` and
`WebhookLifecycle`, `NoLostUpdate`, `ForeignDeploymentUntouched`), and six are
the part of a liveness property that is safety (*Liveness* below). TLC has found
each of them to hold on the instance of its module's run.

`ProcessNextProofs`: type correctness, `QueuedOnce`, `NeverDropped`, and that
`ProcessNext` implements the safety part of `KeyHints`. The invariant adds to
the properties where the worker's key is, that its key is scheduled before
`Done` is called, and that the unanswered calls are exactly the queue's dirty
keys. `BackoffIsCurrent` needs one part more (`BackoffFollows`): the count
follows the last pass for every key but the one the worker has yet to forget or
to add again, and that one moves on before any other pass begins.
`RateLimitingQueueProofs` has the facts about each queue operation that this
rests on.

`EachKeyAlone` relates two models: `Controller` has one key and ends a pass in one
step, the program has many and ends it in three calls, between which handlers and
timers call the queue. The mapping takes the key's share of each set of the
queue, and of the list the key itself if it is in it. To the key its pass ends
with `AddAfter` or `AddRateLimited`; while `Done` is still to come it is seen as
handed in already, not in processing, and queued if it is dirty, so that an
`Add` that falls in between is seen to queue it. The count of failures is left
out (`BackoffIsCurrent` is about it). The proof goes call by call; a call for
another key is a stutter, because no operation of the queue touches a key that
it is not for.

`ControllerProofs`: type correctness, `HeldWhileApplying`,
`FinalizeSparesTheLiving`, `ServiceCleanedBeforeGone`, `NoLostUpdate`,
`ForeignDeploymentUntouched`, `RestIsStable` and the refinement of
`WebsiteLife`. The question is why a controller that acts on a cache of any age
acts on the right Website. None of the first three properties is inductive: they
speak of the pass, and the pass believes what the cache said. The invariant
therefore speaks of all *versions* the controller has yet to act on, the cached
one and those on their way (`CacheSound`):

- a version that is held and not deleted is of the Website that is there
  (`HeldStays`): only this controller lets a held Website go, and only on a
  deleted version;
- a deleted version of a Website that is no longer there has nothing before it
  but deleted versions of that Website (`LetGoKnowingly`);
- a deleted version of the Website that is there has nothing after it but
  deleted versions of that Website (`DeletionStays`);
- while a Website is held there is no deletion of another one to be heard
  (`OneAtATime`): the finalizer is added only by a pass that read a version
  which is not deleted, so every deletion before it had been heard.

`PassSound` carries this through a pass from the Lookup to its last call. The
lemmas follow the steps: what a write, a delivery and a listing do to the
versions; then each action of the worker; then the rest.

That `Controller` implements `WebsiteLife` (`ActsOnWhatIsAsked`) comes of the same
invariant. The abstract controller has no cache, queue, pass, retry or crash: it
holds a Website that is not being deleted, makes children for one that is held,
reports, takes the Service of one that is being deleted, and lets it go when no
Website's Service is left. A pass may rest on an old version, so a child may be
made from a spec that has been edited since, or for a Website paused since:
`status_of_old_spec` shows one. What `WebsiteLife` allows of this is what it
remembers. `asked` has the specs this very Website has asked for, unpaused and not
being deleted: the current one always, an older one until it is forgotten, after
which it does not come back, and none of an earlier Website's. A child is made
from one of these and a status is written only while there is one; `shown` has the
readiness that may still be reported in the same way. The mapping is the objects
themselves, `asked` the specs of the versions that are cached, in a pass or in
flight (`Versions`), and `shown` what the Deployment shows and what the pass has
read of it (`Readings`). So the proof is that each call of a pass, whatever version
the pass began with, is one of these acts at the moment it reaches the API server,
or changes nothing, and that nothing but what the Website asks for is added to the
memory. `HeldWhileApplying` gives the guard of making a child, `FinalizeSparesTheLiving`
that of cleaning up, and the optimistic lock (`UpdatingSound`) that of the
updates. One fact is added (`AdoptSound`): between `ownedByUs` and the Apply the
Deployment does not come to belong to another Website; another (`AskedSound`) that
a pass that applies or reports holds an unpaused version of the Website that is
there. The second half of
`ImplementsLife` says that only the controller's steps are its acts. That it
never writes a Deployment that something else controls
(`ForeignDeploymentUntouched`) follows from the guard of `MakeDeployment` and is
a theorem of its own, without a run; so is `NoLostUpdate`, that an Update of the
controller keeps what was written since its Get.

`RestIsStable` is the "stay so" of `Converges`, and that the controller does not
feed itself: every pass writes the status, every change of the Website asks for
a pass, and it ends only because a write that changes nothing is no news. At
rest (`AtRest`) the pass, the cache and what is on its way all speak of the
Website as it is, so that each call of a pass finds what it would write.

`LeadershipProofs`: type correctness and `OneLeader` for any number of
instances. Two instances may lead only if one took the Lease while the other
believed in it; the invariant says that an instance that leads is the holder
until its deadline can have passed, and that every other instance's patience
lasts longer than the leader's deadline with its retry and a late answer, which
is what `PeriodsAssumption` buys. `QuickHandover` has an invariant of its own
(`CalmInv`): as long as nothing but SIGTERM has disturbed the instances, the
Lease is with a leader or with nobody, and while it is with nobody the pause a
standby has left plus the time the Lease has been free is at most one pause.

`WebhookLifecycleProofs`: type correctness; `RegisteredAfterPolicy` for any
number of processes, from what each has installed by the phase it is in; and
`ListenerIsRegistered` for one process at a time, from what it has registered by
then.

`WebhookProofs`, about `WebhookSpec`; a step of the composition is a step or a
stutter of each part (`PartSteps`).

- Admission: `JudgedPodsAreOwned` and `ProtectedStays`, for any pods and owners,
  the second as long as the configuration is there, whoever serves it, and but for
  the exempt user: what unregisters on SIGTERM leaves a protected pod to the policy,
  which has no rule about deletes.
  The first is inductive with the types (`AInv`): whoever writes under the rule
  writes an owner, and everything else that touches a pod keeps the one it has.
- Certificates: `ServedLeafTrusted`. The invariant (`CInv`) counts from the last
  tick at which a leaf was minted: the next tick is due `fails + 1` periods after
  it, so the leaf outlives the failures there may be.
- Verdicts: `VerdictsKept` whole, that is `SuccessIsWritten` and, step by step,
  the refinement of `VerdictLog`: the call that writes is `Record`, the call that
  fails for good is `GiveUp`, and the others are stutters (`RInv`: a handler
  holds a verdict exactly while it has calls to make for it).
- Mutation: `StoredAsPromised`, `PatchesFit` and `SecondPassChangesNothing`, for
  lists of containers of any length. `ApplyOneMore` lets a patch be applied op by
  op; `OneTurn` and `LoopIsApplied` show that the loop over the containers gives
  each of them the CPU request it lacks and has no op without its place;
  `PatchIsApplied` says in one expression what `mutate` makes of a pod
  (`Mutated`), `MutatedIsPromised` that this is what it promises, and
  `NothingToAdd` that a pod as promised gets an empty patch. With these the
  invariant (`MInv`) is short: between a call that was answered and the next
  change by somebody else the pod is as promised.

`HarnessProofs`, about `HarnessSpec`: `JudgedCleanly` for any number of cases,
kinds and runs (`TInv`: a stage's namespace is active and of its own run from
`Begin` to its verdict, since what goes on in the cluster takes no active
namespace away); and of the runner `ResultCarriesOutput`, `AnswersAgree` and
`GroupIsGone` for any sizes of pipe, cap and output (`TakenExitsAreKept` is the
second: a record never changes and later calls of `Stop` and `Kill` answer with it;
that `Exited` does not is below). `HInv` follows the output
from pipe to record (`Copied`), the one exit from channel to record (`ToldOnce`),
and the group that a call waits for after its kill (`Hit`).

`KubectlProofs`, about `KubectlSpec`. `FlagsAnywhere` for any set of flags and
command lines of any length: `ReadSoFar` says of the words read so far that they
have been given the meaning a reader of the whole line would give them, and
`FlagsAreRead` that this meaning, recursive as it is (a flag's value may look
like a flag), is well defined. `ScreenFollows` for any objects and any number of
changes: the list is what was selected at its version, the table is that list in
order (`CanBeSorted`: a finite set of rows has an order), and the stream has the
changes since that concern the request; the past stays as it was (`PastStays`).

### Liveness

TLAPS does not reason about fairness, so the liveness properties stay with TLC.
What they rest on besides the scheduling can be proved: that whoever has to act
gets nearer to the end with each step, and that nobody else puts it off. With
these theorems what is left to believe of a large instance is that the goroutine
in question is scheduled and has a step to take.

| Checked by TLC | Proved for every instance |
|---|---|
| `WorkerEnds` | `DrainsDown`: after the shutdown every step of the worker lessens what it has before it (five steps for each queued key and for the one in hand if it is dirty), and no other step adds to it |
| `Converges`, `DeletionCompletes` | `PassesEnd`: a pass ends in at most eight steps and two for each further try on a conflict; `RestIsStable` |
| `StopsWhenTold` of the controller | `StopsSoon`: an instance that was told to stop has at most four steps left |
| `StopsWhenTold` of the webhook | `StopsSoon`: a process that was told to stop has at most four calls left |
| `EveryCallReturns` | `CallsRunOut`: the exit a call waits for is to come or in the channel; with the program gone each step brings the return nearer (`Heard`, `NearerStep`) |
| `BeginSucceeds` | `NothingWedges`: what is held in a namespace under `clearFinalizers` is of a kind still to be listed or just found (`Emptied`), so that the wait and the creation have no reason to fail, unless a call did |

Nothing is proved of the rest of `HintsKept` and of `SomeoneWorks`,
`NamespaceEmpties` and `NeverHeldUp`. Also only model-checked are `NoneSkipsAhead`
and `KeepsItsStages`, which speak of 84 given programs and 84 given checks:
there is no constant to generalise over, and the run takes every case.

## What the code does otherwise than its docs say

Four are runs and findings:

- `observedGeneration` is the generation just read, and not that of the spec
  the pass applied (`status_of_old_spec`; controller, line 365).
- `finalize` deletes a Service that another controller owns
  (`foreign_service`; controller, line 830).
- A webhook that is killed cannot start again: its first write is judged by the
  registration it left behind (`webhook_restart`; webhook, line 231).
- The flags of a command behind `--` are read as the program's own
  (`exec_flags`; kubectl, line 165).

These follow from the models too. Where a definition is named, it states what
the program does not keep; TLC finds the counterexample when that definition is
given as the property of the component's run.

| Definition | What happens |
|---|---|
| `Controller!GoneKeyCostsNothing` | `reconcile` returns nil for a key that is gone, and `processNext` adds it again: a name ever used is reconciled every ten seconds for ever (264 after 289) |
| `Leadership!WorkInHandFinished` | on SIGTERM nobody waits for the worker: the Lease is given back, and the process exits, in the middle of a pass (231) |
| `Leadership!ExitsCleanly` | a SIGTERM while the CRD is being installed ends the process with an error |
| `WebhookLifecycle!NothingLeftBehind` | a SIGTERM between the first registration and the deferral of `unregister` leaves the registration behind, and so does a failing `registerMutating` (235) |
| `ProtectedStays` without the configuration | between the program's end and its next start a protected pod can be deleted by anybody (241, 1196); the policy, "the same verdict as decide(), reached without ... a program that can be down" (256), judges no deletes |
| `WebhookLifecycle!VerdictsRecorded` | `run` returns without waiting for `Shutdown`, and with it go the handlers that have answered and not recorded (163) |
| `Admission!ListsKeepNamespaceOpen` | a list with the empty owner alone is accepted: the policy wants what the webhook refuses, and every write is denied (689) |
| `CertRotation!BundleNeverExpires` | the authority lasts a day and nothing renews it |
| `Runner!ExitedIsFinal` | the first `Exited` takes the exit from its channel; a second says the program runs (`internal/runner/run.go:193`); no stage asks twice after a yes |
| `Tester!StageEnds` | a stage's timeout is not passed on to what it waits for: a fixture that never comes up holds the run |
| `ListenerIsRegistered` with `Overlap` | of two processes the one that comes last takes over the registration while the other listens, and either unregisters both |
| `NamespaceEmpties` without its two exceptions | a pod with a finalizer that predates the rule cannot be updated, so its finalizer stays and the namespace with it; and a configuration left behind by a kill refuses every delete, also in a namespace that is ending |
| `ScreenFollows` for `get pod x -w` | one object is fetched without a version of the list: the watch begins with every object of the namespace, under no name (303) |

An expired watch ends the stream with exit 0 (kubectl, line 335 skips the
error), and by name `-o json` prints a list without a kind.

## Not modelled

- `internal/course` and `internal/learn` read a course description and the
  Markdown of a lesson: data, text and parsing, no state between two calls.
- `web/gen` writes pages from the same data; its line diff decides nothing in
  the programs. `courses/*/app` are programs that do nothing yet.
- `hack/` runs the tester over every snapshot: the question it asks is what the
  run `stages` asks of the models.
- `internal/cluster` and `cmd/byok8s` run kind, docker and the go tool.
- Formatting, the wording of messages beyond what a check looks for, the widths
  of columns, schemas beyond what a check tries, the numbers behind `/metrics`.
- In the controller the status conditions and the labels beyond what the checks
  read; in the webhook the reads `validate` makes between which objects may
  change; in the kubectl what `logs -f` prints and a Ctrl-C.
- `removeCRD` of the controller's checks strips the finalizers of the Websites
  in every namespace; the models have one namespace, so two testers that run at
  the same time and disturb each other are left out.

## What is left

`HeldWhileApplying` and the others for any number of names: `EachKeyAlone` is
the half of the argument that concerns the queue, and the other half, that a
call of a pass names only objects of its own key, is read off the code.
