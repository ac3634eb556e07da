----------------------------- MODULE Controller -----------------------------
(***************************************************************************)
(* The Website controller at one name of one namespace: the API server's   *)
(* objects of that name (a Website, which may be deleted and created       *)
(* again under a new uid, its Deployment and its Service), the informer    *)
(* cache that lags behind them, the work queue, and the worker that        *)
(* reconciles the key of that name, one API call a step.  Users and other  *)
(* controllers act between any two steps; an API call may fail; the        *)
(* process may die and be started again.                                   *)
(***************************************************************************)
EXTENDS RateLimitingQueue

CONSTANTS Key,           \* namespace/name of the Website, the one key there is
          Specs,         \* the specs a user may ask for
          BadSpecs,      \* those the API server refuses to make a child of
          Drift,         \* the spec of a Deployment nobody here asked for
          NoSite,        \* no Website of that name
          NoChild,       \* no child of that name
          NoOwner,       \* the controller of a child that has none
          Foreign,       \* the controller of a child owned by something else
          MaxSites,      \* bound: how many Websites are created
          MaxLag,        \* bound: the watch events in flight when users act
          Attempts,      \* the tries of RetryOnConflict
          Budgets        \* bound: how often each kind of mishap happens, by choice

Kinds == {"edit", "meddle", "fault", "crash"}

Uids == 1..MaxSites

Sites == [ uid : Uids, gen : Nat, spec : Specs, del : BOOLEAN, fin : BOOLEAN,
           paused : BOOLEAN, obs : Nat, ready : BOOLEAN ]

\* What reconcile reads of a Website in the cache.
Views == [ uid : Uids, spec : Specs, del : BOOLEAN, fin : BOOLEAN, paused : BOOLEAN ]

Deployments == [ ctl   : Uids \cup {NoOwner, Foreign},
                 spec  : Specs \cup {Drift},
                 ready : BOOLEAN ]

ASSUME ControllerAssumption ==
  /\ Keys = {Key}
  /\ MaxSites \in Nat /\ MaxLag \in Nat /\ Attempts \in Nat \ {0}
  /\ Budgets \subseteq [Kinds -> Nat]
  /\ BadSpecs \subseteq Specs
  /\ Drift \notin Specs
  /\ NoSite \notin Sites \cup Views
  /\ NoChild \notin Deployments \cup Uids \cup {NoOwner, Foreign}
  /\ NoOwner # Foreign /\ NoOwner \notin Uids /\ Foreign \notin Uids

VARIABLES site,       \* the Website in the API server, or NoSite
          dep,        \* its Deployment, or NoChild
          svc,        \* the controller of its Service, or NoChild
          cache,      \* the Website in the informer's store
          stream,     \* the watch events not delivered to it yet
          childNews,  \* whether an event of an owned Deployment is in flight
          q,          \* the work queue
          pc,         \* where the worker is; "down" when no process runs
          seen,       \* the Website the pass took from the cache
          read,       \* the Website the update in progress is based on
          moved,      \* whether the Website has changed since that read
          tries,      \* the conflicts RetryOnConflict has met
          depReady,   \* writeStatus's reading of the Deployment
          created,    \* how many Websites have been created
          left        \* what is left of the budget

clusterVars == << site, dep, svc >>
watchVars   == << cache, stream, childNews >>
passVars    == << seen, read, moved, tries, depReady >>
boundVars   == << created, left >>
vars == << clusterVars, watchVars, q, pc, passVars, boundVars >>

-----------------------------------------------------------------------------
(* The API server *)

View(s) ==
  IF s = NoSite THEN NoSite
  ELSE [uid |-> s.uid, spec |-> s.spec, del |-> s.del, fin |-> s.fin, paused |-> s.paused]

\* A write of the Website: the watch, if a process runs one, will tell of it,
\* unless it changes nothing, as the writes of a pass with nothing to do.
SiteBecomes(s) ==
  /\ site' = s
  /\ stream' = IF s = site \/ pc = "down" THEN stream ELSE Append(stream, View(s))

OfWebsite(d) == d # NoChild /\ d.ctl \in Uids

\* enqueueOwner heeds the children whose controller is a Website.  The
\* object of an event is the new one, and the last one if it was deleted.
DepBecomes(d) ==
  /\ dep' = d
  /\ childNews' = \/ childNews
                  \/ pc # "down" /\ d # dep
                     /\ OfWebsite(IF d = NoChild THEN dep ELSE d)

\* A slip: the owner reference does not say that it is the controller's.
OwnerRefIsPlain == FALSE

\* An object may have one controller.  An apply that adds ours to an object
\* that has another one is refused; a reference this field manager set for
\* an earlier Website is replaced.
OwnerRefIsController == TRUE

MayClaim(ctl) == ctl # Foreign \/ ~OwnerRefIsController

\* Optimistic concurrency: an update based on an older version is refused.
Conflict == moved

Spend(kind) == left[kind] > 0 /\ left' = [left EXCEPT ![kind] = @ - 1]

-----------------------------------------------------------------------------
(* The worker: processNext and reconcile *)

EndPass(step) ==
  /\ pc' = step
  /\ seen' = NoSite
  /\ read' = NoSite
  /\ moved' = FALSE
  /\ tries' = 0
  /\ depReady' = FALSE

Goto(step) == pc' = step /\ UNCHANGED passVars

TakeKey ==
  /\ pc = "idle"
  /\ CanGet(q)
  /\ q' = Get(q)
  /\ Goto("lookup")
  /\ UNCHANGED << clusterVars, watchVars, boundVars >>

\* Slips: the finalizer is not waited for; a paused Website is let go; it is
\* let go before the clean-up; a pause is honoured before a deletion; a pause
\* is not honoured.
BranchUnheld(s) ==
  IF s.del THEN IF s.fin THEN "finDelete" ELSE "ok"
  ELSE IF s.paused THEN "ok"
  ELSE "depGet"

BranchPausedGoes(s) ==
  IF s.del \/ s.paused THEN IF s.fin THEN "finDelete" ELSE "ok"
  ELSE IF ~s.fin THEN "addGet"
  ELSE "depGet"

BranchLetsGo(s) ==
  IF s.del THEN IF s.fin THEN "finGet" ELSE "ok"
  ELSE IF ~s.fin THEN "addGet"
  ELSE IF s.paused THEN "ok"
  ELSE "depGet"

BranchPausedFirst(s) ==
  IF s.paused THEN "ok"
  ELSE IF s.del THEN IF s.fin THEN "finDelete" ELSE "ok"
  ELSE IF ~s.fin THEN "addGet"
  ELSE "depGet"

BranchNeverPauses(s) ==
  IF s.del THEN IF s.fin THEN "finDelete" ELSE "ok"
  ELSE IF ~s.fin THEN "addGet"
  ELSE "depGet"

\* The branch reconcile takes on a Website found in the cache.
Branch(s) ==
  IF s.del THEN IF s.fin THEN "finDelete" ELSE "ok"
  ELSE IF ~s.fin THEN "addGet"
  ELSE IF s.paused THEN "ok"
  ELSE "depGet"

Lookup ==
  /\ pc = "lookup"
  /\ \/ /\ cache = NoSite
        /\ EndPass("ok")
     \/ /\ cache # NoSite
        /\ Branch(cache) = "ok"
        /\ EndPass("ok")
     \/ /\ cache # NoSite
        /\ Branch(cache) # "ok"
        /\ pc' = Branch(cache)
        /\ seen' = cache
        /\ UNCHANGED << read, moved, tries, depReady >>
  /\ UNCHANGED << clusterVars, watchVars, q, boundVars >>

\* The Get that begins a read-change-write of the Website; a Website that is
\* not found ends the pass without an error.
ReadFor(step) ==
  \/ /\ site = NoSite
     /\ EndPass("ok")
  \/ /\ site # NoSite
     /\ pc' = step
     /\ read' = site
     /\ moved' = FALSE
     /\ UNCHANGED << seen, tries, depReady >>

\* A slip: one try too many.
TriesLeftStill == tries < Attempts

\* RetryOnConflict: read again, up to Attempts tries in all.
TriesLeft == tries + 1 < Attempts

\* A slip: the object that was refused is sent again, with the newest version.
ResendFrom(step) ==
  IF TriesLeft
    THEN /\ tries' = tries + 1
         /\ moved' = FALSE
         /\ UNCHANGED << pc, seen, read, depReady >>
    ELSE EndPass("failed")

RetryFrom(step) ==
  IF TriesLeft
    THEN /\ pc' = step
         /\ tries' = tries + 1
         /\ read' = NoSite
         /\ moved' = FALSE
         /\ UNCHANGED << seen, depReady >>
    ELSE EndPass("failed")

AddFinalizerGet ==
  /\ pc = "addGet"
  /\ IF site # NoSite /\ site.fin THEN EndPass("ok") ELSE ReadFor("addUpdate")
  /\ UNCHANGED << clusterVars, watchVars, q, boundVars >>

\* A Website being deleted without our finalizer is already gone, so the
\* update of a Website that is there never adds a finalizer too late.
AddFinalizerUpdate ==
  /\ pc = "addUpdate"
  /\ \/ /\ site = NoSite
        /\ EndPass("ok")
        /\ UNCHANGED << site, stream >>
     \/ /\ site # NoSite
        /\ Conflict
        /\ RetryFrom("addGet")
        /\ UNCHANGED << site, stream >>
     \/ /\ site # NoSite
        /\ ~Conflict
        /\ SiteBecomes([read EXCEPT !.fin = TRUE])
        /\ EndPass("ok")
  /\ UNCHANGED << dep, svc, cache, childNews, q, boundVars >>

\* ownedByUs.
DeploymentOwner ==
  /\ pc = "depGet"
  /\ IF dep = NoChild \/ dep.ctl \in {NoOwner, seen.uid}
       THEN Goto("depApply")
       ELSE EndPass("failed")
  /\ UNCHANGED << clusterVars, watchVars, q, boundVars >>

\* The rest of ensureDeployment.  A changed spec may leave the Deployment
\* short of ready replicas, and does not at once.
DeploymentApply ==
  /\ pc = "depApply"
  /\ \/ /\ seen.spec \in BadSpecs \/ (dep # NoChild /\ ~MayClaim(dep.ctl))
        /\ EndPass("failed")
        /\ UNCHANGED << dep, childNews >>
     \/ /\ seen.spec \notin BadSpecs
        /\ dep # NoChild => MayClaim(dep.ctl)
        /\ \E r \in IF dep = NoChild THEN {FALSE}
                    ELSE IF dep.spec = seen.spec THEN {dep.ready}
                    ELSE {FALSE, dep.ready} :
             DepBecomes([ctl |-> seen.uid, spec |-> seen.spec, ready |-> r])
        /\ Goto("svcApply")
  /\ UNCHANGED << site, svc, cache, stream, q, boundVars >>

\* ensureService.
ServiceApply ==
  /\ pc = "svcApply"
  /\ IF svc # NoChild /\ ~MayClaim(svc)
       THEN EndPass("failed") /\ UNCHANGED svc
       ELSE Goto("statusDep") /\ svc' = seen.uid
  /\ UNCHANGED << site, dep, watchVars, q, boundVars >>

StatusDeployment ==
  /\ pc = "statusDep"
  /\ pc' = "statusGet"
  /\ depReady' = (dep # NoChild /\ dep.ready)
  /\ UNCHANGED << seen, read, moved, tries >>
  /\ UNCHANGED << clusterVars, watchVars, q, boundVars >>

StatusGet ==
  /\ pc = "statusGet"
  /\ ReadFor("statusUpdate")
  /\ UNCHANGED << clusterVars, watchVars, q, boundVars >>

\* A slip: the condition carries the time of the pass, so that each write is news.
ReadyConditionTimed ==
  /\ site' = [site EXCEPT !.obs = read.gen, !.ready = depReady]
  /\ stream' = Append(stream, View(site))

\* The condition's time changes only with the answer.
SetReadyCondition == SiteBecomes([site EXCEPT !.obs = read.gen, !.ready = depReady])

\* UpdateStatus writes nothing but the status.
StatusUpdate ==
  /\ pc = "statusUpdate"
  /\ \/ /\ site = NoSite
        /\ EndPass("ok")
        /\ UNCHANGED << site, stream >>
     \/ /\ site # NoSite
        /\ Conflict
        /\ RetryFrom("statusGet")
        /\ UNCHANGED << site, stream >>
     \/ /\ site # NoSite
        /\ ~Conflict
        /\ SetReadyCondition
        /\ EndPass("ok")
  /\ UNCHANGED << dep, svc, cache, childNews, q, boundVars >>

\* finalize: the Service of that name first.
FinalizeDelete ==
  /\ pc = "finDelete"
  /\ svc' = NoChild
  /\ Goto("finGet")
  /\ UNCHANGED << site, dep, watchVars, q, boundVars >>

FinalizeGet ==
  /\ pc = "finGet"
  /\ ReadFor("finUpdate")
  /\ UNCHANGED << clusterVars, watchVars, q, boundVars >>

\* Then our finalizer, which is the last one: the Website goes with it.  No
\* retry here; neither a conflict nor a missing Website is forgiven.
FinalizeUpdate ==
  /\ pc = "finUpdate"
  /\ IF site = NoSite \/ Conflict
       THEN EndPass("failed") /\ UNCHANGED << site, stream >>
       ELSE /\ SiteBecomes(IF read.del THEN NoSite ELSE [read EXCEPT !.fin = FALSE])
            /\ EndPass("ok")
  /\ UNCHANGED << dep, svc, cache, childNews, q, boundVars >>

\* A slip: a pass that succeeds is taken to be the last.
PassOkForGood ==
  /\ pc = "ok"
  /\ q' = Done(Forget(q, Key), Key)
  /\ Goto("idle")
  /\ UNCHANGED << clusterVars, watchVars, boundVars >>

\* processNext's tail after a nil error, and after an error.
PassOk ==
  /\ pc = "ok"
  /\ q' = Done(AddAfter(Forget(q, Key), Key), Key)
  /\ Goto("idle")
  /\ UNCHANGED << clusterVars, watchVars, boundVars >>

PassFailed ==
  /\ pc = "failed"
  /\ q' = Done(AddRateLimited(q, Key), Key)
  /\ Goto("idle")
  /\ UNCHANGED << clusterVars, watchVars, boundVars >>

ApiSteps == {"addGet", "addUpdate", "depGet", "depApply", "svcApply", "statusDep",
             "statusGet", "statusUpdate", "finDelete", "finGet", "finUpdate"}

\* Any call to the API server may come back with an error.
ApiError ==
  /\ pc \in ApiSteps
  /\ Spend("fault")
  /\ EndPass("failed")
  /\ UNCHANGED << clusterVars, watchVars, q, created >>

Worker == \/ TakeKey \/ Lookup \/ PassOk \/ PassFailed
          \/ AddFinalizerGet \/ AddFinalizerUpdate
          \/ DeploymentOwner \/ DeploymentApply \/ ServiceApply
          \/ StatusDeployment \/ StatusGet \/ StatusUpdate
          \/ FinalizeDelete \/ FinalizeGet \/ FinalizeUpdate

-----------------------------------------------------------------------------
(* The informers and the timer *)

DeliverSite ==
  /\ stream # << >>
  /\ cache' = Head(stream)
  /\ stream' = Tail(stream)
  /\ q' = Add(q, Key)
  /\ UNCHANGED << clusterVars, childNews, pc, passVars, boundVars >>

\* The watch broke and the reflector listed anew: the store jumps to what is
\* there now and the versions in between are never seen.
Relist ==
  /\ Len(stream) > 1
  /\ cache' = View(site)
  /\ stream' = << >>
  /\ q' = IF cache = NoSite /\ site = NoSite THEN q ELSE Add(q, Key)
  /\ UNCHANGED << clusterVars, childNews, pc, passVars, boundVars >>

DeliverChild ==
  /\ childNews
  /\ childNews' = FALSE
  /\ q' = Add(q, Key)
  /\ UNCHANGED << clusterVars, cache, stream, pc, passVars, boundVars >>

TimerFires ==
  /\ Key \in q.waiting
  /\ q' = Fire(q, Key)
  /\ UNCHANGED << clusterVars, watchVars, pc, passVars, boundVars >>

Crash ==
  /\ pc # "down"
  /\ Spend("crash")
  /\ EndPass("down")
  /\ cache' = NoSite
  /\ stream' = << >>
  /\ childNews' = FALSE
  /\ q' = EmptyQueue
  /\ UNCHANGED << clusterVars, created >>

\* observe: the informers list, the handlers Add what was listed, and the
\* worker starts only once the stores are filled.
Start ==
  /\ pc = "down"
  /\ pc' = "idle"
  /\ cache' = View(site)
  /\ q' = IF site # NoSite \/ OfWebsite(dep) THEN Add(q, Key) ELSE q
  /\ UNCHANGED << clusterVars, stream, childNews, passVars, boundVars >>

-----------------------------------------------------------------------------
(* The rest of the cluster *)

UserMay == Len(stream) < MaxLag

\* The Website changes under whatever update the worker has in hand.
UserWrites(s) ==
  /\ UserMay
  /\ SiteBecomes(s)
  /\ moved' = (read # NoSite)
  /\ UNCHANGED << dep, svc, cache, childNews, q, pc, seen, read, tries, depReady >>

UserCreate ==
  /\ site = NoSite
  /\ created < MaxSites
  /\ created' = created + 1
  /\ \E sp \in Specs :
       UserWrites([uid |-> created + 1, gen |-> 1, spec |-> sp, del |-> FALSE,
                   fin |-> FALSE, paused |-> FALSE, obs |-> 0, ready |-> FALSE])
  /\ UNCHANGED left

UserEdit ==
  /\ site # NoSite
  /\ Spend("edit")
  /\ \/ \E sp \in Specs \ {site.spec} :
          UserWrites([site EXCEPT !.spec = sp, !.gen = @ + 1])
     \/ UserWrites([site EXCEPT !.paused = ~@])
  /\ UNCHANGED created

\* A Website nobody holds goes at once; one with a finalizer is marked.
UserDelete ==
  /\ site # NoSite
  /\ ~site.del
  /\ UserWrites(IF site.fin THEN [site EXCEPT !.del = TRUE, !.gen = @ + 1] ELSE NoSite)
  /\ UNCHANGED boundVars

\* Somebody else edits, deletes or creates a Deployment of that name.
MeddleDeployment ==
  /\ Spend("meddle")
  /\ \E d \in IF dep = NoChild
                THEN [ctl : {NoOwner, Foreign}, spec : {Drift}, ready : {FALSE}]
                ELSE {NoChild, [dep EXCEPT !.spec = Drift]} : DepBecomes(d)
  /\ UNCHANGED << site, svc, cache, stream, q, pc, passVars, created >>

MeddleService ==
  /\ Spend("meddle")
  /\ svc' \in IF svc = NoChild THEN {NoOwner, Foreign} ELSE {NoChild}
  /\ UNCHANGED << site, dep, watchVars, q, pc, passVars, created >>

Orphaned(ctl) == ctl \in Uids /\ (site # NoSite => site.uid # ctl)

\* Garbage collection: an owned object whose owner is gone is deleted.  It
\* never finds a Service, as ServiceCleanedBeforeGone says.
CollectDeployment ==
  /\ dep # NoChild
  /\ Orphaned(dep.ctl)
  /\ DepBecomes(NoChild)
  /\ UNCHANGED << site, svc, cache, stream, q, pc, passVars, boundVars >>

\* The Deployment's pods become ready.
DeploymentReady ==
  /\ dep # NoChild
  /\ ~dep.ready
  /\ DepBecomes([dep EXCEPT !.ready = TRUE])
  /\ UNCHANGED << site, svc, cache, stream, q, pc, passVars, boundVars >>

-----------------------------------------------------------------------------
Init ==
  /\ site = NoSite
  /\ dep = NoChild
  /\ svc = NoChild
  /\ cache = NoSite
  /\ stream = << >>
  /\ childNews = FALSE
  /\ q = EmptyQueue
  /\ pc = "down"
  /\ seen = NoSite /\ read = NoSite /\ moved = FALSE /\ tries = 0 /\ depReady = FALSE
  /\ created = 0
  /\ left \in Budgets

System == \/ Worker \/ Start
          \/ DeliverSite \/ DeliverChild \/ TimerFires
          \/ CollectDeployment \/ DeploymentReady

Mishaps == \/ UserCreate \/ UserEdit \/ UserDelete
           \/ MeddleDeployment \/ MeddleService
           \/ ApiError \/ Relist \/ Crash

Next == System \/ Mishaps

\* The worker is a running goroutine, events in flight arrive, timers expire,
\* the cluster collects and deploys, and a dead controller is started again.
\* Nobody has to act on a Website, and nothing has to fail.
Fairness == /\ WF_vars(Worker)
            /\ WF_vars(Start)
            /\ WF_vars(DeliverSite)
            /\ WF_vars(DeliverChild)
            /\ WF_vars(TimerFires)
            /\ WF_vars(CollectDeployment)
            /\ WF_vars(DeploymentReady)

Spec == Init /\ [][Next]_vars /\ Fairness

-----------------------------------------------------------------------------
(* Properties *)

PassSteps == ApiSteps \cup {"lookup", "ok", "failed"}

\* Type correctness.
TypeOK ==
  /\ site \in Sites \cup {NoSite}
  /\ dep \in Deployments \cup {NoChild}
  /\ svc \in Uids \cup {NoOwner, Foreign, NoChild}
  /\ cache \in Views \cup {NoSite}
  /\ stream \in Seq(Views \cup {NoSite})
  /\ childNews \in BOOLEAN
  /\ q \in Queues
  /\ pc \in PassSteps \cup {"down", "idle"}
  /\ seen \in Views \cup {NoSite}
  /\ read \in Sites \cup {NoSite}
  /\ moved \in BOOLEAN
  /\ tries \in 0..(Attempts - 1)
  /\ depReady \in BOOLEAN
  /\ created \in 0..MaxSites
  /\ left \in [Kinds -> Nat]

\* While a pass creates or rewrites children, the very Website it read from
\* a cache that may be long out of date still exists and is still held open
\* by our finalizer: no child is ever made for a Website that is gone, or
\* for one whose deletion would not come back to this controller.
HeldWhileApplying ==
  pc \in {"depGet", "depApply", "svcApply"} =>
    /\ site # NoSite
    /\ site.uid = seen.uid
    /\ site.fin

\* finalize acts on a cached deletion and by name alone, and yet it never
\* takes the Service, or the finalizer, of a Website of that name that is
\* not being deleted: not even of one created again since.
FinalizeSparesTheLiving ==
  site # NoSite /\ ~site.del =>
    /\ pc = "finDelete" => svc # site.uid
    /\ pc = "finUpdate" /\ read # NoSite /\ ~Conflict => ~read.fin

\* No Website leaves the API server before its Service has: the external
\* work is done while the object that asks for it can still be read.
ServiceCleanedBeforeGone ==
  [][site # NoSite /\ (site' = NoSite \/ site'.uid # site.uid) => svc # site.uid]_vars

\* Whatever the controller writes to a Website, it never undoes what a user
\* has changed in the meantime.
NoLostUpdate ==
  [][Worker /\ site # NoSite /\ site' # NoSite =>
       /\ site'.uid = site.uid
       /\ << site'.spec, site'.gen, site'.paused, site'.del >>
            = << site.spec, site.gen, site.paused, site.del >>]_vars

\* The controller changes no Deployment that something else controls, though
\* another call may have created it since ownedByUs looked.
ForeignDeploymentUntouched ==
  [][Worker /\ dep # NoChild /\ dep.ctl = Foreign => dep' = dep]_vars

\* What of the Website the controller holds, has on the way or would find, and
\* what of it is a version, of the one that is there, that asks for children.
Known == {View(site), cache, seen} \cup {stream[i] : i \in DOMAIN stream}

Versions ==
  {v \in Known : /\ v # NoSite /\ site # NoSite
                 /\ v.uid = site.uid /\ ~v.del /\ ~v.paused}

Readings ==
  {dep # NoChild /\ dep.ready}
    \cup IF pc \in {"statusGet", "statusUpdate"} THEN {depReady} ELSE {}

\* Late, retried and interrupted as it is, the controller acts on the objects as
\* WebsiteLife has it, and others do what they may.  A pass that rests on an old
\* version does act, but only for the Website that is there, held open by our
\* finalizer and not paused in that version, with a spec this Website has asked
\* for and that has been in a cache, a pass or an event in flight ever since;
\* what a pass rests on of a Website that is gone comes to nothing.
Life == INSTANCE WebsiteLife
          WITH asked <- {v.spec : v \in Versions}, shown <- Readings

ImplementsLife ==
  /\ Life!Spec
  /\ [][Worker => [Life!Acts]_(Life!objects)]_vars

\* The end of the road for what users have asked for.
Applied == /\ site.fin
           /\ dep = [ctl |-> site.uid, spec |-> site.spec, ready |-> TRUE]
           /\ svc = site.uid
           /\ site.obs = site.gen
           /\ site.ready

Excused == \/ site.paused
           \/ site.spec \in BadSpecs
           \/ dep # NoChild /\ dep.ctl = Foreign
           \/ svc = Foreign

Settled == IF site = NoSite
             THEN svc \notin Uids /\ ~OfWebsite(dep)
             ELSE Excused \/ Applied

\* Whatever users, other controllers, failing calls and crashes have done,
\* once they stop the children and the status come to match the Website, and
\* stay so; the children of a Website that is gone go too.
Converges == <>[]Settled

\* The children and the status match the Website, and the controller knows.
AtRest ==
  /\ site # NoSite
  /\ ~site.del
  /\ Applied
  /\ pc # "down" => cache = View(site)
  /\ \A i \in DOMAIN stream : stream[i] = View(site)
  /\ pc \in ApiSteps => seen = View(site)
  /\ read # NoSite => read = site /\ ~moved
  /\ pc \in {"statusGet", "statusUpdate"} => depReady

\* Left to itself, a controller that has got there stays there: its passes, its
\* restarts and the rest of the cluster change no object, and none of its writes
\* is news that would call for the next pass.
RestIsStable ==
  [][AtRest /\ System =>
       /\ AtRest'
       /\ UNCHANGED clusterVars
       /\ Len(stream') <= Len(stream)
       /\ childNews' => childNews]_vars

\* The steps a pass may still take: those of its longest way, and the two more
\* of each try that RetryOnConflict has left.
StepsOf == [down |-> 0, idle |-> 0, ok |-> 1, failed |-> 1,
            addUpdate |-> 2, addGet |-> 3, statusUpdate |-> 2, statusGet |-> 3,
            finUpdate |-> 2, finGet |-> 3, finDelete |-> 4, statusDep |-> 4,
            svcApply |-> 5, depApply |-> 6, depGet |-> 7, lookup |-> 8]

PassLeft == StepsOf[pc] + IF pc \in {"down", "idle", "ok", "failed"} THEN 0
                          ELSE 2 * (Attempts - 1 - tries)

\* The one worker gets through each pass it has begun: its every step brings the
\* end nearer, and no user, controller or informer that writes, deletes or
\* relists meanwhile puts it off.
PassesEnd ==
  [][~TakeKey => /\ Worker => PassLeft' < PassLeft
                 /\ PassLeft' <= PassLeft]_vars

\* A deletion is never held up for good: not by a pause, not by a spec the
\* API server refuses, not by a failing call or a crash between two steps.
DeletionCompletes ==
  \A u \in Uids : (site # NoSite /\ site.uid = u /\ site.del)
                    ~> (site = NoSite \/ site.uid # u)

\* The status says which version of the spec it describes: it never claims a
\* version of the spec that the Deployment was not made from.
ObservedGenerationHonest ==
  site # NoSite /\ dep # NoChild /\ site.obs = site.gen /\ dep.ctl = site.uid
  /\ dep.spec # Drift => dep.spec = site.spec

\* The controller touches only the children it controls: a Service that
\* something else controls stays as it is.
ForeignServiceUntouched == [][Worker /\ svc = Foreign => svc' = svc]_vars

\* A pass is run per object per period: a name whose Website is gone for
\* good comes to cost nothing.
\* The program does not keep it (README).
GoneKeyCostsNothing ==
  <>[](site = NoSite) => <>[](q.queue = << >> /\ q.processing = {})
=============================================================================
