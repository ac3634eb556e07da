-------------------------- MODULE ControllerProofs --------------------------
(***************************************************************************)
(* What the Website controller never does, for any specs, any number of    *)
(* Websites and any amount of meddling, failing and crashing; that it does *)
(* what one that sees everything might do; that it stays at rest once it   *)
(* is; and that each of its passes ends.                                   *)
(***************************************************************************)
EXTENDS ControllerInvariant, RateLimitingQueueProofs

-----------------------------------------------------------------------------
(* Types *)

LEMMA NoSiteIsNone == NoSite \notin Sites /\ NoSite \notin Views
  BY ControllerAssumption

LEMMA ViewFields ==
  ASSUME NEW s \in Sites
  PROVE  /\ View(s) \in Views
         /\ View(s) # NoSite
         /\ View(s).uid = s.uid
         /\ View(s).spec = s.spec
         /\ View(s).del = s.del
         /\ View(s).fin = s.fin
         /\ View(s).paused = s.paused
  BY NoSiteIsNone DEF View, Sites, Views

LEMMA ViewType ==
  ASSUME NEW s \in Sites \cup {NoSite} PROVE View(s) \in Views \cup {NoSite}
  BY ViewFields DEF View

LEMMA SiteBecomesType ==
  ASSUME TypeOK, NEW s \in Sites \cup {NoSite}, SiteBecomes(s)
  PROVE  /\ site' \in Sites \cup {NoSite}
         /\ stream' \in Seq(Views \cup {NoSite})
  <1>1. View(s) \in Views \cup {NoSite}
    BY ViewType
  <1>2. stream \in Seq(Views \cup {NoSite})
    BY DEF TypeOK
  <1>3. QED
    BY <1>1, <1>2 DEF SiteBecomes

LEMMA DepBecomesType ==
  ASSUME TypeOK, NEW d \in Deployments \cup {NoChild}, DepBecomes(d)
  PROVE  dep' \in Deployments \cup {NoChild} /\ childNews' \in BOOLEAN
  BY DEF DepBecomes, TypeOK, OfWebsite

LEMMA SomeAttempt == Attempts \in Nat /\ 0 \in 0..(Attempts - 1)
  BY ControllerAssumption

LEMMA EndPassType ==
  ASSUME NEW step, EndPass(step)
  PROVE  /\ pc' = step
         /\ seen' \in Views \cup {NoSite} /\ read' \in Sites \cup {NoSite}
         /\ moved' \in BOOLEAN /\ tries' \in 0..(Attempts - 1) /\ depReady' \in BOOLEAN
  BY SomeAttempt DEF EndPass

LEMMA ReadForType ==
  ASSUME TypeOK, NEW step, ReadFor(step)
  PROVE  /\ pc' \in {step, "ok"}
         /\ seen' \in Views \cup {NoSite} /\ read' \in Sites \cup {NoSite}
         /\ moved' \in BOOLEAN /\ tries' \in 0..(Attempts - 1) /\ depReady' \in BOOLEAN
  <1>1. CASE site = NoSite /\ EndPass("ok")
    BY <1>1, EndPassType
  <1>2. CASE /\ site # NoSite
             /\ pc' = step
             /\ read' = site
             /\ moved' = FALSE
             /\ UNCHANGED << seen, tries, depReady >>
    BY <1>2 DEF TypeOK
  <1>3. QED
    BY <1>1, <1>2 DEF ReadFor

LEMMA RetryFromType ==
  ASSUME TypeOK, NEW step, RetryFrom(step)
  PROVE  /\ pc' \in {step, "failed"}
         /\ seen' \in Views \cup {NoSite} /\ read' \in Sites \cup {NoSite}
         /\ moved' \in BOOLEAN /\ tries' \in 0..(Attempts - 1) /\ depReady' \in BOOLEAN
  <1>1. CASE TriesLeft
    <2>1. /\ pc' = step /\ tries' = tries + 1 /\ read' = NoSite /\ moved' = FALSE
          /\ seen' = seen /\ depReady' = depReady
      BY <1>1 DEF RetryFrom
    <2>2. tries \in 0..(Attempts - 1) /\ seen \in Views \cup {NoSite} /\ depReady \in BOOLEAN
      BY DEF TypeOK
    <2>3. tries' \in 0..(Attempts - 1)
      BY <1>1, <2>1, <2>2, SomeAttempt DEF TriesLeft
    <2>4. QED
      BY <2>1, <2>2, <2>3
  <1>2. CASE ~TriesLeft
    <2>1. EndPass("failed")
      BY <1>2 DEF RetryFrom
    <2>2. QED
      BY <2>1, EndPassType
  <1>3. QED
    BY <1>1, <1>2

LEMMA SpendType ==
  ASSUME TypeOK, NEW kind \in Kinds, Spend(kind)
  PROVE  left' \in [Kinds -> Nat]
  <1>1. left \in [Kinds -> Nat] /\ left[kind] \in Nat /\ left[kind] > 0
    BY DEF TypeOK, Spend
  <1>2. QED
    BY <1>1 DEF Spend

Places == PassSteps \cup {"down", "idle"}

WorkerType == /\ pc \in Places
              /\ seen \in Views \cup {NoSite}
              /\ read \in Sites \cup {NoSite}
              /\ moved \in BOOLEAN
              /\ tries \in 0..(Attempts - 1)
              /\ depReady \in BOOLEAN

LEMMA TypeParts ==
  TypeOK <=> /\ site \in Sites \cup {NoSite}
             /\ dep \in Deployments \cup {NoChild}
             /\ svc \in Uids \cup {NoOwner, Foreign, NoChild}
             /\ cache \in Views \cup {NoSite}
             /\ stream \in Seq(Views \cup {NoSite})
             /\ childNews \in BOOLEAN
             /\ q \in Queues
             /\ WorkerType
             /\ created \in 0..MaxSites
             /\ left \in [Kinds -> Nat]
  BY DEF TypeOK, WorkerType, Places

LEMMA InitType == Init => TypeOK
  <1> SUFFICES ASSUME Init PROVE TypeOK
    OBVIOUS
  <1>1. /\ q \in Queues
        /\ stream \in Seq(Views \cup {NoSite})
    BY EmptyQueueType DEF Init
  <1>2. created \in 0..MaxSites /\ left \in [Kinds -> Nat]
    BY ControllerAssumption DEF Init
  <1>3. WorkerType
    BY SomeAttempt DEF Init, WorkerType, Places
  <1>4. QED
    BY <1>1, <1>2, <1>3, TypeParts DEF Init

LEMMA ClusterKept ==
  ASSUME TypeOK, UNCHANGED << clusterVars, watchVars, q, boundVars >>, WorkerType'
  PROVE  TypeOK'
  BY DEF clusterVars, watchVars, boundVars, TypeOK, WorkerType, Places

LEMMA QueueOnly ==
  ASSUME TypeOK, UNCHANGED << clusterVars, watchVars, boundVars >>, WorkerType', q' \in Queues
  PROVE  TypeOK'
  BY DEF clusterVars, watchVars, boundVars, TypeOK, WorkerType, Places

LEMMA GotoType ==
  ASSUME TypeOK, NEW step \in Places, Goto(step) PROVE WorkerType'
  BY DEF Goto, passVars, TypeOK, WorkerType

LEMMA EndPassWorker ==
  ASSUME NEW step \in Places, EndPass(step) PROVE WorkerType'
  BY EndPassType DEF WorkerType

LEMMA StepNames == ApiSteps \cup {"idle", "lookup", "ok", "failed", "down"} \subseteq Places
  BY DEF Places, PassSteps

LEMMA SiteKept ==
  ASSUME TypeOK, UNCHANGED << dep, svc, cache, childNews, q, boundVars >>,
         UNCHANGED << site, stream >>,
         EndPass("ok") \/ EndPass("failed") \/ RetryFrom("addGet") \/ RetryFrom("statusGet")
  PROVE  TypeOK'
  <1>1. WorkerType'
    <2>1. "ok" \in Places /\ "failed" \in Places /\ "addGet" \in Places /\ "statusGet" \in Places
      BY DEF Places, PassSteps, ApiSteps
    <2>2. CASE EndPass("ok") \/ EndPass("failed")
      BY <2>1, <2>2, EndPassWorker
    <2>3. CASE RetryFrom("addGet")
      BY <2>1, <2>3, RetryFromType DEF WorkerType
    <2>4. CASE RetryFrom("statusGet")
      BY <2>1, <2>4, RetryFromType DEF WorkerType
    <2>5. QED
      BY <2>2, <2>3, <2>4
  <1>2. QED
    BY <1>1 DEF boundVars, TypeOK, WorkerType, Places

LEMMA SiteWritten ==
  ASSUME TypeOK, UNCHANGED << dep, svc, cache, childNews, q, boundVars >>,
         NEW s \in Sites \cup {NoSite}, SiteBecomes(s), EndPass("ok")
  PROVE  TypeOK'
  <1>1. site' \in Sites \cup {NoSite} /\ stream' \in Seq(Views \cup {NoSite})
    BY SiteBecomesType
  <1>2. WorkerType'
    BY EndPassWorker DEF Places, PassSteps
  <1>3. QED
    BY <1>1, <1>2 DEF boundVars, TypeOK, WorkerType, Places

\* Each step of the worker keeps the types.
LEMMA WorkerStepType == IInv /\ Worker => TypeOK'
  <1> SUFFICES ASSUME IInv, TypeOK, Worker PROVE TypeOK'
    BY DEF IInv
  <1> USE StepNames DEF ApiSteps
  <1>0. /\ q \in Queues /\ Key \in Keys
        /\ site \in Sites \cup {NoSite} /\ dep \in Deployments \cup {NoChild}
        /\ cache \in Views \cup {NoSite} /\ read \in Sites \cup {NoSite}
    BY ControllerAssumption DEF TypeOK
  <1>1. CASE TakeKey
    <2>1. q' \in Queues /\ WorkerType'
      BY <1>0, <1>1, GetFields, GotoType DEF TakeKey
    <2>2. QED
      BY <1>1, <2>1, QueueOnly DEF TakeKey
  <1>2. CASE Lookup
    <2>1. CASE EndPass("ok")
      BY <1>2, <2>1, EndPassWorker, ClusterKept DEF Lookup
    <2>2. CASE pc' = Branch(cache) /\ seen' = cache /\ UNCHANGED << read, moved, tries, depReady >>
      <3>1. Branch(cache) \in Places
        BY DEF Branch
      <3>2. WorkerType'
        BY <1>0, <2>2, <3>1 DEF TypeOK, WorkerType
      <3>3. QED
        BY <1>2, <3>2, ClusterKept DEF Lookup
    <2>3. QED
      BY <1>2, <2>1, <2>2 DEF Lookup
  <1>3. CASE PassOk
    <2>1. /\ Forget(q, Key) \in Queues
          /\ AddAfter(Forget(q, Key), Key) \in Queues
          /\ Done(AddAfter(Forget(q, Key), Key), Key) \in Queues
      BY <1>0, ForgetFields, AddAfterFields, DoneFields
    <2>2. WorkerType'
      BY <1>3, GotoType DEF PassOk
    <2>3. QED
      BY <1>3, <2>1, <2>2, QueueOnly DEF PassOk
  <1>4. CASE PassFailed
    <2>1. /\ AddRateLimited(q, Key) \in Queues
          /\ Done(AddRateLimited(q, Key), Key) \in Queues
      BY <1>0, AddRateLimitedFields, DoneFields
    <2>2. WorkerType'
      BY <1>4, GotoType DEF PassFailed
    <2>3. QED
      BY <1>4, <2>1, <2>2, QueueOnly DEF PassFailed
  <1>5. CASE AddFinalizerGet \/ StatusGet \/ FinalizeGet
    <2>1. EndPass("ok") \/ \E step \in UpdateSteps : ReadFor(step)
      BY <1>5 DEF AddFinalizerGet, StatusGet, FinalizeGet, UpdateSteps
    <2>2. WorkerType'
      <3>1. CASE EndPass("ok")
        BY <3>1, EndPassWorker
      <3>2. ASSUME NEW step \in UpdateSteps, ReadFor(step) PROVE WorkerType'
        BY <3>2, ReadForType DEF WorkerType, UpdateSteps
      <3>3. QED
        BY <2>1, <3>1, <3>2
    <2>3. QED
      BY <1>5, <2>2, ClusterKept DEF AddFinalizerGet, StatusGet, FinalizeGet
  <1>6. CASE DeploymentOwner
    BY <1>6, GotoType, EndPassWorker, ClusterKept DEF DeploymentOwner
  <1>7. CASE StatusDeployment
    <2>1. WorkerType'
      BY <1>0, <1>7 DEF StatusDeployment, TypeOK, WorkerType
    <2>2. QED
      BY <1>7, <2>1, ClusterKept DEF StatusDeployment
  <1>8. CASE DeploymentApply
    <2>1. CASE EndPass("failed") /\ UNCHANGED << dep, childNews >>
      <3>1. WorkerType'
        BY <2>1, EndPassWorker
      <3>2. QED
        BY <1>8, <2>1, <3>1, TypeParts DEF DeploymentApply, boundVars, TypeOK, WorkerType, Places
    <2>2. CASE /\ pc = "depApply" /\ Goto("svcApply")
               /\ \E r \in IF dep = NoChild THEN {FALSE}
                           ELSE IF dep.spec = seen.spec THEN {dep.ready}
                           ELSE {FALSE, dep.ready} :
                    DepBecomes([ctl |-> seen.uid, spec |-> seen.spec, ready |-> r])
      <3>1. seen \in Views
        BY <2>2 DEF IInv, PassSound, ApplyingSound, ApplySteps, Held, TypeOK
      <3>2. PICK r \in BOOLEAN :
              DepBecomes([ctl |-> seen.uid, spec |-> seen.spec, ready |-> r])
        BY <1>0, <2>2 DEF Deployments
      <3>3. [ctl |-> seen.uid, spec |-> seen.spec, ready |-> r] \in Deployments
        BY <3>1 DEF Views, Deployments
      <3>4. dep' \in Deployments \cup {NoChild} /\ childNews' \in BOOLEAN
        BY <3>2, <3>3, DepBecomesType
      <3>5. WorkerType'
        BY <2>2, GotoType
      <3>6. QED
        BY <1>8, <3>4, <3>5 DEF DeploymentApply, boundVars, TypeOK, WorkerType, Places
    <2>3. QED
      BY <1>8, <2>1, <2>2 DEF DeploymentApply
  <1>9. CASE ServiceApply
    <2>1. svc' \in Uids \cup {NoOwner, Foreign, NoChild}
      BY <1>9 DEF ServiceApply, IInv, PassSound, ApplyingSound, ApplySteps, Held, TypeOK, Views
    <2>2. WorkerType'
      BY <1>9, GotoType, EndPassWorker DEF ServiceApply
    <2>3. QED
      BY <1>9, <2>1, <2>2 DEF ServiceApply, watchVars, boundVars, TypeOK, WorkerType, Places
  <1>10. CASE AddFinalizerUpdate
    <2>1. UNCHANGED << dep, svc, cache, childNews, q, boundVars >>
      BY <1>10 DEF AddFinalizerUpdate
    <2>2. CASE (EndPass("ok") \/ RetryFrom("addGet")) /\ UNCHANGED << site, stream >>
      BY <2>1, <2>2, SiteKept
    <2>3. CASE EndPass("ok") /\ SiteBecomes([read EXCEPT !.fin = TRUE])
      <3>1. [read EXCEPT !.fin = TRUE] \in Sites
        BY <1>0, <1>10 DEF AddFinalizerUpdate, IInv, PassSound, UpdatingSound, UpdateSteps, Sites
      <3>2. QED
        BY <2>1, <2>3, <3>1, SiteWritten
    <2>4. QED
      BY <1>10, <2>2, <2>3 DEF AddFinalizerUpdate
  <1>11. CASE StatusUpdate
    <2>1. UNCHANGED << dep, svc, cache, childNews, q, boundVars >>
      BY <1>11 DEF StatusUpdate, SetReadyCondition
    <2>2. CASE (EndPass("ok") \/ RetryFrom("statusGet")) /\ UNCHANGED << site, stream >>
      BY <2>1, <2>2, SiteKept
    <2>3. CASE /\ site # NoSite
               /\ EndPass("ok")
               /\ SiteBecomes([site EXCEPT !.obs = read.gen, !.ready = depReady])
      <3>1. read \in Sites /\ depReady \in BOOLEAN
        BY <1>0, <1>11 DEF StatusUpdate, IInv, PassSound, UpdatingSound, UpdateSteps, TypeOK
      <3>2. [site EXCEPT !.obs = read.gen, !.ready = depReady] \in Sites
        BY <1>0, <2>3, <3>1 DEF Sites
      <3>3. QED
        BY <2>1, <2>3, <3>2, SiteWritten
    <2>4. QED
      BY <1>11, <2>2, <2>3 DEF StatusUpdate, SetReadyCondition
  <1>12. CASE FinalizeDelete
    BY <1>12, GotoType DEF FinalizeDelete, watchVars, boundVars, TypeOK, WorkerType, Places
  <1>13. CASE FinalizeUpdate
    <2>1. UNCHANGED << dep, svc, cache, childNews, q, boundVars >>
      BY <1>13 DEF FinalizeUpdate
    <2>2. CASE EndPass("failed") /\ UNCHANGED << site, stream >>
      BY <2>1, <2>2, SiteKept
    <2>3. CASE /\ EndPass("ok")
               /\ SiteBecomes(IF read.del THEN NoSite ELSE [read EXCEPT !.fin = FALSE])
      <3>1. (IF read.del THEN NoSite ELSE [read EXCEPT !.fin = FALSE]) \in Sites \cup {NoSite}
        BY <1>0, <1>13 DEF FinalizeUpdate, IInv, PassSound, UpdatingSound, UpdateSteps, Sites
      <3>2. QED
        BY <2>1, <2>3, <3>1, SiteWritten
    <2>4. QED
      BY <1>13, <2>2, <2>3 DEF FinalizeUpdate
  <1>14. QED
    BY <1>1, <1>2, <1>3, <1>4, <1>5, <1>6, <1>7, <1>8, <1>9, <1>10, <1>11, <1>12, <1>13
    DEF Worker

LEMMA UserWritesType ==
  ASSUME TypeOK, NEW s \in Sites \cup {NoSite}, UserWrites(s),
         created' \in 0..MaxSites, left' \in [Kinds -> Nat]
  PROVE  TypeOK'
  <1>1. site' \in Sites \cup {NoSite} /\ stream' \in Seq(Views \cup {NoSite})
    BY SiteBecomesType DEF UserWrites
  <1>2. WorkerType'
    BY DEF UserWrites, TypeOK, WorkerType, Places
  <1>3. QED
    BY <1>1, <1>2 DEF UserWrites, TypeOK, WorkerType, Places

\* What a user's action makes of the Website.
LEMMA UserCreateCase ==
  ASSUME TypeOK, UserCreate
  PROVE  /\ site = NoSite /\ created' = created + 1 /\ created < MaxSites /\ left' = left
         /\ \E s \in Sites : /\ UserWrites(s)
                             /\ s.uid = created + 1 /\ ~s.del /\ ~s.fin
  <1>1. PICK sp \in Specs :
          UserWrites([uid |-> created + 1, gen |-> 1, spec |-> sp, del |-> FALSE,
                      fin |-> FALSE, paused |-> FALSE, obs |-> 0, ready |-> FALSE])
    BY DEF UserCreate
  <1> DEFINE s == [uid |-> created + 1, gen |-> 1, spec |-> sp, del |-> FALSE,
                   fin |-> FALSE, paused |-> FALSE, obs |-> 0, ready |-> FALSE]
  <1>2. created + 1 \in Uids
    BY ControllerAssumption DEF UserCreate, TypeOK, Uids
  <1>3. s \in Sites /\ s.uid = created + 1 /\ ~s.del /\ ~s.fin
    BY <1>2 DEF Sites
  <1> HIDE DEF s
  <1>4. UserWrites(s)
    BY <1>1 DEF s
  <1>5. QED
    BY <1>3, <1>4 DEF UserCreate

LEMMA UserEditCase ==
  ASSUME TypeOK, UserEdit
  PROVE  /\ site \in Sites /\ created' = created /\ left' \in [Kinds -> Nat]
         /\ \E s \in Sites : /\ UserWrites(s)
                             /\ s.uid = site.uid /\ s.del = site.del /\ s.fin = site.fin
  <1>1. site \in Sites /\ left' \in [Kinds -> Nat] /\ created' = created
    BY SpendType DEF UserEdit, Kinds, TypeOK
  <1>2. CASE \E sp \in Specs \ {site.spec} :
               UserWrites([site EXCEPT !.spec = sp, !.gen = @ + 1])
    <2>1. PICK sp \in Specs : UserWrites([site EXCEPT !.spec = sp, !.gen = @ + 1])
      BY <1>2
    <2> DEFINE g == site.gen + 1
               s == [site EXCEPT !.spec = sp, !.gen = g]
    <2>2. g \in Nat
      BY <1>1 DEF Sites
    <2>3. UserWrites(s)
      BY <2>1
    <2> HIDE DEF g
    <2>4. s \in Sites /\ s.uid = site.uid /\ s.del = site.del /\ s.fin = site.fin
      BY <1>1, <2>2 DEF Sites
    <2>5. QED
      BY <1>1, <2>3, <2>4
  <1>3. CASE UserWrites([site EXCEPT !.paused = ~@])
    <2> DEFINE s == [site EXCEPT !.paused = ~@]
    <2>1. s \in Sites /\ s.uid = site.uid /\ s.del = site.del /\ s.fin = site.fin
      BY <1>1 DEF Sites
    <2> HIDE DEF s
    <2>2. UserWrites(s)
      BY <1>3 DEF s
    <2>3. QED
      BY <1>1, <2>1, <2>2
  <1>4. QED
    BY <1>2, <1>3 DEF UserEdit

LEMMA UserDeleteCase ==
  ASSUME TypeOK, UserDelete
  PROVE  /\ site \in Sites /\ ~site.del /\ created' = created /\ left' = left
         /\ \/ ~site.fin /\ UserWrites(NoSite)
            \/ /\ site.fin
               /\ \E s \in Sites : UserWrites(s) /\ s.uid = site.uid /\ s.del /\ s.fin
  <1>1. site \in Sites /\ ~site.del /\ created' = created /\ left' = left
    BY DEF UserDelete, TypeOK, boundVars
  <1>2. CASE ~site.fin
    BY <1>1, <1>2 DEF UserDelete
  <1>3. CASE site.fin
    <2> DEFINE g == site.gen + 1
               s == [site EXCEPT !.del = TRUE, !.gen = g]
    <2>1. g \in Nat
      BY <1>1 DEF Sites
    <2>2. UserWrites(s)
      BY <1>3 DEF UserDelete
    <2> HIDE DEF g
    <2>3. s \in Sites /\ s.uid = site.uid /\ s.del /\ s.fin
      BY <1>1, <1>3, <2>1 DEF Sites
    <2>4. QED
      BY <1>1, <1>3, <2>2, <2>3
  <1>4. QED
    BY <1>2, <1>3

-----------------------------------------------------------------------------
(* The versions still to be acted on, under each change of the cache *)

LEMMA VersionType ==
  ASSUME TypeOK
  PROVE  /\ Index \subseteq Nat /\ 0 \in Index /\ Len(stream) \in Nat
         /\ \A i \in Index : i <= Len(stream) /\ Version(i) \in Views \cup {NoSite}
  <1>1. /\ stream \in Seq(Views \cup {NoSite}) /\ Len(stream) \in Nat
        /\ cache \in Views \cup {NoSite}
    BY DEF TypeOK
  <1>2. \A i \in 1..Len(stream) : stream[i] \in Views \cup {NoSite}
    BY <1>1
  <1>3. QED
    BY <1>1, <1>2 DEF Index, Version

\* A write of the Website adds at most one version, at the end.
WrittenAt(n, s) ==
  /\ site' = s
  /\ Index' \subseteq Index \cup {n}
  /\ n \notin Index
  /\ \A i \in Index : i < n /\ Version(i)' = Version(i)
  /\ n \in Index' => Version(n)' = View(s)

LEMMA WriteVersions ==
  ASSUME TypeOK, NEW s \in Sites \cup {NoSite}, SiteBecomes(s), UNCHANGED cache
  PROVE  \E n \in Nat : WrittenAt(n, s)
  <1>1. stream \in Seq(Views \cup {NoSite}) /\ View(s) \in Views \cup {NoSite}
    BY ViewType DEF TypeOK
  <1>2. PICK n \in Nat : n = Len(stream) + 1
    BY <1>1
  <1>3. CASE stream' = stream
    <2>1. WrittenAt(n, s)
      BY <1>1, <1>2, <1>3 DEF SiteBecomes, Index, Version, WrittenAt
    <2>2. QED
      BY <2>1
  <1>4. CASE stream' = Append(stream, View(s))
    <2>1. /\ Len(stream') = n
          /\ \A i \in 1..Len(stream) : stream'[i] = stream[i]
          /\ stream'[n] = View(s)
      BY <1>1, <1>2, <1>4
    <2>2. WrittenAt(n, s)
      BY <1>1, <1>2, <2>1 DEF SiteBecomes, Index, Version, WrittenAt
    <2>3. QED
      BY <2>2
  <1>5. QED
    BY <1>3, <1>4 DEF SiteBecomes

\* Reading on from the front: delivery moves each version one place nearer.
LEMMA DeliverVersions ==
  ASSUME TypeOK, DeliverSite
  PROVE  \A i \in Index' : i \in Nat /\ i + 1 \in Index /\ Version(i)' = Version(i + 1)
  <1>1. /\ stream \in Seq(Views \cup {NoSite}) /\ stream # << >>
        /\ cache' = Head(stream) /\ stream' = Tail(stream)
    BY DEF DeliverSite, TypeOK
  <1>2. /\ Len(stream) \in Nat /\ Len(stream) > 0
        /\ Len(stream') = Len(stream) - 1
        /\ cache' = stream[1]
        /\ \A i \in 1..(Len(stream) - 1) : stream'[i] = stream[i + 1]
    BY <1>1
  <1>3. QED
    BY <1>2 DEF Index, Version

\* The cache at rest: the one version there is, is the Website itself.
LEMMA FreshVersions ==
  ASSUME cache' = View(site), stream' = << >>, UNCHANGED site
  PROVE  \A i \in Index' : i = 0 /\ Version(i)' = View(site)
  BY DEF Index, Version

-----------------------------------------------------------------------------
(* CacheSound, under each change of the Website and of the cache *)

LEMMA CacheSame ==
  ASSUME CacheSound, UNCHANGED << site, cache, stream, created >>
  PROVE  CacheSound'
  <1>1. Index' = Index /\ \A i \in Index : Version(i)' = Version(i)
    BY DEF Index, Version
  <1>2. QED
    BY <1>1 DEF CacheSound, VersionsWellFormed, WellFormed, HeldStays, LetGoKnowingly,
                DeletionStays, OneAtATime, Live

\* A new Website, that nobody holds.
LEMMA CreateSound ==
  ASSUME TypeOK, CacheSound, UNCHANGED cache,
         site = NoSite, NEW s \in Sites, SiteBecomes(s),
         s.uid = created + 1, created' = created + 1, ~s.del, ~s.fin
  PROVE  CacheSound'
  <1>1. PICK n \in Nat : WrittenAt(n, s)
    BY WriteVersions
  <1> USE DEF WrittenAt
  <1>2. Index \subseteq Nat /\ created \in Nat
    BY VersionType DEF TypeOK
  <1>3. /\ View(s) # NoSite /\ View(s).uid = created + 1 /\ ~View(s).del /\ ~View(s).fin
        /\ s # NoSite
    BY ViewFields, NoSiteIsNone
  <1>4. \A i \in Index : Version(i) \in Views \cup {NoSite}
    BY VersionType
  <1>5. \A i \in Index : Version(i) # NoSite => Version(i).uid \in Nat /\ Version(i).uid <= created
    BY <1>4, NoSiteIsNone, ControllerAssumption
    DEF CacheSound, VersionsWellFormed, WellFormed, Views, Uids
  <1>6. \A i \in Index : ~Held(Version(i))
    BY DEF CacheSound, HeldStays, Live
  <1>7. VersionsWellFormed'
    BY <1>1, <1>2, <1>3, <1>5 DEF CacheSound, VersionsWellFormed, WellFormed
  <1>8. HeldStays'
    BY <1>1, <1>3, <1>6 DEF HeldStays, Held
  <1>9. LetGoKnowingly'
    BY <1>1, <1>2, <1>3 DEF CacheSound, LetGoKnowingly, Live, Deleted
  <1>10. DeletionStays'
    BY <1>1, <1>2, <1>3, <1>5 DEF DeletionStays, Live, Deleted
  <1>11. OneAtATime'
    BY <1>1, <1>3 DEF OneAtATime
  <1>12. QED
    BY <1>7, <1>8, <1>9, <1>10, <1>11 DEF CacheSound

\* The same Website, changed: it may be marked deleted, and our finalizer
\* may be added if there is no deletion of another Website to hear of.
LEMMA ChangeSound ==
  ASSUME TypeOK, CacheSound, UNCHANGED << cache, created >>,
         site \in Sites, NEW s \in Sites, SiteBecomes(s),
         s.uid = site.uid, site.del => s.del, site.fin => s.fin, s.del => s.fin,
         s.fin => \/ site.fin
                  \/ \A i \in Index : Deleted(Version(i)) => Live(Version(i).uid)
  PROVE  CacheSound'
  <1>1. PICK n \in Nat : WrittenAt(n, s)
    BY WriteVersions
  <1> USE DEF WrittenAt
  <1>2. Index \subseteq Nat /\ created \in Nat /\ \A i \in Index : Version(i) \in Views \cup {NoSite}
    BY VersionType DEF TypeOK
  <1>3. /\ View(s) # NoSite /\ View(s).uid = s.uid
        /\ View(s).del = s.del /\ View(s).fin = s.fin
        /\ s # NoSite /\ site # NoSite
        /\ site.del \in BOOLEAN /\ site.fin \in BOOLEAN /\ s.del \in BOOLEAN /\ s.fin \in BOOLEAN
    BY ViewFields, NoSiteIsNone DEF Sites
  <1>4. \A u : Live(u)' <=> Live(u)
    BY <1>1, <1>3 DEF Live
  <1>5. VersionsWellFormed'
    BY <1>1, <1>3 DEF CacheSound, VersionsWellFormed, WellFormed
  <1>6. HeldStays'
    BY <1>1, <1>3, <1>4 DEF CacheSound, HeldStays, Held, Live
  <1>7. LetGoKnowingly'
    BY <1>1, <1>2, <1>3, <1>4 DEF CacheSound, LetGoKnowingly, Live, Deleted
  <1>8. DeletionStays'
    BY <1>1, <1>2, <1>3, <1>4 DEF CacheSound, DeletionStays, Live, Deleted
  <1>9. OneAtATime'
    BY <1>1, <1>3, <1>4 DEF CacheSound, OneAtATime, Live, Deleted
  <1>10. QED
    BY <1>5, <1>6, <1>7, <1>8, <1>9 DEF CacheSound

\* A Website leaves: nobody held it, or its deletion is all there is to hear of.
LEMMA GoneSound ==
  ASSUME TypeOK, CacheSound, UNCHANGED << cache, created >>,
         site \in Sites, SiteBecomes(NoSite),
         \/ ~site.fin
         \/ \A i \in Index : Deleted(Version(i)) /\ Version(i).uid = site.uid
  PROVE  CacheSound'
  <1>1. PICK n \in Nat : WrittenAt(n, NoSite)
    BY WriteVersions
  <1> USE DEF WrittenAt
  <1>2. Index \subseteq Nat /\ \A i \in Index : Version(i) \in Views \cup {NoSite}
    BY VersionType
  <1>3. View(NoSite) = NoSite /\ site # NoSite /\ site.del \in BOOLEAN /\ site.fin \in BOOLEAN
    BY NoSiteIsNone DEF View, Sites
  <1>4. \A u : ~Live(u)'
    BY <1>1 DEF Live
  <1>5. VersionsWellFormed'
    BY <1>1, <1>3 DEF CacheSound, VersionsWellFormed, WellFormed
  <1>6. \A i \in Index : ~Held(Version(i))
    BY <1>3 DEF CacheSound, HeldStays, Live, Held, Deleted
  <1>7. HeldStays'
    BY <1>1, <1>3, <1>6 DEF HeldStays, Held
  <1>8. LetGoKnowingly'
    <2>1. ASSUME ~site.fin, NEW i \in Index, Deleted(Version(i)) PROVE ~Live(Version(i).uid)
      BY <1>3, <2>1 DEF CacheSound, VersionsWellFormed, WellFormed, DeletionStays, Live
    <2>2. \A i, j \in Index : i <= j /\ Deleted(Version(j)) =>
            Deleted(Version(i)) /\ Version(i).uid = Version(j).uid
      BY <1>3, <2>1 DEF CacheSound, LetGoKnowingly, Live
    <2>3. QED
      BY <1>1, <1>2, <1>3, <2>2 DEF LetGoKnowingly, Deleted
  <1>9. DeletionStays' /\ OneAtATime'
    BY <1>1, <1>4 DEF DeletionStays, OneAtATime
  <1>10. QED
    BY <1>5, <1>7, <1>8, <1>9 DEF CacheSound

LEMMA DeliverSound ==
  ASSUME TypeOK, CacheSound, DeliverSite
  PROVE  CacheSound'
  <1>1. UNCHANGED << site, created >>
    BY DEF DeliverSite, clusterVars, boundVars
  <1>2. \A i \in Index' : i \in Nat /\ i + 1 \in Index /\ Version(i)' = Version(i + 1)
    BY DeliverVersions
  <1>3. \A i, j \in Index' : i <= j => i + 1 <= j + 1
    BY <1>2
  <1>4. \A u : Live(u)' <=> Live(u)
    BY <1>1 DEF Live
  <1>5. VersionsWellFormed'
    BY <1>1, <1>2 DEF CacheSound, VersionsWellFormed, WellFormed
  <1>6. HeldStays'
    BY <1>1, <1>2, <1>4 DEF CacheSound, HeldStays, Held
  <1>7. LetGoKnowingly'
    BY <1>2, <1>3, <1>4 DEF CacheSound, LetGoKnowingly, Deleted
  <1>8. DeletionStays'
    BY <1>1, <1>2, <1>3, <1>4 DEF CacheSound, DeletionStays, Deleted
  <1>9. OneAtATime'
    BY <1>1, <1>2 DEF CacheSound, OneAtATime, Deleted
  <1>10. QED
    BY <1>5, <1>6, <1>7, <1>8, <1>9 DEF CacheSound

\* A relist, or a start: the cache is the Website.
LEMMA FreshSound ==
  ASSUME TypeOK, CacheSound, cache' = View(site), stream' = << >>, UNCHANGED << site, created >>
  PROVE  CacheSound'
  <1>1. \A i \in Index' : i = 0 /\ Version(i)' = View(site)
    BY FreshVersions
  <1>2. \A u : Live(u)' <=> Live(u)
    BY DEF Live
  <1>3. CASE site = NoSite
    <2>1. View(site) = NoSite
      BY <1>3 DEF View
    <2>2. QED
      BY <1>1, <1>3, <2>1
      DEF CacheSound, VersionsWellFormed, WellFormed, HeldStays, LetGoKnowingly,
          DeletionStays, OneAtATime, Held, Deleted
  <1>4. CASE site \in Sites
    <2>1. /\ View(site) # NoSite /\ View(site).uid = site.uid
          /\ View(site).del = site.del /\ View(site).fin = site.fin
          /\ site # NoSite /\ site.fin \in BOOLEAN /\ site.del \in BOOLEAN
      BY <1>4, ViewFields, NoSiteIsNone DEF Sites
    <2>2. Live(site.uid)
      BY <2>1 DEF Live
    <2>3. QED
      BY <1>1, <1>2, <2>1, <2>2
      DEF CacheSound, VersionsWellFormed, WellFormed, HeldStays, LetGoKnowingly,
          DeletionStays, OneAtATime, Held, Deleted
  <1>5. QED
    BY <1>3, <1>4 DEF TypeOK

\* No process, no cache.
LEMMA EmptySound ==
  ASSUME CacheSound, cache' = NoSite, stream' = << >>, UNCHANGED << site, created >>
  PROVE  CacheSound'
  <1>1. \A i \in Index' : Version(i)' = NoSite
    BY DEF Index, Version
  <1>2. QED
    BY <1>1 DEF CacheSound, VersionsWellFormed, WellFormed, HeldStays, LetGoKnowingly,
                DeletionStays, OneAtATime, Held, Deleted

-----------------------------------------------------------------------------
(* What the pass knows, under each kind of step *)

\* The part of ServiceSound that is not about the pass.
ServiceHeld == /\ svc \in Uids => svc <= created
               /\ site # NoSite /\ svc = site.uid => site.fin

LEMMA EndPassSound ==
  ASSUME NEW step \in {"ok", "failed"}, EndPass(step), ServiceHeld'
  PROVE  PassSound'
  BY DEF EndPass, PassSound, SeenSound, WellFormed, ApplyingSound, ApplySteps, AddingSound,
         AddSteps, FinalizingSound, FinalizeSteps, UpdatingSound, UpdateSteps,
         ServiceSound, ServiceHeld, DownSound

LEMMA UserSound ==
  ASSUME IInv, NEW s \in Sites \cup {NoSite}, UserWrites(s),
         \/ /\ site = NoSite /\ s \in Sites /\ s.uid = created + 1 /\ created' = created + 1
            /\ ~s.del /\ ~s.fin
         \/ /\ site \in Sites /\ s \in Sites /\ s.uid = site.uid /\ created' = created
            /\ site.del => s.del
            /\ s.fin = site.fin
         \/ site \in Sites /\ ~site.fin /\ s = NoSite /\ created' = created
  PROVE  PassSound'
  <1>1. /\ SiteBecomes(s) /\ moved' = (read # NoSite)
        /\ UNCHANGED << dep, svc, cache, pc, seen, read >>
    BY DEF UserWrites
  <1>2. PICK n \in Nat : WrittenAt(n, s)
    BY <1>1, WriteVersions DEF IInv
  <1> USE DEF WrittenAt
  <1>3. /\ created \in Nat /\ created' \in Nat /\ created <= created'
        /\ svc \in Uids => svc \in Nat
        /\ seen # NoSite => seen.uid \in Nat /\ seen.uid <= created
    BY NoSiteIsNone, ControllerAssumption
    DEF IInv, TypeOK, PassSound, SeenSound, WellFormed, Views, Uids
  <1>4. /\ s \in Sites => /\ s # NoSite /\ View(s) # NoSite /\ View(s).uid = s.uid
                          /\ View(s).del = s.del /\ View(s).fin = s.fin
        /\ site \in Sites => /\ site # NoSite /\ site.uid = created
                             /\ site.fin \in BOOLEAN /\ site.del \in BOOLEAN
                             /\ site.del => site.fin
    BY ViewFields, NoSiteIsNone DEF IInv, CacheSound, VersionsWellFormed, WellFormed, Sites
  <1>5. View(NoSite) = NoSite
    BY DEF View
  <1>6. SeenSound'
    BY <1>1, <1>3 DEF IInv, PassSound, SeenSound, WellFormed
  <1>7. ApplyingSound'
    BY <1>1, <1>2, <1>3, <1>4 DEF IInv, PassSound, ApplyingSound, Live, Held
  <1>8. AddingSound'
    BY <1>1, <1>2, <1>4, <1>5
    DEF IInv, CacheSound, DeletionStays, PassSound, AddingSound, Live, Deleted
  <1>9. FinalizingSound'
    BY <1>1, <1>2, <1>3, <1>4, <1>5 DEF IInv, PassSound, FinalizingSound, Live, Deleted
  <1>10. UpdatingSound'
    BY <1>1 DEF IInv, PassSound, UpdatingSound
  <1>11. ServiceSound'
    <2>1. s \in Sites => s.uid \in Uids
      BY DEF Sites
    <2>2. svc \in Uids => svc <= created'
      BY <1>3 DEF IInv, PassSound, ServiceSound
    <2>3. s # NoSite /\ svc = s.uid => s.fin
      BY <1>3, <1>4, <2>1 DEF IInv, PassSound, ServiceSound
    <2>4. QED
      BY <1>1, <1>2, <2>2, <2>3 DEF IInv, PassSound, ServiceSound
  <1>12. DownSound'
    BY <1>1 DEF IInv, PassSound, DownSound, SiteBecomes
  <1>13. QED
    BY <1>6, <1>7, <1>8, <1>9, <1>10, <1>11, <1>12 DEF PassSound

LEMMA UserInv == IInv /\ (UserCreate \/ UserEdit \/ UserDelete) => IInv'
  <1> SUFFICES ASSUME IInv, UserCreate \/ UserEdit \/ UserDelete PROVE IInv'
    OBVIOUS
  <1>0. TypeOK /\ CacheSound
    BY DEF IInv
  <1>1. CASE UserCreate
    <2>1. PICK s \in Sites : UserWrites(s) /\ s.uid = created + 1 /\ ~s.del /\ ~s.fin
      BY <1>0, <1>1, UserCreateCase
    <2>2. site = NoSite /\ created' = created + 1 /\ created < MaxSites /\ left' = left
      BY <1>0, <1>1, UserCreateCase
    <2>3. created' \in 0..MaxSites /\ left' \in [Kinds -> Nat]
      BY <1>0, <2>2, ControllerAssumption DEF TypeOK
    <2>4. TypeOK'
      BY <1>0, <2>1, <2>3, UserWritesType
    <2>5. SiteBecomes(s) /\ UNCHANGED cache
      BY <2>1 DEF UserWrites
    <2>6. CacheSound'
      BY <1>0, <2>1, <2>2, <2>5, CreateSound
    <2>7. PassSound'
      BY <2>1, <2>2, UserSound
    <2>8. QED
      BY <2>4, <2>6, <2>7 DEF IInv
  <1>2. CASE UserEdit
    <2>1. /\ site \in Sites /\ created' = created /\ left' \in [Kinds -> Nat]
          /\ created \in 0..MaxSites
      BY <1>0, <1>2, UserEditCase DEF TypeOK
    <2>2. PICK s \in Sites : UserWrites(s) /\ s.uid = site.uid /\ s.del = site.del /\ s.fin = site.fin
      BY <1>0, <1>2, UserEditCase
    <2>3. TypeOK'
      BY <1>0, <2>1, <2>2, UserWritesType
    <2>4. SiteBecomes(s) /\ UNCHANGED << cache, created >>
      BY <2>1, <2>2 DEF UserWrites
    <2>5. site.del => site.fin
      BY <2>1, NoSiteIsNone DEF IInv, CacheSound, VersionsWellFormed, WellFormed
    <2>6. CacheSound'
      BY <1>0, <2>1, <2>2, <2>4, <2>5, ChangeSound
    <2>7. PassSound'
      BY <2>1, <2>2, UserSound
    <2>8. QED
      BY <2>3, <2>6, <2>7 DEF IInv
  <1>3. CASE UserDelete
    <2>1. /\ site \in Sites /\ ~site.del /\ created' = created /\ left' = left
          /\ created \in 0..MaxSites /\ left' \in [Kinds -> Nat]
      BY <1>0, <1>3, UserDeleteCase DEF TypeOK
    <2>2. CASE ~site.fin /\ UserWrites(NoSite)
      <3>1. TypeOK'
        BY <1>0, <2>1, <2>2, UserWritesType
      <3>2. SiteBecomes(NoSite) /\ UNCHANGED << cache, created >>
        BY <2>1, <2>2 DEF UserWrites
      <3>3. CacheSound'
        BY <1>0, <2>1, <2>2, <3>2, GoneSound
      <3>4. PassSound'
        BY <2>1, <2>2, UserSound
      <3>5. QED
        BY <3>1, <3>3, <3>4 DEF IInv
    <2>3. CASE site.fin /\ \E s \in Sites : UserWrites(s) /\ s.uid = site.uid /\ s.del /\ s.fin
      <3>1. PICK s \in Sites : UserWrites(s) /\ s.uid = site.uid /\ s.del /\ s.fin
        BY <2>3
      <3>2. TypeOK'
        BY <1>0, <2>1, <3>1, UserWritesType
      <3>3. SiteBecomes(s) /\ UNCHANGED << cache, created >>
        BY <2>1, <3>1 DEF UserWrites
      <3>4. CacheSound'
        BY <1>0, <2>1, <2>3, <3>1, <3>3, ChangeSound
      <3>5. s.fin = site.fin
        BY <2>1, <2>3, <3>1 DEF Sites
      <3>6. PassSound'
        BY <2>1, <2>3, <3>1, <3>5, UserSound
      <3>7. QED
        BY <3>2, <3>4, <3>6 DEF IInv
    <2>4. QED
      BY <1>0, <1>3, <2>2, <2>3, UserDeleteCase
  <1>4. QED
    BY <1>1, <1>2, <1>3

-----------------------------------------------------------------------------
(* The steps of the worker *)

\* Nothing moves that the versions are about.
LEMMA QuietVersions ==
  ASSUME UNCHANGED << site, cache, stream >>
  PROVE  /\ Index' = Index
         /\ \A i \in Index : Version(i)' = Version(i)
         /\ \A u : Live(u)' <=> Live(u)
  BY DEF Index, Version, Live

LEMMA QuietSound ==
  ASSUME IInv, UNCHANGED << site, cache, stream, created, svc, pc, seen, read, moved >>
  PROVE  CacheSound' /\ PassSound'
  <1>1. CacheSound'
    BY CacheSame DEF IInv
  <1>2. PassSound'
    BY QuietVersions
    DEF IInv, PassSound, SeenSound, WellFormed, ApplyingSound, AddingSound,
        FinalizingSound, UpdatingSound, ServiceSound, DownSound
  <1>3. QED
    BY <1>1, <1>2

\* A step of the pass that writes nothing of the Website.
LEMMA PassMoves ==
  ASSUME IInv, UNCHANGED << site, cache, stream, created >>,
         ServiceHeld', SeenSound', ApplyingSound', AddingSound', FinalizingSound',
         UpdatingSound', pc' # "down", pc' \in {"finGet", "finUpdate"} => svc' \notin Uids
  PROVE  CacheSound' /\ PassSound'
  <1>1. CacheSound'
    BY CacheSame DEF IInv
  <1>2. QED
    BY <1>1 DEF PassSound, ServiceSound, ServiceHeld, DownSound

LEMMA PassEnds ==
  ASSUME IInv, UNCHANGED << site, cache, stream, svc, created >>,
         EndPass("ok") \/ EndPass("failed")
  PROVE  CacheSound' /\ PassSound'
  <1>1. ServiceHeld'
    BY DEF IInv, PassSound, ServiceSound, ServiceHeld
  <1>2. CacheSound'
    BY CacheSame DEF IInv
  <1>3. QED
    BY <1>1, <1>2, EndPassSound

LEMMA LookupSound == IInv /\ Lookup => CacheSound' /\ PassSound'
  <1> SUFFICES ASSUME IInv, Lookup PROVE CacheSound' /\ PassSound'
    OBVIOUS
  <1>1. UNCHANGED << site, cache, stream, svc, created >> /\ pc = "lookup"
    BY DEF Lookup, clusterVars, watchVars, boundVars
  <1>2. CASE EndPass("ok")
    BY <1>1, <1>2, PassEnds
  <1>3. CASE /\ cache # NoSite /\ Branch(cache) # "ok" /\ pc' = Branch(cache)
             /\ seen' = cache /\ UNCHANGED << read, moved, tries, depReady >>
    <2>1. 0 \in Index /\ Version(0) = cache /\ \A i \in Index : 0 <= i
      BY VersionType DEF IInv, Index, Version
    <2>2. /\ Index' = Index
          /\ \A i \in Index : Version(i)' = Version(i)
          /\ \A u : Live(u)' <=> Live(u)
      BY <1>1, QuietVersions
    <2>3. /\ pc' \in {"finDelete", "addGet", "depGet"}
          /\ pc' = "finDelete" => Deleted(cache)
          /\ pc' = "addGet" => ~Deleted(cache)
          /\ pc' = "depGet" => Held(cache)
      BY <1>3 DEF Branch, Deleted, Held
    <2>4. SeenSound'
      BY <1>1, <1>3, <2>1 DEF IInv, CacheSound, VersionsWellFormed, SeenSound, WellFormed
    <2>5. ApplyingSound'
      BY <1>1, <1>3, <2>1, <2>2, <2>3
      DEF IInv, CacheSound, HeldStays, ApplyingSound, ApplySteps, Held
    <2>6. AddingSound'
      BY <1>1, <2>1, <2>2, <2>3
      DEF IInv, CacheSound, LetGoKnowingly, AddingSound, AddSteps, Deleted
    <2>7. FinalizingSound'
      <3>1. CASE pc' = "finDelete"
        <4>1. Live(cache.uid) =>
                site.del /\ \A i \in Index : Deleted(Version(i)) /\ Version(i).uid = cache.uid
          BY <2>1, <2>3, <3>1 DEF IInv, CacheSound, DeletionStays
        <4>2. site # NoSite /\ ~Live(cache.uid) => ~site.fin
          BY <2>1, <2>3, <3>1 DEF IInv, CacheSound, OneAtATime, Live
        <4>3. QED
          BY <1>1, <1>3, <2>2, <2>3, <3>1, <4>1, <4>2 DEF FinalizingSound, Deleted
      <3>2. CASE pc' # "finDelete"
        BY <2>3, <3>2 DEF FinalizingSound, FinalizeSteps
      <3>3. QED
        BY <3>1, <3>2
    <2>8. UpdatingSound'
      BY <1>1, <1>3, <2>3 DEF IInv, PassSound, UpdatingSound, UpdateSteps
    <2>9. ServiceHeld'
      BY <1>1 DEF IInv, PassSound, ServiceSound, ServiceHeld
    <2>10. QED
      BY <1>1, <2>3, <2>4, <2>5, <2>6, <2>7, <2>8, <2>9, PassMoves
  <1>4. QED
    BY <1>2, <1>3 DEF Lookup

\* The steps that move to the next call, or read the Website anew.
LEMMA MoveOn ==
  ASSUME IInv, UNCHANGED << site, cache, stream, svc, created, seen >>,
         << pc, pc' >> \in
           { <<"depGet", "depApply">>, <<"depApply", "svcApply">>, <<"statusDep", "statusGet">>,
             <<"idle", "lookup">>, <<"ok", "idle">>, <<"failed", "idle">> },
         UNCHANGED << read, moved >>
  PROVE  CacheSound' /\ PassSound'
  <1>1. /\ Index' = Index
        /\ \A i \in Index : Version(i)' = Version(i)
        /\ \A u : Live(u)' <=> Live(u)
    BY QuietVersions
  <1>2. SeenSound' /\ ServiceHeld'
    BY DEF IInv, PassSound, SeenSound, WellFormed, ServiceSound, ServiceHeld
  <1>3. ApplyingSound'
    BY <1>1 DEF IInv, PassSound, ApplyingSound, ApplySteps, Held
  <1>4. AddingSound' /\ FinalizingSound'
    BY DEF AddingSound, FinalizingSound, AddSteps, FinalizeSteps
  <1>5. UpdatingSound'
    BY DEF IInv, PassSound, UpdatingSound, UpdateSteps
  <1>6. QED
    BY <1>2, <1>3, <1>4, <1>5, PassMoves

LEMMA ReadSound ==
  ASSUME IInv, UNCHANGED << site, cache, stream, svc, created >>,
         NEW step, ReadFor(step),
         \/ pc = "addGet" /\ step = "addUpdate" /\ ~(site # NoSite /\ site.fin)
         \/ pc = "statusGet" /\ step = "statusUpdate"
         \/ pc = "finGet" /\ step = "finUpdate"
  PROVE  CacheSound' /\ PassSound'
  <1>1. CASE EndPass("ok")
    BY <1>1, PassEnds
  <1>2. CASE /\ site # NoSite /\ pc' = step /\ read' = site /\ moved' = FALSE
             /\ UNCHANGED << seen, tries, depReady >>
    <2>1. /\ Index' = Index
          /\ \A i \in Index : Version(i)' = Version(i)
          /\ \A u : Live(u)' <=> Live(u)
      BY QuietVersions
    <2>2. SeenSound' /\ ServiceHeld'
      BY <1>2 DEF IInv, PassSound, SeenSound, WellFormed, ServiceSound, ServiceHeld
    <2>3. ApplyingSound'
      BY <1>2 DEF ApplyingSound, ApplySteps
    <2>4. AddingSound'
      BY <1>2, <2>1 DEF IInv, PassSound, AddingSound, AddSteps, Deleted
    <2>5. FinalizingSound'
      BY <1>2, <2>1 DEF IInv, PassSound, FinalizingSound, FinalizeSteps, Deleted
    <2>6. UpdatingSound'
      BY <1>2 DEF UpdatingSound, UpdateSteps
    <2>7. pc' \in {"finGet", "finUpdate"} => svc' \notin Uids
      BY <1>2 DEF IInv, PassSound, ServiceSound
    <2>8. QED
      BY <1>2, <2>2, <2>3, <2>4, <2>5, <2>6, <2>7, PassMoves
  <1>3. QED
    BY <1>1, <1>2 DEF ReadFor

LEMMA RetrySound ==
  ASSUME IInv, UNCHANGED << site, cache, stream, svc, created >>,
         \/ pc = "addUpdate" /\ RetryFrom("addGet")
         \/ pc = "statusUpdate" /\ RetryFrom("statusGet")
  PROVE  CacheSound' /\ PassSound'
  <1>1. CASE EndPass("failed")
    BY <1>1, PassEnds
  <1>2. CASE ~EndPass("failed")
    <2>1. /\ \/ pc = "addUpdate" /\ pc' = "addGet"
             \/ pc = "statusUpdate" /\ pc' = "statusGet"
          /\ read' = NoSite /\ moved' = FALSE /\ seen' = seen
      BY <1>2 DEF RetryFrom
    <2>2. /\ Index' = Index
          /\ \A i \in Index : Version(i)' = Version(i)
          /\ \A u : Live(u)' <=> Live(u)
      BY QuietVersions
    <2>3. SeenSound' /\ ServiceHeld'
      BY <2>1 DEF IInv, PassSound, SeenSound, WellFormed, ServiceSound, ServiceHeld
    <2>4. ApplyingSound' /\ FinalizingSound'
      BY <2>1 DEF ApplyingSound, ApplySteps, FinalizingSound, FinalizeSteps
    <2>5. AddingSound'
      BY <2>1, <2>2 DEF IInv, PassSound, AddingSound, AddSteps, Deleted
    <2>6. UpdatingSound'
      BY <2>1 DEF UpdatingSound, UpdateSteps
    <2>7. QED
      BY <2>1, <2>3, <2>4, <2>5, <2>6, PassMoves
  <1>3. QED
    BY <1>1, <1>2

\* A pass that writes the Website, and is over with it.
LEMMA WriteEnds ==
  ASSUME CacheSound', EndPass("ok"), ServiceHeld' PROVE CacheSound' /\ PassSound'
  BY EndPassSound

LEMMA AddFinalizerUpdateSound == IInv /\ AddFinalizerUpdate => CacheSound' /\ PassSound'
  <1> SUFFICES ASSUME IInv, AddFinalizerUpdate PROVE CacheSound' /\ PassSound'
    OBVIOUS
  <1>1. pc = "addUpdate" /\ UNCHANGED << dep, svc, cache, childNews, q, created >>
    BY DEF AddFinalizerUpdate, boundVars
  <1>2. CASE EndPass("ok") /\ UNCHANGED << site, stream >>
    BY <1>1, <1>2, PassEnds
  <1>3. CASE RetryFrom("addGet") /\ UNCHANGED << site, stream >>
    BY <1>1, <1>3, RetrySound
  <1>4. CASE /\ site # NoSite /\ ~Conflict
             /\ SiteBecomes([read EXCEPT !.fin = TRUE]) /\ EndPass("ok")
    <2> DEFINE s == [read EXCEPT !.fin = TRUE]
    <2>1. read = site /\ site \in Sites
      BY <1>1, <1>4 DEF IInv, TypeOK, PassSound, UpdatingSound, UpdateSteps, Conflict
    <2>2. s \in Sites /\ s.uid = site.uid /\ s.del = site.del /\ s.fin
      BY <2>1 DEF Sites
    <2>3. SiteBecomes(s)
      BY <1>4
    <2> HIDE DEF s
    <2>4. \A i \in Index : Deleted(Version(i)) => Live(Version(i).uid)
      BY <1>1 DEF IInv, PassSound, AddingSound, AddSteps
    <2>5. CacheSound'
      BY <1>1, <2>1, <2>2, <2>3, <2>4, ChangeSound DEF IInv
    <2>6. ServiceHeld'
      BY <1>1, <2>2, <2>3 DEF IInv, PassSound, ServiceSound, ServiceHeld, SiteBecomes
    <2>7. QED
      BY <1>4, <2>5, <2>6, WriteEnds
  <1>5. QED
    BY <1>2, <1>3, <1>4 DEF AddFinalizerUpdate

LEMMA StatusUpdateSound == IInv /\ StatusUpdate => CacheSound' /\ PassSound'
  <1> SUFFICES ASSUME IInv, StatusUpdate PROVE CacheSound' /\ PassSound'
    OBVIOUS
  <1>1. pc = "statusUpdate" /\ UNCHANGED << dep, svc, cache, childNews, q, created >>
    BY DEF StatusUpdate, SetReadyCondition, boundVars
  <1>2. CASE EndPass("ok") /\ UNCHANGED << site, stream >>
    BY <1>1, <1>2, PassEnds
  <1>3. CASE RetryFrom("statusGet") /\ UNCHANGED << site, stream >>
    BY <1>1, <1>3, RetrySound
  <1>4. CASE /\ site # NoSite
             /\ SiteBecomes([site EXCEPT !.obs = read.gen, !.ready = depReady])
             /\ EndPass("ok")
    <2> DEFINE s == [site EXCEPT !.obs = read.gen, !.ready = depReady]
    <2>1. read \in Sites /\ site \in Sites /\ depReady \in BOOLEAN
      BY <1>1, <1>4 DEF IInv, TypeOK, PassSound, UpdatingSound, UpdateSteps
    <2>2. s \in Sites /\ s.uid = site.uid /\ s.del = site.del /\ s.fin = site.fin
      BY <2>1 DEF Sites
    <2>3. SiteBecomes(s)
      BY <1>4
    <2> HIDE DEF s
    <2>4. s.del => s.fin
      BY <2>1, <2>2, <1>4 DEF IInv, CacheSound, VersionsWellFormed, WellFormed
    <2>5. CacheSound'
      BY <1>1, <2>1, <2>2, <2>3, <2>4, ChangeSound DEF IInv
    <2>6. ServiceHeld'
      BY <1>1, <1>4, <2>2, <2>3 DEF IInv, PassSound, ServiceSound, ServiceHeld, SiteBecomes
    <2>7. QED
      BY <1>4, <2>5, <2>6, WriteEnds
  <1>5. QED
    BY <1>2, <1>3, <1>4 DEF StatusUpdate, SetReadyCondition

\* Only a Website that the cache, and all that is to come, knows as deleted
\* is let go; that of another one has no finalizer to take.
LEMMA FinalizeUpdateSound == IInv /\ FinalizeUpdate => CacheSound' /\ PassSound'
  <1> SUFFICES ASSUME IInv, FinalizeUpdate PROVE CacheSound' /\ PassSound'
    OBVIOUS
  <1>1. pc = "finUpdate" /\ UNCHANGED << dep, svc, cache, childNews, q, created >>
    BY DEF FinalizeUpdate, boundVars
  <1>2. CASE EndPass("failed") /\ UNCHANGED << site, stream >>
    BY <1>1, <1>2, PassEnds
  <1>3. CASE /\ site # NoSite /\ ~Conflict /\ EndPass("ok")
             /\ SiteBecomes(IF read.del THEN NoSite ELSE [read EXCEPT !.fin = FALSE])
    <2>1. /\ read = site /\ site \in Sites
          /\ site.del \in BOOLEAN /\ site.fin \in BOOLEAN
          /\ site.del => site.fin
      BY <1>1, <1>3 DEF IInv, TypeOK, PassSound, UpdatingSound, UpdateSteps, Conflict, Sites,
                        CacheSound, VersionsWellFormed, WellFormed
    <2>2. CASE site.del
      <3>1. SiteBecomes(NoSite) /\ site' = NoSite
        BY <1>3, <2>1, <2>2 DEF SiteBecomes
      <3>2. Live(seen.uid) /\ site.uid = seen.uid
        BY <1>1, <1>3, <2>1, <2>2 DEF IInv, PassSound, FinalizingSound, FinalizeSteps, Live
      <3>3. \A i \in Index : Deleted(Version(i)) /\ Version(i).uid = site.uid
        BY <1>1, <3>2 DEF IInv, PassSound, FinalizingSound, FinalizeSteps
      <3>4. CacheSound'
        BY <1>1, <2>1, <3>1, <3>3, GoneSound DEF IInv
      <3>5. ServiceHeld'
        BY <1>1, <3>1 DEF IInv, PassSound, ServiceSound, ServiceHeld
      <3>6. QED
        BY <1>3, <3>4, <3>5, WriteEnds
    <2>3. CASE ~site.del
      <3>1. ~site.fin
        BY <1>1, <1>3, <2>1, <2>3 DEF IInv, PassSound, FinalizingSound, FinalizeSteps
      <3>2. [read EXCEPT !.fin = FALSE] = site
        BY <2>1, <3>1 DEF Sites
      <3>3. site' = site /\ stream' = stream
        BY <1>3, <2>1, <2>3, <3>2 DEF SiteBecomes
      <3>4. QED
        BY <1>1, <1>3, <3>3, PassEnds
    <2>4. QED
      BY <2>2, <2>3
  <1>4. QED
    BY <1>2, <1>3 DEF FinalizeUpdate

\* The Service becomes that of the Website the pass is about, which is held.
LEMMA ServiceApplySound == IInv /\ ServiceApply => CacheSound' /\ PassSound'
  <1> SUFFICES ASSUME IInv, ServiceApply PROVE CacheSound' /\ PassSound'
    OBVIOUS
  <1>1. pc = "svcApply" /\ UNCHANGED << site, cache, stream, created >>
    BY DEF ServiceApply, watchVars, boundVars
  <1>2. CASE EndPass("failed") /\ UNCHANGED svc
    BY <1>1, <1>2, PassEnds
  <1>3. CASE Goto("statusDep") /\ svc' = seen.uid
    <2>1. pc' = "statusDep" /\ UNCHANGED << seen, read, moved >>
      BY <1>3 DEF Goto, passVars
    <2>2. Held(seen) /\ Live(seen.uid) /\ site.fin /\ seen.uid <= created
      BY <1>1 DEF IInv, PassSound, ApplyingSound, ApplySteps, SeenSound, WellFormed, Held
    <2>3. SeenSound'
      BY <1>1, <2>1 DEF IInv, PassSound, SeenSound, WellFormed
    <2>4. ServiceHeld'
      BY <1>1, <1>3, <2>2 DEF ServiceHeld
    <2>5. ApplyingSound' /\ AddingSound' /\ FinalizingSound'
      BY <2>1 DEF ApplyingSound, ApplySteps, AddingSound, AddSteps, FinalizingSound, FinalizeSteps
    <2>6. UpdatingSound'
      BY <1>1, <2>1 DEF IInv, PassSound, UpdatingSound, UpdateSteps
    <2>7. QED
      BY <1>1, <2>1, <2>3, <2>4, <2>5, <2>6, PassMoves
  <1>4. QED
    BY <1>2, <1>3 DEF ServiceApply

LEMMA FinalizeDeleteSound == IInv /\ FinalizeDelete => CacheSound' /\ PassSound'
  <1> SUFFICES ASSUME IInv, FinalizeDelete PROVE CacheSound' /\ PassSound'
    OBVIOUS
  <1>1. /\ pc = "finDelete" /\ UNCHANGED << site, cache, stream, created >>
        /\ svc' = NoChild /\ pc' = "finGet" /\ UNCHANGED << seen, read, moved >>
    BY DEF FinalizeDelete, watchVars, boundVars, Goto, passVars
  <1>2. svc' \notin Uids
    BY <1>1, ControllerAssumption
  <1>3. /\ Index' = Index
        /\ \A i \in Index : Version(i)' = Version(i)
        /\ \A u : Live(u)' <=> Live(u)
    BY <1>1, QuietVersions
  <1>4. SeenSound'
    BY <1>1 DEF IInv, PassSound, SeenSound, WellFormed
  <1>5. ServiceHeld'
    BY <1>1, <1>2 DEF ServiceHeld, IInv, TypeOK, Sites
  <1>6. ApplyingSound' /\ AddingSound'
    BY <1>1 DEF ApplyingSound, ApplySteps, AddingSound, AddSteps
  <1>7. FinalizingSound'
    BY <1>1, <1>3 DEF IInv, PassSound, FinalizingSound, FinalizeSteps, Deleted
  <1>8. UpdatingSound'
    BY <1>1 DEF IInv, PassSound, UpdatingSound, UpdateSteps
  <1>9. QED
    BY <1>1, <1>2, <1>4, <1>5, <1>6, <1>7, <1>8, PassMoves

LEMMA WorkerSound == IInv /\ Worker => CacheSound' /\ PassSound'
  <1> SUFFICES ASSUME IInv, Worker PROVE CacheSound' /\ PassSound'
    OBVIOUS
  <1> USE DEF clusterVars, watchVars, boundVars, passVars, Goto
  <1>1. CASE TakeKey
    BY <1>1, MoveOn DEF TakeKey
  <1>2. CASE Lookup
    BY <1>2, LookupSound
  <1>3. CASE PassOk
    BY <1>3, MoveOn DEF PassOk
  <1>4. CASE PassFailed
    BY <1>4, MoveOn DEF PassFailed
  <1>5. CASE AddFinalizerGet
    BY <1>5, PassEnds, ReadSound DEF AddFinalizerGet
  <1>6. CASE AddFinalizerUpdate
    BY <1>6, AddFinalizerUpdateSound
  <1>7. CASE DeploymentOwner
    BY <1>7, PassEnds, MoveOn DEF DeploymentOwner
  <1>8. CASE DeploymentApply
    BY <1>8, PassEnds, MoveOn DEF DeploymentApply
  <1>9. CASE ServiceApply
    BY <1>9, ServiceApplySound
  <1>10. CASE StatusDeployment
    BY <1>10, MoveOn DEF StatusDeployment
  <1>11. CASE StatusGet
    BY <1>11, ReadSound DEF StatusGet
  <1>12. CASE StatusUpdate
    BY <1>12, StatusUpdateSound
  <1>13. CASE FinalizeDelete
    BY <1>13, FinalizeDeleteSound
  <1>14. CASE FinalizeGet
    BY <1>14, ReadSound DEF FinalizeGet
  <1>15. CASE FinalizeUpdate
    BY <1>15, FinalizeUpdateSound
  <1>16. QED
    BY <1>1, <1>2, <1>3, <1>4, <1>5, <1>6, <1>7, <1>8, <1>9, <1>10, <1>11, <1>12,
       <1>13, <1>14, <1>15 DEF Worker

-----------------------------------------------------------------------------
(* The informers, the process and the rest of the cluster *)

LEMMA DeliverSiteInv == IInv /\ DeliverSite => IInv'
  <1> SUFFICES ASSUME IInv, DeliverSite PROVE IInv'
    OBVIOUS
  <1>1. /\ UNCHANGED << site, dep, svc, childNews, pc, seen, read, moved, tries, depReady >>
        /\ UNCHANGED << created, left >>
        /\ stream # << >> /\ cache' = Head(stream) /\ stream' = Tail(stream) /\ q' = Add(q, Key)
    BY DEF DeliverSite, clusterVars, passVars, boundVars
  <1>2. TypeOK'
    <2>1. q' \in Queues
      BY <1>1, AddFields, ControllerAssumption DEF IInv, TypeOK
    <2>2. stream' \in Seq(Views \cup {NoSite}) /\ cache' \in Views \cup {NoSite}
      BY <1>1 DEF IInv, TypeOK
    <2>3. QED
      BY <1>1, <2>1, <2>2 DEF IInv, TypeOK
  <1>3. CacheSound'
    BY DeliverSound DEF IInv
  <1>4. \A i \in Index' : i \in Nat /\ i + 1 \in Index /\ Version(i)' = Version(i + 1)
    BY DeliverVersions DEF IInv
  <1>5. \A u : Live(u)' <=> Live(u)
    BY <1>1 DEF Live
  <1>6. SeenSound' /\ ApplyingSound' /\ UpdatingSound' /\ ServiceSound'
    BY <1>1, <1>5 DEF IInv, PassSound, SeenSound, WellFormed, ApplyingSound, UpdatingSound,
                      ServiceSound
  <1>7. AddingSound'
    BY <1>1, <1>4, <1>5 DEF IInv, PassSound, AddingSound, Deleted
  <1>8. FinalizingSound'
    BY <1>1, <1>4, <1>5 DEF IInv, PassSound, FinalizingSound, Deleted
  <1>9. DownSound'
    BY <1>1 DEF IInv, PassSound, DownSound
  <1>10. QED
    BY <1>2, <1>3, <1>6, <1>7, <1>8, <1>9 DEF IInv, PassSound

\* What a listing finds is the Website as it is.
LEMMA ListedInv ==
  ASSUME IInv, UNCHANGED << site, svc, created, seen, read, moved >>,
         cache' = View(site), stream' = << >>, TypeOK',
         \/ pc' = pc /\ pc # "down"
         \/ pc = "down" /\ pc' = "idle"
  PROVE  IInv'
  <1>1. CacheSound'
    BY FreshSound DEF IInv
  <1>2. \A i \in Index' : i = 0 /\ Version(i)' = View(site)
    BY FreshVersions
  <1>3. \A u : Live(u)' <=> Live(u)
    BY DEF Live
  <1>4. SeenSound' /\ ApplyingSound' /\ UpdatingSound' /\ ServiceSound' /\ DownSound'
    BY <1>3 DEF IInv, PassSound, SeenSound, WellFormed, ApplyingSound, ApplySteps,
                UpdatingSound, UpdateSteps, ServiceSound, DownSound
  <1>5. Deleted(View(site)) => site \in Sites /\ site.del /\ View(site).uid = site.uid /\ Live(site.uid)
    BY ViewFields DEF IInv, TypeOK, Deleted, View, Live
  <1>6. AddingSound'
    BY <1>2, <1>3, <1>5 DEF AddingSound, Deleted
  <1>7. FinalizingSound'
    BY <1>2, <1>3, ViewFields
    DEF IInv, TypeOK, PassSound, FinalizingSound, FinalizeSteps, Deleted, Live
  <1>8. QED
    BY <1>1, <1>4, <1>6, <1>7 DEF IInv, PassSound

LEMMA RelistInv == IInv /\ Relist => IInv'
  <1> SUFFICES ASSUME IInv, Relist PROVE IInv'
    OBVIOUS
  <1>1. /\ UNCHANGED << site, dep, svc, childNews, pc, seen, read, moved, tries, depReady >>
        /\ UNCHANGED << created, left >>
        /\ cache' = View(site) /\ stream' = << >>
    BY DEF Relist, clusterVars, passVars, boundVars
  <1>2. pc # "down"
    BY DEF IInv, PassSound, DownSound, Relist
  <1>3. q' \in Queues
    BY AddFields, ControllerAssumption DEF Relist, IInv, TypeOK
  <1>4. cache' \in Views \cup {NoSite}
    BY <1>1, ViewType DEF IInv, TypeOK
  <1>5. TypeOK'
    BY <1>1, <1>3, <1>4 DEF IInv, TypeOK
  <1>6. QED
    BY <1>1, <1>2, <1>5, ListedInv

LEMMA StartInv == IInv /\ Start => IInv'
  <1> SUFFICES ASSUME IInv, Start PROVE IInv'
    OBVIOUS
  <1>1. /\ UNCHANGED << site, dep, svc, childNews, stream, seen, read, moved, tries, depReady >>
        /\ UNCHANGED << created, left >>
        /\ cache' = View(site) /\ pc = "down" /\ pc' = "idle"
    BY DEF Start, clusterVars, passVars, boundVars
  <1>2. stream' = << >>
    BY <1>1 DEF IInv, PassSound, DownSound
  <1>3. q' \in Queues
    BY AddFields, ControllerAssumption DEF Start, IInv, TypeOK
  <1>4. cache' \in Views \cup {NoSite}
    BY <1>1, ViewType DEF IInv, TypeOK
  <1>5. TypeOK'
    BY <1>1, <1>3, <1>4 DEF IInv, TypeOK
  <1>6. QED
    BY <1>1, <1>2, <1>5, ListedInv

LEMMA CrashInv == IInv /\ Crash => IInv'
  <1> SUFFICES ASSUME IInv, Crash PROVE IInv'
    OBVIOUS
  <1>1. /\ UNCHANGED << site, dep, svc, created >> /\ EndPass("down")
        /\ cache' = NoSite /\ stream' = << >> /\ childNews' = FALSE /\ q' = EmptyQueue
    BY DEF Crash, clusterVars
  <1>2. left' \in [Kinds -> Nat]
    BY SpendType DEF Crash, Kinds, IInv
  <1>3. WorkerType'
    BY <1>1, StepNames, EndPassWorker
  <1>4. q' \in Queues /\ stream' \in Seq(Views \cup {NoSite})
    BY <1>1, EmptyQueueType
  <1>5. TypeOK'
    BY <1>1, <1>2, <1>3, <1>4 DEF IInv, TypeOK, WorkerType, Places
  <1>6. CacheSound'
    BY <1>1, EmptySound DEF IInv
  <1>7. PassSound'
    BY <1>1
    DEF EndPass, IInv, PassSound, SeenSound, WellFormed, ApplyingSound, ApplySteps, AddingSound,
        AddSteps, FinalizingSound, FinalizeSteps, UpdatingSound, UpdateSteps, ServiceSound, DownSound
  <1>8. QED
    BY <1>5, <1>6, <1>7 DEF IInv

LEMMA ApiErrorInv == IInv /\ ApiError => IInv'
  <1> SUFFICES ASSUME IInv, ApiError PROVE IInv'
    OBVIOUS
  <1>1. /\ UNCHANGED << site, dep, svc, cache, stream, childNews, q, created >>
        /\ EndPass("failed")
    BY DEF ApiError, clusterVars, watchVars
  <1>2. left' \in [Kinds -> Nat]
    BY SpendType DEF ApiError, Kinds, IInv
  <1>3. WorkerType'
    BY <1>1, StepNames, EndPassWorker
  <1>4. TypeOK'
    BY <1>1, <1>2, <1>3 DEF IInv, TypeOK, WorkerType, Places
  <1>5. QED
    BY <1>1, <1>4, PassEnds DEF IInv

\* Only the queue, the Deployment, or the news of it.
LEMMA QuietInv ==
  IInv /\ (DeliverChild \/ TimerFires \/ MeddleDeployment \/ CollectDeployment \/ DeploymentReady)
    => IInv'
  <1> SUFFICES ASSUME IInv, \/ DeliverChild \/ TimerFires \/ MeddleDeployment
                            \/ CollectDeployment \/ DeploymentReady
               PROVE IInv'
    OBVIOUS
  <1>1. UNCHANGED << site, cache, stream, created, svc, pc, seen, read, moved, tries, depReady >>
    BY DEF DeliverChild, TimerFires, MeddleDeployment, CollectDeployment, DeploymentReady,
           clusterVars, passVars, boundVars, watchVars
  <1>2. q' \in Queues
    <2>1. q \in Queues /\ Key \in Keys
      BY ControllerAssumption DEF IInv, TypeOK
    <2>2. CASE DeliverChild
      BY <2>1, <2>2, AddFields DEF DeliverChild
    <2>3. CASE TimerFires
      BY <2>1, <2>3, FireFields DEF TimerFires
    <2>4. CASE ~(DeliverChild \/ TimerFires)
      BY <2>1, <2>4 DEF MeddleDeployment, CollectDeployment, DeploymentReady
    <2>5. QED
      BY <2>2, <2>3, <2>4
  <1>3. left' \in [Kinds -> Nat]
    <2>1. CASE MeddleDeployment
      BY <2>1, SpendType DEF MeddleDeployment, Kinds, IInv
    <2>2. CASE ~MeddleDeployment
      BY <2>2 DEF DeliverChild, TimerFires, CollectDeployment, DeploymentReady, boundVars, IInv, TypeOK
    <2>3. QED
      BY <2>1, <2>2
  <1>4. dep' \in Deployments \cup {NoChild} /\ childNews' \in BOOLEAN
    <2>1. CASE DeliverChild \/ TimerFires
      BY <2>1 DEF DeliverChild, TimerFires, clusterVars, watchVars, IInv, TypeOK
    <2>2. CASE ~(DeliverChild \/ TimerFires)
      <3>1. dep \in Deployments \cup {NoChild} /\ TypeOK
        BY DEF IInv, TypeOK
      <3>2. \E d \in Deployments \cup {NoChild} : DepBecomes(d)
        <4>1. CASE MeddleDeployment
          <5>1. dep = NoChild =>
                  [ctl : {NoOwner, Foreign}, spec : {Drift}, ready : {FALSE}] \subseteq Deployments
            BY DEF Deployments
          <5>2. dep # NoChild => [dep EXCEPT !.spec = Drift] \in Deployments
            BY <3>1 DEF Deployments
          <5>3. QED
            BY <4>1, <5>1, <5>2 DEF MeddleDeployment
        <4>2. CASE CollectDeployment
          BY <4>2 DEF CollectDeployment
        <4>3. CASE DeploymentReady
          <5>1. [dep EXCEPT !.ready = TRUE] \in Deployments
            BY <3>1, <4>3 DEF DeploymentReady, Deployments
          <5>2. QED
            BY <4>3, <5>1 DEF DeploymentReady
        <4>4. QED
          BY <2>2, <4>1, <4>2, <4>3
      <3>3. QED
        BY <3>1, <3>2, DepBecomesType
    <2>3. QED
      BY <2>1, <2>2
  <1>5. TypeOK'
    BY <1>1, <1>2, <1>3, <1>4 DEF IInv, TypeOK
  <1>6. QED
    BY <1>1, <1>5, QuietSound DEF IInv

\* The Service changes hands, but not to a Website.
LEMMA ServiceInv == IInv /\ MeddleService => IInv'
  <1> SUFFICES ASSUME IInv, MeddleService PROVE IInv'
    OBVIOUS
  <1>1. /\ UNCHANGED << site, dep, cache, stream, childNews, q, pc, seen, read, moved >>
        /\ UNCHANGED << tries, depReady, created >>
        /\ svc' \in {NoOwner, Foreign, NoChild}
    BY DEF MeddleService, passVars, watchVars
  <1>2. left' \in [Kinds -> Nat]
    BY SpendType DEF MeddleService, Kinds, IInv
  <1>3. TypeOK'
    BY <1>1, <1>2 DEF IInv, TypeOK
  <1>4. svc' \notin Uids
    BY <1>1, ControllerAssumption
  <1>5. CacheSound'
    BY <1>1, CacheSame DEF IInv
  <1>6. ServiceSound'
    BY <1>1, <1>3, <1>4 DEF ServiceSound, TypeOK, Sites
  <1>7. SeenSound' /\ ApplyingSound' /\ AddingSound' /\ FinalizingSound' /\ UpdatingSound' /\ DownSound'
    BY <1>1, QuietVersions
    DEF IInv, PassSound, SeenSound, WellFormed, ApplyingSound, AddingSound, FinalizingSound,
        UpdatingSound, DownSound
  <1>8. QED
    BY <1>3, <1>5, <1>6, <1>7 DEF IInv, PassSound

\* Who writes the Website.
LEMMA SiteWriters ==
  [Next]_vars =>
    \/ site' = site
    \/ AddFinalizerUpdate \/ StatusUpdate \/ FinalizeUpdate
    \/ UserCreate \/ UserEdit \/ UserDelete
  BY DEF Next, System, Mishaps, Worker, TakeKey, Lookup, PassOk, PassFailed, AddFinalizerGet,
         DeploymentOwner, DeploymentApply, ServiceApply, StatusDeployment, StatusGet,
         FinalizeDelete, FinalizeGet, Start, DeliverSite, DeliverChild, TimerFires,
         CollectDeployment, DeploymentReady, MeddleDeployment, MeddleService,
         ApiError, Relist, Crash, clusterVars, vars

LEMMA WorkerWriters ==
  Worker => site' = site \/ AddFinalizerUpdate \/ StatusUpdate \/ FinalizeUpdate
  BY DEF Worker, TakeKey, Lookup, PassOk, PassFailed, AddFinalizerGet, DeploymentOwner,
         DeploymentApply, ServiceApply, StatusDeployment, StatusGet, FinalizeDelete,
         FinalizeGet, clusterVars

-----------------------------------------------------------------------------
(* The theorems *)

LEMMA InitInv == Init => IInv
  <1> SUFFICES ASSUME Init PROVE IInv
    OBVIOUS
  <1>1. TypeOK
    BY InitType
  <1>2. \A i \in Index : Version(i) = NoSite
    BY DEF Init, Index, Version
  <1>3. CacheSound
    BY <1>2 DEF Init, CacheSound, VersionsWellFormed, WellFormed, HeldStays, LetGoKnowingly,
                DeletionStays, OneAtATime, Held, Deleted
  <1>4. PassSound
    BY ControllerAssumption
    DEF Init, PassSound, SeenSound, WellFormed, ApplyingSound, ApplySteps, AddingSound, AddSteps,
        FinalizingSound, FinalizeSteps, UpdatingSound, UpdateSteps, ServiceSound, DownSound
  <1>5. QED
    BY <1>1, <1>3, <1>4 DEF IInv

LEMMA NextInv == IInv /\ [Next]_vars => IInv'
  <1> SUFFICES ASSUME IInv, [Next]_vars PROVE IInv'
    OBVIOUS
  <1>1. CASE Worker
    BY <1>1, WorkerStepType, WorkerSound DEF IInv
  <1>2. CASE Start \/ DeliverSite \/ Relist \/ Crash \/ ApiError
    BY <1>2, StartInv, DeliverSiteInv, RelistInv, CrashInv, ApiErrorInv
  <1>3. CASE UserCreate \/ UserEdit \/ UserDelete
    BY <1>3, UserInv
  <1>4. CASE DeliverChild \/ TimerFires \/ MeddleDeployment \/ CollectDeployment \/ DeploymentReady
    BY <1>4, QuietInv
  <1>5. CASE MeddleService
    BY <1>5, ServiceInv
  <1>6. CASE UNCHANGED vars
    <2>1. TypeOK'
      BY <1>6 DEF vars, clusterVars, watchVars, passVars, boundVars, IInv, TypeOK
    <2>2. UNCHANGED << site, cache, stream, created, svc, pc, seen, read, moved >>
      BY <1>6 DEF vars, clusterVars, watchVars, passVars, boundVars
    <2>3. QED
      BY <2>1, <2>2, QuietSound DEF IInv
  <1>7. QED
    BY <1>1, <1>2, <1>3, <1>4, <1>5, <1>6 DEF Next, System, Mishaps

LEMMA InvHolds == Spec => []IInv
  BY InitInv, NextInv, PTL DEF Spec

\* Every variable keeps its type, and no update is tried more than Attempts times.
THEOREM TypeCorrect == Spec => []TypeOK
  <1>1. IInv => TypeOK
    BY DEF IInv
  <1>2. QED
    BY <1>1, InvHolds, PTL

\* However far the cache is behind, children are created and rewritten only for
\* a Website that still exists and that our finalizer still holds open.
THEOREM AppliesForTheHeld == Spec => []HeldWhileApplying
  <1>1. IInv => HeldWhileApplying
    BY DEF IInv, PassSound, ApplyingSound, ApplySteps, Live, HeldWhileApplying
  <1>2. QED
    BY <1>1, InvHolds, PTL

\* finalize, which names what it deletes and has only a cached deletion to go
\* by, takes nothing of a Website that is not being deleted.
THEOREM FinalizesTheDeleted == Spec => []FinalizeSparesTheLiving
  <1>1. IInv => FinalizeSparesTheLiving
    <2> SUFFICES ASSUME IInv, site # NoSite, ~site.del PROVE
            /\ pc = "finDelete" => svc # site.uid
            /\ pc = "finUpdate" /\ read # NoSite /\ ~Conflict => ~read.fin
      BY DEF FinalizeSparesTheLiving
    <2>1. pc \in FinalizeSteps => ~site.fin
      BY DEF IInv, PassSound, FinalizingSound
    <2>2. pc = "finUpdate" /\ ~moved => read = site
      BY DEF IInv, PassSound, UpdatingSound, UpdateSteps
    <2>3. svc = site.uid => site.fin
      BY DEF IInv, PassSound, ServiceSound
    <2>4. QED
      BY <2>1, <2>2, <2>3 DEF FinalizeSteps, Conflict
  <1>2. QED
    BY <1>1, InvHolds, PTL

\* A Website that leaves, by the last update of finalize or because a user
\* deletes one that nobody holds, has no Service of its own left behind.
THEOREM ServiceGoesFirst == Spec => ServiceCleanedBeforeGone
  <1>1. ASSUME IInv, [Next]_vars, site # NoSite, site' = NoSite \/ site'.uid # site.uid
        PROVE  svc # site.uid
    <2>0. site \in Sites /\ site.uid \in Uids
      BY <1>1 DEF IInv, TypeOK, Sites
    <2>1. CASE site' = site
      BY <1>1, <2>1
    <2>2. CASE FinalizeUpdate
      <3>1. pc = "finUpdate" /\ svc \notin Uids
        BY <1>1, <2>2 DEF FinalizeUpdate, IInv, PassSound, ServiceSound
      <3>2. QED
        BY <2>0, <3>1
    <2>3. CASE UserDelete
      <3>1. ~site.fin
        <4>1. UserWrites(NoSite) \/ \E s \in Sites : UserWrites(s) /\ s.uid = site.uid
          BY <1>1, <2>3, UserDeleteCase DEF IInv
        <4>2. ASSUME NEW s \in Sites, UserWrites(s), s.uid = site.uid PROVE FALSE
          BY <1>1, <4>2, NoSiteIsNone DEF UserWrites, SiteBecomes
        <4>3. CASE site.fin
          BY <1>1, <2>3, <4>2, <4>3, UserDeleteCase DEF IInv
        <4>4. QED
          BY <2>0, <4>3 DEF Sites
      <3>2. QED
        BY <1>1, <3>1 DEF IInv, PassSound, ServiceSound
    <2>4. CASE AddFinalizerUpdate /\ site' # site
      <3>1. site' = [read EXCEPT !.fin = TRUE] /\ read = site
        BY <1>1, <2>4 DEF AddFinalizerUpdate, SiteBecomes, Conflict, IInv, PassSound,
                          UpdatingSound, UpdateSteps
      <3>2. site' \in Sites /\ site'.uid = site.uid
        BY <2>0, <3>1 DEF Sites
      <3>3. QED
        BY <1>1, <3>2, NoSiteIsNone
    <2>5. CASE StatusUpdate /\ site' # site
      <3>1. read \in Sites /\ depReady \in BOOLEAN
        BY <1>1, <2>5 DEF StatusUpdate, IInv, TypeOK, PassSound, UpdatingSound, UpdateSteps
      <3>2. site' = [site EXCEPT !.obs = read.gen, !.ready = depReady]
        BY <2>5 DEF StatusUpdate, SetReadyCondition, SiteBecomes
      <3>3. site' \in Sites /\ site'.uid = site.uid
        BY <2>0, <3>1, <3>2 DEF Sites
      <3>4. QED
        BY <1>1, <3>3, NoSiteIsNone
    <2>6. CASE UserEdit
      <3>1. \E s \in Sites : UserWrites(s) /\ s.uid = site.uid
        BY <1>1, <2>6, UserEditCase DEF IInv
      <3>2. site' \in Sites /\ site'.uid = site.uid
        BY <3>1 DEF UserWrites, SiteBecomes
      <3>3. QED
        BY <1>1, <3>2, NoSiteIsNone
    <2>7. QED
      BY <1>1, <2>1, <2>2, <2>3, <2>4, <2>5, <2>6, SiteWriters DEF UserCreate
  <1>2. IInv /\ [Next]_vars =>
          [site # NoSite /\ (site' = NoSite \/ site'.uid # site.uid) => svc # site.uid]_vars
    BY <1>1
  <1>3. QED
    BY <1>2, InvHolds, PTL DEF Spec, ServiceCleanedBeforeGone

\* What the controller writes keeps what a user has asked for, whenever asked.
THEOREM UpdatesKeepEdits == Spec => NoLostUpdate
  <1> DEFINE Kept == /\ site'.uid = site.uid
                     /\ << site'.spec, site'.gen, site'.paused, site'.del >>
                          = << site.spec, site.gen, site.paused, site.del >>
  <1>1. ASSUME IInv, Worker, site # NoSite, site' # NoSite
        PROVE  Kept
    <2>0. site \in Sites
      BY <1>1 DEF IInv, TypeOK
    <2>1. CASE site' = site
      BY <2>1
    <2>2. CASE AddFinalizerUpdate /\ site' # site
      <3>1. site' = [read EXCEPT !.fin = TRUE] /\ read = site
        BY <1>1, <2>2 DEF AddFinalizerUpdate, SiteBecomes, Conflict, IInv, PassSound,
                          UpdatingSound, UpdateSteps
      <3>2. QED
        BY <2>0, <3>1 DEF Sites
    <2>3. CASE StatusUpdate /\ site' # site
      <3>1. site' = [site EXCEPT !.obs = read.gen, !.ready = depReady]
        BY <2>3 DEF StatusUpdate, SetReadyCondition, SiteBecomes
      <3>2. QED
        BY <2>0, <3>1 DEF Sites
    <2>4. CASE FinalizeUpdate /\ site' # site
      <3>1. site' = [read EXCEPT !.fin = FALSE] /\ read = site
        BY <1>1, <2>4 DEF FinalizeUpdate, SiteBecomes, Conflict, IInv, PassSound,
                          UpdatingSound, UpdateSteps
      <3>2. QED
        BY <2>0, <3>1 DEF Sites
    <2>5. QED
      BY <1>1, <2>1, <2>2, <2>3, <2>4, WorkerWriters
  <1>2. IInv => [Worker /\ site # NoSite /\ site' # NoSite => Kept]_vars
    BY <1>1
  <1>3. QED
    BY <1>2, InvHolds, PTL DEF NoLostUpdate

\* A Deployment that something else controls is never written, whoever created
\* it and whenever: the check of ownedByUs need not be the last word.
THEOREM LeavesForeignDeployments == Spec => ForeignDeploymentUntouched
  <1>1. Worker /\ dep # NoChild /\ dep.ctl = Foreign => dep' = dep
    <2> SUFFICES ASSUME Worker, dep # NoChild, dep.ctl = Foreign PROVE dep' = dep
      OBVIOUS
    <2>1. CASE DeploymentApply
      BY <2>1 DEF DeploymentApply, MayClaim, OwnerRefIsController
    <2>2. CASE ~DeploymentApply
      BY <2>2 DEF Worker, TakeKey, Lookup, PassOk, PassFailed, AddFinalizerGet, AddFinalizerUpdate,
         DeploymentOwner, ServiceApply, StatusDeployment, StatusGet, StatusUpdate,
         FinalizeDelete, FinalizeGet, FinalizeUpdate, clusterVars
    <2>3. QED
      BY <2>1, <2>2
  <1>2. [Worker /\ dep # NoChild /\ dep.ctl = Foreign => dep' = dep]_vars
    BY <1>1
  <1>3. QED
    BY <1>2, PTL DEF ForeignDeploymentUntouched

-----------------------------------------------------------------------------
(* What it implements.                                                     *)

\* The Deployment that ownedByUs has looked at may have gone or have come to
\* be somebody else's since, but is no other Website's.
AdoptSound ==
  pc = "depApply" /\ dep # NoChild => dep.ctl \in {NoOwner, Foreign, seen.uid}

LEMMA AdoptKept ==
  ASSUME IInv, AdoptSound, [Next]_vars
  PROVE  AdoptSound'
  <1>0. dep \in Deployments \cup {NoChild}
    BY DEF IInv, TypeOK
  <1>1. CASE DeploymentOwner
    BY <1>1 DEF DeploymentOwner, AdoptSound, Goto, EndPass, passVars, clusterVars
  <1>2. CASE pc' # "depApply"
    BY <1>2 DEF AdoptSound
  <1>3. CASE pc' = pc /\ seen' = seen /\ (dep' = dep \/ dep' = NoChild)
    BY <1>3 DEF AdoptSound
  <1>4. CASE MeddleDeployment
    <2>1. pc' = pc /\ seen' = seen
      BY <1>4 DEF MeddleDeployment, passVars
    <2>2. \/ dep' = NoChild
          \/ dep = NoChild /\ dep'.ctl \in {NoOwner, Foreign}
          \/ dep # NoChild /\ dep' = [dep EXCEPT !.spec = Drift]
      BY <1>4 DEF MeddleDeployment, DepBecomes
    <2>3. dep # NoChild => [dep EXCEPT !.spec = Drift].ctl = dep.ctl
      BY <1>0 DEF Deployments
    <2>4. QED
      BY <2>1, <2>2, <2>3 DEF AdoptSound
  <1>5. CASE DeploymentReady
    <2>1. /\ pc' = pc /\ seen' = seen /\ dep # NoChild
          /\ dep' = [dep EXCEPT !.ready = TRUE]
      BY <1>5 DEF DeploymentReady, DepBecomes, passVars
    <2>2. dep'.ctl = dep.ctl
      BY <1>0, <2>1 DEF Deployments
    <2>3. QED
      BY <2>1, <2>2 DEF AdoptSound
  <1>6. CASE CollectDeployment
    BY <1>3, <1>6 DEF CollectDeployment, DepBecomes, passVars
  <1>7. CASE UserCreate \/ UserEdit \/ UserDelete
    BY <1>3, <1>7 DEF UserCreate, UserEdit, UserDelete, UserWrites
  <1>8. CASE \/ Start \/ DeliverSite \/ DeliverChild \/ TimerFires \/ MeddleService
             \/ ApiError \/ Relist \/ Crash \/ UNCHANGED vars
    BY <1>2, <1>3, <1>8
    DEF Start, DeliverSite, DeliverChild, TimerFires, MeddleService, ApiError, Relist, Crash,
        EndPass, passVars, clusterVars, vars
  <1>9. CASE Worker /\ ~DeploymentOwner
    <2>1. CASE TakeKey \/ Lookup \/ PassOk \/ PassFailed
      BY <1>2, <2>1 DEF TakeKey, Lookup, PassOk, PassFailed, Goto, EndPass, Branch
    <2>2. CASE AddFinalizerGet \/ StatusGet \/ FinalizeGet
      BY <1>2, <2>2 DEF AddFinalizerGet, StatusGet, FinalizeGet, ReadFor, EndPass
    <2>3. CASE AddFinalizerUpdate \/ StatusUpdate \/ FinalizeUpdate
      BY <1>2, <2>3 DEF AddFinalizerUpdate, StatusUpdate, FinalizeUpdate, RetryFrom, EndPass
    <2>4. CASE DeploymentApply \/ ServiceApply \/ StatusDeployment \/ FinalizeDelete
      BY <1>2, <2>4
      DEF DeploymentApply, ServiceApply, StatusDeployment, FinalizeDelete, Goto, EndPass
    <2>5. QED
      BY <1>9, <2>1, <2>2, <2>3, <2>4 DEF Worker
  <1>10. QED
    BY <1>1, <1>4, <1>5, <1>6, <1>7, <1>8, <1>9 DEF Next, System, Mishaps

StatusSteps == {"statusDep", "statusGet", "statusUpdate"}

\* A pass that makes children or reports on them rests on a version that asks
\* for them, of the Website that is there and held to the end of the pass.
AskedSound ==
  /\ pc \in ApplySteps \cup StatusSteps =>
       Held(seen) /\ ~seen.paused /\ Live(seen.uid) /\ site.fin
  /\ pc \in {"svcApply"} \cup StatusSteps => seen.spec \notin BadSpecs

ActSound == AdoptSound /\ AskedSound

LEMMA AskedKept ==
  ASSUME IInv, AskedSound, [Next]_vars
  PROVE  AskedSound'
  <1>0. site \in Sites \cup {NoSite} /\ created \in Nat
    BY ControllerAssumption DEF IInv, TypeOK
  <1>1. CASE pc' \notin ApplySteps \cup StatusSteps
    BY <1>1 DEF AskedSound, ApplySteps
  <1>2. CASE Lookup /\ pc' \in ApplySteps \cup StatusSteps
    <2>1. /\ cache # NoSite /\ seen' = cache /\ pc' = Branch(cache) /\ UNCHANGED site
      BY <1>2 DEF Lookup, EndPass, ApplySteps, StatusSteps, clusterVars
    <2>2. pc' = "depGet" /\ cache.fin /\ ~cache.del /\ ~cache.paused
      BY <1>2, <2>1 DEF Branch, ApplySteps, StatusSteps
    <2>3. Held(Version(0)) => Live(Version(0).uid) /\ site.fin
      BY DEF IInv, TypeOK, CacheSound, HeldStays, Index
    <2>4. QED
      BY <2>1, <2>2, <2>3 DEF AskedSound, Held, Live, Version, StatusSteps
  <1>3. CASE /\ seen' = seen /\ pc \in ApplySteps \cup StatusSteps
             /\ site' = site
             /\ pc' \in {"svcApply"} \cup StatusSteps =>
                  pc \in {"svcApply"} \cup StatusSteps \/ seen.spec \notin BadSpecs
    BY <1>3 DEF AskedSound, Held, Live
  <1>4. CASE UserCreate \/ UserEdit \/ UserDelete
    <2>1. pc' = pc /\ seen' = seen
      BY <1>4 DEF UserCreate, UserEdit, UserDelete, UserWrites
    <2>2. CASE pc \in ApplySteps \cup StatusSteps
      <3>1. site # NoSite /\ site.fin /\ site \in Sites /\ site.uid = seen.uid
        BY <1>0, <2>2 DEF AskedSound, Live
      <3>2. /\ site' # NoSite /\ site'.fin /\ site'.uid = site.uid
        <4>1. \E s \in Sites : UserWrites(s) /\ s.uid = site.uid /\ s.fin
          BY <1>4, <3>1, UserEditCase, UserDeleteCase DEF IInv, UserCreate
        <4>2. QED
          BY <4>1, NoSiteIsNone DEF UserWrites, SiteBecomes
      <3>3. QED
        BY <2>1, <2>2, <3>1, <3>2 DEF AskedSound, Held, Live
    <2>3. CASE pc \notin ApplySteps \cup StatusSteps
      BY <1>1, <2>1, <2>3
    <2>4. QED
      BY <2>2, <2>3
  <1>5. CASE \/ MeddleDeployment \/ MeddleService \/ DeploymentReady \/ CollectDeployment
             \/ DeliverSite \/ DeliverChild \/ TimerFires \/ Relist \/ UNCHANGED vars
    <2>1. pc' = pc /\ seen' = seen /\ site' = site
      BY <1>5 DEF MeddleDeployment, MeddleService, DeploymentReady, CollectDeployment,
                  DeliverSite, DeliverChild, TimerFires, Relist, passVars, clusterVars, vars
    <2>2. QED
      BY <1>1, <1>3, <2>1
  <1>6. CASE Start \/ Crash \/ ApiError \/ TakeKey \/ PassOk \/ PassFailed
    BY <1>1, <1>6 DEF Start, Crash, ApiError, TakeKey, PassOk, PassFailed, Goto, EndPass,
                      ApplySteps, StatusSteps
  <1>7. CASE \/ AddFinalizerGet \/ AddFinalizerUpdate \/ StatusUpdate
             \/ FinalizeDelete \/ FinalizeGet \/ FinalizeUpdate
    <2>1. pc' \notin ApplySteps \cup StatusSteps \/ (StatusUpdate /\ pc' = "statusGet")
      BY <1>7 DEF AddFinalizerGet, AddFinalizerUpdate, StatusUpdate, FinalizeDelete, FinalizeGet,
                  FinalizeUpdate, ReadFor, RetryFrom, Goto, EndPass, ApplySteps, StatusSteps
    <2>2. StatusUpdate /\ pc' = "statusGet" => seen' = seen /\ site' = site /\ pc = "statusUpdate"
      BY DEF StatusUpdate, RetryFrom, EndPass
    <2>3. QED
      BY <1>1, <1>3, <2>1, <2>2 DEF StatusSteps
  <1>8. CASE DeploymentOwner \/ DeploymentApply \/ ServiceApply \/ StatusDeployment \/ StatusGet
    <2>1. \/ pc' \notin ApplySteps \cup StatusSteps
          \/ /\ seen' = seen /\ site' = site
             /\ \/ pc = "depGet" /\ pc' = "depApply"
                \/ pc = "depApply" /\ pc' = "svcApply" /\ seen.spec \notin BadSpecs
                \/ pc = "svcApply" /\ pc' = "statusDep"
                \/ pc = "statusDep" /\ pc' = "statusGet"
                \/ pc = "statusGet" /\ pc' = "statusUpdate"
      BY <1>8 DEF DeploymentOwner, DeploymentApply, ServiceApply, StatusDeployment, StatusGet,
                  ReadFor, Goto, EndPass, ApplySteps, StatusSteps, passVars, clusterVars
    <2>2. QED
      BY <1>1, <1>3, <2>1 DEF ApplySteps, StatusSteps
  <1>9. QED
    BY <1>1, <1>2, <1>4, <1>5, <1>6, <1>7, <1>8 DEF Next, System, Mishaps, Worker

\* What such a pass rests on is one of the versions.
LEMMA SeenAsks ==
  ASSUME Held(seen), ~seen.paused, Live(seen.uid)
  PROVE  seen \in Versions /\ seen.spec \in {v.spec : v \in Versions}
  <1>1. seen \in Versions
    BY DEF Versions, Known, Held, Live
  <1>2. QED
    BY <1>1

\* Each call of the worker is an act of the controller of WebsiteLife, or changes
\* nothing.
LEMMA WorkerActs ==
  ASSUME IInv, ActSound, Worker
  PROVE  [Life!Acts]_(Life!objects)
  <1>0. /\ site \in Sites \cup {NoSite} /\ dep \in Deployments \cup {NoChild}
        /\ seen \in Views \cup {NoSite} /\ depReady \in BOOLEAN
    BY DEF IInv, TypeOK
  <1>1. CASE \/ TakeKey \/ Lookup \/ PassOk \/ PassFailed \/ AddFinalizerGet \/ DeploymentOwner
             \/ StatusDeployment \/ StatusGet \/ FinalizeGet
    BY <1>1 DEF TakeKey, Lookup, PassOk, PassFailed, AddFinalizerGet, DeploymentOwner,
                StatusDeployment, StatusGet, FinalizeGet, clusterVars, boundVars, Life!objects
  <1>2. CASE AddFinalizerUpdate /\ site' # site
    <2>1. /\ site' = [read EXCEPT !.fin = TRUE] /\ read = site /\ site # NoSite /\ ~read.fin
          /\ UNCHANGED << dep, svc, created >>
      BY <1>2 DEF AddFinalizerUpdate, SiteBecomes, Conflict, IInv, PassSound, UpdatingSound,
                  UpdatingSound, UpdateSteps, boundVars
    <2>2. ~site.del
      BY <1>0, <2>1 DEF IInv, CacheSound, VersionsWellFormed, WellFormed
    <2>3. Life!Hold
      BY <2>1, <2>2 DEF Life!Hold
    <2>4. QED
      BY <2>3 DEF Life!Acts
  <1>3. CASE StatusUpdate /\ site' # site
    <2>1. /\ site' = [site EXCEPT !.obs = read.gen, !.ready = depReady] /\ read = site
          /\ site # NoSite /\ UNCHANGED << dep, svc, created >>
      BY <1>3 DEF StatusUpdate, SetReadyCondition, SiteBecomes, Conflict, IInv, PassSound,
                  UpdatingSound, UpdateSteps, boundVars
    <2>2. pc = "statusUpdate"
      BY <1>3 DEF StatusUpdate
    <2>3. {v.spec : v \in Versions} \ BadSpecs # {}
      BY <2>2, SeenAsks DEF ActSound, AskedSound, StatusSteps
    <2>4. depReady \in Readings
      BY <2>2 DEF Readings
    <2>5. Life!Report
      BY <1>0, <2>1, <2>3, <2>4 DEF Life!Report
    <2>6. QED
      BY <2>5 DEF Life!Acts
  <1>4. CASE FinalizeUpdate /\ site' # site
    <2>1. /\ pc = "finUpdate" /\ site # NoSite /\ read = site
          /\ site' = IF site.del THEN NoSite ELSE [site EXCEPT !.fin = FALSE]
          /\ UNCHANGED << dep, svc, created >>
      BY <1>4 DEF FinalizeUpdate, SiteBecomes, Conflict, IInv, PassSound, UpdatingSound,
                  UpdatingSound, UpdateSteps, boundVars
    <2>2. svc \notin Uids /\ (~site.del => ~site.fin)
      BY <2>1 DEF IInv, PassSound, ServiceSound, FinalizingSound, FinalizeSteps
    <2>3. site.del
      BY <1>0, <1>4, <2>1, <2>2 DEF Sites
    <2>4. Life!LetGo
      BY <2>1, <2>2, <2>3 DEF Life!LetGo, Uids
    <2>5. QED
      BY <2>4 DEF Life!Acts
  <1>5. CASE DeploymentApply /\ dep' # dep
    <2>1. /\ pc = "depApply" /\ seen.spec \notin BadSpecs
          /\ dep # NoChild => dep.ctl # Foreign
          /\ \E r \in BOOLEAN : /\ r => dep # NoChild /\ dep.ready
                                /\ dep' = [ctl |-> seen.uid, spec |-> seen.spec, ready |-> r]
          /\ UNCHANGED << site, svc, created >>
      BY <1>0, <1>5
      DEF DeploymentApply, DepBecomes, MayClaim, OwnerRefIsController, boundVars, Deployments
    <2>2. /\ site # NoSite /\ site.fin /\ site.uid = seen.uid /\ seen # NoSite
      BY <2>1 DEF IInv, PassSound, ApplyingSound, ApplySteps, Live, Held
    <2>3. seen.spec \in {v.spec : v \in Versions}
      BY <2>1, SeenAsks DEF ActSound, AskedSound, ApplySteps
    <2>4. dep # NoChild => dep.ctl \in {NoOwner, site.uid}
      BY <2>1, <2>2 DEF ActSound, AdoptSound
    <2>5. Life!MakeDeployment
      BY <2>1, <2>2, <2>3, <2>4 DEF Life!MakeDeployment
    <2>6. QED
      BY <2>5 DEF Life!Acts
  <1>6. CASE ServiceApply /\ svc' # svc
    <2>1. pc = "svcApply" /\ svc # Foreign /\ svc' = seen.uid /\ UNCHANGED << site, dep, created >>
      BY <1>6, ControllerAssumption
      DEF ServiceApply, MayClaim, OwnerRefIsController, boundVars
    <2>2. site # NoSite /\ site.fin /\ site.uid = seen.uid
      BY <2>1 DEF IInv, PassSound, ApplyingSound, ApplySteps, Live
    <2>3. {v.spec : v \in Versions} \ BadSpecs # {}
      BY <2>1, SeenAsks DEF ActSound, AskedSound, ApplySteps
    <2>4. Life!MakeService
      BY <2>1, <2>2, <2>3 DEF Life!MakeService
    <2>5. QED
      BY <2>4 DEF Life!Acts
  <1>7. CASE FinalizeDelete
    <2>1. pc = "finDelete" /\ svc' = NoChild /\ UNCHANGED << site, dep, created >>
      BY <1>7 DEF FinalizeDelete, boundVars
    <2>2. site # NoSite /\ svc = site.uid => site.del
      BY <2>1 DEF IInv, PassSound, ServiceSound, FinalizingSound, FinalizeSteps
    <2>3. Life!CleanUp
      BY <2>1, <2>2 DEF Life!CleanUp
    <2>4. QED
      BY <2>3 DEF Life!Acts
  <1>8. CASE \/ (AddFinalizerUpdate \/ StatusUpdate \/ FinalizeUpdate) /\ site' = site
             \/ DeploymentApply /\ dep' = dep
             \/ ServiceApply /\ svc' = svc
    BY <1>8 DEF AddFinalizerUpdate, StatusUpdate, FinalizeUpdate, DeploymentApply, ServiceApply,
                boundVars, Life!objects
  <1>9. QED
    BY <1>1, <1>2, <1>3, <1>4, <1>5, <1>6, <1>7, <1>8 DEF Worker

\* Nobody else's step is anything but what others may do.
LEMMA OthersAct ==
  ASSUME IInv, [Next]_vars, ~Worker
  PROVE  [Life!Others]_(Life!objects)
  <1>1. CASE \/ Start \/ DeliverSite \/ DeliverChild \/ TimerFires
             \/ ApiError \/ Relist \/ Crash \/ UNCHANGED vars
    BY <1>1 DEF Start, DeliverSite, DeliverChild, TimerFires, ApiError, Relist, Crash,
                clusterVars, boundVars, vars, Life!objects
  <1>2. CASE UserCreate
    <2>1. Life!Create
      BY <1>2 DEF UserCreate, UserWrites, SiteBecomes, Life!Create
    <2>2. QED
      BY <2>1 DEF Life!Others
  <1>3. CASE UserEdit
    <2>1. Life!Edit
      BY <1>3 DEF UserEdit, UserWrites, SiteBecomes, Life!Edit
    <2>2. QED
      BY <2>1 DEF Life!Others
  <1>4. CASE UserDelete
    <2>1. Life!Delete
      BY <1>4 DEF UserDelete, UserWrites, SiteBecomes, Life!Delete, boundVars
    <2>2. QED
      BY <2>1 DEF Life!Others
  <1>5. CASE MeddleDeployment \/ MeddleService
    <2>1. Life!Meddle
      BY <1>5 DEF MeddleDeployment, MeddleService, DepBecomes, Life!Meddle
    <2>2. QED
      BY <2>1 DEF Life!Others
  <1>6. CASE CollectDeployment
    <2>1. Life!Collect
      BY <1>6 DEF CollectDeployment, Orphaned, Uids, DepBecomes, Life!Collect, boundVars
    <2>2. QED
      BY <2>1 DEF Life!Others
  <1>7. CASE DeploymentReady
    <2>1. Life!Roll
      BY <1>7 DEF DeploymentReady, DepBecomes, Life!Roll, boundVars
    <2>2. QED
      BY <2>1 DEF Life!Others
  <1>8. QED
    BY <1>1, <1>2, <1>3, <1>4, <1>5, <1>6, <1>7 DEF Next, System, Mishaps

\* The Website of the name is the one there was, or a new one.
LEMMA SiteStaysOrIsNew ==
  ASSUME IInv, [Life!Acts \/ Life!Others]_(Life!objects), site' # NoSite
  PROVE  \/ site # NoSite /\ site'.uid = site.uid /\ created' = created
         \/ created' = created + 1 /\ site'.uid = created + 1
  <1>0. site \in Sites \cup {NoSite} /\ created \in Nat
    BY ControllerAssumption DEF IInv, TypeOK
  <1>1. CASE Life!Create
    BY <1>1 DEF Life!Create
  <1>2. CASE Life!Hold \/ Life!Report \/ Life!Edit \/ Life!Delete
    BY <1>0, <1>2, NoSiteIsNone DEF Life!Hold, Life!Report, Life!Edit, Life!Delete, Sites
  <1>3. CASE Life!LetGo
    BY <1>3 DEF Life!LetGo
  <1>4. CASE site' = site /\ created' = created
    BY <1>4
  <1>5. CASE \/ Life!MakeDeployment \/ Life!MakeService \/ Life!CleanUp
             \/ Life!Meddle \/ Life!Collect \/ Life!Roll \/ UNCHANGED Life!objects
    BY <1>4, <1>5 DEF Life!MakeDeployment, Life!MakeService, Life!CleanUp, Life!Meddle,
                      Life!Collect, Life!Roll, Life!objects
  <1>6. QED
    BY <1>1, <1>2, <1>3, <1>5 DEF Life!Acts, Life!Others

\* A step adds nothing to what is known but the Website as it leaves it.
LEMMA KnownGrows ==
  ASSUME IInv, [Next]_vars
  PROVE  Known' \subseteq Known \cup {View(site'), NoSite}
  <1>0. stream \in Seq(Views \cup {NoSite})
    BY DEF IInv, TypeOK
  <1> DEFINE Sent(s) == {s[i] : i \in DOMAIN s}
  <1>1. SUFFICES /\ Sent(stream') \subseteq Known \cup {View(site')}
                 /\ cache' \in Known \cup {View(site'), NoSite}
                 /\ seen' \in Known \cup {NoSite}
    BY DEF Known, View
  <1>2. ASSUME NEW s, SiteBecomes(s) PROVE Sent(stream') \subseteq Known \cup {View(site')}
    <2>1. site' = s /\ (stream' = stream \/ stream' = Append(stream, View(s)))
      BY <1>2 DEF SiteBecomes
    <2>2. Sent(Append(stream, View(s))) \subseteq Sent(stream) \cup {View(s)}
      BY <1>0
    <2>3. View(s) = View(site')
      BY <2>1 DEF View
    <2>4. QED
      BY <2>1, <2>2, <2>3 DEF Known
  <1>3. stream' = stream => Sent(stream') \subseteq Known \cup {View(site')}
    BY DEF Known
  <1>4. stream' = << >> => Sent(stream') \subseteq Known \cup {View(site')}
    OBVIOUS
  <1>5. CASE AddFinalizerUpdate \/ StatusUpdate \/ FinalizeUpdate
    BY <1>2, <1>3, <1>5
    DEF AddFinalizerUpdate, StatusUpdate, SetReadyCondition, FinalizeUpdate, EndPass, RetryFrom, Known
  <1>6. CASE UserCreate \/ UserEdit \/ UserDelete
    BY <1>2, <1>6 DEF UserCreate, UserEdit, UserDelete, UserWrites, Known
  <1>7. CASE DeliverSite
    <2>1. Len(stream) \in Nat /\ Len(stream) > 0 /\ cache' = stream[1] /\ stream' = Tail(stream)
      BY <1>0, <1>7 DEF DeliverSite
    <2>2. Sent(stream') \subseteq Sent(stream) /\ cache' \in Sent(stream)
      BY <1>0, <2>1
    <2>3. QED
      BY <1>7, <2>2 DEF DeliverSite, passVars, Known
  <1>8. CASE Relist \/ Crash
    BY <1>4, <1>8 DEF Relist, Crash, EndPass, View, passVars, clusterVars, Known
  <1>9. CASE Start
    BY <1>3, <1>9 DEF Start, View, passVars, clusterVars, Known
  <1>10. CASE \/ Worker /\ ~AddFinalizerUpdate /\ ~StatusUpdate /\ ~FinalizeUpdate
              \/ ApiError \/ DeliverChild \/ TimerFires \/ CollectDeployment \/ DeploymentReady
              \/ MeddleDeployment \/ MeddleService \/ UNCHANGED vars
    <2>1. stream' = stream /\ cache' = cache /\ seen' \in {seen, cache, NoSite}
      BY <1>10
      DEF Worker, TakeKey, Lookup, PassOk, PassFailed, AddFinalizerGet, DeploymentOwner,
          DeploymentApply, ServiceApply, StatusDeployment, StatusGet, FinalizeDelete, FinalizeGet,
          ApiError, DeliverChild, TimerFires, CollectDeployment, DeploymentReady,
          MeddleDeployment, MeddleService, ReadFor, Goto, EndPass, passVars, watchVars, vars
    <2>2. QED
      BY <1>3, <2>1 DEF Known
  <1>11. QED
    BY <1>5, <1>6, <1>7, <1>8, <1>9, <1>10 DEF Next, System, Mishaps

\* What is known is of no Website that is still to come.
LEMMA KnownIsOld ==
  ASSUME IInv, NEW v \in Known, v # NoSite
  PROVE  v.uid <= created
  <1>0. site \in Sites \cup {NoSite} /\ stream \in Seq(Views \cup {NoSite})
    BY DEF IInv, TypeOK
  <1>1. \A i \in Index : WellFormed(Version(i))
    BY DEF IInv, CacheSound, VersionsWellFormed
  <1>2. CASE v = View(site)
    BY <1>0, <1>2, ViewFields DEF View, IInv, CacheSound, VersionsWellFormed, WellFormed
  <1>3. CASE v = cache
    <2>1. 0 \in Index
      BY <1>0 DEF Index
    <2>2. QED
      BY <1>1, <1>3, <2>1 DEF Version, WellFormed
  <1>4. CASE v = seen
    BY <1>4 DEF IInv, PassSound, SeenSound, WellFormed
  <1>5. ASSUME NEW i \in DOMAIN stream, v = stream[i] PROVE v.uid <= created
    <2>1. i \in Index /\ i # 0
      BY <1>0 DEF Index
    <2>2. QED
      BY <1>1, <1>5, <2>1 DEF Version, WellFormed
  <1>6. QED
    BY <1>2, <1>3, <1>4, <1>5 DEF Known

\* A pass reports the readiness that StatusDeployment has read.
LEMMA ReportersRead ==
  ASSUME [Next]_vars, pc' \in {"statusGet", "statusUpdate"}
  PROVE  \/ pc \in {"statusGet", "statusUpdate"} /\ depReady' = depReady
         \/ depReady' = (dep # NoChild /\ dep.ready)
  <1>1. CASE StatusDeployment
    BY <1>1 DEF StatusDeployment
  <1>2. CASE StatusGet \/ StatusUpdate
    BY <1>2 DEF StatusGet, StatusUpdate, ReadFor, RetryFrom, EndPass
  <1>3. CASE Worker /\ ~StatusDeployment /\ ~StatusGet /\ ~StatusUpdate
    BY <1>3
    DEF Worker, TakeKey, Lookup, PassOk, PassFailed, AddFinalizerGet, AddFinalizerUpdate,
        DeploymentOwner, DeploymentApply, ServiceApply, FinalizeDelete, FinalizeGet, FinalizeUpdate,
        Branch, ReadFor, RetryFrom, Goto, EndPass
  <1>4. CASE \/ UserCreate \/ UserEdit \/ UserDelete \/ MeddleDeployment \/ MeddleService
             \/ DeploymentReady \/ CollectDeployment \/ DeliverSite \/ DeliverChild
             \/ TimerFires \/ Relist \/ UNCHANGED vars
    BY <1>4 DEF UserCreate, UserEdit, UserDelete, UserWrites, MeddleDeployment, MeddleService,
                DeploymentReady, CollectDeployment, DeliverSite, DeliverChild, TimerFires, Relist,
                passVars, vars
  <1>5. CASE Start \/ Crash \/ ApiError
    BY <1>5 DEF Start, Crash, ApiError, EndPass
  <1>6. QED
    BY <1>1, <1>2, <1>3, <1>4, <1>5 DEF Next, System, Mishaps

\* Nor is anything remembered that the Website has not asked for, or that its
\* Deployment has not shown.
LEMMA StepRemembers ==
  ASSUME IInv, IInv', [Next]_vars, [Life!Acts \/ Life!Others]_(Life!objects)
  PROVE  Life!Remembers
  <1> DEFINE Asked == {v.spec : v \in Versions}
  <1>0. /\ site \in Sites \cup {NoSite} /\ site' \in Sites \cup {NoSite}
        /\ created \in Nat
    BY ControllerAssumption DEF IInv, TypeOK
  <1>1. Life!Asks(site') \subseteq Asked'
    <2> SUFFICES ASSUME site' # NoSite, ~site'.del, ~site'.paused PROVE site'.spec \in Asked'
      BY DEF Life!Asks
    <2>1. /\ View(site') # NoSite /\ View(site').uid = site'.uid
          /\ View(site').spec = site'.spec
          /\ ~View(site').del /\ ~View(site').paused
      BY <1>0, ViewFields
    <2>2. View(site)' = View(site')
      BY DEF View
    <2>3. View(site') \in Versions'
      BY <2>1, <2>2 DEF Versions, Known
    <2>4. QED
      BY <2>1, <2>3
  <1>2. ASSUME NEW v \in Versions', v.spec \notin Life!Asks(site')
        PROVE  created' = created /\ site' # NoSite /\ v \in Versions
    <2>1. /\ v \in Known' /\ v # NoSite /\ site' # NoSite
          /\ v.uid = site'.uid /\ ~v.del /\ ~v.paused
      BY <1>2 DEF Versions
    <2>2. v # View(site')
      BY <1>0, <1>2, <2>1, ViewFields DEF Life!Asks
    <2>3. v \in Known
      BY <2>1, <2>2, KnownGrows
    <2>4. v.uid <= created
      BY <2>1, <2>3, KnownIsOld
    <2>5. created' = created /\ site # NoSite /\ site'.uid = site.uid
      BY <1>0, <2>1, <2>4, SiteStaysOrIsNew
    <2>6. QED
      BY <2>1, <2>3, <2>5 DEF Versions
  <1>3. Asked' \subseteq Life!Asks(site')
                    \cup IF created' = created /\ site' # NoSite THEN Asked ELSE {}
    BY <1>2
  <1>4. Life!Shows(dep') \in Readings'
    BY DEF Readings, Life!Shows
  <1>5. Readings' \subseteq Readings \cup {Life!Shows(dep')}
    <2>1. pc' \in {"statusGet", "statusUpdate"} =>
            \/ pc \in {"statusGet", "statusUpdate"} /\ depReady' = depReady
            \/ depReady' = (dep # NoChild /\ dep.ready)
      BY ReportersRead
    <2>2. QED
      BY <2>1 DEF Readings, Life!Shows
  <1>6. QED
    BY <1>1, <1>3, <1>4, <1>5 DEF Life!Remembers

\* The controller implements WebsiteLife, with the objects themselves for the
\* mapping, and for what it remembers the versions and the readiness that are
\* cached, on the way or in hand: whatever it has queued, retried or lost in a
\* crash, each of its calls is an act for the Website that is there, held and
\* asking, or changes nothing.
THEOREM ActsOnWhatIsAsked == Spec => ImplementsLife
  <1>1. Init => Life!Init /\ ActSound
    <2> SUFFICES ASSUME Init PROVE Life!Init /\ ActSound
      OBVIOUS
    <2>1. Versions = {} /\ Readings = {FALSE}
      BY DEF Init, Versions, Readings
    <2>2. QED
      BY <2>1 DEF Init, Life!Init, ActSound, AdoptSound, AskedSound, ApplySteps, StatusSteps
  <1>2. IInv /\ IInv' /\ ActSound /\ [Next]_vars =>
          [Worker => [Life!Acts]_(Life!objects)]_vars /\ [Life!Next]_(Life!vars) /\ ActSound'
    <2> SUFFICES ASSUME IInv, IInv', ActSound, [Next]_vars
                 PROVE  /\ [Worker => [Life!Acts]_(Life!objects)]_vars
                        /\ [Life!Next]_(Life!vars)
                        /\ ActSound'
      OBVIOUS
    <2>1. Worker => [Life!Acts]_(Life!objects)
      BY WorkerActs
    <2>2. [Life!Acts \/ Life!Others]_(Life!objects)
      BY <2>1, OthersAct
    <2>3. Life!Next
      BY <2>2, StepRemembers DEF Life!Next
    <2>4. ActSound'
      BY AdoptKept, AskedKept DEF ActSound
    <2>5. QED
      BY <2>1, <2>3, <2>4
  <1>3. Spec => Life!Init /\ [][Life!Next]_(Life!vars)
    BY <1>1, <1>2, InvHolds, PTL DEF Spec
  <1>4. Spec => [][Worker => [Life!Acts]_(Life!objects)]_vars
    BY <1>1, <1>2, InvHolds, PTL DEF Spec
  <1>5. QED
    BY <1>3, <1>4, PTL DEF ImplementsLife, Life!Spec

-----------------------------------------------------------------------------
(* RestIsStable: what the objects, the watch and the pass in progress are  *)
(* at rest, step by step.                                                  *)

\* AtRest, of which nothing but the controller's own part may move.
LEMMA StillAtRest ==
  ASSUME AtRest, UNCHANGED clusterVars,
         pc' # "down" => cache' = View(site),
         \A i \in DOMAIN stream' : stream'[i] = View(site),
         pc' \in ApiSteps => seen' = View(site),
         read' # NoSite => read' = site /\ ~moved',
         pc' \in {"statusGet", "statusUpdate"} => depReady'
  PROVE  AtRest'
  BY DEF AtRest, Applied, clusterVars

\* The objects as they are then, and what no pass is about to do.
LEMMA RestFacts ==
  ASSUME IInv, AtRest
  PROVE  /\ site \in Sites /\ site # NoSite /\ site.fin
         /\ View(site) # NoSite /\ View(site).uid = site.uid /\ View(site).spec = site.spec
         /\ dep = [ctl |-> site.uid, spec |-> site.spec, ready |-> TRUE] /\ dep # NoChild
         /\ svc = site.uid
         /\ site.obs = site.gen /\ site.ready = TRUE
         /\ pc \notin FinalizeSteps /\ pc # "addUpdate"
         /\ pc = "down" => stream = << >>
  <1>1. site \in Sites /\ site # NoSite /\ ~site.del /\ site.fin /\ site.uid \in Uids
    BY DEF AtRest, Applied, IInv, TypeOK, Sites
  <1>2. /\ View(site) # NoSite /\ View(site).uid = site.uid /\ View(site).spec = site.spec
        /\ ~View(site).del
    BY <1>1, ViewFields
  <1>3. pc \notin FinalizeSteps
    BY <1>2 DEF AtRest, FinalizeSteps, ApiSteps, IInv, PassSound, FinalizingSound, Deleted
  <1>4. pc # "addUpdate"
    BY <1>1 DEF AtRest, IInv, PassSound, UpdatingSound, UpdateSteps
  <1>5. dep = [ctl |-> site.uid, spec |-> site.spec, ready |-> TRUE] /\ svc = site.uid
    BY DEF AtRest, Applied
  <1>6. dep # NoChild
    <2>1. site.spec \in Specs
      BY <1>1 DEF Sites
    <2>2. dep \in Deployments
      BY <1>1, <1>5, <2>1 DEF Deployments
    <2>3. QED
      BY <2>2, ControllerAssumption
  <1>7. site.obs = site.gen /\ site.ready = TRUE
    BY <1>1 DEF AtRest, Applied, Sites
  <1>8. QED
    BY <1>1, <1>2, <1>3, <1>4, <1>5, <1>6, <1>7 DEF IInv, PassSound, DownSound

\* A pass at rest writes what is there already.
LEMMA RestApply ==
  ASSUME IInv, AtRest, DeploymentApply \/ ServiceApply
  PROVE  UNCHANGED << clusterVars, watchVars >>
  <1>1. seen = View(site)
    BY DEF AtRest, ApiSteps, DeploymentApply, ServiceApply
  <1>2. CASE DeploymentApply
    <2>1. CASE UNCHANGED << dep, childNews >>
      BY <1>2, <2>1 DEF DeploymentApply, clusterVars, watchVars
    <2>2. CASE \E r \in IF dep = NoChild THEN {FALSE}
                        ELSE IF dep.spec = seen.spec THEN {dep.ready}
                        ELSE {FALSE, dep.ready} :
                 DepBecomes([ctl |-> seen.uid, spec |-> seen.spec, ready |-> r])
      <3>1. dep.spec = seen.spec /\ dep # NoChild /\ dep.ready = TRUE
        BY <1>1, RestFacts
      <3>2. DepBecomes([ctl |-> seen.uid, spec |-> seen.spec, ready |-> TRUE])
        BY <2>2, <3>1
      <3>3. DepBecomes(dep)
        BY <1>1, <3>2, RestFacts
      <3>4. dep' = dep /\ childNews' = childNews
        BY <3>3 DEF DepBecomes, IInv, TypeOK
      <3>5. QED
        BY <1>2, <3>4 DEF DeploymentApply, clusterVars, watchVars
    <2>3. QED
      BY <1>2, <2>1, <2>2 DEF DeploymentApply
  <1>3. CASE ServiceApply
    <2>1. svc' = svc
      BY <1>1, <1>3, RestFacts DEF ServiceApply
    <2>2. QED
      BY <1>3, <2>1 DEF ServiceApply, clusterVars
  <1>4. QED
    BY <1>2, <1>3

LEMMA RestStatus ==
  ASSUME IInv, AtRest, StatusUpdate
  PROVE  UNCHANGED << clusterVars, watchVars >>
  <1>1. depReady = TRUE
    BY DEF AtRest, StatusUpdate, IInv, TypeOK
  <1>2. read = site
    BY DEF AtRest, StatusUpdate, IInv, PassSound, UpdatingSound, UpdateSteps
  <1>3. [site EXCEPT !.obs = read.gen, !.ready = depReady] = site
    <2>1. site.obs = read.gen /\ site.ready = depReady /\ site \in Sites
      BY <1>1, <1>2, RestFacts
    <2>2. QED
      BY <2>1 DEF Sites
  <1>4. UNCHANGED << site, stream >>
    BY <1>3 DEF StatusUpdate, SetReadyCondition, SiteBecomes
  <1>5. QED
    BY <1>4 DEF StatusUpdate, SetReadyCondition, clusterVars, watchVars

\* At rest, a step of the worker moves its pass on and does nothing else.
LEMMA RestWorker ==
  ASSUME IInv, AtRest, Worker
  PROVE  AtRest' /\ UNCHANGED << clusterVars, watchVars >>
  <1> DEFINE Still == UNCHANGED << clusterVars, watchVars >>
  <1> SUFFICES AtRest' /\ Still
    OBVIOUS
  <1>1. ASSUME Still, pc # "down",
               pc' \in ApiSteps => seen' = View(site),
               read' # NoSite => read' = site /\ ~moved',
               pc' \in {"statusGet", "statusUpdate"} => depReady'
        PROVE  AtRest' /\ Still
    BY <1>1, StillAtRest DEF AtRest, watchVars
  <1>2. ASSUME Still, pc # "down", EndPass("ok") \/ EndPass("failed") PROVE AtRest' /\ Still
    BY <1>1, <1>2 DEF EndPass, ApiSteps
  <1> HIDE DEF Still
  <1>3. CASE TakeKey \/ PassOk \/ PassFailed
    <2>1. Still /\ pc # "down" /\ UNCHANGED passVars /\ pc' \in {"lookup", "idle"}
      BY <1>3 DEF TakeKey, PassOk, PassFailed, Goto, Still
    <2>2. QED
      BY <1>1, <2>1 DEF AtRest, passVars, ApiSteps
  <1>4. CASE Lookup
    <2>1. Still /\ pc = "lookup"
      BY <1>4 DEF Lookup, Still
    <2>2. CASE EndPass("ok")
      BY <1>2, <2>1, <2>2
    <2>3. CASE /\ pc' = Branch(cache) /\ seen' = cache
               /\ UNCHANGED << read, moved, tries, depReady >>
      <3>1. seen' = View(site) /\ pc' \notin {"statusGet", "statusUpdate"}
        BY <2>1, <2>3 DEF AtRest, Branch
      <3>2. read' # NoSite => read' = site /\ ~moved'
        BY <2>3 DEF AtRest
      <3>3. QED
        BY <1>1, <2>1, <3>1, <3>2
    <2>4. QED
      BY <1>4, <2>2, <2>3 DEF Lookup
  <1>5. CASE AddFinalizerGet
    BY <1>2, <1>5, RestFacts DEF AddFinalizerGet, Still
  <1>6. CASE DeploymentOwner
    <2>1. Still /\ pc = "depGet"
      BY <1>6 DEF DeploymentOwner, Still
    <2>2. CASE EndPass("failed")
      BY <1>2, <2>1, <2>2
    <2>3. CASE Goto("depApply")
      BY <1>1, <2>1, <2>3 DEF Goto, passVars, AtRest, ApiSteps
    <2>4. QED
      BY <1>6, <2>2, <2>3 DEF DeploymentOwner
  <1>7. CASE DeploymentApply \/ ServiceApply
    <2>1. Still /\ pc \in {"depApply", "svcApply"}
      BY <1>7, RestApply DEF DeploymentApply, ServiceApply, Still
    <2>2. CASE EndPass("failed")
      BY <1>2, <2>1, <2>2
    <2>3. CASE Goto("svcApply") \/ Goto("statusDep")
      <3>1. /\ UNCHANGED << seen, read, moved, depReady >>
            /\ pc' \notin {"statusGet", "statusUpdate"}
        BY <2>3 DEF Goto, passVars
      <3>2. pc \in ApiSteps
        BY <2>1 DEF ApiSteps
      <3>3. QED
        BY <1>1, <2>1, <3>1, <3>2 DEF AtRest
    <2>4. EndPass("failed") \/ Goto("svcApply") \/ Goto("statusDep")
      BY <1>7 DEF DeploymentApply, ServiceApply
    <2>5. QED
      BY <2>2, <2>3, <2>4
  <1>8. CASE StatusDeployment
    <2>1. Still /\ pc = "statusDep" /\ pc' = "statusGet" /\ UNCHANGED << seen, read, moved >>
      BY <1>8 DEF StatusDeployment, Still
    <2>2. depReady'
      <3>1. dep # NoChild /\ dep.ready = TRUE
        BY RestFacts
      <3>2. depReady' = (dep # NoChild /\ dep.ready)
        BY <1>8 DEF StatusDeployment
      <3>3. QED
        BY <3>1, <3>2
    <2>3. QED
      BY <1>1, <2>1, <2>2 DEF AtRest, ApiSteps
  <1>9. CASE StatusGet
    <2>1. Still /\ pc = "statusGet" /\ ReadFor("statusUpdate")
      BY <1>9 DEF StatusGet, Still
    <2>2. pc' = "statusUpdate" /\ read' = site /\ moved' = FALSE /\ UNCHANGED << seen, depReady >>
      BY <2>1, RestFacts DEF ReadFor
    <2>3. QED
      BY <1>1, <2>1, <2>2 DEF AtRest, ApiSteps
  <1>10. CASE StatusUpdate
    <2>1. Still /\ pc = "statusUpdate"
      BY <1>10, RestStatus DEF StatusUpdate, SetReadyCondition, Still
    <2>2. ~moved
      BY <2>1 DEF AtRest, IInv, PassSound, UpdatingSound, UpdateSteps
    <2>3. EndPass("ok")
      BY <1>10, <2>2 DEF StatusUpdate, Conflict
    <2>4. QED
      BY <1>2, <2>1, <2>3
  <1>11. CASE AddFinalizerUpdate \/ FinalizeDelete \/ FinalizeGet \/ FinalizeUpdate
    BY <1>11, RestFacts
    DEF AddFinalizerUpdate, FinalizeDelete, FinalizeGet, FinalizeUpdate, FinalizeSteps
  <1>12. QED
    BY <1>3, <1>4, <1>5, <1>6, <1>7, <1>8, <1>9, <1>10, <1>11 DEF Worker

LEMMA RestSystem ==
  ASSUME IInv, AtRest, System
  PROVE  /\ AtRest'
         /\ UNCHANGED clusterVars
         /\ Len(stream') <= Len(stream)
         /\ childNews' => childNews
  <1>0. stream \in Seq(Views \cup {NoSite})
    BY DEF IInv, TypeOK
  <1>1. CASE Worker
    BY <1>0, <1>1, RestWorker DEF watchVars
  <1>2. CASE Start
    <2>1. /\ UNCHANGED << clusterVars, stream, childNews, passVars >>
          /\ pc' = "idle" /\ cache' = View(site)
      BY <1>2 DEF Start
    <2>2. AtRest'
      BY <2>1, StillAtRest DEF AtRest, passVars, ApiSteps
    <2>3. QED
      BY <1>0, <2>1, <2>2
  <1>3. CASE DeliverSite
    <2>1. /\ UNCHANGED << clusterVars, childNews, pc, passVars >>
          /\ stream # << >> /\ cache' = Head(stream) /\ stream' = Tail(stream)
      BY <1>3 DEF DeliverSite
    <2>2. /\ Len(stream) \in Nat /\ Len(stream') = Len(stream) - 1 /\ 1 \in DOMAIN stream
          /\ cache' = stream[1]
          /\ \A i \in DOMAIN stream' : i + 1 \in DOMAIN stream /\ stream'[i] = stream[i + 1]
      BY <1>0, <2>1
    <2>3. cache' = View(site) /\ \A i \in DOMAIN stream' : stream'[i] = View(site)
      BY <2>2 DEF AtRest
    <2>4. AtRest'
      BY <2>1, <2>3, StillAtRest DEF AtRest, passVars
    <2>5. QED
      BY <2>1, <2>2, <2>4
  <1>4. CASE DeliverChild \/ TimerFires
    <2>1. /\ UNCHANGED << clusterVars, cache, stream, pc, passVars >>
          /\ childNews' => childNews
      BY <1>4 DEF DeliverChild, TimerFires, watchVars
    <2>2. AtRest'
      BY <2>1, StillAtRest DEF AtRest, passVars
    <2>3. QED
      BY <1>0, <2>1, <2>2
  <1>5. CASE CollectDeployment \/ DeploymentReady
    BY <1>5, RestFacts DEF CollectDeployment, Orphaned, DeploymentReady
  <1>6. QED
    BY <1>1, <1>2, <1>3, <1>4, <1>5 DEF System

\* Once the objects match the Website and the controller has heard of it, no
\* pass, event, timer or restart of it changes one of them, for any number of
\* passes, and none of its own writes is news: it does not feed itself.
THEOREM RestLasts == Spec => RestIsStable
  <1>1. IInv => [AtRest /\ System => /\ AtRest'
                                     /\ UNCHANGED clusterVars
                                     /\ Len(stream') <= Len(stream)
                                     /\ childNews' => childNews]_vars
    BY RestSystem
  <1>2. QED
    BY <1>1, InvHolds, PTL DEF RestIsStable

-----------------------------------------------------------------------------
(* PassesEnd *)

Between == {"down", "idle", "ok", "failed"}

\* Where a step of the worker takes a pass: to its end, further on, or back to
\* a new try.
PassEnded == pc \notin Between /\ pc' \in {"ok", "failed"}

PassHandedIn == pc \in {"ok", "failed"} /\ pc' = "idle"

PassGoesOn ==
  /\ tries' = tries
  /\ \/ pc = "lookup" /\ pc' \in {"addGet", "depGet", "finDelete"}
     \/ pc = "addGet" /\ pc' = "addUpdate"
     \/ pc = "depGet" /\ pc' = "depApply"
     \/ pc = "depApply" /\ pc' = "svcApply"
     \/ pc = "svcApply" /\ pc' = "statusDep"
     \/ pc = "statusDep" /\ pc' = "statusGet"
     \/ pc = "statusGet" /\ pc' = "statusUpdate"
     \/ pc = "finDelete" /\ pc' = "finGet"
     \/ pc = "finGet" /\ pc' = "finUpdate"

PassTriesAgain ==
  /\ tries + 1 < Attempts /\ tries' = tries + 1
  /\ \/ pc = "addUpdate" /\ pc' = "addGet"
     \/ pc = "statusUpdate" /\ pc' = "statusGet"

LEMMA WorkerMovesOn ==
  ASSUME Worker, ~TakeKey
  PROVE  PassEnded \/ PassHandedIn \/ PassGoesOn \/ PassTriesAgain
  <1>1. CASE Lookup
    BY <1>1 DEF Lookup, Branch, EndPass, PassEnded, PassGoesOn, Between
  <1>2. CASE PassOk \/ PassFailed
    BY <1>2 DEF PassOk, PassFailed, Goto, PassHandedIn
  <1>3. CASE AddFinalizerGet \/ StatusGet \/ FinalizeGet
    BY <1>3 DEF AddFinalizerGet, StatusGet, FinalizeGet, ReadFor, EndPass,
                PassEnded, PassGoesOn, Between
  <1>4. CASE AddFinalizerUpdate
    BY <1>4 DEF AddFinalizerUpdate, RetryFrom, TriesLeft, EndPass,
                PassEnded, PassTriesAgain, Between
  <1>5. CASE StatusUpdate
    BY <1>5 DEF StatusUpdate, RetryFrom, TriesLeft, EndPass,
                PassEnded, PassTriesAgain, Between
  <1>6. CASE DeploymentOwner \/ DeploymentApply \/ ServiceApply
    BY <1>6 DEF DeploymentOwner, DeploymentApply, ServiceApply, Goto, passVars, EndPass,
                PassEnded, PassGoesOn, Between
  <1>7. CASE StatusDeployment \/ FinalizeDelete
    BY <1>7 DEF StatusDeployment, FinalizeDelete, Goto, passVars, PassGoesOn
  <1>8. CASE FinalizeUpdate
    BY <1>8 DEF FinalizeUpdate, EndPass, PassEnded, Between
  <1>9. QED
    BY <1>1, <1>2, <1>3, <1>4, <1>5, <1>6, <1>7, <1>8 DEF Worker

\* Nobody else leads a pass on, or back.
LEMMA OthersLeaveThePass ==
  ASSUME [Next]_vars, ~Worker
  PROVE  \/ pc' = pc /\ tries' = tries
         \/ PassEnded
         \/ pc' \in {"down", "idle"}
  <1>1. CASE UNCHANGED vars
    BY <1>1 DEF vars, passVars
  <1>2. CASE ApiError
    BY <1>2 DEF ApiError, ApiSteps, EndPass, PassEnded, Between
  <1>3. CASE Crash \/ Start
    BY <1>3 DEF Crash, EndPass, Start
  <1>4. CASE UserCreate \/ UserEdit \/ UserDelete
    BY <1>4 DEF UserCreate, UserEdit, UserDelete, UserWrites
  <1>5. CASE MeddleDeployment \/ MeddleService \/ CollectDeployment \/ DeploymentReady
    BY <1>5 DEF MeddleDeployment, MeddleService, CollectDeployment, DeploymentReady, passVars
  <1>6. CASE DeliverSite \/ DeliverChild \/ Relist \/ TimerFires
    BY <1>6 DEF DeliverSite, DeliverChild, Relist, TimerFires, passVars
  <1>7. QED
    BY <1>1, <1>2, <1>3, <1>4, <1>5, <1>6 DEF Next, System, Mishaps

LEMMA StepsAddUp ==
  ASSUME NEW m \in 2..8, NEW n \in 2..8, NEW r \in Nat
  PROVE  /\ m + 2 * r \in Nat /\ m + 2 * r > 1
         /\ n < m => n + 2 * r < m + 2 * r
  OBVIOUS

LeftAt(p, t) == StepsOf[p] + IF p \in Between THEN 0 ELSE 2 * (Attempts - 1 - t)

LEMMA LeftAtIs ==
  ASSUME NEW p \in Places, NEW t \in 0..(Attempts - 1)
  PROVE  /\ LeftAt(p, t) \in Nat
         /\ p \in {"down", "idle"} => LeftAt(p, t) = 0
         /\ p \in {"ok", "failed"} => LeftAt(p, t) = 1
         /\ p \notin Between =>
              /\ StepsOf[p] \in 2..8 /\ Attempts - 1 - t \in Nat
              /\ LeftAt(p, t) = StepsOf[p] + 2 * (Attempts - 1 - t)
              /\ LeftAt(p, t) > 1
  <1>1. Attempts - 1 - t \in Nat
    BY ControllerAssumption
  <1>2. CASE p \in Between
    BY <1>2 DEF Between, LeftAt, StepsOf
  <1>3. CASE p \notin Between
    <2>1. StepsOf[p] \in 2..8
      BY <1>3 DEF Places, PassSteps, ApiSteps, Between, StepsOf
    <2>2. LeftAt(p, t) = StepsOf[p] + 2 * (Attempts - 1 - t)
      BY <1>3 DEF LeftAt
    <2>3. LeftAt(p, t) \in Nat /\ LeftAt(p, t) > 1
      BY <1>1, <2>1, <2>2, StepsAddUp
    <2>4. QED
      BY <1>1, <1>3, <2>1, <2>2, <2>3 DEF Between
  <1>4. QED
    BY <1>2, <1>3

\* However often others write between the read and the update, and whatever
\* else they do, a pass takes eight steps and two for each further try.
THEOREM EveryPassEnds == Spec => PassesEnd
  <1>1. ASSUME TypeOK, TypeOK', [Next]_vars, ~TakeKey
        PROVE  /\ Worker => PassLeft' < PassLeft
               /\ PassLeft' <= PassLeft
    <2>1. /\ pc \in Places /\ pc' \in Places
          /\ tries \in 0..(Attempts - 1) /\ tries' \in 0..(Attempts - 1)
      BY <1>1 DEF TypeOK, Places
    <2>2. PassLeft = LeftAt(pc, tries) /\ PassLeft' = LeftAt(pc', tries')
      BY DEF PassLeft, LeftAt, Between
    <2>3. PassLeft \in Nat /\ PassLeft' \in Nat
      BY <2>1, <2>2, LeftAtIs
    <2>4. ASSUME PassEnded PROVE PassLeft' < PassLeft
      <3>1. PassLeft' = 1 /\ PassLeft > 1
        BY <2>1, <2>2, <2>4, LeftAtIs DEF PassEnded
      <3>2. QED
        BY <2>3, <3>1
    <2>5. ASSUME PassHandedIn PROVE PassLeft' < PassLeft
      <3>1. PassLeft' = 0 /\ PassLeft = 1
        BY <2>1, <2>2, <2>5, LeftAtIs DEF PassHandedIn
      <3>2. QED
        BY <3>1
    <2>6. ASSUME PassGoesOn PROVE PassLeft' < PassLeft
      <3>1. /\ pc \notin Between /\ pc' \notin Between /\ tries' = tries
            /\ StepsOf[pc'] < StepsOf[pc]
        BY <2>6 DEF PassGoesOn, Between, StepsOf
      <3>2. /\ StepsOf[pc] \in 2..8 /\ StepsOf[pc'] \in 2..8
            /\ Attempts - 1 - tries \in Nat
            /\ PassLeft = StepsOf[pc] + 2 * (Attempts - 1 - tries)
            /\ PassLeft' = StepsOf[pc'] + 2 * (Attempts - 1 - tries)
        BY <2>1, <2>2, <3>1, LeftAtIs
      <3>3. QED
        BY <3>1, <3>2, StepsAddUp
    <2>7. ASSUME PassTriesAgain PROVE PassLeft' < PassLeft
      <3>1. /\ pc \notin Between /\ pc' \notin Between /\ tries' = tries + 1
            /\ StepsOf[pc] = 2 /\ StepsOf[pc'] = 3
        BY <2>7 DEF PassTriesAgain, Between, StepsOf
      <3>2. /\ PassLeft = 2 + 2 * (Attempts - 1 - tries)
            /\ PassLeft' = 3 + 2 * (Attempts - 1 - tries')
        BY <2>1, <2>2, <3>1, LeftAtIs
      <3>3. Attempts \in Nat /\ tries \in Nat
        BY <2>1, ControllerAssumption
      <3>4. QED
        BY <3>1, <3>2, <3>3
    <2>8. CASE Worker
      BY <1>1, <2>3, <2>4, <2>5, <2>6, <2>7, <2>8, WorkerMovesOn
    <2>9. CASE ~Worker
      <3>1. CASE PassEnded
        BY <2>3, <2>4, <2>9, <3>1
      <3>2. CASE pc' \in {"down", "idle"}
        BY <2>1, <2>2, <2>3, <2>9, <3>2, LeftAtIs
      <3>3. CASE pc' = pc /\ tries' = tries
        BY <2>2, <2>3, <2>9, <3>3
      <3>4. QED
        BY <1>1, <2>9, <3>1, <3>2, <3>3, OthersLeaveThePass
    <2>10. QED
      BY <2>8, <2>9
  <1>2. TypeOK /\ TypeOK' /\ [Next]_vars =>
        [~TakeKey => /\ Worker => PassLeft' < PassLeft
                     /\ PassLeft' <= PassLeft]_vars
    BY <1>1
  <1>3. QED
    BY <1>2, TypeCorrect, PTL DEF Spec, PassesEnd
=============================================================================
