-------------------------- MODULE ControllerPasses --------------------------
(***************************************************************************)
(* The 28 snapshots of the controller course, as ControllerSnapshots has   *)
(* them: which calls a pass of the worker makes, and in which order.       *)
(***************************************************************************)
EXTENDS ControllerSnapshots

CONSTANT MostReplicas

\* processNext and reconcile: the steps of a pass in their order, what an
\* error in one of them does, whether the key comes back on a timer.
Work6 == [steps |-> <<"say">>, onError |-> "log", resync |-> FALSE]
Work7 == [Work6 EXCEPT !.steps = <<"get", "tell">>]
Work8 == [Work7 EXCEPT !.steps = <<"get", "tell", "deployment">>]
Work9 == Work8
Work10 == Work9
Work11 == Work10
Work12 == Work11
Work13 == [Work12 EXCEPT !.steps = <<"get", "tell", "deployment", "service">>]
\* A slip: the worker goes on logging what reconcile returns.
WorkLogs14 == Work13
Work14 == [Work13 EXCEPT !.onError = "return"]
Work15 == [Work14 EXCEPT !.resync = TRUE]
Work16 == [Work15 EXCEPT !.steps = <<"get", "paused", "tell", "deployment", "service">>]
Work17 == [Work16 EXCEPT !.steps = Append(@, "status")]
Work18 == Work17
Work19 == [Work18 EXCEPT !.steps =
    <<"get", "deleted", "unclaimed", "paused", "tell", "deployment", "service", "status">>]
Work20 == Work19
Work21 == Work20
Work22 == Work21
Work23 == Work22
Work24 == Work23
Work25 == [Work24 EXCEPT !.steps = <<"count">> \o @]
Work26 == Work25
Work27 == Work26
Work28 == Work27

Work == Before(5, [steps |-> <<>>, onError |-> "log", resync |-> FALSE]) \o
    <<Work6, Work7, Work8, Work9, Work10, Work11, Work12, Work13, Work14,
      Work15, Work16, Work17, Work18, Work19, Work20, Work21, Work22,
      Work23, Work24, Work25, Work26, Work27, Work28>>

\* ensureDeployment with adopt, repair and ownedByUs: its calls in their order.
Deployment8 == <<"getDeployment", "createDeployment">>
Deployment9 == Deployment8
Deployment10 == <<"getDeployment", "createDeployment", "adopt">>
Deployment11 == <<"getDeployment", "createDeployment", "adopt", "patchReplicas">>
Deployment12 == <<"getDeployment", "createDeployment", "adopt", "patchBoth">>
Deployment13 == Deployment12
Deployment14 == Deployment13
Deployment15 == Deployment14
Deployment16 == Deployment15
Deployment17 == Deployment16
Deployment18 == Deployment17
Deployment19 == Deployment18
Deployment20 == Deployment19
Deployment21 == <<"applyDeployment">>
Deployment22 == Deployment21
Deployment23 == <<"ownedByUs", "applyDeployment">>
Deployment24 == Deployment23
Deployment25 == Deployment24
Deployment26 == Deployment25
Deployment27 == Deployment26
Deployment28 == Deployment27

Deployment == Before(7, <<>>) \o
    <<Deployment8, Deployment9, Deployment10, Deployment11, Deployment12,
      Deployment13, Deployment14, Deployment15, Deployment16,
      Deployment17, Deployment18, Deployment19, Deployment20,
      Deployment21, Deployment22, Deployment23, Deployment24,
      Deployment25, Deployment26, Deployment27, Deployment28>>

\* deploymentFor, ownerRef and the label functions: what marks a child.
Marks8 == [owner |-> {}, pods |-> {"app", "website"}, selector |-> {}, host |-> FALSE]
Marks9 == [Marks8 EXCEPT !.owner = {"uid", "kind", "controller"}]
Marks10 == Marks9
Marks11 == Marks10
Marks12 == Marks11
Marks13 == [Marks12 EXCEPT !.selector = {"app", "website"}]
Marks14 == [Marks13 EXCEPT !.host = TRUE]
Marks15 == Marks14
Marks16 == Marks15
Marks17 == Marks16
Marks18 == Marks17
Marks19 == Marks18
Marks20 == Marks19
Marks21 == [Marks20 EXCEPT !.selector = {"app"}]
Marks22 == Marks21
Marks23 == Marks22
Marks24 == Marks23
Marks25 == Marks24
Marks26 == Marks25
Marks27 == Marks26
Marks28 == Marks27

Marks == Before(7, [owner |-> {}, pods |-> {}, selector |-> {}, host |-> FALSE]) \o
    <<Marks8, Marks9, Marks10, Marks11, Marks12, Marks13, Marks14,
      Marks15, Marks16, Marks17, Marks18, Marks19, Marks20, Marks21,
      Marks22, Marks23, Marks24, Marks25, Marks26, Marks27, Marks28>>

\* ensureService: its calls in their order.
Service13 == <<"getService", "createService">>
Service14 == Service13
Service15 == Service14
Service16 == Service15
Service17 == Service16
Service18 == Service17
Service19 == Service18
Service20 == Service19
Service21 == <<"applyService">>
Service22 == Service21
Service23 == Service22
Service24 == Service23
Service25 == Service24
Service26 == Service25
Service27 == Service26
Service28 == Service27

Service == Before(12, <<>>) \o
    <<Service13, Service14, Service15, Service16, Service17, Service18,
      Service19, Service20, Service21, Service22, Service23, Service24,
      Service25, Service26, Service27, Service28>>

\* writeStatus: its calls in their order.
Status17 == <<"readReady", "readLatest", "writeStatus">>
Status18 == Status17
Status19 == Status18
Status20 == <<"readReady", "readLatest", "writeStatusRetried">>
Status21 == Status20
Status22 == Status21
Status23 == Status22
Status24 == <<"readReady", "readLatest", "writeStatusRetried", "announce">>
Status25 == Status24
Status26 == Status25
Status27 == Status26
Status28 == Status27

Status == Before(16, <<>>) \o
    <<Status17, Status18, Status19, Status20, Status21, Status22,
      Status23, Status24, Status25, Status26, Status27, Status28>>

\* setReadyCondition: the status of the Ready condition.
Ready18 == [ready, wanted \in 0..MostReplicas |->
    IF wanted > 0 /\ ready >= wanted THEN "True" ELSE "False"]
Ready19 == Ready18
Ready20 == Ready19
Ready21 == Ready20
Ready22 == Ready21
Ready23 == Ready22
Ready24 == Ready23
Ready25 == Ready24
Ready26 == Ready25
Ready27 == Ready26
Ready28 == Ready27

Ready == Before(17, [ready, wanted \in 0..MostReplicas |-> "none"]) \o
    <<Ready18, Ready19, Ready20, Ready21, Ready22, Ready23, Ready24,
      Ready25, Ready26, Ready27, Ready28>>

\* addFinalizer and finalize: their calls in their order.
Finalizer19 == [add |-> <<"readLatest", "claim">>,
    release |-> <<"deleteService", "readLatest", "letGo">>]
Finalizer20 == [Finalizer19 EXCEPT !.add = <<"readLatest", "claimRetried">>]
Finalizer21 == Finalizer20
Finalizer22 == Finalizer21
Finalizer23 == Finalizer22
Finalizer24 == Finalizer23
Finalizer25 == Finalizer24
Finalizer26 == Finalizer25
Finalizer27 == Finalizer26
Finalizer28 == Finalizer27

Finalizer == Before(18, [add |-> <<>>, release |-> <<>>]) \o
    <<Finalizer19, Finalizer20, Finalizer21, Finalizer22, Finalizer23,
      Finalizer24, Finalizer25, Finalizer26, Finalizer27, Finalizer28>>

=============================================================================
