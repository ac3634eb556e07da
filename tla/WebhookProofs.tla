---------------------------- MODULE WebhookProofs ----------------------------
(***************************************************************************)
(* What MCWebhook's runs show of the parts of the webhook on small         *)
(* instances, for every value of the constants: the owners of judged pods  *)
(* and the stay of protected ones, the leaf that is served, the record of  *)
(* the verdicts with the specification it implements, and the patches of a *)
(* pod on its way, which are applied op by op in a loop of any length.     *)
(***************************************************************************)
EXTENDS MCWebhook, Integers, Sequences, SequenceTheorems, WellFoundedInduction, TLAPS

USE PartsAssumption

-----------------------------------------------------------------------------
(* Admission.                                                              *)

APods == Admits!Pods

\* What the proofs need of the state: pods are pods, and only names are judged.
AType ==
  /\ pods \in [Names -> APods \cup {NoPod}]
  /\ judged \subseteq Names

AInv == AType /\ JudgedPodsAreOwned

LEMMA AdmissionInit == Admits!Init => AInv
  BY DEF Admits!Init, Admits!NewPods, AInv, AType, APods, JudgedPodsAreOwned, Admits!JudgedPodsAreOwned

\* Marking a pod, or taking its finalizer off, leaves it a pod of its owner.
LEMMA MarkedPod ==
  ASSUME NEW x \in APods
  PROVE  /\ [x EXCEPT !.deleting = TRUE] \in APods
         /\ [x EXCEPT !.deleting = TRUE].owner = x.owner
  BY DEF APods, Admits!Pods

LEMMA FinalizedPod ==
  ASSUME NEW x \in APods
  PROVE  /\ [x EXCEPT !.finalizer = FALSE] \in APods
         /\ [x EXCEPT !.finalizer = FALSE].owner = x.owner
         /\ [x EXCEPT !.finalizer = FALSE].deleting = x.deleting
         /\ [x EXCEPT !.finalizer = FALSE].skip = x.skip
  BY DEF APods, Admits!Pods

\* The rule asks for a label, and for one that says something.
LEMMA DecidedIsOwned ==
  ASSUME NEW x \in APods, Admits!Decide(x)
  PROVE  x.owner \in Owners
  BY DEF APods, Admits!Pods, Admits!Labels, Admits!Decide

LEMMA WriteKeepsOwners ==
  ASSUME AInv, NEW n \in Names, NEW old, NEW new \in APods, Admits!Write(n, old, new)
  PROVE  AInv'
  <1>1. /\ pods' = [pods EXCEPT ![n] = new]
        /\ judged' = IF Admits!Watched(old, new) /\ registered /\ ~exempt'
                       THEN judged \cup {n} ELSE judged \ {n}
        /\ Admits!Watched(old, new) /\ registered /\ ~exempt' => Admits!Decide(new)
    BY DEF Admits!Write, Admits!MayWrite, Admits!Admitted
  <1>2. new # NoPod
    BY DEF APods, Admits!AdmissionAssumption
  <1>3. AType'
    BY <1>1 DEF AInv, AType
  <1>4. ASSUME NEW m \in judged' PROVE pods'[m] # NoPod /\ pods'[m].owner \in Owners
    <2>1. CASE m = n
      BY <1>1, <1>2, <2>1, DecidedIsOwned DEF AInv, AType
    <2>2. CASE m # n
      BY <1>1, <2>2 DEF AInv, AType, JudgedPodsAreOwned, Admits!JudgedPodsAreOwned
    <2>3. QED
      BY <2>1, <2>2
  <1>5. QED
    BY <1>3, <1>4 DEF AInv, JudgedPodsAreOwned, Admits!JudgedPodsAreOwned

\* Whoever writes under the rule writes an owner; marking a pod keeps the one
\* it has; what is removed is not judged any more.
LEMMA AdmissionStep == AInv /\ [Admits!Next]_admissionVars => AInv'
  <1> SUFFICES ASSUME AInv, [Admits!Next]_admissionVars PROVE AInv'
    OBVIOUS
  <1>0. /\ pods \in [Names -> APods \cup {NoPod}]
        /\ judged \subseteq Names
        /\ \A n \in judged : pods[n] # NoPod /\ pods[n].owner \in Owners
    BY DEF AInv, AType, JudgedPodsAreOwned, Admits!JudgedPodsAreOwned
  <1>1. ASSUME NEW n \in Names, Admits!CreatePod(n) PROVE AInv'
    BY <1>1, WriteKeepsOwners DEF Admits!CreatePod, Admits!NewPods, APods
  <1>2. ASSUME NEW n \in Names, Admits!UpdatePod(n) PROVE AInv'
    BY <1>2, WriteKeepsOwners DEF Admits!UpdatePod, APods
  <1>3. ASSUME NEW n \in Names, Admits!Finalize(n) PROVE AInv'
    <2>1. pods[n] \in APods
      BY <1>0, <1>3 DEF Admits!Finalize
    <2>2. [pods[n] EXCEPT !.finalizer = FALSE] \in APods
      BY <2>1, FinalizedPod
    <2>3. QED
      BY <1>3, <2>2, WriteKeepsOwners DEF Admits!Finalize
  <1>4. ASSUME NEW n \in Names, Admits!DeletePod(n) \/ Admits!Evict(n) PROVE AInv'
    <2> DEFINE marked == [pods[n] EXCEPT !.deleting = TRUE]
    <2>1. /\ pods[n] \in APods
          /\ pods' = [pods EXCEPT ![n] = marked]
          /\ judged' = judged
      BY <1>0, <1>4 DEF Admits!DeletePod, Admits!Evict
    <2>2. /\ marked \in APods /\ marked.owner = pods[n].owner
          /\ marked # NoPod
      BY <2>1, MarkedPod DEF APods, Admits!AdmissionAssumption
    <2> HIDE DEF marked
    <2>3. QED
      BY <1>0, <2>1, <2>2 DEF AInv, AType, JudgedPodsAreOwned, Admits!JudgedPodsAreOwned
  <1>5. ASSUME NEW n \in Names, Admits!RemovePod(n) PROVE AInv'
    BY <1>0, <1>5
    DEF Admits!RemovePod, AInv, AType, JudgedPodsAreOwned, Admits!JudgedPodsAreOwned
  <1>6. CASE \/ Admits!EditList \/ Admits!DeleteList \/ Admits!EndNamespace \/ Admits!Stop
             \/ Admits!Unregister \/ Admits!Kill \/ Admits!ComeUp \/ UNCHANGED admissionVars
    <2>1. pods' = pods /\ judged' = judged
      BY <1>6 DEF Admits!EditList, Admits!DeleteList, Admits!EndNamespace, Admits!Stop,
                  Admits!Unregister, Admits!Kill, Admits!ComeUp, admissionVars
    <2>2. QED
      BY <1>0, <2>1 DEF AInv, AType, JudgedPodsAreOwned, Admits!JudgedPodsAreOwned
  <1>7. QED
    BY <1>1, <1>2, <1>3, <1>4, <1>5, <1>6 DEF Admits!Next

\* No step of anybody but the exempt user marks or removes a protected pod while
\* the rule is in force and before its namespace ends.
Stays(n) ==
  pods[n] # NoPod /\ pods[n].protected /\ ~pods[n].skip
    => pods'[n] # NoPod /\ (pods'[n].deleting => pods[n].deleting)

UnderTheRule == registered /\ ~ending /\ ~exempt'

LEMMA ProtectedStep ==
  ASSUME AInv, [Admits!Next]_admissionVars, UnderTheRule, NEW n \in Names
  PROVE  Stays(n)
  <1>0. /\ pods \in [Names -> APods \cup {NoPod}]
        /\ NoPod \notin APods
    BY DEF AInv, AType, APods, Admits!AdmissionAssumption
  <1>1. ASSUME NEW m \in Names, Admits!CreatePod(m) PROVE Stays(n)
    BY <1>0, <1>1 DEF Admits!CreatePod, Admits!Write, Stays
  <1>2. ASSUME NEW m \in Names, Admits!UpdatePod(m) PROVE Stays(n)
    BY <1>0, <1>2 DEF Admits!UpdatePod, Admits!Write, Stays, APods
  <1>3. ASSUME NEW m \in Names, Admits!Finalize(m) PROVE Stays(n)
    <2>1. pods[m] \in APods
      BY <1>0, <1>3 DEF Admits!Finalize
    <2>2. QED
      BY <1>0, <1>3, <2>1, FinalizedPod DEF Admits!Finalize, Admits!Write, Stays
  <1>4. ASSUME NEW m \in Names,
               Admits!DeletePod(m) \/ Admits!Evict(m) \/ Admits!RemovePod(m)
        PROVE  Stays(n)
    <2>1. pods[m].skip \/ ~pods[m].protected
      BY <1>4 DEF UnderTheRule, Admits!DeletePod, Admits!Evict, Admits!RemovePod, Admits!MayDelete,
                  Admits!Admitted, Admits!DecideDelete, Admits!DecideProtected
    <2>2. n # m => pods'[n] = pods[n]
      BY <1>0, <1>4 DEF Admits!DeletePod, Admits!Evict, Admits!RemovePod
    <2>3. QED
      BY <2>1, <2>2 DEF Stays
  <1>5. CASE \/ Admits!EditList \/ Admits!DeleteList \/ Admits!EndNamespace \/ Admits!Stop
             \/ Admits!Unregister \/ Admits!Kill \/ Admits!ComeUp \/ UNCHANGED admissionVars
    BY <1>5 DEF Admits!EditList, Admits!DeleteList, Admits!EndNamespace, Admits!Stop,
                Admits!Unregister, Admits!Kill, Admits!ComeUp, admissionVars, Stays
  <1>6. QED
    BY <1>1, <1>2, <1>3, <1>4, <1>5 DEF Admits!Next

-----------------------------------------------------------------------------
(* A step of the run is a step of the part that moves; the others stay.     *)

LEMMA PartSteps ==
  ASSUME [WebhookNext]_allVars
  PROVE  /\ [Admits!Next]_admissionVars
         /\ [Certs!Next]_certVars
         /\ [Mutates!Next]_mutationVars
         /\ [Records!Next]_recordVars
  BY DEF WebhookNext, allVars

\* Whatever lists are written, deleted and seeded: a pod last written under the
\* rule has an owner one can ask.
THEOREM JudgedPodsOwned == WebhookSpec => []JudgedPodsAreOwned
  <1>1. WebhookInit => Admits!Init
    BY DEF WebhookInit
  <1>2. AInv => JudgedPodsAreOwned
    BY DEF AInv
  <1>3. QED
    BY <1>1, <1>2, AdmissionInit, AdmissionStep, PartSteps, PTL DEF WebhookSpec

\* While its namespace lives and the configuration is there, whatever has become
\* of the program, a protected pod neither begins to go nor goes, but for the
\* exempt user.
THEOREM ProtectedPodsStay == WebhookSpec => ProtectedStays
  <1>1. WebhookInit => Admits!Init
    BY DEF WebhookInit
  <1>2. AInv /\ [WebhookNext]_allVars =>
          [UnderTheRule => \A n \in Names : Stays(n)]_admissionVars
    BY ProtectedStep, PartSteps
  <1>3. WebhookSpec => [][UnderTheRule => \A n \in Names : Stays(n)]_admissionVars
    BY <1>1, <1>2, AdmissionInit, AdmissionStep, PartSteps, PTL DEF WebhookSpec
  <1>4. QED
    BY <1>3 DEF ProtectedStays, Admits!ProtectedStays, UnderTheRule, Stays, admissionVars, Admits!vars

-----------------------------------------------------------------------------
(* The certificates.  The leaf served was minted at the last tick for which *)
(* leafFor did not fail, and the next tick is due fails + 1 periods later.  *)

Minted == current.notAfter - LeafLifetime

LastGoodTick == tick - (fails + 1) * RotateEvery

CInv ==
  /\ now \in Nat /\ tick \in Nat /\ fails \in 0..MaxFails
  /\ bundle = Certs!Authority(0, 0)
  /\ current \in [signer : {0}, notAfter : Nat]
  /\ rotating = TRUE
  /\ LastGoodTick <= Minted
  /\ now <= tick + MaxLate

LEMMA CertConstants ==
  /\ LeafLifetime \in Nat /\ RotateEvery \in Nat /\ AuthorityLifetime \in Nat
  /\ MaxLate \in Nat /\ MaxFails \in Nat /\ MaxTime \in Nat /\ RotateEvery > 0
  /\ LeafLifetime > (MaxFails + 1) * RotateEvery + MaxLate
  BY DEF Certs!CertAssumption

\* Fewer failures than there may be cost fewer periods.
LEMMA PeriodsLost ==
  ASSUME NEW f \in Nat, NEW g \in Nat, f <= g
  PROVE  /\ (f + 1) * RotateEvery \in Nat
         /\ (f + 1) * RotateEvery <= (g + 1) * RotateEvery
         /\ (f + 1 + 1) * RotateEvery = (f + 1) * RotateEvery + RotateEvery
  BY CertConstants

LEMMA CertInit == Certs!Init => CInv
  BY CertConstants
  DEF Certs!Init, Certs!Authority, Certs!LeafFor, CInv, LastGoodTick, Minted

LEMMA CertStep == CInv /\ [Certs!Next]_certVars => CInv'
  <1> SUFFICES ASSUME CInv, [Certs!Next]_certVars PROVE CInv'
    OBVIOUS
  <1>1. CASE Certs!Rotate
    BY <1>1, CertConstants
    DEF Certs!Rotate, Certs!Authority, Certs!LeafFor, CInv, LastGoodTick, Minted
  <1>2. CASE Certs!RotateFails
    <2>1. /\ tick' = tick + RotateEvery /\ fails' = fails + 1 /\ fails < MaxFails
          /\ UNCHANGED << now, bundle, current, rotating >>
      BY <1>2 DEF Certs!RotateFails
    <2>2. /\ (fails + 1) * RotateEvery \in Nat
          /\ (fails + 1 + 1) * RotateEvery = (fails + 1) * RotateEvery + RotateEvery
      BY PeriodsLost DEF CInv
    <2>3. LastGoodTick' = LastGoodTick
      BY <2>1, <2>2, CertConstants DEF CInv, LastGoodTick
    <2>4. QED
      BY <2>1, <2>3, CertConstants DEF CInv, Minted
  <1>3. CASE Certs!Tick
    BY <1>3, CertConstants DEF Certs!Tick, CInv, LastGoodTick, Minted
  <1>4. CASE UNCHANGED certVars
    BY <1>4 DEF certVars, CInv, LastGoodTick, Minted
  <1>5. QED
    BY <1>1, <1>2, <1>3, <1>4 DEF Certs!Next

\* A leaf outlives the failures in a row that are allowed and a late timer.
LEMMA LeafOutlivesFailures == CInv => ServedLeafTrusted
  <1> SUFFICES ASSUME CInv PROVE now < current.notAfter /\ current.signer = bundle.key
    BY DEF ServedLeafTrusted, Certs!ServedLeafTrusted, Certs!Trusted
  <1> DEFINE lost == (fails + 1) * RotateEvery
             most == (MaxFails + 1) * RotateEvery
  <1>1. lost \in Nat /\ most \in Nat /\ lost <= most
    BY PeriodsLost, CertConstants DEF CInv
  <1>2. /\ now <= tick + MaxLate /\ tick - lost <= current.notAfter - LeafLifetime
        /\ LeafLifetime > most + MaxLate
    BY CertConstants DEF CInv, LastGoodTick, Minted
  <1>3. now \in Nat /\ tick \in Nat /\ current.notAfter \in Nat
    BY DEF CInv
  <1> HIDE DEF lost, most
  <1>4. now < current.notAfter
    BY <1>1, <1>2, <1>3, CertConstants
  <1>5. QED
    BY <1>4 DEF CInv, Certs!Authority

\* However late the timer runs, and however often leafFor fails in a row, up to
\* what the lifetimes allow: as long as the authority lives, every handshake is
\* answered with a leaf that the registered bundle vouches for.
THEOREM ServedLeavesTrusted == WebhookSpec => []ServedLeafTrusted
  <1>1. WebhookInit => Certs!Init
    BY DEF WebhookInit
  <1>2. QED
    BY <1>1, CertInit, CertStep, LeafOutlivesFailures, PartSteps, PTL DEF WebhookSpec

-----------------------------------------------------------------------------
(* The record of the verdicts.                                             *)

Pairs == VerdictNames \X Verdicts

NothingYet == [n \in VerdictNames |-> Nothing]

\* A handler holds a verdict exactly while it has calls to make for it, and
\* there is no data without a ConfigMap.
RInv ==
  /\ verdict \in [Handlers -> Pairs \cup {Nothing}]
  /\ pc \in [Handlers -> {"idle", "patch", "create", "patchAgain"}]
  /\ \A h \in Handlers : pc[h] = "idle" <=> verdict[h] = Nothing
  /\ data \in [VerdictNames -> Verdicts \cup {Nothing}]
  /\ ~exists => data = NothingYet

LEMMA RecordInit == Records!Init => RInv /\ Records!Log!Init
  <1>1. Nothing \notin Pairs
    BY DEF Records!RecordAssumption, Pairs
  <1>2. QED
    BY <1>1 DEF Records!Init, RInv, Records!NoData, NothingYet, Records!Log!Init

\* The call after which a handler has nothing to write down any more.
IsOver(h) ==
  /\ pc' = [pc EXCEPT ![h] = "idle"]
  /\ verdict' = [verdict EXCEPT ![h] = Nothing]

\* Its verdict is written, and nothing else.
Writes(h) == data' = [data EXCEPT ![verdict[h][1]] = verdict[h][2]]

\* What a call of a handler comes to, whatever it finds.
Outcome(h) ==
  /\ pc[h] # "idle"
  /\ \/ IsOver(h) /\ Writes(h) /\ exists' = TRUE /\ failed' = failed
     \/ IsOver(h) /\ UNCHANGED << data, exists >> /\ failed' = failed \cup {h}
     \/ /\ \E c \in {"create", "patchAgain"} : pc' = [pc EXCEPT ![h] = c]
        /\ verdict' = verdict /\ data' = data
        /\ exists => exists'

\* The three calls of recordVerdict, and the failure of any of them.
LEMMA CallOutcome ==
  ASSUME RInv, NEW h \in Handlers,
         \/ Records!Patch(h) \/ Records!Create(h)
         \/ Records!PatchAgain(h) \/ Records!CallFails(h)
  PROVE  Outcome(h)
  <1>1. CASE Records!Patch(h)
    BY <1>1 DEF Records!Patch, Records!Return, Records!Written, Outcome, IsOver, Writes, RInv
  <1>2. CASE Records!Create(h)
    <2>1. CASE exists
      BY <1>2, <2>1 DEF Records!Create, Outcome
    <2>2. CASE ~exists
      <3>1. Records!NoData = data
        BY <2>2 DEF RInv, Records!NoData, NothingYet
      <3>2. IsOver(h) /\ Writes(h) /\ exists' = TRUE /\ failed' = failed /\ pc[h] = "create"
        BY <1>2, <2>2, <3>1 DEF Records!Create, Records!Return, IsOver, Writes
      <3>3. QED
        BY <3>2 DEF Outcome
    <2>3. QED
      BY <2>1, <2>2
  <1>3. CASE Records!PatchAgain(h)
    BY <1>3 DEF Records!PatchAgain, Records!Return, Records!Written, Outcome, IsOver, Writes, RInv
  <1>4. CASE Records!CallFails(h)
    BY <1>4 DEF Records!CallFails, Records!Return, Outcome, IsOver
  <1>5. QED
    BY <1>1, <1>2, <1>3, <1>4

\* A call is one step of VerdictLog, or none: it records its own verdict, gives
\* it up, or goes on.
LEMMA OutcomeIsLogged ==
  ASSUME RInv, NEW h \in Handlers, Outcome(h)
  PROVE  RInv' /\ [Records!Log!Next]_(Records!Log!vars)
  <1>0. /\ verdict \in [Handlers -> Pairs \cup {Nothing}]
        /\ verdict[h] \in Pairs /\ verdict[h] # Nothing
        /\ pc \in [Handlers -> {"idle", "patch", "create", "patchAgain"}]
        /\ \A k \in Handlers : pc[k] = "idle" <=> verdict[k] = Nothing
        /\ data \in [VerdictNames -> Verdicts \cup {Nothing}]
        /\ ~exists => data = NothingYet
    BY DEF RInv, Outcome
  <1>1. verdict[h][1] \in VerdictNames /\ verdict[h][2] \in Verdicts
    BY <1>0 DEF Pairs
  <1>2. CASE IsOver(h) /\ Writes(h) /\ exists' = TRUE
    <2>1. RInv'
      BY <1>0, <1>1, <1>2 DEF RInv, IsOver, Writes
    <2>2. Records!Log!Record(h)
      BY <1>0, <1>2 DEF Records!Log!Record, IsOver, Writes
    <2>3. QED
      BY <2>1, <2>2 DEF Records!Log!Next
  <1>3. CASE IsOver(h) /\ UNCHANGED << data, exists >>
    <2>1. RInv'
      BY <1>0, <1>3 DEF RInv, IsOver
    <2>2. Records!Log!GiveUp(h)
      BY <1>0, <1>3 DEF Records!Log!GiveUp, IsOver
    <2>3. QED
      BY <2>1, <2>2 DEF Records!Log!Next
  <1>4. CASE /\ \E c \in {"create", "patchAgain"} : pc' = [pc EXCEPT ![h] = c]
             /\ verdict' = verdict /\ data' = data /\ (exists => exists')
    <2>1. PICK c \in {"create", "patchAgain"} : pc' = [pc EXCEPT ![h] = c]
      BY <1>4
    <2>2. /\ pc' \in [Handlers -> {"idle", "patch", "create", "patchAgain"}]
          /\ \A k \in Handlers : pc'[k] = "idle" <=> verdict[k] = Nothing
      BY <1>0, <2>1
    <2>3. verdict' = verdict /\ data' = data
      BY <1>4, Zenon
    <2>4. ~exists' => data' = NothingYet
      BY <1>0, <1>4, <2>3, Zenon
    <2>5. RInv'
      BY <1>0, <2>2, <2>3, <2>4 DEF RInv
    <2>6. QED
      BY <2>3, <2>5 DEF Records!Log!vars
  <1>5. QED
    BY <1>2, <1>3, <1>4 DEF Outcome

LEMMA RecordStep ==
  RInv /\ [Records!Next]_recordVars => RInv' /\ [Records!Log!Next]_(Records!Log!vars)
  <1> SUFFICES ASSUME RInv, [Records!Next]_recordVars
               PROVE  RInv' /\ [Records!Log!Next]_(Records!Log!vars)
    OBVIOUS
  <1>1. ASSUME NEW h \in Handlers, Records!Answer(h)
        PROVE  RInv' /\ [Records!Log!Next]_(Records!Log!vars)
    <2>1. PICK n \in VerdictNames, v \in Verdicts : verdict' = [verdict EXCEPT ![h] = << n, v >>]
      BY <1>1 DEF Records!Answer
    <2>2. /\ verdict[h] = Nothing /\ data' = data /\ exists' = exists
          /\ pc' = [pc EXCEPT ![h] = "patch"]
      BY <1>1 DEF Records!Answer, RInv
    <2>3. << n, v >> \in Pairs /\ Nothing \notin Pairs
      BY DEF Pairs, Records!RecordAssumption
    <2>4. RInv'
      BY <2>1, <2>2, <2>3 DEF RInv
    <2>5. Records!Log!Answer(h)
      BY <2>1, <2>2 DEF Records!Log!Answer
    <2>6. QED
      BY <2>4, <2>5 DEF Records!Log!Next
  <1>2. ASSUME NEW h \in Handlers,
               \/ Records!Patch(h) \/ Records!Create(h)
               \/ Records!PatchAgain(h) \/ Records!CallFails(h)
        PROVE  RInv' /\ [Records!Log!Next]_(Records!Log!vars)
    BY <1>2, CallOutcome, OutcomeIsLogged
  <1>3. CASE Records!DeleteConfigMap
    <2>1. data' = NothingYet /\ UNCHANGED << pc, verdict >>
      BY <1>3 DEF Records!DeleteConfigMap, Records!NoData, NothingYet
    <2>2. RInv'
      BY <2>1 DEF RInv, NothingYet
    <2>3. Records!Log!Erase
      BY <2>1 DEF Records!Log!Erase, NothingYet
    <2>4. QED
      BY <2>2, <2>3 DEF Records!Log!Next
  <1>4. CASE UNCHANGED recordVars
    BY <1>4 DEF recordVars, RInv, Records!Log!vars
  <1>5. QED
    BY <1>1, <1>2, <1>3, <1>4 DEF Records!Next

\* A handler that has come to an end without an error has written its verdict.
Success(h) ==
  pc[h] # "idle" /\ pc'[h] = "idle" /\ h \notin failed'
    => /\ data'[verdict[h][1]] = verdict[h][2]
       /\ \A n \in VerdictNames \ {verdict[h][1]} : data'[n] = data[n]

LEMMA SuccessStep ==
  ASSUME RInv, [Records!Next]_recordVars, NEW h \in Handlers
  PROVE  Success(h)
  <1>0. /\ verdict \in [Handlers -> Pairs \cup {Nothing}]
        /\ pc \in [Handlers -> {"idle", "patch", "create", "patchAgain"}]
        /\ \A k \in Handlers : pc[k] # "idle" => verdict[k] \in Pairs
        /\ data \in [VerdictNames -> Verdicts \cup {Nothing}]
    BY DEF RInv
  <1>1. ASSUME NEW g \in Handlers, Records!Answer(g) PROVE Success(h)
    BY <1>0, <1>1 DEF Records!Answer, Success
  <1>2. ASSUME NEW g \in Handlers, Outcome(g) PROVE Success(h)
    <2>1. g # h => pc'[h] = pc[h]
      BY <1>0, <1>2 DEF Outcome, IsOver
    <2>2. CASE g = h
      <3>1. verdict[h][1] \in VerdictNames
        BY <1>0, <1>2, <2>2 DEF Outcome, Pairs
      <3>2. CASE Writes(h)
        BY <1>0, <3>1, <3>2 DEF Writes, Success
      <3>3. CASE failed' = failed \cup {h}
        BY <3>3 DEF Success
      <3>4. CASE \E c \in {"create", "patchAgain"} : pc' = [pc EXCEPT ![h] = c]
        BY <1>0, <3>4 DEF Success
      <3>5. QED
        BY <1>2, <2>2, <3>2, <3>3, <3>4 DEF Outcome
    <2>3. QED
      BY <2>1, <2>2 DEF Success
  <1>3. CASE Records!DeleteConfigMap \/ UNCHANGED recordVars
    BY <1>3 DEF Records!DeleteConfigMap, recordVars, Success
  <1>4. QED
    BY <1>1, <1>2, <1>3, CallOutcome DEF Records!Next

\* Each handler's calls, among everybody else's, come to one write of its own
\* verdict or to none, and to one whenever recordVerdict returns no error.
THEOREM VerdictsAreKept == WebhookSpec => VerdictsKept
  <1>1. WebhookInit => Records!Init
    BY DEF WebhookInit
  <1>2. RInv /\ [WebhookNext]_allVars => [\A h \in Handlers : Success(h)]_recordVars
    BY SuccessStep, PartSteps
  <1>3. WebhookSpec => [][\A h \in Handlers : Success(h)]_recordVars
    BY <1>1, <1>2, RecordInit, RecordStep, PartSteps, PTL DEF WebhookSpec
  <1>4. WebhookSpec => Records!SuccessIsWritten
    BY <1>3 DEF Records!SuccessIsWritten, Success, recordVars, Records!vars
  <1>5. WebhookSpec => Records!RecordsAtOnce
    BY <1>1, RecordInit, RecordStep, PartSteps, PTL
    DEF WebhookSpec, Records!RecordsAtOnce, Records!Log!Spec
  <1>6. QED
    BY <1>4, <1>5, PTL DEF VerdictsKept, Records!VerdictsKept

-----------------------------------------------------------------------------
(* Mutation.                                                               *)

\* A set of numbers that is not empty has a least one.
LEMMA Least ==
  ASSUME NEW S \in SUBSET Nat, S # {}
  PROVE  \E m \in S : \A n \in S : m <= n
  <1>1. \E m \in S : \A n \in S : ~(<< n, m >> \in OpToRel(<, Nat))
    BY NatLessThanWellFounded, WFMin
  <1>2. PICK m \in S : \A n \in S : ~(<< n, m >> \in OpToRel(<, Nat))
    BY <1>1
  <1>3. \A n \in S : ~(n < m)
    BY <1>2 DEF OpToRel
  <1>4. QED
    BY <1>3

\* after, in the definition of Apply.
Results(f, p, patch) ==
  f = [n \in 0..Len(patch) |-> IF n = 0 THEN p ELSE Mutates!ApplyOp(f[n - 1], patch[n])]

LEMMA PatchHasResults ==
  ASSUME NEW p, NEW patch, Len(patch) \in Nat
  PROVE  \E f : Results(f, p, patch)
  <1> DEFINE Upto(f, n) ==
               f = [i \in 0..n |-> IF i = 0 THEN p ELSE Mutates!ApplyOp(f[i - 1], patch[i])]
             Without == {n \in Nat : ~\E f : Upto(f, n)}
  <1>1. Without = {}
    <2>1. SUFFICES ASSUME Without # {} PROVE FALSE
      OBVIOUS
    <2>2. PICK m \in Without : \A n \in Without : m <= n
      BY <2>1, Least
    <2>3. CASE m = 0
      <3>1. Upto([i \in 0..0 |-> p], 0)
        OBVIOUS
      <3>2. QED
        BY <2>2, <2>3, <3>1
    <2>4. CASE m # 0
      <3>1. m \in Nat /\ m - 1 \in Nat
        BY <2>2, <2>4
      <3>2. PICK f : Upto(f, m - 1)
        BY <2>2, <3>1
      <3> DEFINE g == [i \in 0..m |-> IF i = m THEN Mutates!ApplyOp(f[m - 1], patch[m]) ELSE f[i]]
      <3>3. ASSUME NEW i \in 0..m
            PROVE  g[i] = IF i = 0 THEN p ELSE Mutates!ApplyOp(g[i - 1], patch[i])
        <4>1. i # 0 => g[i - 1] = f[i - 1]
          BY <3>1
        <4>2. i # m => g[i] = f[i] /\ i \in 0..(m - 1)
          BY <3>1
        <4>3. QED
          BY <2>4, <3>2, <4>1, <4>2
      <3>4. Upto(g, m)
        BY <3>3
      <3>5. QED
        BY <2>2, <3>4
    <2>5. QED
      BY <2>3, <2>4
  <1>2. QED
    BY <1>1 DEF Results

LEMMA ApplyResults ==
  ASSUME NEW p, NEW patch, Len(patch) \in Nat
  PROVE  \E f : Results(f, p, patch) /\ Mutates!Apply(p, patch) = f[Len(patch)]
  <1>1. \E f : Results(f, p, patch)
    BY PatchHasResults
  <1>2. QED
    BY <1>1 DEF Results, Mutates!Apply

LEMMA ApplyNothing ==
  ASSUME NEW p PROVE Mutates!Apply(p, << >>) = p
  BY ApplyResults DEF Results

\* One op more is applied to what the ops before it have made.
LEMMA ApplyOneMore ==
  ASSUME NEW p, NEW Ops, NEW patch \in Seq(Ops), NEW op \in Ops
  PROVE  Mutates!Apply(p, Append(patch, op)) = Mutates!ApplyOp(Mutates!Apply(p, patch), op)
  <1> DEFINE longer == Append(patch, op)
  <1>1. /\ Len(patch) \in Nat /\ Len(longer) = Len(patch) + 1 /\ longer[Len(patch) + 1] = op
        /\ \A i \in 1..Len(patch) : longer[i] = patch[i]
    BY AppendProperties, LenProperties
  <1> HIDE DEF longer
  <1>2. PICK f : Results(f, p, patch) /\ Mutates!Apply(p, patch) = f[Len(patch)]
    BY <1>1, ApplyResults
  <1>3. PICK g : Results(g, p, longer) /\ Mutates!Apply(p, longer) = g[Len(longer)]
    BY <1>1, ApplyResults
  <1> DEFINE Unlike == {n \in 0..Len(patch) : f[n] # g[n]}
  <1>4. Unlike = {}
    <2>1. SUFFICES ASSUME Unlike # {} PROVE FALSE
      OBVIOUS
    <2>2. PICK m \in Unlike : \A n \in Unlike : m <= n
      <3>1. Unlike \in SUBSET Nat
        OBVIOUS
      <3> HIDE DEF Unlike
      <3>2. QED
        BY <2>1, <3>1, Least
    <2>3. f[0] = p /\ g[0] = p
      BY <1>1, <1>2, <1>3 DEF Results
    <2>4. m # 0 /\ m \in 1..Len(patch) /\ m - 1 \in 0..Len(patch)
      BY <2>3, <1>1
    <2>5. f[m - 1] = g[m - 1]
      BY <2>2, <2>4
    <2>6. f[m] = Mutates!ApplyOp(f[m - 1], patch[m])
      BY <1>2, <2>4 DEF Results
    <2>7. g[m] = Mutates!ApplyOp(g[m - 1], longer[m])
      BY <1>1, <1>3, <2>4 DEF Results
    <2>8. QED
      BY <1>1, <2>4, <2>5, <2>6, <2>7
  <1>5. g[Len(patch) + 1] = Mutates!ApplyOp(g[Len(patch)], longer[Len(patch) + 1])
    BY <1>1, <1>3 DEF Results
  <1>6. f[Len(patch)] = g[Len(patch)]
    BY <1>1, <1>4
  <1>7. QED
    BY <1>1, <1>2, <1>3, <1>5, <1>6 DEF longer

Lists == Seq(Mutates!Containers)
Accepted == Mutates!PodsOf(Lists)

\* The ops that mutate can make.
Ops ==
  {Mutates!AddMap(at, i) : at \in {"annotations", "requests"}, i \in Nat}
    \cup {Mutates!AddKey(at, i, key) : at \in {"annotations", "requests"}, i \in Nat,
                                       key \in {"injected", "cpu"}}
    \cup {Mutates!AddLast(Mutates!Sidecar)}

\* What a map is, and what a container is, once the patch has been applied.
With(map, key) == IF map = Absent THEN {key} ELSE map \cup {key}
Floored(container) == [container EXCEPT !.requests = With(@, "cpu")]

\* The pod once its first k containers have been seen to.
FlooredTo(p, k) ==
  [annotations |-> p.annotations,
   containers |-> [i \in 1..Len(p.containers) |->
                     IF i <= k THEN Floored(p.containers[i]) ELSE p.containers[i]]]

LEMMA MapsAreMaps ==
  /\ \A map \in SUBSET Mutates!Keys : map # Absent /\ map # Refused
  /\ \A map \in SUBSET Resources : map # Absent /\ map # Refused
  /\ Absent # Refused /\ \A p \in Accepted : p # Refused
  /\ "cpu" \in Resources /\ "sidecar" \in ContainerNames
  BY DEF Mutates!MutateAssumption, Accepted, Lists

LEMMA FlooredIsContainer ==
  ASSUME NEW container \in Mutates!Containers
  PROVE  /\ Floored(container) \in Mutates!Containers
         /\ Floored(container).name = container.name
         /\ Floored(container).requests = With(container.requests, "cpu")
         /\ Mutates!Has(Floored(container).requests, "cpu")
         /\ Mutates!Has(container.requests, "cpu") => Floored(container) = container
  BY MapsAreMaps DEF Mutates!Containers, Floored, With, Mutates!Has

LEMMA FlooredIsPod ==
  ASSUME NEW p \in Accepted, NEW k \in 0..Len(p.containers)
  PROVE  /\ FlooredTo(p, k) \in Accepted
         /\ Len(FlooredTo(p, k).containers) = Len(p.containers)
  <1>1. p.containers \in Lists /\ Len(p.containers) \in Nat
    BY DEF Accepted, Mutates!PodsOf, Lists
  <1>2. \A i \in 1..Len(p.containers) : /\ p.containers[i] \in Mutates!Containers
                                       /\ Floored(p.containers[i]) \in Mutates!Containers
    BY <1>1, FlooredIsContainer, ElementOfSeq DEF Lists
  <1>3. FlooredTo(p, k).containers \in Lists /\ Len(FlooredTo(p, k).containers) = Len(p.containers)
    BY <1>1, <1>2 DEF FlooredTo, Lists
  <1>4. QED
    BY <1>3 DEF Accepted, Mutates!PodsOf, FlooredTo

\* The pod with another container in the place of its k-th.
Replaced(p, k, c) ==
  [annotations |-> p.annotations,
   containers |-> [i \in 1..Len(p.containers) |-> IF i = k THEN c ELSE p.containers[i]]]

LEMMA AcceptedPods ==
  ASSUME NEW p \in Accepted
  PROVE  /\ p = [annotations |-> p.annotations, containers |-> p.containers]
         /\ p.annotations \in Mutates!Annotations
         /\ p.containers \in Lists /\ Len(p.containers) \in Nat
         /\ DOMAIN p.containers = 1..Len(p.containers)
         /\ p.containers = [i \in 1..Len(p.containers) |-> p.containers[i]]
         /\ \A i \in 1..Len(p.containers) : p.containers[i] \in Mutates!Containers
         /\ p # Refused
  <1>1. /\ p = [annotations |-> p.annotations, containers |-> p.containers]
        /\ p.annotations \in Mutates!Annotations /\ p.containers \in Lists
    BY DEF Accepted, Mutates!PodsOf
  <1>2. /\ Len(p.containers) \in Nat /\ DOMAIN p.containers = 1..Len(p.containers)
        /\ p.containers = [i \in 1..Len(p.containers) |-> p.containers[i]]
        /\ \A i \in 1..Len(p.containers) : p.containers[i] \in Mutates!Containers
    BY <1>1, LenProperties, ElementOfSeq DEF Lists
  <1>3. QED
    BY <1>1, <1>2, MapsAreMaps

LEMMA ReplacedIsPod ==
  ASSUME NEW p \in Accepted, NEW k \in 1..Len(p.containers),
         NEW c \in Mutates!Containers, NEW d \in Mutates!Containers
  PROVE  /\ Replaced(p, k, c) \in Accepted
         /\ Len(Replaced(p, k, c).containers) = Len(p.containers)
         /\ Replaced(p, k, c).containers[k] = c
         /\ Replaced(Replaced(p, k, c), k, d) = Replaced(p, k, d)
         /\ Replaced(p, k, p.containers[k]) = p
  <1> DEFINE r == [i \in 1..Len(p.containers) |-> IF i = k THEN c ELSE p.containers[i]]
  <1>1. r \in Lists /\ Len(r) = Len(p.containers)
    <2>1. Len(p.containers) \in Nat /\ \A i \in 1..Len(p.containers) : p.containers[i] \in Mutates!Containers
      BY AcceptedPods
    <2>2. r \in [1..Len(p.containers) -> Mutates!Containers]
      BY <2>1
    <2> HIDE DEF r
    <2>3. QED
      BY <2>1, <2>2 DEF Lists
  <1>2. Replaced(p, k, c) = [annotations |-> p.annotations, containers |-> r]
    BY DEF Replaced
  <1>3. Replaced(p, k, c) \in Accepted /\ Len(Replaced(p, k, c).containers) = Len(p.containers)
    BY <1>1, <1>2, AcceptedPods DEF Accepted, Mutates!PodsOf
  <1>4. Replaced(p, k, c).containers[k] = c
    BY <1>2
  <1>5. Replaced(Replaced(p, k, c), k, d) = Replaced(p, k, d)
    <2>1. [i \in 1..Len(p.containers) |-> IF i = k THEN d ELSE r[i]]
            = [i \in 1..Len(p.containers) |-> IF i = k THEN d ELSE p.containers[i]]
      OBVIOUS
    <2>2. QED
      BY <1>1, <1>2, <2>1 DEF Replaced
  <1>6. Replaced(p, k, p.containers[k]) = p
    <2>1. [i \in 1..Len(p.containers) |-> IF i = k THEN p.containers[k] ELSE p.containers[i]]
            = [i \in 1..Len(p.containers) |-> p.containers[i]]
      OBVIOUS
    <2>2. QED
      BY <2>1, AcceptedPods DEF Replaced
  <1>7. QED
    BY <1>3, <1>4, <1>5, <1>6

LEMMA FlooredOneMore ==
  ASSUME NEW p \in Accepted, NEW k \in 1..Len(p.containers)
  PROVE  /\ k - 1 \in 0..Len(p.containers)
         /\ FlooredTo(p, k - 1).containers[k] = p.containers[k]
         /\ FlooredTo(p, k) = Replaced(FlooredTo(p, k - 1), k, Floored(p.containers[k]))
  <1> DEFINE n == Len(p.containers)
             before == [i \in 1..n |-> IF i <= k - 1 THEN Floored(p.containers[i])
                                                     ELSE p.containers[i]]
  <1>1. n \in Nat /\ k - 1 \in 0..n /\ k \in 1..n
    BY AcceptedPods
  <1>2. FlooredTo(p, k - 1) = [annotations |-> p.annotations, containers |-> before]
    BY DEF FlooredTo
  <1>3. before[k] = p.containers[k]
    BY <1>1
  <1>4. Len(before) = n
    BY <1>1, <1>2, FlooredIsPod
  <1>5. \A i \in 1..n : (IF i = k THEN Floored(p.containers[k]) ELSE before[i])
                          = IF i <= k THEN Floored(p.containers[i]) ELSE p.containers[i]
    BY <1>1
  <1> HIDE DEF before
  <1>6. Replaced(FlooredTo(p, k - 1), k, Floored(p.containers[k]))
          = [annotations |-> p.annotations,
             containers |-> [i \in 1..n |-> IF i = k THEN Floored(p.containers[k]) ELSE before[i]]]
    BY <1>2, <1>4 DEF Replaced
  <1>7. QED
    BY <1>1, <1>2, <1>3, <1>5, <1>6 DEF FlooredTo

\* An op on the requests of a container.
LEMMA RequestOps ==
  ASSUME NEW p \in Accepted, NEW i \in 1..Len(p.containers)
  PROVE  /\ Mutates!ApplyOp(p, Mutates!AddMap("requests", i))
              = Replaced(p, i, [p.containers[i] EXCEPT !.requests = {}])
         /\ p.containers[i].requests # Absent =>
              Mutates!ApplyOp(p, Mutates!AddKey("requests", i, "cpu"))
                = Replaced(p, i, Floored(p.containers[i]))
  <1> DEFINE container == p.containers[i]
  <1>1. container \in Mutates!Containers /\ p # Refused
    BY AcceptedPods
  <1>2. \A m \in (SUBSET Resources) \cup {Absent} :
          [p EXCEPT !.containers[i].requests = m]
            = Replaced(p, i, [container EXCEPT !.requests = m])
    <2> TAKE m \in (SUBSET Resources) \cup {Absent}
    <2>1. [p EXCEPT !.containers[i].requests = m]
            = [p EXCEPT !.containers = [p.containers EXCEPT ![i] = [container EXCEPT !.requests = m]]]
      OBVIOUS
    <2>2. [p.containers EXCEPT ![i] = [container EXCEPT !.requests = m]]
            = [j \in 1..Len(p.containers) |-> IF j = i THEN [container EXCEPT !.requests = m]
                                                       ELSE p.containers[j]]
      BY AcceptedPods
    <2>3. p = [annotations |-> p.annotations, containers |-> p.containers]
      BY AcceptedPods
    <2> DEFINE them == [p.containers EXCEPT ![i] = [container EXCEPT !.requests = m]]
    <2> HIDE DEF them
    <2>4. [p EXCEPT !.containers = them] = [annotations |-> p.annotations, containers |-> them]
      BY <2>3
    <2>5. QED
      BY <2>1, <2>2, <2>4 DEF Replaced, them
  <1>3. Mutates!ApplyOp(p, Mutates!AddMap("requests", i))
          = [p EXCEPT !.containers[i].requests = {}]
    BY <1>1, MapsAreMaps DEF Mutates!ApplyOp, Mutates!Into, Mutates!AddMap
  <1>4. container.requests # Absent =>
          /\ container.requests \cup {"cpu"} \in SUBSET Resources
          /\ Mutates!ApplyOp(p, Mutates!AddKey("requests", i, "cpu"))
               = [p EXCEPT !.containers[i].requests = container.requests \cup {"cpu"}]
    <2>1. ASSUME container.requests # Absent
          PROVE  container.requests \cup {"cpu"} \in SUBSET Resources
      BY <1>1, <2>1, MapsAreMaps DEF Mutates!Containers
    <2>2. QED
      BY <1>1, <2>1, MapsAreMaps DEF Mutates!ApplyOp, Mutates!Into, Mutates!AddKey
  <1>5. container.requests # Absent =>
          Floored(container) = [container EXCEPT !.requests = container.requests \cup {"cpu"}]
    BY DEF Floored, With
  <1>6. QED
    BY <1>2, <1>3, <1>4, <1>5

\* The few ops of a turn, after a patch.
LEMMA ApplyFewMore ==
  ASSUME NEW p, NEW patch \in Seq(Ops), NEW a \in Ops, NEW b \in Ops
  PROVE  /\ patch \o << >> = patch
         /\ Mutates!Apply(p, patch \o << a >>)
              = Mutates!ApplyOp(Mutates!Apply(p, patch), a)
         /\ Mutates!Apply(p, patch \o << a, b >>)
              = Mutates!ApplyOp(Mutates!ApplyOp(Mutates!Apply(p, patch), a), b)
  <1> HIDE DEF Ops
  <1>1. patch \o << >> = patch
    OBVIOUS
  <1>2. patch \o << a >> = Append(patch, a) /\ Append(patch, a) \in Seq(Ops)
    OBVIOUS
  <1>3. patch \o << a, b >> = Append(Append(patch, a), b)
    OBVIOUS
  <1>4. QED
    <2>1. Mutates!Apply(p, Append(patch, a)) = Mutates!ApplyOp(Mutates!Apply(p, patch), a)
      BY ApplyOneMore
    <2>2. Mutates!Apply(p, Append(Append(patch, a), b))
            = Mutates!ApplyOp(Mutates!Apply(p, Append(patch, a)), b)
      BY <1>2, ApplyOneMore
    <2>3. QED
      BY <1>1, <1>2, <1>3, <2>1, <2>2

LEMMA TheOps ==
  /\ \A i \in Nat : /\ Mutates!AddMap("requests", i) \in Ops
                    /\ Mutates!AddKey("requests", i, "cpu") \in Ops
                    /\ Mutates!AddMap("annotations", i) \in Ops
                    /\ Mutates!AddKey("annotations", i, "injected") \in Ops
  /\ Mutates!AddLast(Mutates!Sidecar) \in Ops
  /\ \A container, i : i \in Nat => Mutates!CpuOpsOf(container, i) \in Seq(Ops)
  <1>1. /\ \A i \in Nat : /\ Mutates!AddMap("requests", i) \in Ops
                          /\ Mutates!AddKey("requests", i, "cpu") \in Ops
                          /\ Mutates!AddMap("annotations", i) \in Ops
                          /\ Mutates!AddKey("annotations", i, "injected") \in Ops
        /\ Mutates!AddLast(Mutates!Sidecar) \in Ops
    BY DEF Ops
  <1> HIDE DEF Ops
  <1>2. \A container, i : i \in Nat => Mutates!CpuOpsOf(container, i) \in Seq(Ops)
    BY <1>1 DEF Mutates!CpuOpsOf
  <1>3. QED
    BY <1>1, <1>2

\* A turn of the loop sees to one container more.
LEMMA OneTurn ==
  ASSUME NEW q, NEW p \in Accepted, NEW k \in 1..Len(p.containers), NEW patch \in Seq(Ops),
         Mutates!Apply(q, patch) = FlooredTo(p, k - 1)
  PROVE  Mutates!Apply(q, patch \o Mutates!CpuOpsOf(p.containers[k], k)) = FlooredTo(p, k)
  <1> DEFINE before == FlooredTo(p, k - 1)
             container == p.containers[k]
             emptied == [container EXCEPT !.requests = {}]
             map == Mutates!AddMap("requests", k)
             key == Mutates!AddKey("requests", k, "cpu")
  <1>1. /\ before \in Accepted /\ Len(before.containers) = Len(p.containers)
        /\ before.containers[k] = container /\ k \in 1..Len(before.containers)
        /\ FlooredTo(p, k) = Replaced(before, k, Floored(container))
    BY FlooredIsPod, FlooredOneMore
  <1>2. container \in Mutates!Containers /\ k \in Nat
    <2>1. Len(p.containers) \in Nat /\ \A i \in 1..Len(p.containers) : p.containers[i] \in Mutates!Containers
      BY AcceptedPods
    <2>2. k \in Nat
      BY <2>1
    <2>3. QED
      BY <2>1, <2>2
  <1>3. map \in Ops /\ key \in Ops
    BY <1>2, TheOps
  <1>4. /\ Mutates!ApplyOp(before, map) = Replaced(before, k, emptied)
        /\ container.requests # Absent =>
             Mutates!ApplyOp(before, key) = Replaced(before, k, Floored(container))
    BY <1>1, RequestOps
  <1>5. /\ Floored(container) \in Mutates!Containers
        /\ Mutates!Has(container.requests, "cpu") => Floored(container) = container
    BY <1>2, FlooredIsContainer
  <1>6. /\ emptied \in Mutates!Containers /\ emptied.requests = {} /\ {} # Absent
        /\ container.requests = Absent => Floored(emptied) = Floored(container)
    BY <1>2, MapsAreMaps DEF Mutates!Containers, Floored, With
  <1>7. /\ patch \o << >> = patch
        /\ Mutates!Apply(q, patch \o << key >>) = Mutates!ApplyOp(before, key)
        /\ Mutates!Apply(q, patch \o << map, key >>)
             = Mutates!ApplyOp(Mutates!ApplyOp(before, map), key)
    <2> HIDE DEF map, key, before
    <2>1. Mutates!Apply(q, patch) = before
      BY DEF before
    <2>2. QED
      BY <1>3, <2>1, ApplyFewMore
  <1> HIDE DEF before, container, emptied, map, key
  <1>8. CASE Mutates!Has(container.requests, "cpu")
    <2>1. Mutates!CpuOpsOf(container, k) = << >>
      BY <1>8 DEF Mutates!CpuOpsOf
    <2>2. Replaced(before, k, container) = before
      BY <1>1, <1>2, ReplacedIsPod
    <2>3. QED
      BY <1>1, <1>5, <1>7, <1>8, <2>1, <2>2 DEF before, container
  <1>9. CASE ~Mutates!Has(container.requests, "cpu") /\ container.requests = Absent
    <2>1. Mutates!CpuOpsOf(container, k) = << map, key >>
      BY <1>9 DEF Mutates!CpuOpsOf, map, key
    <2> DEFINE between == Replaced(before, k, emptied)
    <2>2. /\ between \in Accepted /\ k \in 1..Len(between.containers)
          /\ between.containers[k] = emptied
      BY <1>1, <1>6, ReplacedIsPod
    <2> HIDE DEF between
    <2>3. Mutates!ApplyOp(between, key) = Replaced(between, k, Floored(emptied))
      BY <1>6, <2>2, RequestOps DEF key
    <2>4. Replaced(between, k, Floored(emptied)) = Replaced(before, k, Floored(container))
      BY <1>1, <1>5, <1>6, <1>9, ReplacedIsPod DEF between
    <2>5. QED
      BY <1>1, <1>4, <1>7, <2>1, <2>3, <2>4 DEF between, before, container
  <1>10. CASE ~Mutates!Has(container.requests, "cpu") /\ container.requests # Absent
    <2>1. Mutates!CpuOpsOf(container, k) = << key >>
      BY <1>10 DEF Mutates!CpuOpsOf, key
    <2>2. QED
      BY <1>1, <1>4, <1>7, <1>10, <2>1 DEF before, container
  <1>11. QED
    BY <1>8, <1>9, <1>10

LEMMA Regroup ==
  ASSUME NEW a \in Seq(Ops), NEW b \in Seq(Ops), NEW c \in Seq(Ops)
  PROVE  /\ a \o b \in Seq(Ops) /\ b \o c \in Seq(Ops)
         /\ (a \o b) \o c = a \o (b \o c)
  BY ConcatProperties, ConcatAssociative

\* upTo, in the definition of CpuOps.
Turn(before, p, n) == before \o Mutates!CpuOpsOf(p.containers[n], n)
Turns(f, p) ==
  f = [n \in 0..Len(p.containers) |-> IF n = 0 THEN << >> ELSE Turn(f[n - 1], p, n)]

LEMMA TurnsOneByOne ==
  ASSUME NEW p, Len(p.containers) \in Nat, NEW f, Turns(f, p)
  PROVE  f[0] = << >> /\ \A i \in 1..Len(p.containers) : f[i] = Turn(f[i - 1], p, i)
  <1>1. f[0] = << >>
    BY DEF Turns
  <1>2. ASSUME NEW i \in 1..Len(p.containers)
        PROVE  f[i] = Turn(f[i - 1], p, i)
    <2>1. i \in 0..Len(p.containers) /\ i # 0
      OBVIOUS
    <2>2. QED
      BY <2>1 DEF Turns
  <1>3. QED
    BY <1>1, <1>2

LEMMA PodHasTurns ==
  ASSUME NEW p, Len(p.containers) \in Nat
  PROVE  \E f : Turns(f, p)
  <1> DEFINE Upto(f, n) ==
               f = [i \in 0..n |-> IF i = 0 THEN << >> ELSE Turn(f[i - 1], p, i)]
             Without == {n \in Nat : ~\E f : Upto(f, n)}
  <1>1. Without = {}
    <2>1. SUFFICES ASSUME Without # {} PROVE FALSE
      OBVIOUS
    <2>2. PICK m \in Without : \A n \in Without : m <= n
      BY <2>1, Least
    <2>3. CASE m = 0
      <3>1. Upto([i \in 0..0 |-> << >>], 0)
        OBVIOUS
      <3>2. QED
        BY <2>2, <2>3, <3>1
    <2>4. CASE m # 0
      <3>1. m \in Nat /\ m - 1 \in Nat
        BY <2>2, <2>4
      <3>2. PICK f : Upto(f, m - 1)
        BY <2>2, <3>1
      <3> DEFINE g == [i \in 0..m |-> IF i = m THEN Turn(f[m - 1], p, m) ELSE f[i]]
      <3>3. ASSUME NEW i \in 0..m
            PROVE  g[i] = IF i = 0 THEN << >> ELSE Turn(g[i - 1], p, i)
        <4>1. i # 0 => g[i - 1] = f[i - 1]
          BY <3>1
        <4>2. i # m => g[i] = f[i] /\ i \in 0..(m - 1)
          BY <3>1
        <4>3. QED
          BY <2>4, <3>2, <4>1, <4>2
      <3>4. Upto(g, m)
        BY <3>3
      <3>5. QED
        BY <2>2, <3>4
    <2>5. QED
      BY <2>3, <2>4
  <1>2. QED
    BY <1>1 DEF Turns

LEMMA LoopHasTurns ==
  ASSUME NEW p \in Accepted
  PROVE  \E f : Turns(f, p) /\ Mutates!CpuOps(p, "CREATE") = f[Len(p.containers)]
  <1>1. Len(p.containers) \in Nat
    BY AcceptedPods
  <1>2. \E f : Turns(f, p)
    BY <1>1, PodHasTurns
  <1>3. QED
    BY <1>2 DEF Turns, Turn, Mutates!CpuOps

\* The loop as a whole: every container comes to request CPU.
LEMMA LoopIsApplied ==
  ASSUME NEW q, NEW p \in Accepted, NEW patch \in Seq(Ops), Mutates!Apply(q, patch) = p
  PROVE  /\ Mutates!CpuOps(p, "CREATE") \in Seq(Ops)
         /\ Mutates!Apply(q, patch \o Mutates!CpuOps(p, "CREATE"))
              = FlooredTo(p, Len(p.containers))
  <1>1. PICK f : Turns(f, p) /\ Mutates!CpuOps(p, "CREATE") = f[Len(p.containers)]
    BY LoopHasTurns
  <1>2. /\ Len(p.containers) \in Nat
        /\ \A i \in 1..Len(p.containers) : p.containers[i] \in Mutates!Containers
    BY AcceptedPods
  <1> DEFINE n == Len(p.containers)
             Good(i) == f[i] \in Seq(Ops) /\ Mutates!Apply(q, patch \o f[i]) = FlooredTo(p, i)
             Bad == {i \in 0..n : ~Good(i)}
  <1>3. f[0] = << >> /\ \A i \in 1..n : f[i] = Turn(f[i - 1], p, i)
    BY <1>1, <1>2, TurnsOneByOne
  <1>4. FlooredTo(p, 0) = p
    <2>1. [i \in 1..n |-> IF i <= 0 THEN Floored(p.containers[i]) ELSE p.containers[i]]
            = [i \in 1..n |-> p.containers[i]]
      BY <1>2
    <2>2. p = [annotations |-> p.annotations, containers |-> p.containers]
      BY AcceptedPods
    <2>3. p.containers = [i \in 1..n |-> p.containers[i]]
      BY AcceptedPods
    <2>4. QED
      BY <2>1, <2>2, <2>3 DEF FlooredTo
  <1>5. Good(0)
    <2>1. patch \o << >> = patch /\ << >> \in Seq(Ops)
      OBVIOUS
    <2>2. QED
      BY <1>3, <1>4, <2>1
  <1>6. ASSUME NEW i \in 1..n, Good(i - 1)
        PROVE  Good(i)
    <2> DEFINE turn == Mutates!CpuOpsOf(p.containers[i], i)
    <2>1. f[i - 1] \in Seq(Ops) /\ Mutates!Apply(q, patch \o f[i - 1]) = FlooredTo(p, i - 1)
      BY <1>6
    <2>2. turn \in Seq(Ops)
      BY <1>2, TheOps
    <2>3. f[i] = f[i - 1] \o turn
      BY <1>3 DEF Turn
    <2> HIDE DEF turn
    <2>4. /\ patch \o f[i - 1] \in Seq(Ops) /\ f[i - 1] \o turn \in Seq(Ops)
          /\ (patch \o f[i - 1]) \o turn = patch \o (f[i - 1] \o turn)
      BY <2>1, <2>2, Regroup
    <2>5. Mutates!Apply(q, (patch \o f[i - 1]) \o turn) = FlooredTo(p, i)
      <3> DEFINE sofar == patch \o f[i - 1]
      <3>1. sofar \in Seq(Ops) /\ Mutates!Apply(q, sofar) = FlooredTo(p, i - 1)
        BY <2>1, <2>4
      <3> HIDE DEF sofar
      <3>2. Mutates!Apply(q, sofar \o turn) = FlooredTo(p, i)
        BY <3>1, OneTurn DEF turn
      <3>3. QED
        BY <3>2 DEF sofar
    <2>6. QED
      BY <2>3, <2>4, <2>5
  <1> HIDE DEF Good
  <1>7. Bad = {}
    <2>1. SUFFICES ASSUME Bad # {} PROVE FALSE
      OBVIOUS
    <2>2. Bad \in SUBSET Nat
      OBVIOUS
    <2>3. PICK m \in Bad : \A i \in Bad : m <= i
      <3> HIDE DEF Bad
      <3>1. QED
        BY <2>1, <2>2, Least
    <2>4. m # 0 /\ m \in 1..n /\ m - 1 \in 0..n /\ m - 1 \notin Bad
      BY <1>2, <1>5, <2>3
    <2>5. Good(m - 1)
      BY <2>4
    <2>6. QED
      BY <1>6, <2>3, <2>4, <2>5
  <1>8. Good(n)
    BY <1>2, <1>7
  <1>9. QED
    BY <1>1, <1>8 DEF Good

\* A loop over containers that request CPU adds nothing.
LEMMA LoopIsIdle ==
  ASSUME NEW p \in Accepted,
         \A i \in 1..Len(p.containers) : Mutates!Has(p.containers[i].requests, "cpu")
  PROVE  Mutates!CpuOps(p, "CREATE") = << >>
  <1>1. PICK f : Turns(f, p) /\ Mutates!CpuOps(p, "CREATE") = f[Len(p.containers)]
    BY LoopHasTurns
  <1>2. Len(p.containers) \in Nat
    BY AcceptedPods
  <1> DEFINE n == Len(p.containers)
             Bad == {i \in 0..n : f[i] # << >>}
  <1>3. f[0] = << >> /\ \A i \in 1..n : f[i] = Turn(f[i - 1], p, i)
    BY <1>1, <1>2, TurnsOneByOne
  <1>4. Bad = {}
    <2>1. SUFFICES ASSUME Bad # {} PROVE FALSE
      OBVIOUS
    <2>2. Bad \in SUBSET Nat
      OBVIOUS
    <2>3. PICK m \in Bad : \A i \in Bad : m <= i
      <3> HIDE DEF Bad
      <3>1. QED
        BY <2>1, <2>2, Least
    <2>4. m # 0 /\ m \in 1..n /\ m - 1 \in 0..n /\ m - 1 \notin Bad
      BY <1>2, <1>3, <2>3
    <2>5. Mutates!CpuOpsOf(p.containers[m], m) = << >>
      BY <2>4 DEF Mutates!CpuOpsOf
    <2>6. << >> \o << >> = << >>
      OBVIOUS
    <2>7. QED
      BY <1>3, <2>3, <2>4, <2>5, <2>6 DEF Turn
  <1>5. QED
    BY <1>1, <1>2, <1>4

\* The pod with this program's mark.
Marked(p) ==
  [annotations |-> With(p.annotations, "injected"), containers |-> p.containers]

LEMMA MarkIsApplied ==
  ASSUME NEW p \in Accepted
  PROVE  /\ Mutates!AnnotateOps(p) \in Seq(Ops)
         /\ Mutates!Apply(p, Mutates!AnnotateOps(p)) = Marked(p)
         /\ Marked(p) \in Accepted
         /\ Mutates!Has(Marked(p).annotations, "injected")
         /\ Mutates!Has(Marked(p).annotations, "inject") <=> Mutates!Has(p.annotations, "inject")
  <1> DEFINE map == Mutates!AddMap("annotations", 0)
             key == Mutates!AddKey("annotations", 0, "injected")
             emptied == [annotations |-> {}, containers |-> p.containers]
  <1>1. /\ p = [annotations |-> p.annotations, containers |-> p.containers]
        /\ p.annotations \in (SUBSET Mutates!Keys) \cup {Absent} /\ p # Refused
        /\ p.containers \in Lists
    BY AcceptedPods DEF Mutates!Annotations
  <1>2. map \in Ops /\ key \in Ops /\ << >> \in Seq(Ops)
    BY TheOps
  <1>3. Marked(p) \in Accepted
    <2>1. With(p.annotations, "injected") \in SUBSET Mutates!Keys
      BY <1>1 DEF With, Mutates!Keys
    <2>2. QED
      BY <1>1, <2>1 DEF Marked, Accepted, Mutates!PodsOf, Mutates!Annotations
  <1>4. With(p.annotations, "injected") \in SUBSET Mutates!Keys /\ Absent \notin SUBSET Mutates!Keys
    BY <1>1, MapsAreMaps DEF With, Mutates!Keys
  <1>5. /\ Mutates!Has(Marked(p).annotations, "injected")
        /\ Mutates!Has(Marked(p).annotations, "inject") <=> Mutates!Has(p.annotations, "inject")
    BY <1>1, <1>4 DEF Marked, With, Mutates!Has
  <1>6. emptied \in Accepted /\ emptied # Refused /\ emptied.annotations = {} /\ {} # Absent /\ {} # Refused
    <2>1. emptied \in Accepted
      BY <1>1 DEF Accepted, Mutates!PodsOf, Mutates!Annotations
    <2>2. QED
      BY <2>1, MapsAreMaps
  <1>7. Mutates!ApplyOp(p, map) = emptied
    <2>1. Mutates!ApplyOp(p, map) = [p EXCEPT !.annotations = {}]
      BY <1>1, <1>6 DEF Mutates!ApplyOp, Mutates!Into, Mutates!AddMap
    <2>2. QED
      BY <1>1, <2>1
  <1>8. ASSUME NEW r \in Accepted, r.annotations # Absent
        PROVE  Mutates!ApplyOp(r, key) = Marked(r)
    <2>1. /\ r = [annotations |-> r.annotations, containers |-> r.containers]
          /\ r.annotations \in SUBSET Mutates!Keys /\ r # Refused
      BY <1>8, AcceptedPods DEF Mutates!Annotations
    <2>2. r.annotations \cup {"injected"} # Refused
      BY <2>1, MapsAreMaps DEF Mutates!Keys
    <2>3. Mutates!ApplyOp(r, key) = [r EXCEPT !.annotations = r.annotations \cup {"injected"}]
      BY <1>8, <2>1, <2>2 DEF Mutates!ApplyOp, Mutates!Into, Mutates!AddKey
    <2>4. QED
      BY <1>8, <2>1, <2>3 DEF Marked, With
  <1>9. CASE Mutates!Has(p.annotations, "injected")
    <2>1. Mutates!AnnotateOps(p) = << >>
      BY <1>9 DEF Mutates!AnnotateOps
    <2>2. Marked(p) = p
      BY <1>1, <1>9 DEF Marked, With, Mutates!Has
    <2>3. QED
      BY <1>2, <1>3, <1>5, <2>1, <2>2, ApplyNothing
  <1>10. CASE p.annotations = Absent
    <2>1. Mutates!AnnotateOps(p) = << map, key >>
      BY <1>10 DEF Mutates!AnnotateOps, Mutates!Has
    <2>2. Mutates!ApplyOp(emptied, key) = Marked(p)
      BY <1>6, <1>8, <1>10 DEF Marked, With
    <2> HIDE DEF map, key, emptied
    <2>3. << >> \o << map, key >> = << map, key >> /\ << map, key >> \in Seq(Ops)
      BY <1>2
    <2>4. Mutates!Apply(p, << >> \o << map, key >>)
            = Mutates!ApplyOp(Mutates!ApplyOp(Mutates!Apply(p, << >>), map), key)
      BY <1>2, ApplyFewMore
    <2>5. QED
      BY <1>3, <1>5, <1>7, <2>1, <2>2, <2>3, <2>4, ApplyNothing
  <1>11. CASE ~Mutates!Has(p.annotations, "injected") /\ p.annotations # Absent
    <2>1. Mutates!AnnotateOps(p) = << key >>
      BY <1>11 DEF Mutates!AnnotateOps
    <2>2. Mutates!ApplyOp(p, key) = Marked(p)
      BY <1>8, <1>11
    <2> HIDE DEF map, key, emptied
    <2>3. << >> \o << key >> = << key >> /\ << key >> \in Seq(Ops)
      BY <1>2
    <2>4. Mutates!Apply(p, << >> \o << key >>) = Mutates!ApplyOp(Mutates!Apply(p, << >>), key)
      BY <1>2, ApplyFewMore
    <2>5. QED
      BY <1>3, <1>5, <2>1, <2>2, <2>3, <2>4, ApplyNothing
  <1>12. QED
    BY <1>9, <1>10, <1>11

\* A pod that needs the sidecar, and the pod with one.
Asks(p) ==
  /\ Mutates!Has(p.annotations, "inject")
  /\ \A i \in DOMAIN p.containers : p.containers[i].name # "sidecar"
Joined(p) ==
  [annotations |-> p.annotations, containers |-> Append(p.containers, Mutates!Sidecar)]

LEMMA SidecarIsApplied ==
  ASSUME NEW p \in Accepted
  PROVE  /\ Mutates!ApplyOp(p, Mutates!AddLast(Mutates!Sidecar)) = Joined(p)
         /\ Joined(p) \in Accepted
         /\ Len(Joined(p).containers) = Len(p.containers) + 1
         /\ \A i \in 1..Len(p.containers) : Joined(p).containers[i] = p.containers[i]
         /\ Joined(p).containers[Len(p.containers) + 1] = Mutates!Sidecar
  <1>1. /\ p = [annotations |-> p.annotations, containers |-> p.containers]
        /\ p.annotations \in Mutates!Annotations /\ p # Refused
        /\ p.containers \in Lists
    BY AcceptedPods
  <1>2. Mutates!Sidecar \in Mutates!Containers
    BY MapsAreMaps DEF Mutates!Sidecar, Mutates!Containers
  <1>3. Mutates!ApplyOp(p, Mutates!AddLast(Mutates!Sidecar)) = Joined(p)
    <2>1. Mutates!ApplyOp(p, Mutates!AddLast(Mutates!Sidecar))
            = [p EXCEPT !.containers = Append(p.containers, Mutates!Sidecar)]
      <3> DEFINE op == Mutates!AddLast(Mutates!Sidecar)
      <3>1. op.op = "last" /\ op.container = Mutates!Sidecar
        BY DEF Mutates!AddLast
      <3> HIDE DEF op
      <3>2. Mutates!ApplyOp(p, op) = [p EXCEPT !.containers = Append(@, op.container)]
        BY <1>1, <3>1 DEF Mutates!ApplyOp
      <3>3. QED
        BY <3>1, <3>2 DEF op
    <2> DEFINE longer == Append(p.containers, Mutates!Sidecar)
    <2> HIDE DEF longer
    <2>2. [p EXCEPT !.containers = longer] = [annotations |-> p.annotations, containers |-> longer]
      BY <1>1
    <2>3. QED
      BY <2>1, <2>2 DEF Joined, longer
  <1>4. /\ Append(p.containers, Mutates!Sidecar) \in Lists
        /\ Len(Append(p.containers, Mutates!Sidecar)) = Len(p.containers) + 1
        /\ \A i \in 1..Len(p.containers) :
             Append(p.containers, Mutates!Sidecar)[i] = p.containers[i]
        /\ Append(p.containers, Mutates!Sidecar)[Len(p.containers) + 1] = Mutates!Sidecar
    BY <1>1, <1>2, AppendProperties DEF Lists
  <1>5. Joined(p) \in Accepted
    BY <1>1, <1>4 DEF Joined, Accepted, Mutates!PodsOf
  <1>6. QED
    BY <1>3, <1>4, <1>5 DEF Joined

\* What mutate makes of a pod.
Seen(p) == FlooredTo(Marked(p), Len(p.containers))
Mutated(p, op) ==
  IF op = "UPDATE" THEN Marked(p) ELSE IF Asks(p) THEN Joined(Seen(p)) ELSE Seen(p)

\* What it promises of what it has made.
Promised(p, op) ==
  /\ Mutates!Has(p.annotations, "injected")
  /\ op = "CREATE" =>
       /\ \A i \in DOMAIN p.containers : Mutates!Has(p.containers[i].requests, "cpu")
       /\ Mutates!Has(p.annotations, "inject") =>
            \E i \in DOMAIN p.containers : p.containers[i].name = "sidecar"

LEMMA SeenPods ==
  ASSUME NEW p \in Accepted
  PROVE  /\ Seen(p) \in Accepted
         /\ Seen(p).annotations = Marked(p).annotations
         /\ Len(Seen(p).containers) = Len(p.containers)
         /\ \A i \in 1..Len(p.containers) :
              /\ Seen(p).containers[i].name = p.containers[i].name
              /\ Mutates!Has(Seen(p).containers[i].requests, "cpu")
  <1>1. /\ Marked(p) \in Accepted /\ Marked(p).containers = p.containers
        /\ Len(p.containers) \in Nat
        /\ \A i \in 1..Len(p.containers) : p.containers[i] \in Mutates!Containers
    <2>1. Marked(p) \in Accepted
      BY MarkIsApplied
    <2>2. Len(p.containers) \in Nat
      BY AcceptedPods
    <2>3. \A i \in 1..Len(p.containers) : p.containers[i] \in Mutates!Containers
      BY AcceptedPods
    <2>4. QED
      BY <2>1, <2>2, <2>3 DEF Marked
  <1>2. Seen(p) \in Accepted /\ Len(Seen(p).containers) = Len(p.containers)
    BY <1>1, FlooredIsPod DEF Seen
  <1>3. Seen(p).annotations = Marked(p).annotations
    BY DEF Seen, FlooredTo
  <1>4. ASSUME NEW i \in 1..Len(p.containers)
        PROVE  /\ Seen(p).containers[i].name = p.containers[i].name
               /\ Mutates!Has(Seen(p).containers[i].requests, "cpu")
    <2>1. Seen(p).containers[i] = Floored(p.containers[i])
      BY <1>1 DEF Seen, FlooredTo
    <2>2. QED
      BY <1>1, <2>1, FlooredIsContainer
  <1>5. QED
    BY <1>2, <1>3, <1>4

LEMMA PatchIsApplied ==
  ASSUME NEW p \in Accepted, NEW op \in {"CREATE", "UPDATE"}
  PROVE  /\ Mutates!Apply(p, Mutates!Patch(p, op)) = Mutated(p, op)
         /\ Mutated(p, op) \in Accepted
  <1> DEFINE first == Mutates!AnnotateOps(p)
  <1>1. first \in Seq(Ops) /\ Mutates!Apply(p, first) = Marked(p) /\ Marked(p) \in Accepted
    BY MarkIsApplied
  <1> HIDE DEF first
  <1>2. /\ first \o << >> = first /\ << >> \o << >> = << >>
        /\ \A patch \in Seq(Ops) : patch \o << >> = patch
    BY <1>1
  <1>3. CASE op = "UPDATE"
    <2>1. Mutates!CpuOps(p, op) = << >> /\ Mutates!SidecarOps(p, op) = << >>
      BY <1>3 DEF Mutates!CpuOps, Mutates!SidecarOps
    <2>2. Mutates!Patch(p, op) = first
      BY <1>1, <1>2, <2>1 DEF Mutates!Patch, first
    <2>3. QED
      BY <1>1, <1>3, <2>2 DEF Mutated
  <1>4. CASE op = "CREATE"
    <2> DEFINE loop == Mutates!CpuOps(p, "CREATE")
               both == first \o loop
               last == Mutates!AddLast(Mutates!Sidecar)
    <2>1. Mutates!CpuOps(Marked(p), "CREATE") = loop
      BY DEF Mutates!CpuOps, Marked
    <2>2. Len(Marked(p).containers) = Len(p.containers)
      BY DEF Marked
    <2>3. loop \in Seq(Ops) /\ Mutates!Apply(p, first \o loop) = Seen(p)
      BY <1>1, <2>1, <2>2, LoopIsApplied DEF Seen
    <2> HIDE DEF loop
    <2>4. both \in Seq(Ops) /\ Mutates!Apply(p, both) = Seen(p) /\ both \o << >> = both
      BY <1>1, <1>2, <2>3, Regroup
    <2> HIDE DEF both
    <2>5. last \in Ops
      BY TheOps
    <2>6. Mutates!Patch(p, op) = both \o Mutates!SidecarOps(p, op)
      BY <1>4 DEF Mutates!Patch, first, loop, both
    <2>7. Mutates!SidecarOps(p, op) = IF Asks(p) THEN << last >> ELSE << >>
      BY <1>4 DEF Mutates!SidecarOps, Asks
    <2>8. Seen(p) \in Accepted
      BY SeenPods
    <2>9. CASE Asks(p)
      <3> HIDE DEF last
      <3>1. Mutates!Apply(p, both \o << last >>) = Mutates!ApplyOp(Seen(p), last)
        <4>1. both \o << last >> = Append(both, last)
          BY <2>4
        <4>2. Mutates!Apply(p, Append(both, last))
                = Mutates!ApplyOp(Mutates!Apply(p, both), last)
          BY <2>4, <2>5, ApplyOneMore
        <4>3. QED
          BY <2>4, <4>1, <4>2
      <3>2. Mutates!ApplyOp(Seen(p), last) = Joined(Seen(p)) /\ Joined(Seen(p)) \in Accepted
        BY <2>8, SidecarIsApplied DEF last
      <3>3. QED
        BY <1>4, <2>6, <2>7, <2>9, <3>1, <3>2 DEF Mutated
    <2>10. CASE ~Asks(p)
      BY <1>4, <2>4, <2>6, <2>7, <2>8, <2>10 DEF Mutated
    <2>11. QED
      BY <2>9, <2>10
  <1>5. QED
    BY <1>3, <1>4

\* mutate keeps its promises, and names the containers as they were.
LEMMA MutatedIsPromised ==
  ASSUME NEW p \in Accepted, NEW op \in {"CREATE", "UPDATE"}, Mutates!UniqueNames(p)
  PROVE  /\ Promised(Mutated(p, op), op)
         /\ Mutates!UniqueNames(Mutated(p, op))
         /\ op = "UPDATE" => Mutated(p, op).containers = p.containers
  <1>1. /\ Mutates!Has(Marked(p).annotations, "injected")
        /\ Mutates!Has(Marked(p).annotations, "inject") <=> Mutates!Has(p.annotations, "inject")
        /\ Marked(p).containers = p.containers
    BY MarkIsApplied DEF Marked
  <1>2. Len(p.containers) \in Nat /\ DOMAIN p.containers = 1..Len(p.containers)
    BY AcceptedPods
  <1>3. CASE op = "UPDATE"
    BY <1>1, <1>3 DEF Mutated, Promised, Mutates!UniqueNames
  <1> DEFINE n == Len(p.containers)
             seen == Seen(p)
  <1>4. /\ seen \in Accepted /\ seen.annotations = Marked(p).annotations
        /\ Len(seen.containers) = n
        /\ \A i \in 1..n : /\ seen.containers[i].name = p.containers[i].name
                           /\ Mutates!Has(seen.containers[i].requests, "cpu")
    BY SeenPods
  <1> HIDE DEF seen
  <1>5. DOMAIN seen.containers = 1..n
    BY <1>4, AcceptedPods
  <1>6. CASE op = "CREATE" /\ Asks(p)
    <2> DEFINE joined == Joined(seen)
    <2>1. /\ joined \in Accepted /\ Len(joined.containers) = n + 1
          /\ \A i \in 1..n : joined.containers[i] = seen.containers[i]
          /\ joined.containers[n + 1] = Mutates!Sidecar
      BY <1>4, SidecarIsApplied
    <2>2. joined.annotations = seen.annotations
      BY DEF Joined
    <2>3. Mutated(p, op) = joined
      BY <1>6 DEF Mutated, seen
    <2> HIDE DEF joined
    <2>4. DOMAIN joined.containers = 1..(n + 1)
      BY <2>1, AcceptedPods
    <2>5. \A i \in 1..n : p.containers[i].name # "sidecar"
      BY <1>2, <1>6 DEF Asks
    <2>6. /\ Mutates!Sidecar.name = "sidecar" /\ Mutates!Has(Mutates!Sidecar.requests, "cpu")
      <3>1. {"cpu"} # Absent
        BY MapsAreMaps
      <3>2. QED
        BY <3>1 DEF Mutates!Sidecar, Mutates!Has
    <2>7. \A i \in 1..(n + 1) : i \in 1..n \/ i = n + 1
      BY <1>2
    <2>8. Promised(joined, op)
      BY <1>1, <1>2, <1>4, <2>1, <2>2, <2>4, <2>6, <2>7 DEF Promised
    <2>9. Mutates!UniqueNames(joined)
      <3>1. SUFFICES ASSUME NEW i \in 1..(n + 1), NEW j \in 1..(n + 1),
                            joined.containers[i].name = joined.containers[j].name
                     PROVE  i = j
        BY <2>4 DEF Mutates!UniqueNames
      <3>2. \A k \in 1..n : joined.containers[k].name = p.containers[k].name
        BY <1>4, <2>1
      <3>3. CASE i \in 1..n /\ j \in 1..n
        BY <1>2, <3>1, <3>2, <3>3 DEF Mutates!UniqueNames
      <3>4. CASE i = n + 1 \/ j = n + 1
        BY <2>1, <2>5, <2>6, <2>7, <3>1, <3>2, <3>4
      <3>5. QED
        BY <2>7, <3>3, <3>4
    <2>10. QED
      BY <1>6, <2>3, <2>8, <2>9
  <1>7. CASE op = "CREATE" /\ ~Asks(p)
    <2>1. Mutated(p, op) = seen
      BY <1>7 DEF Mutated, seen
    <2>2. Mutates!Has(p.annotations, "inject") => \E i \in 1..n : p.containers[i].name = "sidecar"
      BY <1>2, <1>7 DEF Asks
    <2>3. Promised(seen, op)
      BY <1>1, <1>4, <1>5, <2>2 DEF Promised
    <2>4. Mutates!UniqueNames(seen)
      BY <1>2, <1>4, <1>5 DEF Mutates!UniqueNames
    <2>5. QED
      BY <1>7, <2>1, <2>3, <2>4
  <1>8. QED
    BY <1>3, <1>6, <1>7

\* And has nothing to add to a pod that is as promised.
LEMMA NothingToAdd ==
  ASSUME NEW p \in Accepted, NEW op \in {"CREATE", "UPDATE"}, Promised(p, op)
  PROVE  Mutates!Patch(p, op) = << >>
  <1>1. Mutates!AnnotateOps(p) = << >>
    BY DEF Promised, Mutates!AnnotateOps
  <1>2. Mutates!CpuOps(p, op) = << >>
    <2>1. CASE op = "UPDATE"
      BY <2>1 DEF Mutates!CpuOps
    <2>2. CASE op = "CREATE"
      <3>1. DOMAIN p.containers = 1..Len(p.containers)
        BY AcceptedPods
      <3>2. \A i \in 1..Len(p.containers) : Mutates!Has(p.containers[i].requests, "cpu")
        BY <2>2, <3>1 DEF Promised
      <3>3. QED
        BY <2>2, <3>2, LoopIsIdle
    <2>3. QED
      BY <2>1, <2>2
  <1>3. Mutates!SidecarOps(p, op) = << >>
    BY DEF Promised, Mutates!SidecarOps
  <1>4. << >> \o << >> = << >>
    OBVIOUS
  <1>5. QED
    BY <1>1, <1>2, <1>3, <1>4 DEF Mutates!Patch

\* The inductive invariant.  While the last call that was due has been answered
\* and nobody has changed the pod since, the pod is as promised.
MInv ==
  /\ operation \in {"CREATE", "UPDATE"}
  /\ pod \in Accepted
  /\ Mutates!UniqueNames(pod)
  /\ operation = "UPDATE" => pod.containers = stored.containers
  /\ stage \in {"others", "settled", "stored"} /\ ~missed => Promised(pod, operation)

LEMMA MutationInit == Mutates!Init => MInv
  <1> SUFFICES ASSUME Mutates!Init PROVE MInv
    OBVIOUS
  <1>1. /\ operation \in {"CREATE", "UPDATE"} /\ stage = "first"
        /\ stored \in Mutates!Pods /\ Mutates!UniqueNames(stored)
    BY DEF Mutates!Init
  <1>2. stored \in Accepted
    <2>1. UNION {[1..n -> Mutates!Containers] : n \in 1..MostContainers} \subseteq Lists
      <3>1. ASSUME NEW n \in 1..MostContainers
            PROVE  [1..n -> Mutates!Containers] \subseteq Lists
        <4>1. n \in Nat
          BY DEF Mutates!MutateAssumption
        <4>2. QED
          BY <4>1 DEF Lists
      <3>2. QED
        BY <3>1
    <2>2. QED
      BY <1>1, <2>1 DEF Mutates!Pods, Mutates!PodsOf, Accepted
  <1>3. PICK a \in Mutates!Annotations :
          pod = IF operation = "CREATE" THEN stored ELSE [stored EXCEPT !.annotations = a]
    BY DEF Mutates!Init
  <1>4. /\ pod \in Accepted /\ pod.containers = stored.containers
    BY <1>2, <1>3 DEF Accepted, Mutates!PodsOf
  <1>5. QED
    BY <1>1, <1>4 DEF MInv, Mutates!UniqueNames

LEMMA CallKeepsPromises ==
  ASSUME MInv, NEW from, NEW to, Mutates!Call(from, to)
  PROVE  MInv'
  <1>1. /\ pod' = Mutated(pod, operation) /\ operation' = operation /\ stored' = stored
        /\ pod' \in Accepted
    BY PatchIsApplied DEF MInv, Mutates!Call
  <1>2. /\ Promised(pod', operation) /\ Mutates!UniqueNames(pod')
        /\ operation = "UPDATE" => pod'.containers = pod.containers
    BY <1>1, MutatedIsPromised DEF MInv
  <1>3. QED
    BY <1>1, <1>2 DEF MInv, Promised, Mutates!UniqueNames

LEMMA MutationStep == MInv /\ [Mutates!Next]_mutationVars => MInv'
  <1> SUFFICES ASSUME MInv, [Mutates!Next]_mutationVars PROVE MInv'
    OBVIOUS
  <1>1. CASE Mutates!Call("first", "others") \/ Mutates!Call("again", "settled")
    BY <1>1, CallKeepsPromises
  <1>2. CASE Mutates!NoAnswer("first", "others") \/ Mutates!NoAnswer("again", "settled")
    BY <1>2 DEF Mutates!NoAnswer, MInv, Mutates!UniqueNames
  <1>3. CASE Mutates!OtherWebhook
    <2>1. /\ stage = "others" /\ operation' = operation /\ stored' = stored /\ missed' = missed
          /\ Mutates!UniqueNames(pod')
          /\ stage' = IF pod' = pod THEN "settled" ELSE "again"
      BY <1>3 DEF Mutates!OtherWebhook
    <2>2. /\ pod'.annotations \in Mutates!Annotations
          /\ pod' = [annotations |-> pod'.annotations, containers |-> pod'.containers]
          /\ \/ pod'.containers = pod.containers
             \/ /\ operation # "UPDATE"
                /\ \E c \in Mutates!Containers : pod'.containers = Append(pod.containers, c)
      BY <1>3 DEF Mutates!OtherWebhook, Mutates!PodsOf
    <2>3. pod.containers \in Lists
      BY AcceptedPods DEF MInv
    <2>4. pod'.containers \in Lists
      BY <2>2, <2>3, AppendProperties DEF Lists
    <2>5. pod' \in Accepted
      BY <2>2, <2>4 DEF Accepted, Mutates!PodsOf
    <2>6. stage' \in {"others", "settled", "stored"} => pod' = pod
      BY <2>1
    <2>7. MInv /\ (operation = "UPDATE" => pod'.containers = stored.containers)
      BY <2>2 DEF MInv
    <2>8. stage' \in {"others", "settled", "stored"} /\ ~missed' => Promised(pod', operation')
      BY <2>1, <2>6 DEF MInv
    <2>9. QED
      BY <2>1, <2>5, <2>7, <2>8 DEF MInv, Promised, Mutates!UniqueNames
  <1>4. CASE Mutates!Store
    BY <1>4 DEF Mutates!Store, MInv, Promised, Mutates!UniqueNames
  <1>5. CASE UNCHANGED mutationVars
    BY <1>5 DEF mutationVars, MInv, Promised, Mutates!UniqueNames
  <1>6. QED
    BY <1>1, <1>2, <1>3, <1>4, <1>5 DEF Mutates!Next

LEMMA MutationInvariant == WebhookSpec => []MInv
  <1>1. WebhookInit => Mutates!Init
    BY DEF WebhookInit
  <1>2. QED
    BY <1>1, MutationInit, MutationStep, PartSteps, PTL DEF WebhookSpec

\* registerMutating, reinvocation: the pod that is stored is the pod that was
\* promised whenever the last call that was due had its answer, whatever the
\* names, the resources and the length of the list.
THEOREM PromisesAreStored == WebhookSpec => []StoredAsPromised
  <1>1. MInv => StoredAsPromised
    BY DEF MInv, Promised, StoredAsPromised, Mutates!StoredAsPromised
  <1>2. QED
    BY <1>1, MutationInvariant, PTL

\* mutate: no op lacks the map it writes into, no name is given twice, and an
\* update leaves the containers as they were.
THEOREM PatchesAlwaysFit == WebhookSpec => []PatchesFit
  <1>1. MInv => PatchesFit
    BY AcceptedPods DEF MInv, PatchesFit, Mutates!PatchesFit
  <1>2. QED
    BY <1>1, MutationInvariant, PTL

\* A call leaves nothing to add.
Idle ==
  (stage' # stage /\ ~missed' /\ pod' # Refused
        /\ \/ stage = "first" \/ stage = "again")
       => Mutates!Patch(pod', operation) = << >>

\* mutate: what has just been patched needs no patch.
THEOREM SecondPassIsIdle == WebhookSpec => SecondPassChangesNothing
  <1>1. ASSUME MInv, MInv', [Mutates!Next]_mutationVars
        PROVE  [Idle]_mutationVars
    <2>1. SUFFICES ASSUME stage' # stage, ~missed', stage = "first" \/ stage = "again"
                   PROVE  Mutates!Patch(pod', operation) = << >>
      BY DEF Idle
    <2>2. operation' = operation /\ stage' \in {"others", "settled"}
      BY <1>1, <2>1 DEF Mutates!Next, Mutates!Call, Mutates!NoAnswer, Mutates!OtherWebhook,
                        Mutates!Store, mutationVars
    <2>3. pod' \in Accepted /\ Promised(pod', operation) /\ operation \in {"CREATE", "UPDATE"}
      BY <1>1, <2>1, <2>2 DEF MInv, Promised
    <2>4. QED
      BY <2>3, NothingToAdd
  <1>2. MInv /\ MInv' /\ [WebhookNext]_allVars => [Idle]_mutationVars
    BY <1>1, PartSteps
  <1>3. WebhookSpec => [][Idle]_mutationVars
    BY <1>2, MutationInvariant, PTL DEF WebhookSpec
  <1>4. QED
    BY <1>3 DEF SecondPassChangesNothing, Mutates!SecondPassChangesNothing, Idle, mutationVars,
                Mutates!vars
=============================================================================
