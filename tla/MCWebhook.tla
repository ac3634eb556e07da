------------------------------ MODULE MCWebhook ------------------------------
(***************************************************************************)
(* The parts of the webhook in one run.  They share no state, so a         *)
(* behaviour takes the steps of one of them, and the others stay in one of *)
(* their initial states: what holds of a part here holds of it alone.      *)
(***************************************************************************)
EXTENDS WebhookLifecycle

CONSTANTS Names, Owners, Platform, Empty, Unlabelled, BadOwner, NoPod, NoList,
          MaxDowns,
          LeafLifetime, RotateEvery, AuthorityLifetime, MaxLate, MaxFails, MaxTime,
          ContainerNames, Resources, MostContainers, Absent, Refused,
          Handlers, VerdictNames, Verdicts, Nothing, MaxAnswers, MaxDeletes, MaxErrors

VARIABLES part,
          pods, list, ending, process, registered, exempt, judged, downs, \* Admission
          now, bundle, current, rotating, tick, fails,                   \* CertRotation
          operation, stored, pod, stage, missed,                         \* Mutate
          pc, verdict, exists, data, failed, answers, deletes, errors    \* RecordVerdict

Admits == INSTANCE Admission
Certs == INSTANCE CertRotation
Mutates == INSTANCE Mutate
Records == INSTANCE RecordVerdict WITH Names <- VerdictNames

ASSUME PartsAssumption ==
  /\ Admits!AdmissionAssumption /\ Certs!CertAssumption
  /\ Mutates!MutateAssumption /\ Records!RecordAssumption

admissionVars == << pods, list, ending, process, registered, exempt, judged, downs >>
certVars == << now, bundle, current, rotating, tick, fails >>
mutationVars == << operation, stored, pod, stage, missed >>
recordVars == << pc, verdict, exists, data, failed, answers, deletes, errors >>
allVars == << part, vars, admissionVars, certVars, mutationVars, recordVars >>

\* The one initial state a part that takes no step waits in.
Parked(p) ==
  CASE p = "admission" -> pods = [n \in Names |-> NoPod]
    [] p = "mutation" ->
         /\ operation = "CREATE" /\ stored.annotations = Absent
         /\ stored.containers = << [name |-> "app", requests |-> {}] >>
         /\ pod = stored
    [] p = "record" -> exists = FALSE
    [] OTHER -> TRUE

WebhookInit ==
  /\ part \in {"lifecycle", "admission", "certificates", "mutation", "record"}
  /\ Init /\ Admits!Init /\ Certs!Init /\ Mutates!Init /\ Records!Init
  /\ \A p \in {"admission", "mutation", "record"} \ {part} : Parked(p)

WebhookNext ==
  /\ UNCHANGED part
  /\ \/ /\ part = "lifecycle" /\ Next
        /\ UNCHANGED << admissionVars, certVars, mutationVars, recordVars >>
     \/ /\ part = "admission" /\ Admits!Next
        /\ UNCHANGED << vars, certVars, mutationVars, recordVars >>
     \/ /\ part = "certificates" /\ Certs!Next
        /\ UNCHANGED << vars, admissionVars, mutationVars, recordVars >>
     \/ /\ part = "mutation" /\ Mutates!Next
        /\ UNCHANGED << vars, admissionVars, certVars, recordVars >>
     \/ /\ part = "record" /\ Records!Next
        /\ UNCHANGED << vars, admissionVars, certVars, mutationVars >>

\* The fairness of the parts that have one, for the part that takes the steps.
WebhookSpec ==
  /\ WebhookInit /\ [][WebhookNext]_allVars
  /\ \A p \in Procs : /\ WF_vars(part = "lifecycle" /\ Main(p))
                      /\ WF_vars(part = "lifecycle" /\ Start(p))
  /\ WF_admissionVars(part = "admission" /\ Admits!Unregister)
  /\ \A n \in Names :
       /\ WF_admissionVars(part = "admission" /\ ending /\ Admits!DeletePod(n) /\ ~exempt')
       /\ WF_admissionVars(part = "admission" /\ Admits!RemovePod(n) /\ ~exempt')

SomeOfEach == [term |-> 2, kill |-> 2, error |-> 2]

----------------------------------------------------------------------------
\* The parts' properties, each under its own name.

\* decide beside the policy: a pod last written under the rule has an owner.
JudgedPodsAreOwned == Admits!JudgedPodsAreOwned

\* decideProtected and decide: a protected pod stays while its namespace lives
\* and the rule is in force, but for the exempt user.
ProtectedStays == Admits!ProtectedStays

\* validate, namespaceEnding: a namespace that is ending comes to be empty, unless
\* the program was killed or a pod waits for a finalizer.
NamespaceEmpties == Admits!NamespaceEmpties

\* run's rotation: the leaf served is trusted for as long as the authority is.
ServedLeafTrusted == Certs!ServedLeafTrusted

\* mutate: a second pass over what the first made changes nothing.
SecondPassChangesNothing == Mutates!SecondPassChangesNothing

\* registerMutating, reinvocation: what is stored is what was promised.
StoredAsPromised == Mutates!StoredAsPromised

\* mutate: no pod is refused for what a patch did to it.
PatchesFit == Mutates!PatchesFit

\* recordVerdict: its calls come to one write of its own verdict, and success
\* means that the write has happened.
VerdictsKept == Records!VerdictsKept
=============================================================================
