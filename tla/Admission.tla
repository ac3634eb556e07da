------------------------------ MODULE Admission ------------------------------
(***************************************************************************)
(* The decisions of the webhook and of the policy it installs, in front of *)
(* the pods and the OwnerList of the one namespace they judge: writes,     *)
(* deletions and evictions, by the exempt user and by everybody else,      *)
(* edits of the list, the program that stops, is killed and comes up       *)
(* again, and the end of the namespace.  Sessions opened with exec or      *)
(* attach change none of it and are left out.                              *)
(***************************************************************************)
EXTENDS Naturals, FiniteSets

CONSTANTS Names,      \* names of pods
          Owners,     \* owners a label can carry
          Platform,   \* the owner the program's own list begins with
          Empty,      \* the empty owner, which a label can carry too
          Unlabelled, \* a pod without the label
          BadOwner,   \* an owner no label can carry
          NoPod,
          NoList,
          MaxDowns    \* bound: how often the program stops or is killed

Labels == Owners \cup {Empty, Unlabelled}

Lists == SUBSET (Owners \cup {Empty, BadOwner})

\* A finalizer is somebody else's, who takes it off when the pod is to go.
Pods == [owner : Labels, protected : BOOLEAN, skip : BOOLEAN,
         finalizer : BOOLEAN, deleting : BOOLEAN]

NewPods == {pod \in Pods : ~pod.deleting}

AdmissionAssumption ==
  /\ Platform \in Owners
  /\ {Empty, Unlabelled, BadOwner} \cap Owners = {}
  /\ Cardinality({Empty, Unlabelled, BadOwner}) = 3
  /\ NoPod \notin Pods /\ \A owners \in Lists : owners # NoList
  /\ MaxDowns \in Nat

VARIABLES pods,       \* the pods of the namespace
          list,       \* its OwnerList
          ending,     \* the namespace is being deleted
          process,    \* the program: serving, leaving after SIGTERM, or gone
          registered, \* the ValidatingWebhookConfiguration is there
          exempt,     \* history: the exempt user made the last request
          judged,     \* history: the pods last written under both judges' eyes
          downs       \* how often the program may still go

vars == << pods, list, ending, process, registered, exempt, judged, downs >>

program == << process, registered, downs >>

----------------------------------------------------------------------------
(* The judges.                                                             *)

IsValidLabelValue(o) == o # BadOwner

DecideOwnerList(l) == l # {} /\ \A o \in l : IsValidLabelValue(o)

\* A slip: the presence of the label is enough.
DecideLabelled(pod) == pod.owner # Unlabelled

\* decide, for a pod that is created or updated.
Decide(pod) == pod.owner \notin {Unlabelled, Empty}

\* The two validations of the policy; a list that is missing denies.
PolicyAllows(pod) == pod.owner # Unlabelled /\ list # NoList /\ pod.owner \in list

\* A slip: a delete is refused whatever becomes of the namespace.
DecideDeleteStrictly(pod) == ~pod.protected

\* decide for a delete, and the second look validate takes when it refuses.
DecideDelete(pod) == ~pod.protected \/ ending

\* A slip: the Eviction under review is read as the pod, which has no labels.
DecideUnread(pod) == TRUE

\* decideProtected, for an eviction.
DecideProtected(pod) == ~pod.protected

\* A request that the configuration names goes to the webhook, which fails
\* closed; the match condition lets the exempt user's past.
Admitted(allowed, byExempt) ==
  registered /\ ~byExempt => process = "serving" /\ allowed

\* The objectSelector is asked about the old object and the new one.
Watched(old, new) == ~old.skip \/ ~new.skip

\* Both judges on a write.  The policy is there whatever becomes of the program,
\* and makes the same two exceptions.
MayWrite(old, new, byExempt) ==
  Watched(old, new) =>
    /\ Admitted(Decide(new), byExempt)
    /\ byExempt \/ PolicyAllows(new)

MayDelete(pod, byExempt) == pod.skip \/ Admitted(DecideDelete(pod), byExempt)

----------------------------------------------------------------------------

\* The pods may be older than the rule; the program has just come up.
Init ==
  /\ pods \in [Names -> NewPods \cup {NoPod}]
  /\ list = {Platform}
  /\ ending = FALSE
  /\ process = "serving" /\ registered = TRUE
  /\ exempt = FALSE
  /\ judged = {}
  /\ downs = MaxDowns

\* Whoever asks.
Asks == exempt' \in BOOLEAN

Write(n, old, new) ==
  /\ Asks
  /\ MayWrite(old, new, exempt')
  /\ pods' = [pods EXCEPT ![n] = new]
  /\ judged' = IF Watched(old, new) /\ registered /\ ~exempt'
                 THEN judged \cup {n} ELSE judged \ {n}
  /\ UNCHANGED << list, ending, program >>

CreatePod(n) ==
  /\ pods[n] = NoPod /\ ~ending
  /\ \E new \in NewPods : Write(n, new, new)

UpdatePod(n) ==
  /\ pods[n] # NoPod
  /\ \E new \in Pods :
       /\ new.deleting = pods[n].deleting /\ new.finalizer = pods[n].finalizer
       /\ Write(n, pods[n], new)

\* Whoever has a finalizer on a pod takes it off when the pod is to go, and
\* that is an update like any other.
Finalize(n) ==
  /\ pods[n] # NoPod /\ pods[n].deleting /\ pods[n].finalizer
  /\ Write(n, pods[n], [pods[n] EXCEPT !.finalizer = FALSE])

\* A delete, the namespace controller's among them.
DeletePod(n) ==
  /\ pods[n] # NoPod /\ ~pods[n].deleting
  /\ Asks
  /\ MayDelete(pods[n], exempt')
  /\ pods' = [pods EXCEPT ![n].deleting = TRUE]
  /\ UNCHANGED << list, ending, program, judged >>

\* An eviction.  The object of the request is the Eviction, which carries no
\* label, so that no pod is skipped; what the webhook reads of the pod decides.
Evict(n) ==
  /\ pods[n] # NoPod /\ ~pods[n].deleting
  /\ Asks
  /\ Admitted(DecideProtected(pods[n]), exempt')
  /\ pods' = [pods EXCEPT ![n].deleting = TRUE]
  /\ UNCHANGED << list, ending, program, judged >>

\* The last delete, by the kubelet when the containers have stopped.
RemovePod(n) ==
  /\ pods[n] # NoPod /\ pods[n].deleting /\ ~pods[n].finalizer
  /\ Asks
  /\ MayDelete(pods[n], exempt')
  /\ pods' = [pods EXCEPT ![n] = NoPod]
  /\ judged' = judged \ {n}
  /\ UNCHANGED << list, ending, program >>

\* A list, which carries no skip label here, is judged as it is created or
\* updated, by the webhook alone.
EditList ==
  /\ list = NoList => ~ending
  /\ Asks
  /\ \E l \in Lists : Admitted(DecideOwnerList(l), exempt') /\ list' = l
  /\ UNCHANGED << pods, ending, program, judged >>

\* Nobody is asked about the deletion of a list.
DeleteList ==
  /\ list' = NoList /\ exempt' = FALSE
  /\ UNCHANGED << pods, ending, program, judged >>

\* SIGTERM closes the listener first; until unregister has been answered the
\* rule is in force and nobody judges by it.
Stop ==
  /\ process = "serving" /\ downs > 0
  /\ process' = "leaving" /\ downs' = downs - 1 /\ exempt' = FALSE
  /\ UNCHANGED << pods, list, ending, registered, judged >>

Unregister ==
  /\ process = "leaving"
  /\ process' = "gone" /\ registered' = FALSE /\ exempt' = FALSE
  /\ UNCHANGED << pods, list, ending, judged, downs >>

\* The program is killed, or its call to unregister fails: the rule stays.
Kill ==
  /\ process # "gone" /\ downs > 0
  /\ process' = "gone" /\ downs' = downs - 1 /\ exempt' = FALSE
  /\ UNCHANGED << pods, list, ending, registered, judged >>

\* ensureOwnerLists creates the list if there is none, and only then.
Seeded == IF list = NoList THEN {Platform} ELSE list

\* run, as far as the namespace sees it.  The API server judges the creation of
\* the list before it looks whether there is one: a configuration left behind
\* refuses it, and so does a namespace that is ending.
ComeUp ==
  /\ process = "gone"
  /\ ~registered /\ ~ending
  /\ process' = "serving" /\ registered' = TRUE /\ exempt' = FALSE
  /\ list' = Seeded
  /\ UNCHANGED << pods, ending, judged, downs >>

EndNamespace ==
  /\ ~ending /\ ending' = TRUE /\ exempt' = FALSE
  /\ UNCHANGED << pods, list, program, judged >>

Next ==
  \/ \E n \in Names : \/ CreatePod(n) \/ UpdatePod(n) \/ Finalize(n)
                      \/ DeletePod(n) \/ Evict(n) \/ RemovePod(n)
  \/ EditList \/ DeleteList \/ EndNamespace
  \/ Stop \/ Unregister \/ Kill \/ ComeUp

Spec == Init /\ [][Next]_vars

\* The namespace controller and the kubelet go on trying, neither of them being
\* the exempt user, and a program that leaves goes on to unregister.
FairSpec ==
  /\ Spec /\ WF_vars(Unregister)
  /\ \A n \in Names : /\ WF_vars(ending /\ DeletePod(n) /\ ~exempt')
                      /\ WF_vars(RemovePod(n) /\ ~exempt')

----------------------------------------------------------------------------

\* The state is what the API server can store.
TypeOK ==
  /\ pods \in [Names -> Pods \cup {NoPod}]
  /\ list \in Lists \cup {NoList}
  /\ ending \in BOOLEAN /\ registered \in BOOLEAN /\ exempt \in BOOLEAN
  /\ process \in {"serving", "leaving", "gone"}
  /\ judged \subseteq Names
  /\ downs \in 0..MaxDowns

\* decide beside the policy: whatever lists are written, deleted and seeded, a
\* pod that was last written under the rule has an owner one can ask.
JudgedPodsAreOwned ==
  \A n \in judged : pods[n] # NoPod /\ pods[n].owner \in Owners

\* protectedLabel, register: as long as its namespace lives and the configuration
\* is there, a protected pod neither begins to go nor goes, by a delete or an
\* eviction of anybody but the exempt user, whether the program serves, is on
\* its way out or was killed.
ProtectedStays ==
  [][registered /\ ~ending /\ ~exempt' =>
       \A n \in Names :
         pods[n] # NoPod /\ pods[n].protected /\ ~pods[n].skip
           => pods'[n] # NoPod /\ (pods'[n].deleting => pods[n].deleting)]_vars

\* A configuration that nobody serves, after a kill or a failed unregister.
LeftBehind == registered /\ process = "gone"

\* The comment in validate on namespaceEnding: a namespace that is ending comes
\* to be empty but for pods that wait for a finalizer, whoever is protected and
\* whether the program serves or has unregistered, unless it has left its
\* configuration behind, which refuses every delete.
NamespaceEmpties ==
  ending ~> (LeftBehind \/ \A n \in Names : pods[n] = NoPod \/ pods[n].finalizer)

\* The comment on decideOwnerList: no accepted list "locks the namespace out",
\* so there is a pod both judges admit.
\* The program does not keep it (README).
ListsKeepNamespaceOpen ==
  list # NoList => \E pod \in Pods : Decide(pod) /\ PolicyAllows(pod)
=============================================================================
