------------------------------- MODULE Mutate -------------------------------
(***************************************************************************)
(* The patching half of the webhook on the way of one pod through          *)
(* admission: this program's patch, another webhook's changes, the second  *)
(* call that those ask for, the API server's own checks, the store.        *)
(***************************************************************************)
EXTENDS Integers, Sequences

CONSTANTS ContainerNames, \* names a container can have
          Resources,      \* resources a container can request
          MostContainers, \* the bound on the containers of an author
          Absent,         \* a map that is not there at all
          Refused         \* what applying a patch comes to when an op has no place

Keys == {"inject", "injected"}          \* annotations that are set to "true"

Containers == [name : ContainerNames, requests : (SUBSET Resources) \cup {Absent}]
Annotations == (SUBSET Keys) \cup {Absent}

PodsOf(lists) == [annotations : Annotations, containers : lists]
Pods == PodsOf(UNION {[1..n -> Containers] : n \in 1..MostContainers})

MutateAssumption ==
  /\ "sidecar" \in ContainerNames /\ "cpu" \in Resources /\ MostContainers \in Nat
  /\ Absent # Refused
  /\ \A map \in (SUBSET Keys) \cup (SUBSET Resources) : map \notin {Absent, Refused}
  /\ Refused \notin PodsOf(Seq(Containers))

UniqueNames(pod) ==
  \A i, j \in DOMAIN pod.containers :
    pod.containers[i].name = pod.containers[j].name => i = j

VARIABLES operation, \* CREATE or UPDATE
          stored,    \* the pod as it was, when the operation is an update
          pod,       \* the object on its way
          stage,     \* how far it has come
          missed     \* the last call that was due had no answer

vars == << operation, stored, pod, stage, missed >>

----------------------------------------------------------------------------
(* JSON patches, as the API server applies them.                           *)

Has(map, key) == map # Absent /\ key \in map

AddMap(at, i) == [op |-> "map", at |-> at, i |-> i]
AddKey(at, i, key) == [op |-> "key", at |-> at, i |-> i, key |-> key]
AddLast(c) == [op |-> "last", container |-> c]

Into(map, op) ==
  CASE op.op = "map" -> {}
    [] op.op = "key" /\ map = Absent -> Refused
    [] OTHER -> map \cup {op.key}

\* `add` writes into a map or a list that is there; a map it names is replaced.
ApplyOp(p, op) ==
  IF p = Refused THEN Refused
  ELSE IF op.op = "last" THEN [p EXCEPT !.containers = Append(@, op.container)]
  ELSE IF op.at = "annotations"
  THEN LET m == Into(p.annotations, op) IN
       IF m = Refused THEN Refused ELSE [p EXCEPT !.annotations = m]
  ELSE LET m == Into(p.containers[op.i].requests, op) IN
       IF m = Refused THEN Refused ELSE [p EXCEPT !.containers[op.i].requests = m]

\* One op after the other.
Apply(p, patch) ==
  LET after[n \in 0..Len(patch)] == IF n = 0 THEN p ELSE ApplyOp(after[n - 1], patch[n])
  IN after[Len(patch)]

----------------------------------------------------------------------------
(* mutate: a patch of the ops that are still missing.                      *)

\* A slip: the key without the map it is written into.
AnnotateOnly(p) ==
  IF Has(p.annotations, "injected") THEN << >>
  ELSE << AddKey("annotations", 0, "injected") >>

AnnotateOps(p) ==
  IF Has(p.annotations, "injected") THEN << >>
  ELSE IF p.annotations = Absent
       THEN << AddMap("annotations", 0), AddKey("annotations", 0, "injected") >>
       ELSE << AddKey("annotations", 0, "injected") >>

\* A slip: a container that requests anything is left as it is.
CpuOpsIfNone(container, i) ==
  IF container.requests = Absent
  THEN << AddMap("requests", i), AddKey("requests", i, "cpu") >> ELSE << >>

CpuOpsOf(container, i) ==
  IF Has(container.requests, "cpu") THEN << >>
  ELSE IF container.requests = Absent
       THEN << AddMap("requests", i), AddKey("requests", i, "cpu") >>
       ELSE << AddKey("requests", i, "cpu") >>

\* The loop over the containers.
CpuOps(p, op) ==
  LET upTo[n \in 0..Len(p.containers)] ==
        IF n = 0 THEN << >> ELSE upTo[n - 1] \o CpuOpsOf(p.containers[n], n)
  IN IF op = "CREATE" THEN upTo[Len(p.containers)] ELSE << >>

Sidecar == [name |-> "sidecar", requests |-> {"cpu"}]

\* A slip: the sidecar is appended without a look at who is there.
SidecarOpsBlind(p, op) ==
  IF op = "CREATE" /\ Has(p.annotations, "inject") THEN << AddLast(Sidecar) >>
  ELSE << >>

SidecarOps(p, op) ==
  IF /\ op = "CREATE"
     /\ Has(p.annotations, "inject")
     /\ \A i \in DOMAIN p.containers : p.containers[i].name # "sidecar"
  THEN << AddLast(Sidecar) >>
  ELSE << >>

Patch(p, op) == AnnotateOps(p) \o CpuOps(p, op) \o SidecarOps(p, op)

----------------------------------------------------------------------------

\* A pod comes in as its author wrote it, with names that are unique; on an
\* update it is whatever was stored, with its annotations changed.
Init ==
  /\ operation \in {"CREATE", "UPDATE"}
  /\ stored \in {p \in Pods : UniqueNames(p)}
  /\ \E a \in Annotations :
       pod = IF operation = "CREATE" THEN stored ELSE [stored EXCEPT !.annotations = a]
  /\ stage = "first"
  /\ missed = FALSE

\* The failure policy is Ignore: without an answer the pod goes on as it is.
NoAnswer(from, to) ==
  /\ stage = from
  /\ stage' = to /\ missed' = TRUE
  /\ UNCHANGED << operation, stored, pod >>

Call(from, to) ==
  /\ stage = from
  /\ pod' = Apply(pod, Patch(pod, operation))
  /\ stage' = to /\ missed' = FALSE
  /\ UNCHANGED << operation, stored >>

\* What a webhook after this one may do: add a container when one can be
\* added, set or drop annotations; it leaves names unique. IfNeeded brings the
\* pod back when it did.
OtherWebhook ==
  /\ stage = "others" /\ pod # Refused
  /\ \E p \in PodsOf({pod.containers} \cup
                   IF operation = "UPDATE" \/ Len(pod.containers) > MostContainers THEN {}
                   ELSE {Append(pod.containers, c) : c \in Containers}) :
       /\ UniqueNames(p)
       /\ pod' = p
       /\ stage' = IF p = pod THEN "settled" ELSE "again"
  /\ UNCHANGED << operation, stored, missed >>

Store ==
  /\ stage = "settled" /\ pod # Refused
  /\ stage' = "stored"
  /\ UNCHANGED << operation, stored, pod, missed >>

Next ==
  \/ Call("first", "others") \/ NoAnswer("first", "others")
  \/ OtherWebhook
  \/ Call("again", "settled") \/ NoAnswer("again", "settled")
  \/ Store

Spec == Init /\ [][Next]_vars

----------------------------------------------------------------------------

\* The object on its way is a pod, or a patch was refused.
TypeOK ==
  /\ operation \in {"CREATE", "UPDATE"}
  /\ pod # Refused =>
       /\ pod.annotations \in Annotations
       /\ pod.containers \in Seq(Containers)
  /\ stage \in {"first", "others", "again", "settled", "stored"}
  /\ missed \in BOOLEAN

\* "applying this twice changes nothing the first pass did", for the pod as it
\* stands whenever a call has just been answered.
SecondPassChangesNothing ==
  [][(stage' # stage /\ ~missed' /\ pod' # Refused
        /\ \/ stage = "first" \/ stage = "again")
       => Patch(pod', operation) = << >>]_vars

\* The point of being called again: what is stored on the way in bears the
\* mark, requests CPU in each container and has the sidecar it asked for, in
\* spite of what came after the first call.
StoredAsPromised ==
  stage = "stored" /\ ~missed =>
    /\ Has(pod.annotations, "injected")
    /\ operation = "CREATE" =>
         /\ \A i \in DOMAIN pod.containers : Has(pod.containers[i].requests, "cpu")
         /\ Has(pod.annotations, "inject") =>
              \E i \in DOMAIN pod.containers : pod.containers[i].name = "sidecar"

\* The API server never has a reason to refuse a pod for what mutate did to it:
\* "`add` cannot create the map it writes into", it "blames the pod" for two
\* containers of one name, and "an update that changes them is refused".
PatchesFit ==
  /\ pod # Refused
  /\ UniqueNames(pod)
  /\ operation = "UPDATE" => pod.containers = stored.containers
=============================================================================
