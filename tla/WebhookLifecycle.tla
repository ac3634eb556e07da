-------------------------- MODULE WebhookLifecycle --------------------------
(***************************************************************************)
(* run of the webhook: what it installs in the API server on its way up,   *)
(* what it serves, and what it takes down.  Every API call is a step, and  *)
(* the API server asks the webhook about two of them: the creation of the  *)
(* OwnerList, and of the pod the program itself runs in.  A certificate    *)
(* authority lives as long as the process that minted it, so a             *)
(* registration is worth something only while that process listens.        *)
(***************************************************************************)
EXTENDS Naturals

CONSTANTS Procs,    \* the processes: one at a time unless Overlap
          None,     \* no registration, no listener
          Stale,    \* a registration whose authority died with its process
          Gated,    \* the namespace the webhook judges
          Own,      \* the namespace it runs in, or None on the host
          Overlap,  \* a process may start before the last one is gone
          Mishaps   \* how many SIGTERMs, kills and failing calls may happen

ASSUME LifecycleAssumption ==
  /\ None \notin Procs /\ Stale \notin Procs /\ None # Stale
  /\ Gated # None
  /\ Overlap \in BOOLEAN
  /\ Mishaps \in [{"term", "kill", "error"} -> Nat]

VARIABLES validating, \* the ValidatingWebhookConfiguration: whose it is
          mutating,   \* the MutatingWebhookConfiguration
          owners,     \* the OwnerList is there
          policy,     \* the policy and its binding are there
          phase,      \* where each process is in run
          told,       \* SIGTERM has arrived
          listener,   \* who listens on the address
          handler,    \* a call of validate: judging, or answered and not recorded
          unrecorded, \* history: a process left by itself and owed a verdict
          left        \* the mishaps that may still happen

vars == << validating, mutating, owners, policy, phase, told, listener,
           handler, unrecorded, left >>

cluster == << validating, mutating, owners, policy >>
serving == << listener, handler, unrecorded >>

Init ==
  /\ validating = None /\ mutating = None
  /\ owners = FALSE /\ policy = FALSE
  /\ phase = [p \in Procs |-> "gone"]
  /\ told = [p \in Procs |-> FALSE]
  /\ listener = None
  /\ handler = [p \in Procs |-> "none"]
  /\ unrecorded = FALSE
  /\ left = Mishaps

\* The selector: In [gated], and NotIn [own] if own is another one.
PolicedNamespaces(gated, own) ==
  IF own # None /\ own # gated THEN {gated} \ {own} ELSE {gated}

\* The API server on a write the validating rules match: failurePolicy Fail.
Admitted(ns) ==
  ns \notin PolicedNamespaces(Gated, Own) \/ validating \in {None, listener}

Mishap(m) == left[m] > 0 /\ left' = [left EXCEPT ![m] = @ - 1]

Alive(p) == phase[p] # "gone"

\* A process ends: with it the authority it registered, and what it serves.
Orphaned(c, p) == IF c = p THEN Stale ELSE c

Ends(p) ==
  /\ phase' = [phase EXCEPT ![p] = "gone"]
  /\ listener' = IF listener = p THEN None ELSE listener
  /\ handler' = [handler EXCEPT ![p] = "none"]
  /\ UNCHANGED << owners, policy, told >>

----------------------------------------------------------------------------
(* The way up.                                                             *)

\* The pod is created, if the program runs in one, and the process starts.
Start(p) ==
  /\ ~Alive(p) /\ (Overlap \/ \A q \in Procs : ~Alive(q))
  /\ Admitted(Own)
  /\ phase' = [phase EXCEPT ![p] = "seeding"]
  /\ told' = [told EXCEPT ![p] = FALSE]
  /\ UNCHANGED << cluster, serving, left >>

\* A call made under run's context is answered.
Calls(p, at, next) ==
  /\ phase[p] = at /\ ~told[p]
  /\ phase' = [phase EXCEPT ![p] = next]
  /\ UNCHANGED << told, serving, left >>

\* ensureOwnerLists: the type is not judged, the list is, though it be there.
Seed(p) ==
  /\ Calls(p, "seeding", "installing")
  /\ Admitted(Gated)
  /\ owners' = TRUE
  /\ UNCHANGED << validating, mutating, policy >>

InstallPolicy(p) ==
  /\ Calls(p, "installing", "registering")
  /\ policy' = TRUE
  /\ UNCHANGED << validating, mutating, owners >>

\* A slip: the webhook is registered before the policy is installed.
RegisterFirst(p) ==
  /\ Calls(p, "seeding", "installing")
  /\ validating' = p
  /\ UNCHANGED << mutating, owners, policy >>

Register(p) ==
  /\ Calls(p, "registering", "registeringMutating")
  /\ validating' = p
  /\ UNCHANGED << mutating, owners, policy >>

\* A slip: AlreadyExists is taken for an answer.
RegisterMutatingOnce(p) ==
  /\ Calls(p, "registeringMutating", "binding")
  /\ mutating' = IF mutating = None THEN p ELSE mutating
  /\ UNCHANGED << validating, owners, policy >>

RegisterMutating(p) ==
  /\ Calls(p, "registeringMutating", "binding")
  /\ mutating' = p
  /\ UNCHANGED << validating, owners, policy >>

\* A call on the way up fails: refused, cancelled, or for another reason.
\* unregister is not deferred yet, and what is registered stays.
CallFails(p) ==
  /\ phase[p] \in {"seeding", "installing", "registering", "registeringMutating"}
  /\ \/ (told[p] \/ (phase[p] = "seeding" /\ ~Admitted(Gated))) /\ UNCHANGED left
     \/ Mishap("error")
  /\ Ends(p)
  /\ validating' = Orphaned(validating, p)
  /\ mutating' = Orphaned(mutating, p)
  /\ UNCHANGED unrecorded

----------------------------------------------------------------------------
(* Serving, and the way down.                                              *)

Bind(p) ==
  /\ phase[p] = "binding" /\ listener = None
  /\ phase' = [phase EXCEPT ![p] = "serving"]
  /\ listener' = p
  /\ UNCHANGED << cluster, told, handler, unrecorded, left >>

\* The address is taken, or the server was shut down before it began.
BindFails(p) ==
  /\ phase[p] = "binding" /\ (listener # None \/ told[p])
  /\ phase' = [phase EXCEPT ![p] = "closing"]
  /\ UNCHANGED << cluster, told, serving, left >>

\* The API server sends a pod to validate; the answer goes out before the
\* verdict is recorded.
Judge(p) ==
  /\ listener = p /\ validating = p /\ handler[p] = "none"
  /\ handler' = [handler EXCEPT ![p] = "judging"]
  /\ UNCHANGED << cluster, phase, told, listener, unrecorded, left >>

Answer(p) ==
  /\ Alive(p) /\ handler[p] = "judging"
  /\ handler' = [handler EXCEPT ![p] = "answered"]
  /\ UNCHANGED << cluster, phase, told, listener, unrecorded, left >>

RecordVerdict(p) ==
  /\ Alive(p) /\ handler[p] = "answered"
  /\ handler' = [handler EXCEPT ![p] = "none"]
  /\ UNCHANGED << cluster, phase, told, listener, unrecorded, left >>

\* A slip: the server is never shut down.
KeepServing(p) ==
  /\ phase[p] = "serving" /\ told[p]
  /\ UNCHANGED vars

\* Shutdown closes the listener, ListenAndServeTLS returns at once, and the
\* handlers that still run are left to Shutdown, which nobody waits for.
StopServing(p) ==
  /\ phase[p] = "serving" /\ told[p]
  /\ phase' = [phase EXCEPT ![p] = "closing"]
  /\ listener' = None
  /\ UNCHANGED << cluster, told, handler, unrecorded, left >>

Unregister(p) ==
  /\ phase[p] = "closing"
  /\ phase' = [phase EXCEPT ![p] = "closingMutating"]
  /\ validating' = None
  /\ UNCHANGED << mutating, owners, policy, told, serving, left >>

UnregisterMutating(p) ==
  /\ phase[p] = "closingMutating"
  /\ Ends(p)
  /\ mutating' = None
  /\ validating' = Orphaned(validating, p)
  /\ unrecorded' = (unrecorded \/ handler[p] = "answered")
  /\ UNCHANGED left

UnregisterFails(p) ==
  /\ phase[p] \in {"closing", "closingMutating"}
  /\ Mishap("error")
  /\ Ends(p)
  /\ validating' = Orphaned(validating, p)
  /\ mutating' = Orphaned(mutating, p)
  /\ unrecorded' = (unrecorded \/ handler[p] = "answered")

----------------------------------------------------------------------------

Sigterm(p) ==
  /\ Alive(p) /\ ~told[p]
  /\ Mishap("term")
  /\ told' = [told EXCEPT ![p] = TRUE]
  /\ UNCHANGED << cluster, phase, serving >>

Kill(p) ==
  /\ Alive(p)
  /\ Mishap("kill")
  /\ Ends(p)
  /\ validating' = Orphaned(validating, p)
  /\ mutating' = Orphaned(mutating, p)
  /\ UNCHANGED unrecorded

Main(p) ==
  \/ Seed(p) \/ InstallPolicy(p) \/ Register(p) \/ RegisterMutating(p) \/ CallFails(p)
  \/ Bind(p) \/ BindFails(p) \/ StopServing(p)
  \/ Unregister(p) \/ UnregisterMutating(p) \/ UnregisterFails(p)

Handle(p) == Answer(p) \/ RecordVerdict(p)

Next == \E p \in Procs :
  Start(p) \/ Main(p) \/ Judge(p) \/ Handle(p) \/ Sigterm(p) \/ Kill(p)

Spec == Init /\ [][Next]_vars

\* The main goroutine goes on, and a process that has ended is started again.
FairSpec == Spec /\ \A p \in Procs : WF_vars(Main(p)) /\ WF_vars(Start(p))

----------------------------------------------------------------------------

\* The state is what run and the API server can make of it.
TypeOK ==
  /\ {validating, mutating} \subseteq Procs \cup {None, Stale}
  /\ owners \in BOOLEAN /\ policy \in BOOLEAN /\ unrecorded \in BOOLEAN
  /\ phase \in [Procs -> {"gone", "seeding", "installing", "registering",
                          "registeringMutating", "binding", "serving",
                          "closing", "closingMutating"}]
  /\ told \in [Procs -> BOOLEAN]
  /\ listener \in Procs \cup {None}
  /\ handler \in [Procs -> {"none", "judging", "answered"}]
  /\ left \in [{"term", "kill", "error"} -> Nat]

\* register and registerMutating: a process that listens is the one both
\* configurations name, with the authority it serves under, whatever an earlier
\* process has left behind.  learn/13-failure-policy.md counts on it for several
\* replicas too: "running more than one replica means 'you are down' needs more
\* than one failure at once".
ListenerIsRegistered ==
  listener # None => validating = listener /\ mutating = listener

\* The comment in run on installPolicy: while the webhook is registered the
\* OwnerList and the policy are there, so that killing it weakens no rule.
RegisteredAfterPolicy == validating # None => owners /\ policy

\* run on SIGTERM: a process that is told to stop stops, wherever it is.
StopsWhenTold == \A p \in Procs : told[p] ~> (~Alive(p) \/ ~told[p])

\* The calls between a process that was told to stop and its end.
CallsLeft(p) == [seeding |-> 1, installing |-> 1, registering |-> 1, registeringMutating |-> 1,
                 binding |-> 4, serving |-> 3, closing |-> 2, closingMutating |-> 1,
                 gone |-> 0][phase[p]]

\* Each step of its main goroutine brings that end nearer, and nothing that
\* handlers, other processes and failing calls do puts it off.
StopsSoon ==
  [][\A p \in Procs : told[p] /\ Alive(p) =>
        /\ Main(p) => CallsLeft(p)' < CallsLeft(p)
        /\ CallsLeft(p)' <= CallsLeft(p)]_vars

\* The comment on unregister, "A configuration left behind points the API
\* server at a port nothing is listening on": unless a process was killed or a
\* call has failed it leaves none.
\* The program does not keep it (README).
NothingLeftBehind ==
  (\A p \in Procs : ~Alive(p)) /\ left.kill = Mishaps.kill /\ left.error = Mishaps.error
    => validating = None /\ mutating = None

\* The comment on webhookConfigName, "a restart updates its own registration":
\* a program that is started again comes to serve again.
ServesAgain == []<>(listener # None)

\* The comment in validate, "the reply has already gone and the verdict still
\* has to be written down": a process that ends by itself owes no verdict.
\* The program does not keep it (README).
VerdictsRecorded == ~unrecorded
=============================================================================
