-------------------------- MODULE WebhookSnapshots --------------------------
(***************************************************************************)
(* The 26 snapshots of the webhook course, each a whole program of its own *)
(* (courses/webhook/reference/stages/NN-*/main.go), as data: how a snapshot*)
(* starts, and what it asks of the API server; WebhookVerdicts has what its*)
(* handlers do.  A definition X_n stands for one group of functions of     *)
(* snapshot n; where a snapshot leaves a group as its predecessor had it,  *)
(* X_n == X_(n-1).  X[n] is the group of snapshot n, and something empty   *)
(* where the program has none.  WebhookStages gives the names their meaning.*)
(***************************************************************************)
EXTENDS Integers, Sequences

\* The namespace the stage runs in, the one the program runs in, and any other.
Everywhere == {"course", "own", "other"}

Before(k, none) == [i \in 1..k |-> none]

\* main and run: the steps up to serving in their order, the paths it answers,
\* whether it mints a new leaf now and then.
Run1 == [steps |-> <<"announce", "bind">>, paths |-> {"/healthz"}, rotates |-> FALSE,
    knowsOwn |-> FALSE]
Run2 == [Run1 EXCEPT !.paths = @ \cup {"/validate"}]
Run3 == [Run2 EXCEPT !.steps = <<"register", "announce", "bind">>]
Run4 == Run3
Run5 == Run4
Run6 == Run5
Run7 == Run6
Run8 == Run7
Run9 == [Run8 EXCEPT !.paths = @ \cup {"/mutate"},
    !.steps = <<"register", "registerMutating", "announce", "bind">>]
Run10 == Run9
Run11 == Run10
Run12 == Run11
Run13 == Run12
Run14 == Run13
Run15 == Run14
Run16 == [Run15 EXCEPT !.rotates = TRUE]
Run17 == Run16
Run18 == Run17
Run19 == [Run18 EXCEPT !.steps =
    <<"register", "registerMutating", "installPolicy", "announce", "bind">>]
Run20 == [Run19 EXCEPT !.knowsOwn = TRUE]
Run21 == Run20
Run22 == Run21
Run23 == Run22
Run24 == Run23
Run25 == [Run24 EXCEPT !.steps = <<"register", "registerMutating", "ensureOwnerLists",
    "installPolicy", "announce", "bind">>]
Run26 == [Run25 EXCEPT !.steps = <<"ensureOwnerLists", "installPolicy", "register",
    "registerMutating", "announce", "bind">>]

Run ==
    <<Run1, Run2, Run3, Run4, Run5, Run6, Run7, Run8, Run9, Run10, Run11,
      Run12, Run13, Run14, Run15, Run16, Run17, Run18, Run19, Run20,
      Run21, Run22, Run23, Run24, Run25, Run26>>

\* selfSigned, or certAuthority, leafFor and serialNumber: what the server shows,
\* now and after a rotation, and who has signed it.
Cert1 == [shows |-> "authority", signer |-> "authority"]
Cert2 == Cert1
Cert3 == Cert2
Cert4 == Cert3
Cert5 == Cert4
Cert6 == Cert5
Cert7 == Cert6
Cert8 == Cert7
Cert9 == Cert8
Cert10 == Cert9
Cert11 == Cert10
Cert12 == Cert11
Cert13 == Cert12
Cert14 == Cert13
Cert15 == Cert14
Cert16 == [Cert15 EXCEPT !.shows = "leaf"]
Cert17 == Cert16
Cert18 == Cert17
Cert19 == Cert18
Cert20 == Cert19
Cert21 == Cert20
Cert22 == Cert21
Cert23 == Cert22
Cert24 == Cert23
Cert25 == Cert24
Cert26 == Cert25

Cert ==
    <<Cert1, Cert2, Cert3, Cert4, Cert5, Cert6, Cert7, Cert8, Cert9,
      Cert10, Cert11, Cert12, Cert13, Cert14, Cert15, Cert16, Cert17,
      Cert18, Cert19, Cert20, Cert21, Cert22, Cert23, Cert24, Cert25,
      Cert26>>

\* clientConfig: which namespace the program takes from its kubeconfig.
Namespace3 == {}
Namespace4 == Namespace3
Namespace5 == Namespace4
Namespace6 == Namespace5
Namespace7 == {"course"}
Namespace8 == Namespace7
Namespace9 == Namespace8
Namespace10 == Namespace9
Namespace11 == Namespace10
Namespace12 == Namespace11
Namespace13 == Namespace12
Namespace14 == Namespace13
Namespace15 == Namespace14
Namespace16 == Namespace15
Namespace17 == Namespace16
Namespace18 == Namespace17
Namespace19 == Namespace18
Namespace20 == Namespace19
Namespace21 == Namespace20
Namespace22 == Namespace21
Namespace23 == Namespace22
Namespace24 == Namespace23
Namespace25 == Namespace24
Namespace26 == Namespace25

Namespace == Before(2, {}) \o
    <<Namespace3, Namespace4, Namespace5, Namespace6, Namespace7,
      Namespace8, Namespace9, Namespace10, Namespace11, Namespace12,
      Namespace13, Namespace14, Namespace15, Namespace16, Namespace17,
      Namespace18, Namespace19, Namespace20, Namespace21, Namespace22,
      Namespace23, Namespace24, Namespace25, Namespace26>>

\* policedNamespaces: the namespaces the selectors leave out.
Policed20 == {"own"}
Policed21 == Policed20
Policed22 == Policed21
Policed23 == Policed22
Policed24 == Policed23
Policed25 == Policed24
Policed26 == Policed25

Policed == Before(19, {}) \o
    <<Policed20, Policed21, Policed22, Policed23, Policed24, Policed25,
      Policed26>>

\* register: the rules of the validating registration, what its selectors and
\* conditions keep away from it, what an unreachable webhook means, the
\* sessions a second webhook in it is asked about.
Register3 == [rules |-> {<<"CREATE", "pods">>}, scoped |-> FALSE, only |-> Everywhere,
    leaves |-> {}, skips |-> FALSE, dryRun |-> FALSE, onFailure |-> "Ignore", conditions |-> FALSE,
    sessions |-> {}, spellings |-> {}]
Register4 == Register3
Register5 == Register4
Register6 == [Register5 EXCEPT !.rules = @ \cup {<<"UPDATE", "pods">>}, !.scoped = TRUE]
Register7 == [Register6 EXCEPT !.only = Namespace7]
Register8 == [Register7 EXCEPT !.skips = TRUE]
Register9 == Register8
Register10 == Register9
Register11 == Register10
Register12 == [Register11 EXCEPT !.dryRun = TRUE]
Register13 == [Register12 EXCEPT !.onFailure = "Fail"]
Register14 == Register13
Register15 == Register14
Register16 == Register15
Register17 == Register16
Register18 == [Register17 EXCEPT !.conditions = TRUE]
Register19 == Register18
Register20 == [Register19 EXCEPT !.leaves = Policed20]
Register21 == [Register20 EXCEPT !.rules = @ \cup {<<"CREATE", "pods/eviction">>}]
Register22 == [Register21 EXCEPT !.rules = @ \cup {<<"DELETE", "pods">>}]
Register23 == [Register22 EXCEPT !.sessions = {<<"CONNECT", "pods/exec">>, <<"CONNECT", "pods/attach">>}]
Register24 == Register23
Register25 == Register24
Register26 == [Register25 EXCEPT !.spellings = {"v1", "v1beta1"},
    !.rules = @ \cup {<<"CREATE", "ownerlists">>, <<"UPDATE", "ownerlists">>}]

Register == Before(2, [rules |-> {}]) \o
    <<Register3, Register4, Register5, Register6, Register7, Register8,
      Register9, Register10, Register11, Register12, Register13,
      Register14, Register15, Register16, Register17, Register18,
      Register19, Register20, Register21, Register22, Register23,
      Register24, Register25, Register26>>

\* registerMutating: the same of the mutating registration, and whether it is
\* asked again when another webhook changed the object.
RegisterMutating9 == [rules |-> {<<"CREATE", "pods">>, <<"UPDATE", "pods">>}, scoped |-> TRUE,
    only |-> Namespace9, leaves |-> {}, skips |-> TRUE, dryRun |-> FALSE, onFailure |-> "Ignore",
    conditions |-> FALSE, sessions |-> {}, spellings |-> {}, again |-> FALSE]
RegisterMutating10 == RegisterMutating9
RegisterMutating11 == RegisterMutating10
RegisterMutating12 == RegisterMutating11
RegisterMutating13 == RegisterMutating12
RegisterMutating14 == RegisterMutating13
RegisterMutating15 == [RegisterMutating14 EXCEPT !.again = TRUE]
RegisterMutating16 == RegisterMutating15
RegisterMutating17 == RegisterMutating16
RegisterMutating18 == [RegisterMutating17 EXCEPT !.conditions = TRUE]
RegisterMutating19 == RegisterMutating18
RegisterMutating20 == [RegisterMutating19 EXCEPT !.leaves = Policed20]
RegisterMutating21 == RegisterMutating20
RegisterMutating22 == RegisterMutating21
RegisterMutating23 == RegisterMutating22
RegisterMutating24 == RegisterMutating23
RegisterMutating25 == RegisterMutating24
RegisterMutating26 == RegisterMutating25

RegisterMutating == Before(8, [rules |-> {}]) \o
    <<RegisterMutating9, RegisterMutating10, RegisterMutating11,
      RegisterMutating12, RegisterMutating13, RegisterMutating14,
      RegisterMutating15, RegisterMutating16, RegisterMutating17,
      RegisterMutating18, RegisterMutating19, RegisterMutating20,
      RegisterMutating21, RegisterMutating22, RegisterMutating23,
      RegisterMutating24, RegisterMutating25, RegisterMutating26>>

\* installPolicy: the policy and its binding, which judge pods created and
\* updated by the owner label, or by an OwnerList.
Policy19 == [rules |-> {<<"CREATE", "pods">>, <<"UPDATE", "pods">>}, only |-> Namespace19,
    leaves |-> {}, skips |-> TRUE, conditions |-> TRUE, sessions |-> {}, spellings |-> {},
    params |-> FALSE]
Policy20 == [Policy19 EXCEPT !.leaves = Policed20]
Policy21 == Policy20
Policy22 == Policy21
Policy23 == Policy22
Policy24 == Policy23
Policy25 == [Policy24 EXCEPT !.params = TRUE]
Policy26 == Policy25

Policy == Before(18, [rules |-> {}]) \o
    <<Policy19, Policy20, Policy21, Policy22, Policy23, Policy24,
      Policy25, Policy26>>

\* ensureOwnerLists: the versions the type is served in, and whether a type
\* that is there already is brought up to date.
Lists25 == [versions |-> {"v1"}, keepsCurrent |-> FALSE]
Lists26 == [versions |-> {"v1", "v1beta1"}, keepsCurrent |-> TRUE]

Lists == Before(24, [versions |-> {}, keepsCurrent |-> FALSE]) \o
    <<Lists25, Lists26>>

=============================================================================
