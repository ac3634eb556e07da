-------------------------- MODULE KubectlSnapshots --------------------------
(***************************************************************************)
(* The 30 snapshots of the kubectl course, each a whole program of its own *)
(* (courses/kubectl/reference/stages/NN-*/main.go), as data: the command line*)
(* a snapshot understands, the calls each of its commands makes and what it*)
(* prints.  A definition X_n stands for one group of functions of snapshot n;*)
(* where a snapshot leaves a group as its predecessor had it, X_n == X_(n-1).*)
(* X[n] is the group of snapshot n, and something empty where the program has*)
(* none.  KubectlStages gives the names their meaning.                     *)
(***************************************************************************)
EXTENDS Integers, Sequences

Before(k, none) == [i \in 1..k |-> none]

\* main: the flags it declares and the commands it knows; it prints the server's
\* address for anything else.
Main1 == [flags |-> {}, commands |-> {}]
Main2 == [Main1 EXCEPT !.flags = @ \cup {"context"}]
Main3 == [Main2 EXCEPT !.commands = @ \cup {"version"}]
Main4 == [Main3 EXCEPT !.flags = @ \cup {"namespace"}, !.commands = @ \cup {"get"}]
Main5 == Main4
Main6 == Main5
Main7 == Main6
Main8 == [Main7 EXCEPT !.flags = @ \cup {"output"}]
Main9 == Main8
Main10 == [Main9 EXCEPT !.flags = @ \cup {"all-namespaces"}]
Main11 == Main10
Main12 == [Main11 EXCEPT !.commands = @ \cup {"api-resources"}]
Main13 == Main12
Main14 == Main13
Main15 == Main14
Main16 == [Main15 EXCEPT !.flags = @ \cup {"selector"}]
Main17 == [Main16 EXCEPT !.flags = @ \cup {"field-selector"}]
Main18 == Main17
Main19 == [Main18 EXCEPT !.flags = @ \cup {"watch"}]
Main20 == [Main19 EXCEPT !.commands = @ \cup {"delete"}]
Main21 == [Main20 EXCEPT !.flags = @ \cup {"filename"}, !.commands = @ \cup {"create"}]
Main22 == [Main21 EXCEPT !.commands = @ \cup {"apply"}]
Main23 == [Main22 EXCEPT !.flags = @ \cup {"force-conflicts"}]
Main24 == [Main23 EXCEPT !.flags = @ \cup {"patch"}, !.commands = @ \cup {"patch"}]
Main25 == [Main24 EXCEPT !.flags = @ \cup {"replicas"}, !.commands = @ \cup {"scale"}]
Main26 == [Main25 EXCEPT !.commands = @ \cup {"describe"}]
Main27 == Main26
Main28 == [Main27 EXCEPT !.flags = @ \cup {"container", "follow"},
    !.commands = @ \cup {"logs"}]
Main29 == [Main28 EXCEPT !.commands = @ \cup {"exec"}]
Main30 == [Main29 EXCEPT !.commands = @ \cup {"port-forward"}]

Main ==
    <<Main1, Main2, Main3, Main4, Main5, Main6, Main7, Main8, Main9,
      Main10, Main11, Main12, Main13, Main14, Main15, Main16, Main17,
      Main18, Main19, Main20, Main21, Main22, Main23, Main24, Main25,
      Main26, Main27, Main28, Main29, Main30>>

\* flag.Parse in main, later parseInterspersed and arg: where flags are read.
Parse1 == "nowhere"
Parse2 == "leading"
Parse3 == Parse2
Parse4 == Parse3
Parse5 == "anywhere"
Parse6 == Parse5
Parse7 == Parse6
Parse8 == Parse7
Parse9 == Parse8
Parse10 == Parse9
Parse11 == Parse10
Parse12 == Parse11
Parse13 == Parse12
Parse14 == Parse13
Parse15 == Parse14
Parse16 == Parse15
Parse17 == Parse16
Parse18 == Parse17
Parse19 == Parse18
Parse20 == Parse19
Parse21 == Parse20
Parse22 == Parse21
Parse23 == Parse22
Parse24 == Parse23
Parse25 == Parse24
Parse26 == Parse25
Parse27 == Parse26
Parse28 == Parse27
Parse29 == Parse28
Parse30 == Parse29

Parse ==
    <<Parse1, Parse2, Parse3, Parse4, Parse5, Parse6, Parse7, Parse8,
      Parse9, Parse10, Parse11, Parse12, Parse13, Parse14, Parse15,
      Parse16, Parse17, Parse18, Parse19, Parse20, Parse21, Parse22,
      Parse23, Parse24, Parse25, Parse26, Parse27, Parse28, Parse29,
      Parse30>>

\* restConfig, later resolve: the flags that choose where to act.
Resolve2 == {"context"}
Resolve3 == Resolve2
Resolve4 == {"context", "namespace"}
Resolve5 == Resolve4
Resolve6 == Resolve5
Resolve7 == Resolve6
Resolve8 == Resolve7
Resolve9 == Resolve8
Resolve10 == Resolve9
Resolve11 == Resolve10
Resolve12 == Resolve11
Resolve13 == Resolve12
Resolve14 == Resolve13
Resolve15 == Resolve14
Resolve16 == Resolve15
Resolve17 == Resolve16
Resolve18 == Resolve17
Resolve19 == Resolve18
Resolve20 == Resolve19
Resolve21 == Resolve20
Resolve22 == Resolve21
Resolve23 == Resolve22
Resolve24 == Resolve23
Resolve25 == Resolve24
Resolve26 == Resolve25
Resolve27 == Resolve26
Resolve28 == Resolve27
Resolve29 == Resolve28
Resolve30 == Resolve29

Resolve == Before(1, {}) \o
    <<Resolve2, Resolve3, Resolve4, Resolve5, Resolve6, Resolve7,
      Resolve8, Resolve9, Resolve10, Resolve11, Resolve12, Resolve13,
      Resolve14, Resolve15, Resolve16, Resolve17, Resolve18, Resolve19,
      Resolve20, Resolve21, Resolve22, Resolve23, Resolve24, Resolve25,
      Resolve26, Resolve27, Resolve28, Resolve29, Resolve30>>

\* printVersion.
Version3 == <<"VERSION">>
Version4 == Version3
Version5 == Version4
Version6 == Version5
Version7 == Version6
Version8 == Version7
Version9 == Version8
Version10 == Version9
Version11 == Version10
Version12 == Version11
Version13 == Version12
Version14 == Version13
Version15 == Version14
Version16 == Version15
Version17 == Version16
Version18 == Version17
Version19 == Version18
Version20 == Version19
Version21 == Version20
Version22 == Version21
Version23 == Version22
Version24 == Version23
Version25 == Version24
Version26 == Version25
Version27 == Version26
Version28 == Version27
Version29 == Version28
Version30 == Version29

Version == Before(2, <<>>) \o
    <<Version3, Version4, Version5, Version6, Version7, Version8,
      Version9, Version10, Version11, Version12, Version13, Version14,
      Version15, Version16, Version17, Version18, Version19, Version20,
      Version21, Version22, Version23, Version24, Version25, Version26,
      Version27, Version28, Version29, Version30>>

\* mapResource, or the comparison get made before there was one, and newMapper:
\* the spellings of a resource that are understood.
Spellings4 == {"pods", "pod", "po"}
Spellings5 == Spellings4
Spellings6 == Spellings5
Spellings7 == Spellings6
Spellings8 == Spellings7
Spellings9 == Spellings8
Spellings10 == Spellings9
Spellings11 == Spellings10
Spellings12 == Spellings11
Spellings13 == Spellings12 \cup {"Pod", "configmaps", "configmap", "deployment"}
Spellings14 == Spellings13
Spellings15 == Spellings14
Spellings16 == Spellings15
Spellings17 == Spellings16
Spellings18 == Spellings17
Spellings19 == Spellings18
Spellings20 == Spellings19
Spellings21 == Spellings20
Spellings22 == Spellings21
Spellings23 == Spellings22
Spellings24 == Spellings23
Spellings25 == Spellings24
Spellings26 == Spellings25
Spellings27 == Spellings26
Spellings28 == Spellings27
Spellings29 == Spellings28
Spellings30 == Spellings29

Spellings == Before(3, {}) \o
    <<Spellings4, Spellings5, Spellings6, Spellings7, Spellings8,
      Spellings9, Spellings10, Spellings11, Spellings12, Spellings13,
      Spellings14, Spellings15, Spellings16, Spellings17, Spellings18,
      Spellings19, Spellings20, Spellings21, Spellings22, Spellings23,
      Spellings24, Spellings25, Spellings26, Spellings27, Spellings28,
      Spellings29, Spellings30>>

\* fetch, or the List that get made itself: what is asked for.
Fetch4 == [one |-> FALSE, selects |-> {}, kinds |-> {"pods"}]
Fetch5 == Fetch4
Fetch6 == Fetch5
Fetch7 == Fetch6
Fetch8 == Fetch7
Fetch9 == Fetch8
Fetch10 == Fetch9
Fetch11 == [Fetch10 EXCEPT !.one = TRUE]
Fetch12 == Fetch11
Fetch13 == Fetch12
Fetch14 == [Fetch13 EXCEPT !.kinds = @ \cup {"configmaps"}]
Fetch15 == Fetch14
Fetch16 == [Fetch15 EXCEPT !.selects = @ \cup {"selector"}]
Fetch17 == [Fetch16 EXCEPT !.selects = @ \cup {"field-selector"}]
Fetch18 == Fetch17
Fetch19 == Fetch18
Fetch20 == Fetch19
Fetch21 == Fetch20
Fetch22 == Fetch21
Fetch23 == Fetch22
Fetch24 == Fetch23
Fetch25 == Fetch24
Fetch26 == Fetch25
Fetch27 == Fetch26
Fetch28 == Fetch27
Fetch29 == Fetch28
Fetch30 == Fetch29

Fetch == Before(3, [one |-> FALSE, selects |-> {}, kinds |-> {}]) \o
    <<Fetch4, Fetch5, Fetch6, Fetch7, Fetch8, Fetch9, Fetch10, Fetch11,
      Fetch12, Fetch13, Fetch14, Fetch15, Fetch16, Fetch17, Fetch18,
      Fetch19, Fetch20, Fetch21, Fetch22, Fetch23, Fetch24, Fetch25,
      Fetch26, Fetch27, Fetch28, Fetch29, Fetch30>>

=============================================================================
