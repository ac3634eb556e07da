------------------------- MODULE ControllerSnapshots ------------------------
(***************************************************************************)
(* The 28 snapshots of the controller course, each a whole program of its  *)
(* own (courses/controller/reference/stages/NN-*/main.go), as data: how a  *)
(* snapshot starts, what it is told and what it serves; ControllerPasses   *)
(* has what its worker does.  A definition X_n stands for one group of     *)
(* functions of snapshot n; where a snapshot leaves a group as its         *)
(* predecessor had it, X_n == X_(n-1).  X[n] is the group of snapshot n,   *)
(* and something empty where the program has none.  ControllerStages gives *)
(* the names their meaning.                                                *)
(***************************************************************************)
EXTENDS Integers, Sequences

Before(k, none) == [i \in 1..k |-> none]

\* installCRD ... websiteSchema: what the definition the program writes
\* asks of the API server.
Crd1 == {"namespaced"}
Crd2 == Crd1 \cup {"columns", "types", "requires image", "defaults replicas"}
Crd3 == Crd2
Crd4 == Crd3
Crd5 == Crd4
Crd6 == Crd5
Crd7 == Crd6
Crd8 == Crd7
Crd9 == Crd8
Crd10 == Crd9
Crd11 == Crd10
Crd12 == Crd11
Crd13 == Crd12
Crd14 == Crd13
Crd15 == Crd14
Crd16 == Crd15
Crd17 == Crd16 \cup {"status"}
Crd18 == Crd17 \cup {"conditions"}
Crd19 == Crd18
Crd20 == Crd19
Crd21 == Crd20
Crd22 == Crd21
Crd23 == Crd22
Crd24 == Crd23
Crd25 == Crd24
Crd26 == Crd25
Crd27 == Crd26
Crd28 == Crd27

Crd == 
    <<Crd1, Crd2, Crd3, Crd4, Crd5, Crd6, Crd7, Crd8, Crd9, Crd10, Crd11,
      Crd12, Crd13, Crd14, Crd15, Crd16, Crd17, Crd18, Crd19, Crd20,
      Crd21, Crd22, Crd23, Crd24, Crd25, Crd26, Crd27, Crd28>>

\* run: the flags the program knows, and what it does once the definition is
\* served.
Run1 == [flags |-> {}, then |-> "return", says |-> FALSE]
Run2 == Run1
Run3 == [Run2 EXCEPT !.then = "observe"]
Run4 == Run3
Run5 == Run4
Run6 == Run5
Run7 == Run6
Run8 == Run7
Run9 == Run8
Run10 == Run9
Run11 == Run10
Run12 == Run11
Run13 == Run12
Run14 == Run13
Run15 == Run14
Run16 == Run15
Run17 == Run16
Run18 == Run17
Run19 == Run18
Run20 == Run19
Run21 == Run20
Run22 == Run21
Run23 == Run22
Run24 == Run23
Run25 == [Run24 EXCEPT !.flags = {"metrics-addr"}]
Run26 == Run25
Run27 == [Run26 EXCEPT !.flags = {"metrics-addr", "identity"}, !.then = "lead"]
Run28 == [Run27 EXCEPT !.says = TRUE]

Run == 
    <<Run1, Run2, Run3, Run4, Run5, Run6, Run7, Run8, Run9, Run10, Run11,
      Run12, Run13, Run14, Run15, Run16, Run17, Run18, Run19, Run20,
      Run21, Run22, Run23, Run24, Run25, Run26, Run27, Run28>>

\* observe (and drain): how the program learns of Websites, and what it does
\* with the news.
Observe3 == {"watch"}
Observe4 == {"informer"}
Observe5 == Observe4 \cup {"counts"}
Observe6 == Observe5 \cup {"enqueues"}
Observe7 == Observe6
Observe8 == Observe7
Observe9 == Observe8
Observe10 == Observe9
Observe11 == Observe10
Observe12 == Observe11
Observe13 == Observe12
Observe14 == Observe13
Observe15 == Observe14
Observe16 == Observe15
Observe17 == Observe16
Observe18 == Observe17
Observe19 == Observe18
Observe20 == Observe19
Observe21 == Observe20
Observe22 == Observe21 \cup {"children"}
Observe23 == Observe22
Observe24 == Observe23 \cup {"events"}
Observe25 == Observe24
Observe26 == Observe25 \cup {"readiness"}
Observe27 == Observe26
Observe28 == Observe27

Observe == Before(2, {}) \o
    <<Observe3, Observe4, Observe5, Observe6, Observe7, Observe8,
      Observe9, Observe10, Observe11, Observe12, Observe13, Observe14,
      Observe15, Observe16, Observe17, Observe18, Observe19, Observe20,
      Observe21, Observe22, Observe23, Observe24, Observe25, Observe26,
      Observe27, Observe28>>

\* enqueueOwner: the owners whose key a child's event puts on the queue.
Children22 == {"site"}
Children23 == Children22
Children24 == Children23
Children25 == Children24
Children26 == Children25
Children27 == Children26
Children28 == Children27

Children == Before(21, {}) \o
    <<Children22, Children23, Children24, Children25, Children26,
      Children27, Children28>>

\* serveMetrics, serveObservability: the endpoints.
Serve25 == {"metrics"}
Serve26 == {"metrics", "healthz", "readyz"}
Serve27 == Serve26
Serve28 == Serve27

Serve == Before(24, {}) \o
    <<Serve25, Serve26, Serve27, Serve28>>

\* lead: whether the lease is handed back on the way out.
Lead27 == [releases |-> FALSE]
Lead28 == [Lead27 EXCEPT !.releases = TRUE]

Lead == Before(26, [releases |-> FALSE]) \o
    <<Lead27, Lead28>>

=============================================================================
