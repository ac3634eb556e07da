----------------------- MODULE WebhookLifecycleProofs -----------------------
(***************************************************************************)
(* For any set of processes and any mishaps: the policy stands before the  *)
(* webhook is registered, and a process that was told to stop has four     *)
(* calls left; and, one process at a time, who listens is who is           *)
(* registered.                                                             *)
(***************************************************************************)
EXTENDS WebhookLifecycle, TLAPS

\* What has been installed, from where each process is on its way.
InstalledSoFar ==
  /\ \A p \in Procs : phase[p] \notin {"gone", "seeding"} => owners
  /\ \A p \in Procs : phase[p] \notin {"gone", "seeding", "installing"} => policy

PolicyInv == TypeOK /\ InstalledSoFar /\ RegisteredAfterPolicy

\* Of a single process, what is registered follows from where it is: this is
\* what ListenerIsRegistered needs to be inductive.
OneAlive == \A p, q \in Procs : Alive(p) /\ Alive(q) => p = q

RegisteredSoFar ==
  /\ \A p \in Procs :
       /\ phase[p] \in {"registeringMutating", "binding", "serving"} => validating = p
       /\ phase[p] \in {"binding", "serving"} => mutating = p
  /\ \A p \in Procs : listener = p => phase[p] = "serving"

AloneInv == TypeOK /\ OneAlive /\ RegisteredSoFar

USE LifecycleAssumption

LEMMA PolicyInit == Init => PolicyInv
BY DEF Init, PolicyInv, TypeOK, InstalledSoFar, RegisteredAfterPolicy

LEMMA AloneInit == Init => AloneInv
BY DEF Init, AloneInv, TypeOK, OneAlive, RegisteredSoFar, Alive

LEMMA PolicyStep ==
  ASSUME PolicyInv, [Next]_vars
  PROVE  PolicyInv'
<1> USE DEF PolicyInv
<1>1. ASSUME NEW p \in Procs, Start(p) PROVE PolicyInv'
  BY <1>1 DEF Start, TypeOK, Alive, cluster, serving, InstalledSoFar, RegisteredAfterPolicy
<1>2. ASSUME NEW p \in Procs, Seed(p) PROVE PolicyInv'
  BY <1>2 DEF Seed, TypeOK, Calls, serving, InstalledSoFar, RegisteredAfterPolicy
<1>3. ASSUME NEW p \in Procs, InstallPolicy(p) PROVE PolicyInv'
  BY <1>3 DEF InstallPolicy, TypeOK, Calls, serving, InstalledSoFar, RegisteredAfterPolicy
<1>4. ASSUME NEW p \in Procs, Register(p) PROVE PolicyInv'
  BY <1>4 DEF Register, TypeOK, Calls, serving, InstalledSoFar, RegisteredAfterPolicy
<1>5. ASSUME NEW p \in Procs, RegisterMutating(p) PROVE PolicyInv'
  BY <1>5
  DEF RegisterMutating, TypeOK, Calls, serving, InstalledSoFar, RegisteredAfterPolicy
<1>6. ASSUME NEW p \in Procs, CallFails(p) PROVE PolicyInv'
  BY <1>6
  DEF CallFails, TypeOK, Ends, Orphaned, Mishap, serving, InstalledSoFar,
      RegisteredAfterPolicy
<1>7. ASSUME NEW p \in Procs, Bind(p) PROVE PolicyInv'
  BY <1>7 DEF Bind, TypeOK, cluster, serving, InstalledSoFar, RegisteredAfterPolicy
<1>8. ASSUME NEW p \in Procs, BindFails(p) PROVE PolicyInv'
  BY <1>8 DEF BindFails, TypeOK, cluster, serving, InstalledSoFar, RegisteredAfterPolicy
<1>9. ASSUME NEW p \in Procs, StopServing(p) PROVE PolicyInv'
  BY <1>9 DEF StopServing, TypeOK, cluster, serving, InstalledSoFar, RegisteredAfterPolicy
<1>10. ASSUME NEW p \in Procs, Unregister(p) PROVE PolicyInv'
  BY <1>10 DEF Unregister, TypeOK, serving, InstalledSoFar, RegisteredAfterPolicy
<1>11. ASSUME NEW p \in Procs, UnregisterMutating(p) PROVE PolicyInv'
  BY <1>11
  DEF UnregisterMutating, TypeOK, Ends, Orphaned, serving, InstalledSoFar,
      RegisteredAfterPolicy
<1>12. ASSUME NEW p \in Procs, UnregisterFails(p) PROVE PolicyInv'
  BY <1>12
  DEF UnregisterFails, TypeOK, Ends, Orphaned, Mishap, serving, InstalledSoFar,
      RegisteredAfterPolicy
<1>13. ASSUME NEW p \in Procs, Judge(p) PROVE PolicyInv'
  BY <1>13 DEF Judge, TypeOK, cluster, serving, InstalledSoFar, RegisteredAfterPolicy
<1>14. ASSUME NEW p \in Procs, Answer(p) PROVE PolicyInv'
  BY <1>14
  DEF Answer, TypeOK, Alive, cluster, serving, InstalledSoFar, RegisteredAfterPolicy
<1>15. ASSUME NEW p \in Procs, RecordVerdict(p) PROVE PolicyInv'
  BY <1>15
  DEF RecordVerdict, TypeOK, Alive, cluster, serving, InstalledSoFar,
      RegisteredAfterPolicy
<1>16. ASSUME NEW p \in Procs, Sigterm(p) PROVE PolicyInv'
  BY <1>16
  DEF Sigterm, TypeOK, Mishap, Alive, cluster, serving, InstalledSoFar,
      RegisteredAfterPolicy
<1>17. ASSUME NEW p \in Procs, Kill(p) PROVE PolicyInv'
  BY <1>17
  DEF Kill, TypeOK, Ends, Orphaned, Mishap, Alive, serving, InstalledSoFar,
      RegisteredAfterPolicy
<1>18. ASSUME UNCHANGED vars PROVE PolicyInv'
  BY <1>18 DEF vars, TypeOK, serving, InstalledSoFar, RegisteredAfterPolicy
<1> QED
  BY <1>1, <1>2, <1>3, <1>4, <1>5, <1>6, <1>7, <1>8, <1>9, <1>10, <1>11, <1>12, <1>13,
  <1>14, <1>15, <1>16, <1>17, <1>18
  DEF Next, Main, Handle

LEMMA AloneStep ==
  ASSUME ~Overlap, AloneInv, [Next]_vars
  PROVE  AloneInv'
<1> USE DEF AloneInv
<1>1. ASSUME NEW p \in Procs, Start(p) PROVE AloneInv'
  BY <1>1 DEF Start, TypeOK, Alive, cluster, serving, OneAlive, RegisteredSoFar
<1>2. ASSUME NEW p \in Procs, Seed(p) PROVE AloneInv'
  BY <1>2 DEF Seed, TypeOK, Calls, Alive, serving, OneAlive, RegisteredSoFar
<1>3. ASSUME NEW p \in Procs, InstallPolicy(p) PROVE AloneInv'
  BY <1>3 DEF InstallPolicy, TypeOK, Calls, Alive, serving, OneAlive, RegisteredSoFar
<1>4. ASSUME NEW p \in Procs, Register(p) PROVE AloneInv'
  BY <1>4 DEF Register, TypeOK, Calls, Alive, serving, OneAlive, RegisteredSoFar
<1>5. ASSUME NEW p \in Procs, RegisterMutating(p) PROVE AloneInv'
  BY <1>5 DEF RegisterMutating, TypeOK, Calls, Alive, serving, OneAlive, RegisteredSoFar
<1>6. ASSUME NEW p \in Procs, CallFails(p) PROVE AloneInv'
  BY <1>6
  DEF CallFails, TypeOK, Ends, Orphaned, Mishap, Alive, serving, OneAlive,
      RegisteredSoFar
<1>7. ASSUME NEW p \in Procs, Bind(p) PROVE AloneInv'
  BY <1>7 DEF Bind, TypeOK, Alive, cluster, serving, OneAlive, RegisteredSoFar
<1>8. ASSUME NEW p \in Procs, BindFails(p) PROVE AloneInv'
  BY <1>8 DEF BindFails, TypeOK, Alive, cluster, serving, OneAlive, RegisteredSoFar
<1>9. ASSUME NEW p \in Procs, StopServing(p) PROVE AloneInv'
  BY <1>9 DEF StopServing, TypeOK, Alive, cluster, serving, OneAlive, RegisteredSoFar
<1>10. ASSUME NEW p \in Procs, Unregister(p) PROVE AloneInv'
  BY <1>10 DEF Unregister, TypeOK, Alive, serving, OneAlive, RegisteredSoFar
<1>11. ASSUME NEW p \in Procs, UnregisterMutating(p) PROVE AloneInv'
  BY <1>11
  DEF UnregisterMutating, TypeOK, Ends, Orphaned, Alive, serving, OneAlive,
      RegisteredSoFar
<1>12. ASSUME NEW p \in Procs, UnregisterFails(p) PROVE AloneInv'
  BY <1>12
  DEF UnregisterFails, TypeOK, Ends, Orphaned, Mishap, Alive, serving, OneAlive,
      RegisteredSoFar
<1>13. ASSUME NEW p \in Procs, Judge(p) PROVE AloneInv'
  BY <1>13 DEF Judge, TypeOK, Alive, cluster, serving, OneAlive, RegisteredSoFar
<1>14. ASSUME NEW p \in Procs, Answer(p) PROVE AloneInv'
  BY <1>14 DEF Answer, TypeOK, Alive, cluster, serving, OneAlive, RegisteredSoFar
<1>15. ASSUME NEW p \in Procs, RecordVerdict(p) PROVE AloneInv'
  BY <1>15 DEF RecordVerdict, TypeOK, Alive, cluster, serving, OneAlive, RegisteredSoFar
<1>16. ASSUME NEW p \in Procs, Sigterm(p) PROVE AloneInv'
  BY <1>16 DEF Sigterm, TypeOK, Mishap, Alive, cluster, serving, OneAlive, RegisteredSoFar
<1>17. ASSUME NEW p \in Procs, Kill(p) PROVE AloneInv'
  BY <1>17
  DEF Kill, TypeOK, Ends, Orphaned, Mishap, Alive, serving, OneAlive, RegisteredSoFar
<1>18. ASSUME UNCHANGED vars PROVE AloneInv'
  BY <1>18 DEF vars, TypeOK, Alive, serving, OneAlive, RegisteredSoFar
<1> QED
  BY <1>1, <1>2, <1>3, <1>4, <1>5, <1>6, <1>7, <1>8, <1>9, <1>10, <1>11, <1>12, <1>13,
  <1>14, <1>15, <1>16, <1>17, <1>18
  DEF Next, Main, Handle

\* The types of the model's state.
THEOREM LifecycleTypeCorrect == Spec => []TypeOK
<1>1. PolicyInv /\ [Next]_vars => PolicyInv'
  BY PolicyStep
<1> QED
  BY <1>1, PolicyInit, PTL DEF Spec, PolicyInv

\* However many processes come and go, a registered webhook has the policy
\* beside it.
THEOREM PolicyComesFirst == Spec => []RegisteredAfterPolicy
<1>1. PolicyInv /\ [Next]_vars => PolicyInv'
  BY PolicyStep
<1> QED
  BY <1>1, PolicyInit, PTL DEF Spec, PolicyInv

\* One process at a time: the API server calls the process that listens, and
\* trusts its certificate.
THEOREM ListenerIsTrusted ==
  ASSUME ~Overlap
  PROVE  Spec => []ListenerIsRegistered
<1>1. AloneInv /\ [Next]_vars => AloneInv'
  BY AloneStep
<1>2. AloneInv => ListenerIsRegistered
  BY DEF AloneInv, TypeOK, RegisteredSoFar, ListenerIsRegistered
<1> QED
  BY <1>1, <1>2, AloneInit, PTL DEF Spec

-----------------------------------------------------------------------------
(* StopsSoon: what StopsWhenTold rests on besides the scheduling.           *)

\* One process leaves the place of another in run as it is.
LEMMA OthersKeepTheirPlace ==
  ASSUME TypeOK, NEW p \in Procs, NEW r \in Procs, r # p,
         Start(r) \/ Main(r) \/ Judge(r) \/ Handle(r) \/ Sigterm(r) \/ Kill(r)
  PROVE  phase'[p] = phase[p]
BY DEF TypeOK, Start, Main, Seed, InstallPolicy, Register, RegisterMutating, Calls, CallFails, Ends,
       Bind, BindFails, StopServing, Unregister, UnregisterMutating, UnregisterFails, Judge,
       Handle, Answer, RecordVerdict, Sigterm, Kill

\* SIGTERM is heeded wherever the process is: its main goroutine has four
\* calls at the most before it ends, and nobody adds one.
THEOREM StopsWithinFourCalls == Spec => StopsSoon
<1>1. ASSUME TypeOK, TypeOK', [Next]_vars, NEW p \in Procs, told[p], Alive(p)
      PROVE  /\ Main(p) => CallsLeft(p)' < CallsLeft(p)
             /\ CallsLeft(p)' <= CallsLeft(p)
  <2>1. /\ CallsLeft(p) \in 0..4 /\ CallsLeft(p)' \in 0..4
        /\ phase'[p] = phase[p] => CallsLeft(p)' = CallsLeft(p)
    BY <1>1 DEF TypeOK, CallsLeft
  <2>2. ASSUME Main(p) PROVE CallsLeft(p)' < CallsLeft(p)
    <3>1. CASE CallFails(p) \/ UnregisterMutating(p) \/ UnregisterFails(p)
      <4>1. phase'[p] = "gone" /\ phase[p] # "gone"
        BY <1>1, <3>1 DEF TypeOK, CallFails, UnregisterMutating, UnregisterFails, Ends
      <4>2. QED
        BY <1>1, <4>1 DEF TypeOK, CallsLeft
    <3>2. CASE Bind(p)
      BY <1>1, <3>2 DEF TypeOK, Bind, CallsLeft
    <3>3. CASE BindFails(p)
      BY <1>1, <3>3 DEF TypeOK, BindFails, CallsLeft
    <3>4. CASE StopServing(p)
      BY <1>1, <3>4 DEF TypeOK, StopServing, CallsLeft
    <3>5. CASE Unregister(p)
      BY <1>1, <3>5 DEF TypeOK, Unregister, CallsLeft
    <3>6. CASE Seed(p) \/ InstallPolicy(p) \/ Register(p) \/ RegisterMutating(p)
      BY <1>1, <3>6 DEF Seed, InstallPolicy, Register, RegisterMutating, Calls
    <3>7. QED
      BY <2>2, <3>1, <3>2, <3>3, <3>4, <3>5, <3>6 DEF Main
  <2>3. ASSUME Start(p) \/ Judge(p) \/ Handle(p) \/ Sigterm(p) PROVE phase'[p] = phase[p]
    BY <1>1, <2>3 DEF Start, Judge, Handle, Answer, RecordVerdict, Sigterm
  <2>4. ASSUME Kill(p) PROVE CallsLeft(p)' = 0
    BY <1>1, <2>4 DEF TypeOK, Kill, Ends, CallsLeft
  <2>5. ASSUME UNCHANGED vars PROVE phase'[p] = phase[p] /\ CallsLeft(p)' = CallsLeft(p)
    BY <2>5 DEF vars, CallsLeft
  <2>6. CallsLeft(p)' <= CallsLeft(p)
    <3>1. CASE UNCHANGED vars
      BY <2>1, <2>5, <3>1
    <3>2. CASE Next
      <4>1. PICK r \in Procs : Start(r) \/ Main(r) \/ Judge(r) \/ Handle(r) \/ Sigterm(r) \/ Kill(r)
        BY <3>2 DEF Next
      <4>2. CASE r # p
        BY <1>1, <2>1, <4>1, <4>2, OthersKeepTheirPlace
      <4>3. CASE r = p
        BY <2>1, <2>2, <2>3, <2>4, <4>1, <4>3
      <4>4. QED
        BY <4>2, <4>3
    <3>3. QED
      BY <1>1, <3>1, <3>2
  <2>7. QED
    BY <2>2, <2>6
<1>2. TypeOK /\ TypeOK' /\ [Next]_vars =>
      [\A p \in Procs : told[p] /\ Alive(p) => /\ Main(p) => CallsLeft(p)' < CallsLeft(p)
                                               /\ CallsLeft(p)' <= CallsLeft(p)]_vars
  BY <1>1
<1>3. QED
  BY <1>2, LifecycleTypeCorrect, PTL DEF Spec, StopsSoon
=============================================================================
