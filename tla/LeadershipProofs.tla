--------------------------- MODULE LeadershipProofs ---------------------------
(***************************************************************************)
(* For every value of the periods that PeriodsAssumption allows, and any   *)
(* number of instances: at most one of them believes that it leads, a      *)
(* Lease that is given back is soon taken again, and an instance that was  *)
(* told to stop has four steps left.                                       *)
(***************************************************************************)
EXTENDS Leadership, TLAPS

\* The time for which i may go on leading without a further renewal.
Reach(i) == IF answer[i] = NoAnswer THEN due[i] ELSE answer[i] + RenewWithin

\* OneLeader is not inductive: it holds because nobody else can take the Lease
\* before the leader has given up, and that is a matter of the clocks.
LeaderHolds ==
  \A i \in Instances : phase[i] = "leading" => holder = i

OthersWait ==
  \A i, j \in Instances :
    phase[i] = "leading" /\ i # j => unseen[j] \/ Reach(i) < patience[j]

OnlyLeadersAwait ==
  \A i \in Instances : phase[i] # "leading" => answer[i] = NoAnswer

LInv == TypeOK /\ LeaderHolds /\ OthersWait /\ OnlyLeadersAwait

USE LeadershipAssumption, PeriodsAssumption

LEMMA LeadershipInit == Init => LInv
BY DEF Init, LInv, TypeOK, LeaderHolds, OthersWait, OnlyLeadersAwait, RenewWithin, NoAnswer

\* An instance that may take the Lease has no leader beside it.
LEMMA TakerIsAlone ==
  ASSUME LInv, NEW i \in Instances, Takes(i), NEW k \in Instances, phase[k] = "leading"
  PROVE  k = i
BY DEF LInv, TypeOK, LeaderHolds, OthersWait, Takes, Rest, Reach, RenewWithin, NoAnswer

LEMMA LeadershipStep == LInv /\ [Next]_vars => LInv'
<1> SUFFICES ASSUME LInv, [Next]_vars PROVE LInv'
  OBVIOUS
<1> USE DEF LInv
<1>1. ASSUME NEW p \in Instances, Install(p) PROVE LInv'
  BY <1>1
  DEF Install, TypeOK, LeaderHolds, OthersWait, OnlyLeadersAwait, Reach, lease, work,
      RenewWithin, NoAnswer
<1>2. ASSUME NEW p \in Instances, InstallFails(p) PROVE LInv'
  BY <1>2
  DEF InstallFails, TypeOK, LeaderHolds, OthersWait, OnlyLeadersAwait, Reach, lease,
      clocks, work, RenewWithin, NoAnswer
<1>3. ASSUME NEW p \in Instances, LookInVain(p) PROVE LInv'
  <2> USE <1>3 DEF LookInVain
  <2>0. Rest(p) \in 0..LeaseDuration
    BY DEF Rest, TypeOK
  <2>1. TypeOK'
    <3>1. wait' \in [Instances -> Nat]
      BY DEF TypeOK
    <3>2. patience' \in [Instances -> 0..LeaseDuration] /\ unseen' \in [Instances -> BOOLEAN]
      <4>1. CASE up
        <5>1. patience' = [patience EXCEPT ![p] = Rest(p)] /\ unseen' = [unseen EXCEPT ![p] = FALSE]
          BY <4>1
        <5>2. patience \in [Instances -> 0..LeaseDuration] /\ unseen \in [Instances -> BOOLEAN]
          BY DEF TypeOK
        <5> HIDE <1>3 DEF LookInVain
        <5> QED
          BY <2>0, <5>1, <5>2
      <4>2. CASE ~up
        BY <4>2 DEF TypeOK
      <4> QED
        BY <4>1, <4>2
    <3> QED
      BY <3>1, <3>2 DEF TypeOK, work, RenewWithin, NoAnswer
  <2>2. LeaderHolds' /\ OnlyLeadersAwait'
    BY DEF LeaderHolds, OnlyLeadersAwait, lease
  <2>3. ASSUME NEW i \in Instances, NEW j \in Instances, phase'[i] = "leading", i # j
        PROVE  unseen'[j] \/ Reach(i)' < patience'[j]
    <3>1. Reach(i)' = Reach(i) /\ Reach(i) < LeaseDuration
      <4>1. due[i] \in 0..RenewWithin /\ answer[i] \in {NoAnswer} \cup 0..MaxDelay
        BY DEF TypeOK
      <4> QED
        BY <4>1 DEF Reach, RenewWithin, NoAnswer
    <3>2. unseen[j] \/ Reach(i) < patience[j]
      BY <2>3 DEF OthersWait
    <3>3. CASE up /\ j = p
      BY <3>1, <3>2, <3>3 DEF Rest, TypeOK
    <3>4. CASE ~(up /\ j = p)
      BY <3>1, <3>2, <3>4 DEF TypeOK
    <3> QED
      BY <3>3, <3>4
  <2> QED
    BY <2>1, <2>2, <2>3 DEF OthersWait
<1>4. ASSUME NEW p \in Instances, Acquire(p) PROVE LInv'
  BY <1>4, TakerIsAlone
  DEF Acquire, TypeOK, LeaderHolds, OthersWait, OnlyLeadersAwait, Reach, Written,
      RenewWithin, NoAnswer, Waits
<1>5. ASSUME NEW p \in Instances, Renew(p) PROVE LInv'
  BY <1>5
  DEF Renew, TypeOK, LeaderHolds, OthersWait, OnlyLeadersAwait, Reach, work, Written,
      RenewWithin, NoAnswer, MustRenew
<1>6. ASSUME NEW p \in Instances, RenewInVain(p) PROVE LInv'
  BY <1>6
  DEF RenewInVain, TypeOK, LeaderHolds, OthersWait, OnlyLeadersAwait, Reach, lease,
      work, RenewWithin, NoAnswer, MustRenew
<1>7. ASSUME NEW p \in Instances, Renewed(p) PROVE LInv'
  BY <1>7
  DEF Renewed, TypeOK, LeaderHolds, OthersWait, OnlyLeadersAwait, Reach, lease, work,
      RenewWithin, NoAnswer
<1>8. ASSUME NEW p \in Instances, StopRenewing(p) PROVE LInv'
  BY <1>8
  DEF StopRenewing, TypeOK, LeaderHolds, OthersWait, OnlyLeadersAwait, Reach, lease,
      work, RenewWithin, NoAnswer
<1>9. ASSUME NEW p \in Instances, Release(p) PROVE LInv'
  BY <1>9
  DEF Release, TypeOK, LeaderHolds, OthersWait, OnlyLeadersAwait, Reach, lease, clocks,
      work, Written, RenewWithin, NoAnswer
<1>10. ASSUME NEW p \in Instances, StopWaiting(p) PROVE LInv'
  BY <1>10
  DEF StopWaiting, TypeOK, LeaderHolds, OthersWait, OnlyLeadersAwait, Reach, lease,
      clocks, work, RenewWithin, NoAnswer
<1>11. ASSUME NEW p \in Instances, Exit(p) PROVE LInv'
  BY <1>11
  DEF Exit, TypeOK, LeaderHolds, OthersWait, OnlyLeadersAwait, Reach, lease, clocks,
      RenewWithin, NoAnswer
<1>12. ASSUME NEW p \in Instances, Synced(p) PROVE LInv'
  BY <1>12
  DEF Synced, TypeOK, LeaderHolds, OthersWait, OnlyLeadersAwait, Reach, lease, clocks,
      RenewWithin, NoAnswer
<1>13. ASSUME NEW p \in Instances, NeverSynced(p) PROVE LInv'
  BY <1>13
  DEF NeverSynced, TypeOK, LeaderHolds, OthersWait, OnlyLeadersAwait, Reach, lease,
      clocks, RenewWithin, NoAnswer
<1>14. ASSUME NEW p \in Instances, StopObserving(p) PROVE LInv'
  BY <1>14
  DEF StopObserving, TypeOK, LeaderHolds, OthersWait, OnlyLeadersAwait, Reach, lease,
      clocks, RenewWithin, NoAnswer
<1>15. ASSUME NEW p \in Instances, BeginPass(p) PROVE LInv'
  BY <1>15
  DEF BeginPass, TypeOK, LeaderHolds, OthersWait, OnlyLeadersAwait, Reach, lease,
      clocks, RenewWithin, NoAnswer
<1>16. ASSUME NEW p \in Instances, EndPass(p) PROVE LInv'
  BY <1>16
  DEF EndPass, TypeOK, LeaderHolds, OthersWait, OnlyLeadersAwait, Reach, lease, clocks,
      RenewWithin, NoAnswer
<1>17. ASSUME NEW p \in Instances, AnswerLost(p) PROVE LInv'
  BY <1>17
  DEF AnswerLost, TypeOK, LeaderHolds, OthersWait, OnlyLeadersAwait, Reach, lease, work,
      Mishap, RenewWithin, NoAnswer
<1>18. ASSUME NEW p \in Instances, Sigterm(p) PROVE LInv'
  BY <1>18
  DEF Sigterm, TypeOK, LeaderHolds, OthersWait, OnlyLeadersAwait, Reach, lease, clocks,
      work, Running, Mishap, RenewWithin, NoAnswer
<1>19. ASSUME NEW p \in Instances, Crash(p) PROVE LInv'
  BY <1>19
  DEF Crash, TypeOK, LeaderHolds, OthersWait, OnlyLeadersAwait, Reach, lease, Running,
      Mishap, RenewWithin, NoAnswer
<1>20. ASSUME NEW p \in Instances, Restart(p) PROVE LInv'
  BY <1>20
  DEF Restart, TypeOK, LeaderHolds, OthersWait, OnlyLeadersAwait, Reach, clocks,
      RenewWithin, NoAnswer
<1>21. ASSUME ApiDown PROVE LInv'
  <2>1. UNCHANGED << lease, clocks, phase, told, work, exit, vacancy >> /\ up' = FALSE
    BY <1>21 DEF ApiDown
  <2>2. TypeOK'
    <3>1. up' \in BOOLEAN
      BY <2>1, Zenon
    <3>2. left' \in [{"term", "crash", "outage"} -> Nat]
      BY <1>21 DEF ApiDown, Mishap, TypeOK
    <3> QED
      BY <2>1, <3>1, <3>2 DEF TypeOK, lease, clocks, work, RenewWithin, NoAnswer
  <2>3. LeaderHolds' /\ OnlyLeadersAwait'
    BY <2>1 DEF LeaderHolds, OnlyLeadersAwait, lease, clocks
  <2>4. OthersWait'
    BY <2>1 DEF OthersWait, Reach, lease, clocks, RenewWithin, NoAnswer
  <2> QED
    BY <2>2, <2>3, <2>4
<1>22. ASSUME ApiUp PROVE LInv'
  <2>1. UNCHANGED << lease, clocks, phase, told, work, exit, vacancy, left >> /\ up' = TRUE
    BY <1>22 DEF ApiUp
  <2>2. TypeOK'
    <3>1. up' \in BOOLEAN
      BY <2>1, Zenon
    <3>2. UNCHANGED << lease, clocks, phase, told, work, exit, vacancy, left >>
      BY <2>1
    <3> QED
      BY <3>1, <3>2 DEF TypeOK, lease, clocks, work, RenewWithin, NoAnswer
  <2>3. LeaderHolds' /\ OnlyLeadersAwait'
    BY <2>1 DEF LeaderHolds, OnlyLeadersAwait, lease, clocks
  <2>4. OthersWait'
    BY <2>1 DEF OthersWait, Reach, lease, clocks, RenewWithin, NoAnswer
  <2> QED
    BY <2>2, <2>3, <2>4
<1>23. ASSUME Tick PROVE LInv'
  <2> USE <1>23 DEF Tick
  <2>1. TypeOK'
    <3>1. /\ patience' \in [Instances -> 0..LeaseDuration]
          /\ wait' \in [Instances -> Nat]
          /\ due' \in [Instances -> 0..RenewWithin]
      BY DEF TypeOK, Less, RenewWithin
    <3>2. answer' \in [Instances -> {NoAnswer} \cup 0..MaxDelay]
      BY DEF TypeOK, Less, NoAnswer
    <3>3. vacancy' \in 0..(LookEvery + 1)
      BY DEF TypeOK
    <3> QED
      BY <3>1, <3>2, <3>3 DEF TypeOK, lease, work
  <2>2. LeaderHolds'
    BY DEF LeaderHolds, lease
  <2>3. OnlyLeadersAwait'
    BY DEF OnlyLeadersAwait, Less, NoAnswer
  <2>4. ASSUME NEW i \in Instances, NEW j \in Instances, phase'[i] = "leading", i # j
        PROVE  unseen'[j] \/ Reach(i)' < patience'[j]
    <3>1. due[i] > 0 /\ answer[i] # 0
      BY <2>4
    <3>2. unseen[j] \/ Reach(i) < patience[j]
      BY <2>4 DEF OthersWait
    <3>3. /\ due'[i] = due[i] - 1
          /\ answer'[i] = IF answer[i] = NoAnswer THEN NoAnswer ELSE answer[i] - 1
          /\ patience'[j] = IF patience[j] > 0 THEN patience[j] - 1 ELSE patience[j]
      BY <3>1 DEF Less, TypeOK, NoAnswer
    <3>4. /\ due[i] \in Nat /\ patience[j] \in Nat /\ RenewWithin \in Nat
          /\ answer[i] = NoAnswer \/ answer[i] \in Nat \ {0}
      BY <3>1 DEF TypeOK, RenewWithin
    <3>5. Reach(i)' = Reach(i) - 1 /\ Reach(i) \in Nat \ {0}
      <4>1. CASE answer[i] = NoAnswer
        BY <3>1, <3>3, <3>4, <4>1 DEF Reach
      <4>2. CASE answer[i] # NoAnswer
        <5>1. answer[i] \in Nat \ {0} /\ answer'[i] = answer[i] - 1 /\ answer'[i] # NoAnswer
          BY <3>3, <3>4, <4>2 DEF NoAnswer
        <5>2. Reach(i) = answer[i] + RenewWithin /\ Reach(i)' = answer'[i] + RenewWithin
          BY <4>2, <5>1 DEF Reach, RenewWithin
        <5> QED
          BY <3>4, <5>1, <5>2
      <4> QED
        BY <4>1, <4>2
    <3> QED
      BY <3>2, <3>3, <3>4, <3>5 DEF lease
  <2> QED
    BY <2>1, <2>2, <2>3, <2>4 DEF OthersWait
<1>24. ASSUME UNCHANGED vars PROVE LInv'
  BY <1>24
  DEF vars, TypeOK, LeaderHolds, OthersWait, OnlyLeadersAwait, Reach, RenewWithin,
      NoAnswer
<1> QED
  BY <1>1, <1>2, <1>3, <1>4, <1>5, <1>6, <1>7, <1>8, <1>9, <1>10, <1>11, <1>12, <1>13,
  <1>14, <1>15, <1>16, <1>17, <1>18, <1>19, <1>20, <1>21, <1>22, <1>23, <1>24
  DEF Next, Main, Observer

\* The types of the model's state.
THEOREM LeadershipTypeCorrect == Spec => []TypeOK
<1>1. Spec => []LInv
  BY LeadershipInit, LeadershipStep, PTL DEF Spec
<1> QED
  BY <1>1, PTL DEF LInv

\* Two instances never believe at the same time that they lead.
THEOREM AtMostOneLeads == Spec => []OneLeader
<1>1. Spec => []LInv
  BY LeadershipInit, LeadershipStep, PTL DEF Spec
<1>2. LInv => OneLeader
  BY DEF LInv, LeaderHolds, OneLeader
<1> QED
  BY <1>1, <1>2, PTL

-----------------------------------------------------------------------------
(* QuickHandover.  As long as nothing but SIGTERM has happened, the Lease  *)
(* is with a leader or with Nobody; and while it is with Nobody no standby *)
(* looks in vain, so that its pause only gets shorter.                     *)

Calm == left.crash = Mishaps.crash /\ left.outage = Mishaps.outage

InOffice(i) == phase[i] \in {"leading", "releasing"}

FewerLeft == \A m \in {"crash", "outage"} : left[m] <= Mishaps[m]

CalmInv ==
  Calm => /\ up
          /\ holder # Nobody => InOffice(holder)
          /\ vacancy > 0 => \A i \in Instances : ~InOffice(i)
          /\ vacancy <= LookEvery
          /\ \A i \in Instances : Standby(i) => wait[i] + vacancy <= LookEvery

LEMMA CalmInit == Init => FewerLeft /\ CalmInv
  <1> SUFFICES ASSUME Init PROVE FewerLeft /\ CalmInv
    OBVIOUS
  <1>1. FewerLeft
    BY DEF Init, FewerLeft
  <1>2. up /\ holder = Nobody /\ vacancy = 0 /\ LookEvery \in Nat
    BY DEF Init
  <1>3. \A i \in Instances : ~Standby(i)
    BY DEF Init, Standby
  <1> QED
    BY <1>1, <1>2, <1>3 DEF CalmInv

\* A step that takes nothing from the mishaps that are left is calm after as
\* it was before; a crash or an outage ends the calm for good.
LEMMA CalmStays ==
  ASSUME LInv, FewerLeft
  PROVE  /\ UNCHANGED left => FewerLeft' /\ Calm' = Calm
         /\ Mishap("term") => FewerLeft' /\ Calm' = Calm
         /\ Mishap("crash") \/ Mishap("outage") => FewerLeft' /\ ~Calm'
BY DEF LInv, TypeOK, FewerLeft, Calm, Mishap

LEMMA CalmStep == LInv /\ FewerLeft /\ CalmInv /\ [Next]_vars => FewerLeft' /\ CalmInv'
<1> SUFFICES ASSUME LInv, FewerLeft, CalmInv, [Next]_vars PROVE FewerLeft' /\ CalmInv'
  OBVIOUS
<1>t. /\ vacancy \in Nat /\ wait \in [Instances -> Nat] /\ holder \in Instances \cup {Nobody}
      /\ phase \in [Instances -> {"starting", "standby", "leading", "releasing", "returned", "gone"}]
      /\ told \in [Instances -> BOOLEAN]
  BY DEF LInv, TypeOK
<1>1. ASSUME NEW p \in Instances, Install(p) PROVE FewerLeft' /\ CalmInv'
  BY <1>t, <1>1, CalmStays DEF Install, CalmInv, InOffice, Standby, lease, clocks, work
<1>2. ASSUME NEW p \in Instances, InstallFails(p) PROVE FewerLeft' /\ CalmInv'
  BY <1>t, <1>2, CalmStays DEF InstallFails, CalmInv, InOffice, Standby, lease, clocks, work
<1>3. ASSUME NEW p \in Instances, Renew(p) PROVE FewerLeft' /\ CalmInv'
  BY <1>t, <1>3, CalmStays
  DEF Renew, CalmInv, InOffice, Standby, lease, clocks, work, MustRenew, Written
<1>4. ASSUME NEW p \in Instances, RenewInVain(p) PROVE FewerLeft' /\ CalmInv'
  BY <1>t, <1>4, CalmStays
  DEF RenewInVain, CalmInv, InOffice, Standby, lease, clocks, work, MustRenew
<1>5. ASSUME NEW p \in Instances, Renewed(p) PROVE FewerLeft' /\ CalmInv'
  BY <1>t, <1>5, CalmStays DEF Renewed, CalmInv, InOffice, Standby, lease, clocks, work
<1>6. ASSUME NEW p \in Instances, StopRenewing(p) PROVE FewerLeft' /\ CalmInv'
  BY <1>t, <1>6, CalmStays DEF StopRenewing, CalmInv, InOffice, Standby, lease, clocks, work
<1>7. ASSUME NEW p \in Instances, StopWaiting(p) PROVE FewerLeft' /\ CalmInv'
  BY <1>t, <1>7, CalmStays DEF StopWaiting, CalmInv, InOffice, Standby, lease, clocks, work
<1>8. ASSUME NEW p \in Instances, Exit(p) PROVE FewerLeft' /\ CalmInv'
  BY <1>t, <1>8, CalmStays DEF Exit, CalmInv, InOffice, Standby, lease, clocks, work
<1>9. ASSUME NEW p \in Instances, Synced(p) PROVE FewerLeft' /\ CalmInv'
  BY <1>t, <1>9, CalmStays DEF Synced, CalmInv, InOffice, Standby, lease, clocks, work
<1>10. ASSUME NEW p \in Instances, NeverSynced(p) PROVE FewerLeft' /\ CalmInv'
  BY <1>t, <1>10, CalmStays DEF NeverSynced, CalmInv, InOffice, Standby, lease, clocks, work
<1>11. ASSUME NEW p \in Instances, StopObserving(p) PROVE FewerLeft' /\ CalmInv'
  BY <1>t, <1>11, CalmStays DEF StopObserving, CalmInv, InOffice, Standby, lease, clocks, work
<1>12. ASSUME NEW p \in Instances, BeginPass(p) PROVE FewerLeft' /\ CalmInv'
  BY <1>t, <1>12, CalmStays DEF BeginPass, CalmInv, InOffice, Standby, lease, clocks, work
<1>13. ASSUME NEW p \in Instances, EndPass(p) PROVE FewerLeft' /\ CalmInv'
  BY <1>t, <1>13, CalmStays DEF EndPass, CalmInv, InOffice, Standby, lease, clocks, work
<1>14. ASSUME NEW p \in Instances, Restart(p) PROVE FewerLeft' /\ CalmInv'
  BY <1>t, <1>14, CalmStays DEF Restart, CalmInv, InOffice, Standby, lease, clocks, work
<1>15. ASSUME NEW p \in Instances, LookInVain(p) PROVE FewerLeft' /\ CalmInv'
  BY <1>t, <1>15, CalmStays DEF LookInVain, Takes, Waits, CalmInv, InOffice, Standby, work
<1>16. ASSUME NEW p \in Instances, Acquire(p) PROVE FewerLeft' /\ CalmInv'
  BY <1>t, <1>16, CalmStays DEF Acquire, Waits, CalmInv, InOffice, Standby
<1>17. ASSUME NEW p \in Instances, Release(p) PROVE FewerLeft' /\ CalmInv'
  BY <1>t, <1>17, CalmStays DEF Release, CalmInv, InOffice, Standby, lease, clocks, work
<1>18. ASSUME NEW p \in Instances, Sigterm(p) PROVE FewerLeft' /\ CalmInv'
  BY <1>t, <1>18, CalmStays DEF Sigterm, CalmInv, InOffice, Standby, lease, clocks, work
<1>19. ASSUME NEW p \in Instances, Crash(p) \/ AnswerLost(p) PROVE FewerLeft' /\ CalmInv'
  BY <1>19, CalmStays DEF Crash, AnswerLost, CalmInv
<1>20. ASSUME ApiDown PROVE FewerLeft' /\ CalmInv'
  BY <1>20, CalmStays DEF ApiDown, CalmInv
<1>21. ASSUME ApiUp PROVE FewerLeft' /\ CalmInv'
  BY <1>21, CalmStays DEF ApiUp, CalmInv
<1>22. ASSUME Tick PROVE FewerLeft' /\ CalmInv'
  <2>1. FewerLeft' /\ Calm' = Calm
    BY <1>22, CalmStays DEF Tick
  <2>2. CASE ~Calm
    BY <2>1, <2>2 DEF CalmInv
  <2>3. CASE Calm
    <3>1. /\ up /\ up' = up /\ holder' = holder /\ phase' = phase /\ told' = told
          /\ wait' = [i \in Instances |-> Less(wait[i])]
          /\ \A i \in Instances : ~Waits(i)
      BY <1>22, <2>3 DEF Tick, CalmInv, lease
    <3>2. \A i \in Instances : Standby(i) => wait[i] > 0 /\ wait'[i] = wait[i] - 1
      BY <1>t, <3>1 DEF Waits, Standby, Less
    <3>3. holder' # Nobody => InOffice(holder)'
      BY <2>3, <3>1 DEF CalmInv, InOffice
    <3>4. \A i \in Instances : (InOffice(i)' <=> InOffice(i)) /\ (Standby(i)' <=> Standby(i))
      BY <3>1 DEF InOffice, Standby
    <3>5. CASE (\E i \in Instances : Standby(i)) /\ \A i \in Instances : ~InOffice(i)
      <4>1. PICK s \in Instances : Standby(s)
        BY <3>5
      <4>2. vacancy + 1 <= LookEvery
        BY <1>t, <2>3, <3>2, <4>1 DEF CalmInv
      <4>3. vacancy' = vacancy + 1
        BY <1>t, <1>22, <3>1, <3>5, <4>2 DEF Tick, InOffice
      <4>4. \A i \in Instances : Standby(i)' => wait'[i] + vacancy' <= LookEvery
        BY <1>t, <2>3, <3>2, <3>4, <4>3 DEF CalmInv
      <4> QED
        BY <2>1, <3>1, <3>3, <3>4, <3>5, <4>2, <4>3, <4>4 DEF CalmInv
    <3>6. CASE ~((\E i \in Instances : Standby(i)) /\ \A i \in Instances : ~InOffice(i))
      <4>1. vacancy' = 0
        BY <1>22, <3>6 DEF Tick, InOffice
      <4>2. \A i \in Instances : Standby(i)' => wait'[i] + vacancy' <= LookEvery
        BY <1>t, <2>3, <3>2, <3>4, <4>1 DEF CalmInv
      <4> QED
        BY <2>1, <3>1, <3>3, <4>1, <4>2 DEF CalmInv
    <3> QED
      BY <3>5, <3>6
  <2> QED
    BY <2>2, <2>3
<1>23. ASSUME UNCHANGED vars PROVE FewerLeft' /\ CalmInv'
  BY <1>23, CalmStays DEF vars, CalmInv, InOffice, Standby
<1> QED
  BY <1>1, <1>2, <1>3, <1>4, <1>5, <1>6, <1>7, <1>8, <1>9, <1>10, <1>11, <1>12, <1>13,
  <1>14, <1>15, <1>16, <1>17, <1>18, <1>19, <1>20, <1>21, <1>22, <1>23
  DEF Next, Main, Observer

\* While nothing but SIGTERM disturbs the instances, whatever the periods and
\* however many instances there are, a Lease that was given back is taken by
\* the next standby to look: there is a leader again within one pause.
THEOREM HandsOverQuickly == Spec => []QuickHandover
<1>1. CalmInv => QuickHandover
  BY DEF CalmInv, Calm, QuickHandover
<1> QED
  BY <1>1, LeadershipInit, LeadershipStep, CalmInit, CalmStep, PTL DEF Spec

-----------------------------------------------------------------------------
(* StopsSoon: what StopsWhenTold rests on besides the scheduling.           *)

\* One instance changes neither the place of another nor what it waits for.
LEMMA OthersKeepTheirPlace ==
  ASSUME TypeOK, NEW i \in Instances, NEW j \in Instances, j # i,
         \/ Main(j) \/ Observer(j) \/ BeginPass(j) \/ EndPass(j)
         \/ AnswerLost(j) \/ Sigterm(j) \/ Crash(j) \/ Restart(j)
  PROVE  phase'[i] = phase[i] /\ answer'[i] = answer[i]
<1>1. CASE Main(j)
  BY <1>1 DEF TypeOK, Main, Install, InstallFails, LookInVain, Acquire, Renew, RenewInVain, Renewed,
              StopRenewing, Release, StopWaiting, Exit, clocks
<1>2. CASE Observer(j) \/ BeginPass(j) \/ EndPass(j) \/ Sigterm(j)
  BY <1>2 DEF Observer, Synced, NeverSynced, StopObserving, BeginPass, EndPass, Sigterm, clocks
<1>3. CASE AnswerLost(j) \/ Crash(j) \/ Restart(j)
  BY <1>3 DEF TypeOK, AnswerLost, Crash, Restart, clocks
<1> QED
  BY <1>1, <1>2, <1>3

\* The main goroutine of an instance that was told to stop has these steps left.
LEMMA MainMovesOn ==
  ASSUME LInv, NEW i \in Instances, told[i], Main(i)
  PROVE  \/ phase[i] = "starting" /\ phase'[i] = "gone" /\ answer'[i] = answer[i]
         \/ phase[i] = "standby" /\ phase'[i] = "returned" /\ answer'[i] = answer[i]
         \/ phase[i] = "leading" /\ phase'[i] = "leading"
              /\ answer[i] # NoAnswer /\ answer'[i] = NoAnswer
         \/ phase[i] = "leading" /\ phase'[i] = "releasing" /\ answer'[i] = NoAnswer
         \/ phase[i] = "releasing" /\ phase'[i] = "returned" /\ answer'[i] = answer[i]
         \/ phase[i] = "returned" /\ phase'[i] = "gone" /\ answer'[i] = answer[i]
<1>1. CASE Install(i) \/ LookInVain(i) \/ Acquire(i) \/ Renew(i) \/ RenewInVain(i)
  BY <1>1 DEF Install, LookInVain, Acquire, Renew, RenewInVain, Waits
<1>2. CASE Renewed(i) \/ StopRenewing(i)
  BY <1>2 DEF LInv, TypeOK, Renewed, StopRenewing
<1>3. CASE InstallFails(i) \/ Release(i) \/ StopWaiting(i) \/ Exit(i)
  BY <1>3 DEF LInv, TypeOK, InstallFails, Release, StopWaiting, Exit, clocks
<1> QED
  BY <1>1, <1>2, <1>3 DEF Main

LEMMA SumsFall ==
  ASSUME NEW m \in 0..3, NEW n \in 0..3, NEW s \in 0..1, NEW t \in 0..1, n <= m /\ t <= s
  PROVE  /\ n + t <= m + s
         /\ n < m \/ t < s => n + t < m + s
OBVIOUS

\* SIGTERM is heeded wherever an instance is: its main goroutine has four steps
\* at the most before it ends, and nothing around it adds one.
THEOREM StopsWithinFourSteps == Spec => StopsSoon
<1>1. ASSUME LInv, LInv', [Next]_vars, NEW i \in Instances, told[i], Running(i)
      PROVE  /\ Main(i) => StepsLeft(i)' < StepsLeft(i)
             /\ StepsLeft(i)' <= StepsLeft(i)
  <2> DEFINE Pending == IF answer[i] = NoAnswer THEN 0 ELSE 1
             Place == [starting |-> 1, standby |-> 2, leading |-> 3, releasing |-> 2,
                       returned |-> 1, gone |-> 0][phase[i]]
             Same == phase'[i] = phase[i] /\ Pending' <= Pending
  <2>1. /\ Place \in 0..3 /\ Place' \in 0..3
        /\ Pending \in 0..1 /\ Pending' \in 0..1
        /\ phase[i] # "leading" => Pending = 0
    BY <1>1 DEF LInv, TypeOK, OnlyLeadersAwait
  <2>2. StepsLeft(i) = Place + Pending /\ StepsLeft(i)' = Place' + Pending'
    BY DEF StepsLeft
  <2>3. Same => Place' = Place
    OBVIOUS
  <2>4. ASSUME Main(i) PROVE StepsLeft(i)' < StepsLeft(i)
    <3>1. /\ Place' <= Place /\ Pending' <= Pending
          /\ Place' < Place \/ Pending' < Pending
      BY <1>1, <2>1, <2>4, MainMovesOn
    <3> HIDE DEF Place, Pending
    <3>2. Place' + Pending' < Place + Pending
      BY <2>1, <3>1, SumsFall
    <3> QED
      BY <2>2, <3>2
  <2>5. ASSUME Observer(i) \/ BeginPass(i) \/ EndPass(i) \/ Sigterm(i) PROVE Same
    BY <2>1, <2>5
    DEF Observer, Synced, NeverSynced, StopObserving, BeginPass, EndPass, Sigterm,
        clocks
  <2>6. ASSUME AnswerLost(i) PROVE Same
    BY <1>1, <2>6 DEF AnswerLost, LInv, TypeOK
  <2>7. ASSUME Crash(i) PROVE Place' = 0 /\ Pending' = 0
    BY <1>1, <2>7 DEF Crash, LInv, TypeOK
  <2>8. ~Restart(i)
    BY <1>1 DEF Restart, Running
  <2>9. ASSUME ApiDown \/ ApiUp \/ UNCHANGED vars PROVE Same
    BY <2>1, <2>9 DEF ApiDown, ApiUp, vars, clocks
  <2>10. ASSUME Tick PROVE Same
    BY <1>1, <2>10 DEF Tick, Less, LInv, TypeOK, NoAnswer
  <2>11. ASSUME NEW j \in Instances, j # i,
                \/ Main(j) \/ Observer(j) \/ BeginPass(j) \/ EndPass(j)
                \/ AnswerLost(j) \/ Sigterm(j) \/ Crash(j) \/ Restart(j)
         PROVE  Same
    BY <1>1, <2>1, <2>11, OthersKeepTheirPlace DEF LInv
  <2>12. Same \/ Main(i) \/ Crash(i)
    <3> HIDE DEF Same
    <3> QED
      BY <1>1, <2>5, <2>6, <2>8, <2>9, <2>10, <2>11 DEF Next
  <2>13. StepsLeft(i)' <= StepsLeft(i)
    <3>1. CASE Same
      <4>1. Place' <= Place /\ Pending' <= Pending
        BY <2>1, <2>3, <3>1
      <4> HIDE DEF Place, Pending
      <4>2. Place' + Pending' <= Place + Pending
        BY <2>1, <4>1, SumsFall
      <4> QED
        BY <2>2, <4>2
    <3>2. CASE Crash(i)
      <4> HIDE DEF Place, Pending
      <4> QED
        BY <2>1, <2>2, <2>7, <3>2
    <3>3. CASE Main(i)
      <4> HIDE DEF Place, Pending
      <4>1. StepsLeft(i) \in Int /\ StepsLeft(i)' \in Int
        BY <2>1, <2>2
      <4> QED
        BY <2>4, <3>3, <4>1
    <3> HIDE DEF Same
    <3> QED
      BY <2>12, <3>1, <3>2, <3>3
  <2> QED
    BY <2>4, <2>13
<1>2. LInv /\ LInv' /\ [Next]_vars =>
      [\A i \in Instances : told[i] /\ Running(i) => /\ Main(i) => StepsLeft(i)' < StepsLeft(i)
                                                     /\ StepsLeft(i)' <= StepsLeft(i)]_vars
  BY <1>1
<1>3. Spec => []LInv
  BY LeadershipInit, LeadershipStep, PTL DEF Spec
<1> QED
  BY <1>2, <1>3, PTL DEF Spec, StopsSoon
=============================================================================
