---------------------------- MODULE HarnessProofs ----------------------------
(***************************************************************************)
(* What the harness may be relied on for, for any number of cases, kinds   *)
(* and runs, and any size of output: that a verdict is reached in a clean  *)
(* namespace and in order, that no namespace is left for good in the way   *)
(* of the next run, that a result carries the whole output, that the       *)
(* answers about an exit agree, that a kill leaves nobody behind, and that *)
(* what a call still waits for only becomes less.                          *)
(***************************************************************************)
EXTENDS MCHarness, TLAPS

-----------------------------------------------------------------------------
(* The tester.                                                             *)

USE TesterAssumption, RunsAssumption DEF CaseNumbers

AtStage == pc \in {"stage", "fixture"}

\* JudgedCleanly with the run that is under way, and the namespace for as long
\* as the stage waits for its fixture.
TInv ==
  /\ case \in CaseNumbers
  /\ space \in [CaseNumbers -> {None, "active", "ending"}]
  /\ made \in [CaseNumbers -> Nat]
  /\ run \in Nat
  /\ AtStage => space[case] = "active" /\ made[case] = run
  /\ pc # "over" => passed = 1..(case - 1) /\ exit # "passed"
  /\ exit = "passed" => passed = CaseNumbers

LEMMA TesterInit == Init => TInv
  BY DEF Init, TInv, AtStage, None

\* What happens in the cluster takes no active namespace away.
LEMMA ClusterStep ==
  ASSUME TInv, Meddle \/ ObjectGoes \/ NamespaceGoes
  PROVE  TInv'
  <1>1. CASE Meddle \/ ObjectGoes
    BY <1>1 DEF Meddle, ObjectGoes, TInv, AtStage
  <1>2. CASE NamespaceGoes
    BY <1>2 DEF NamespaceGoes, TInv, AtStage, None
  <1>3. QED
    BY <1>1, <1>2

\* Begin ends in a stage only by way of a namespace that this run has made.
LEMMA BeginStep ==
  ASSUME TInv, Begin
  PROVE  TInv'
  <1>1. CASE GetNamespace
    BY <1>1 DEF GetNamespace, TInv, AtStage
  <1>2. CASE ListKind \/ PatchObject \/ Cleared \/ SeenGone
    BY <1>2 DEF ListKind, PatchObject, Cleared, SeenGone, TInv, AtStage
  <1>3. CASE DeleteNamespace
    BY <1>3 DEF DeleteNamespace, Deleted, TInv, AtStage, None
  <1>4. CASE WaitTimesOut
    BY <1>4 DEF WaitTimesOut, Fail, TInv, AtStage
  <1>5. CASE CreateNamespace
    BY <1>5 DEF CreateNamespace, Created, Fail, TInv, AtStage
  <1>6. QED
    BY <1>1, <1>2, <1>3, <1>4, <1>5 DEF Begin

\* A call that fails is passed over, or ends the run with what it may have done.
LEMMA FailingCallStep ==
  ASSUME TInv, CallFails
  PROVE  TInv'
  <1>1. CASE SkipKind
    BY <1>1 DEF CallFails, SkipKind, TInv, AtStage
  <1>2. CASE RequestFails
    <2>1. /\ space' \in [CaseNumbers -> {None, "active", "ending"}]
          /\ made' \in [CaseNumbers -> Nat]
      BY <1>2 DEF RequestFails, Patched, Deleted, Created, TInv
    <2>2. pc' = "over" /\ exit' = "failed" /\ UNCHANGED << run, case >>
      BY <1>2 DEF CallFails, RequestFails, Fail
    <2>3. QED
      BY <2>1, <2>2 DEF TInv, AtStage
  <1>3. QED
    BY <1>1, <1>2 DEF CallFails

\* A case is passed when those ahead of it have been.
LEMMA StageStep ==
  ASSUME TInv, Stage
  PROVE  TInv'
  <1>1. CASE StageFails
    BY <1>1 DEF StageFails, Fail, TInv, AtStage
  <1>2. CASE StagePasses
    BY <1>2 DEF StagePasses, TInv, AtStage
  <1>3. CASE AwaitFixture \/ FixtureReady
    BY <1>3 DEF AwaitFixture, FixtureReady, TInv, AtStage
  <1>4. QED
    BY <1>1, <1>2, <1>3 DEF Stage

LEMMA TesterStep == TInv /\ [Next]_vars => TInv'
  <1> SUFFICES ASSUME TInv, [Next]_vars PROVE TInv'
    OBVIOUS
  <1>1. CASE StartRun
    BY <1>1 DEF StartRun, TInv, AtStage, None
  <1>2. CASE UNCHANGED vars
    BY <1>2 DEF vars, TInv, AtStage
  <1>3. QED
    BY <1>1, <1>2, ClusterStep, BeginStep, FailingCallStep, StageStep DEF Next

LEMMA NoneIsNoKind == None \notin Kinds
  BY DEF None

\* With nothing of before at work and no call to fail: what is still held in the namespace that is
\* being emptied is of a kind that has yet to be listed, or has just been found,
\* or cannot be seen; and a namespace that is to be created is not there.
Emptied ==
  /\ meddling = 0 /\ faults = 0
  /\ \A k \in Kinds \ Opaque : objects[case][k] = "held"
       => \/ pc \in {"over", "get", "create", "stage", "fixture"}
          \/ pc = "clear" /\ (k \in kinds \/ k = found)
  /\ pc = "create" => space[case] = None

\* What the cluster stores.
Stored == objects \in [CaseNumbers -> [Kinds -> Objects]]

LEMMA ObjectWritten ==
  ASSUME Stored, NEW c \in CaseNumbers, NEW k \in Kinds, NEW o \in Objects,
         objects' = [objects EXCEPT ![c][k] = o]
  PROVE  Stored'
  BY DEF Stored

\* A patch frees or removes the object it is for, and leaves the others alone.
LEMMA PatchedObjects ==
  ASSUME TInv, Stored, Patched
  PROVE  /\ objects' \in [CaseNumbers -> [Kinds -> Objects]]
         /\ \A k \in Kinds : objects'[case][k] = "held" => objects[case][k] = "held" /\ k # found
  <1> DEFINE After(o) == IF o = "absent" THEN o
                         ELSE IF space[case] = "ending" THEN "absent" ELSE "free"
  <1>1. objects' = [objects EXCEPT ![case] =
                      [objects[case] EXCEPT ![found] = After(objects[case][found])]]
    BY DEF Patched
  <1>2. \A o : After(o) = "held" => FALSE
    OBVIOUS
  <1>3. /\ case \in CaseNumbers /\ objects[case] \in [Kinds -> Objects]
        /\ \A o \in Objects : After(o) \in Objects
    BY DEF TInv, Stored, Objects
  <1>4. objects'[case] = [objects[case] EXCEPT ![found] = After(objects[case][found])]
    BY <1>1, <1>3 DEF Stored
  <1> HIDE DEF After
  <1>5. \A k \in Kinds : objects'[case][k] = IF k = found THEN After(objects[case][found])
                                             ELSE objects[case][k]
    BY <1>3, <1>4
  <1>6. objects'[case] \in [Kinds -> Objects]
    BY <1>3, <1>4
  <1>7. QED
    BY <1>1, <1>2, <1>3, <1>4, <1>5, <1>6 DEF Stored

LEMMA StoredStep == TInv /\ Stored /\ [Next]_vars => Stored'
  <1> SUFFICES ASSUME TInv, Stored, [Next]_vars PROVE Stored'
    OBVIOUS
  <1>1. CASE StageFails \/ StagePasses
    BY <1>1 DEF StageFails, StagePasses, Leave, TInv, Stored
  <1>2. CASE Patched
    BY <1>2, PatchedObjects DEF Stored
  <1>3. CASE ObjectGoes \/ Meddle
    BY <1>3, ObjectWritten DEF ObjectGoes, Meddle, Objects
  <1>4. CASE UNCHANGED objects
    BY <1>4 DEF Stored
  <1>5. QED
    BY <1>1, <1>2, <1>3, <1>4
    DEF Next, vars, StartRun, Begin, GetNamespace, ListKind, PatchObject, Cleared,
        DeleteNamespace, CallFails, SkipKind, RequestFails, SeenGone, WaitTimesOut, CreateNamespace, Stage, AwaitFixture, FixtureReady,
        NamespaceGoes

LEMMA EmptiedStep == TInv /\ Stored /\ Emptied /\ [Next]_vars => Emptied'
  <1> SUFFICES ASSUME TInv, Stored, Emptied, [Next]_vars PROVE Emptied'
    OBVIOUS
  <1>1. CASE StartRun \/ UNCHANGED vars
    BY <1>1 DEF StartRun, vars, budget, Emptied
  <1>2. CASE GetNamespace
    BY <1>2 DEF GetNamespace, budget, Emptied
  <1>3. CASE ListKind
    BY <1>3, NoneIsNoKind DEF ListKind, budget, Emptied
  <1>4. CASE PatchObject
    BY <1>4, PatchedObjects DEF PatchObject, budget, Emptied
  <1>5. CASE Cleared
    <2>1. \A k \in Kinds \ Opaque : objects[case][k] # "held"
      BY <1>5, NoneIsNoKind DEF Cleared, budget, Emptied
    <2>2. QED
      BY <1>5, <2>1 DEF Cleared, budget, Emptied
  <1>14. CASE SeenGone
    BY <1>14 DEF SeenGone, budget, Emptied
  <1>6. CASE DeleteNamespace
    BY <1>6 DEF DeleteNamespace, budget, Emptied
  <1>7. CASE WaitTimesOut
    BY <1>7 DEF WaitTimesOut, Fail, budget, Emptied
  <1>8. CASE CreateNamespace
    BY <1>8 DEF CreateNamespace, Fail, budget, Emptied
  <1>9. CASE StageFails \/ StagePasses
    BY <1>9 DEF StageFails, StagePasses, Fail, budget, Emptied
  <1>10. CASE AwaitFixture \/ FixtureReady
    BY <1>10 DEF AwaitFixture, FixtureReady, budget, Emptied
  <1>11. CASE ObjectGoes
    BY <1>11 DEF ObjectGoes, budget, Emptied, TInv, Stored
  <1>12. CASE NamespaceGoes
    BY <1>12 DEF NamespaceGoes, budget, Emptied, TInv
  <1>13. ~Meddle /\ ~CallFails
    BY DEF Meddle, CallFails, Emptied
  <1>15. QED
    BY <1>1, <1>2, <1>3, <1>4, <1>5, <1>6, <1>7, <1>8, <1>9, <1>10, <1>11, <1>12, <1>13,
       <1>14
    DEF Next, Begin, Stage

-----------------------------------------------------------------------------
(* The runner.                                                             *)

Kept(n) == IF n < MaxOutput THEN n ELSE MaxOutput

\* What the proofs need of the state's types.
RType ==
  /\ prog \in Runs!Codes \cup {Running}
  /\ printed \in Nat /\ copied \in Nat /\ copied <= printed
  /\ done \in Runs!Codes \cup {NoResult}
  /\ result \in Runs!Results \cup {NoResult}
  /\ callPc \in {"idle", "invoke", "invokeKilled", "term", "kill", "over"}
  /\ answer \in Runs!Results \cup {NoResult, Running}

\* The copying is never ahead, and what is sent is sent at the end of it.
Copied ==
  /\ buf = Kept(copied)
  /\ waiter = "done" => prog # Running /\ copied = printed
  /\ result # NoResult => result.out = buf

\* One exit is sent, taken once, and on record from then on.
ToldOnce ==
  /\ done # NoResult => waiter = "done"
  /\ result # NoResult => waiter = "done" /\ done = NoResult /\ callPc \in {"idle", "over"}

\* Whoever is waited for after a kill has been hit by it.
Hit == callPc \in {"kill", "invokeKilled"} => prog # Running /\ "group" \notin family

HInv == RType /\ Copied /\ ToldOnce /\ Hit

LEMMA RunnerConstants ==
  /\ MaxOutput \in Nat
  /\ NoResult # Running
  /\ NoResult \notin Runs!Codes \cup Runs!Results
  /\ Running \notin Runs!Codes \cup Runs!Results
  BY DEF Runs!RunnerAssumption

LEMMA RunnerInit == Runs!Init => HInv
  <1> SUFFICES ASSUME Runs!Init PROVE HInv
    OBVIOUS
  <1>1. RType
    BY RunnerConstants DEF Runs!Init, RType
  <1>2. Copied
    BY RunnerConstants DEF Runs!Init, Copied, Kept
  <1>3. ToldOnce /\ Hit
    BY RunnerConstants DEF Runs!Init, ToldOnce, Hit
  <1>4. QED
    BY <1>1, <1>2, <1>3 DEF HInv

\* An exit that is taken and not on record yet is a result of its own.
LEMMA FinishRecords ==
  ASSUME HInv, done # NoResult, Runs!Finish
  PROVE  /\ result' = [code |-> done, out |-> buf]
         /\ result' \in Runs!Results
         /\ answer' = result' /\ done' = NoResult
  <1>1. done \in Runs!Codes /\ result = NoResult
    BY DEF HInv, RType, ToldOnce
  <1>2. buf \in 0..MaxOutput
    BY RunnerConstants DEF HInv, RType, Copied, Kept
  <1>3. QED
    BY <1>1, <1>2 DEF Runs!Finish, Runs!Finished, Runs!Results

LEMMA ProgramStep ==
  ASSUME HInv, Runs!Program
  PROVE  HInv'
  <1>1. CASE Runs!PrintLine
    BY <1>1, RunnerConstants
    DEF Runs!PrintLine, Runs!harness, HInv, RType, Copied, ToldOnce, Hit, Kept
  <1>2. CASE Runs!Fork \/ Runs!ChildExits
    BY <1>2, RunnerConstants
    DEF Runs!Fork, Runs!ChildExits, Runs!harness, HInv, RType, Copied, ToldOnce, Hit, Kept
  <1>3. CASE Runs!Exit
    BY <1>3, RunnerConstants
    DEF Runs!Exit, Runs!harness, HInv, RType, Copied, ToldOnce, Hit, Kept
  <1>4. QED
    BY <1>1, <1>2, <1>3 DEF Runs!Program

LEMMA BesideStep ==
  ASSUME HInv, Runs!Beside
  PROVE  HInv'
  <1>1. CASE Runs!Copy
    BY <1>1, RunnerConstants
    DEF Runs!Copy, Runs!program, HInv, RType, Copied, ToldOnce, Hit, Kept
  <1>2. CASE Runs!WaitReturns
    BY <1>2, RunnerConstants
    DEF Runs!WaitReturns, Runs!Send, Runs!program, HInv, RType, Copied, ToldOnce, Hit, Kept
  <1>3. CASE Runs!WaitDelayOver
    BY <1>3, RunnerConstants
    DEF Runs!WaitDelayOver, Runs!Send, Runs!program, Runs!Codes, HInv, RType, Copied,
        ToldOnce, Hit, Kept
  <1>4. QED
    BY <1>1, <1>2, <1>3 DEF Runs!Beside

\* A call or a wait that takes the exit, and one that goes on.
LEMMA FinishStep ==
  ASSUME HInv, done # NoResult, Runs!Finish, callPc' \in {"idle", "over"},
         UNCHANGED << prog, family, printed, waiter, copied, buf >>
  PROVE  HInv'
  <1>1. /\ result' = [code |-> done, out |-> buf] /\ result' \in Runs!Results
        /\ answer' = result' /\ done' = NoResult
    BY FinishRecords
  <1>2. result'.out = buf /\ waiter = "done"
    BY <1>1 DEF HInv, ToldOnce
  <1>3. QED
    BY <1>1, <1>2, RunnerConstants DEF HInv, RType, Copied, ToldOnce, Hit, Kept

LEMMA KillStep ==
  ASSUME HInv, Runs!Killed, result = NoResult, callPc' \in {"kill", "invokeKilled"},
         UNCHANGED << waiter, copied, buf, done, result, answer >>
  PROVE  HInv'
  BY RunnerConstants
  DEF Runs!Killed, Runs!Codes, HInv, RType, Copied, ToldOnce, Hit, Kept

LEMMA WaitingStep ==
  ASSUME HInv, Runs!Waiting
  PROVE  HInv'
  <1>1. CASE Runs!GraceOver \/ Runs!InvokeTimeout
    <2>1. /\ Runs!Killed /\ callPc' \in {"kill", "invokeKilled"}
          /\ UNCHANGED << waiter, copied, buf, done, result, answer >>
      BY <1>1 DEF Runs!GraceOver, Runs!InvokeTimeout, Runs!harness
    <2>2. result = NoResult
      BY <1>1 DEF Runs!GraceOver, Runs!InvokeTimeout, HInv, ToldOnce
    <2>3. QED
      BY <2>1, <2>2, KillStep
  <1>2. CASE Runs!Receive \/ Runs!InvokeReturns
    BY <1>2, FinishStep DEF Runs!Receive, Runs!InvokeReturns, Runs!program, Runs!harness
  <1>3. CASE Runs!LastWaitOver
    <2>1. buf \in 0..MaxOutput
      BY RunnerConstants DEF HInv, RType, Copied, Kept
    <2>2. answer' \in Runs!Results /\ answer'.code = "-1"
      BY <1>3, <2>1 DEF Runs!LastWaitOver, Runs!Results, Runs!Codes
    <2>3. QED
      BY <1>3, <2>2, RunnerConstants
      DEF Runs!LastWaitOver, Runs!program, Runs!harness, HInv, RType, Copied, ToldOnce, Hit
  <1>4. QED
    BY <1>1, <1>2, <1>3 DEF Runs!Waiting

LEMMA CallsStep ==
  ASSUME HInv, Runs!Calls
  PROVE  HInv'
  <1>1. CASE Runs!ExitedYes
    BY <1>1, FinishStep DEF Runs!ExitedYes, Runs!Call, Runs!program, Runs!harness
  <1>2. CASE Runs!ExitedNo \/ Runs!StopCached
    BY <1>2, RunnerConstants
    DEF Runs!ExitedNo, Runs!StopCached, Runs!Call, Runs!program, Runs!harness,
        HInv, RType, Copied, ToldOnce, Hit
  <1>3. CASE Runs!StopTerm
    BY <1>3, RunnerConstants
    DEF Runs!StopTerm, Runs!Call, Runs!program, Runs!harness, HInv, RType, Copied,
        ToldOnce, Hit
  <1>4. CASE Runs!KillNow
    BY <1>4, KillStep DEF Runs!KillNow, Runs!harness
  <1>5. QED
    BY <1>1, <1>2, <1>3, <1>4 DEF Runs!Calls

LEMMA RunnerStep == HInv /\ [Runs!Next]_runnerVars => HInv'
  <1>1. ASSUME HInv, UNCHANGED runnerVars PROVE HInv'
    BY <1>1 DEF runnerVars, HInv, RType, Copied, ToldOnce, Hit
  <1>2. QED
    BY <1>1, ProgramStep, BesideStep, WaitingStep, CallsStep DEF Runs!Next

\* Of two numbers, Min is the one that Kept keeps.
LEMMA MinOfTwo ==
  ASSUME NEW m \in Nat, NEW n \in Nat
  PROVE  Runs!Min({m, n}) = IF m < n THEN m ELSE n
  BY DEF Runs!Min

\* An exit that was sent lies in the channel until it is on record.
Heard ==
  /\ waiter \in {"waiting", "done"}
  /\ waiter = "done" => done # NoResult \/ result # NoResult

LEMMA HeardInit == Runs!Init => Heard
  BY DEF Runs!Init, Heard

LEMMA HeardStep == HInv /\ Heard /\ [Runs!Next]_runnerVars => Heard'
  <1> SUFFICES ASSUME HInv, Heard, Runs!Next PROVE Heard'
    BY DEF Heard, runnerVars
  <1>1. CASE Runs!Program
    BY <1>1
    DEF Heard, Runs!Program, Runs!PrintLine, Runs!Fork, Runs!Exit, Runs!ChildExits,
        Runs!harness
  <1>2. CASE Runs!Copy
    BY <1>2 DEF Heard, Runs!Copy
  <1>3. CASE Runs!WaitReturns \/ Runs!WaitDelayOver
    <2>1. waiter' = "done" /\ done' \in Runs!Codes
      BY <1>3
      DEF HInv, RType, Runs!WaitReturns, Runs!WaitDelayOver, Runs!Send, Runs!Codes
    <2>2. QED
      BY <2>1, RunnerConstants DEF Heard
  <1>4. CASE done # NoResult /\ Runs!Finish /\ UNCHANGED Runs!harness
    <2>1. result' \in Runs!Results /\ waiter' = waiter
      BY <1>4, FinishRecords DEF Runs!harness
    <2>2. QED
      BY <2>1, RunnerConstants DEF Heard
  <1>5. CASE Runs!ExitedYes \/ Runs!Receive \/ Runs!InvokeReturns
    BY <1>4, <1>5 DEF Runs!ExitedYes, Runs!Receive, Runs!InvokeReturns
  <1>6. CASE Runs!GraceOver \/ Runs!LastWaitOver \/ Runs!InvokeTimeout
    BY <1>6
    DEF Heard, Runs!GraceOver, Runs!LastWaitOver, Runs!InvokeTimeout, Runs!harness
  <1>7. CASE Runs!ExitedNo \/ Runs!StopCached \/ Runs!StopTerm \/ Runs!KillNow
    BY <1>7
    DEF Heard, Runs!ExitedNo, Runs!StopCached, Runs!StopTerm, Runs!KillNow, Runs!harness
  <1>8. QED
    BY <1>1, <1>2, <1>3, <1>5, <1>6, <1>7
    DEF Runs!Next, Runs!Beside, Runs!Waiting, Runs!Calls

\* Taken, the exit is on record for good and answers Stop and Kill; nobody begins
\* to wait for a channel that has been drained.
Agrees ==
  waiter = "done" /\ done = NoResult
    => /\ result # NoResult /\ result' = result
       /\ answer' \in {answer, result} \/ Runs!ExitedNo
       /\ callPc' \in {"idle", "over"}

LEMMA AgreesStep == HInv /\ Heard /\ [Runs!Next]_runnerVars => [Agrees]_runnerVars
  <1> SUFFICES ASSUME HInv, Heard, Runs!Next, waiter = "done", done = NoResult
               PROVE  /\ result # NoResult /\ result' = result
                      /\ answer' \in {answer, result} \/ Runs!ExitedNo
                      /\ callPc' \in {"idle", "over"}
    BY DEF Agrees
  <1>1. result # NoResult /\ callPc \in {"idle", "over"}
    BY DEF HInv, ToldOnce, Heard
  <1>2. CASE Runs!Program \/ Runs!Beside
    BY <1>1, <1>2
    DEF Runs!Program, Runs!PrintLine, Runs!Fork, Runs!Exit, Runs!ChildExits,
        Runs!Beside, Runs!Copy, Runs!WaitReturns, Runs!WaitDelayOver
  <1>3. CASE Runs!Waiting
    BY <1>1, <1>3
    DEF Runs!Waiting, Runs!GraceOver, Runs!Receive, Runs!LastWaitOver, Runs!InvokeTimeout,
        Runs!InvokeReturns
  <1>4. CASE Runs!ExitedNo
    BY <1>1, <1>4 DEF Runs!ExitedNo, Runs!Call
  <1>5. CASE Runs!Calls /\ ~Runs!ExitedNo
    BY <1>1, <1>5
    DEF Runs!Calls, Runs!Call, Runs!ExitedYes, Runs!StopCached, Runs!StopTerm, Runs!KillNow
  <1>6. QED
    BY <1>2, <1>3, <1>4, <1>5 DEF Runs!Next

Gone ==
  callPc' # callPc /\ callPc \in {"kill", "invokeKilled"}
    => prog' # Running /\ "group" \notin family'

LEMMA GoneStep == HInv /\ [Runs!Next]_runnerVars => [Gone]_runnerVars
  <1> SUFFICES ASSUME HInv, Runs!Next, callPc \in {"kill", "invokeKilled"}, callPc' # callPc
               PROVE  prog' = prog /\ family' = family
    BY DEF Gone, HInv, Hit
  <1>1. QED
    BY DEF Runs!Next,
           Runs!Program, Runs!PrintLine, Runs!Fork, Runs!Exit, Runs!ChildExits,
           Runs!Beside, Runs!Copy, Runs!WaitReturns, Runs!WaitDelayOver,
           Runs!Waiting, Runs!GraceOver, Runs!Receive, Runs!LastWaitOver,
           Runs!InvokeTimeout, Runs!InvokeReturns, Runs!program,
           Runs!Calls, Runs!Call, Runs!ExitedYes, Runs!ExitedNo, Runs!StopCached,
           Runs!StopTerm, Runs!KillNow

\* With the program gone nothing is printed any more and nobody is started, so
\* that what is left of a call only becomes less.
Nearer ==
  callPc \notin {"idle", "over"} /\ prog # Running => Runs!CallLeft' < Runs!CallLeft

LEMMA NearerStep == HInv /\ [Runs!Next]_runnerVars => [Nearer]_runnerVars
  <1> SUFFICES ASSUME HInv, Runs!Next, callPc \notin {"idle", "over"}, prog # Running
               PROVE  Runs!CallLeft' < Runs!CallLeft
    BY DEF Nearer
  <1>1. /\ printed - copied \in Nat
        /\ callPc \in {"invoke", "invokeKilled", "term", "kill"}
    BY DEF HInv, RType
  <1>2. CASE Runs!ChildExits
    BY <1>1, <1>2 DEF Runs!ChildExits, Runs!harness, Runs!CallLeft
  <1>3. CASE Runs!Copy
    BY <1>1, <1>3 DEF HInv, RType, Runs!Copy, Runs!program, Runs!CallLeft
  <1>4. CASE Runs!WaitReturns \/ Runs!WaitDelayOver
    BY <1>1, <1>4
    DEF Runs!WaitReturns, Runs!WaitDelayOver, Runs!Send, Runs!program, Runs!CallLeft
  <1>5. CASE Runs!GraceOver
    BY <1>1, <1>5 DEF Runs!GraceOver, Runs!Killed, Runs!harness, Runs!CallLeft
  <1>6. CASE Runs!Receive \/ Runs!LastWaitOver \/ Runs!InvokeReturns
    BY <1>1, <1>6
    DEF Runs!Receive, Runs!LastWaitOver, Runs!InvokeReturns, Runs!CallLeft
  <1>7. ~(Runs!PrintLine \/ Runs!Fork \/ Runs!Exit \/ Runs!InvokeTimeout \/ Runs!Calls)
    BY <1>1
    DEF Runs!PrintLine, Runs!Fork, Runs!Exit, Runs!InvokeTimeout, Runs!Calls, Runs!Call,
        Runs!ExitedYes, Runs!ExitedNo, Runs!StopCached, Runs!StopTerm, Runs!KillNow
  <1>8. QED
    BY <1>2, <1>3, <1>4, <1>5, <1>6, <1>7
    DEF Runs!Next, Runs!Program, Runs!Beside, Runs!Waiting

-----------------------------------------------------------------------------
(* A step of the run is a step of the tester, or of the runner.             *)

LEMMA HarnessSteps ==
  ASSUME [HarnessNext]_<< part, vars, runnerVars >>
  PROVE  [Next]_vars /\ [Runs!Next]_runnerVars
  BY DEF HarnessNext

LEMMA TesterInvariant == HarnessSpec => []TInv
  <1>1. HarnessInit => TInv
    BY TesterInit DEF HarnessInit
  <1>2. QED
    BY <1>1, TesterStep, HarnessSteps, PTL DEF HarnessSpec

LEMMA RunnerInvariant == HarnessSpec => []HInv
  <1>1. HarnessInit => HInv
    BY RunnerInit DEF HarnessInit
  <1>2. QED
    BY <1>1, RunnerStep, HarnessSteps, PTL DEF HarnessSpec

\* However many cases, kinds and runs: a stage is judged in a namespace that
\* its own run has made, after the cases ahead of it, and exit 0 means all.
THEOREM JudgedCleanlyAlways == HarnessSpec => []JudgedCleanly
  <1>1. TInv => JudgedCleanly
    BY DEF TInv, AtStage, JudgedCleanly, CleanNamespace, JudgedInOrder
  <1>2. QED
    BY <1>1, TesterInvariant, PTL

\* Whatever failed stages leave held, in any number of namespaces: once nothing of
\* before is at work, Begin does not fail, in this run and those after it, but by a
\* call that fails or on what clearFinalizers cannot see.
THEOREM NothingIsWedged == HarnessSpec => NothingWedges
  <1>1. HarnessInit => Stored
    BY DEF HarnessInit, Init, Stored, Objects
  <1>2. HarnessSpec => []Stored
    BY <1>1, TesterInvariant, StoredStep, HarnessSteps, PTL DEF HarnessSpec
  <1>3. pc = "get" /\ meddling = 0 /\ faults = 0 => Emptied
    BY DEF Emptied
  <1>4. Emptied => /\ pc = "wait" => \A k \in Kinds \ Opaque : objects[case][k] # "held"
                   /\ pc = "create" => space[case] = None
    BY DEF Emptied
  <1>5. QED
    BY <1>2, <1>3, <1>4, TesterInvariant, EmptiedStep, HarnessSteps, PTL
    DEF HarnessSpec, NothingWedges

\* Though the copying runs beside the exit, a result on record has everything
\* the program printed, up to the cap.
THEOREM ResultsCarryOutput == HarnessSpec => []ResultCarriesOutput
  <1>1. ASSUME HInv, result # NoResult PROVE result.out = Runs!Min({printed, MaxOutput})
    <2>1. /\ result.out = Kept(printed)
          /\ printed \in Nat /\ MaxOutput \in Nat
      BY <1>1, RunnerConstants DEF HInv, RType, Copied, ToldOnce
    <2>2. QED
      BY <2>1, MinOfTwo DEF Kept
  <1>2. HInv => ResultCarriesOutput
    BY <1>1 DEF ResultCarriesOutput, Runs!ResultCarriesOutput
  <1>3. QED
    BY <1>2, RunnerInvariant, PTL

\* Though Exited drains the channel that Stop and Kill wait on, and the exit may
\* come at any point of any call: once it has been taken it is on record for good,
\* every later Stop and Kill answers it, and none waits for another.
THEOREM TakenExitsAreKept == HarnessSpec => AnswersAgree
  <1>1. HarnessInit => Heard
    BY HeardInit DEF HarnessInit
  <1>2. HarnessSpec => []Heard
    BY <1>1, RunnerInvariant, HeardStep, HarnessSteps, PTL DEF HarnessSpec
  <1>3. HarnessSpec => [][Agrees]_runnerVars
    BY <1>2, RunnerInvariant, AgreesStep, HarnessSteps, PTL DEF HarnessSpec
  <1>4. QED
    BY <1>3 DEF AnswersAgree, Runs!AnswersAgree, Agrees, runnerVars, Runs!vars

\* When a call that killed has returned, nobody of the program's group lives.
THEOREM KilledGroupIsGone == HarnessSpec => GroupIsGone
  <1>1. HarnessSpec => [][Gone]_runnerVars
    BY RunnerInvariant, GoneStep, HarnessSteps, PTL DEF HarnessSpec
  <1>2. QED
    BY <1>1 DEF GroupIsGone, Runs!GroupIsGone, Gone, runnerVars, Runs!vars

\* Whoever holds the pipe and in whatever order: no call waits for an exit that
\* another has taken, and once the program is gone each step, of the harness or
\* of what the program left behind, is one of the few that are left.
THEOREM CallsComeToTheirEnd == HarnessSpec => CallsRunOut
  <1>1. HarnessInit => Heard
    BY HeardInit DEF HarnessInit
  <1>2. HarnessSpec => []Heard
    BY <1>1, RunnerInvariant, HeardStep, HarnessSteps, PTL DEF HarnessSpec
  <1>3. HInv /\ Heard
          => (callPc \notin {"idle", "over"} => waiter = "waiting" \/ done # NoResult)
    BY DEF HInv, RType, ToldOnce, Heard
  <1>4. HarnessSpec => [][Nearer]_runnerVars
    BY RunnerInvariant, NearerStep, HarnessSteps, PTL DEF HarnessSpec
  <1>5. HarnessSpec
          => [](callPc \notin {"idle", "over"} => waiter = "waiting" \/ done # NoResult)
    BY <1>2, <1>3, RunnerInvariant, PTL
  <1>6. QED
    BY <1>4, <1>5 DEF CallsRunOut, Runs!CallsRunOut, Nearer, runnerVars, Runs!vars
=============================================================================
