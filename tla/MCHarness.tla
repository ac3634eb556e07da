------------------------------ MODULE MCHarness ------------------------------
(***************************************************************************)
(* The tester and the runner in one run.  What they share is that a stage  *)
(* ends, which Tester takes in one step; a behaviour takes the steps of    *)
(* one of them while the other stays in its initial state.                 *)
(***************************************************************************)
EXTENDS Tester

CONSTANTS MaxOutput, PipeSize, MaxPrints, MaxCalls, NoResult, Running

VARIABLES part,
          prog, family, termed, printed, copied, buf, waiter, done, result,
          callPc, answer, calls

Runs == INSTANCE Runner WITH None <- NoResult, pc <- callPc

ASSUME RunsAssumption == Runs!RunnerAssumption

runnerVars == << prog, family, termed, printed, copied, buf, waiter, done, result,
                 callPc, answer, calls >>

HarnessInit ==
  /\ part \in {"tester", "runner"}
  /\ Init /\ Runs!Init
  /\ part = "tester" => callPc = "idle"

HarnessNext ==
  /\ UNCHANGED part
  /\ \/ part = "tester" /\ Next /\ UNCHANGED runnerVars
     \/ part = "runner" /\ Runs!Next /\ UNCHANGED vars

\* The fairness of Tester and of Runner, for the one that takes the steps.
HarnessSpec ==
  /\ HarnessInit /\ [][HarnessNext]_<< part, vars, runnerVars >>
  /\ WF_vars(part = "tester" /\ Begin)
  /\ WF_vars(part = "tester" /\ (StageFails \/ StagePasses))
  /\ WF_vars(part = "tester" /\ ObjectGoes)
  /\ WF_vars(part = "tester" /\ NamespaceGoes)
  /\ WF_runnerVars(part = "runner" /\ Runs!PrintLine)
  /\ WF_runnerVars(part = "runner" /\ Runs!Copy)
  /\ WF_runnerVars(part = "runner" /\ Runs!Exit /\ ~termed)
  /\ WF_runnerVars(part = "runner" /\ (Runs!WaitReturns \/ Runs!WaitDelayOver))
  /\ WF_runnerVars(part = "runner" /\ Runs!Waiting)

----------------------------------------------------------------------------

\* finish: an exit that has been taken is on record for good, and it is what every
\* later Stop and Kill answers; Exited alone does not look there.
AnswersAgree == Runs!AnswersAgree

\* Stop: the result carries everything the program has printed, up to the cap.
ResultCarriesOutput == Runs!ResultCarriesOutput

\* capped: a program is never held up by the harness that reads it.
NeverHeldUp == part = "runner" => Runs!NeverHeldUp

\* Kill, Invoke: when a call that killed has returned, nobody of the group lives.
GroupIsGone == Runs!GroupIsGone

\* WaitDelay and the bounds of Stop and Kill: each call returns.
EveryCallReturns == Runs!EveryCallReturns

\* Stop, Kill, Invoke: nobody waits for an exit that has been taken, and once the
\* program is gone each step brings the return of a call nearer.
CallsRunOut == Runs!CallsRunOut
=============================================================================
