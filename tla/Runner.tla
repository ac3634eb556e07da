------------------------------- MODULE Runner -------------------------------
(***************************************************************************)
(* internal/runner: the learner's program as the harness runs it, in a     *)
(* process group of its own, with its output copied and its exit waited    *)
(* for beside whoever asks the program to stop.                            *)
(*                                                                         *)
(* A program may fork into its group, or out of it; whoever lives holds    *)
(* the pipe open that the output comes through.                            *)
(***************************************************************************)
EXTENDS Naturals, FiniteSetsExt

CONSTANTS MaxOutput,  \* how much of a stream is kept
          PipeSize,   \* how much the system's pipe holds
          MaxPrints,  \* how much the program prints
          MaxCalls,   \* how many calls the stage makes
          None, Running

Codes == {"-1", "0", "1"}  \* a program that a signal ends has the code -1

\* What a call says of a program that has stopped.
Results == [code : Codes, out : 0..MaxOutput]

RunnerAssumption ==
  /\ MaxOutput \in Nat /\ PipeSize \in Nat \ {0} /\ MaxPrints \in Nat /\ MaxCalls \in Nat
  /\ None # Running /\ {None, Running} \cap (Codes \cup Results) = {}

VARIABLES prog,    \* running, or gone with its code
          family,  \* where processes it started live: "group", "outside"
          termed,  \* SIGTERM was sent to the group
          printed, \* how much the program has printed
          copied,  \* how much of it the harness has read
          buf,     \* and kept
          waiter,  \* cmd.Wait: waiting, at its delay, or done
          done,    \* the channel it sends to
          result,  \* the exit on record
          pc,      \* the call under way
          answer,  \* what the last call said
          calls    \* how many calls are still to come

vars == << prog, family, termed, printed, copied, buf, waiter, done, result, pc,
           answer, calls >>

program == << prog, family, printed >>
harness == << waiter, copied, buf >>

PipeOpen == prog = Running \/ family # {}

\* Start, or the start of Invoke.
Init ==
  /\ prog = Running /\ family = {} /\ termed = FALSE
  /\ printed = 0 /\ copied = 0 /\ buf = 0
  /\ waiter = "waiting" /\ done = None
  /\ result = None
  /\ pc \in {"idle", "invoke"}
  /\ answer = None
  /\ calls = MaxCalls

----------------------------------------------------------------------------
(* The program.                                                            *)

PrintLine ==
  /\ prog = Running /\ printed < MaxPrints
  /\ printed - copied < PipeSize
  /\ printed' = printed + 1
  /\ UNCHANGED << prog, family, termed, harness, done, result, pc, answer, calls >>

Fork ==
  /\ prog = Running /\ family = {}
  /\ family' \in {{"group"}, {"outside"}}
  /\ UNCHANGED << prog, termed, printed, harness, done, result, pc, answer, calls >>

\* It ends by itself when it has printed all it has to, or when told to.
Exit ==
  /\ prog = Running
  /\ printed = MaxPrints \/ termed
  /\ prog' \in Codes
  /\ UNCHANGED << family, termed, printed, harness, done, result, pc, answer, calls >>

ChildExits ==
  /\ family # {}
  /\ family' = {}
  /\ UNCHANGED << prog, termed, printed, harness, done, result, pc, answer, calls >>

----------------------------------------------------------------------------
(* The harness beside its caller: the copying goroutine, cmd.Wait.         *)

\* A slip: nothing more is read when the buffer is full.
CopyUntilFull ==
  /\ copied < printed /\ buf < MaxOutput
  /\ copied' = copied + 1
  /\ buf' = buf + 1
  /\ UNCHANGED << program, termed, waiter, done, result, pc, answer, calls >>

\* capped.Write: what there is no room for is read all the same.
Copy ==
  /\ copied < printed
  /\ copied' = copied + 1
  /\ buf' = IF buf < MaxOutput THEN buf + 1 ELSE buf
  /\ UNCHANGED << program, termed, waiter, done, result, pc, answer, calls >>

Send(code) == waiter' = "done" /\ done' = code

\* A slip: the process is waited for, and not its output.
WaitForProcess ==
  /\ waiter = "waiting" /\ prog # Running
  /\ Send(prog)
  /\ UNCHANGED << program, termed, copied, buf, result, pc, answer, calls >>

\* cmd.Wait: the exit, then the end of the output.
WaitReturns ==
  /\ waiter = "waiting" /\ prog # Running
  /\ ~PipeOpen /\ copied = printed
  /\ Send(prog)
  /\ UNCHANGED << program, termed, copied, buf, result, pc, answer, calls >>

\* A slip: there is no WaitDelay.
WaitNeverOver == FALSE /\ UNCHANGED vars

\* WaitDelay: somebody else holds the pipe, which makes an error of success.
WaitDelayOver ==
  /\ waiter = "waiting" /\ prog # Running
  /\ family # {} /\ copied = printed
  /\ Send(IF prog = "0" THEN "-1" ELSE prog)
  /\ UNCHANGED << program, termed, copied, buf, result, pc, answer, calls >>

----------------------------------------------------------------------------
(* The calls.                                                              *)

\* What finish makes of an exit: the first one stays.
Finished(code) == IF result # None THEN result ELSE [code |-> code, out |-> buf]

\* A slip: the exit is told and not recorded.
FinishForgets ==
  /\ answer' = Finished(done)
  /\ done' = None
  /\ UNCHANGED result

Finish ==
  /\ result' = Finished(done)
  /\ answer' = result'
  /\ done' = None

Call == pc = "idle" /\ calls > 0 /\ calls' = calls - 1

ExitedYes ==
  /\ Call /\ done # None
  /\ Finish
  /\ UNCHANGED << program, termed, harness, pc >>

\* Also when the exit has been told before: the channel is empty then.
ExitedNo ==
  /\ Call /\ done = None
  /\ answer' = Running
  /\ UNCHANGED << program, termed, harness, done, result, pc >>

\* Stop and Kill of a program whose exit is on record.
StopCached ==
  /\ Call /\ result # None
  /\ answer' = result
  /\ UNCHANGED << program, termed, harness, done, result, pc >>

\* Stop: SIGTERM to the group; who lives there goes, sooner or later.
StopTerm ==
  /\ Call /\ result = None
  /\ termed' = TRUE
  /\ pc' = "term"
  /\ UNCHANGED << program, harness, done, result, answer >>

\* A slip: the signal goes to the process that was started.
KilledAlone ==
  /\ prog' = IF prog = Running THEN "-1" ELSE prog
  /\ UNCHANGED << family, printed >>

\* SIGKILL to the group.
Killed ==
  /\ prog' = IF prog = Running THEN "-1" ELSE prog
  /\ family' = family \ {"group"}
  /\ UNCHANGED printed

KillNow ==
  /\ Call /\ result = None
  /\ Killed
  /\ pc' = "kill"
  /\ UNCHANGED << termed, harness, done, result, answer >>

GraceOver ==
  /\ pc = "term" /\ done = None
  /\ Killed
  /\ pc' = "kill"
  /\ UNCHANGED << termed, harness, done, result, answer, calls >>

Receive ==
  /\ pc \in {"term", "kill"} /\ done # None
  /\ Finish
  /\ pc' = "idle"
  /\ UNCHANGED << program, termed, harness, calls >>

\* The last three seconds of Stop and Kill, which are as long as the WaitDelay:
\* they pass only if somebody outside the group holds the pipe.
LastWaitOver ==
  /\ pc = "kill" /\ done = None /\ family # {}
  /\ answer' = [code |-> "-1", out |-> buf]
  /\ pc' = "idle"
  /\ UNCHANGED << program, termed, harness, done, result, calls >>

\* Invoke: the deadline kills the group, and Wait is waited for all the same.
InvokeTimeout ==
  /\ pc = "invoke" /\ prog = Running
  /\ Killed
  /\ pc' = "invokeKilled"
  /\ UNCHANGED << termed, harness, done, result, answer, calls >>

InvokeReturns ==
  /\ pc \in {"invoke", "invokeKilled"} /\ done # None
  /\ Finish
  /\ pc' = "over"
  /\ UNCHANGED << program, termed, harness, calls >>

Program == PrintLine \/ Fork \/ Exit \/ ChildExits
Beside == Copy \/ WaitReturns \/ WaitDelayOver
Waiting == GraceOver \/ Receive \/ LastWaitOver \/ InvokeTimeout \/ InvokeReturns
Calls == ExitedYes \/ ExitedNo \/ StopCached \/ StopTerm \/ KillNow

Next == Program \/ Beside \/ Waiting \/ Calls

Spec == Init /\ [][Next]_vars

\* The copying and the waiting go on, timers fire, a program that has room to
\* print prints; nothing is assumed of what it started, and of Exit only that
\* a program with nothing left to do ends.
FairSpec ==
  /\ Spec
  /\ WF_vars(PrintLine) /\ WF_vars(Copy) /\ WF_vars(Exit /\ ~termed)
  /\ WF_vars(WaitReturns \/ WaitDelayOver)
  /\ WF_vars(Waiting)

----------------------------------------------------------------------------

\* The counters keep their order and the record is a result.
TypeOK ==
  /\ prog \in Codes \cup {Running}
  /\ family \in {{}, {"group"}, {"outside"}}
  /\ termed \in BOOLEAN
  /\ printed \in 0..MaxPrints /\ copied \in 0..printed /\ buf \in 0..MaxOutput
  /\ waiter \in {"waiting", "done"}
  /\ done \in Codes \cup {None}
  /\ result \in Results \cup {None}
  /\ pc \in {"idle", "invoke", "invokeKilled", "term", "kill", "over"}
  /\ answer \in Results \cup {None, Running}
  /\ calls \in 0..MaxCalls

\* The comment on finish, "records the exit once": an exit that has been taken out
\* of the channel is on record and its record stays, every later Stop or Kill
\* answers with it, and none waits for the channel that has been drained.  A later
\* Exited looks only at the channel and says that the program runs: ExitedIsFinal.
AnswersAgree ==
  [][waiter = "done" /\ done = None
       => /\ result # None /\ result' = result
          /\ answer' \in {answer, result} \/ ExitedNo
          /\ pc' \in {"idle", "over"}]_vars

\* The comment on Stop: "The Result carries everything it printed", up to the
\* cap, though the copying runs beside the exit.
ResultCarriesOutput ==
  result # None => result.out = Min({printed, MaxOutput})

\* The comment on capped: the harness stops storing and never stops reading, so
\* a program that prints without end of its own is not held up by its judge.
NeverHeldUp == <>(prog # Running \/ printed = MaxPrints)

\* "killing the process we spawned can leave the real program running": when a
\* call that killed has returned, nobody of the group lives.
GroupIsGone ==
  [][pc' # pc /\ pc \in {"kill", "invokeKilled"}
       => prog' # Running /\ "group" \notin family']_vars

\* "without a bound, Wait blocks forever on EOF that never comes": each call
\* returns, whoever holds the pipe.
EveryCallReturns == pc \notin {"idle", "over"} ~> pc \in {"idle", "over"}

\* What is left to wait for of a call: its timer, the output still to be copied,
\* cmd.Wait, whoever else lives, and its return.
CallLeft ==
  IF pc \in {"idle", "over"} THEN 0
  ELSE (IF pc = "term" THEN 2 ELSE 1) + (printed - copied)
       + (IF waiter = "waiting" THEN 1 ELSE 0) + (IF family = {} THEN 0 ELSE 1)

\* The part of EveryCallReturns that is safety: the exit a call waits for is still
\* to come or lies in the channel, and no earlier call has taken it; and once the
\* program is gone, whatever happens brings the return nearer.
CallsRunOut ==
  /\ [](pc \notin {"idle", "over"} => waiter = "waiting" \/ done # None)
  /\ [][pc \notin {"idle", "over"} /\ prog # Running => CallLeft' < CallLeft]_vars

\* The comment on Exited: it "reports whether the program has already stopped",
\* so it does not say of one that has stopped that it runs.
\* The program does not keep it (README).
ExitedIsFinal == [][result # None => answer' # Running]_vars
=============================================================================
