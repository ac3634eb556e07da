----------------------------- MODULE Leadership -----------------------------
(***************************************************************************)
(* Several instances of the controller around one Lease: lead and the part *)
(* of run and observe that starts and stops the work.  Time is discrete    *)
(* and is the same for all; the Lease and the elector are client-go's, and *)
(* are modelled by what the configuration in lead asks of them.  What a    *)
(* pass does is in Controller; here it is begun, and ends or is cut short. *)
(***************************************************************************)
EXTENDS Integers

CONSTANTS Instances,     \* the identities of the processes
          Nobody,        \* the holder of a Lease that was given back
          LeaseDuration, \* the three periods of the configuration
          RenewDeadline,
          RetryPeriod,
          LookEvery,     \* the longest pause of a standby between two looks
          MaxDelay,      \* the longest time from a renewal to its answer
          Mishaps        \* how many SIGTERMs, crashes and outages may happen

NoAnswer == -1

ASSUME LeadershipAssumption ==
  /\ Nobody \notin Instances
  /\ {LeaseDuration, RenewDeadline, RetryPeriod, LookEvery, MaxDelay} \subseteq Nat
  /\ Mishaps \in [{"term", "crash", "outage"} -> Nat]

\* "A lease outlives the deadline to renew it, which outlives the gap between
\* attempts": with an answer that may be late, this much.
ASSUME PeriodsAssumption ==
  LeaseDuration > RenewDeadline + RetryPeriod + MaxDelay

VARIABLES holder,   \* who holds the Lease, according to the API server
          up,       \* the API server answers
          unseen,   \* the Lease has changed since this instance looked at it
          patience, \* until the Lease it saw has expired
          wait,     \* until a standby looks, or a leader renews, again
          due,      \* until a leader has to have renewed
          answer,   \* until the answer to a renewal is there, or NoAnswer
          phase,    \* where the process is in run and lead
          told,     \* SIGTERM has arrived
          observe,  \* where observe is, in its own goroutine
          inPass,   \* its worker has begun a pass and not ended it
          runErr,   \* observe has reported an error to lead
          exit,     \* how the process ended
          vacancy,  \* history: the time for which there were standbys and no leader
          left      \* the mishaps that may still happen

vars == << holder, up, unseen, patience, wait, due, answer, phase, told,
           observe, inPass, runErr, exit, vacancy, left >>

lease == << holder, unseen >>
clocks == << patience, wait, due, answer >>
work == << observe, inPass, runErr >>

Init ==
  /\ holder = Nobody
  /\ up = TRUE
  /\ unseen = [i \in Instances |-> TRUE]
  /\ patience = [i \in Instances |-> 0]
  /\ wait = [i \in Instances |-> 0]
  /\ due = [i \in Instances |-> 0]
  /\ answer = [i \in Instances |-> NoAnswer]
  /\ phase = [i \in Instances |-> "starting"]
  /\ told = [i \in Instances |-> FALSE]
  /\ observe = [i \in Instances |-> "no"]
  /\ inPass = [i \in Instances |-> FALSE]
  /\ runErr = [i \in Instances |-> FALSE]
  /\ exit = [i \in Instances |-> "none"]
  /\ vacancy = 0
  /\ left = Mishaps

\* The context observe runs under: run's own, and cancelled when the elector
\* has returned, which is after it has given the Lease back.
Live(i) == ~told[i] /\ phase[i] \in {"leading", "releasing"}

Mishap(m) == left[m] > 0 /\ left' = [left EXCEPT ![m] = @ - 1]

\* A slip: RenewDeadline and LeaseDuration exchanged.
RenewWithinExchanged == RetryPeriod + LeaseDuration

\* From an answered renewal: the pause, and then the deadline for the next.
RenewWithin == RetryPeriod + RenewDeadline

----------------------------------------------------------------------------
(* Starting: installCRD.                                                   *)

Install(i) ==
  /\ phase[i] = "starting" /\ ~told[i] /\ up
  /\ phase' = [phase EXCEPT ![i] = "standby"]
  /\ wait' = [wait EXCEPT ![i] = 0]
  /\ UNCHANGED << lease, up, patience, due, answer, told, work, exit, vacancy, left >>

\* A call of installCRD fails: the API server is away, or run's context is
\* cancelled.
InstallFails(i) ==
  /\ phase[i] = "starting" /\ (told[i] \/ ~up)
  /\ phase' = [phase EXCEPT ![i] = "gone"]
  /\ exit' = [exit EXCEPT ![i] = "error"]
  /\ UNCHANGED << lease, up, clocks, told, work, vacancy, left >>

----------------------------------------------------------------------------
(* The elector: LeaderElector.Run, as lead configures it.                  *)

Written(i) == unseen' = [j \in Instances |-> IF j = i THEN FALSE ELSE TRUE]

\* What i, looking now, takes the rest of the Lease's time to be.
Rest(i) == IF unseen[i] THEN LeaseDuration ELSE patience[i]

Takes(i) == holder \in {Nobody, i} \/ Rest(i) = 0

Waits(i) == phase[i] = "standby" /\ ~told[i] /\ wait[i] = 0

LookInVain(i) ==
  /\ Waits(i) /\ (up => ~Takes(i))
  /\ wait' = [wait EXCEPT ![i] = LookEvery]
  /\ IF up
     THEN /\ patience' = [patience EXCEPT ![i] = Rest(i)]
          /\ unseen' = [unseen EXCEPT ![i] = FALSE]
     ELSE UNCHANGED << patience, unseen >>
  /\ UNCHANGED << holder, up, due, answer, phase, told, work, exit, vacancy, left >>

\* A slip: observe is not tied to the Lease.
AcquireLate(i) ==
  /\ Waits(i) /\ up /\ Takes(i)
  /\ holder' = i
  /\ Written(i)
  /\ phase' = [phase EXCEPT ![i] = "leading"]
  /\ due' = [due EXCEPT ![i] = RenewDeadline]
  /\ vacancy' = 0
  /\ UNCHANGED << up, patience, wait, answer, told, work, exit, left >>

\* The Lease is taken, and OnStartedLeading runs observe in a goroutine.
Acquire(i) ==
  /\ Waits(i) /\ up /\ Takes(i)
  /\ holder' = i
  /\ Written(i)
  /\ phase' = [phase EXCEPT ![i] = "leading"]
  /\ due' = [due EXCEPT ![i] = RenewDeadline]
  /\ observe' = [observe EXCEPT ![i] = "syncing"]
  /\ vacancy' = 0
  /\ UNCHANGED << up, patience, wait, answer, told, inPass, runErr, exit, left >>

\* The poll in renew: at once, and every RetryPeriod until an attempt succeeds.
MustRenew(i) == phase[i] = "leading" /\ wait[i] = 0 /\ answer[i] = NoAnswer

\* The API server writes the renewal; the answer is on its way.
Renew(i) ==
  /\ MustRenew(i) /\ ~told[i] /\ up /\ holder = i
  /\ Written(i)
  /\ answer' = [answer EXCEPT ![i] = MaxDelay]
  /\ wait' = [wait EXCEPT ![i] = RetryPeriod]
  /\ UNCHANGED << holder, up, patience, due, phase, told, work, exit, vacancy, left >>

RenewInVain(i) ==
  /\ MustRenew(i) /\ ~told[i] /\ (~up \/ holder # i)
  /\ wait' = [wait EXCEPT ![i] = RetryPeriod]
  /\ UNCHANGED << lease, up, patience, due, answer, phase, told, work, exit, vacancy, left >>

Renewed(i) ==
  /\ phase[i] = "leading" /\ answer[i] # NoAnswer
  /\ answer' = [answer EXCEPT ![i] = NoAnswer]
  /\ due' = [due EXCEPT ![i] = RenewWithin]
  /\ wait' = [wait EXCEPT ![i] = RetryPeriod]
  /\ UNCHANGED << lease, up, patience, phase, told, work, exit, vacancy, left >>

\* The attempt fails after all, and is repeated while there is time.
AnswerLost(i) ==
  /\ phase[i] = "leading" /\ answer[i] # NoAnswer
  /\ Mishap("outage")
  /\ answer' = [answer EXCEPT ![i] = NoAnswer]
  /\ UNCHANGED << lease, up, patience, wait, due, phase, told, work, exit, vacancy >>

\* renew returns: the deadline has passed, or the context is cancelled.
StopRenewing(i) ==
  /\ phase[i] = "leading" /\ (told[i] \/ due[i] = 0)
  /\ phase' = [phase EXCEPT ![i] = "releasing"]
  /\ answer' = [answer EXCEPT ![i] = NoAnswer]
  /\ UNCHANGED << lease, up, patience, wait, due, told, work, exit, vacancy, left >>

\* A slip: ReleaseOnCancel not set.
NoRelease(i) ==
  /\ phase[i] = "releasing"
  /\ phase' = [phase EXCEPT ![i] = "returned"]
  /\ UNCHANGED << lease, up, clocks, told, work, exit, vacancy, left >>

\* ReleaseOnCancel: one attempt to give the Lease back, and Run returns.
Release(i) ==
  /\ phase[i] = "releasing"
  /\ phase' = [phase EXCEPT ![i] = "returned"]
  /\ IF up /\ holder = i
     THEN holder' = Nobody /\ Written(i)
     ELSE UNCHANGED lease
  /\ UNCHANGED << up, clocks, told, work, exit, vacancy, left >>

\* A slip: a standby is told by nobody.
StopWaitingOnError(i) ==
  /\ phase[i] = "standby" /\ runErr[i]
  /\ phase' = [phase EXCEPT ![i] = "returned"]
  /\ UNCHANGED << lease, up, clocks, told, work, exit, vacancy, left >>

\* acquire returns without the Lease.
StopWaiting(i) ==
  /\ phase[i] = "standby" /\ told[i]
  /\ phase' = [phase EXCEPT ![i] = "returned"]
  /\ UNCHANGED << lease, up, clocks, told, work, exit, vacancy, left >>

----------------------------------------------------------------------------
(* observe and its worker.                                                 *)

Synced(i) ==
  /\ observe[i] = "syncing" /\ Live(i) /\ up
  /\ observe' = [observe EXCEPT ![i] = "working"]
  /\ UNCHANGED << lease, up, clocks, phase, told, inPass, runErr, exit, vacancy, left >>

NeverSynced(i) ==
  /\ observe[i] = "syncing" /\ ~Live(i)
  /\ observe' = [observe EXCEPT ![i] = "returned"]
  /\ runErr' = [runErr EXCEPT ![i] = TRUE]
  /\ UNCHANGED << lease, up, clocks, phase, told, inPass, exit, vacancy, left >>

\* The worker is not waited for: it may still be in a pass.
StopObserving(i) ==
  /\ observe[i] = "working" /\ ~Live(i)
  /\ observe' = [observe EXCEPT ![i] = "returned"]
  /\ UNCHANGED << lease, up, clocks, phase, told, inPass, runErr, exit, vacancy, left >>

\* A pass begun under a cancelled context makes no call, and is left out.
BeginPass(i) ==
  /\ observe[i] = "working" /\ Live(i) /\ ~inPass[i]
  /\ inPass' = [inPass EXCEPT ![i] = TRUE]
  /\ UNCHANGED << lease, up, clocks, phase, told, observe, runErr, exit, vacancy, left >>

\* The last call of the pass is answered, or a call fails.
EndPass(i) ==
  /\ inPass[i]
  /\ inPass' = [inPass EXCEPT ![i] = FALSE]
  /\ UNCHANGED << lease, up, clocks, phase, told, observe, runErr, exit, vacancy, left >>

Running(i) == phase[i] # "gone"

\* lead returns runErr, whatever observe has made of it by then, run returns,
\* and the process ends with all its goroutines.
Exit(i) ==
  /\ phase[i] = "returned"
  /\ phase' = [phase EXCEPT ![i] = "gone"]
  /\ exit' = [exit EXCEPT ![i] = IF runErr[i] THEN "error" ELSE "ok"]
  /\ observe' = [observe EXCEPT ![i] = "no"]
  /\ inPass' = [inPass EXCEPT ![i] = FALSE]
  /\ UNCHANGED << lease, up, clocks, told, runErr, vacancy, left >>

----------------------------------------------------------------------------
(* Around the processes.                                                   *)

Sigterm(i) ==
  /\ Running(i) /\ ~told[i]
  /\ Mishap("term")
  /\ told' = [told EXCEPT ![i] = TRUE]
  /\ UNCHANGED << lease, up, clocks, phase, work, exit, vacancy >>

\* The process dies: nothing is given back.
Crash(i) ==
  /\ Running(i)
  /\ Mishap("crash")
  /\ phase' = [phase EXCEPT ![i] = "gone"]
  /\ exit' = [exit EXCEPT ![i] = "killed"]
  /\ observe' = [observe EXCEPT ![i] = "no"]
  /\ inPass' = [inPass EXCEPT ![i] = FALSE]
  /\ answer' = [answer EXCEPT ![i] = NoAnswer]
  /\ UNCHANGED << lease, up, patience, wait, due, told, runErr, vacancy >>

\* The container is started again, under the same host name: what the new
\* process knows of the Lease is nothing.
Restart(i) ==
  /\ phase[i] = "gone"
  /\ phase' = [phase EXCEPT ![i] = "starting"]
  /\ told' = [told EXCEPT ![i] = FALSE]
  /\ runErr' = [runErr EXCEPT ![i] = FALSE]
  /\ exit' = [exit EXCEPT ![i] = "none"]
  /\ unseen' = [unseen EXCEPT ![i] = TRUE]
  /\ UNCHANGED << holder, up, clocks, observe, inPass, vacancy, left >>

ApiDown == up /\ Mishap("outage") /\ up' = FALSE
           /\ UNCHANGED << lease, clocks, phase, told, work, exit, vacancy >>

ApiUp == ~up /\ up' = TRUE
         /\ UNCHANGED << lease, clocks, phase, told, work, exit, vacancy, left >>

Less(n) == IF n > 0 THEN n - 1 ELSE n

Standby(i) == phase[i] = "standby" /\ ~told[i]

\* Time passes, unless something is due now.
Tick ==
  /\ \A i \in Instances : /\ ~ Waits(i) /\ ~ MustRenew(i)
                          /\ phase[i] = "leading" => due[i] > 0 /\ answer[i] # 0
  /\ patience' = [i \in Instances |-> Less(patience[i])]
  /\ wait' = [i \in Instances |-> Less(wait[i])]
  /\ due' = [i \in Instances |-> Less(due[i])]
  /\ answer' = [i \in Instances |-> Less(answer[i])]
  /\ vacancy' = IF /\ up
                   /\ \E i \in Instances : Standby(i)
                   /\ \A i \in Instances : phase[i] \notin {"leading", "releasing"}
                THEN IF vacancy > LookEvery THEN vacancy ELSE vacancy + 1
                ELSE 0
  /\ UNCHANGED << lease, up, phase, told, work, exit, left >>

\* The main goroutine of a process, and the goroutines observe starts.
Main(i) ==
  \/ Install(i) \/ InstallFails(i)
  \/ LookInVain(i) \/ Acquire(i) \/ Renew(i) \/ RenewInVain(i) \/ Renewed(i) \/ StopRenewing(i)
  \/ Release(i) \/ StopWaiting(i) \/ Exit(i)

Observer(i) == Synced(i) \/ NeverSynced(i) \/ StopObserving(i)

Next ==
  \/ \E i \in Instances : \/ Main(i) \/ Observer(i)
                          \/ BeginPass(i) \/ EndPass(i) \/ AnswerLost(i)
                          \/ Sigterm(i) \/ Crash(i) \/ Restart(i)
  \/ ApiDown \/ ApiUp \/ Tick

Spec == Init /\ [][Next]_vars

\* A process takes its steps, a dead one is started again, an outage ends.
FairSpec ==
  /\ Spec
  /\ \A i \in Instances : WF_vars(Main(i)) /\ WF_vars(Observer(i)) /\ WF_vars(Restart(i))
  /\ WF_vars(ApiUp) /\ WF_vars(Tick)

----------------------------------------------------------------------------

\* The state is what the code and the elector can make of it.
TypeOK ==
  /\ holder \in Instances \cup {Nobody}
  /\ up \in BOOLEAN
  /\ unseen \in [Instances -> BOOLEAN]
  /\ patience \in [Instances -> 0..LeaseDuration]
  /\ wait \in [Instances -> Nat]
  /\ due \in [Instances -> 0..RenewWithin]
  /\ answer \in [Instances -> {NoAnswer} \cup 0..MaxDelay]
  /\ phase \in [Instances -> {"starting", "standby", "leading", "releasing", "returned", "gone"}]
  /\ told \in [Instances -> BOOLEAN]
  /\ observe \in [Instances -> {"no", "syncing", "working", "returned"}]
  /\ inPass \in [Instances -> BOOLEAN]
  /\ runErr \in [Instances -> BOOLEAN]
  /\ exit \in [Instances -> {"none", "ok", "error", "killed"}]
  /\ vacancy \in 0..(LookEvery + 1)
  /\ left \in [{"term", "crash", "outage"} -> Nat]

\* The comment on the three periods in lead: ordered as they are, no two
\* instances believe at the same time that they lead, whatever renewals fail
\* or are answered late, and whoever is killed or told to stop.
OneLeader ==
  \A i, j \in Instances : phase[i] = "leading" /\ phase[j] = "leading" => i = j

\* ReleaseOnCancel in lead: while nothing but SIGTERM disturbs the instances,
\* no standby waits longer than until its next look before one of them leads.
QuickHandover ==
  left.crash = Mishaps.crash /\ left.outage = Mishaps.outage => vacancy <= LookEvery

\* run and lead under a restarting container: whatever has happened before, in
\* the end there is always again an instance whose worker runs.
SomeoneWorks == []<>(\E i \in Instances : observe[i] = "working")

\* run: a process that is told to stop does stop, wherever it is.
StopsWhenTold == \A i \in Instances : told[i] ~> (phase[i] = "gone" \/ ~told[i])

\* The steps between an instance that was told to stop and its end.
StepsLeft(i) == [starting |-> 1, standby |-> 2, leading |-> 3, releasing |-> 2,
                 returned |-> 1, gone |-> 0][phase[i]]
                + IF answer[i] = NoAnswer THEN 0 ELSE 1

\* Each step of its main goroutine brings that end nearer, and nothing that
\* its other goroutines, other instances, late answers and outages do puts it off.
StopsSoon ==
  [][\A i \in Instances : told[i] /\ Running(i) =>
        /\ Main(i) => StepsLeft(i)' < StepsLeft(i)
        /\ StepsLeft(i)' <= StepsLeft(i)]_vars

\* learn/28-graceful-shutdown.md and the tester's stage 28, "finish the work in
\* hand, release the lease, exit 0": once the elector has returned, no pass of
\* an instance that was told to stop is unfinished.
\* The program does not keep it (README).
WorkInHandFinished ==
  \A i \in Instances : told[i] /\ phase[i] = "returned" => ~inPass[i]

\* The comment in run on SIGTERM, "why this exits 0 rather than reporting an
\* error": a process that was told to stop does not end with an error.
\* The program does not keep it (README).
ExitsCleanly ==
  \A i \in Instances : told[i] /\ phase[i] = "gone" => exit[i] # "error"
=============================================================================
