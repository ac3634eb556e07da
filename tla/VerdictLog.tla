----------------------------- MODULE VerdictLog -----------------------------
(***************************************************************************)
(* What the webhook promises of its record: a verdict that was answered is *)
(* written down in one step that disturbs no other, or given up.           *)
(***************************************************************************)
CONSTANTS Handlers, Names, Verdicts, Nothing

VARIABLES due, \* the verdict a handler has still to write down: <<name, verdict>>
          log  \* the last verdict written of each name

vars == << due, log >>

Init ==
  /\ due = [h \in Handlers |-> Nothing]
  /\ log = [n \in Names |-> Nothing]

Answer(h) ==
  /\ due[h] = Nothing
  /\ \E n \in Names, v \in Verdicts : due' = [due EXCEPT ![h] = << n, v >>]
  /\ UNCHANGED log

Record(h) ==
  /\ due[h] # Nothing
  /\ due' = [due EXCEPT ![h] = Nothing]
  /\ log' = [log EXCEPT ![due[h][1]] = due[h][2]]

\* The five seconds are over, the program ends, or the log is erased twice.
GiveUp(h) ==
  /\ due[h] # Nothing
  /\ due' = [due EXCEPT ![h] = Nothing]
  /\ UNCHANGED log

Erase ==
  /\ log' = [n \in Names |-> Nothing]
  /\ UNCHANGED due

Next == (\E h \in Handlers : Answer(h) \/ Record(h) \/ GiveUp(h)) \/ Erase

Spec == Init /\ [][Next]_vars
=============================================================================
