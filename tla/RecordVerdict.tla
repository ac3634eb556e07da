---------------------------- MODULE RecordVerdict ----------------------------
(***************************************************************************)
(* recordVerdict: handlers that run beside each other write what they have *)
(* answered into one ConfigMap, which need not be there and which anybody  *)
(* may delete.                                                             *)
(***************************************************************************)
EXTENDS Naturals

CONSTANTS Handlers, Names, Verdicts, Nothing,
          MaxAnswers, \* how many requests there are in all
          MaxDeletes, \* how often the ConfigMap is deleted
          MaxErrors   \* how many calls fail otherwise, or come too late

RecordAssumption ==
  /\ Nothing \notin Verdicts /\ Nothing \notin Names \X Verdicts
  /\ MaxAnswers \in Nat /\ MaxDeletes \in Nat /\ MaxErrors \in Nat

VARIABLES pc,      \* the call a handler makes next
          verdict, \* what it has answered
          exists,  \* the ConfigMap is there
          data,    \* its data
          failed,  \* history: handlers whose recordVerdict returned an error
          answers, deletes, errors

vars == << pc, verdict, exists, data, failed, answers, deletes, errors >>

NoData == [n \in Names |-> Nothing]

\* A slip: the patch is the whole of the data.
WrittenAlone(n, v) == [NoData EXCEPT ![n] = v]

\* What a merge patch of one key makes of the data.
Written(n, v) == [data EXCEPT ![n] = v]

Init ==
  /\ pc = [h \in Handlers |-> "idle"]
  /\ verdict = [h \in Handlers |-> Nothing]
  /\ exists \in BOOLEAN
  /\ data = NoData
  /\ failed = {}
  /\ answers = MaxAnswers /\ deletes = MaxDeletes /\ errors = MaxErrors

\* The answer has gone; a dry run ends here and is not seen again.
Answer(h) ==
  /\ pc[h] = "idle" /\ answers > 0
  /\ \E n \in Names, v \in Verdicts : verdict' = [verdict EXCEPT ![h] = << n, v >>]
  /\ pc' = [pc EXCEPT ![h] = "patch"]
  /\ failed' = failed \ {h}
  /\ answers' = answers - 1
  /\ UNCHANGED << exists, data, deletes, errors >>

Return(h, error) ==
  /\ pc' = [pc EXCEPT ![h] = "idle"]
  /\ verdict' = [verdict EXCEPT ![h] = Nothing]
  /\ failed' = IF error THEN failed \cup {h} ELSE failed

Patch(h) ==
  /\ pc[h] = "patch"
  /\ IF exists
     THEN data' = Written(verdict[h][1], verdict[h][2]) /\ Return(h, FALSE)
     ELSE /\ pc' = [pc EXCEPT ![h] = "create"]
          /\ UNCHANGED << data, verdict, failed >>
  /\ UNCHANGED << exists, answers, deletes, errors >>

Create(h) ==
  /\ pc[h] = "create"
  /\ IF exists
     THEN /\ pc' = [pc EXCEPT ![h] = "patchAgain"]
          /\ UNCHANGED << data, verdict, failed >>
     ELSE /\ data' = [NoData EXCEPT ![verdict[h][1]] = verdict[h][2]]
          /\ Return(h, FALSE)
  /\ exists' = TRUE
  /\ UNCHANGED << answers, deletes, errors >>

\* The third call is the last: what it says is what recordVerdict returns.
PatchAgain(h) ==
  /\ pc[h] = "patchAgain"
  /\ data' = IF exists THEN Written(verdict[h][1], verdict[h][2]) ELSE data
  /\ Return(h, ~exists)
  /\ UNCHANGED << exists, answers, deletes, errors >>

\* Any call may fail, and the five seconds may be over.
CallFails(h) ==
  /\ pc[h] # "idle" /\ errors > 0
  /\ errors' = errors - 1
  /\ Return(h, TRUE)
  /\ UNCHANGED << exists, data, answers, deletes >>

DeleteConfigMap ==
  /\ exists /\ deletes > 0
  /\ exists' = FALSE /\ data' = NoData /\ deletes' = deletes - 1
  /\ UNCHANGED << pc, verdict, failed, answers, errors >>

Next ==
  \/ \E h \in Handlers : \/ Answer(h) \/ Patch(h) \/ Create(h)
                         \/ PatchAgain(h) \/ CallFails(h)
  \/ DeleteConfigMap

Spec == Init /\ [][Next]_vars

----------------------------------------------------------------------------

\* A handler has a verdict exactly while it has one to write down.
TypeOK ==
  /\ pc \in [Handlers -> {"idle", "patch", "create", "patchAgain"}]
  /\ \A h \in Handlers : IF pc[h] = "idle" THEN verdict[h] = Nothing
                                           ELSE verdict[h] \in Names \X Verdicts
  /\ exists \in BOOLEAN
  /\ data \in [Names -> Verdicts \cup {Nothing}]
  /\ ~exists => data = NoData
  /\ failed \subseteq Handlers
  /\ answers \in 0..MaxAnswers /\ deletes \in 0..MaxDeletes /\ errors \in 0..MaxErrors

Log == INSTANCE VerdictLog WITH due <- verdict, log <- data

\* "a read-modify-write loses the ones it did not see": each handler's calls,
\* among everybody else's, come to one write of its own verdict.
RecordsAtOnce == Log!Spec

\* A handler that returns without an error has written its verdict, and writing
\* it is all it has done to the record.
SuccessIsWritten ==
  [][\A h \in Handlers :
       (pc[h] # "idle" /\ pc'[h] = "idle" /\ h \notin failed')
         => /\ data'[verdict[h][1]] = verdict[h][2]
            /\ \A n \in Names \ {verdict[h][1]} : data'[n] = data[n]]_vars

\* Of the record a handler promises both: it is kept at once, and a handler that
\* returns without an error has written its verdict and nothing else.
VerdictsKept == RecordsAtOnce /\ SuccessIsWritten
=============================================================================
