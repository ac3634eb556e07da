--------------------------- MODULE WebhookVerdicts --------------------------
(***************************************************************************)
(* The 26 snapshots of the webhook course, as WebhookSnapshots has them:   *)
(* what the handlers of a snapshot do.                                     *)
(***************************************************************************)
EXTENDS WebhookSnapshots

\* validate (and waited): what the handler does with a review.
Validate2 == {"answers"}
Validate3 == Validate2 \cup {"logs"}
Validate4 == Validate3 \cup {"owner"}
Validate5 == Validate4 \cup {"answers unreadable"}
Validate6 == Validate5 \cup {"only pods"}
Validate7 == Validate6
Validate8 == Validate7
Validate9 == Validate8
Validate10 == Validate9
Validate11 == Validate10
Validate12 == (Validate11 \ {"owner", "only pods"}) \cup {"records first"}
Validate13 == Validate12
Validate14 == (Validate13 \ {"records first"}) \cup {"waits", "records last"}
Validate15 == Validate14
Validate16 == Validate15
Validate17 == Validate16 \cup {"audits"}
Validate18 == Validate17
Validate19 == Validate18
Validate20 == Validate19
Validate21 == Validate20 \cup {"evictions"}
Validate22 == Validate21
Validate23 == Validate22 \cup {"sessions"}
Validate24 == Validate23 \cup {"old name", "unless ending"}
Validate25 == Validate24
Validate26 == Validate25

Validate == Before(1, {}) \o
    <<Validate2, Validate3, Validate4, Validate5, Validate6, Validate7,
      Validate8, Validate9, Validate10, Validate11, Validate12,
      Validate13, Validate14, Validate15, Validate16, Validate17,
      Validate18, Validate19, Validate20, Validate21, Validate22,
      Validate23, Validate24, Validate25, Validate26>>

\* decide with the functions it calls: what is refused.
Decide12 == {"owner", "only pods"}
Decide13 == Decide12
Decide14 == Decide13
Decide15 == Decide14
Decide16 == Decide15
Decide17 == Decide16
Decide18 == Decide17
Decide19 == Decide18
Decide20 == Decide19
Decide21 == Decide20 \cup {"protected"}
Decide22 == Decide21 \cup {"deletes"}
Decide23 == Decide22
Decide24 == Decide23 \cup {"ending"}
Decide25 == Decide24
Decide26 == Decide25 \cup {"lists"}

Decide == Before(11, {}) \o
    <<Decide12, Decide13, Decide14, Decide15, Decide16, Decide17,
      Decide18, Decide19, Decide20, Decide21, Decide22, Decide23,
      Decide24, Decide25, Decide26>>

\* auditFor and warningsFor: what an answer carries besides the verdict.
Audit17 == {"annotations", "warnings"}
Audit18 == Audit17
Audit19 == Audit18
Audit20 == Audit19
Audit21 == Audit20
Audit22 == Audit21
Audit23 == Audit22
Audit24 == Audit23
Audit25 == Audit24
Audit26 == Audit25

Audit == Before(16, {}) \o
    <<Audit17, Audit18, Audit19, Audit20, Audit21, Audit22, Audit23,
      Audit24, Audit25, Audit26>>

\* dryRun and recordVerdict: which verdicts are written down.
Records12 == {"real"}
Records13 == Records12
Records14 == Records13
Records15 == Records14
Records16 == Records15
Records17 == Records16
Records18 == Records17
Records19 == Records18
Records20 == Records19
Records21 == Records20
Records22 == Records21
Records23 == Records22
Records24 == Records23
Records25 == Records24
Records26 == Records25

Records == Before(11, {}) \o
    <<Records12, Records13, Records14, Records15, Records16, Records17,
      Records18, Records19, Records20, Records21, Records22, Records23,
      Records24, Records25, Records26>>

\* respond, later respondAudited, newResponse and writeReview: what every
\* answer carries.
Answer5 == {"uid"}
Answer6 == Answer5
Answer7 == Answer6
Answer8 == Answer7
Answer9 == Answer8
Answer10 == Answer9
Answer11 == Answer10
Answer12 == Answer11
Answer13 == Answer12
Answer14 == Answer13
Answer15 == Answer14
Answer16 == Answer15
Answer17 == Answer16 \cup Audit17
Answer18 == Answer17
Answer19 == Answer18
Answer20 == Answer19
Answer21 == Answer20
Answer22 == Answer21
Answer23 == Answer22
Answer24 == Answer23
Answer25 == Answer24
Answer26 == Answer25

Answer == Before(4, {}) \o
    <<Answer5, Answer6, Answer7, Answer8, Answer9, Answer10, Answer11,
      Answer12, Answer13, Answer14, Answer15, Answer16, Answer17,
      Answer18, Answer19, Answer20, Answer21, Answer22, Answer23,
      Answer24, Answer25, Answer26>>

\* mutate and respondPatch: what is added to a pod, on create alone or on
\* update too.
Mutate9 == [always |-> {"injected"}, created |-> {}, logs |-> FALSE]
Mutate10 == [Mutate9 EXCEPT !.always = @ \cup {"cpu"}]
Mutate11 == [Mutate10 EXCEPT !.always = {"injected"}, !.created = {"cpu", "sidecar"}]
Mutate12 == Mutate11
Mutate13 == Mutate12
Mutate14 == Mutate13
Mutate15 == [Mutate14 EXCEPT !.logs = TRUE]
Mutate16 == Mutate15
Mutate17 == Mutate16
Mutate18 == Mutate17
Mutate19 == Mutate18
Mutate20 == Mutate19
Mutate21 == Mutate20
Mutate22 == Mutate21
Mutate23 == Mutate22
Mutate24 == Mutate23
Mutate25 == Mutate24
Mutate26 == Mutate25

Mutate == Before(8, [always |-> {}, created |-> {}, logs |-> FALSE]) \o
    <<Mutate9, Mutate10, Mutate11, Mutate12, Mutate13, Mutate14, Mutate15,
      Mutate16, Mutate17, Mutate18, Mutate19, Mutate20, Mutate21,
      Mutate22, Mutate23, Mutate24, Mutate25, Mutate26>>

=============================================================================
