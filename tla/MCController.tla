---------------------------- MODULE MCController ----------------------------
(* Controller on small instances; each cfg picks what may go wrong.         *)
EXTENDS ControllerInvariant

\* The cluster is calm but for users: two edits, everything else works.
UsersOnly == {[edit |-> 2, meddle |-> 0, fault |-> 0, crash |-> 0]}

\* One edit, one meddler, one failing call, one crash, in any order.
OneOfEach == {[edit |-> 1, meddle |-> 1, fault |-> 1, crash |-> 1]}

\* Others meddle twice: a foreign child may appear and go again.
TwoMeddlers == {[edit |-> 0, meddle |-> 2, fault |-> 0, crash |-> 0]}

\* A failing call and a crash around an edit or around a meddler, or these two
\* around each other; and Websites deleted and created again in each of them.
TwoOrThreeOfThem == {[edit |-> 1, meddle |-> 0, fault |-> 1, crash |-> 1],
                     [edit |-> 0, meddle |-> 1, fault |-> 1, crash |-> 1],
                     [edit |-> 1, meddle |-> 1, fault |-> 0, crash |-> 0]}
=============================================================================
