---------------------------- MODULE MCLeadership ----------------------------
(* Leadership with two instances; one mishap of each kind.                  *)
EXTENDS Leadership

OneOfEach == [term |-> 1, crash |-> 1, outage |-> 1]
=============================================================================
