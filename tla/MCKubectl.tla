------------------------------ MODULE MCKubectl ------------------------------
(***************************************************************************)
(* The parts of the kubectl program in one run: a behaviour takes the steps *)
(* of the command line or of a get, while the other stays where it began.   *)
(***************************************************************************)
EXTENDS GetWatch

CONSTANTS Valued, Counts, Numerals, Switches, Unknown, Plain, Dashes, MostWords

VARIABLES part, line, argv, options, positional, outcome

CommandLine == INSTANCE Arguments WITH Unset <- None

MCObjects == {<<1, 1>>, <<1, 2>>, <<2, 1>>}

AnyRequest == CHOOSE r \in Requests : TRUE

ASSUME KubectlAssumption == CommandLine!ArgumentsAssumption

argumentVars == <<line, argv, options, positional, outcome>>

KubectlInit ==
    \/ /\ part = "get" /\ line = <<>>
       /\ Init /\ CommandLine!Init
    \/ /\ part = "arguments" /\ objects = [key \in Objects |-> None] /\ request = AnyRequest
       /\ Init /\ CommandLine!Init

KubectlNext ==
    /\ UNCHANGED part
    /\ \/ part = "get" /\ Next /\ UNCHANGED argumentVars
       \/ part = "arguments" /\ CommandLine!Next /\ UNCHANGED vars

KubectlSpec == KubectlInit /\ [][KubectlNext]_<<part, vars, argumentVars>>

\* parseInterspersed: flags mean the same before, after and between the arguments.
FlagsAnywhere == CommandLine!FlagsAnywhere
===============================================================================
