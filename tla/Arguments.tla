------------------------------ MODULE Arguments ------------------------------
(***************************************************************************)
(* How the kubectl program reads its command line.  parseInterspersed gives *)
(* the words to the flag package, which stops at the first that is not a    *)
(* flag, or past a "--"; it takes that word as an argument and gives the    *)
(* rest to the flag package again.  exec runs what follows the first "--".  *)
(*                                                                          *)
(* A word is a flag that takes a value, a switch, a flag nobody declared,   *)
(* "--", or a plain word; a value may be any word.                          *)
(***************************************************************************)
EXTENDS Integers, Sequences, FiniteSets, SequencesExt

CONSTANTS Valued,     \* flags that take the next word as their value
          Counts,     \* those of them that want a number: replicas
          Numerals,   \* the words that are one
          Switches,   \* flags that do not
          Unknown,    \* words that look like a flag and are none
          Plain,      \* all other words
          Dashes,     \* the word "--"
          Unset,      \* a flag that was not given
          MostWords   \* the length of a command line

Flags == Valued \cup Switches
Words == Flags \cup Unknown \cup Plain \cup {Dashes}

ArgumentsAssumption ==
    /\ MostWords \in Nat /\ Dashes \notin Flags \cup Unknown \cup Plain
    /\ Flags \cap Unknown = {} /\ Flags \cap Plain = {} /\ Unknown \cap Plain = {}
    /\ Valued \cap Switches = {} /\ Counts \subseteq Valued /\ Unset \notin Words \cup {TRUE}

VARIABLES line,       \* os.Args[1:]
          argv,       \* what parseInterspersed has left of it
          options,    \* the values of the flags
          positional, \* the arguments, in their order
          outcome     \* "parsing", "parsed" or "refused"

vars == <<line, argv, options, positional, outcome>>

TypeOK ==
    /\ line \in Seq(Words) /\ argv \in Seq(Words) /\ positional \in Seq(Words)
    /\ options \in [Flags -> Words \cup {Unset, TRUE}]
    /\ outcome \in {"parsing", "parsed", "refused"}

Init ==
    /\ line \in UNION {[1..n -> Words] : n \in 0..MostWords}
    /\ argv = line /\ positional = <<>>
    /\ options = [f \in Flags |-> Unset] /\ outcome = "parsing"

\* What stands where a flag may stand and is none, lacks its value, or has no number
\* where one is wanted.
Unreadable(words, i) ==
    \/ words[i] \in Unknown
    \/ words[i] \in Valued /\ i = Len(words)
    \/ words[i] \in Counts /\ i < Len(words) /\ words[i + 1] \notin Numerals

\* flag.Parse, one flag of a run.  A switch is set by being there.
TakeSwitch ==
    /\ argv # <<>> /\ Head(argv) \in Switches
    /\ options' = [options EXCEPT ![Head(argv)] = TRUE]
    /\ argv' = Tail(argv)
    /\ UNCHANGED <<line, positional, outcome>>

\* The word after the flag is its value, whatever it looks like.
TakeValue ==
    /\ Len(argv) >= 2 /\ Head(argv) \in Valued /\ ~Unreadable(argv, 1)
    /\ options' = [options EXCEPT ![Head(argv)] = argv[2]]
    /\ argv' = Tail(Tail(argv))
    /\ UNCHANGED <<line, positional, outcome>>

\* The flag package returns an error, and main ends with exit 1.
Refuse ==
    /\ argv # <<>> /\ Unreadable(argv, 1)
    /\ outcome' = "refused"
    /\ UNCHANGED <<line, argv, options, positional>>

\* A slip: the flag package is asked once.
EndRunOnce ==
    /\ argv # <<>> => Head(argv) \notin Flags \cup Unknown
    /\ positional' = positional \o argv /\ argv' = <<>> /\ outcome' = "parsed"
    /\ UNCHANGED <<line, options>>

\* The run of flags ends: parseInterspersed takes one argument and starts the
\* next run behind it.  A "--" that ends a run is gone with it.
EndRun ==
    LET args == IF argv # <<>> /\ Head(argv) = Dashes THEN Tail(argv) ELSE argv
    IN /\ argv # <<>> => Head(argv) \notin Flags \cup Unknown
       /\ IF args = <<>>
          THEN outcome' = "parsed" /\ UNCHANGED <<argv, positional>>
          ELSE /\ positional' = Append(positional, Head(args))
               /\ argv' = Tail(args)
               /\ UNCHANGED outcome
       /\ UNCHANGED <<line, options>>

parseInterspersed == outcome = "parsing" /\ (TakeSwitch \/ TakeValue \/ Refuse \/ EndRun)

\* What exec is given: everything behind the first "--" of os.Args.
afterDoubleDash ==
    IF Contains(line, Dashes)
    THEN SubSeq(line, SelectInSeq(line, LAMBDA w : w = Dashes) + 1, Len(line)) ELSE <<>>

Next == parseInterspersed

Spec == Init /\ [][Next]_vars /\ WF_vars(Next)

-------------------------------------------------------------------------------
(* The properties. *)

\* Which words of a line are read as flags: those that look like one and are
\* not the value of one.
ReadAsFlag(words) ==
    LET f[i \in 1..Len(words)] ==
          /\ words[i] \in Flags \cup Unknown
          /\ i > 1 => ~(f[i - 1] /\ words[i - 1] \in Valued)
    IN f

IsValue(words, i) == i > 1 /\ ReadAsFlag(words)[i - 1] /\ words[i - 1] \in Valued

\* What the words mean, wherever the flags stand among them: nothing where one that
\* is read as a flag is unreadable, or else the last value given to each flag and the
\* words that are neither.
Refusable(words) == \E i \in 1..Len(words) : ReadAsFlag(words)[i] /\ Unreadable(words, i)
Given(words, flag) == {i \in 1..Len(words) : ReadAsFlag(words)[i] /\ words[i] = flag}
LastOf(S) == CHOOSE i \in S : \A j \in S : j <= i
ValueOf(words, flag) ==
    IF Given(words, flag) = {} THEN Unset
    ELSE IF flag \in Switches THEN TRUE
    ELSE words[LastOf(Given(words, flag)) + 1]
Others(words) ==
    {i \in 1..Len(words) : ~ReadAsFlag(words)[i] /\ ~IsValue(words, i)}

\* parseInterspersed allows flags before, after and between the arguments: a line
\* that has no "--" is read as if its flags came first, and every line is read to
\* its end.
FlagsAnywhere ==
    /\ outcome # "parsing" /\ ~Contains(line, Dashes) =>
         /\ outcome = "refused" <=> Refusable(line)
         /\ outcome = "parsed" =>
              /\ \A flag \in Flags : options[flag] = ValueOf(line, flag)
              /\ Len(positional) = Cardinality(Others(line))
              /\ \A i \in Others(line) :
                   positional[Cardinality({j \in Others(line) : j <= i})] = line[i]

\* The words behind a "--" that is not a flag's value.
Cut(words) ==
    LET ends == {i \in 1..Len(words) : words[i] = Dashes /\ ~IsValue(words, i)}
    IN IF ends = {} THEN words
       ELSE SubSeq(words, 1, (CHOOSE i \in ends : \A j \in ends : i <= j) - 1)

\* afterDoubleDash: "a command meant for somewhere else is kept away from this
\* program's flag parser".  No word behind the "--" sets a flag or is refused.
CommandKeptAway ==
  afterDoubleDash # <<>> =>
    /\ outcome = "parsed" => \A flag \in Flags : options[flag] = ValueOf(Cut(line), flag)
    /\ outcome = "refused" => Refusable(Cut(line))
===============================================================================
