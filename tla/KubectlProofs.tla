---------------------------- MODULE KubectlProofs ----------------------------
(***************************************************************************)
(* What a get with -w shows and what a command line means, for any objects, *)
(* any number of changes and command lines of any length.                   *)
(***************************************************************************)
EXTENDS MCKubectl, WellFoundedInduction, SequenceTheorems, FunctionTheorems,
        FiniteSetTheorems, TLAPS

-------------------------------------------------------------------------------
(* Numbers. *)

\* A set of numbers that is not empty has a least one, and CHOOSE finds it.
LEMMA Least ==
    ASSUME NEW S \in SUBSET Nat, S # {}
    PROVE  \E m \in S : /\ \A n \in S : m <= n
                        /\ m = CHOOSE k \in S : \A n \in S : k <= n
<1>1. \E m \in S : \A n \in S : ~(<<n, m>> \in OpToRel(<, Nat))
  BY NatLessThanWellFounded, WFMin
<1>2. PICK m \in S : \A n \in S : ~(<<n, m>> \in OpToRel(<, Nat))
  BY <1>1
<1>3. \A n \in S : ~(n < m)
  BY <1>2 DEF OpToRel
<1>4. \A n \in S : m <= n
  BY <1>3
<1>5. \A k \in S : (\A n \in S : k <= n) => k = m
  BY <1>4
<1> QED BY <1>4, <1>5

\* s has the values of the numbers of S, each once, in the order of the numbers.
Lists(s, S, of) ==
    /\ Len(s) = Cardinality(S)
    /\ \A n \in S : s[Cardinality({k \in S : k <= n})] = of[n]

\* A greater number comes last.
LEMMA ListsOneMore ==
    ASSUME NEW last \in Nat, NEW S \in SUBSET (0..last), NEW E, NEW s \in Seq(E), NEW of,
           Lists(s, S, of), NEW next \in Nat, last < next, of[next] \in E
    PROVE  Lists(Append(s, of[next]), S \cup {next}, of)
<1> DEFINE more == S \cup {next}
           UpTo(T, n) == {k \in T : k <= n}
<1>1. IsFiniteSet(S) /\ Cardinality(S) \in Nat
  <2>1. IsFiniteSet(0..last)
    BY FS_Interval
  <2> QED BY <2>1, FS_Subset, FS_CardinalityType
<1>2. Cardinality(more) = Cardinality(S) + 1
  <2>1. next \notin S
    OBVIOUS
  <2> QED BY <2>1, <1>1, FS_AddElement
<1>3. Len(Append(s, of[next])) = Cardinality(more)
  BY <1>2 DEF Lists
<1>4. ASSUME NEW n \in more
      PROVE  Append(s, of[next])[Cardinality(UpTo(more, n))] = of[n]
  <2>1. CASE n = next
    <3>1. UpTo(more, n) = more
      <4>1. \A k \in more : k <= next
        OBVIOUS
      <4> QED BY <4>1, <2>1
    <3>2. Cardinality(more) = Len(s) + 1
      BY <1>2 DEF Lists
    <3>3. Append(s, of[next])[Len(s) + 1] = of[next]
      BY AppendProperties
    <3> QED BY <3>1, <3>2, <3>3, <2>1
  <2>2. CASE n # next
    <3>1. UpTo(more, n) = UpTo(S, n) /\ n \in UpTo(S, n) /\ n \in S
      BY <2>2, <1>4
    <3>2. IsFiniteSet(UpTo(S, n)) /\ Cardinality(UpTo(S, n)) \in Nat
          /\ Cardinality(UpTo(S, n)) <= Cardinality(S)
      BY <1>1, FS_Subset, FS_CardinalityType
    <3>3. Cardinality(UpTo(S, n)) # 0
      BY <3>1, <3>2, FS_EmptySet
    <3>4. Cardinality(UpTo(S, n)) \in 1..Len(s)
      BY <3>2, <3>3, <1>1 DEF Lists
    <3>5. s[Cardinality(UpTo(S, n))] = of[n]
      BY <3>1 DEF Lists
    <3> HIDE DEF UpTo
    <3> QED BY <3>1, <3>4, <3>5
  <2> QED BY <2>1, <2>2
<1> QED BY <1>3, <1>4 DEF Lists

\* Nothing listed is the empty sequence.
LEMMA ListsNothing ==
    ASSUME NEW of PROVE Lists(<<>>, {}, of)
BY FS_EmptySet DEF Lists

-------------------------------------------------------------------------------
(* The words of a command line. *)

\* Which word is read as a flag can be told from left to right.
LEMMA FlagsAreRead ==
    ASSUME NEW words, Len(words) \in Nat
    PROVE  \A i \in 1..Len(words) :
             CommandLine!ReadAsFlag(words)[i] <=>
               /\ words[i] \in CommandLine!Flags \cup Unknown
               /\ i > 1 => ~(CommandLine!ReadAsFlag(words)[i - 1] /\ words[i - 1] \in Valued)
<1> DEFINE Reads(f, n) == f = [i \in 1..n |->
                                 /\ words[i] \in CommandLine!Flags \cup Unknown
                                 /\ i > 1 => ~(f[i - 1] /\ words[i - 1] \in Valued)]
           Unread == {n \in Nat : ~\E f : Reads(f, n)}
<1>1. Unread = {}
  <2>1. SUFFICES ASSUME Unread # {} PROVE FALSE
    OBVIOUS
  <2>2. PICK m \in Unread : \A n \in Unread : m <= n
    BY <2>1, Least
  <2>3. CASE m = 0
    <3>1. Reads([i \in 1..0 |-> TRUE], 0)
      OBVIOUS
    <3> QED BY <3>1, <2>2, <2>3
  <2>4. CASE m # 0
    <3>1. PICK f : Reads(f, m - 1)
      BY <2>2, <2>4
    <3>2. m \in Nat /\ m - 1 \in Nat /\ f \in [1..(m - 1) -> BOOLEAN]
      BY <2>2, <2>4, <3>1
    <3> DEFINE read == /\ words[m] \in CommandLine!Flags \cup Unknown
                       /\ m > 1 => ~(f[m - 1] /\ words[m - 1] \in Valued)
               g == [i \in 1..m |-> (i = m /\ read) \/ (i # m /\ f[i])]
    <3>3. \A i \in 1..m : g[i] <=> /\ words[i] \in CommandLine!Flags \cup Unknown
                                   /\ i > 1 => ~(g[i - 1] /\ words[i - 1] \in Valued)
      <4> TAKE i \in 1..m
      <4>1. CASE i = m
        <5>1. m > 1 => (g[m - 1] <=> f[m - 1])
          BY <3>2
        <5> QED BY <4>1, <5>1
      <4>2. CASE i # m
        <5>1. i \in 1..(m - 1) /\ (g[i] <=> f[i]) /\ (i > 1 => (g[i - 1] <=> f[i - 1]))
          BY <4>2, <3>2
        <5> QED BY <5>1, <3>1
      <4> QED BY <4>1, <4>2
    <3>4. Reads(g, m)
      BY <3>3
    <3> QED BY <3>4, <2>2
  <2> QED BY <2>3, <2>4
<1>2. \E f : Reads(f, Len(words))
  BY <1>1
<1>3. Reads(CommandLine!ReadAsFlag(words), Len(words))
  BY <1>2 DEF CommandLine!ReadAsFlag
<1> QED BY <1>3

\* How many words have been read.
Past == Len(line) - Len(argv)

\* A word that makes the program refuse its command line.
Wrong(words, i) ==
    CommandLine!ReadAsFlag(words)[i] /\ CommandLine!Unreadable(words, i)

\* The flags and the arguments among the first n words.
GivenBy(words, n, flag) == {i \in 1..n : CommandLine!ReadAsFlag(words)[i] /\ words[i] = flag}
OthersBy(words, n) ==
    {i \in 1..n : ~CommandLine!ReadAsFlag(words)[i] /\ ~CommandLine!IsValue(words, i)}
ValueBy(words, n, flag) ==
    IF GivenBy(words, n, flag) = {} THEN None
    ELSE IF flag \in Switches THEN TRUE
    ELSE words[CommandLine!LastOf(GivenBy(words, n, flag)) + 1]

\* What is left is the end of the line.
RestOfLine ==
    Len(argv) <= Len(line) /\ \A i \in 1..Len(argv) : argv[i] = line[Past + i]

\* In a line without "--", what has been read has been given its meaning, and the
\* next word is not the value of a flag.
ReadSoFar ==
    ~Contains(line, Dashes) =>
      /\ ~CommandLine!IsValue(line, Past + 1)
      /\ outcome = "refused" => CommandLine!Refusable(line)
      /\ outcome = "parsed" => argv = <<>>
      /\ outcome # "refused" => \A i \in 1..Past : ~Wrong(line, i)
      /\ \A flag \in CommandLine!Flags : options[flag] = ValueBy(line, Past, flag)
      /\ Lists(positional, OthersBy(line, Past), line)

ArgumentsInv == CommandLine!TypeOK /\ RestOfLine /\ ReadSoFar

LEMMA ArgumentsInit == CommandLine!Init => ArgumentsInv
<1> SUFFICES ASSUME CommandLine!Init PROVE ArgumentsInv
  OBVIOUS
<1> USE DEF CommandLine!Init
<1>1. line \in Seq(CommandLine!Words) /\ argv = line
  <2>1. PICK n \in 0..MostWords : line \in [1..n -> CommandLine!Words]
    OBVIOUS
  <2>2. n \in Nat
    BY KubectlAssumption DEF CommandLine!ArgumentsAssumption
  <2> QED BY <2>1, <2>2
<1>2. CommandLine!TypeOK
  BY <1>1 DEF CommandLine!TypeOK
<1>3. Past = 0 /\ RestOfLine
  BY <1>1 DEF Past, RestOfLine
<1>4. ~CommandLine!IsValue(line, Past + 1)
  BY <1>3 DEF CommandLine!IsValue
<1>5. OthersBy(line, 0) = {} /\ \A flag : GivenBy(line, 0, flag) = {}
  BY DEF OthersBy, GivenBy
<1>6. \A flag \in CommandLine!Flags : options[flag] = ValueBy(line, 0, flag)
  BY <1>5 DEF ValueBy
<1>7. Lists(positional, OthersBy(line, 0), line)
  BY <1>5, ListsNothing
<1>8. ReadSoFar
  BY <1>3, <1>4, <1>6, <1>7 DEF ReadSoFar
<1> QED BY <1>2, <1>3, <1>8 DEF ArgumentsInv

\* The next word, and what is left behind it.
LEMMA NextWord ==
    ASSUME ArgumentsInv, argv # <<>>
    PROVE  /\ Past \in Nat /\ Past + 1 \in 1..Len(line) /\ Len(line) \in Nat
           /\ Head(argv) = line[Past + 1] /\ line[Past + 1] \in CommandLine!Words
           /\ Len(Tail(argv)) = Len(argv) - 1 /\ Tail(argv) \in Seq(CommandLine!Words)
           /\ Len(line) - Len(Tail(argv)) = Past + 1
           /\ \A i \in 1..Len(Tail(argv)) : Tail(argv)[i] = line[Past + 1 + i]
           /\ ~Contains(line, Dashes) =>
                /\ Head(argv) # Dashes
                /\ CommandLine!ReadAsFlag(line)[Past + 1]
                     <=> Head(argv) \in CommandLine!Flags \cup Unknown
<1> USE DEF ArgumentsInv, RestOfLine, Past
<1>1. line \in Seq(CommandLine!Words) /\ argv \in Seq(CommandLine!Words)
  BY DEF CommandLine!TypeOK
<1>2. /\ Len(argv) \in Nat \ {0} /\ Len(line) \in Nat /\ Head(argv) = argv[1]
      /\ Tail(argv) \in Seq(CommandLine!Words) /\ Len(Tail(argv)) = Len(argv) - 1
      /\ \A i \in 1..Len(Tail(argv)) : Tail(argv)[i] = argv[i + 1]
  BY <1>1
<1>3. Past \in Nat /\ Past + 1 \in 1..Len(line)
  BY <1>2
<1>4. Head(argv) = line[Past + 1]
  BY <1>2
<1>5. line[Past + 1] \in CommandLine!Words
  BY <1>1, <1>3
<1>6. \A i \in 1..Len(Tail(argv)) : Tail(argv)[i] = line[Past + 1 + i]
  <2> TAKE i \in 1..Len(Tail(argv))
  <2>1. i + 1 \in 1..Len(argv) /\ Past + (i + 1) = Past + 1 + i
    BY <1>2, <1>3
  <2>2. argv[i + 1] = line[Past + (i + 1)]
    BY <2>1
  <2> QED BY <1>2, <2>1, <2>2
<1>7. ASSUME ~Contains(line, Dashes)
      PROVE  /\ Head(argv) # Dashes
             /\ CommandLine!ReadAsFlag(line)[Past + 1]
                  <=> Head(argv) \in CommandLine!Flags \cup Unknown
  <2>1. Head(argv) # Dashes
    BY <1>1, <1>3, <1>4, <1>7 DEF Contains
  <2>2. ~CommandLine!IsValue(line, Past + 1)
    BY <1>7 DEF ReadSoFar
  <2>3. CommandLine!ReadAsFlag(line)[Past + 1] <=>
          /\ line[Past + 1] \in CommandLine!Flags \cup Unknown
          /\ Past + 1 > 1 => ~(CommandLine!ReadAsFlag(line)[Past + 1 - 1]
                                 /\ line[Past + 1 - 1] \in Valued)
    BY <1>2, <1>3, FlagsAreRead
  <2> QED BY <1>4, <2>1, <2>2, <2>3 DEF CommandLine!IsValue
<1> HIDE DEF Past
<1> QED BY <1>2, <1>3, <1>4, <1>5, <1>6, <1>7 DEF Past

\* A word more: a flag is given by it, or an argument, or neither.
LEMMA OneWordMore ==
    ASSUME NEW words, NEW n \in Nat, NEW flag
    PROVE  /\ GivenBy(words, n + 1, flag) =
                IF CommandLine!ReadAsFlag(words)[n + 1] /\ words[n + 1] = flag
                THEN GivenBy(words, n, flag) \cup {n + 1} ELSE GivenBy(words, n, flag)
           /\ OthersBy(words, n + 1) =
                IF CommandLine!ReadAsFlag(words)[n + 1] \/ CommandLine!IsValue(words, n + 1)
                THEN OthersBy(words, n) ELSE OthersBy(words, n) \cup {n + 1}
<1>1. 1..(n + 1) = (1..n) \cup {n + 1}
  OBVIOUS
<1> QED BY <1>1 DEF GivenBy, OthersBy

\* The last word given is the one that counts.
LEMMA LastGiven ==
    ASSUME NEW words, NEW n \in Nat, NEW flag
    PROVE  CommandLine!LastOf(GivenBy(words, n, flag) \cup {n + 1}) = n + 1
<1> DEFINE S == GivenBy(words, n, flag) \cup {n + 1}
<1>1. S \subseteq Nat /\ n + 1 \in S /\ \A j \in S : j <= n + 1
  BY DEF GivenBy
<1>2. \A i \in S : (\A j \in S : j <= i) => i = n + 1
  BY <1>1
<1> HIDE DEF S
<1>3. (CHOOSE i \in S : \A j \in S : j <= i) = n + 1
  BY <1>1, <1>2
<1> QED BY <1>3 DEF S, CommandLine!LastOf

LEMMA SwitchRead ==
    ASSUME ArgumentsInv, outcome = "parsing", CommandLine!TakeSwitch
    PROVE  ArgumentsInv'
<1> USE DEF CommandLine!TakeSwitch
<1> DEFINE n == Past
           w == Head(argv)
<1>1. Past' = n + 1 /\ n \in Nat /\ w = line[n + 1] /\ w \in CommandLine!Flags
  BY NextWord DEF Past, CommandLine!Flags
<1>2. CommandLine!TypeOK'
  BY NextWord DEF ArgumentsInv, CommandLine!TypeOK, CommandLine!Flags
<1>3. RestOfLine'
  BY NextWord, <1>1 DEF ArgumentsInv, RestOfLine
<1>4. ASSUME ~Contains(line, Dashes)
      PROVE  /\ ~CommandLine!IsValue(line, n + 1 + 1)
             /\ \A i \in 1..(n + 1) : ~Wrong(line, i)
             /\ \A flag \in CommandLine!Flags : options'[flag] = ValueBy(line, n + 1, flag)
             /\ Lists(positional, OthersBy(line, n + 1), line)
  <2>1. /\ CommandLine!ReadAsFlag(line)[n + 1] /\ w \notin Valued /\ w \notin Unknown
        /\ ~CommandLine!Unreadable(line, n + 1)
    BY NextWord, <1>1, <1>4, KubectlAssumption
    DEF CommandLine!ArgumentsAssumption, CommandLine!Unreadable
  <2>2. ~CommandLine!IsValue(line, n + 1 + 1)
    BY <2>1, <1>1 DEF CommandLine!IsValue
  <2>3. \A i \in 1..(n + 1) : ~Wrong(line, i)
    BY <2>1, <1>1, <1>4 DEF ArgumentsInv, ReadSoFar, Wrong
  <2>4. ASSUME NEW flag \in CommandLine!Flags
        PROVE  options'[flag] = ValueBy(line, n + 1, flag)
    <3>1. options[flag] = ValueBy(line, n, flag)
      BY <1>4 DEF ArgumentsInv, ReadSoFar
    <3>2. CASE flag = w
      <4>1. GivenBy(line, n + 1, flag) # {}
        BY <2>1, <1>1, <3>2, OneWordMore
      <4>2. options'[flag] = TRUE
        BY <3>2, <1>1 DEF ArgumentsInv, CommandLine!TypeOK
      <4> QED BY <4>1, <4>2, <3>2 DEF ValueBy
    <3>3. CASE flag # w
      <4>1. GivenBy(line, n + 1, flag) = GivenBy(line, n, flag)
        BY <1>1, <3>3, OneWordMore
      <4>2. options'[flag] = options[flag]
        BY <3>3, <1>1 DEF ArgumentsInv, CommandLine!TypeOK
      <4> QED BY <4>1, <4>2, <3>1 DEF ValueBy
    <3> QED BY <3>2, <3>3
  <2>5. OthersBy(line, n + 1) = OthersBy(line, n)
    BY <2>1, <1>1, OneWordMore
  <2> QED BY <2>2, <2>3, <2>4, <2>5, <1>4 DEF ArgumentsInv, ReadSoFar
<1>5. ReadSoFar'
  <2> HIDE DEF n
  <2> QED BY <1>1, <1>4 DEF ReadSoFar
<1> QED BY <1>2, <1>3, <1>5 DEF ArgumentsInv

LEMMA ValueRead ==
    ASSUME ArgumentsInv, outcome = "parsing", CommandLine!TakeValue
    PROVE  ArgumentsInv'
<1>7. /\ Len(argv) >= 2 /\ Head(argv) \in Valued
      /\ options' = [options EXCEPT ![Head(argv)] = argv[2]] /\ argv' = Tail(Tail(argv))
      /\ UNCHANGED <<line, positional, outcome>>
  BY DEF CommandLine!TakeValue
<1>8. ~CommandLine!Unreadable(argv, 1)
  BY DEF CommandLine!TakeValue
<1>9. \A k \in Nat : k >= 2 => k - 1 # 0
  OBVIOUS
<1> USE <1>7
<1> DEFINE n == Past
           w == Head(argv)
<1>1. /\ n \in Nat /\ w = line[n + 1] /\ w \in CommandLine!Flags /\ w \in Valued
      /\ argv \in Seq(CommandLine!Words) /\ argv # <<>> /\ n + 1 < Len(line)
      /\ Len(Tail(argv)) = Len(argv) - 1 /\ Tail(argv) # <<>>
      /\ Tail(argv) \in Seq(CommandLine!Words)
  <2>1. argv \in Seq(CommandLine!Words)
    BY DEF ArgumentsInv, CommandLine!TypeOK
  <2>2. argv # <<>>
    <3>1. Len(argv) \in Nat /\ Len(argv) >= 2
      BY <2>1, <1>7
    <3>2. Len(argv) # 0
      BY <3>1
    <3> QED BY <3>2, EmptySeq
  <2>3. Len(argv) \in Nat /\ Len(Tail(argv)) = Len(argv) - 1
    BY <2>1, <2>2, HeadTailProperties
  <2>4. Tail(argv) # <<>>
    <3>1. Len(argv) >= 2
      BY <1>7
    <3>2. Len(Tail(argv)) # 0
      BY <2>3, <3>1, <1>9, Zenon
    <3> QED BY <3>2, EmptySeq
  <2> QED BY <2>1, <2>2, <2>3, <2>4, NextWord DEF Past, CommandLine!Flags
<1>2. /\ Past' = n + 2 /\ argv[2] = line[n + 2] /\ argv[2] \in CommandLine!Words
      /\ argv' \in Seq(CommandLine!Words) /\ Len(argv') <= Len(line)
      /\ \A i \in 1..Len(argv') : argv'[i] = line[n + 2 + i]
  <2> DEFINE rest == Tail(argv)
  <2>1. /\ rest \in Seq(CommandLine!Words) /\ Len(rest) \in Nat \ {0}
        /\ Len(rest) = Len(argv) - 1
        /\ \A i \in 1..Len(rest) : rest[i] = line[n + 1 + i]
    BY <1>1, NextWord
  <2>2. /\ Tail(rest) \in Seq(CommandLine!Words) /\ Len(Tail(rest)) = Len(rest) - 1
        /\ \A i \in 1..Len(Tail(rest)) : Tail(rest)[i] = rest[i + 1]
    <3> HIDE DEF rest
    <3>1. rest # <<>>
      BY <2>1, EmptySeq
    <3> QED BY <2>1, <3>1, HeadTailProperties
  <2>3. argv[2] = rest[1] /\ argv[2] \in CommandLine!Words
    BY <1>1, <2>1
  <2>4. rest[1] = line[n + 1 + 1] /\ n + 1 + 1 = n + 2
    <3>1. 1 \in 1..Len(rest)
      BY <2>1
    <3> HIDE DEF rest
    <3> QED BY <2>1, <1>1, <3>1
  <2>5. \A i \in 1..Len(Tail(rest)) : Tail(rest)[i] = line[n + 2 + i]
    <3> TAKE i \in 1..Len(Tail(rest))
    <3>1. i + 1 \in 1..Len(rest) /\ n + 1 + (i + 1) = n + 2 + i
      BY <2>2, <2>1, <1>1
    <3> QED BY <3>1, <2>1, <2>2
  <2>6. Len(argv) \in Nat /\ Len(line) \in Nat /\ Len(argv) <= Len(line)
    BY <1>1 DEF ArgumentsInv, RestOfLine, CommandLine!TypeOK
  <2>7. line' = line /\ argv' = Tail(rest)
    OBVIOUS
  <2> HIDE DEF rest
  <2>8. Past' = n + 2
    <3>1. Len(Tail(rest)) = Len(argv) - 2
      BY <2>1, <2>2, <2>6
    <3>2. Len(line) - (Len(argv) - 2) = Len(line) - Len(argv) + 2
      BY <2>6
    <3> QED BY <2>7, <3>1, <3>2 DEF Past
  <2>9. argv' \in Seq(CommandLine!Words) /\ Len(argv') <= Len(line)
    <3>1. Len(Tail(rest)) <= Len(line)
      BY <2>1, <2>2, <2>6
    <3> QED BY <2>2, <2>7, <3>1
  <2>10. \A i \in 1..Len(argv') : argv'[i] = line[n + 2 + i]
    BY <2>5, <2>7
  <2> HIDE DEF n
  <2> QED BY <2>3, <2>4, <2>8, <2>9, <2>10
<1>3. CommandLine!TypeOK'
  BY <1>1, <1>2 DEF ArgumentsInv, CommandLine!TypeOK
<1>4. RestOfLine'
  BY <1>2 DEF RestOfLine
<1>5. ASSUME ~Contains(line, Dashes)
      PROVE  /\ ~CommandLine!IsValue(line, n + 2 + 1)
             /\ \A i \in 1..(n + 2) : ~Wrong(line, i)
             /\ \A flag \in CommandLine!Flags : options'[flag] = ValueBy(line, n + 2, flag)
             /\ Lists(positional, OthersBy(line, n + 2), line)
  <2>1. CommandLine!ReadAsFlag(line)[n + 1] /\ w \notin Switches /\ w \notin Unknown
    BY NextWord, <1>1, <1>5, KubectlAssumption DEF CommandLine!ArgumentsAssumption
  <2>8. ~CommandLine!Unreadable(line, n + 1)
    <3>1. argv[1] = line[n + 1] /\ argv[2] = line[n + 1 + 1] /\ 1 < Len(argv)
      BY <1>1, <1>2
    <3> QED BY <3>1, <1>1, <1>8 DEF CommandLine!Unreadable
  <2>2. CommandLine!IsValue(line, n + 2) /\ ~CommandLine!ReadAsFlag(line)[n + 2]
    <3>1. n + 2 \in 1..Len(line) /\ n + 2 > 1 /\ n + 2 - 1 = n + 1 /\ Len(line) \in Nat
      BY <1>1, NextWord
    <3> QED BY <3>1, <2>1, <1>1, FlagsAreRead DEF CommandLine!IsValue
  <2>3. ~CommandLine!IsValue(line, n + 2 + 1)
    BY <2>2, <1>1 DEF CommandLine!IsValue
  <2>4. \A i \in 1..(n + 2) : ~Wrong(line, i)
    BY <2>2, <2>8, <1>1, <1>5 DEF ArgumentsInv, ReadSoFar, Wrong
  <2>5. n + 1 \in Nat /\ n + 1 + 1 = n + 2
    BY <1>1
  <2>6. ASSUME NEW flag \in CommandLine!Flags
        PROVE  options'[flag] = ValueBy(line, n + 2, flag)
    <3>1. options[flag] = ValueBy(line, n, flag)
      BY <1>5 DEF ArgumentsInv, ReadSoFar
    <3>2. GivenBy(line, n + 2, flag) = GivenBy(line, n + 1, flag)
      BY <2>2, <2>5, OneWordMore
    <3>3. CASE flag = w
      <4>1. GivenBy(line, n + 1, flag) = GivenBy(line, n, flag) \cup {n + 1}
        BY <2>1, <1>1, <3>3, OneWordMore
      <4>2. options'[flag] = line[n + 1 + 1]
        BY <3>3, <1>1, <1>2, <2>5 DEF ArgumentsInv, CommandLine!TypeOK
      <4>3. GivenBy(line, n + 2, flag) # {} /\ flag \notin Switches
        BY <4>1, <3>2, <3>3, <2>1
      <4>4. CommandLine!LastOf(GivenBy(line, n + 2, flag)) = n + 1
        BY <4>1, <3>2, <1>1, LastGiven
      <4> HIDE DEF n
      <4> QED BY <4>2, <4>3, <4>4 DEF ValueBy
    <3>4. CASE flag # w
      <4>1. GivenBy(line, n + 1, flag) = GivenBy(line, n, flag)
        BY <1>1, <3>4, OneWordMore
      <4>2. options'[flag] = options[flag]
        BY <3>4, <1>1 DEF ArgumentsInv, CommandLine!TypeOK
      <4> QED BY <4>1, <4>2, <3>1, <3>2 DEF ValueBy
    <3> QED BY <3>3, <3>4
  <2>7. OthersBy(line, n + 2) = OthersBy(line, n)
    BY <2>1, <2>2, <2>5, <1>1, OneWordMore
  <2> QED BY <2>3, <2>4, <2>6, <2>7, <1>5 DEF ArgumentsInv, ReadSoFar
<1>6. ReadSoFar'
  <2> HIDE DEF n
  <2> QED BY <1>2, <1>5 DEF ReadSoFar
<1> QED BY <1>3, <1>4, <1>6 DEF ArgumentsInv

LEMMA LineRefused ==
    ASSUME ArgumentsInv, outcome = "parsing", CommandLine!Refuse
    PROVE  ArgumentsInv'
<1>4. argv # <<>> /\ outcome' = "refused" /\ UNCHANGED <<line, argv, options, positional>>
  BY DEF CommandLine!Refuse
<1>5. CommandLine!Unreadable(argv, 1)
  BY DEF CommandLine!Refuse
<1>1. /\ Past' = Past /\ CommandLine!TypeOK' /\ RestOfLine'
  BY <1>4 DEF ArgumentsInv, Past, CommandLine!TypeOK, RestOfLine
<1>2. ASSUME ~Contains(line, Dashes)
      PROVE  CommandLine!Refusable(line)
  <2>1. /\ argv # <<>> /\ argv[1] = line[Past + 1] /\ Past + 1 \in 1..Len(line)
        /\ Len(argv) \in Nat /\ Len(line) \in Nat /\ Past = Len(line) - Len(argv)
    <3>1. line \in Seq(CommandLine!Words) /\ argv \in Seq(CommandLine!Words)
      BY DEF ArgumentsInv, CommandLine!TypeOK
    <3>2. argv[1] = line[Past + 1] /\ Past + 1 \in 1..Len(line)
      BY <3>1, <1>4, NextWord
    <3> QED BY <3>1, <3>2, <1>4 DEF Past
  <2>2. CommandLine!ReadAsFlag(line)[Past + 1]
    <3>1. Head(argv) \in CommandLine!Flags \cup Unknown
      BY <1>4, <1>5, <2>1, NextWord, KubectlAssumption
      DEF CommandLine!Flags, CommandLine!Unreadable, CommandLine!ArgumentsAssumption
    <3> QED BY <3>1, <1>2, <1>4, NextWord
  <2>3. CommandLine!Unreadable(line, Past + 1)
    <3>1. 1 = Len(argv) => Past + 1 = Len(line)
      BY <2>1, Z3
    <3>2. 1 < Len(argv) => argv[1 + 1] = line[Past + 1 + 1] /\ Past + 1 < Len(line)
      BY <2>1 DEF ArgumentsInv, RestOfLine
    <3> QED BY <2>1, <1>5, <3>1, <3>2 DEF CommandLine!Unreadable
  <2> QED BY <2>1, <2>2, <2>3 DEF CommandLine!Refusable
<1>3. ReadSoFar'
  BY <1>1, <1>2, <1>4 DEF ArgumentsInv, ReadSoFar
<1> QED BY <1>1, <1>3 DEF ArgumentsInv

\* A word that is neither a flag nor the value of one is an argument.
LEMMA ArgumentRead ==
    ASSUME ArgumentsInv, outcome = "parsing", argv # <<>>, Head(argv) # Dashes,
           CommandLine!EndRun
    PROVE  ArgumentsInv'
<1> DEFINE n == Past
           w == Head(argv)
<1>1. /\ w \notin CommandLine!Flags \cup Unknown
      /\ positional' = Append(positional, w) /\ argv' = Tail(argv)
      /\ UNCHANGED <<line, options, outcome>>
  BY DEF CommandLine!EndRun
<1>2. Past' = n + 1 /\ n \in Nat /\ w = line[n + 1] /\ w \in CommandLine!Words
  BY <1>1, NextWord DEF Past
<1>3. CommandLine!TypeOK'
  <2>1. positional \in Seq(CommandLine!Words) /\ CommandLine!TypeOK
    BY DEF ArgumentsInv, CommandLine!TypeOK
  <2>2. positional' \in Seq(CommandLine!Words)
    BY <1>1, <1>2, <2>1, AppendProperties
  <2>3. argv' \in Seq(CommandLine!Words)
    BY <1>1, NextWord
  <2> QED BY <1>1, <2>1, <2>2, <2>3 DEF CommandLine!TypeOK
<1>4. RestOfLine'
  BY NextWord, <1>1, <1>2 DEF ArgumentsInv, RestOfLine
<1>5. ASSUME ~Contains(line, Dashes)
      PROVE  /\ ~CommandLine!IsValue(line, n + 1 + 1)
             /\ \A i \in 1..(n + 1) : ~Wrong(line, i)
             /\ \A flag \in CommandLine!Flags : options[flag] = ValueBy(line, n + 1, flag)
             /\ Lists(positional', OthersBy(line, n + 1), line)
  <2>1. ~CommandLine!ReadAsFlag(line)[n + 1]
    BY NextWord, <1>1, <1>5
  <2>2. ~CommandLine!IsValue(line, n + 1) /\ ~CommandLine!IsValue(line, n + 1 + 1)
    BY <2>1, <1>2, <1>5 DEF ArgumentsInv, ReadSoFar, CommandLine!IsValue
  <2>3. \A i \in 1..(n + 1) : ~Wrong(line, i)
    BY <2>1, <1>2, <1>5 DEF ArgumentsInv, ReadSoFar, Wrong
  <2>4. \A flag \in CommandLine!Flags : options[flag] = ValueBy(line, n + 1, flag)
    <3> TAKE flag \in CommandLine!Flags
    <3>1. GivenBy(line, n + 1, flag) = GivenBy(line, n, flag)
      BY <2>1, <1>2, OneWordMore
    <3> QED BY <3>1, <1>5 DEF ArgumentsInv, ReadSoFar, ValueBy
  <2>5. OthersBy(line, n + 1) = OthersBy(line, n) \cup {n + 1}
    BY <2>1, <2>2, <1>2, OneWordMore
  <2>6. Lists(positional, OthersBy(line, n), line) /\ positional \in Seq(CommandLine!Words)
    BY <1>5 DEF ArgumentsInv, ReadSoFar, CommandLine!TypeOK
  <2>7. OthersBy(line, n) \in SUBSET (0..n)
    BY <1>2 DEF OthersBy
  <2>8. Lists(positional', OthersBy(line, n + 1), line)
    <3> HIDE DEF n
    <3>1. n + 1 \in Nat /\ n < n + 1
      BY <1>2
    <3>2. Lists(Append(positional, line[n + 1]), OthersBy(line, n) \cup {n + 1}, line)
      BY <3>1, <2>6, <2>7, <1>2, ListsOneMore
    <3> QED BY <3>2, <2>5, <1>1, <1>2
  <2> QED BY <2>2, <2>3, <2>4, <2>8
<1>6. ReadSoFar'
  <2> HIDE DEF n
  <2> QED BY <1>1, <1>2, <1>5 DEF ReadSoFar
<1> QED BY <1>3, <1>4, <1>6 DEF ArgumentsInv

\* A "--" is dropped with the word behind it taken; the line has one, then.
LEMMA DashesRead ==
    ASSUME ArgumentsInv, outcome = "parsing", argv # <<>>, Head(argv) = Dashes,
           CommandLine!EndRun
    PROVE  ArgumentsInv'
<1> DEFINE rest == Tail(argv)
<1>1. /\ Len(rest) \in Nat /\ rest \in Seq(CommandLine!Words) /\ Len(rest) = Len(argv) - 1
      /\ \A i \in 1..Len(rest) : rest[i] = line[Past + 1 + i]
      /\ line \in Seq(CommandLine!Words) /\ Past + 1 \in 1..Len(line) /\ Past \in Nat
      /\ line[Past + 1] = Dashes /\ Len(line) \in Nat /\ Len(argv) \in Nat
  <2>1. line \in Seq(CommandLine!Words) /\ argv \in Seq(CommandLine!Words)
    BY DEF ArgumentsInv, CommandLine!TypeOK
  <2>2. Len(argv) \in Nat /\ Len(rest) = Len(argv) - 1
    BY <2>1, NextWord
  <2> QED BY <2>1, <2>2, NextWord, LenProperties
<1>2. Contains(line, Dashes)
  BY <1>1 DEF Contains
<1>3. CASE rest = <<>>
  <2>1. UNCHANGED <<line, argv, options, positional>> /\ outcome' = "parsed"
    BY <1>3 DEF CommandLine!EndRun
  <2> QED BY <2>1, <1>2 DEF ArgumentsInv, CommandLine!TypeOK, RestOfLine, ReadSoFar, Past
<1>4. CASE rest # <<>>
  <2>1. /\ positional' = Append(positional, Head(rest)) /\ argv' = Tail(rest)
        /\ UNCHANGED <<line, options, outcome>>
    BY <1>4 DEF CommandLine!EndRun
  <2> HIDE DEF rest
  <2>2. /\ Head(rest) \in CommandLine!Words /\ Tail(rest) \in Seq(CommandLine!Words)
        /\ Len(Tail(rest)) = Len(rest) - 1
        /\ \A i \in 1..Len(Tail(rest)) : Tail(rest)[i] = rest[i + 1]
    BY <1>1, <1>4, HeadTailProperties
  <2>3. CommandLine!TypeOK'
    <3>1. positional \in Seq(CommandLine!Words) /\ CommandLine!TypeOK
      BY DEF ArgumentsInv, CommandLine!TypeOK
    <3>2. positional' \in Seq(CommandLine!Words)
      BY <2>1, <2>2, <3>1, AppendProperties
    <3> QED BY <2>1, <2>2, <3>1, <3>2 DEF CommandLine!TypeOK
  <2>4. Past' = Past + 2 /\ Len(argv') <= Len(line')
    <3>1. Len(Tail(rest)) = Len(argv) - 2
      BY <1>1, <2>2
    <3>2. Len(line) - (Len(argv) - 2) = Len(line) - Len(argv) + 2 /\ Len(argv) - 2 <= Len(line)
      BY <1>1 DEF Past
    <3> QED BY <2>1, <3>1, <3>2 DEF Past
  <2>5. \A i \in 1..Len(argv') : argv'[i] = line'[Past + 2 + i]
    <3> SUFFICES ASSUME NEW i \in 1..Len(Tail(rest)) PROVE Tail(rest)[i] = line[Past + 2 + i]
      BY <2>1
    <3>1. i + 1 \in 1..Len(rest) /\ Past + 1 + (i + 1) = Past + 2 + i
      BY <1>1, <2>2
    <3> QED BY <3>1, <1>1, <2>2
  <2> QED BY <2>1, <2>3, <2>4, <2>5, <1>2 DEF ArgumentsInv, RestOfLine, ReadSoFar
<1> QED BY <1>3, <1>4

LEMMA ArgumentsStep ==
    ASSUME ArgumentsInv, CommandLine!Next PROVE ArgumentsInv'
<1>1. outcome = "parsing"
  BY DEF CommandLine!Next, CommandLine!parseInterspersed
<1>2. CASE CommandLine!EndRun
  <2>1. CASE argv = <<>>
    <3>1. UNCHANGED <<line, argv, options, positional>> /\ outcome' = "parsed"
      BY <1>2, <2>1 DEF CommandLine!EndRun
    <3> QED BY <3>1, <2>1, <1>1
         DEF ArgumentsInv, CommandLine!TypeOK, RestOfLine, ReadSoFar, Past
  <2> QED BY <1>1, <1>2, <2>1, ArgumentRead, DashesRead
<1> QED BY <1>1, <1>2, SwitchRead, ValueRead, LineRefused
     DEF CommandLine!Next, CommandLine!parseInterspersed

\* The instance counts as this module does.
LEMMA SameCount == \A S : CommandLine!Cardinality(S) = Cardinality(S)
BY DEF CommandLine!Cardinality, Cardinality

LEMMA ArgumentsMeaning == ArgumentsInv => FlagsAnywhere
<1> SUFFICES ASSUME ArgumentsInv, outcome # "parsing", ~Contains(line, Dashes)
             PROVE  /\ outcome = "refused" <=> CommandLine!Refusable(line)
                    /\ outcome = "parsed" =>
                         /\ \A flag \in CommandLine!Flags :
                               options[flag] = CommandLine!ValueOf(line, flag)
                         /\ Lists(positional, CommandLine!Others(line), line)
  BY SameCount DEF FlagsAnywhere, CommandLine!FlagsAnywhere, CommandLine!Contains, Contains, Lists
<1>1. outcome \in {"parsed", "refused"} /\ Len(line) \in Nat
  BY DEF ArgumentsInv, CommandLine!TypeOK
<1>2. ASSUME outcome = "parsed" PROVE Past = Len(line)
  BY <1>1, <1>2, EmptySeq DEF ArgumentsInv, ReadSoFar, Past
<1>3. outcome = "refused" <=> CommandLine!Refusable(line)
  <2>1. CommandLine!Refusable(line) <=> \E i \in 1..Len(line) : Wrong(line, i)
    BY DEF CommandLine!Refusable, Wrong
  <2>2. outcome = "parsed" => ~CommandLine!Refusable(line)
    BY <2>1, <1>2 DEF ArgumentsInv, ReadSoFar
  <2> QED BY <2>2, <1>1 DEF ArgumentsInv, ReadSoFar
<1>4. \A flag : CommandLine!ValueOf(line, flag) = ValueBy(line, Len(line), flag)
  BY DEF CommandLine!ValueOf, ValueBy, CommandLine!Given, GivenBy
<1>5. CommandLine!Others(line) = OthersBy(line, Len(line))
  BY DEF CommandLine!Others, OthersBy
<1> QED BY <1>1, <1>2, <1>3, <1>4, <1>5 DEF ArgumentsInv, ReadSoFar

\* parseInterspersed, for any flags and a command line of any length: a line that
\* has no "--" is refused exactly when a word of it cannot be read, and what it
\* means does not depend on where its flags stand.
THEOREM FlagsMeanTheSame == KubectlSpec => []FlagsAnywhere
<1>1. KubectlInit => ArgumentsInv
  BY ArgumentsInit DEF KubectlInit
<1>2. ArgumentsInv /\ [KubectlNext]_<<part, vars, argumentVars>> => ArgumentsInv'
  <2> SUFFICES ASSUME ArgumentsInv, [KubectlNext]_<<part, vars, argumentVars>>
               PROVE  ArgumentsInv'
    OBVIOUS
  <2>1. CASE UNCHANGED argumentVars
    BY <2>1 DEF argumentVars, ArgumentsInv, CommandLine!TypeOK, RestOfLine, ReadSoFar, Past
  <2> QED BY <2>1, ArgumentsStep DEF KubectlNext
<1> QED BY <1>1, <1>2, ArgumentsMeaning, PTL DEF KubectlSpec

-------------------------------------------------------------------------------
(* Lists of objects. *)

LEMMA BeforeOrders ==
    /\ \A a \in Nat \X Nat : ~Before(a, a)
    /\ \A a, b \in Nat \X Nat : a = b \/ Before(a, b) \/ Before(b, a)
    /\ \A a, b, c \in Nat \X Nat : Before(a, b) /\ Before(b, c) => Before(a, c)
BY DEF Before

\* A list without repetitions has every object of its set.
LEMMA EachOnce ==
    ASSUME NEW S, IsFiniteSet(S), NEW s \in SetToSeqs(S)
    PROVE  s \in Seq(S) /\ Len(s) = Cardinality(S) /\ ToSet(s) = S
<1> DEFINE D == 1..Cardinality(S)
<1>1. Cardinality(S) \in Nat
  BY FS_CardinalityType
<1>2. s \in [D -> S] /\ \A i, j \in D : i # j => s[i] # s[j]
  BY DEF SetToSeqs
<1>3. s \in Seq(S) /\ Len(s) = Cardinality(S)
  BY <1>1, <1>2
<1>4. IsFiniteSet(D) /\ Cardinality(D) = Cardinality(S)
  BY <1>1, FS_Interval
<1>5. s \in Injection(D, S)
  BY <1>2, Fun_IsInj
<1>6. s \in Surjection(D, S)
  BY <1>4, <1>5, FS_Injection
<1>7. \A x \in S : \E i \in D : s[i] = x
  BY <1>6 DEF Surjection
<1>8. ToSet(s) = S
  <2>1. DOMAIN s = D /\ \A i \in D : s[i] \in S
    BY <1>2
  <2> QED BY <2>1, <1>7 DEF ToSet
<1> QED BY <1>3, <1>8

\* Objects can be sorted: the place of one is the number of those before it.
LEMMA CanBeSorted ==
    ASSUME NEW S \in SUBSET (Nat \X Nat), IsFiniteSet(S)
    PROVE  \E s \in SetToSeqs(S) : Ordered(s)
<1> DEFINE Below(x) == {y \in S : Before(y, x)}
           D == 1..Cardinality(S)
           place == [x \in S |-> Cardinality(Below(x)) + 1]
           s == [i \in D |-> CHOOSE x \in S : place[x] = i]
<1>1. Cardinality(S) \in Nat /\ IsFiniteSet(D) /\ Cardinality(D) = Cardinality(S)
  BY FS_CardinalityType, FS_Interval
<1>2. \A x \in S : /\ IsFiniteSet(Below(x)) /\ Cardinality(Below(x)) \in Nat
                   /\ Cardinality(Below(x)) <= Cardinality(S)
                   /\ Below(x) # S => Cardinality(Below(x)) # Cardinality(S)
  BY FS_Subset, FS_CardinalityType
<1>3. \A x \in S : Below(x) # S
  BY BeforeOrders
<1>4. place \in [S -> D]
  <2> SUFFICES ASSUME NEW x \in S PROVE Cardinality(Below(x)) + 1 \in D
    OBVIOUS
  <2> HIDE DEF Below
  <2> QED BY <1>1, <1>2, <1>3
<1>5. ASSUME NEW x \in S, NEW y \in S, Before(x, y)
      PROVE  place[x] < place[y]
  <2>1. Below(x) \in SUBSET Below(y) /\ Below(x) # Below(y)
    <3>1. x \in Below(y) /\ x \notin Below(x)
      BY <1>5, BeforeOrders
    <3>2. \A z \in Below(x) : z \in Below(y)
      <4> TAKE z \in Below(x)
      <4>1. z \in Nat \X Nat /\ x \in Nat \X Nat /\ y \in Nat \X Nat /\ Before(z, x) /\ z \in S
        OBVIOUS
      <4> QED BY <4>1, <1>5, BeforeOrders
    <3> HIDE DEF Below
    <3> QED BY <3>1, <3>2
  <2>2. place[x] = Cardinality(Below(x)) + 1 /\ place[y] = Cardinality(Below(y)) + 1
    OBVIOUS
  <2> HIDE DEF Below, place
  <2>3. IsFiniteSet(Below(y)) /\ Cardinality(Below(x)) \in Nat /\ Cardinality(Below(y)) \in Nat
    BY <1>2
  <2>4. Cardinality(Below(x)) <= Cardinality(Below(y))
        /\ Cardinality(Below(x)) # Cardinality(Below(y))
    BY <2>1, <2>3, FS_Subset
  <2> QED BY <2>2, <2>3, <2>4
<1> HIDE DEF place
<1>6. \A x, y \in S : place[x] = place[y] => x = y
  <2> SUFFICES ASSUME NEW x \in S, NEW y \in S, x # y PROVE place[x] # place[y]
    OBVIOUS
  <2>1. place[x] \in Nat /\ place[y] \in Nat
    BY <1>4
  <2>2. Before(x, y) \/ Before(y, x)
    BY BeforeOrders
  <2> QED BY <2>1, <2>2, <1>5
<1>7. place \in Injection(S, D)
  BY <1>4, <1>6, Fun_IsInj
<1>8. place \in Surjection(S, D)
  BY <1>1, <1>7, FS_Injection
<1>9. \A i \in D : \E x \in S : place[x] = i
  BY <1>8, Fun_SurjectionProperties
<1>10. \A i \in D : s[i] \in S /\ place[s[i]] = i
  BY <1>9
<1>11. s \in [D -> S] /\ DOMAIN s = D
  BY <1>10
<1> HIDE DEF s
<1>12. s \in SetToSeqs(S)
  BY <1>10, <1>11 DEF SetToSeqs
<1>13. Ordered(s)
  <2> SUFFICES ASSUME NEW i \in D, NEW j \in D, i < j PROVE Before(s[i], s[j])
    BY <1>11 DEF Ordered
  <2>1. s[i] # s[j] /\ ~Before(s[j], s[i])
    BY <1>5, <1>10
  <2> QED BY <2>1, <1>10, BeforeOrders
<1> QED BY <1>12, <1>13

LEMMA SortedLists ==
    ASSUME NEW keys, ToSet(keys) \in SUBSET (Nat \X Nat), IsFiniteSet(ToSet(keys))
    PROVE  Sorted(keys) \in SetToSeqs(ToSet(keys)) /\ Ordered(Sorted(keys))
BY CanBeSorted DEF Sorted

-------------------------------------------------------------------------------
(* A get and its watch. *)

\* The changes the stream has told of.
Told == {r \in (since + 1)..seen : Tells(history[r])}
Keys == [r \in Nat |-> history[r].key]

\* The list is what was selected at its version, the table is the list in order,
\* and the stream has each change since that concerns the request.
GetInv ==
    /\ TypeOK
    /\ list \in SetToSeqs(ToSet(list))
    /\ pc \in {"fetch", "show", "watch"} => stream = <<>> /\ seen = 0
    /\ request.name = None => pending = {}
    /\ request.name = None /\ pc \in {"show", "watch", "stream", "done"} =>
         /\ since \in 0..Revision
         /\ list \in SetToSeqs(Selected(since))
         /\ pc = "stream" => since <= seen
         /\ pc # "show" /\ request.output = "table" =>
              table \in SetToSeqs(Selected(since)) /\ Ordered(table)
         /\ Lists(stream, Told, Keys)

LEMMA ObjectsOfSets ==
    ASSUME NEW S \in SUBSET Objects
    PROVE  IsFiniteSet(S) /\ S \in SUBSET (Nat \X Nat)
BY GetWatchAssumption, FS_Subset

\* What an object was at a revision does not change with what comes later.
LEMMA PastStays ==
    ASSUME TypeOK, NEW key \in Objects, Change(key),
           NEW other \in Objects, NEW revision \in 0..Revision
    PROVE  At(other, revision)' = At(other, revision)
<1> DEFINE Later == {r \in (revision + 1)..Revision : history[r].key = other}
           first == CHOOSE r \in Later : \A s \in Later : r <= s
<1>1. PICK now \in Kinds :
         /\ history' = Append(history, [key |-> key, was |-> objects[key], now |-> now])
         /\ objects' = [objects EXCEPT ![key] = now]
  BY DEF Change
<1> DEFINE change == [key |-> key, was |-> objects[key], now |-> now]
<1>2. /\ Revision \in Nat /\ Revision' = Revision + 1 /\ history'[Revision + 1] = change
      /\ \A r \in 1..Revision : history'[r] = history[r]
  <2> DEFINE Changes == [key : Objects, was : Kinds, now : Kinds]
  <2>1. history \in Seq(Changes) /\ change \in Changes /\ history' = Append(history, change)
    BY <1>1 DEF TypeOK
  <2> HIDE DEF change, Changes
  <2>2. Len(history) \in Nat /\ Len(history') = Len(history) + 1
        /\ history'[Len(history) + 1] = change
        /\ \A r \in 1..Len(history) : history'[r] = history[r]
    BY <2>1, AppendProperties, LenProperties
  <2> QED BY <2>2 DEF Revision
<1>3. Later' = IF key = other THEN Later \cup {Revision + 1} ELSE Later
  <2> HIDE DEF change
  <2>1. history'[Revision + 1].key = key
    BY <1>2 DEF change
  <2>2. (revision + 1)..Revision' = ((revision + 1)..Revision) \cup {Revision + 1}
    BY <1>2
  <2>3. \A r \in (revision + 1)..Revision : history'[r] = history[r]
    BY <1>2
  <2> HIDE DEF Revision
  <2> QED BY <2>1, <2>2, <2>3
<1>4. Later \subseteq Nat /\ \A r \in Later : r <= Revision
  BY <1>2
<1>5. CASE Later = {}
  <2>1. CASE key = other
    <3>1. Later' = {Revision + 1}
      BY <1>3, <1>5, <2>1
    <3>2. At(other, revision)' = history'[Revision + 1].was
      <4> HIDE DEF Later
      <4>1. (CHOOSE r \in Later' : \A s \in Later' : r <= s) = Revision + 1
        BY <3>1, <1>2
      <4> QED BY <3>1, <4>1 DEF At, Later
    <3> QED BY <3>2, <1>2, <1>5, <2>1 DEF At
  <2>2. CASE key # other
    <3>1. objects'[other] = objects[other]
      BY <1>1, <2>2 DEF TypeOK
    <3>2. Later' = {}
      BY <1>3, <1>5, <2>2
    <3> QED BY <3>1, <3>2, <1>5 DEF At
  <2> QED BY <2>1, <2>2
<1>6. CASE Later # {}
  <2> HIDE DEF Later
  <2>1. PICK m \in Later : \A n \in Later : m <= n
    BY <1>4, <1>6, Least
  <2>2. Later' # {} /\ \A r \in Later' : (\A s \in Later' : r <= s) <=> r = m
    BY <1>2, <1>3, <1>4, <2>1
  <2>3. m \in Later' /\ first = m /\ first' = m
    <3>1. \A r \in Later : (\A s \in Later : r <= s) <=> r = m
      BY <1>4, <2>1
    <3>2. m \in Later'
      BY <1>3
    <3> QED BY <3>1, <3>2, <2>2
  <2>4. history'[m] = history[m]
    BY <1>2, <2>1 DEF Later
  <2>5. At(other, revision) = history[m].was
    BY <1>6, <2>3 DEF At, Later
  <2>6. At(other, revision)' = history'[m].was
    BY <2>2, <2>3 DEF At, Later
  <2> QED BY <2>4, <2>5, <2>6
<1> QED BY <1>5, <1>6

LEMMA SelectedSince ==
    ASSUME NEW revision PROVE since' = revision => Selected(since)' = Selected(revision)'
BY DEF Selected, At, InScope, Matches, Revision

LEMMA SelectedStays ==
    ASSUME TypeOK, NEW key \in Objects, Change(key), NEW revision \in 0..Revision
    PROVE  Selected(revision)' = Selected(revision)
<1>1. \A other \in Objects : At(other, revision)' = At(other, revision)
  BY PastStays
<1>2. request' = request
  BY DEF Change
<1> QED BY <1>1, <1>2 DEF Selected, InScope, Matches

\* While nobody changes the objects, what is selected stays.
LEMMA SelectedUntouched ==
    ASSUME UNCHANGED <<objects, history, request>>, NEW revision
    PROVE  Selected(revision)' = Selected(revision)
BY DEF Selected, At, InScope, Matches, Revision

LEMMA ToldUntouched ==
    ASSUME UNCHANGED <<history, request, since, seen>>
    PROVE  Told' = Told /\ Keys' = Keys
BY DEF Told, Keys, Tells, InScope, Matches

\* What is there now is what is selected at the last revision.
LEMMA ListedNow == TypeOK => Listed = Selected(Revision)
<1> SUFFICES ASSUME TypeOK PROVE Listed = Selected(Revision)
  OBVIOUS
<1>1. Revision \in Nat
  BY DEF TypeOK, Revision
<1>2. \A key \in Objects : At(key, Revision) = objects[key]
  BY <1>1 DEF At
<1> QED BY <1>2 DEF Listed, Selected

LEMMA SelectedAreObjects ==
    ASSUME NEW revision
    PROVE  Selected(revision) \in SUBSET Objects
BY DEF Selected

LEMMA GetInit == Init => GetInv
<1> SUFFICES ASSUME Init PROVE GetInv
  OBVIOUS
<1> USE DEF Init
<1>1. TypeOK
  BY DEF TypeOK, Revision
<1>2. list \in SetToSeqs(ToSet(list))
  <2>1. ToSet(<<>>) = {}
    BY DEF ToSet
  <2> QED BY <2>1, FS_EmptySet DEF SetToSeqs
<1> QED BY <1>1, <1>2 DEF GetInv

LEMMA ChangeKeeps ==
    ASSUME GetInv, NEW key \in Objects, Change(key)
    PROVE  GetInv'
<1>1. PICK now \in Kinds :
         /\ history' = Append(history, [key |-> key, was |-> objects[key], now |-> now])
         /\ objects' = [objects EXCEPT ![key] = now]
  BY DEF Change
<1>2. UNCHANGED <<oldest, request, pc, list, since, screen, pending, seen>>
  BY DEF Change
<1> DEFINE change == [key |-> key, was |-> objects[key], now |-> now]
           Changes == [key : Objects, was : Kinds, now : Kinds]
<1>3. /\ history \in Seq(Changes) /\ change \in Changes /\ history' = Append(history, change)
  BY <1>1 DEF GetInv, TypeOK
<1> HIDE DEF change
<1>4. /\ Revision \in Nat /\ Revision' = Revision + 1 /\ history' \in Seq(Changes)
      /\ \A r \in 1..Revision : history'[r] = history[r]
  <2> HIDE DEF Changes
  <2> QED BY <1>3, AppendProperties, LenProperties DEF Revision
<1>5. TypeOK'
  BY <1>1, <1>2, <1>4 DEF GetInv, TypeOK, screen
<1>6. ASSUME since \in 0..Revision PROVE Selected(since)' = Selected(since)
  <2>1. PICK revision : revision = since
    OBVIOUS
  <2>2. Selected(revision)' = Selected(revision)
    BY <1>6, <2>1, SelectedStays DEF GetInv
  <2> QED BY <2>1, <2>2, <1>2, SelectedSince
<1>7. ASSUME since \in 0..Revision PROVE Lists(stream, Told, Keys) => Lists(stream, Told', Keys')
  <2>1. seen \in 0..Revision
    BY DEF GetInv, TypeOK
  <2>2. \A r \in (since + 1)..seen : r \in 1..Revision
    BY <1>4, <1>7, <2>1
  <2>3. \A r \in (since + 1)..seen : history'[r] = history[r]
    BY <2>2, <1>4
  <2>4. Told' = Told
    BY <2>3, <1>2 DEF Told, Tells, InScope, Matches
  <2>5. \A r \in Told : r \in Nat /\ Keys'[r] = Keys[r]
    BY <2>2, <2>3 DEF Told, Keys
  <2> QED BY <2>4, <2>5 DEF Lists
<1>8. since \in 0..Revision => since \in 0..Revision'
  BY <1>4
<1> QED BY <1>2, <1>5, <1>6, <1>7, <1>8 DEF GetInv, screen

LEMMA FetchKeeps == ASSUME GetInv, fetch PROVE GetInv'
<1>1. /\ pc = "fetch" /\ UNCHANGED <<server, request, screen, pending, seen>>
      /\ fetchList \/ fetchOne
  BY DEF fetch
<1>2. TypeOK /\ Revision \in Nat /\ Revision' = Revision /\ stream = <<>> /\ seen = 0
  BY <1>1 DEF GetInv, TypeOK, Revision, server
<1>3. CASE fetchList
  <2>1. request.name = None /\ list' \in SetToSeqs(Listed) /\ since' = Revision /\ pc' = "show"
    BY <1>3 DEF fetchList
  <2>2. Listed \in SUBSET Objects /\ IsFiniteSet(Listed)
    BY ObjectsOfSets DEF Listed
  <2>3. list' \in Seq(Listed) /\ ToSet(list') = Listed
    BY <2>1, <2>2, EachOnce
  <2>4. list' \in Seq(Objects)
    BY <2>2, <2>3, SeqMonotonic
  <2>5. TypeOK'
    BY <1>1, <1>2, <2>1, <2>4 DEF TypeOK, server, screen
  <2>6. Selected(since)' = Listed
    <3>1. PICK revision : revision = Revision
      OBVIOUS
    <3>2. Selected(revision)' = Selected(revision)
      BY <1>1, SelectedUntouched DEF server
    <3> QED BY <3>1, <3>2, <2>1, <1>2, SelectedSince, ListedNow
  <2>7. Told' = {}
    BY <1>1, <1>2, <2>1 DEF Told
  <2>8. Lists(stream', Told', Keys')
    BY <1>1, <1>2, <2>7, ListsNothing DEF screen
  <2> QED BY <1>1, <1>2, <2>1, <2>3, <2>5, <2>6, <2>8 DEF GetInv, screen
<1>4. CASE fetchOne
  <2> DEFINE key == <<request.ns, request.name>>
  <2>1. request.name # None /\ since' = None
    BY <1>4 DEF fetchOne
  <2>2. \/ key \in Objects /\ list' = <<key>> /\ pc' = "show"
        \/ list' = <<>> /\ pc' = "failed"
    BY <1>4 DEF fetchOne
  <2> HIDE DEF key
  <2>3. list' \in Seq(Objects)
    <3>1. key \in Objects => <<key>> \in Seq(Objects)
      OBVIOUS
    <3> QED BY <2>2, <3>1, EmptySeq
  <2>4. list' \in SetToSeqs(ToSet(list'))
    <3>1. CASE list' = <<>>
      <4>1. ToSet(<<>>) = {}
        BY DEF ToSet
      <4> QED BY <3>1, <4>1, FS_EmptySet DEF SetToSeqs
    <3>2. CASE list' = <<key>>
      <4>1. ToSet(<<key>>) = {key}
        BY DEF ToSet
      <4>2. Cardinality({key}) = 1
        BY FS_Singleton
      <4> QED BY <3>2, <4>1, <4>2 DEF SetToSeqs
    <3> QED BY <2>2, <3>1, <3>2
  <2>5. TypeOK'
    BY <1>1, <1>2, <2>1, <2>2, <2>3 DEF TypeOK, server, screen
  <2> QED BY <1>1, <1>2, <2>1, <2>2, <2>4, <2>5 DEF GetInv, screen
<1> QED BY <1>1, <1>3, <1>4

LEMMA ShowKeeps == ASSUME GetInv, show PROVE GetInv'
<1>1. /\ pc = "show" /\ UNCHANGED <<server, request, list, since, stream, pending, seen>>
      /\ pc' \in {"failed", "watch", "done"} /\ table' \in {table, list, Sorted(list)}
      /\ request.output = "table" /\ pc' # "failed" => table' = Sorted(list)
  BY DEF show
<1>2. /\ TypeOK /\ Revision' = Revision /\ stream = <<>> /\ seen = 0
      /\ list \in SetToSeqs(ToSet(list))
  BY <1>1 DEF GetInv, Revision, server
<1>3. /\ ToSet(list) \in SUBSET Objects /\ IsFiniteSet(ToSet(list))
      /\ ToSet(list) \in SUBSET (Nat \X Nat)
  <2>1. ToSet(list) \in SUBSET Objects
    <3>1. list \in Seq(Objects)
      BY <1>2 DEF TypeOK
    <3> QED BY <3>1 DEF ToSet
  <2> QED BY <2>1, ObjectsOfSets
<1>4. Sorted(list) \in SetToSeqs(ToSet(list)) /\ Ordered(Sorted(list))
  BY <1>3, SortedLists
<1>5. table' \in Seq(Objects)
  <2>1. Sorted(list) \in Seq(Objects)
    BY <1>3, <1>4, EachOnce, SeqMonotonic
  <2> QED BY <2>1, <1>1, <1>2 DEF TypeOK
<1>6. TypeOK'
  BY <1>1, <1>2, <1>5 DEF TypeOK, server
<1>7. ASSUME request.name = None, pc' # "failed"
      PROVE  /\ since \in 0..Revision /\ list \in SetToSeqs(Selected(since))
             /\ ToSet(list) = Selected(since) /\ Selected(since)' = Selected(since)
             /\ Lists(stream, Told, Keys) /\ Told' = Told /\ Keys' = Keys
  <2>1. /\ since \in 0..Revision /\ list \in SetToSeqs(Selected(since))
        /\ Lists(stream, Told, Keys)
    BY <1>1, <1>7 DEF GetInv
  <2>2. ToSet(list) = Selected(since)
    BY <2>1, SelectedAreObjects, ObjectsOfSets, EachOnce
  <2>3. PICK revision : revision = since
    OBVIOUS
  <2>4. Selected(revision)' = Selected(revision)
    BY <1>1, SelectedUntouched DEF server
  <2>5. Selected(since)' = Selected(since)
    BY <2>3, <2>4, <1>1, SelectedSince
  <2> QED BY <2>1, <2>2, <2>5, <1>1, ToldUntouched DEF server
<1> QED BY <1>1, <1>2, <1>4, <1>6, <1>7 DEF GetInv

\* What only moves the program, or drops old versions, leaves what is on the screen.
LEMMA QuietKeeps ==
    ASSUME GetInv, TypeOK', UNCHANGED <<objects, history, request, list, since, screen, pending, seen>>,
           \/ pc' = pc
           \/ pc \in {"watch", "stream"} /\ pc' = "done"
           \/ pc' = "failed"
    PROVE  GetInv'
<1>1. PICK revision : revision = since
  OBVIOUS
<1>2. Selected(revision)' = Selected(revision)
  BY SelectedUntouched
<1>3. Selected(since)' = Selected(since)
  BY <1>1, <1>2, SelectedSince
<1>4. Told' = Told /\ Keys' = Keys /\ Revision' = Revision
  BY ToldUntouched DEF Revision
<1> QED BY <1>3, <1>4 DEF GetInv, screen

LEMMA WatchKeeps == ASSUME GetInv, streamChanges PROVE GetInv'
<1>1. pc = "watch" /\ UNCHANGED <<server, request, screen, list, since>>
  BY DEF streamChanges
<1>2. TypeOK /\ Revision' = Revision /\ Revision \in Nat /\ stream = <<>> /\ seen = 0
  BY <1>1 DEF GetInv, TypeOK, Revision, server
<1>3. CASE since # None /\ since < oldest
  <2>1. pc' = "done" /\ UNCHANGED <<pending, seen>>
    BY <1>3 DEF streamChanges
  <2>2. TypeOK'
    BY <1>1, <1>2, <2>1 DEF TypeOK, server, screen
  <2> QED BY <1>1, <2>1, <2>2, QuietKeeps DEF server
<1>4. CASE ~(since # None /\ since < oldest)
  <2>1. /\ pc' = "stream"
        /\ pending' = IF since = None THEN Listed ELSE {}
        /\ seen' = IF since = None THEN Revision ELSE since
    BY <1>4 DEF streamChanges
  <2>2. TypeOK'
    BY <1>1, <1>2, <2>1 DEF TypeOK, server, screen, Listed
  <2>3. ASSUME request.name = None
        PROVE  /\ since \in 0..Revision /\ since # None
               /\ Selected(since)' = Selected(since)
               /\ Told' = {} /\ Lists(stream', Told', Keys')
    <3>1. since \in 0..Revision /\ since # None
      BY <1>1, <1>2, <2>3, GetWatchAssumption DEF GetInv
    <3>2. PICK revision : revision = since
      OBVIOUS
    <3>3. Selected(revision)' = Selected(revision)
      BY <1>1, SelectedUntouched DEF server
    <3>4. Selected(since)' = Selected(since)
      BY <3>2, <3>3, <1>1, SelectedSince
    <3>5. Told' = {}
      BY <1>1, <2>1, <3>1 DEF Told
    <3> QED BY <3>1, <3>4, <3>5, <1>1, <1>2, ListsNothing DEF screen
  <2> QED BY <1>1, <1>2, <2>1, <2>2, <2>3 DEF GetInv, screen
<1> QED BY <1>3, <1>4

LEMMA EventKeeps == ASSUME GetInv, Event PROVE GetInv'
<1>1. pc = "stream" /\ UNCHANGED <<server, request, pc, list, since, table>>
  BY DEF Event
<1>2. TypeOK /\ Revision' = Revision /\ Revision \in Nat /\ seen \in 0..Revision
  BY <1>1 DEF GetInv, TypeOK, Revision, server
<1>3. ASSUME NEW key \in pending,
             stream' = Append(stream, key), pending' = pending \ {key}, UNCHANGED seen
      PROVE  GetInv'
  <2>1. request.name # None
    BY <1>3 DEF GetInv
  <2>2. key \in Objects /\ stream \in Seq(Objects)
    BY <1>2, <1>3 DEF TypeOK
  <2>3. TypeOK'
    BY <1>1, <1>2, <1>3, <2>2 DEF TypeOK, server
  <2> QED BY <1>1, <1>3, <2>1, <2>3 DEF GetInv
<1>4. ASSUME pending = {}, seen < Revision, seen' = seen + 1, UNCHANGED pending,
             stream' = IF Tells(history[seen']) THEN Append(stream, history[seen'].key) ELSE stream
      PROVE  GetInv'
  <2>1. seen' \in 1..Revision /\ seen' = seen + 1
    BY <1>2, <1>4
  <2>2. history[seen'].key \in Objects /\ stream \in Seq(Objects)
    <3>1. history \in Seq([key : Objects, was : Kinds, now : Kinds]) /\ stream \in Seq(Objects)
      BY <1>2 DEF TypeOK
    <3>2. history[seen'] \in [key : Objects, was : Kinds, now : Kinds]
      BY <3>1, <2>1, ElementOfSeq DEF Revision
    <3> QED BY <3>1, <3>2
  <2>3. TypeOK'
    BY <1>1, <1>2, <1>4, <2>1, <2>2 DEF TypeOK, server
  <2>4. ASSUME request.name = None
        PROVE  /\ since \in 0..Revision /\ since <= seen'
               /\ Selected(since)' = Selected(since)
               /\ Lists(stream', Told', Keys')
    <3>1. since \in 0..Revision /\ since <= seen /\ Lists(stream, Told, Keys)
      BY <1>1, <2>4 DEF GetInv
    <3>2. PICK revision : revision = since
      OBVIOUS
    <3>3. Selected(revision)' = Selected(revision)
      BY <1>1, SelectedUntouched DEF server
    <3>4. Selected(since)' = Selected(since)
      BY <3>2, <3>3, <1>1, SelectedSince
    <3>5. Keys' = Keys /\ \A change : Tells(change)' = Tells(change)
      BY <1>1 DEF Keys, server, Tells, InScope, Matches
    <3>6. Told' = IF Tells(history[seen']) THEN Told \cup {seen'} ELSE Told
      <4>1. (since + 1)..seen' = ((since + 1)..seen) \cup {seen'}
        BY <1>2, <2>1, <3>1
      <4> QED BY <4>1, <3>5, <1>1 DEF Told, server, Tells, InScope, Matches
    <3>7. CASE Tells(history[seen'])
      <4>1. Told \in SUBSET (0..seen) /\ seen \in Nat /\ seen' \in Nat /\ seen < seen'
        BY <1>2, <2>1, <3>1 DEF Told
      <4>2. Keys[seen'] = history[seen'].key
        BY <4>1 DEF Keys
      <4>3. Lists(Append(stream, Keys[seen']), Told \cup {seen'}, Keys)
        BY <4>1, <4>2, <2>2, <3>1, ListsOneMore
      <4> QED BY <1>2, <1>4, <2>1, <3>1, <3>4, <3>5, <3>6, <3>7, <4>2, <4>3
    <3>8. CASE ~Tells(history[seen'])
      BY <1>2, <1>4, <2>1, <3>1, <3>4, <3>5, <3>6, <3>8
    <3> QED BY <3>7, <3>8
  <2> QED BY <1>1, <1>2, <1>4, <2>3, <2>4 DEF GetInv
<1> QED BY <1>3, <1>4 DEF Event

LEMMA GetStep == ASSUME GetInv, Next PROVE GetInv'
<1>1. CASE Compact
  <2>1. UNCHANGED <<objects, history, request, pc, list, since, screen, pending, seen>>
        /\ oldest' = Revision
    BY <1>1 DEF Compact
  <2>2. TypeOK'
    BY <2>1 DEF GetInv, TypeOK, Revision, screen
  <2> QED BY <2>1, <2>2, QuietKeeps
<1>2. CASE WatchEnds
  <2>1. /\ UNCHANGED <<server, request, list, since, screen, pending, seen>>
        /\ pc = "stream" /\ pc' = "done"
    BY <1>2 DEF WatchEnds
  <2>2. TypeOK'
    BY <2>1 DEF GetInv, TypeOK, Revision, server, screen
  <2> QED BY <2>1, <2>2, QuietKeeps DEF server
<1>3. CASE CallFails
  <2>1. UNCHANGED <<server, request, list, since, screen, pending, seen>> /\ pc' = "failed"
    BY <1>3 DEF CallFails
  <2>2. TypeOK'
    BY <2>1 DEF GetInv, TypeOK, Revision, server, screen
  <2> QED BY <2>1, <2>2, QuietKeeps DEF server
<1> QED BY <1>1, <1>2, <1>3, ChangeKeeps, FetchKeeps, ShowKeeps, WatchKeeps, EventKeeps
     DEF Next

LEMMA GetStutter == ASSUME GetInv, UNCHANGED vars PROVE GetInv'
<1>1. UNCHANGED <<server, request, pc, list, since, screen, pending, seen>>
  BY DEF vars
<1>2. TypeOK'
  BY <1>1 DEF GetInv, TypeOK, Revision, server, screen
<1> QED BY <1>1, <1>2, QuietKeeps DEF server

LEMMA GetShows == GetInv => ScreenFollows
<1> SUFFICES ASSUME GetInv, request.name = None, request.output = "table",
                    pc \in {"watch", "stream", "done"}
             PROVE  /\ Len(table) = Cardinality(Selected(since))
                    /\ ToSet(table) = Selected(since) /\ Ordered(table)
                    /\ Lists(stream, Told, Keys)
  <2>1. \A r \in Told : since \in 0..Revision => r \in Nat
    BY DEF Told, GetInv, TypeOK
  <2>2. GetInv => (request.name = None /\ pc \in {"watch", "stream", "done"} => since \in 0..Revision)
    BY DEF GetInv
  <2> QED BY <2>1, <2>2 DEF ScreenFollows, Lists, Told, Keys
<1>1. table \in SetToSeqs(Selected(since)) /\ Ordered(table) /\ Lists(stream, Told, Keys)
  BY DEF GetInv
<1> QED BY <1>1, SelectedAreObjects, ObjectsOfSets, EachOnce

\* A table of a list and the stream that goes on from it, for any objects and
\* however often they change meanwhile: the table has each object that was selected
\* at the version of the list, once and in order, and the stream has each change
\* since, once and in order.
THEOREM WatchTakesUpTheList == KubectlSpec => []ScreenFollows
<1>1. KubectlInit => GetInv
  BY GetInit DEF KubectlInit
<1>2. GetInv /\ [KubectlNext]_<<part, vars, argumentVars>> => GetInv'
  BY GetStep, GetStutter DEF KubectlNext
<1> QED BY <1>1, <1>2, GetShows, PTL DEF KubectlSpec
===============================================================================
