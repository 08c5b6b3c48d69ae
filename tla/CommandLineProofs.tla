-------------------------- MODULE CommandLineProofs --------------------------
(***************************************************************************)
(* fromArguments computes what a command line says, for every command line   *)
(* of any length.  The loop erases what it takes from the vector it walks,    *)
(* so its invariant relates a position of args to one of the line that was    *)
(* given: what is before index are the arguments kept so far, in order, and   *)
(* what is from index on is the end of the line, which does not start with    *)
(* a value.                                                                   *)
(*                                                                         *)
(* CommandAt marks commands from left to right by a recursive function; the   *)
(* least position where a claim about it fails stands for the induction.      *)
(***************************************************************************)
EXTENDS ConfigurationProofs, FiniteSetTheorems, WellFoundedInduction

-----------------------------------------------------------------------------
(* The commands of a line.                                                   *)

\* Numbers are well ordered.
LEMMA LeastNumber == \A S \in SUBSET Nat : S # {} => \E m \in S : \A n \in S : m <= n
<1> SUFFICES ASSUME NEW S \in SUBSET Nat, S # {} PROVE \E m \in S : \A n \in S : m <= n
  OBVIOUS
<1> DEFINE less == OpToRel(<, Nat)
<1>1. IsWellFoundedOn(less, Nat)
  BY NatLessThanWellFounded DEF OpToRel
<1> HIDE DEF less
<1>2. PICK m \in S : \A n \in S : <<n, m>> \notin less
  BY <1>1, WFMin
<1>3. \A n \in S : ~(n < m)
  BY <1>2 DEF less, OpToRel
<1> QED BY <1>3

\* at, in CommandAt, up to position n.
Marks(commands, line, n, at) ==
    at = [i \in 0..n |-> i > 0 /\ line[i] \in commands /\ ~at[i - 1]]

\* The recursion of CommandAt has a solution: were there positions up to which it has
\* none, the least of them would extend the solution before it.
LEMMA MarksExist ==
    ASSUME NEW commands, NEW line, NEW n \in Nat
    PROVE  \E at : Marks(commands, line, n, at)
<1> DEFINE S == {k \in 0..n : ~\E at : Marks(commands, line, k, at)}
<1>1. SUFFICES ASSUME S # {} PROVE FALSE
  OBVIOUS
<1>2. PICK m \in S : \A k \in S : m <= k
  <2>1. S \in SUBSET Nat
    OBVIOUS
  <2> HIDE DEF S
  <2> QED BY <1>1, <2>1, LeastNumber
<1>3. CASE m = 0
  <2> DEFINE at == [i \in 0..0 |-> FALSE]
  <2>1. ASSUME NEW i \in 0..0
        PROVE  at[i] = (i > 0 /\ line[i] \in commands /\ ~at[i - 1])
    <3>1. ~(i > 0)
      OBVIOUS
    <3>2. at[i] = FALSE
      BY Zenon
    <3> QED BY <3>1, <3>2, Zenon
  <2>2. Marks(commands, line, 0, at)
    BY <2>1 DEF Marks
  <2> QED BY <2>2, <1>2, <1>3
<1>4. CASE m > 0
  <2>1. m - 1 \in 0..n /\ m - 1 \notin S
    BY <1>2, <1>4
  <2>2. PICK f : Marks(commands, line, m - 1, f)
    BY <2>1
  <2> DEFINE at == [i \in 0..m |-> IF i = m THEN line[i] \in commands /\ ~f[i - 1] ELSE f[i]]
  <2>3. ASSUME NEW i \in 0..m
        PROVE  at[i] = (i > 0 /\ line[i] \in commands /\ ~at[i - 1])
    <3>1. CASE i = m
      BY <3>1, <1>4
    <3>2. CASE i # m
      <4>1. i \in 0..(m - 1) /\ i - 1 # m
        BY <3>2
      <4>2. f[i] = (i > 0 /\ line[i] \in commands /\ ~f[i - 1])
        BY <2>2, <4>1, Zenon DEF Marks
      <4>3. at[i] = f[i]
        BY <3>2
      <4>4. CASE i > 0
        <5>1. at[i - 1] = f[i - 1]
          BY <4>4, <4>1
        <5> QED BY <5>1, <4>2, <4>3, Zenon
      <4>5. CASE ~(i > 0)
        BY <4>5, <4>2, <4>3, Zenon
      <4> QED BY <4>4, <4>5
    <3> QED BY <3>1, <3>2
  <2>4. Marks(commands, line, m, at)
    BY <2>3 DEF Marks
  <2> QED BY <2>4, <1>2
<1> QED BY <1>2, <1>3, <1>4

\* CommandAt as a function of the registered commands.
Commands(commands, line) ==
    LET at[i \in 0..Len(line)] == i > 0 /\ line[i] \in commands /\ ~at[i - 1]
    IN {i \in DOMAIN line : at[i]}

\* A position holds a command exactly if its argument is one and the position before
\* does not hold a command.
LEMMA CommandsAre ==
    ASSUME NEW commands, NEW line \in Seq(Strings)
    PROVE  /\ Commands(commands, line) \subseteq 1..Len(line)
           /\ \A i \in 1..Len(line) :
                 i \in Commands(commands, line) <=> line[i] \in commands /\ i - 1 \notin Commands(commands, line)
<1> DEFINE at == CHOOSE at : Marks(commands, line, Len(line), at)
<1>1. Marks(commands, line, Len(line), at)
  BY MarksExist
<1>2. Commands(commands, line) = {i \in DOMAIN line : at[i]}
  BY DEF Commands, Marks
<1> HIDE DEF at
<1>3. \A i \in 0..Len(line) : at[i] = (i > 0 /\ line[i] \in commands /\ ~at[i - 1])
  BY <1>1, Zenon DEF Marks
<1>4. DOMAIN line = 1..Len(line)
  OBVIOUS
<1>5. ~at[0]
  <2>1. 0 \in 0..Len(line) /\ ~(0 > 0)
    OBVIOUS
  <2> QED BY <2>1, <1>3, Zenon
<1>6. ASSUME NEW i \in 1..Len(line)
      PROVE  at[i] = (line[i] \in commands /\ ~at[i - 1])
  BY <1>3
<1>7. ASSUME NEW i \in 1..Len(line)
      PROVE  at[i - 1] <=> i - 1 \in Commands(commands, line)
  BY <1>2, <1>4, <1>5
<1>8. ASSUME NEW i \in 1..Len(line)
      PROVE  i \in Commands(commands, line) <=> line[i] \in commands /\ i - 1 \notin Commands(commands, line)
  <2>1. i \in Commands(commands, line) <=> at[i]
    BY <1>2, <1>4
  <2> QED BY <2>1, <1>6, <1>7, Zenon
<1> QED BY <1>2, <1>4, <1>8

\* CommandAt goes by the commands that are registered.
LEMMA CommandAtIs == \A line : CommandAt(line) = Commands(DOMAIN commandLineOptions, line)
BY DEF CommandAt, Commands, IsCommand

\* A nonempty set of positions has a last one.
LEMMA MaxIsLast ==
    ASSUME NEW n \in Nat, NEW S \in SUBSET (1..n), S # {}
    PROVE  Max(S) \in S /\ \A i \in S : i <= Max(S)
<1> DEFINE bounds == {b \in 0..n : \A i \in S : i <= b}
<1>1. n \in bounds /\ bounds \in SUBSET Nat
  OBVIOUS
<1>2. PICK m \in bounds : \A b \in bounds : m <= b
  <2> HIDE DEF bounds
  <2> QED BY <1>1, LeastNumber
<1>3. m \in S
  <2>1. SUFFICES ASSUME m \notin S PROVE FALSE
    OBVIOUS
  <2>2. \A i \in S : i <= m - 1
    BY <1>2, <2>1
  <2>3. m - 1 \in bounds
    <3>1. PICK i \in S : i \in 1..n /\ i <= m - 1
      BY <2>2
    <3>2. m \in 0..n
      BY <1>2
    <3>3. m - 1 \in 0..n
      BY <3>1, <3>2
    <3> QED BY <2>2, <3>3
  <2> QED BY <1>2, <2>3
<1>4. \E x \in S : \A y \in S : x >= y
  BY <1>2, <1>3
<1>5. Max(S) \in S /\ \A y \in S : Max(S) >= y
  BY <1>4 DEF Max
<1>6. \A y \in S : y \in Nat
  OBVIOUS
<1> HIDE DEF bounds
<1> QED BY <1>5, <1>6

-----------------------------------------------------------------------------
(* The arguments that are left over.                                         *)

\* The positions up to n that fromArguments leaves.
Kept(commands, line, n) ==
    {i \in 1..n : i \notin Commands(commands, line) /\ i - 1 \notin Commands(commands, line)}

\* The number of arguments of line that are parsed when i is the position in
\* arguments.
Seen(line, arguments, i) == Len(line) - (Len(arguments) - i + 1)

\* A position is kept, and counted, or changes nothing.
LEMMA KeptGrows ==
    ASSUME NEW commands, NEW line, NEW n \in Nat
    PROVE  /\ Cardinality(Kept(commands, line, n)) \in Nat
           /\ \A i \in Kept(commands, line, n) : i \in 1..n
           /\ IF n + 1 \in Commands(commands, line) \/ n \in Commands(commands, line)
              THEN Kept(commands, line, n + 1) = Kept(commands, line, n)
              ELSE /\ Kept(commands, line, n + 1) = Kept(commands, line, n) \cup {n + 1}
                   /\ Cardinality(Kept(commands, line, n + 1)) = Cardinality(Kept(commands, line, n)) + 1
<1>1. IsFiniteSet(Kept(commands, line, n))
  <2>1. IsFiniteSet(1..n)
    BY FS_Interval
  <2>2. Kept(commands, line, n) \in SUBSET (1..n)
    BY DEF Kept
  <2> QED BY <2>1, <2>2, FS_Subset
<1>2. n + 1 \notin Kept(commands, line, n)
  BY DEF Kept
<1>3. CASE n + 1 \in Commands(commands, line) \/ n \in Commands(commands, line)
  BY <1>1, <1>3, FS_CardinalityType DEF Kept
<1>4. CASE ~(n + 1 \in Commands(commands, line) \/ n \in Commands(commands, line))
  <2>1. Kept(commands, line, n + 1) = Kept(commands, line, n) \cup {n + 1}
    BY <1>4 DEF Kept
  <2>2. Cardinality(Kept(commands, line, n) \cup {n + 1}) = Cardinality(Kept(commands, line, n)) + 1
    BY <1>1, <1>2, FS_AddElement
  <2>3. \A i \in Kept(commands, line, n) : i \in 1..n
    BY DEF Kept
  <2> QED BY <1>1, <1>4, <2>1, <2>2, <2>3, FS_CardinalityType
<1> QED BY <1>3, <1>4

\* What is before the position i has been kept, in its order, and what is from it
\* on has not been looked at, and does not start with a value.
Walked(commands, line, arguments, i) ==
    /\ i <= Len(arguments) + 1
    /\ Seen(line, arguments, i) >= 0
    /\ Seen(line, arguments, i) < Len(line) =>
           Seen(line, arguments, i) \notin Commands(commands, line)
    /\ \A j \in i..Len(arguments) : arguments[j] = line[Seen(line, arguments, i) + j - i + 1]
    /\ i - 1 = Cardinality(Kept(commands, line, Seen(line, arguments, i)))
    /\ \A p \in Kept(commands, line, Seen(line, arguments, i)) :
           /\ Cardinality(Kept(commands, line, p)) \in 1..(i - 1)
           /\ arguments[Cardinality(Kept(commands, line, p))] = line[p]
    /\ \A k \in 1..(i - 1) : \E p \in Kept(commands, line, Seen(line, arguments, i)) :
           Cardinality(Kept(commands, line, p)) = k

\* fromArguments starts with the whole line in front of it.
LEMMA WalkStarts ==
    ASSUME NEW commands, NEW line \in Seq(Strings)
    PROVE  Walked(commands, line, line, 1)
<1>1. Seen(line, line, 1) = 0
  BY DEF Seen
<1>2. 0 \notin Commands(commands, line)
  BY CommandsAre
<1>3. Kept(commands, line, 0) = {}
  BY DEF Kept
<1>4. Cardinality(Kept(commands, line, 0)) = 0
  BY <1>3, FS_EmptySet
<1> QED BY <1>1, <1>2, <1>3, <1>4 DEF Walked

\* An argument that is no command is kept.
LEMMA WalkSkips ==
    ASSUME NEW commands, NEW line \in Seq(Strings), NEW arguments \in Seq(Strings), NEW i \in Nat \ {0},
           Walked(commands, line, arguments, i), i <= Len(arguments), arguments[i] \notin commands
    PROVE  Walked(commands, line, arguments, i + 1)
<1> DEFINE n == Seen(line, arguments, i)
<1>1. n \in Nat /\ n < Len(line) /\ Seen(line, arguments, i + 1) = n + 1 /\ n + 1 \in 1..Len(line)
  BY DEF Walked, Seen
<1>2. arguments[i] = line[n + 1]
  BY <1>1 DEF Walked
<1>3. n \notin Commands(commands, line) /\ n + 1 \notin Commands(commands, line)
  BY <1>1, <1>2, CommandsAre DEF Walked
<1> HIDE DEF n
<1>4. /\ Kept(commands, line, n + 1) = Kept(commands, line, n) \cup {n + 1}
      /\ Cardinality(Kept(commands, line, n + 1)) = Cardinality(Kept(commands, line, n)) + 1
      /\ \A p \in Kept(commands, line, n) : p \in 1..n
  BY <1>1, <1>3, KeptGrows
<1>5. i - 1 = Cardinality(Kept(commands, line, n))
  BY DEF Walked, n
<1>6. ASSUME NEW j \in (i + 1)..Len(arguments)
      PROVE  arguments[j] = line[(n + 1) + j - (i + 1) + 1]
  BY <1>1 DEF Walked, n
<1>7. ASSUME NEW p \in Kept(commands, line, n + 1)
      PROVE  /\ Cardinality(Kept(commands, line, p)) \in 1..i
             /\ arguments[Cardinality(Kept(commands, line, p))] = line[p]
  <2>1. CASE p = n + 1
    BY <2>1, <1>2, <1>4, <1>5
  <2>2. CASE p \in Kept(commands, line, n)
    BY <2>2 DEF Walked, n
  <2> QED BY <2>1, <2>2, <1>4
<1>8. ASSUME NEW k \in 1..i
      PROVE  \E p \in Kept(commands, line, n + 1) : Cardinality(Kept(commands, line, p)) = k
  <2>1. CASE k = i
    BY <2>1, <1>4, <1>5
  <2>2. CASE k \in 1..(i - 1)
    BY <2>2, <1>4 DEF Walked, n
  <2> QED BY <2>1, <2>2
<1>9. i + 1 <= Len(arguments) + 1 /\ n + 1 >= 0 /\ (i + 1) - 1 = i
  BY <1>1
<1>10. i = Cardinality(Kept(commands, line, n + 1))
  BY <1>4, <1>5
<1> QED BY <1>1, <1>3, <1>6, <1>7, <1>8, <1>9, <1>10 DEF Walked

\* fromArguments' erase takes one element when the command is the last.
LEMMA ErasedIs ==
    ASSUME args \in Seq(Strings), NEW i \in Nat \ {0}, i <= Len(args)
    PROVE  /\ Erase(i) \in Seq(Strings)
           /\ Len(Erase(i)) = IF i = Len(args) THEN i - 1 ELSE Len(args) - 2
           /\ \A j \in 1..(i - 1) : Erase(i)[j] = args[j]
           /\ \A j \in i..Len(Erase(i)) : Erase(i)[j] = args[j + 2]
<1> DEFINE before == SubSeq(args, 1, i - 1)
           after  == SubSeq(args, i + 2, Len(args))
<1>1. /\ before \in Seq(Strings) /\ Len(before) = i - 1
      /\ \A j \in 1..(i - 1) : before[j] = args[j]
  BY SubSeqProperties
<1>2. /\ after \in Seq(Strings)
      /\ Len(after) = IF i = Len(args) THEN 0 ELSE Len(args) - i - 1
      /\ \A j \in 1..Len(after) : after[j] = args[i + 2 + j - 1]
  BY SubSeqProperties
<1>3. Erase(i) = before \o after
  BY DEF Erase
<1> HIDE DEF before, after
<1>4. /\ Erase(i) \in Seq(Strings) /\ Len(Erase(i)) = Len(before) + Len(after)
      /\ \A j \in 1..Len(Erase(i)) :
            Erase(i)[j] = IF j <= Len(before) THEN before[j] ELSE after[j - Len(before)]
  BY <1>1, <1>2, <1>3, ConcatProperties
<1>5. Len(Erase(i)) = IF i = Len(args) THEN i - 1 ELSE Len(args) - 2
  BY <1>1, <1>2, <1>4
<1>6. ASSUME NEW j \in 1..(i - 1)
      PROVE  Erase(i)[j] = args[j]
  BY <1>1, <1>4, <1>2
<1>7. ASSUME NEW j \in i..Len(Erase(i))
      PROVE  Erase(i)[j] = args[j + 2]
  <2>1. j \in 1..Len(Erase(i)) /\ j > Len(before) /\ j - Len(before) \in 1..Len(after)
    BY <1>1, <1>2, <1>4
  <2>2. Erase(i)[j] = after[j - Len(before)]
    BY <1>1, <1>4, <2>1
  <2>3. i + 2 + (j - Len(before)) - 1 = j + 2
    BY <1>1
  <2> QED BY <1>2, <2>1, <2>2, <2>3
<1> QED BY <1>4, <1>5, <1>6, <1>7

\* A command and its value are passed, and leave the arguments before them alone.
LEMMA WalkErases ==
    ASSUME NEW commands, NEW line \in Seq(Strings), args \in Seq(Strings), NEW i \in Nat \ {0},
           Walked(commands, line, args, i), i <= Len(args), args[i] \in commands
    PROVE  /\ Walked(commands, line, Erase(i), i)
           /\ Seen(line, args, i) + 1 \in Commands(commands, line)
           /\ ValueAt(i + 1) = IF Seen(line, args, i) + 1 = Len(line) THEN Blank
                               ELSE line[Seen(line, args, i) + 2]
           /\ Seen(line, Erase(i), i) = IF Seen(line, args, i) + 1 = Len(line)
                                        THEN Seen(line, args, i) + 1
                                        ELSE Seen(line, args, i) + 2
<1> DEFINE n == Seen(line, args, i)
           m == Seen(line, Erase(i), i)
<1>1. n \in Nat /\ n < Len(line) /\ n + 1 \in 1..Len(line)
  BY DEF Walked, Seen
<1>2. args[i] = line[n + 1]
  <2>1. i \in i..Len(args) /\ n + i - i + 1 = n + 1
    BY <1>1
  <2> HIDE DEF n, m
  <2>2. \A j \in i..Len(args) : args[j] = line[n + j - i + 1]
    BY DEF Walked, n
  <2> QED BY <2>1, <2>2
<1>3. n \notin Commands(commands, line) /\ n + 1 \in Commands(commands, line)
  BY <1>1, <1>2, CommandsAre DEF Walked
<1>4. /\ Erase(i) \in Seq(Strings)
      /\ Len(Erase(i)) = IF i = Len(args) THEN i - 1 ELSE Len(args) - 2
      /\ \A j \in 1..(i - 1) : Erase(i)[j] = args[j]
      /\ \A j \in i..Len(Erase(i)) : Erase(i)[j] = args[j + 2]
  BY ErasedIs
<1>5. /\ n + 1 = Len(line) <=> i = Len(args)
      /\ m = IF n + 1 = Len(line) THEN n + 1 ELSE n + 2
  <2>1. Len(line) \in Nat /\ Len(args) \in Nat
    OBVIOUS
  <2>2. n = Len(line) - (Len(args) - i + 1) /\ m = Len(line) - (Len(Erase(i)) - i + 1)
    BY DEF Seen
  <2>3. n + 1 = Len(line) <=> i = Len(args)
    BY <1>1, <2>1, <2>2
  <2>4. CASE i = Len(args)
    BY <1>1, <1>4, <2>1, <2>2, <2>3, <2>4
  <2>5. CASE i # Len(args)
    <3>1. Len(Erase(i)) = Len(args) - 2
      BY <1>4, <2>5
    <3>2. m = n + 2
      BY <2>1, <2>2, <3>1
    <3> QED BY <2>3, <2>5, <3>2, Zenon
  <2> QED BY <2>4, <2>5
<1>6. ValueAt(i + 1) = IF n + 1 = Len(line) THEN Blank ELSE line[n + 2]
  BY <1>1, <1>5 DEF ValueAt, Walked
<1>7. Kept(commands, line, m) = Kept(commands, line, n)
  <2>1. Kept(commands, line, n + 1) = Kept(commands, line, n)
    BY <1>1, <1>3, KeptGrows
  <2>2. Kept(commands, line, (n + 1) + 1) = Kept(commands, line, n + 1)
    BY <1>1, <1>3, KeptGrows
  <2>3. (n + 1) + 1 = n + 2
    BY <1>1
  <2> QED BY <2>1, <2>2, <2>3, <1>5
<1>8. m < Len(line) => m \notin Commands(commands, line)
  BY <1>1, <1>3, <1>5, CommandsAre
<1>9. ASSUME NEW j \in i..Len(Erase(i))
      PROVE  Erase(i)[j] = line[m + j - i + 1]
  <2>1. i # Len(args) /\ j + 2 \in i..Len(args)
    BY <1>4
  <2>2. Erase(i)[j] = line[n + (j + 2) - i + 1]
    BY <1>4, <2>1 DEF Walked
  <2>3. n + (j + 2) - i + 1 = m + j - i + 1
    BY <1>1, <1>5, <2>1
  <2> QED BY <2>2, <2>3
<1>10. ASSUME NEW p \in Kept(commands, line, n)
       PROVE  /\ Cardinality(Kept(commands, line, p)) \in 1..(i - 1)
              /\ Erase(i)[Cardinality(Kept(commands, line, p))] = line[p]
  BY <1>4 DEF Walked
<1>11. Walked(commands, line, Erase(i), i)
  <2>1. i <= Len(Erase(i)) + 1 /\ m >= 0
    BY <1>1, <1>4, <1>5
  <2>2. /\ i - 1 = Cardinality(Kept(commands, line, n))
        /\ \A k \in 1..(i - 1) : \E p \in Kept(commands, line, n) : Cardinality(Kept(commands, line, p)) = k
    BY DEF Walked
  <2> QED BY <2>1, <2>2, <1>7, <1>8, <1>9, <1>10 DEF Walked
<1> QED BY <1>3, <1>5, <1>6, <1>11

-----------------------------------------------------------------------------
(* The options.                                                              *)

\* The value of the command at position i of line.
ValueOf(line, i) == IF i = Len(line) THEN Blank ELSE line[i + 1]

\* The instance that the commands up to position n leave: options maps a command to
\* its option.
Overridden(options, defaults, line, n, instance) ==
    LET at == {i \in Commands(DOMAIN options, line) : i <= n}
    IN /\ DOMAIN instance = DOMAIN defaults \cup {options[line[i]] : i \in at}
       /\ \A o \in DOMAIN defaults :
              (\A i \in at : options[line[i]] # o) => instance[o] = defaults[o]
       /\ \A i \in at :
              (\A j \in at : j > i => options[line[j]] # options[line[i]]) =>
                  instance[options[line[i]]] = ValueOf(line, i)

\* No command has been met: every option has its default.
LEMMA OverridesStart ==
    ASSUME NEW options, NEW defaults, NEW line \in Seq(Strings)
    PROVE  Overridden(options, defaults, line, 0, defaults)
<1>1. {i \in Commands(DOMAIN options, line) : i <= 0} = {}
  BY CommandsAre
<1>2. {options[line[i]] : i \in {}} = {}
  OBVIOUS
<1> QED BY <1>1, <1>2 DEF Overridden

\* A position that holds no command changes nothing.
LEMMA OverridesSkip ==
    ASSUME NEW options, NEW defaults, NEW line \in Seq(Strings), NEW instance,
           NEW n \in Nat, NEW m \in Nat, n <= m,
           \A i \in 1..Len(line) : i > n /\ i <= m => i \notin Commands(DOMAIN options, line),
           Overridden(options, defaults, line, n, instance)
    PROVE  Overridden(options, defaults, line, m, instance)
<1>1. {i \in Commands(DOMAIN options, line) : i <= m} = {i \in Commands(DOMAIN options, line) : i <= n}
  BY CommandsAre
<1> QED BY <1>1 DEF Overridden

\* The value of a command replaces that of every earlier one for its option.
LEMMA OverridesPut ==
    ASSUME NEW options, NEW defaults, NEW line \in Seq(Strings), NEW instance, NEW n \in Nat,
           n + 1 \in Commands(DOMAIN options, line),
           Overridden(options, defaults, line, n, instance)
    PROVE  Overridden(options, defaults, line, n + 1,
                      Put(instance, options[line[n + 1]], ValueOf(line, n + 1)))
<1> DEFINE before == {i \in Commands(DOMAIN options, line) : i <= n}
           at == {i \in Commands(DOMAIN options, line) : i <= n + 1}
           option == options[line[n + 1]]
           put == Put(instance, option, ValueOf(line, n + 1))
<1>1. /\ at = before \cup {n + 1}
      /\ \A i \in before : i \in Nat /\ i <= n
  BY CommandsAre
<1>2. /\ DOMAIN put = DOMAIN instance \cup {option}
      /\ \A o \in DOMAIN put : put[o] = IF o = option THEN ValueOf(line, n + 1) ELSE instance[o]
  BY DEF Put
<1>3. /\ DOMAIN instance = DOMAIN defaults \cup {options[line[i]] : i \in before}
      /\ \A o \in DOMAIN defaults :
             (\A i \in before : options[line[i]] # o) => instance[o] = defaults[o]
      /\ \A i \in before :
             (\A j \in before : j > i => options[line[j]] # options[line[i]]) =>
                 instance[options[line[i]]] = ValueOf(line, i)
  BY DEF Overridden
<1> HIDE DEF before, at, put
<1>4. DOMAIN put = DOMAIN defaults \cup {options[line[i]] : i \in at}
  BY <1>1, <1>2, <1>3
<1>5. ASSUME NEW o \in DOMAIN defaults, \A i \in at : options[line[i]] # o
      PROVE  put[o] = defaults[o]
  BY <1>1, <1>2, <1>3, <1>5
<1>6. ASSUME NEW i \in at, \A j \in at : j > i => options[line[j]] # options[line[i]]
      PROVE  put[options[line[i]]] = ValueOf(line, i)
  <2>1. CASE i = n + 1
    BY <2>1, <1>2
  <2>2. CASE i \in before
    <3>1. options[line[i]] # option
      BY <1>1, <1>6, <2>2
    <3>2. instance[options[line[i]]] = ValueOf(line, i)
      BY <1>1, <1>3, <1>6, <2>2
    <3>3. options[line[i]] \in DOMAIN put
      BY <1>2, <1>3, <2>2
    <3> QED BY <1>2, <3>1, <3>2, <3>3
  <2> QED BY <1>1, <2>1, <2>2
<1> QED BY <1>4, <1>5, <1>6 DEF Overridden, at, put

-----------------------------------------------------------------------------
(* The end of the walk.                                                      *)

\* At the end of the walk the arguments are what LeftOver says.
LEMMA WalkEnds ==
    ASSUME given \in Seq(Strings), NEW arguments \in Seq(Strings), NEW i \in Nat \ {0},
           Walked(DOMAIN commandLineOptions, given, arguments, i), i > Len(arguments)
    PROVE  arguments = LeftOver(given) /\ Seen(given, arguments, i) = Len(given)
<1> DEFINE commands == DOMAIN commandLineOptions
           kept == Kept(commands, given, Len(given))
<1>1. i = Len(arguments) + 1 /\ Seen(given, arguments, i) = Len(given)
  <2>1. i <= Len(arguments) + 1 /\ Len(given) \in Nat /\ Len(arguments) \in Nat
    BY DEF Walked
  <2>2. i = Len(arguments) + 1
    BY <2>1
  <2> QED BY <2>1, <2>2 DEF Seen
<1>2. CommandAt(given) = Commands(commands, given)
  BY CommandAtIs
<1>3. {j \in DOMAIN given : j \notin CommandAt(given) /\ j - 1 \notin CommandAt(given)} = kept
  BY <1>2 DEF Kept
<1>4. LeftOver(given) = [k \in 1..Cardinality(kept) |->
          given[CHOOSE p \in kept : Cardinality({j \in kept : j <= p}) = k]]
  <2> DEFINE walk == {j \in DOMAIN given : j \notin CommandAt(given) /\ j - 1 \notin CommandAt(given)}
             leave(S) == [k \in 1..Cardinality(S) |->
                             given[CHOOSE p \in S : Cardinality({j \in S : j <= p}) = k]]
  <2>1. LeftOver(given) = leave(walk)
    BY DEF LeftOver
  <2>2. leave(walk) = leave(kept)
    <3> HIDE DEF leave
    <3> QED BY <1>3
  <2> QED BY <2>1, <2>2
<1>5. ASSUME NEW p \in kept
      PROVE  {j \in kept : j <= p} = Kept(commands, given, p)
  BY DEF Kept
<1>6. /\ Len(arguments) = Cardinality(kept)
      /\ \A p \in kept : arguments[Cardinality(Kept(commands, given, p))] = given[p]
      /\ \A k \in 1..Len(arguments) : \E p \in kept : Cardinality(Kept(commands, given, p)) = k
  BY <1>1 DEF Walked
<1> HIDE DEF kept
<1>7. ASSUME NEW k \in 1..Len(arguments)
      PROVE  arguments[k] = LeftOver(given)[k]
  <2> DEFINE p == CHOOSE p \in kept : Cardinality({j \in kept : j <= p}) = k
  <2>1. \E q \in kept : Cardinality({j \in kept : j <= q}) = k
    BY <1>5, <1>6
  <2>2. p \in kept /\ Cardinality({j \in kept : j <= p}) = k
    BY <2>1
  <2>3. LeftOver(given)[k] = given[p]
    BY <1>4, <1>6
  <2> HIDE DEF p
  <2> QED BY <1>5, <1>6, <2>2, <2>3
<1>8. DOMAIN arguments = 1..Len(arguments) /\ DOMAIN LeftOver(given) = 1..Len(arguments)
  BY <1>4, <1>6
<1>9. arguments = [k \in 1..Len(arguments) |-> arguments[k]]
  OBVIOUS
<1>10. LeftOver(given) = [k \in 1..Len(arguments) |-> LeftOver(given)[k]]
  BY <1>4, <1>6
<1> QED BY <1>1, <1>7, <1>9, <1>10

\* At the end of the walk the instance holds what Said says of each option.
LEMMA OverridesEnd ==
    ASSUME given \in Seq(Strings), NEW instance \in Instances,
           Overridden(commandLineOptions, defaultValues, given, Len(given), instance)
    PROVE  instance = [o \in DOMAIN defaultValues \cup Mentioned(given) |-> Said(given, o)]
<1> DEFINE at == CommandAt(given)
<1>1. at = Commands(DOMAIN commandLineOptions, given) /\ at \subseteq 1..Len(given)
  BY CommandAtIs, CommandsAre
<1>2. {i \in at : i <= Len(given)} = at
  BY <1>1
<1>3. /\ DOMAIN instance = DOMAIN defaultValues \cup {commandLineOptions[given[i]] : i \in at}
      /\ \A o \in DOMAIN defaultValues :
             (\A i \in at : commandLineOptions[given[i]] # o) => instance[o] = defaultValues[o]
      /\ \A i \in at :
             (\A j \in at : j > i => commandLineOptions[given[j]] # commandLineOptions[given[i]]) =>
                 instance[commandLineOptions[given[i]]] = ValueOf(given, i)
  BY <1>1, <1>2 DEF Overridden
<1> HIDE DEF at
<1>4. ASSUME NEW o \in DOMAIN instance
      PROVE  instance[o] = Said(given, o)
  <2> DEFINE for == {i \in at : commandLineOptions[given[i]] = o}
  <2>1. Said(given, o) = IF for = {} THEN defaultValues[o]
                         ELSE IF Max(for) = Len(given) THEN Blank
                         ELSE given[Max(for) + 1]
    BY DEF Said, at
  <2>2. CASE for = {}
    BY <1>3, <2>1, <2>2
  <2>3. CASE for # {}
    <3>1. for \in SUBSET (1..Len(given)) /\ Len(given) \in Nat
      BY <1>1
    <3>2. Max(for) \in for /\ \A i \in for : i <= Max(for)
      <4> HIDE DEF for
      <4> QED BY <2>3, <3>1, MaxIsLast
    <3>3. Max(for) \in at /\ commandLineOptions[given[Max(for)]] = o
      BY <3>2
    <3>4. ASSUME NEW j \in at, j > Max(for)
          PROVE  commandLineOptions[given[j]] # o
      BY <1>1, <3>1, <3>2, <3>4
    <3>5. instance[o] = ValueOf(given, Max(for))
      <4> HIDE DEF for
      <4> QED BY <1>3, <3>3, <3>4
    <3> QED BY <2>1, <2>3, <3>5 DEF ValueOf
  <2> QED BY <2>2, <2>3
<1>5. DOMAIN instance = DOMAIN defaultValues \cup Mentioned(given)
  BY <1>3 DEF Mentioned, at
<1>6. instance = [o \in DOMAIN instance |-> instance[o]]
  BY DEF Instances
<1> QED BY <1>4, <1>5, <1>6

-----------------------------------------------------------------------------
(* The invariant of fromArguments, and the theorem.                          *)

\* At each turn of the loop the arguments before index are those that the walk has
\* kept, and the instance holds the values of the commands it has passed.
ParsingInv ==
    step = "fromArguments" =>
        /\ Walked(DOMAIN commandLineOptions, given, args, index)
        /\ Overridden(commandLineOptions, defaultValues, given, Seen(given, args, index), cfg)

LEMMA ParsingNext ==
    ASSUME TypeOK, ParsingInv, [Next]_vars
    PROVE  ParsingInv'
<1> USE DEF registry, parser, outcome, history
<1>1. ASSUME step # "fromArguments", step' = "fromArguments"
      PROVE  ParsingInv'
  <2>1. StartParsing
    BY <1>1 DEF Next, addCommandLineOption, addDefaultValue, setOption, getOption, ParseCommand,
                SkipArgument, FinishParsing, getManager, replaceGlobalConfiguration, StartLoop, Sleep, Hooks, vars
  <2>2. /\ args' = given' /\ index' = 1 /\ cfg' = defaultValues'
        /\ given' \in Seq(Strings)
    BY <2>1 DEF StartParsing, TypeOK
  <2>3. Walked(DOMAIN commandLineOptions', given', given', 1)
    BY <2>2, WalkStarts
  <2>4. Overridden(commandLineOptions', defaultValues', given', 0, defaultValues')
    BY <2>2, OverridesStart
  <2>5. Seen(given', given', 1) = 0
    BY <2>2 DEF Seen
  <2> QED BY <2>2, <2>3, <2>4, <2>5 DEF ParsingInv
<1>2. CASE SkipArgument
  <2>1. /\ step = "fromArguments" /\ index <= Len(args) /\ args[index] \notin DOMAIN commandLineOptions
        /\ UNCHANGED <<commandLineOptions, defaultValues, given, args, cfg>> /\ index' = index + 1
    BY <1>2 DEF SkipArgument, IsCommand
  <2>2. /\ args \in Seq(Strings) /\ given \in Seq(Strings) /\ index \in Nat \ {0}
        /\ Walked(DOMAIN commandLineOptions, given, args, index)
        /\ Overridden(commandLineOptions, defaultValues, given, Seen(given, args, index), cfg)
    BY <2>1 DEF TypeOK, ParsingInv
  <2>3. Walked(DOMAIN commandLineOptions, given, args, index + 1)
    BY <2>1, <2>2, WalkSkips
  <2> DEFINE n == Seen(given, args, index)
  <2>4. n \in Nat /\ n < Len(given) /\ Seen(given, args, index + 1) = n + 1
    BY <2>1, <2>2 DEF Walked, Seen
  <2>5. n + 1 \notin Commands(DOMAIN commandLineOptions, given)
    <3>1. args[index] = given[n + 1]
      <4>1. index \in index..Len(args) /\ n + index - index + 1 = n + 1
        BY <2>1, <2>2, <2>4
      <4> QED BY <2>2, <4>1 DEF Walked
    <3>2. n + 1 \in 1..Len(given)
      BY <2>4, <2>2
    <3> QED BY <2>1, <2>2, <3>1, <3>2, CommandsAre
  <2> HIDE DEF n
  <2>6. Overridden(commandLineOptions, defaultValues, given, n + 1, cfg)
    <3>1. n + 1 \in Nat /\ n <= n + 1 /\ \A i \in 1..Len(given) : i > n /\ i <= n + 1 => i = n + 1
      BY <2>4
    <3>2. \A i \in 1..Len(given) : i > n /\ i <= n + 1 => i \notin Commands(DOMAIN commandLineOptions, given)
      BY <2>5, <3>1
    <3> QED BY <2>2, <2>4, <3>1, <3>2, OverridesSkip DEF n
  <2> QED BY <2>1, <2>3, <2>4, <2>6 DEF ParsingInv
<1>3. CASE ParseCommand
  <2> DEFINE n == Seen(given, args, index)
             m == Seen(given, Erase(index), index)
             put == Put(cfg, commandLineOptions[args[index]], ValueAt(index + 1))
  <2>1. /\ step = "fromArguments" /\ index <= Len(args) /\ args[index] \in DOMAIN commandLineOptions
        /\ UNCHANGED <<commandLineOptions, defaultValues, given, index>>
        /\ args' = Erase(index) /\ cfg' = put
    BY <1>3 DEF ParseCommand, IsCommand
  <2>2. /\ args \in Seq(Strings) /\ given \in Seq(Strings) /\ index \in Nat \ {0}
        /\ Walked(DOMAIN commandLineOptions, given, args, index)
        /\ Overridden(commandLineOptions, defaultValues, given, n, cfg)
    BY <2>1 DEF TypeOK, ParsingInv
  <2>3. /\ Walked(DOMAIN commandLineOptions, given, Erase(index), index)
        /\ n + 1 \in Commands(DOMAIN commandLineOptions, given)
        /\ ValueAt(index + 1) = IF n + 1 = Len(given) THEN Blank ELSE given[n + 2]
        /\ m = IF n + 1 = Len(given) THEN n + 1 ELSE n + 2
    BY <2>1, <2>2, WalkErases
  <2>4. n \in Nat /\ n < Len(given) /\ args[index] = given[n + 1]
    <3>1. n \in Nat /\ n < Len(given)
      BY <2>1, <2>2 DEF Walked, Seen
    <3>2. index \in index..Len(args) /\ n + index - index + 1 = n + 1
      BY <2>1, <2>2, <3>1
    <3> QED BY <2>2, <3>1, <3>2 DEF Walked
  <2>5. ValueAt(index + 1) = ValueOf(given, n + 1)
    <3>1. (n + 1) + 1 = n + 2
      BY <2>4
    <3> QED BY <2>3, <3>1 DEF ValueOf
  <2> HIDE DEF n, m
  <2>6. Overridden(commandLineOptions, defaultValues, given, n + 1, put)
    BY <2>2, <2>3, <2>4, <2>5, OverridesPut
  <2>7. Overridden(commandLineOptions, defaultValues, given, m, put)
    <3>1. m \in Nat /\ n + 1 \in Nat /\ n + 1 <= m /\ m <= n + 2
      BY <2>3, <2>4
    <3>2. \A i \in 1..Len(given) : i > n + 1 /\ i <= m => i - 1 = n + 1
      BY <2>4, <3>1
    <3>3. \A i \in 1..Len(given) : i > n + 1 /\ i <= m => i \notin Commands(DOMAIN commandLineOptions, given)
      BY <2>2, <2>3, <3>2, CommandsAre
    <3> HIDE DEF put
    <3> QED BY <2>2, <2>6, <3>1, <3>3, OverridesSkip
  <2> QED BY <2>1, <2>3, <2>7 DEF ParsingInv, m
<1>4. CASE step' # "fromArguments"
  BY <1>4 DEF ParsingInv
<1>5. CASE UNCHANGED <<step, commandLineOptions, defaultValues, given, args, index, cfg>>
  BY <1>5 DEF ParsingInv
<1>6. CASE step = "fromArguments" /\ step' = "fromArguments"
  BY <1>2, <1>3, <1>5, <1>6
     DEF Next, addCommandLineOption, addDefaultValue, setOption, getOption, StartParsing,
         FinishParsing, getManager, replaceGlobalConfiguration, StartLoop, Sleep, Hooks, vars
<1> QED BY <1>1, <1>4, <1>6

LEMMA ParsingInvariance == Spec => []ParsingInv
<1>1. Init => ParsingInv
  BY DEF Init, ParsingInv
<1>2. TypeOK /\ ParsingInv /\ [Next]_vars => ParsingInv'
  BY ParsingNext
<1>3. IInv => TypeOK
  BY DEF IInv
<1> QED BY <1>1, <1>2, <1>3, Invariance, PTL DEF Spec

\* fromArguments computes what the command line says of every option, and leaves the
\* other arguments in their order, however long the command line is and wherever its
\* commands stand.
THEOREM ParsesWhatIsSaid == Spec => ParsedAsSaid
<1>1. TypeOK /\ ParsingInv /\ [Next]_vars =>
          [step = "fromArguments" /\ step' = "initialise" =>
             /\ args' = LeftOver(given)
             /\ globalConfiguration' = [o \in DOMAIN defaultValues \cup Mentioned(given) |-> Said(given, o)]]_vars
  <2> SUFFICES ASSUME TypeOK, ParsingInv, [Next]_vars, step = "fromArguments", step' = "initialise"
               PROVE  /\ args' = LeftOver(given)
                      /\ globalConfiguration' = [o \in DOMAIN defaultValues \cup Mentioned(given) |-> Said(given, o)]
    OBVIOUS
  <2>1. FinishParsing
    BY DEF Next, addCommandLineOption, addDefaultValue, setOption, getOption, StartParsing, ParseCommand,
           SkipArgument, getManager, replaceGlobalConfiguration, StartLoop, Sleep, Hooks, vars
  <2>2. index > Len(args) /\ args' = args /\ globalConfiguration' = cfg
    BY <2>1 DEF FinishParsing, setGlobalConfiguration, parser
  <2>3. /\ args \in Seq(Strings) /\ given \in Seq(Strings) /\ index \in Nat \ {0} /\ cfg \in Instances
        /\ Walked(DOMAIN commandLineOptions, given, args, index)
        /\ Overridden(commandLineOptions, defaultValues, given, Seen(given, args, index), cfg)
    BY DEF TypeOK, ParsingInv, Complete
  <2>4. args = LeftOver(given) /\ Seen(given, args, index) = Len(given)
    BY <2>2, <2>3, WalkEnds
  <2>5. cfg = [o \in DOMAIN defaultValues \cup Mentioned(given) |-> Said(given, o)]
    BY <2>3, <2>4, OverridesEnd
  <2> QED BY <2>2, <2>4, <2>5
<1>2. IInv => TypeOK
  BY DEF IInv
<1> QED BY <1>1, <1>2, Invariance, ParsingInvariance, PTL DEF Spec, ParsedAsSaid
==============================================================================
