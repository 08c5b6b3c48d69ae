------------------------- MODULE ConfigurationProofs -------------------------
(***************************************************************************)
(* Theorems about Configuration, for every command line of any length, every *)
(* set of options, and every extension that sets none of ClientOptions.      *)
(***************************************************************************)
EXTENDS Configuration, SequenceTheorems, TLAPS

\* What an instance may hold.
Instances == UNION {[names -> Strings] : names \in SUBSET Options}

\* An instance that has every option with a built-in default.
Complete(options) == options \in Instances /\ DOMAIN BuiltInDefaults \subseteq DOMAIN options

TypeOK ==
    /\ step \in Steps
    /\ DOMAIN commandLineOptions \subseteq Strings
    /\ commandLineOptions \in [DOMAIN commandLineOptions -> Options]
    /\ Complete(defaultValues)
    /\ globalConfiguration # Null => Complete(globalConfiguration)
    /\ given \in Seq(Strings)
    /\ step = "fromArguments" => /\ args \in Seq(Strings)
                                 /\ index \in Nat \ {0}
                                 /\ Complete(cfg)
    /\ clients \in [Managers -> [ClientOptions -> Strings] \cup {Null}]
    /\ missing \in Options \cup {Null}
    /\ parsed # Null => Complete(parsed)

\* From fromArguments on there is a global instance, with every option that it had
\* then, unless a hook replaces it; and no hook has changed those that the managers
\* take, nor the interval.
ParsedInv ==
    /\ step \in {"registerConfigurationOptions", "fromArguments"} =>
           parsed = Null /\ missing = Null /\ slept = Null
    /\ step \in {"initialise", "mainLoop"} =>
           /\ parsed # Null /\ globalConfiguration # Null
           /\ missing = Null
           /\ ParsedIsKept => DOMAIN parsed \subseteq DOMAIN globalConfiguration
           /\ (ExtOptions \cap ClientOptions = {} /\ ParsedIsKept) =>
                  \A o \in ClientOptions : globalConfiguration[o] = parsed[o]
           /\ (Interval \notin ExtOptions /\ ParsedIsKept) =>
                  globalConfiguration[Interval] = parsed[Interval]
    /\ parsed = Null => \A m \in Managers \ early : clients[m] = Null

IInv ==
    /\ TypeOK /\ ParsedInv
    /\ ManagersUseTheCommandLine /\ ParsedOptionsReadable /\ SleepsWhatWasSaid

-----------------------------------------------------------------------------
(* Instances.                                                                *)

LEMMA InstancesNotNull == \A options \in Instances : options # Null
BY ConfigurationAssumption DEF Instances

LEMMA PutTyped ==
    ASSUME NEW options, Complete(options), NEW o \in Options, NEW value \in Strings
    PROVE  /\ Complete(Put(options, o, value))
           /\ DOMAIN Put(options, o, value) = DOMAIN options \cup {o}
           /\ \A p \in DOMAIN options \ {o} : Put(options, o, value)[p] = options[p]
<1>1. PICK names \in SUBSET Options : options \in [names -> Strings]
  BY DEF Complete, Instances
<1>2. Put(options, o, value) \in [names \cup {o} -> Strings]
  BY <1>1 DEF Put
<1>3. Put(options, o, value) \in Instances
  BY <1>2 DEF Instances
<1>4. DOMAIN options \subseteq DOMAIN Put(options, o, value)
  BY DEF Put
<1> QED BY <1>3, <1>4 DEF Complete, Put

\* Every option that the managers take has a value in every instance.
LEMMA ClientOptionsThere ==
    ASSUME NEW options, Complete(options)
    PROVE  /\ ClientOptions \subseteq DOMAIN options
           /\ [o \in ClientOptions |-> options[o]] \in [ClientOptions -> Strings]
<1>1. PICK names \in SUBSET Options : options \in [names -> Strings]
  BY DEF Complete, Instances
<1>2. ClientOptions \subseteq DOMAIN options
  BY ConfigurationAssumption DEF Complete
<1> QED BY <1>1, <1>2

LEMMA GlobalComplete == TypeOK => Complete(getGlobalConfiguration) /\ getGlobalConfiguration # Null
BY InstancesNotNull DEF TypeOK, Complete, getGlobalConfiguration

LEMMA ErasedTyped ==
    ASSUME args \in Seq(Strings), index \in Nat \ {0}, index <= Len(args)
    PROVE  /\ Erase(index) \in Seq(Strings)
           /\ ValueAt(index + 1) \in Strings
           /\ args[index] \in Strings
<1>1. SubSeq(args, 1, index - 1) \in Seq(Strings) /\ SubSeq(args, index + 2, Len(args)) \in Seq(Strings)
  BY SubSeqProperties
<1>2. Erase(index) \in Seq(Strings)
  BY <1>1, ConcatProperties DEF Erase
<1>3. ValueAt(index + 1) \in Strings
  BY ConfigurationAssumption, ElementOfSeq DEF ValueAt
<1> QED BY <1>2, <1>3, ElementOfSeq

LEMMA DefaultsComplete == Complete(BuiltInDefaults)
<1>1. BuiltInDefaults \in Instances
  BY ConfigurationAssumption DEF Instances
<1> QED BY <1>1 DEF Complete

-----------------------------------------------------------------------------
(* The invariant.                                                            *)

LEMMA InvInit == Init => IInv
<1> SUFFICES ASSUME Init PROVE IInv
  OBVIOUS
<1>1. given \in Seq(Strings)
  <2>1. PICK n \in Nat : given \in [1..n -> Arguments]
    BY DEF Init, SeqOf
  <2> QED BY <2>1, ConfigurationAssumption
<1>2. TypeOK
  BY <1>1, DefaultsComplete, ConfigurationAssumption DEF Init, TypeOK, Steps, Hooks
<1>3. ParsedInv
  BY DEF Init, ParsedInv
<1>4. ManagersUseTheCommandLine /\ ParsedOptionsReadable /\ SleepsWhatWasSaid
  BY DEF Init, ManagersUseTheCommandLine, ParsedOptionsReadable, SleepsWhatWasSaid
<1> QED BY <1>2, <1>3, <1>4 DEF IInv

LEMMA TypeNext == TypeOK /\ [Next]_vars => TypeOK'
<1> SUFFICES ASSUME TypeOK, [Next]_vars PROVE TypeOK'
  OBVIOUS
<1> USE DEF TypeOK, Steps, Hooks, registry, parser, outcome, history
<1>1. ASSUME NEW cmd \in ExtCommands, NEW o \in ExtOptions, addCommandLineOption(cmd, o)
      PROVE  TypeOK'
  <2>1. cmd \in Strings /\ o \in Options
    BY ConfigurationAssumption
  <2>2. commandLineOptions' \in [DOMAIN commandLineOptions \cup {cmd} -> Options]
    BY <1>1, <2>1 DEF addCommandLineOption, Put
  <2> QED BY <1>1, <2>1, <2>2 DEF addCommandLineOption
<1>2. ASSUME NEW o \in ExtOptions, NEW v \in ExtValues, addDefaultValue(o, v)
      PROVE  TypeOK'
  BY <1>2, PutTyped, ConfigurationAssumption DEF addDefaultValue
<1>3. ASSUME NEW o \in ExtOptions, NEW v \in ExtValues, setOption(o, v)
      PROVE  TypeOK'
  BY <1>3, PutTyped, GlobalComplete, ConfigurationAssumption DEF setOption
<1>4. ASSUME NEW o \in ExtOptions, getOption(o)
      PROVE  TypeOK'
  BY <1>4, GlobalComplete, ConfigurationAssumption DEF getOption
<1>5. CASE StartParsing
  BY <1>5 DEF StartParsing
<1>6. CASE ParseCommand
  <2>1. /\ Erase(index) \in Seq(Strings)
        /\ ValueAt(index + 1) \in Strings
    BY <1>6, ErasedTyped DEF ParseCommand
  <2>2. commandLineOptions[args[index]] \in Options
    BY <1>6 DEF ParseCommand, IsCommand
  <2>3. Complete(cfg')
    BY <1>6, <2>1, <2>2, PutTyped DEF ParseCommand
  <2> QED BY <1>6, <2>1, <2>3 DEF ParseCommand
<1>7. CASE SkipArgument
  BY <1>7 DEF SkipArgument
<1>8. CASE FinishParsing
  BY <1>8 DEF FinishParsing, setGlobalConfiguration
<1>9. ASSUME NEW m \in Managers, getManager(m)
      PROVE  TypeOK'
  <2>1. [o \in ClientOptions |-> getGlobalConfiguration[o]] \in [ClientOptions -> Strings]
    BY GlobalComplete, ClientOptionsThere
  <2>2. clients' \in [Managers -> [ClientOptions -> Strings] \cup {Null}]
    BY <1>9, <2>1 DEF getManager
  <2> QED BY <1>9, <2>2, GlobalComplete DEF getManager
<1>10. CASE StartLoop
  BY <1>10 DEF StartLoop
<1>11. CASE Sleep
  BY <1>11 DEF Sleep
<1>12. CASE replaceGlobalConfiguration
  BY <1>12 DEF replaceGlobalConfiguration, setGlobalConfiguration
<1>13. CASE UNCHANGED vars
  BY <1>13 DEF vars
<1> QED
  BY <1>1, <1>2, <1>3, <1>4, <1>5, <1>6, <1>7, <1>8, <1>9, <1>10, <1>11, <1>12, <1>13 DEF Next

\* setOption leaves the other options of the instance as they are.
LEMMA OptionSet ==
    ASSUME TypeOK, NEW o \in ExtOptions, NEW v \in ExtValues,
           globalConfiguration' = Put(getGlobalConfiguration, o, v)
    PROVE  /\ globalConfiguration' # Null
           /\ DOMAIN globalConfiguration' = DOMAIN getGlobalConfiguration \cup {o}
           /\ \A p \in DOMAIN getGlobalConfiguration \ {o} :
                 globalConfiguration'[p] = getGlobalConfiguration[p]
           /\ ClientOptions \cup {Interval} \subseteq DOMAIN getGlobalConfiguration
<1>1. Complete(getGlobalConfiguration) /\ o \in Options /\ v \in Strings
  BY GlobalComplete, ConfigurationAssumption
<1>2. ClientOptions \cup {Interval} \subseteq DOMAIN getGlobalConfiguration
  BY <1>1, ConfigurationAssumption DEF Complete
<1> DEFINE set == Put(getGlobalConfiguration, o, v)
<1>3. /\ Complete(set)
      /\ DOMAIN set = DOMAIN getGlobalConfiguration \cup {o}
      /\ \A p \in DOMAIN getGlobalConfiguration \ {o} : set[p] = getGlobalConfiguration[p]
  BY <1>1, PutTyped
<1>4. set # Null
  BY <1>3, InstancesNotNull DEF Complete
<1>5. globalConfiguration' = set
  OBVIOUS
<1> HIDE DEF set
<1> QED BY <1>2, <1>3, <1>4, <1>5

LEMMA ParsedNext ==
    ASSUME TypeOK, ParsedInv, [Next]_vars
    PROVE  ParsedInv'
<1> USE DEF ParsedInv, Hooks, registry, parser, outcome, history
<1>1. ASSUME NEW cmd \in ExtCommands, NEW o \in ExtOptions, addCommandLineOption(cmd, o)
      PROVE  ParsedInv'
  BY <1>1 DEF addCommandLineOption
<1>2. ASSUME NEW o \in ExtOptions, NEW v \in ExtValues, addDefaultValue(o, v)
      PROVE  ParsedInv'
  BY <1>2 DEF addDefaultValue
<1>3. ASSUME NEW o \in ExtOptions, NEW v \in ExtValues, setOption(o, v)
      PROVE  ParsedInv'
  <2>1. /\ globalConfiguration' = Put(getGlobalConfiguration, o, v)
        /\ UNCHANGED <<step, missing, slept, parsed, early, clients>>
    BY <1>3 DEF setOption
  <2>2. /\ globalConfiguration' # Null
        /\ DOMAIN globalConfiguration' = DOMAIN getGlobalConfiguration \cup {o}
        /\ \A p \in DOMAIN getGlobalConfiguration \ {o} :
              globalConfiguration'[p] = getGlobalConfiguration[p]
        /\ ClientOptions \cup {Interval} \subseteq DOMAIN getGlobalConfiguration
    BY <2>1, OptionSet
  <2>3. CASE step \in {"initialise", "mainLoop"}
    <3>1. getGlobalConfiguration = globalConfiguration
      BY <2>3 DEF getGlobalConfiguration
    <3>2. ParsedIsKept => DOMAIN parsed' \subseteq DOMAIN globalConfiguration'
      BY <2>1, <2>2, <2>3, <3>1
    <3>3. (ExtOptions \cap ClientOptions = {} /\ ParsedIsKept) =>
              \A p \in ClientOptions : globalConfiguration'[p] = parsed'[p]
      BY <2>1, <2>2, <2>3, <3>1
    <3>4. (Interval \notin ExtOptions /\ ParsedIsKept) =>
              globalConfiguration'[Interval] = parsed'[Interval]
      BY <2>1, <2>2, <2>3, <3>1
    <3> QED BY <2>1, <2>2, <2>3, <3>2, <3>3, <3>4
  <2>4. CASE step \notin {"initialise", "mainLoop"}
    BY <2>1, <2>4
  <2> QED BY <2>3, <2>4
<1>4. ASSUME NEW o \in ExtOptions, getOption(o)
      PROVE  ParsedInv'
  BY <1>4, GlobalComplete DEF getOption, getGlobalConfiguration
<1>5. CASE StartParsing \/ ParseCommand \/ SkipArgument
  BY <1>5 DEF StartParsing, ParseCommand, SkipArgument
<1>6. CASE FinishParsing
  BY <1>6, InstancesNotNull DEF FinishParsing, setGlobalConfiguration, TypeOK, Complete
<1>7. ASSUME NEW m \in Managers, getManager(m)
      PROVE  ParsedInv'
  BY <1>7, GlobalComplete DEF getManager, getGlobalConfiguration, TypeOK
<1>8. CASE StartLoop
  BY <1>8 DEF StartLoop
<1>9. CASE Sleep
  BY <1>9 DEF Sleep
<1>10. CASE replaceGlobalConfiguration
  <2>1. /\ globalConfiguration' = defaultValues /\ globalConfiguration' # Null
        /\ UNCHANGED <<step, missing, slept, parsed, early, clients>>
    BY <1>10, InstancesNotNull
       DEF replaceGlobalConfiguration, setGlobalConfiguration, TypeOK, Complete
  <2>2. ParsedIsKept => step = "registerConfigurationOptions"
    BY <1>10 DEF replaceGlobalConfiguration, ParsedIsKept
  <2> QED BY <2>1, <2>2
<1>11. CASE UNCHANGED vars
  BY <1>11 DEF vars
<1> QED
  BY <1>1, <1>2, <1>3, <1>4, <1>5, <1>6, <1>7, <1>8, <1>9, <1>10, <1>11 DEF Next

\* Once the command line is parsed a manager is created with what it says, and an
\* option it left in the instance is there to be read.
LEMMA ReadersNext ==
    ASSUME TypeOK, ParsedInv, ManagersUseTheCommandLine, ParsedOptionsReadable, [Next]_vars
    PROVE  ManagersUseTheCommandLine' /\ ParsedOptionsReadable'
<1> USE DEF ManagersUseTheCommandLine, ParsedOptionsReadable, ParsedInv, Hooks, history, outcome, registry, parser
<1>a. ASSUME UNCHANGED <<clients, early, missing, parsed>>
      PROVE  ManagersUseTheCommandLine' /\ ParsedOptionsReadable'
  BY <1>a
<1>1. ASSUME NEW o \in ExtOptions, getOption(o)
      PROVE  ManagersUseTheCommandLine' /\ ParsedOptionsReadable'
  BY <1>1 DEF getOption, getGlobalConfiguration
<1>2. CASE FinishParsing
  <2>1. \A m \in Managers \ early' : clients'[m] = Null
    BY <1>2 DEF FinishParsing
  <2>2. missing' = Null
    BY <1>2 DEF FinishParsing
  <2> QED BY <2>1, <2>2
<1>3. ASSUME NEW m \in Managers, getManager(m)
      PROVE  ManagersUseTheCommandLine' /\ ParsedOptionsReadable'
  <2>1. clients' = [clients EXCEPT ![m] = [o \in ClientOptions |-> getGlobalConfiguration[o]]]
    BY <1>3 DEF getManager
  <2>2. CASE parsed = Null
    BY <1>3, <2>1, <2>2 DEF getManager, TypeOK
  <2>3. CASE parsed # Null
    <3>1. step \in {"initialise", "mainLoop"} /\ UNCHANGED <<early, missing, parsed>>
      BY <1>3, <2>3 DEF getManager
    <3>2. getGlobalConfiguration = globalConfiguration
      BY <3>1 DEF getGlobalConfiguration
    <3>3. ASSUME ExtOptions \cap ClientOptions = {}, ParsedIsKept, NEW n \in Managers \ early, clients'[n] # Null,
                 NEW o \in ClientOptions
          PROVE  clients'[n][o] = parsed[o]
      <4>1. CASE n = m
        BY <2>1, <3>1, <3>2, <3>3, <4>1 DEF TypeOK
      <4>2. CASE n # m
        BY <2>1, <3>3, <4>2 DEF TypeOK
      <4> QED BY <4>1, <4>2
    <3> QED BY <3>1, <3>3
  <2> QED BY <2>2, <2>3
<1>4. CASE Sleep
  BY <1>4, <1>a DEF Sleep
<1>5. CASE UNCHANGED vars
  BY <1>5, <1>a DEF vars
<1>6. ASSUME NEW o \in ExtOptions, NEW v \in ExtValues, addDefaultValue(o, v) \/ setOption(o, v)
      PROVE  ManagersUseTheCommandLine' /\ ParsedOptionsReadable'
  BY <1>6, <1>a DEF addDefaultValue, setOption
<1>7. ASSUME NEW cmd \in ExtCommands, NEW o \in ExtOptions, addCommandLineOption(cmd, o)
      PROVE  ManagersUseTheCommandLine' /\ ParsedOptionsReadable'
  BY <1>7, <1>a DEF addCommandLineOption
<1>8. CASE StartParsing \/ ParseCommand \/ SkipArgument \/ StartLoop
  BY <1>8, <1>a DEF StartParsing, ParseCommand, SkipArgument, StartLoop
<1>9. CASE replaceGlobalConfiguration
  BY <1>9, <1>a DEF replaceGlobalConfiguration
<1> QED
  BY <1>1, <1>2, <1>3, <1>4, <1>5, <1>6, <1>7, <1>8, <1>9 DEF Next

\* sleep gets the number that an unsigned int can hold.
LEMMA UnsignedKeeps == \A n \in 0..(UIntLimit - 1) : Unsigned(n) = n
BY ConfigurationAssumption DEF Unsigned

LEMMA SleepNext ==
    ASSUME TypeOK, ParsedInv, SleepsWhatWasSaid, [Next]_vars
    PROVE  SleepsWhatWasSaid'
<1> USE DEF SleepsWhatWasSaid, ParsedInv, Hooks, history, outcome, registry, parser
<1>a. ASSUME UNCHANGED <<slept, parsed>> PROVE SleepsWhatWasSaid'
  BY <1>a
<1>1. CASE Sleep
  <2> SUFFICES ASSUME Interval \notin ExtOptions, ParsedIsKept, parsed[Interval] \in DOMAIN Numbers,
                      Numbers[parsed[Interval]] \in 0..(UIntLimit - 1)
               PROVE  slept' = Numbers[parsed[Interval]]
    BY <1>1 DEF Sleep
  <2>1. getGlobalConfiguration = globalConfiguration /\ globalConfiguration[Interval] = parsed[Interval]
    BY <1>1 DEF Sleep, getGlobalConfiguration
  <2>2. getOptionInt(Interval) = {Numbers[parsed[Interval]]}
    BY <2>1 DEF getOptionInt
  <2>3. slept' = Unsigned(Numbers[parsed[Interval]])
    BY <1>1, <2>2 DEF Sleep
  <2> QED BY <2>3, UnsignedKeeps
<1>2. CASE FinishParsing
  BY <1>2 DEF FinishParsing
<1>3. ASSUME NEW cmd \in ExtCommands, NEW o \in ExtOptions, addCommandLineOption(cmd, o)
      PROVE  SleepsWhatWasSaid'
  BY <1>3, <1>a DEF addCommandLineOption
<1>4. ASSUME NEW o \in ExtOptions, NEW v \in ExtValues, addDefaultValue(o, v) \/ setOption(o, v)
      PROVE  SleepsWhatWasSaid'
  BY <1>4, <1>a DEF addDefaultValue, setOption
<1>5. ASSUME NEW o \in ExtOptions, getOption(o)
      PROVE  SleepsWhatWasSaid'
  BY <1>5, <1>a DEF getOption
<1>6. CASE StartParsing \/ ParseCommand \/ SkipArgument \/ StartLoop
  BY <1>6, <1>a DEF StartParsing, ParseCommand, SkipArgument, StartLoop
<1>7. ASSUME NEW m \in Managers, getManager(m)
      PROVE  SleepsWhatWasSaid'
  BY <1>7, <1>a DEF getManager
<1>8. CASE replaceGlobalConfiguration
  BY <1>8, <1>a DEF replaceGlobalConfiguration
<1>9. CASE UNCHANGED vars
  BY <1>9, <1>a DEF vars
<1> QED
  BY <1>1, <1>2, <1>3, <1>4, <1>5, <1>6, <1>7, <1>8, <1>9 DEF Next

LEMMA Invariance == Spec => []IInv
<1>1. IInv /\ [Next]_vars => IInv'
  BY TypeNext, ParsedNext, ReadersNext, SleepNext DEF IInv
<1> QED BY <1>1, InvInit, PTL DEF Spec

-----------------------------------------------------------------------------
(* The theorems.                                                             *)

\* However often a hook replaces or changes the global instance, a manager created
\* after fromArguments contacts what the command line names.
THEOREM ManagersFollowTheCommandLine == Spec => []ManagersUseTheCommandLine
<1>1. IInv => ManagersUseTheCommandLine
  BY DEF IInv
<1> QED BY <1>1, Invariance, PTL

\* getOption never throws for an option that the parsed instance had.
THEOREM ParsedOptionsStay == Spec => []ParsedOptionsReadable
<1>1. IInv => ParsedOptionsReadable
  BY DEF IInv
<1> QED BY <1>1, Invariance, PTL

\* An interval given as a number that an unsigned int can hold is slept, unless the
\* extension sets it: no instance of before the parsing is asked for it.
THEOREM IntervalIsSlept == Spec => []SleepsWhatWasSaid
<1>1. IInv => SleepsWhatWasSaid
  BY DEF IInv
<1> QED BY <1>1, Invariance, PTL
=============================================================================
