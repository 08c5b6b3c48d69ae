---------------------------- MODULE Configuration ----------------------------
(***************************************************************************)
(* nebu::app::framework::Configuration through the life of a program: what  *)
(* an extension registers before main parses the command line, the parsing,  *)
(* and who reads the options afterwards: the two managers, which are created  *)
(* on demand with the options of that moment, and the sleep of mainLoop.     *)
(*                                                                         *)
(* Strings are compared and kept, never taken apart, but for the reading of  *)
(* a number.                                                                 *)
(***************************************************************************)
EXTENDS Integers, SequencesExt

CONSTANTS
    Strings,            \* what values may be
    Arguments,          \* bound: the strings that occur on the command line
    Numbers,            \* a function: the strings that read as an int, and that int
    Blank,              \* the string ""
    Spaces,             \* the strings with no character but white space, "" among them
    Garbage,            \* bound: what an uninitialised int may hold
    UIntLimit,          \* bound: one more than the largest unsigned int
    Options,            \* names of options
    BuiltInCommands,    \* the initial commandLineOptions
    BuiltInDefaults,    \* the initial defaultValues
    Interval,           \* CONFIG_APP_INTERVAL
    ClientOptions,      \* CONFIG_NEBU_URL and CONFIG_APP_UUID
    ExtCommands, ExtOptions, ExtValues, \* what the extension registers and sets
    ReplacingHooks,     \* the hooks in which it replaces the global instance
    Managers,           \* the singletons created on demand
    MaxArgs,            \* bound: the longest command line
    Null

\* The calls of main in which an extension has control.
Hooks == {"registerConfigurationOptions", "initialise", "mainLoop"}

ASSUME ConfigurationAssumption ==
    /\ Blank \in Spaces /\ Spaces \subseteq Strings \ DOMAIN Numbers
    /\ Arguments \subseteq Strings
    /\ UIntLimit \in Nat \ {0}
    /\ DOMAIN BuiltInCommands \subseteq Strings /\ BuiltInCommands \in [DOMAIN BuiltInCommands -> Options]
    /\ DOMAIN BuiltInDefaults \subseteq Options /\ BuiltInDefaults \in [DOMAIN BuiltInDefaults -> Strings]
    /\ ClientOptions \cup {Interval} \subseteq DOMAIN BuiltInDefaults
    /\ ReplacingHooks \subseteq Hooks
    /\ ExtCommands \subseteq Strings /\ ExtOptions \subseteq Options /\ ExtValues \subseteq Strings
    /\ \A names \in SUBSET Options : Null \notin [names -> Strings]
    /\ Null \notin [ClientOptions -> Strings] /\ Null \notin Options

VARIABLES
    step,                   \* the call of main that runs
    commandLineOptions,     \* the option that each command of the command line sets
    defaultValues,
    globalConfiguration,    \* the options of the global instance, Null if there is none
    args,                   \* the arguments fromArguments parses and erases
    index,                  \* its position among them, counted from 1
    cfg,                    \* the options of the instance it builds
    clients,                \* the ClientOptions each manager was created with, or Null
    slept,                  \* the seconds of mainLoop's last sleep, or Null
    missing,                \* the option whose reading ended the program, or Null
    given,                  \* history: the command line
    parsed,                 \* history: the options when fromArguments returned, or Null
    early                   \* history: the managers created before that

registry == <<commandLineOptions, defaultValues>>
parser == <<args, index, cfg>>
outcome == <<slept, missing>>
history == <<given, parsed, early>>
vars == <<step, registry, globalConfiguration, parser, clients, outcome, history>>

Steps == Hooks \cup {"fromArguments", "terminated"}

\* map[key] = value
Put(map, key, value) == [k \in DOMAIN map \cup {key} |-> IF k = key THEN value ELSE map[k]]

Init ==
    /\ step = "registerConfigurationOptions"
    /\ commandLineOptions = BuiltInCommands
    /\ defaultValues = BuiltInDefaults
    /\ globalConfiguration = Null
    /\ args = << >> /\ index = 1 /\ cfg = << >>
    /\ clients = [m \in Managers |-> Null]
    /\ slept = Null /\ missing = Null
    /\ given \in SeqOf(Arguments, MaxArgs)
    /\ parsed = Null /\ early = {}

-----------------------------------------------------------------------------
(* What the hooks of an extension call: registerConfigurationOptions before  *)
(* the command line is parsed, initialise after it, and those of mainLoop.   *)

addCommandLineOption(cmd, option) ==
    /\ step \in Hooks
    /\ commandLineOptions' = Put(commandLineOptions, cmd, option)
    /\ UNCHANGED <<step, defaultValues, globalConfiguration, parser, clients, outcome, history>>

addDefaultValue(option, value) ==
    /\ step \in Hooks
    /\ defaultValues' = Put(defaultValues, option, value)
    /\ UNCHANGED <<step, commandLineOptions, globalConfiguration, parser, clients, outcome, history>>

\* A new instance is made of the defaults of that moment.
getGlobalConfiguration ==
    IF globalConfiguration = Null THEN defaultValues ELSE globalConfiguration

setOption(option, value) ==
    /\ step \in Hooks
    /\ globalConfiguration' = Put(getGlobalConfiguration, option, value)
    /\ UNCHANGED <<step, registry, parser, clients, outcome, history>>

\* getOption, of the global instance: an option that is not there is an exception,
\* which leaves the hook and main.
getOption(option) ==
    /\ step \in Hooks
    /\ globalConfiguration' = getGlobalConfiguration
    /\ IF option \in DOMAIN getGlobalConfiguration
       THEN UNCHANGED <<step, missing>>
       ELSE step' = "terminated" /\ missing' = option
    /\ UNCHANGED <<registry, parser, clients, slept, history>>

\* (mutant of setGlobalConfiguration) the instance that is there is kept
KeepFirst(configuration) ==
    globalConfiguration' = IF globalConfiguration = Null THEN configuration ELSE globalConfiguration

setGlobalConfiguration(configuration) == globalConfiguration' = configuration

\* By a new Configuration, which it may then give options of its own.
replaceGlobalConfiguration ==
    /\ step \in ReplacingHooks
    /\ setGlobalConfiguration(defaultValues)
    /\ UNCHANGED <<step, registry, parser, clients, outcome, history>>

-----------------------------------------------------------------------------
(* fromArguments, one step per turn of its loop.                             *)

StartParsing ==
    /\ step = "registerConfigurationOptions"
    /\ step' = "fromArguments"
    /\ args' = given
    /\ index' = 1
    /\ cfg' = defaultValues
    /\ UNCHANGED <<registry, globalConfiguration, clients, outcome, history>>

IsCommand(arg) == arg \in DOMAIN commandLineOptions

\* The value after the command, or "" at the end of the line.
ValueAt(i) == IF i <= Len(args) THEN args[i] ELSE Blank

\* (mutant of Erase) the value stays
EraseCommand(i) == SubSeq(args, 1, i - 1) \o SubSeq(args, i + 1, Len(args))

\* args without the command at i, and without its value if there is one.
Erase(i) == SubSeq(args, 1, i - 1) \o SubSeq(args, i + 2, Len(args))

ParseCommand ==
    /\ step = "fromArguments" /\ index <= Len(args)
    /\ IsCommand(args[index])
    /\ cfg' = Put(cfg, commandLineOptions[args[index]], ValueAt(index + 1))
    /\ args' = Erase(index)
    /\ UNCHANGED <<step, registry, globalConfiguration, index, clients, outcome, history>>

SkipArgument ==
    /\ step = "fromArguments" /\ index <= Len(args)
    /\ ~IsCommand(args[index])
    /\ index' = index + 1
    /\ UNCHANGED <<step, registry, globalConfiguration, args, cfg, clients, outcome, history>>

FinishParsing ==
    /\ step = "fromArguments" /\ index > Len(args)
    /\ step' = "initialise"
    /\ setGlobalConfiguration(cfg)
    /\ parsed' = cfg
    /\ UNCHANGED <<registry, parser, clients, outcome, given, early>>

-----------------------------------------------------------------------------
(* The readers.                                                              *)

\* getTopologyManager or getVMManager, by a hook or by main once initialise is done.
getManager(m) ==
    /\ step \in Hooks
    /\ clients[m] = Null
    /\ globalConfiguration' = getGlobalConfiguration
    /\ clients' = [clients EXCEPT ![m] = [o \in ClientOptions |-> getGlobalConfiguration[o]]]
    /\ early' = IF parsed = Null THEN early \cup {m} ELSE early
    /\ UNCHANGED <<step, registry, parser, outcome, given, parsed>>

StartLoop ==
    /\ step = "initialise"
    /\ \A m \in Managers : clients[m] # Null
    /\ step' = "mainLoop"
    /\ UNCHANGED <<registry, globalConfiguration, parser, clients, outcome, history>>

\* operator>> stores the number, or 0 when there are characters but no number; it
\* stores nothing, and the int stays uninitialised, when there is only white space.
getOptionInt(option) ==
    LET value == getGlobalConfiguration[option]
    IN IF value \in DOMAIN Numbers THEN {Numbers[value]}
       ELSE IF value \in Spaces THEN Garbage
       ELSE {0}

\* sleep takes an unsigned int.
Unsigned(n) == n % UIntLimit

Sleep ==
    /\ step = "mainLoop"
    /\ slept' \in {Unsigned(n) : n \in getOptionInt(Interval)}
    /\ UNCHANGED <<step, registry, globalConfiguration, parser, clients, missing, history>>

Next ==
    \/ \E cmd \in ExtCommands, o \in ExtOptions : addCommandLineOption(cmd, o)
    \/ \E o \in ExtOptions, v \in ExtValues : addDefaultValue(o, v) \/ setOption(o, v)
    \/ \E o \in ExtOptions : getOption(o)
    \/ replaceGlobalConfiguration
    \/ StartParsing \/ ParseCommand \/ SkipArgument \/ FinishParsing
    \/ \E m \in Managers : getManager(m)
    \/ StartLoop
    \/ Sleep

Spec == Init /\ [][Next]_vars

-----------------------------------------------------------------------------
(* Properties                                                                *)

\* The positions of a command line that hold a command: those that are not the
\* value of the command before.
CommandAt(line) ==
    LET at[i \in 0..Len(line)] == i > 0 /\ IsCommand(line[i]) /\ ~at[i - 1]
    IN {i \in DOMAIN line : at[i]}

\* What a position leaves to the extension.
LeftOver(line) ==
    LET kept == {i \in DOMAIN line : i \notin CommandAt(line) /\ i - 1 \notin CommandAt(line)}
    IN [k \in 1..Cardinality(kept) |->
           line[CHOOSE i \in kept : Cardinality({j \in kept : j <= i}) = k]]

\* What a command line says of an option: the value after the last command for it.
Said(line, option) ==
    LET at == {i \in CommandAt(line) : commandLineOptions[line[i]] = option}
    IN IF at = {} THEN defaultValues[option]
       ELSE IF Max(at) = Len(line) THEN Blank
       ELSE line[Max(at) + 1]

Mentioned(line) == {commandLineOptions[line[i]] : i \in CommandAt(line)}

\* fromArguments, which erases while it walks, computes what the command line says,
\* and leaves the other arguments to initialise in their order: the last command
\* for an option counts, a value is never taken for a command, a command at the
\* end has the value "", and what is not mentioned has its default.
ParsedAsSaid ==
    [][step = "fromArguments" /\ step' = "initialise" =>
         /\ args' = LeftOver(given)
         /\ globalConfiguration' = [o \in DOMAIN defaultValues \cup Mentioned(given) |-> Said(given, o)]]_vars

\* The instance that fromArguments makes is not replaced in its turn.
ParsedIsKept == ReplacingHooks \subseteq {"registerConfigurationOptions"}

\* A hook can have read or set options, or replaced the instance, before the command
\* line was parsed, and can set options of its own at any time: the managers still contact the middleware
\* and the application that the command line names, unless a hook asked for them
\* before it was parsed.
ManagersUseTheCommandLine ==
    (ExtOptions \cap ClientOptions = {} /\ ParsedIsKept) =>
        \A m \in Managers \ early : clients[m] # Null =>
            \A o \in ClientOptions : clients[m][o] = parsed[o]

\* "throws std::out_of_range if the option does not exist": an option with a default
\* or a value by the time the command line is parsed can be read ever after, whatever
\* instance was there before.
ParsedOptionsReadable ==
    (missing # Null /\ parsed # Null /\ ParsedIsKept) => missing \notin DOMAIN parsed

\* "before the application sleeps for a configured interval": what is slept is a
\* number that the configuration holds.
SleepsConfiguredInterval ==
    slept # Null => \E s \in DOMAIN Numbers : s = globalConfiguration[Interval] /\ Numbers[s] = slept

\* What holds of it: if the command line, or the default, gives the interval as a
\* number that an unsigned int can hold, then mainLoop sleeps that long, whatever
\* instance was there before it was parsed.  Only an extension that sets the interval
\* itself can change that.
SleepsWhatWasSaid ==
    (slept # Null /\ Interval \notin ExtOptions /\ ParsedIsKept) =>
        LET said == parsed[Interval]
        IN (said \in DOMAIN Numbers /\ Numbers[said] \in 0..(UIntLimit - 1)) => slept = Numbers[said]
=============================================================================
