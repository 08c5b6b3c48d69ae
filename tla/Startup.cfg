CONSTANTS
    Strings <- MCStrings
    Arguments = {"--interval", "--app", "--nebu", "--ext", "5", "w", "", " "}
    Numbers <- MCNumbers
    Blank = ""
    Spaces = {"", " "}
    Garbage <- MCGarbage
    UIntLimit = 256
    Options = {"app.interval", "app.uuid", "nebu.url", "ext.option"}
    BuiltInCommands <- MCCommands
    BuiltInDefaults <- MCDefaults
    Interval = "app.interval"
    ClientOptions = {"app.uuid", "nebu.url"}
    ExtCommands = {"--ext"}
    ExtOptions = {"ext.option"}
    ExtValues = {"w"}
    ReplacingHooks = {"registerConfigurationOptions"}
    Managers = {"topologyManager", "vmManager"}
    MaxArgs = 4
    Null = Null
SPECIFICATION Spec
INVARIANTS
    ManagersUseTheCommandLine
    ParsedOptionsReadable
    SleepsWhatWasSaid
PROPERTY ParsedAsSaid
CHECK_DEADLOCK FALSE
