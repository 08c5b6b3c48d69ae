CONSTANTS
    Strings <- MCStrings
    Arguments = {"--interval", "60"}
    Numbers <- MCNumbers
    Blank = ""
    Spaces = {"", " "}
    Garbage <- MCGarbage
    UIntLimit = 256
    Options = {"app.interval", "app.uuid", "nebu.url", "ext.option"}
    BuiltInCommands <- MCCommands
    BuiltInDefaults <- MCDefaults
    Interval = "app.interval"
    ClientOptions = {"app.uuid", "nebu.url"}
    ExtCommands = {"--ext"}
    ExtOptions = {"ext.option"}
    ExtValues = {"w"}
    ReplacingHooks = {"registerConfigurationOptions"}
    Managers = {"topologyManager", "vmManager"}
    MaxArgs = 2
    Null = Null
SPECIFICATION Spec
INVARIANT SleepsConfiguredInterval
CHECK_DEADLOCK FALSE
