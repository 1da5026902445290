SPECIFICATION LiveSpecClient
CONSTANTS
    Keys <- MCKeys
    v1 = v1
    v2 = v2
    Versions = {v1, v2}
    ServerVersion = v1
    Objects = {"manager", "options"}
    Models = {"nodes"}
    Sessions = 2
    Options = {"NotifyTransactions", "NotifyOnDriverUnload", "ConfigPath", "SaveLogLevel"}
    DataOf <- MCDataOf
    OptionFiles <- MCFiles
    Default = "default"
    BusyKeys <- NoKey
    Uses = 2
INVARIANTS
    TypeOKClient
    OnlyCompatible
    NothingLost
    ReadyMeansMirrored
    AnswerIsOwn
    OptionsAgree
PROPERTIES
    ReplicaSpec
    CompatibleGetsReady
    IncompatibleIsClosed
CHECK_DEADLOCK FALSE
