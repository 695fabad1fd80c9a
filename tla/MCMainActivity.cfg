SPECIFICATION LiveUiSpec
CONSTANTS
    a1 = a1
    a2 = a2
    MaxStarts = 2
    MaxBacklog = 1
    Client = {a1, a2}
    NoClient = NoClient
    DnsForward = {1}
    SendTries = 1
    Ops = {}
    OneWorker = FALSE
    Worlds <- MCWorlds
INVARIANT WholeOrNothing
INVARIANT UiTruthful
PROPERTY OneLifecycle
PROPERTY StartsAlone
PROPERTY ButtonComesBack
PROPERTY DialogCloses
CHECK_DEADLOCK FALSE
