SPECIFICATION Spec
CONSTANTS
    Servers = 2
    MaxConns = 2
PROPERTY StoppedEnds
PROPERTY NothingAfterStop
PROPERTY ListensUnlessLeaked
CHECK_DEADLOCK FALSE
