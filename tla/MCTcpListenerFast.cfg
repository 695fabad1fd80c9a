SPECIFICATION Spec
CONSTANTS
    Servers = 2
    MaxConns = 2
PROPERTY StartedListens
CHECK_DEADLOCK FALSE
