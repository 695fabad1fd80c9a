SPECIFICATION Spec
CONSTANTS
    MaxUp = 3
    MaxDown = 3
    Room = 2
INVARIANT WatchedIsLive
INVARIANT TakesTurns
INVARIANT AlwaysTimed
PROPERTY Pipes
PROPERTY Relayed
PROPERTY EndTogether
CHECK_DEADLOCK FALSE
