SPECIFICATION Spec
CONSTANTS
    MaxUp = 2
    MaxDown = 2
    Room = 1
INVARIANT ForgottenIsClosed
INVARIANT OverIsClosed
PROPERTY Pipes
PROPERTY StopEnds
PROPERTY EndTogether
PROPERTY Relayed
CHECK_DEADLOCK FALSE
