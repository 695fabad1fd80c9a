SPECIFICATION Spec
CONSTANTS
    MaxStarts = 2
    MaxBacklog = 1
    Client = {ui}
    NoClient = NoClient
    DnsForward = {1}
    SendTries = 2
    Ops = {"register", "unregister", "start", "stop", "revoke"}
    OneWorker = TRUE
INVARIANT ConnIsOpen
INVARIANT ReferredIsLive
INVARIANT NothingLost
INVARIANT OwnProfile
CHECK_DEADLOCK FALSE
