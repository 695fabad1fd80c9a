SPECIFICATION ChooserSpec
CONSTANTS
    Session = {s1, s2, s3}
    ClientId = {c1, c2, c3}
    SeedBound = 2
    WrapLimit = 4
    NoId = NoId
    NoSession = NoSession
    Cuts = {7, 61}
    Sizes = {60, 8100, 8101}
    Pads = {0, 15}
    Reads = {70, 8112}
    MaxSends = 3
CONSTRAINT Bounded
SYMMETRY SessionSymmetry
INVARIANT UniqueHeads
INVARIANT RepeatedHeadIsNewClient
INVARIANT EncoderFits
INVARIANT Aligned
INVARIANT NothingHeldBack
CHECK_DEADLOCK FALSE
