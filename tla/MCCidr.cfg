SPECIFICATION RangeSpec
CONSTANTS
    Width = 4
    Lengths = {0, 1, 2, 4}
    Entries = 2
INVARIANT EndsOfRange
INVARIANT OnlyListed
CHECK_DEADLOCK FALSE
