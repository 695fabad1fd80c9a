SPECIFICATION RangeSpec
CONSTANTS
    Width = 4
    Lengths = {1, 2}
    Entries = 1
INVARIANT ListedIsFound
CHECK_DEADLOCK FALSE
