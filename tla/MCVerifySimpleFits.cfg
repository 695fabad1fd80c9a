SPECIFICATION FramesSpec
CONSTANTS
    Sizes = {1, 60, 8100, 8101, 16200}
    Pads = {0, 15}
    Reads = {70, 8112}
    MaxSends = 2
CHECK_DEADLOCK FALSE
INVARIANT DecoderFits
