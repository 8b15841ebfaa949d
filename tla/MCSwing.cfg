CONSTANTS
    Bars <- MCBars
    MaxBars = 6
SPECIFICATION SwingSpec
INVARIANTS
    Partition
    NonInclusive
    RangeIsEnvelope
    FractalsStrict
    SwingCoordinates
    SwingCovers
PROPERTIES
    BacktrackSound
    SwingBacktrackSound
CHECK_DEADLOCK FALSE
