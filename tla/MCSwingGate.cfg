CONSTANTS
    Bars <- MCBars
    MaxBars = 6
SPECIFICATION SwingSpec
INVARIANT SeparatedFractalsConfirm
CHECK_DEADLOCK FALSE
