SPECIFICATION Spec
CONSTANTS
    Bytes <- ByteClasses
    MaxStream = 4
    MaxRead = 2
INVARIANTS CutIsExact CutIsNearest TrimIsSafe
CHECK_DEADLOCK FALSE
