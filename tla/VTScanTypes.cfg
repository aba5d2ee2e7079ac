SPECIFICATION Spec
CONSTANTS
    Bytes <- ByteClasses
    MaxStream = 4
    MaxRead = 2
INVARIANT TypeOK
CHECK_DEADLOCK FALSE
