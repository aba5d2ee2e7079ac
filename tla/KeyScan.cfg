SPECIFICATION Spec
CONSTANT Inputs <- TypedKeys
CONSTANT Wrap = 134217728
INVARIANTS DetachIsExact InputForwarded
PROPERTIES EscapeIsForwarded
CHECK_DEADLOCK FALSE
