SPECIFICATION Spec
CONSTANT Inputs <- TypedKeys
CONSTANT Wrap = 134217728
INVARIANT HeldCanGrow
CHECK_DEADLOCK FALSE
