SPECIFICATION Spec
CONSTANT Inputs <- MCInputs
INVARIANTS AsStandard Inverts
CHECK_DEADLOCK FALSE
