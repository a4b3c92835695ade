SPECIFICATION Spec
CONSTANT Inputs <- AllInputs
INVARIANTS LookaheadsComplete ItemsComplete
PROPERTY Terminates
CHECK_DEADLOCK FALSE
