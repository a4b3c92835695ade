CONSTANTS
    Sources <- SurrogateSource
    Recoveries = {0}
    MaxWord = 1
SPECIFICATION Spec
INVARIANT
    NoEmptyToken
CHECK_DEADLOCK FALSE
