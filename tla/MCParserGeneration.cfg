SPECIFICATION GenerationSpec
CONSTANTS
    InputGrammars <- SampleInputs
    ContextOf <- SampleContextOf
    PhraseLength = 5
    Methods <- AllMethods
    CanonicalLR1 <- SampleCanonical
INVARIANTS SetsExact TransitionsExact KernelsExact TableSound PathsExact ErrorsTrue
PROPERTY Terminates
CHECK_DEADLOCK FALSE
