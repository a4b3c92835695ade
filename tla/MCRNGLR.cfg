SPECIFICATION Spec
CONSTANTS
    Automata <- AllAutomata
    RNGLR1Automata <- LR1Automata
    MaxTokens = 6
    MaxRead = 5
    MatchedTexts <- Texts
INVARIANTS ParsesTheLanguage ForestExact ChoosesInContext
PROPERTY Terminates
