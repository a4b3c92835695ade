SPECIFICATION Spec
CONSTANTS
    MatchedTexts <- Texts
    Automata <- ListContexts
    MaxTokens = 7
INVARIANT AvailableInContext
