SPECIFICATION Spec
CONSTANTS
    MatchedTexts <- Texts
    Automata <- DroppedList
    MaxTokens = 7
INVARIANT BodyExact
