SPECIFICATION Spec
CONSTANTS
    MatchedTexts <- Texts
    Automata <- AllAutomata
    MaxTokens = 8
INVARIANTS ItemsBacked ReductionsFit BodyExact QueriesExact ParsesTheLanguage ExpectedExact ChoosesInContext
PROPERTY BuildsTrees
