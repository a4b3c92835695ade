CONSTANTS
    Sources <- AllSources
    Recoveries = {0, 1, 2}
    MaxWord = 3
SPECIFICATION Spec
INVARIANTS
    RecognisesDefinitions
    RefusesUnmatchable
    LexesByDefinition
    RecoversNearby
    PlacesExact
PROPERTY
    Terminates
CHECK_DEADLOCK FALSE
