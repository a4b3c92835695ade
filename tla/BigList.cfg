CONSTANTS
    Values = {a, b}
    Default = a
    ChunkSize = 2
    MaxLen = 5
SPECIFICATION Spec
INVARIANT ChunksFilled
PROPERTY ImplementsList
