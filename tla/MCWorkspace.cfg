CONSTANTS
    Urls = {u1, u2}
    Contents <- MCContents
    MaxChanges = 2
    MaxBatch = 2
SPECIFICATION Spec
INVARIANTS
    DataInSync
    ShownInSync
PROPERTIES
    AnswersWhenIdle
    Converges
