CONSTANTS
    Urls = {u1, u2}
    Contents <- MCContents
    MaxChanges = 1
    MaxBatch = 1
SPECIFICATION Spec
INVARIANT
    AnswersLocate
