\* Two versions of a transcript, the first of up to three segments; one kill.
SPECIFICATION Spec
CONSTANTS
    Texts = {x, y}
    Segments = 3
    LaterSegments = 1
    MaxVersions = 2
    MaxAttempts = 2
    MaxKills = 1
SYMMETRY TextSymmetry
INVARIANTS SharesFate ConflictHasReview  DuplicateHasTarget
