SPECIFICATION Spec
CONSTANTS
    Versions <- MCOneVersion
    Hashes <- MCHashes
    Content <- MCOneContent
    Sources = {s, t}
    MaxChunks = 1
    MaxAttempts = 2
    b1 = b1
    b2 = b2
    Blocks <- MCBlocks
    BatchMax = 2
    ThresholdNum = 1
    ThresholdDen = 2
    Drivers = {"process", "watcher", "reindex"}
    Answers = {"placed", "duplicate", "conflicted_pending"}
    ResetFrom = {}
    Decisions = {"accept_new", "keep_existing"}
    CrashIn = {"run"}
    MaxEdits = 2
    MaxFaults = 1
    NoFile = NoFile
    NoSource = NoSource
    NoRow = NoRow
    NoBlock = NoBlock
INVARIANTS EvidenceOfOwnSource
SYMMETRY BlockSymmetry
