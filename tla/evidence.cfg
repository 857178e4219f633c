SPECIFICATION Spec
CONSTANTS
    Versions <- MCVersions
    Hashes <- MCHashes
    Content <- MCContent
    Sources = {s}
    MaxChunks = 2
    MaxAttempts = 2
    b1 = b1
    b2 = b2
    Blocks <- MCBlocks
    BatchMax = 2
    ThresholdNum = 1
    ThresholdDen = 2
    Drivers = {"watcher", "process", "auto"}
    Answers = {"placed", "duplicate"}
    ResetFrom = {}
    Decisions = {"accept_new", "deprecate_existing", "merge", "mark_conflicted", "keep_existing"}
    CrashIn = {"index", "run"}
    MaxEdits = 2
    MaxFaults = 1
    NoFile = NoFile
    NoSource = NoSource
    NoRow = NoRow
    NoBlock = NoBlock
INVARIANTS TypeOK     CompletedRunListsStale
PROPERTY ImplementsLifecycle
SYMMETRY BlockSymmetry
