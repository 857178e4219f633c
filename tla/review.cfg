SPECIFICATION Spec
CONSTANTS
    Versions <- MCTwoVersions
    Hashes <- MCHashes
    Content <- MCTwoContent
    Sources = {s}
    MaxChunks = 1
    MaxAttempts = 2
    b1 = b1
    b2 = b2
    Blocks <- MCBlocks
    BatchMax = 2
    ThresholdNum = 1
    ThresholdDen = 2
    Drivers = {"process"}
    Answers = {"irrelevant", "placed", "conflicted_pending"}
    ResetFrom = {"irrelevant"}
    Decisions = {"accept_new", "deprecate_existing", "merge", "mark_conflicted", "keep_existing", "delete_duplicate"}
    CrashIn = {"index", "run", "apply"}
    MaxEdits = 1
    MaxFaults = 1
    NoFile = NoFile
    NoSource = NoSource
    NoRow = NoRow
    NoBlock = NoBlock
INVARIANTS PlacedHasBlock CompletedRunListsStale
SYMMETRY BlockSymmetry
