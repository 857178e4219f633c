SPECIFICATION FairSpec
CONSTANTS
    Versions <- MCVersions
    Hashes <- MCHashes
    Content <- MCContent
    Sources = {s}
    MaxChunks = 2
    MaxAttempts = 2
    b1 = b1
    b2 = b2
    Blocks <- MCOneBlock
    BatchMax = 2
    ThresholdNum = 1
    ThresholdDen = 1
    Drivers = {"watcher", "process"}
    Answers = {"irrelevant", "placed", "error"}
    ResetFrom = {}
    Decisions = {}
    CrashIn = {"index", "run"}
    MaxEdits = 1
    MaxFaults = 1
    NoFile = NoFile
    NoSource = NoSource
    NoRow = NoRow
    NoBlock = NoBlock
INVARIANT AttemptBudget
PROPERTIES RunTerminates EventuallySettled
