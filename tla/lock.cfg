SPECIFICATION FairSpec
CONSTANTS
    Procs = {p, q, w}
    Pollers = {w}
    Foreign = {q}
    NoFile = NoFile
    Empty = Empty
    Garbled = Garbled
INVARIANTS Excludes RefusedForAHolder
PROPERTY PollersGetIn
