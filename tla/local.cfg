\* A text and a binary file, three coroutines on one connection, restarts.
SPECIFICATION Spec
CONSTANTS
    TextPaths = {"t"}
    BinaryPaths = {"b"}
    MarkedPaths = {"t"}
    Marks = {m1, m2}
    Slots = {s1, s2}
    MaxContents = 2
    MaxIds = 2
    Ops = {"content", "upload", "delete", "upsert", "remove", "mcp edit", "mcp create", "mcp delete"}
SYMMETRY LocalSymmetry
CONSTRAINT Untainted
INVARIANTS   NoStaleAnnotation
