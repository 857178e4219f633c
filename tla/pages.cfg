CONSTANTS
    p1 = p1
    p2 = p2
    k1 = k1
    k2 = k2
    c1 = c1
    c2 = c2
    Pages <- PagesValue
    First = p1
    Alike <- AlikeValue
    Keys <- TwoKeys
    Chunks <- TwoChunks
    MaxBlocks = 3
    MaxRows = 2
    Decisions <- AllDecisions
    AtATime = 2
    Taxonomy <- AllTaxonomy
    MaxSpent = 6
SPECIFICATION Spec
INVARIANT InventoryAgrees
INVARIANT MarkersMatch
INVARIANT GeneratedCurrent
INVARIANT LintClean
 
PROPERTY UserTextKept
CHECK_DEADLOCK FALSE
SYMMETRY ChunkSymmetry
