\* A web clip, a note, highlights and contents written by two requests, moves and deletions.
SPECIFICATION Spec
CONSTANTS
    MaxDocs = 2
    Kbs = {k1, k2}
    Texts = {0, 1}
    Highlights = {"h1"}
    Places = {1, 2}
    PageLimit = 2
    Uploads = {}
    Patches = {}
    Length = 1
    BadFiles = {}
    StorageLimit = 4
    OcrSlots = 2
    PageCounts = {1}
    PagesPerDoc = 1
    FormatOf <- PdfAndHtml
    Backend = "local"
    FileText = 1
    Requests = {r1, r2}
    HighlightCap = 1
    MaxVersion = 1
    Ops = {"clip", "mark", "delete", "content", "note", "move", "delete_kb"}
    MaxRestarts = 0
    Uploaded = 0
    k1 = k1
    k2 = k2
    r1 = r1
    r2 = r2
    NoDoc = NoDoc
    NoChunks = NoChunks
    NoFile = NoFile
SYMMETRY Symmetry
CHECK_DEADLOCK FALSE
INVARIANTS StoreType NoStaleAnnotation VersionNamesMarks
PROPERTY OneClipPerPage
