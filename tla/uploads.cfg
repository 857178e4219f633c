\* An upload of two flushes, retried and cut off anywhere, its extraction beside that of another file, a deletion, one restart.
SPECIFICATION FairSpec
CONSTANTS
    MaxDocs = 3
    Kbs = {"k1"}
    Texts = {0, 1}
    Highlights = {"h1"}
    Places = {1}
    PageLimit = 1
    Uploads = {1}
    Patches = {"p1"}
    Length = 2
    BadFiles = {}
    StorageLimit = 2
    OcrSlots = 2
    PageCounts = {0, 1}
    PagesPerDoc = 1
    FormatOf <- PdfAndHtml
    Backend = "mistral"
    FileText = 1
    Requests = {"r1"}
    HighlightCap = 1
    MaxVersion = 0
    Ops = {"delete"}
    MaxRestarts = 1
    Uploaded = 1
    NoDoc = NoDoc
    NoChunks = NoChunks
    NoFile = NoFile
CHECK_DEADLOCK FALSE
 
INVARIANTS UploadIntact RowHasObject PagesWithinLimit
