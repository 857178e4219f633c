-------------------------------- MODULE OcrJobs --------------------------------
(***************************************************************************)
(* Extraction of uploaded files (api/services/ocr.py): the tasks of        *)
(* process_document, at most OcrSlots of which run, with the transaction   *)
(* that writes the result, and the chunks and image assets that are stored *)
(* after it.  An extraction yields a text, a number of pages and perhaps   *)
(* images; what the converter, the OCR service and the parsers read in the *)
(* file is behind it.                                                      *)
(***************************************************************************)
EXTENDS HostedStore

CONSTANTS
    OcrSlots,       \* Semaphore(3)
    PageCounts,     \* numbers of pages or sheets that files have
    PagesPerDoc,    \* QUOTA_MAX_PAGES_PER_DOC
    FileText,       \* the text an extraction gives
    FormatOf,       \* of each document: "pdf" (also office), "html", "sheet", "image"
    Backend         \* PDF_BACKEND and CONVERTER_URL: "mistral", "converter", "local"

ASSUME OcrAssumption ==
    /\ OcrSlots \in Nat \ {0} /\ PagesPerDoc \in Nat
    /\ PageCounts \subseteq Nat /\ FileText \in Texts \ {0}
    /\ FormatOf \in [Docs -> {"pdf", "html", "sheet", "image"}]
    /\ Backend \in {"mistral", "converter", "local"}

NoJob == [at |-> "none"]
Busy == {d \in Docs : jobs[d].at \notin {"none", "waiting"}}
Goto(d, step) == jobs' = [jobs EXCEPT ![d].at = step]

\* An UPDATE of a row that is gone changes nothing.
SetStatus(d, s) == docs' = IF Exists(d) THEN [docs EXCEPT ![d].status = s] ELSE docs

\* A task gets a slot, marks the document and reads its row: the knowledge base
\* it finds there is used to the end.
process_document(d) ==
    /\ jobs[d].at = "waiting" /\ Cardinality(Busy) < OcrSlots
    /\ SetStatus(d, "processing")
    /\ jobs' = [jobs EXCEPT ![d] = IF Exists(d) THEN [at |-> "started", kb |-> docs[d].kb] ELSE NoJob]
    /\ UNCHANGED <<kbs, chunks, objects, born, locked>>

\* Any exception ends the task with the document failed.
Fails(d) ==
    /\ jobs[d].at \notin {"none", "waiting"}
    /\ SetStatus(d, "failed")
    /\ jobs' = [jobs EXCEPT ![d] = NoJob]
    /\ locked' = IF locked = d THEN 0 ELSE locked
    /\ UNCHANGED <<kbs, chunks, objects, born>>

--------------------------------------------------------------------------------
(* What the formats give: a number of pages. *)

_process_image == {1}
_process_html == {1}
_parse_sheets == PageCounts
\* The converter gives at least one page, the reader on the spot any number.
_call_converter_extract == PageCounts \ {0}
_process_opendataloader == PageCounts
_call_mistral_ocr == PageCounts

_process_pdf ==
    {n \in CASE Backend = "mistral" -> _call_mistral_ocr
             [] Backend = "converter" -> _call_converter_extract
             [] Backend = "local" -> _process_opendataloader : n <= PagesPerDoc}

Extraction(d) ==
    CASE FormatOf[d] = "pdf" -> _process_pdf
      [] FormatOf[d] = "html" -> _process_html
      [] FormatOf[d] = "sheet" -> _parse_sheets
      [] FormatOf[d] = "image" -> _process_image

\* The file is fetched; before the paid call to the OCR service the pages of the
\* user are looked at, without the lock.
Fetch(d) ==
    /\ jobs[d].at = "started" /\ objects[d] # NoFile
    /\ FormatOf[d] = "pdf" /\ Backend = "mistral" => PagesUsed + 1 <= PageLimit
    /\ Goto(d, "extracting")
    /\ UNCHANGED storeVars

CheckUnlocked(d) ==
    /\ jobs[d].at = "extracting"
    /\ \E n \in Extraction(d) :
          /\ PagesUsed + n <= PageLimit
          /\ jobs' = [jobs EXCEPT ![d] = [at |-> "checked", kb |-> jobs[d].kb, pages |-> n]]
    /\ UNCHANGED storeVars

\* Extraction ends with a number of pages; the transaction takes the lock of the
\* user and compares the pages there are.
_check_user_page_limit(d) ==
    /\ jobs[d].at = "extracting" /\ locked = 0
    /\ \E n \in Extraction(d) :
       IF PagesUsed + n > PageLimit
       THEN /\ SetStatus(d, "failed")
            /\ jobs' = [jobs EXCEPT ![d] = NoJob]
            /\ UNCHANGED locked
       ELSE /\ locked' = d
            /\ jobs' = [jobs EXCEPT ![d] = [at |-> "checked", kb |-> jobs[d].kb, pages |-> n]]
            /\ UNCHANGED docs
    /\ UNCHANGED <<kbs, chunks, objects, born>>

--------------------------------------------------------------------------------
(* The result. *)

ImagesOf(d) == {a \in Live \ {d} : docs[a].kind = "asset" /\ docs[a].parent = d}

\* What follows the commit, in order: the OCR service's images are stored before
\* the chunks, the others' after them; an image file has neither.
_process_document_tail(d) ==
    IF FormatOf[d] = "image" THEN <<>>
    ELSE IF FormatOf[d] # "pdf" THEN <<"drop", "cut">>
    ELSE IF Backend = "mistral" THEN <<"upload", "drop", "cut">>
    ELSE <<"drop", "cut", "upload">>

\* Images are read out of PDF files that are not sent to the converter.
_build_pdf_assets(d) == IF FormatOf[d] = "pdf" /\ Backend # "converter" THEN {0, 1} ELSE {0}

\* The next step after the commit, or the end of the task.
Proceed(job) ==
    IF job.todo = <<>> THEN NoJob ELSE [job EXCEPT !.at = Head(job.todo), !.todo = Tail(@)]

\* Commit: pages, images of the pages in place of the earlier ones, status.  Of a
\* document that is gone nothing is written, and the insert of its pages fails.
_store_extracted_pages(d) ==
    /\ jobs[d].at = "checked"
    /\ locked' = 0
    /\ IF ~Exists(d)
       THEN jobs' = [jobs EXCEPT ![d] = NoJob] /\ UNCHANGED <<docs, chunks, born>>
       ELSE \E img \in _build_pdf_assets(d) :
            LET a == born + img
                old == IF FormatOf[d] = "pdf" THEN ImagesOf(d) ELSE {}
                text == IF FormatOf[d] = "image" THEN docs[d].text
                        ELSE IF jobs[d].pages = 0 THEN 0 ELSE FileText
                kept == [x \in Docs |-> IF x \in old THEN NoDoc ELSE docs[x]]
                paged == [kept EXCEPT ![d].status = "ready", ![d].text = text, ![d].pages = jobs[d].pages]
            IN
            /\ a <= MaxDocs
            /\ born' = a
            /\ docs' = IF img = 0 THEN paged ELSE [paged EXCEPT ![a] = Asset(d, jobs[d].kb)]
            /\ chunks' = [x \in Docs |-> IF x \in old THEN NoChunks ELSE chunks[x]]
            /\ jobs' = [jobs EXCEPT ![d] = Proceed([at |-> "checked", kb |-> jobs[d].kb, text |-> text,
                                                    image |-> IF img = 0 THEN 0 ELSE a,
                                                    todo |-> _process_document_tail(d)])]
    /\ UNCHANGED <<kbs, objects>>

\* store_chunks: the old chunks go, ...
DropChunks(d) ==
    /\ jobs[d].at = "drop"
    /\ chunks' = [chunks EXCEPT ![d] = NoChunks]
    /\ jobs' = [jobs EXCEPT ![d] = Proceed(@)]
    /\ UNCHANGED <<kbs, docs, objects, born, locked>>

\* ... the new ones come, if the document is there and nobody stored others.
store_chunks(d) ==
    /\ jobs[d].at = "cut"
    /\ IF jobs[d].text = 0 THEN UNCHANGED chunks
       ELSE /\ Exists(d) /\ chunks[d] = NoChunks
            /\ chunks' = [chunks EXCEPT ![d] = chunk_text(jobs[d].text, jobs[d].kb)]
    /\ jobs' = [jobs EXCEPT ![d] = Proceed(@)]
    /\ UNCHANGED <<kbs, docs, objects, born, locked>>

\* The image of the pages is uploaded.
_upload_assets(d) ==
    /\ jobs[d].at = "upload"
    /\ objects' = IF jobs[d].image = 0 THEN objects ELSE [objects EXCEPT ![jobs[d].image] = Image]
    /\ jobs' = [jobs EXCEPT ![d] = Proceed(@)]
    /\ UNCHANGED <<kbs, docs, chunks, born, locked>>

RecoverPending ==
    /\ jobs' = [d \in Docs |-> IF Exists(d) /\ docs[d].status = "pending" THEN [at |-> "waiting"] ELSE NoJob]
    /\ locked' = 0

\* At startup every document that is pending or processing gets a task.
JobsRecovered ==
    /\ jobs' = [d \in Docs |-> IF Exists(d) /\ docs[d].status \in {"pending", "processing"} /\ ~docs[d].archived
                               THEN [at |-> "waiting"] ELSE NoJob]
    /\ locked' = 0

JobStep(d) ==
    \/ process_document(d) \/ Fetch(d) \/ _check_user_page_limit(d) \/ Fails(d)
    \/ _store_extracted_pages(d)
    \/ DropChunks(d) \/ store_chunks(d) \/ _upload_assets(d)
===============================================================================
