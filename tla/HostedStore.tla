------------------------------ MODULE HostedStore ------------------------------
(***************************************************************************)
(* The state that the uploads, the extraction jobs and the requests of the *)
(* hosted service share: document rows with their pages and highlights,    *)
(* their search chunks (Postgres), the files behind them (S3), and the     *)
(* advisory lock of the one user.  Ids are uuids: an id is used once, in   *)
(* the order 1, 2, ...  A text is the content of a document (0: empty).    *)
(***************************************************************************)
EXTENDS Naturals, FiniteSets, Sequences, FiniteSetsExt

CONSTANTS
    MaxDocs,      \* bound: ids that are ever given to a document
    Kbs,          \* knowledge bases of the user
    Texts,        \* contents, 0 is the empty one
    Highlights,   \* ids of highlights
    Places,       \* indices of chunks that a highlight can fall on
    PageLimit,    \* users.page_limit
    Uploads,      \* upload ids, numbers
    StorageLimit, \* users.storage_limit_bytes, in files
    NoDoc, NoChunks, NoFile

ASSUME StoreAssumption ==
    /\ MaxDocs \in Nat \ {0} /\ PageLimit \in Nat /\ StorageLimit \in Nat
    /\ 0 \in Texts /\ Texts \subseteq Nat /\ Kbs # {}
    /\ Places \subseteq Nat \ {0}

VARIABLES
    kbs,      \* knowledge_bases that are there
    docs,     \* documents and document_pages: a row, or NoDoc
    chunks,   \* document_chunks of a document, or NoChunks
    objects,  \* <user>/<document>/source.* in S3: what is in the file
    born,     \* ids given so far
    locked,   \* who holds pg_advisory_xact_lock(user), 0: nobody
    jobs      \* tasks of OCRService.process_document, see OcrJobs

storeVars == <<kbs, docs, chunks, objects, born, locked>>

Docs == 1..MaxDocs
NoMarks == [h \in Highlights |-> 0]
Marks == [Highlights -> Places \cup {0}]
Row == [kind : {"file", "clip", "note", "asset"}, status : {"pending", "processing", "ready", "failed"},
        text : Texts, version : Nat, marks : Marks, pages : Nat, kb : Kbs, parent : Docs \cup {0}, archived : BOOLEAN]
Chunked == [text : Texts \ {0}, kb : Kbs, notes : [Places -> SUBSET Highlights]]

ASSUME AbsenceAssumption ==
    NoDoc \notin Row /\ NoChunks \notin Chunked /\ NoFile \notin [of : Nat, bytes : Seq(Nat)] \cup Seq(Nat)

File(k) == [kind |-> "file", status |-> "pending", text |-> 0, version |-> 0, marks |-> NoMarks,
            pages |-> 0, kb |-> k, parent |-> 0, archived |-> FALSE]
Asset(p, k) == [File(k) EXCEPT !.kind = "asset", !.status = "ready", !.parent = p]

Image == [of |-> 0, bytes |-> <<>>]  \* the file of an asset, or one whose bytes do not matter

Exists(d) == docs[d] # NoDoc
Live == {d \in Docs : docs[d] # NoDoc}

\* What counts against the page limit: the pages of the documents that are not archived.
PagesUsed == MapThenSumSet(LAMBDA d : docs[d].pages, {d \in Live : ~docs[d].archived})

\* Every file counts against the storage limit, archived or not; notes have no size.
Sizes == Cardinality({d \in Live : docs[d].kind # "note"})
_check_storage_available(new) == Sizes + new <= StorageLimit

\* The chunks a highlight falls on; the others are left as they are.
Touched(marks) == {marks[h] : h \in Highlights} \ {0}
NotesAt(marks, i) == {h \in Highlights : marks[h] = i}

RecomputeNew(c, old, new) ==
    IF c = NoChunks THEN c
    ELSE [c EXCEPT !.notes = [i \in Places |-> IF i \in Touched(new) THEN NotesAt(new, i) ELSE c.notes[i]]]

\* Chunks with the annotations of the new highlights, in the chunks that the
\* old or the new ones touch.
_recompute_chunks_for_doc(c, old, new) ==
    IF c = NoChunks THEN c
    ELSE [c EXCEPT !.notes =
             [i \in Places |-> IF i \in Touched(old) \cup Touched(new)
                               THEN NotesAt(new, i) ELSE c.notes[i]]]

ChunksOfAny(text, k) == [text |-> text, kb |-> k, notes |-> [i \in Places |-> {}]]

\* The chunks of a text; none of an empty one.
chunk_text(text, k) ==
    IF text = 0 THEN NoChunks
    ELSE [text |-> text, kb |-> k, notes |-> [i \in Places |-> {}]]

\* Rows that go away with their pages and chunks (ON DELETE CASCADE).
Remove(S) ==
    /\ docs' = [d \in Docs |-> IF d \in S THEN NoDoc ELSE docs[d]]
    /\ chunks' = [d \in Docs |-> IF d \in S THEN NoChunks ELSE chunks[d]]

\* Rows, chunks and files have their shape, and an empty text has no chunks
\* (chunk_text returns none, whoever stores them).
StoreType ==
    /\ kbs \subseteq Kbs
    /\ docs \in [Docs -> Row \cup {NoDoc}]
    /\ chunks \in [Docs -> Chunked \cup {NoChunks}]
    /\ objects \in [Docs -> [of : Uploads \cup {0}, bytes : Seq(Nat)] \cup {NoFile}]
    /\ born \in 0..MaxDocs
    /\ locked \in 0..MaxDocs
===============================================================================
