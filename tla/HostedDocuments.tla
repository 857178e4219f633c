---------------------------- MODULE HostedDocuments ----------------------------
(***************************************************************************)
(* Requests to the document and knowledge base services of the hosted API  *)
(* (api/services/hosted.py).  A request is a coroutine: between two steps  *)
(* it awaits the database or S3 and others run.  What one transaction does *)
(* under a row lock or the advisory lock of the user is one step.  Web     *)
(* clips are of one page (URL), notes have one filename.                   *)
(***************************************************************************)
EXTENDS HostedStore

CONSTANTS
    Requests,      \* requests that may be in flight at once
    HighlightCap,  \* 500
    MaxVersion,    \* bound on the version of a document
    Ops            \* the operations the clients call

VARIABLE req   \* the step a request awaits, with its local variables

Idle == [at |-> "idle"]
Begins(r, op) == req[r].at = "idle" /\ op \in Ops
Ends(r) == req' = [req EXCEPT ![r] = Idle]
Await(r, locals) == req' = [req EXCEPT ![r] = locals]
Clips == {d \in Live : docs[d].kind = "clip" /\ ~docs[d].archived}
Notes == {d \in Live : docs[d].kind = "note" /\ ~docs[d].archived}
AssetsOf(S) == {a \in Live : docs[a].kind = "asset" /\ docs[a].parent \in S}
SameVersion(d) == docs[d].version
Bumped(d) == docs[d].version + 1

--------------------------------------------------------------------------------
(* Notes: the name is looked up, then the row is inserted. *)

CheckNote(r) ==
    /\ Begins(r, "note") /\ Notes = {}
    /\ \E k \in kbs : Await(r, [at |-> "note", kb |-> k])
    /\ UNCHANGED storeVars

create_note(r) ==
    /\ req[r].at = "note" /\ born < MaxDocs /\ req[r].kb \in kbs
    /\ \E t \in Texts :
          /\ docs' = [docs EXCEPT ![born + 1] =
                        [File(req[r].kb) EXCEPT !.kind = "note", !.status = "ready", !.text = t]]
          /\ chunks' = [chunks EXCEPT ![born + 1] = chunk_text(t, req[r].kb)]
    /\ born' = born + 1
    /\ Ends(r)
    /\ UNCHANGED <<kbs, objects, locked>>

--------------------------------------------------------------------------------
(* Web clips: the page is looked up by its URL, its images are uploaded under *)
(* ids of their own, and a transaction under the lock of the user inserts or  *)
(* updates the document, whatever the look-up said.                           *)

\* Images that could be fetched; the references to the others are taken out.
materialize_webclip_assets == {0, 1}

PreviewClip(r) ==
    /\ Begins(r, "clip")
    /\ \E k \in kbs, t \in Texts, img \in materialize_webclip_assets :
       LET known == {d \in Clips : docs[d].kb = k}
           parent == IF known = {} THEN born + 1 ELSE CHOOSE d \in known : TRUE
           n == born + img + (IF known = {} THEN 1 ELSE 0)
       IN
       /\ n <= MaxDocs /\ _check_storage_available(1 + img)
       /\ born' = n
       /\ Await(r, [at |-> "clip", kb |-> k, text |-> t, parent |-> parent, existing_preview |-> known # {},
                    image |-> IF img = 1 THEN n ELSE 0])
       /\ objects' = IF img = 1 THEN [objects EXCEPT ![n] = Image] ELSE objects
    /\ UNCHANGED <<kbs, docs, chunks, locked>>

\* Highlights by id: incoming ones replace those of the document.
_merge_highlights_by_id(old, new) ==
    [h \in Highlights |-> IF new[h] = 0 THEN old[h] ELSE new[h]]

PreviewOnly(r) == IF Exists(req[r].parent) THEN {req[r].parent} ELSE {}

\* The document of the look-up if it is still there, else any of the URL.
SameUrl(r) == IF req[r].existing_preview /\ Exists(req[r].parent) THEN {req[r].parent}
              ELSE {d \in Clips : docs[d].kb = req[r].kb}

create_web_clip(r) ==
    /\ req[r].at = "clip" /\ locked = 0 /\ req[r].kb \in kbs
    /\ _check_storage_available(IF req[r].image = 0 THEN 1 ELSE 2)
    /\ \E new \in Marks :
       LET q == req[r]
           found == SameUrl(r)
           d == IF found = {} THEN q.parent ELSE CHOOSE x \in found : TRUE
           old == IF found = {} THEN NoMarks ELSE docs[d].marks
           marks == _merge_highlights_by_id(old, new)
           row == IF found = {}
                  THEN [File(q.kb) EXCEPT !.kind = "clip", !.status = "ready", !.text = q.text, !.marks = marks]
                  ELSE [docs[d] EXCEPT !.status = "ready", !.text = q.text, !.marks = marks, !.version = Bumped(d)]
           dropped == IF found = {} THEN {} ELSE AssetsOf({d})
       IN
       /\ row.version <= MaxVersion
       /\ docs' = [x \in Docs |-> IF x = d THEN row
                                  ELSE IF x = q.image THEN Asset(d, q.kb)
                                  ELSE IF x \in dropped THEN NoDoc ELSE docs[x]]
       /\ chunks' = [x \in Docs |->
                      IF x = d THEN _recompute_chunks_for_doc(chunk_text(q.text, q.kb), NoMarks, marks)
                      ELSE IF x \in dropped THEN NoChunks ELSE chunks[x]]
       /\ Await(r, [at |-> "purge", ids |-> dropped])
    /\ UNCHANGED <<kbs, objects, born, locked>>

\* A transaction that fails (quota, a knowledge base that is gone) leaves the
\* uploaded images in S3.
ClipFails(r) ==
    /\ req[r].at \in {"clip", "note"}
    /\ Ends(r)
    /\ UNCHANGED storeVars

--------------------------------------------------------------------------------
(* Highlights: a client reads them with the version, and writes with the     *)
(* version it expects, or with none.                                         *)

get_highlights(r) ==
    /\ Begins(r, "mark")
    /\ \E d \in Live : Await(r, [at |-> "mark", doc |-> d, version |-> docs[d].version, marks |-> docs[d].marks])
    /\ UNCHANGED storeVars

\* One transaction on the locked row; NoMarks of an absent highlight changes nothing.
WriteMarks(r, new) ==
    LET d == req[r].doc IN
    /\ docs[d].version < MaxVersion
    /\ docs' = [docs EXCEPT ![d].marks = new, ![d].version = Bumped(d)]
    /\ chunks' = [chunks EXCEPT ![d] = _recompute_chunks_for_doc(@, docs[d].marks, new)]
    /\ Ends(r)
    /\ UNCHANGED <<kbs, objects, born, locked>>

MayWrite(r, expected) ==
    /\ req[r].at = "mark" /\ Exists(req[r].doc)
    /\ expected => docs[req[r].doc].version = req[r].version

replace_highlights(r) ==
    \E expected \in BOOLEAN : MayWrite(r, expected) /\ \E new \in Marks : WriteMarks(r, new)

upsert_highlight(r) ==
    \E expected \in BOOLEAN, h \in Highlights, i \in Places :
        LET now == docs[req[r].doc].marks IN
        /\ MayWrite(r, expected)
        /\ now[h] = 0 => Cardinality({x \in Highlights : now[x] # 0}) < HighlightCap
        /\ WriteMarks(r, [now EXCEPT ![h] = i])

delete_highlight(r) ==
    \E expected \in BOOLEAN, h \in Highlights :
        LET now == docs[req[r].doc].marks IN
        /\ MayWrite(r, expected)
        /\ now[h] # 0
        /\ WriteMarks(r, [now EXCEPT ![h] = 0])

\* A conflict, a document that is gone, a full list, or nothing to delete.
HighlightRefused(r) ==
    /\ req[r].at = "mark"
    /\ Ends(r)
    /\ UNCHANGED storeVars

--------------------------------------------------------------------------------
(* Content: the row, the knowledge base and the chunks are separate commits. *)

update_content(r) ==
    /\ Begins(r, "content")
    /\ \E d \in Live, t \in Texts :
          /\ docs[d].version < MaxVersion
          /\ docs' = [docs EXCEPT ![d].text = t, ![d].version = Bumped(d)]
          /\ Await(r, [at |-> "kb", doc |-> d, text |-> t])
    /\ UNCHANGED <<kbs, chunks, objects, born, locked>>

FetchKb(r) ==
    /\ req[r].at = "kb"
    /\ LET q == req[r] IN
       IF Exists(q.doc)
       THEN Await(r, [at |-> "drop", doc |-> q.doc, text |-> q.text, kb |-> docs[q.doc].kb])
       ELSE Ends(r)
    /\ UNCHANGED storeVars

DropChunksOf(r) ==
    /\ req[r].at = "drop"
    /\ chunks' = [chunks EXCEPT ![req[r].doc] = NoChunks]
    /\ req' = [req EXCEPT ![r].at = "cut"]
    /\ UNCHANGED <<kbs, docs, objects, born, locked>>

\* The insert fails when the document is gone or other chunks came first.
StoreChunksOf(r) ==
    LET q == req[r] IN
    /\ q.at = "cut"
    /\ chunks' = IF Exists(q.doc) /\ chunks[q.doc] = NoChunks /\ q.kb \in kbs
                 THEN [chunks EXCEPT ![q.doc] = chunk_text(q.text, q.kb)] ELSE chunks
    /\ Ends(r)
    /\ UNCHANGED <<kbs, docs, objects, born, locked>>

--------------------------------------------------------------------------------
(* Moves and deletions. *)

\* One transaction: the row, the knowledge base of its chunks, its references.
update_metadata(r) ==
    /\ Begins(r, "move")
    /\ \E d \in Live, k \in kbs :
          /\ docs' = [docs EXCEPT ![d].kb = k]
          /\ chunks' = IF chunks[d] = NoChunks THEN chunks ELSE [chunks EXCEPT ![d].kb = k]
    /\ UNCHANGED <<kbs, objects, born, locked, req>>

PurgeFirst(r) ==
    /\ Begins(r, "delete")
    /\ \E d \in Live : Await(r, [at |-> "purge", ids |-> {d} \cup AssetsOf({d})])
    /\ UNCHANGED storeVars

\* The documents are looked up with their assets; wiki pages are only archived.
BeginDelete(r) ==
    /\ Begins(r, "delete")
    /\ \E d \in Live :
          IF docs[d].kind = "note"
          THEN docs' = [docs EXCEPT ![d].archived = TRUE] /\ UNCHANGED req
          ELSE Await(r, [at |-> "delete", ids |-> {d} \cup AssetsOf({d})]) /\ UNCHANGED docs
    /\ UNCHANGED <<kbs, chunks, objects, born, locked>>

_hard_delete(r) ==
    /\ req[r].at = "delete"
    /\ Remove(req[r].ids)
    /\ IF req[r].ids \cap Live = {} THEN Ends(r) ELSE req' = [req EXCEPT ![r].at = "purge"]
    /\ UNCHANGED <<kbs, objects, born, locked>>

\* Each prefix in S3 is deleted, a failure is only logged.
_purge_s3(r) ==
    /\ req[r].at = "purge"
    /\ \E gone \in SUBSET req[r].ids :
          objects' = [d \in Docs |-> IF d \in gone THEN NoFile ELSE objects[d]]
    /\ Ends(r)
    /\ UNCHANGED <<kbs, docs, chunks, born, locked>>

_kb_document_ids(r) ==
    /\ Begins(r, "delete_kb")
    /\ \E k \in kbs : Await(r, [at |-> "delete_kb", kb |-> k, ids |-> {d \in Live : docs[d].kb = k}])
    /\ UNCHANGED storeVars

\* The knowledge base goes with everything in it.
delete_kb(r) ==
    /\ req[r].at = "delete_kb"
    /\ kbs' = kbs \ {req[r].kb}
    /\ IF req[r].kb \in kbs
       THEN /\ docs' = [d \in Docs |-> IF d \in Live /\ docs[d].kb = req[r].kb THEN NoDoc ELSE docs[d]]
            /\ chunks' = [d \in Docs |-> IF docs'[d] = NoDoc \/ (chunks[d] # NoChunks /\ chunks[d].kb = req[r].kb)
                                         THEN NoChunks ELSE chunks[d]]
            /\ Await(r, [at |-> "purge", ids |-> req[r].ids])
       ELSE Ends(r) /\ UNCHANGED <<docs, chunks>>
    /\ UNCHANGED <<objects, born, locked>>

RequestsInit == req = [r \in Requests |-> Idle]
RequestsLost == req' = [r \in Requests |-> Idle]

RequestStep(r) ==
    \/ CheckNote(r) \/ create_note(r) \/ PreviewClip(r) \/ create_web_clip(r) \/ ClipFails(r)
    \/ get_highlights(r) \/ replace_highlights(r) \/ upsert_highlight(r) \/ delete_highlight(r) \/ HighlightRefused(r)
    \/ update_content(r) \/ FetchKb(r) \/ DropChunksOf(r) \/ StoreChunksOf(r)
    \/ update_metadata(r) \/ BeginDelete(r) \/ _hard_delete(r) \/ _purge_s3(r)
    \/ _kb_document_ids(r) \/ delete_kb(r)
===============================================================================
