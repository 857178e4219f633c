------------------------- MODULE HostedService_proofs -------------------------
(***************************************************************************)
(* Theorems about HostedService, for any number of requests, jobs, uploads *)
(* and documents.  First the types: StoreType needs those of the requests, *)
(* the extraction jobs and the uploads, whose local variables end up in    *)
(* rows, chunks and files.                                                 *)
(***************************************************************************)
EXTENDS HostedService, FiniteSetTheorems, TLAPS

USE DEF Docs, Exists, Live

Steps == {"drop", "cut", "upload"}

JobRec ==
    [at : {"none", "waiting"}]
    \cup [at : {"started", "extracting"}, kb : Kbs]
    \cup [at : {"checked"}, kb : Kbs, pages : Nat]
    \cup [at : Steps, kb : Kbs, text : Texts, image : Docs \cup {0}, todo : Seq(Steps)]

ReqRec ==
    [at : {"idle"}]
    \cup [at : {"note"}, kb : Kbs]
    \cup [at : {"clip"}, kb : Kbs, text : Texts, parent : Docs, existing_preview : BOOLEAN,
          image : Docs \cup {0}]
    \cup [at : {"mark"}, doc : Docs, version : Nat, marks : Marks]
    \cup [at : {"kb"}, doc : Docs, text : Texts]
    \cup [at : {"drop", "cut"}, doc : Docs, text : Texts, kb : Kbs]
    \cup [at : {"purge", "delete"}, ids : SUBSET Docs]
    \cup [at : {"delete_kb"}, kb : Kbs, ids : SUBSET Docs]

UploadRec ==
    [at : {"new", "gone"}, offset : Nat]
    \cup [at : {"checked", "open", "gone"}, offset : Nat, kb : Kbs, used : Nat]

PatchRec ==
    [at : {"idle"}]
    \cup [at : {"draining", "storing"}, upload : Uploads, from : Nat, written : Nat]
    \cup [at : {"inserting"}, upload : Uploads, doc : Docs]

UploadType ==
    /\ uploads \in [Uploads -> UploadRec]
    /\ temp \in [Uploads -> Seq(Nat) \cup {NoFile}]
    /\ patch \in [Patches -> PatchRec]

TypeInv ==
    /\ StoreType
    /\ jobs \in [Docs -> JobRec]
    /\ req \in [Requests -> ReqRec]
    /\ UploadType

--------------------------------------------------------------------------------
(* What a job's record is, by the step it is at. *)
LEMMA JobCases ==
    ASSUME NEW j \in JobRec
    PROVE  /\ j.at \in {"started", "extracting"} => j \in [at : {"started", "extracting"}, kb : Kbs]
           /\ j.at = "checked" => j \in [at : {"checked"}, kb : Kbs, pages : Nat]
           /\ j.at \in Steps => j \in [at : Steps, kb : Kbs, text : Texts, image : Docs \cup {0}, todo : Seq(Steps)]
  BY DEF JobRec, Steps

(* What a request keeps, by the step it is at. *)
LEMMA ReqCases ==
    ASSUME NEW q \in ReqRec
    PROVE  /\ q.at = "note" => q \in [at : {"note"}, kb : Kbs]
           /\ q.at = "clip" => q \in [at : {"clip"}, kb : Kbs, text : Texts, parent : Docs,
                                      existing_preview : BOOLEAN, image : Docs \cup {0}]
           /\ q.at = "mark" => q \in [at : {"mark"}, doc : Docs, version : Nat, marks : Marks]
           /\ q.at = "kb" => q \in [at : {"kb"}, doc : Docs, text : Texts]
           /\ q.at \in {"drop", "cut"} => q \in [at : {"drop", "cut"}, doc : Docs, text : Texts, kb : Kbs]
           /\ q.at \in {"purge", "delete"} => q \in [at : {"purge", "delete"}, ids : SUBSET Docs]
           /\ q.at = "delete_kb" => q \in [at : {"delete_kb"}, kb : Kbs, ids : SUBSET Docs]
  BY DEF ReqRec

(* What a PATCH request keeps, by the step it is at. *)
LEMMA PatchCases ==
    ASSUME NEW p \in PatchRec
    PROVE  /\ p.at \in {"draining", "storing"}
                 => p \in [at : {"draining", "storing"}, upload : Uploads, from : Nat, written : Nat]
           /\ p.at = "inserting" => p \in [at : {"inserting"}, upload : Uploads, doc : Docs]
  BY DEF PatchRec

--------------------------------------------------------------------------------
(* The rows that the operations insert. *)
LEMMA Rows ==
    /\ \A k \in Kbs : File(k) \in Row
    /\ \A p \in Docs, k \in Kbs : Asset(p, k) \in Row
    /\ \A k \in Kbs, t \in Texts : [File(k) EXCEPT !.kind = "note", !.status = "ready", !.text = t] \in Row
    /\ \A k \in Kbs, t \in Texts, m \in Marks :
           [File(k) EXCEPT !.kind = "clip", !.status = "ready", !.text = t, !.marks = m] \in Row
  BY StoreAssumption DEF File, Asset, Row, NoMarks, Marks

(* An updated row is still a row. *)
LEMMA RowChanges ==
    ASSUME NEW w \in Row
    PROVE  /\ \A s \in {"pending", "processing", "ready", "failed"} : [w EXCEPT !.status = s] \in Row
           /\ \A m \in Marks, v \in Nat : [w EXCEPT !.marks = m, !.version = v] \in Row
           /\ \A t \in Texts, v \in Nat : [w EXCEPT !.text = t, !.version = v] \in Row
           /\ \A t \in Texts, m \in Marks, v \in Nat :
                  [w EXCEPT !.status = "ready", !.text = t, !.marks = m, !.version = v] \in Row
           /\ \A k \in Kbs : [w EXCEPT !.kb = k] \in Row
           /\ \A t \in Texts, n \in Nat : [w EXCEPT !.status = "ready", !.text = t, !.pages = n] \in Row
           /\ [w EXCEPT !.archived = TRUE] \in Row
  BY DEF Row

(* Chunks that are made of a text, or annotated again, are chunks. *)
LEMMA Chunks ==
    /\ \A t \in Texts, k \in Kbs : chunk_text(t, k) \in Chunked \cup {NoChunks}
    /\ \A c \in Chunked \cup {NoChunks} : \A old, new :
           _recompute_chunks_for_doc(c, old, new) \in Chunked \cup {NoChunks}
  <1>1. \A t \in Texts, k \in Kbs : chunk_text(t, k) \in Chunked \cup {NoChunks}
    BY DEF chunk_text, Chunked
  <1>2. ASSUME NEW c \in Chunked \cup {NoChunks}, NEW old, NEW new
        PROVE  _recompute_chunks_for_doc(c, old, new) \in Chunked \cup {NoChunks}
    BY DEF _recompute_chunks_for_doc, Chunked, NotesAt
  <1> QED  BY <1>1, <1>2

--------------------------------------------------------------------------------
(* A request keeps the types: its local variables come from rows, from the
   knowledge bases and from ids that are handed out. *)
LEMMA RequestTypes ==
    ASSUME TypeInv, NEW r \in Requests, RequestStep(r)
    PROVE  StoreType' /\ req' \in [Requests -> ReqRec]
  <1> USE DEF TypeInv, StoreType, Begins, Await, Ends
  <1> DEFINE Q == req[r]
             Goal == StoreType' /\ req' \in [Requests -> ReqRec]
  <1>q. /\ Q \in ReqRec
        /\ \A q \in ReqRec : [req EXCEPT ![r] = q] \in [Requests -> ReqRec]
        /\ Idle \in ReqRec
    BY DEF Idle, ReqRec
  <1>1. CASE CheckNote(r)
    BY <1>1, <1>q DEF CheckNote, storeVars, ReqRec
  <1>2. CASE create_note(r)
    <2>1. Q.kb \in Kbs
      BY <1>2, <1>q, ReqCases DEF create_note
    <2>2. born + 1 \in Docs /\ born + 1 \in 0..MaxDocs
      BY <1>2, StoreAssumption DEF create_note
    <2>3. PICK t \in Texts :
            /\ docs' = [docs EXCEPT ![born + 1] =
                          [File(Q.kb) EXCEPT !.kind = "note", !.status = "ready", !.text = t]]
            /\ chunks' = [chunks EXCEPT ![born + 1] = chunk_text(t, Q.kb)]
      BY <1>2 DEF create_note
    <2>4. docs' \in [Docs -> Row \cup {NoDoc}]
      BY <2>1, <2>2, <2>3, Rows
    <2>5. chunks' \in [Docs -> Chunked \cup {NoChunks}]
      BY <2>1, <2>2, <2>3, Chunks
    <2> QED  BY <1>2, <1>q, <2>2, <2>4, <2>5 DEF create_note
  <1>3. CASE PreviewClip(r)
    <2>1. PICK k \in kbs, t \in Texts, img \in {0, 1} :
            LET known == {d \in Clips : docs[d].kb = k}
                parent == IF known = {} THEN born + 1 ELSE CHOOSE d \in known : TRUE
                n == born + img + (IF known = {} THEN 1 ELSE 0)
            IN /\ n <= MaxDocs /\ born' = n
               /\ Await(r, [at |-> "clip", kb |-> k, text |-> t, parent |-> parent, existing_preview |-> known # {},
                            image |-> IF img = 1 THEN n ELSE 0])
               /\ objects' = IF img = 1 THEN [objects EXCEPT ![n] = Image] ELSE objects
      BY <1>3 DEF PreviewClip, materialize_webclip_assets
    <2> DEFINE known == {d \in Clips : docs[d].kb = k}
               parent == IF known = {} THEN born + 1 ELSE CHOOSE d \in known : TRUE
               n == born + img + (IF known = {} THEN 1 ELSE 0)
    <2>2. known # {} => parent \in Docs
      BY DEF Clips
    <2>3. n \in 0..MaxDocs /\ (img = 1 => n \in Docs) /\ parent \in Docs
      BY <2>1, <2>2, StoreAssumption
    <2>4. [at |-> "clip", kb |-> k, text |-> t, parent |-> parent, existing_preview |-> known # {},
           image |-> IF img = 1 THEN n ELSE 0] \in ReqRec
      <3> HIDE DEF parent, n, known
      <3> QED  BY <2>3 DEF ReqRec
    <2>5. Image \in [of : Uploads \cup {0}, bytes : Seq(Nat)]
      BY DEF Image
    <2>6. UNCHANGED <<kbs, docs, chunks, locked>>
      BY <1>3 DEF PreviewClip
    <2> HIDE DEF parent, n, known
    <2>7. objects' \in [Docs -> [of : Uploads \cup {0}, bytes : Seq(Nat)] \cup {NoFile}]
      BY <2>1, <2>3, <2>5 DEF n, known, parent
    <2>8. born' \in 0..MaxDocs /\ req' \in [Requests -> ReqRec]
      BY <2>1, <2>3, <2>4, <1>q DEF n, known, parent
    <2> QED  BY <2>6, <2>7, <2>8
  <1>4. CASE create_web_clip(r)
    <2>1. /\ Q.kb \in Kbs /\ Q.text \in Texts /\ Q.parent \in Docs /\ Q.image \in Docs \cup {0}
      BY <1>4, <1>q, ReqCases DEF create_web_clip
    <2>2. SameUrl(r) \subseteq Docs /\ \A d \in SameUrl(r) : docs[d] # NoDoc
      BY <2>1 DEF SameUrl, Clips
    <2> DEFINE d == IF SameUrl(r) = {} THEN Q.parent ELSE CHOOSE x \in SameUrl(r) : TRUE
               old == IF SameUrl(r) = {} THEN NoMarks ELSE docs[d].marks
               dropped == IF SameUrl(r) = {} THEN {} ELSE AssetsOf({d})
               mix(new) == _merge_highlights_by_id(old, new)
               row(m) == IF SameUrl(r) = {}
                         THEN [File(Q.kb) EXCEPT !.kind = "clip", !.status = "ready", !.text = Q.text, !.marks = m]
                         ELSE [docs[d] EXCEPT !.status = "ready", !.text = Q.text, !.marks = m, !.version = Bumped(d)]
    <2>3. PICK new \in Marks :
            /\ docs' = [x \in Docs |-> IF x = d THEN row(mix(new)) ELSE IF x = Q.image THEN Asset(d, Q.kb)
                                       ELSE IF x \in dropped THEN NoDoc ELSE docs[x]]
            /\ chunks' = [x \in Docs |->
                 IF x = d THEN _recompute_chunks_for_doc(chunk_text(Q.text, Q.kb), NoMarks, mix(new))
                 ELSE IF x \in dropped THEN NoChunks ELSE chunks[x]]
            /\ Await(r, [at |-> "purge", ids |-> dropped])
      BY <1>4 DEF create_web_clip
    <2>4. d \in Docs /\ (SameUrl(r) # {} => docs[d] \in Row)
      BY <2>1, <2>2
    <2>5. dropped \subseteq Docs
      BY DEF AssetsOf
    <2>6. old \in Marks
      BY <2>4 DEF Row, NoMarks, Marks
    <2> HIDE DEF d, dropped, old
    <2>7. mix(new) \in Marks
      BY <2>6 DEF _merge_highlights_by_id, Marks
    <2>8. ASSUME NEW m \in Marks PROVE row(m) \in Row
      <3>1. CASE SameUrl(r) = {}
        BY <3>1, <2>1, Rows
      <3>2. CASE SameUrl(r) # {}
        <4>1. docs[d] \in Row /\ Bumped(d) \in Nat
          BY <3>2, <2>4 DEF Bumped, Row
        <4> QED  BY <3>2, <4>1, <2>1, RowChanges
      <3> QED  BY <3>1, <3>2
    <2> HIDE DEF row, mix
    <2>9. docs' \in [Docs -> Row \cup {NoDoc}]
      BY <2>1, <2>3, <2>4, <2>7, <2>8, Rows
    <2>10. chunks' \in [Docs -> Chunked \cup {NoChunks}]
      BY <2>1, <2>3, Chunks
    <2>11. req' \in [Requests -> ReqRec]
      <3>1. [at |-> "purge", ids |-> dropped] \in ReqRec
        BY <2>5 DEF ReqRec
      <3> QED  BY <2>3, <3>1, <1>q
    <2> QED  BY <1>4, <2>9, <2>10, <2>11 DEF create_web_clip
  <1>5. CASE ClipFails(r) \/ HighlightRefused(r)
    BY <1>5, <1>q DEF ClipFails, HighlightRefused, storeVars
  <1>6. CASE get_highlights(r)
    <2>1. PICK d \in Live : req' = [req EXCEPT ![r] =
                [at |-> "mark", doc |-> d, version |-> docs[d].version, marks |-> docs[d].marks]]
      BY <1>6 DEF get_highlights
    <2>2. docs[d] \in Row
      BY <2>1
    <2>3. [at |-> "mark", doc |-> d, version |-> docs[d].version, marks |-> docs[d].marks] \in ReqRec
      BY <2>1, <2>2 DEF ReqRec, Row
    <2> QED  BY <1>6, <2>1, <2>3, <1>q DEF get_highlights, storeVars
  <1>7. ASSUME NEW new \in Marks, Q.at = "mark", Exists(Q.doc), WriteMarks(r, new) PROVE Goal
    <2>1. Q.doc \in Docs /\ docs[Q.doc] \in Row
      BY <1>7, <1>q, ReqCases
    <2>2. docs[Q.doc].version + 1 \in Nat
      BY <2>1 DEF Row
    <2>3. docs' \in [Docs -> Row \cup {NoDoc}]
      BY <1>7, <2>1, <2>2, RowChanges DEF WriteMarks, Bumped
    <2>4. chunks' \in [Docs -> Chunked \cup {NoChunks}]
      BY <1>7, <2>1, Chunks DEF WriteMarks
    <2> QED  BY <1>7, <2>3, <2>4, <1>q DEF WriteMarks
  <1>8. CASE replace_highlights(r)
    BY <1>7, <1>8 DEF replace_highlights, MayWrite
  <1>9. Q.at = "mark" /\ Exists(Q.doc) => docs[Q.doc].marks \in Marks
    BY <1>q, ReqCases DEF Row
  <1>10. CASE upsert_highlight(r)
    <2>1. PICK h \in Highlights, i \in Places :
            Q.at = "mark" /\ Exists(Q.doc) /\ WriteMarks(r, [docs[Q.doc].marks EXCEPT ![h] = i])
      BY <1>10 DEF upsert_highlight, MayWrite
    <2>2. [docs[Q.doc].marks EXCEPT ![h] = i] \in Marks
      BY <1>9, <2>1 DEF Marks
    <2> QED  BY <1>7, <2>1, <2>2
  <1>11. CASE delete_highlight(r)
    <2>1. PICK h \in Highlights :
            Q.at = "mark" /\ Exists(Q.doc) /\ WriteMarks(r, [docs[Q.doc].marks EXCEPT ![h] = 0])
      BY <1>11 DEF delete_highlight, MayWrite
    <2>2. [docs[Q.doc].marks EXCEPT ![h] = 0] \in Marks
      BY <1>9, <2>1 DEF Marks
    <2> QED  BY <1>7, <2>1, <2>2
  <1>12. CASE update_content(r)
    <2>1. PICK d \in Live, t \in Texts :
            /\ docs' = [docs EXCEPT ![d].text = t, ![d].version = Bumped(d)]
            /\ Await(r, [at |-> "kb", doc |-> d, text |-> t])
      BY <1>12 DEF update_content
    <2>2. docs[d] \in Row /\ Bumped(d) \in Nat
      BY <2>1 DEF Bumped, Row
    <2>3. docs' \in [Docs -> Row \cup {NoDoc}]
      BY <2>1, <2>2, RowChanges
    <2>4. [at |-> "kb", doc |-> d, text |-> t] \in ReqRec
      BY <2>1 DEF ReqRec
    <2> QED  BY <1>12, <1>q, <2>1, <2>3, <2>4 DEF update_content
  <1>13. CASE FetchKb(r)
    <2>1. Q \in [at : {"kb"}, doc : Docs, text : Texts]
      BY <1>13, <1>q, ReqCases DEF FetchKb
    <2>2. Exists(Q.doc) => docs[Q.doc].kb \in Kbs
      BY <2>1 DEF Row
    <2>3. Exists(Q.doc) => [at |-> "drop", doc |-> Q.doc, text |-> Q.text, kb |-> docs[Q.doc].kb] \in ReqRec
      BY <2>1, <2>2 DEF ReqRec
    <2> QED  BY <1>13, <1>q, <2>3 DEF FetchKb, storeVars
  <1>14. CASE DropChunksOf(r)
    <2>1. Q \in [at : {"drop", "cut"}, doc : Docs, text : Texts, kb : Kbs]
      BY <1>14, <1>q, ReqCases DEF DropChunksOf
    <2>2. [Q EXCEPT !.at = "cut"] \in ReqRec
      BY <2>1 DEF ReqRec
    <2> QED  BY <1>14, <1>q, <2>1, <2>2 DEF DropChunksOf
  <1>15. CASE StoreChunksOf(r)
    <2>1. Q \in [at : {"drop", "cut"}, doc : Docs, text : Texts, kb : Kbs]
      BY <1>15, <1>q, ReqCases DEF StoreChunksOf
    <2>2. chunks' \in [Docs -> Chunked \cup {NoChunks}]
      BY <1>15, <2>1, Chunks DEF StoreChunksOf
    <2> QED  BY <1>15, <1>q, <2>2 DEF StoreChunksOf
  <1>16. CASE update_metadata(r)
    <2>1. PICK d \in Live, k \in kbs :
            /\ docs' = [docs EXCEPT ![d].kb = k]
            /\ chunks' = IF chunks[d] = NoChunks THEN chunks ELSE [chunks EXCEPT ![d].kb = k]
      BY <1>16 DEF update_metadata
    <2>2. docs' \in [Docs -> Row \cup {NoDoc}]
      BY <2>1, RowChanges
    <2>3. chunks' \in [Docs -> Chunked \cup {NoChunks}]
      BY <2>1 DEF Chunked
    <2> QED  BY <1>16, <2>2, <2>3 DEF update_metadata
  <1>17. CASE BeginDelete(r)
    <2>1. PICK d \in Live :
            IF docs[d].kind = "note"
            THEN docs' = [docs EXCEPT ![d].archived = TRUE] /\ UNCHANGED req
            ELSE Await(r, [at |-> "delete", ids |-> {d} \cup AssetsOf({d})]) /\ UNCHANGED docs
      BY <1>17 DEF BeginDelete
    <2>2. docs' \in [Docs -> Row \cup {NoDoc}]
      <3>1. docs[d] \in Row /\ [docs[d] EXCEPT !.archived = TRUE] \in Row
        BY RowChanges
      <3>2. docs' = [docs EXCEPT ![d] = [docs[d] EXCEPT !.archived = TRUE]] \/ docs' = docs
        BY <2>1
      <3> QED  BY <3>1, <3>2
    <2>3. [at |-> "delete", ids |-> {d} \cup AssetsOf({d})] \in ReqRec
      BY DEF ReqRec, AssetsOf
    <2> QED  BY <1>17, <1>q, <2>1, <2>2, <2>3 DEF BeginDelete
  <1>18. CASE _hard_delete(r)
    <2>1. Q \in [at : {"purge", "delete"}, ids : SUBSET Docs]
      BY <1>18, <1>q, ReqCases DEF _hard_delete
    <2>2. [Q EXCEPT !.at = "purge"] \in ReqRec
      BY <2>1 DEF ReqRec
    <2> QED  BY <1>18, <1>q, <2>2 DEF _hard_delete, Remove
  <1>19. CASE _purge_s3(r)
    BY <1>19, <1>q DEF _purge_s3
  <1>20. CASE _kb_document_ids(r)
    <2>1. PICK k \in kbs : Await(r, [at |-> "delete_kb", kb |-> k, ids |-> {d \in Live : docs[d].kb = k}])
      BY <1>20 DEF _kb_document_ids
    <2>2. [at |-> "delete_kb", kb |-> k, ids |-> {d \in Live : docs[d].kb = k}] \in ReqRec
      BY DEF ReqRec
    <2> QED  BY <1>20, <1>q, <2>1, <2>2 DEF _kb_document_ids, storeVars
  <1>21. CASE delete_kb(r)
    <2>1. Q \in [at : {"delete_kb"}, kb : Kbs, ids : SUBSET Docs]
      BY <1>21, <1>q, ReqCases DEF delete_kb
    <2>2. [at |-> "purge", ids |-> Q.ids] \in ReqRec
      BY <2>1 DEF ReqRec
    <2>3. docs' \in [Docs -> Row \cup {NoDoc}]
      BY <1>21 DEF delete_kb
    <2>4. chunks' \in [Docs -> Chunked \cup {NoChunks}]
      BY <1>21 DEF delete_kb
    <2> QED  BY <1>21, <1>q, <2>2, <2>3, <2>4 DEF delete_kb
  <1> QED
    BY <1>1, <1>2, <1>3, <1>4, <1>5, <1>6, <1>8, <1>10, <1>11, <1>12, <1>13, <1>14, <1>15, <1>16,
       <1>17, <1>18, <1>19, <1>20, <1>21 DEF RequestStep

--------------------------------------------------------------------------------
(* So does an extraction job. *)
LEMMA JobTypes ==
    ASSUME TypeInv, NEW d \in Docs, JobStep(d)
    PROVE  StoreType' /\ jobs' \in [Docs -> JobRec]
  <1> USE DEF TypeInv, StoreType
  <1> DEFINE J == jobs[d]
  <1>j. /\ J \in JobRec
        /\ \A j \in JobRec : [jobs EXCEPT ![d] = j] \in [Docs -> JobRec]
        /\ NoJob \in JobRec /\ [at |-> "waiting"] \in JobRec
    BY DEF NoJob, JobRec
  <1>s. /\ \A s \in {"processing", "failed"} : SetStatus(d, s) => docs' \in [Docs -> Row \cup {NoDoc}]
        /\ 0 \in 0..MaxDocs /\ d \in 0..MaxDocs
    <2>1. ASSUME NEW s \in {"processing", "failed"}, SetStatus(d, s) PROVE docs' \in [Docs -> Row \cup {NoDoc}]
      <3>1. CASE Exists(d)
        <4>1. docs[d] \in Row /\ [docs[d] EXCEPT !.status = s] \in Row
          BY <3>1, RowChanges
        <4> QED  BY <2>1, <3>1, <4>1 DEF SetStatus
      <3>2. CASE ~Exists(d)
        BY <2>1, <3>2 DEF SetStatus
      <3> QED  BY <3>1, <3>2
    <2> QED  BY <2>1, StoreAssumption
  <1>p. ASSUME NEW j, j.kb \in Kbs, j.text \in Texts, j.image \in Docs \cup {0}, j.todo \in Seq(Steps),
               j = [at |-> j.at, kb |-> j.kb, text |-> j.text, image |-> j.image, todo |-> j.todo]
        PROVE  Proceed(j) \in JobRec
    <2>1. CASE j.todo = <<>>
      BY <2>1, <1>j DEF Proceed
    <2>2. CASE j.todo # <<>>
      <3>1. Head(j.todo) \in Steps /\ Tail(j.todo) \in Seq(Steps)
        BY <1>p, <2>2
      <3>2. Proceed(j) = [at |-> Head(j.todo), kb |-> j.kb, text |-> j.text, image |-> j.image, todo |-> Tail(j.todo)]
        BY <1>p, <2>2 DEF Proceed
      <3> QED  BY <1>p, <3>1, <3>2 DEF JobRec
    <2> QED  BY <2>1, <2>2
  <1>1. CASE process_document(d)
    <2>1. Exists(d) => docs[d].kb \in Kbs
      BY DEF Row
    <2>2. Exists(d) => [at |-> "started", kb |-> docs[d].kb] \in JobRec
      BY <2>1 DEF JobRec
    <2> QED  BY <1>1, <1>s, <1>j, <2>2 DEF process_document
  <1>2. CASE Fails(d)
    BY <1>2, <1>s, <1>j DEF Fails
  <1>3. CASE Fetch(d)
    <2>1. J \in [at : {"started", "extracting"}, kb : Kbs]
      BY <1>3, <1>j, JobCases DEF Fetch
    <2>2. [J EXCEPT !.at = "extracting"] \in JobRec
      BY <2>1 DEF JobRec
    <2> QED  BY <1>3, <1>j, <2>2 DEF Fetch, Goto, storeVars
  <1>4. CASE _check_user_page_limit(d)
    <2>1. J.kb \in Kbs
      BY <1>4, <1>j, JobCases DEF _check_user_page_limit
    <2>2. Extraction(d) \subseteq Nat
      BY OcrAssumption DEF Extraction, _process_pdf, _process_html, _parse_sheets, _process_image,
                           _call_mistral_ocr, _call_converter_extract, _process_opendataloader
    <2>3. \A n \in Nat : [at |-> "checked", kb |-> J.kb, pages |-> n] \in JobRec
      BY <2>1 DEF JobRec
    <2>4. PICK n \in Extraction(d) :
            IF PagesUsed + n > PageLimit
            THEN SetStatus(d, "failed") /\ jobs' = [jobs EXCEPT ![d] = NoJob] /\ UNCHANGED locked
            ELSE /\ locked' = d
                 /\ jobs' = [jobs EXCEPT ![d] = [at |-> "checked", kb |-> J.kb, pages |-> n]]
                 /\ UNCHANGED docs
      BY <1>4 DEF _check_user_page_limit
    <2>5. jobs' \in [Docs -> JobRec]
      BY <1>j, <2>2, <2>3, <2>4
    <2>6. docs' \in [Docs -> Row \cup {NoDoc}] /\ locked' \in 0..MaxDocs
      BY <1>s, <2>4
    <2> QED  BY <1>4, <2>5, <2>6 DEF _check_user_page_limit
  <1>5. CASE DropChunks(d)
    <2>1. J \in [at : Steps, kb : Kbs, text : Texts, image : Docs \cup {0}, todo : Seq(Steps)]
      BY <1>5, <1>j, JobCases DEF DropChunks, Steps
    <2>2. Proceed(J) \in JobRec
      BY <2>1, <1>p
    <2> QED  BY <1>5, <1>j, <2>2 DEF DropChunks
  <1>6. CASE store_chunks(d)
    <2>1. J \in [at : Steps, kb : Kbs, text : Texts, image : Docs \cup {0}, todo : Seq(Steps)]
      BY <1>6, <1>j, JobCases DEF store_chunks, Steps
    <2>2. Proceed(J) \in JobRec
      BY <2>1, <1>p
    <2>3. chunks' \in [Docs -> Chunked \cup {NoChunks}]
      BY <1>6, <2>1, Chunks DEF store_chunks
    <2> QED  BY <1>6, <1>j, <2>2, <2>3 DEF store_chunks
  <1>7. CASE _upload_assets(d)
    <2>1. J \in [at : Steps, kb : Kbs, text : Texts, image : Docs \cup {0}, todo : Seq(Steps)]
      BY <1>7, <1>j, JobCases DEF _upload_assets, Steps
    <2>2. Proceed(J) \in JobRec
      BY <2>1, <1>p
    <2>3. objects' \in [Docs -> [of : Uploads \cup {0}, bytes : Seq(Nat)] \cup {NoFile}]
      BY <1>7, <2>1 DEF _upload_assets, Image
    <2> QED  BY <1>7, <1>j, <2>2, <2>3 DEF _upload_assets
  <1>8. CASE _store_extracted_pages(d)
    <2>1. J \in [at : {"checked"}, kb : Kbs, pages : Nat]
      BY <1>8, <1>j, JobCases DEF _store_extracted_pages
    <2>2. CASE ~Exists(d)
      BY <1>8, <2>2, <1>j, <1>s DEF _store_extracted_pages
    <2>3. CASE Exists(d)
      <3> DEFINE old == IF FormatOf[d] = "pdf" THEN ImagesOf(d) ELSE {}
                 text == IF FormatOf[d] = "image" THEN docs[d].text
                         ELSE IF J.pages = 0 THEN 0 ELSE FileText
                 kept == [x \in Docs |-> IF x \in old THEN NoDoc ELSE docs[x]]
                 paged == [kept EXCEPT ![d].status = "ready", ![d].text = text, ![d].pages = J.pages]
                 job(img, a) == [at |-> "checked", kb |-> J.kb, text |-> text, image |-> IF img = 0 THEN 0 ELSE a,
                                 todo |-> _process_document_tail(d)]
      <3>1. PICK img \in {0, 1} :
              /\ born + img <= MaxDocs
              /\ born' = born + img
              /\ docs' = IF img = 0 THEN paged ELSE [paged EXCEPT ![born + img] = Asset(d, J.kb)]
              /\ chunks' = [x \in Docs |-> IF x \in old THEN NoChunks ELSE chunks[x]]
              /\ jobs' = [jobs EXCEPT ![d] = Proceed(job(img, born + img))]
        BY <1>8, <2>3 DEF _store_extracted_pages, _build_pdf_assets
      <3>2. text \in Texts /\ born + img \in 0..MaxDocs /\ (img = 1 => born + img \in Docs)
        BY <3>1, <2>3, StoreAssumption, OcrAssumption DEF Row
      <3>3. kept \in [Docs -> Row \cup {NoDoc}] /\ kept[d] \in Row
        BY <2>3 DEF ImagesOf
      <3>4. paged \in [Docs -> Row \cup {NoDoc}]
        <4>1. [kept[d] EXCEPT !.status = "ready", !.text = text, !.pages = J.pages] \in Row
          BY <3>2, <3>3, <2>1, RowChanges
        <4>2. paged = [kept EXCEPT ![d] = [kept[d] EXCEPT !.status = "ready", !.text = text, !.pages = J.pages]]
          BY <3>3
        <4> HIDE DEF paged, kept, text
        <4> QED  BY <3>3, <4>1, <4>2
      <3>5. docs' \in [Docs -> Row \cup {NoDoc}]
        <4> HIDE DEF paged
        <4> QED  BY <3>1, <3>2, <3>4, <2>1, Rows
      <3>6. Proceed(job(img, born + img)) \in JobRec
        <4>1. _process_document_tail(d) \in Seq(Steps)
          <5>1. /\ <<>> \in Seq(Steps) /\ <<"drop", "cut">> \in Seq(Steps)
                /\ <<"upload", "drop", "cut">> \in Seq(Steps) /\ <<"drop", "cut", "upload">> \in Seq(Steps)
            BY DEF Steps
          <5> QED  BY <5>1 DEF _process_document_tail
        <4> QED  BY <1>p, <3>1, <3>2, <4>1, <2>1
      <3>7. chunks' \in [Docs -> Chunked \cup {NoChunks}]
        BY <3>1
      <3> HIDE DEF old, text, kept, paged, job
      <3> QED  BY <1>8, <1>j, <1>s, <3>1, <3>2, <3>5, <3>6, <3>7 DEF _store_extracted_pages
    <2> QED  BY <2>2, <2>3
  <1> QED  BY <1>1, <1>2, <1>3, <1>4, <1>5, <1>6, <1>7, <1>8 DEF JobStep

--------------------------------------------------------------------------------
(* And an upload, whose PATCH requests number the bytes they append. *)
LEMMA UploadTypes ==
    ASSUME TypeInv, UploadStep
    PROVE  StoreType' /\ jobs' \in [Docs -> JobRec] /\ UploadType'
  <1> USE DEF TypeInv, StoreType, UploadType
  <1> DEFINE Goal == StoreType' /\ jobs' \in [Docs -> JobRec] /\ UploadType'
  <1>1. ASSUME NEW u \in Uploads, ReadUsage(u) PROVE Goal
    <2>1. Sizes \in Nat
      <3>1. IsFiniteSet(Docs)
        BY FS_Interval, StoreAssumption
      <3>2. IsFiniteSet({d \in Live : docs[d].kind # "note"})
        BY <3>1, FS_Subset
      <3> QED  BY <3>2, FS_CardinalityType DEF Sizes
    <2>2. PICK k \in kbs : uploads' = [uploads EXCEPT ![u] = [at |-> "checked", offset |-> 0, kb |-> k, used |-> Sizes]]
      BY <1>1 DEF ReadUsage
    <2>3. [at |-> "checked", offset |-> 0, kb |-> k, used |-> Sizes] \in UploadRec
      BY <2>1 DEF UploadRec
    <2> QED  BY <1>1, <2>2, <2>3 DEF ReadUsage, storeVars
  <1>2. ASSUME NEW w \in UploadRec
        PROVE  /\ [w EXCEPT !.at = "gone"] \in UploadRec
               /\ w.offset \in Nat
               /\ \A n \in Nat : [w EXCEPT !.offset = n] \in UploadRec
               /\ \A n \in Nat : [w EXCEPT !.offset = n, !.at = "gone"] \in UploadRec
               /\ w.at = "checked" => [w EXCEPT !.at = "open"] \in UploadRec
    BY DEF UploadRec
  <1>3. ASSUME NEW u \in Uploads, tus_create(u) PROVE Goal
    <2>1. uploads[u] \in UploadRec /\ uploads[u].at = "checked"
      BY <1>3 DEF tus_create
    <2>2. uploads' \in [Uploads -> UploadRec]
      BY <1>2, <1>3, <2>1 DEF tus_create
    <2>3. temp' \in [Uploads -> Seq(Nat) \cup {NoFile}]
      <3>1. <<>> \in Seq(Nat)
        OBVIOUS
      <3> QED  BY <1>3, <3>1 DEF tus_create
    <2> QED  BY <1>3, <2>2, <2>3 DEF tus_create, storeVars
  <1>4. ASSUME NEW u \in Uploads, cleanup_stale_uploads(u) PROVE Goal
    BY <1>2, <1>4 DEF cleanup_stale_uploads, storeVars
  <1>5. ASSUME NEW p \in Patches, NEW u \in Uploads, tus_patch(p, u) PROVE Goal
    <2>1. [at |-> "draining", upload |-> u, from |-> uploads[u].offset, written |-> 0] \in PatchRec
      BY <1>2 DEF PatchRec
    <2> QED  BY <1>5, <2>1 DEF tus_patch, storeVars
  <1>n. NoPatch \in PatchRec
    BY DEF NoPatch, PatchRec
  <1>6. ASSUME NEW p \in Patches, patch[p].at \in {"draining", "storing"}
        PROVE  patch[p] \in [at : {"draining", "storing"}, upload : Uploads, from : Nat, written : Nat]
    BY <1>6, PatchCases
  <1>7. ASSUME NEW p \in Patches, _append_file(p) PROVE Goal
    <2>1. patch[p] \in [at : {"draining", "storing"}, upload : Uploads, from : Nat, written : Nat]
      BY <1>6, <1>7 DEF _append_file
    <2>2. [patch[p] EXCEPT !.written = @ + 1] \in PatchRec
      BY <2>1 DEF PatchRec
    <2>3. ASSUME NEW s \in Seq(Nat) PROVE Append(s, patch[p].from + patch[p].written + 1) \in Seq(Nat)
      BY <2>1
    <2>4. temp' \in [Uploads -> Seq(Nat) \cup {NoFile}]
      BY <1>7, <2>1, <2>3 DEF _append_file
    <2> QED  BY <1>7, <2>2, <2>4 DEF _append_file, storeVars
  <1>8. ASSUME NEW p \in Patches, PatchStops(p) PROVE Goal
    <2>1. patch[p] \in [at : {"draining", "storing"}, upload : Uploads, from : Nat, written : Nat]
      BY <1>6, <1>8 DEF PatchStops
    <2>2. uploads[patch[p].upload] \in UploadRec /\ patch[p].written \in Nat
      BY <2>1
    <2>3. uploads' \in [Uploads -> UploadRec]
      <3>1. uploads[patch[p].upload].offset + patch[p].written \in Nat
        <4>1. uploads[patch[p].upload].offset \in Nat
          BY <1>2, <2>2
        <4> QED  BY <2>2, <4>1
      <3> QED  BY <1>2, <1>8, <2>1, <2>2, <3>1 DEF PatchStops
    <2> QED  BY <1>8, <1>n, <2>3 DEF PatchStops, storeVars
  <1>9. ASSUME NEW p \in Patches, PatchEnds(p) PROVE Goal
    <2>1. patch[p] \in [at : {"draining", "storing"}, upload : Uploads, from : Nat, written : Nat]
      BY <1>6, <1>9 DEF PatchEnds
    <2>2. [patch[p] EXCEPT !.at = "storing"] \in PatchRec
      BY <2>1 DEF PatchRec
    <2> DEFINE u == patch[p].upload
               offset == uploads[u].offset + patch[p].written
    <2>3. u \in Uploads /\ uploads[u] \in UploadRec /\ offset \in Nat
      <3>1. u \in Uploads /\ uploads[u] \in UploadRec /\ patch[p].written \in Nat
        BY <2>1
      <3>2. uploads[u].offset \in Nat
        BY <1>2, <3>1
      <3> QED  BY <3>1, <3>2
    <2>4. /\ \/ uploads' = [uploads EXCEPT ![u].offset = offset]
             \/ uploads' = [uploads EXCEPT ![u].offset = offset, ![u].at = "gone"]
          /\ \/ patch' = [patch EXCEPT ![p] = NoPatch]
             \/ patch' = [patch EXCEPT ![p].at = "storing"]
          /\ temp' = temp \/ temp' = [temp EXCEPT ![u] = NoFile]
      BY <1>9 DEF PatchEnds
    <2> HIDE DEF u, offset
    <2>5. uploads' \in [Uploads -> UploadRec]
      <3>1. \/ uploads' = [uploads EXCEPT ![u] = [uploads[u] EXCEPT !.offset = offset]]
            \/ uploads' = [uploads EXCEPT ![u] = [uploads[u] EXCEPT !.offset = offset, !.at = "gone"]]
        BY <2>3, <2>4
      <3>2. /\ [uploads[u] EXCEPT !.offset = offset] \in UploadRec
            /\ [uploads[u] EXCEPT !.offset = offset, !.at = "gone"] \in UploadRec
        BY <1>2, <2>3
      <3> QED  BY <2>3, <3>1, <3>2
    <2>6. patch' \in [Patches -> PatchRec]
      BY <1>n, <2>2, <2>4
    <2>7. temp' \in [Uploads -> Seq(Nat) \cup {NoFile}]
      BY <2>3, <2>4
    <2> QED  BY <1>9, <2>5, <2>6, <2>7 DEF PatchEnds, storeVars
  <1>10. ASSUME NEW p \in Patches, StoreFile(p) PROVE Goal
    <2>1. patch[p].upload \in Uploads /\ born + 1 \in Docs /\ born + 1 \in 0..MaxDocs
      BY <1>6, <1>10, StoreAssumption DEF StoreFile
    <2>2. [at |-> "inserting", upload |-> patch[p].upload, doc |-> born + 1] \in PatchRec
      BY <2>1 DEF PatchRec
    <2>3. objects' \in [Docs -> [of : Uploads \cup {0}, bytes : Seq(Nat)] \cup {NoFile}]
      BY <1>10, <2>1 DEF StoreFile
    <2> QED  BY <1>10, <2>1, <2>2, <2>3 DEF StoreFile
  <1>11. ASSUME NEW p \in Patches, StoreFails(p) PROVE Goal
    BY <1>11, <1>n DEF StoreFails, storeVars
  <1>12. ASSUME NEW p \in Patches, NEW ok \in BOOLEAN, _finalize(p, ok) PROVE Goal
    <2>1. patch[p] \in [at : {"inserting"}, upload : Uploads, doc : Docs]
      BY <1>12, PatchCases DEF _finalize
    <2>2. [at |-> "waiting"] \in JobRec
      BY DEF JobRec
    <2>3. docs' \in [Docs -> Row \cup {NoDoc}]
      BY <1>12, <2>1, Rows DEF _finalize
    <2>4. jobs' \in [Docs -> JobRec]
      BY <1>12, <2>1, <2>2 DEF _finalize
    <2>5. UploadType'
      BY <1>12, <2>1, <1>2, <1>n DEF _finalize
    <2> QED  BY <1>12, <2>3, <2>4, <2>5 DEF _finalize
  <1> QED  BY <1>1, <1>3, <1>4, <1>5, <1>7, <1>8, <1>9, <1>10, <1>11, <1>12 DEF UploadStep

(* A restart keeps the store and empties the rest. *)
LEMMA RestartTypes == ASSUME TypeInv, Restart PROVE TypeInv'
  <1> USE DEF TypeInv, StoreType, UploadType, Restart
  <1>1. jobs' \in [Docs -> JobRec]
    BY DEF JobsRecovered, NoJob, JobRec
  <1>2. req' \in [Requests -> ReqRec]
    BY DEF RequestsLost, Idle, ReqRec
  <1>3. UploadType'
    BY DEF UploadsLost, NoPatch, PatchRec, UploadRec
  <1> QED  BY <1>1, <1>2, <1>3, StoreAssumption DEF JobsRecovered

(* The service starts with documents that were uploaded before. *)
LEMMA InitTypes == Init => TypeInv
  <1> SUFFICES ASSUME Init PROVE TypeInv
    OBVIOUS
  <1> USE DEF Init
  <1>1. StoreType
    <2>1. docs \in [Docs -> Row \cup {NoDoc}]
      <3>1. {File(k) : k \in Kbs} \subseteq Row
        BY Rows
      <3>2. docs \in [Docs -> {NoDoc} \cup {File(k) : k \in Kbs}]
        OBVIOUS
      <3> QED  BY <3>1, <3>2
    <2>2. objects \in [Docs -> [of : Uploads \cup {0}, bytes : Seq(Nat)] \cup {NoFile}]
      BY DEF Image
    <2> QED  BY <2>1, <2>2, StoreAssumption, ServiceAssumption DEF StoreType
  <1>2. jobs \in [Docs -> JobRec] /\ req \in [Requests -> ReqRec]
    BY DEF JobRec, NoJob, RequestsInit, Idle, ReqRec
  <1>3. UploadType
    BY DEF UploadType, UploadInit, UploadRec, NoPatch, PatchRec
  <1> QED  BY <1>1, <1>2, <1>3 DEF TypeInv

(* No step takes a variable out of its type. *)
LEMMA StepTypes == ASSUME TypeInv, [Next]_vars PROVE TypeInv'
  <1>1. CASE UploadStep /\ UNCHANGED <<req, restarts, remade>>
    BY <1>1, UploadTypes DEF TypeInv
  <1>2. ASSUME NEW d \in Docs, Extract(d) PROVE TypeInv'
    BY <1>2, JobTypes DEF TypeInv, UploadType, Extract, uploadVars
  <1>3. ASSUME NEW r \in Requests, Serve(r) PROVE TypeInv'
    BY <1>3, RequestTypes DEF TypeInv, UploadType, Serve, uploadVars
  <1>4. CASE UNCHANGED vars
    BY <1>4 DEF vars, TypeInv, StoreType, UploadType, storeVars, uploadVars
  <1> QED  BY <1>1, <1>2, <1>3, <1>4, RestartTypes DEF Next

(* Rows, chunks and files keep their shape, and an empty text never gets chunks. *)
THEOREM StoreTyped == Spec => []StoreType
  <1>1. TypeInv => StoreType
    BY DEF TypeInv
  <1> QED  BY InitTypes, StepTypes, <1>1, PTL DEF Spec

------------------------------------------------------------------------------
(***************************************************************************)
(* Highlights of the hosted service, for any number of requests, documents *)
(* and places: no chunk shows an annotation that is gone, and a version    *)
(* names the highlights that were read with it.  Both rest on ids: an id   *)
(* that waits for its row (of an upload, a clip, an image) belongs to one  *)
(* request, names no row, and is not known to another request.             *)
(***************************************************************************)
Inserting == {p \in Patches : patch[p].at = "inserting"}
UploadIds == {patch[p].doc : p \in Inserting}

\* Ids a clip has drawn and not used, and ids of rows that a request found.
HeldBy(r) ==
    IF req[r].at # "clip" THEN {}
    ELSE ({req[r].image} \ {0}) \cup (IF req[r].existing_preview THEN {} ELSE {req[r].parent})
SeenBy(r) ==
    IF req[r].at = "mark" THEN {req[r].doc}
    ELSE IF req[r].at = "clip" /\ req[r].existing_preview THEN {req[r].parent} ELSE {}

IdsInv ==
    /\ \A d \in Live : d <= born
    /\ \A d \in UploadIds : d <= born /\ ~Exists(d)
    /\ \A p \in Inserting, q \in Inserting : patch[p].doc = patch[q].doc => p = q
    /\ \A r \in Requests : \A d \in HeldBy(r) : d <= born /\ ~Exists(d) /\ d \notin UploadIds
    /\ \A r \in Requests, s \in Requests : \A d \in HeldBy(r) : (d \in HeldBy(s) => r = s) /\ d \notin SeenBy(s)
    /\ \A r \in Requests : \A d \in SeenBy(r) : d <= born /\ d \notin UploadIds
    /\ \A r \in Requests : req[r].at = "clip" => req[r].image # req[r].parent

Fits(d) == \A i \in Places : chunks[d].notes[i] \subseteq NotesAt(docs[d].marks, i)
ChunksInv == \A d \in Docs : chunks[d] = NoChunks \/ (Exists(d) /\ Fits(d))

VersionInv ==
    \A r \in Requests : LET q == req[r] IN
        q.at = "mark" /\ r \notin remade /\ Exists(q.doc)
            => /\ q.version <= docs[q.doc].version
               /\ q.version = docs[q.doc].version => docs[q.doc].marks = q.marks

--------------------------------------------------------------------------------
(* What most steps do to the ids: rows come under new ids only, clips and
   uploads end, and highlights are read of rows that are there. *)
NewIdsOnly ==
    /\ born <= born'
    /\ \A d \in Docs : docs'[d] # NoDoc => Exists(d) \/ (born < d /\ d <= born')
QuietRequests ==
    \A q \in Requests :
        /\ req'[q].at = "clip" => req'[q] = req[q]
        /\ req'[q].at = "mark" => req'[q] = req[q] \/ req'[q].doc \in Live
QuietUploads == \A p \in Patches : patch'[p].at = "inserting" => patch'[p] = patch[p]

\* Rows keep their highlights, or get a higher version.
RowsOnward ==
    \A d \in Docs : Exists(d) /\ docs'[d] # NoDoc =>
        \/ docs'[d].version = docs[d].version /\ docs'[d].marks = docs[d].marks
        \/ docs'[d].version > docs[d].version

(* Ids are ids of documents. *)
LEMMA IdTypes ==
    ASSUME TypeInv
    PROVE  /\ born \in Nat /\ Docs \subseteq Nat /\ UploadIds \subseteq Docs
           /\ \A p \in Inserting : patch[p].doc \in Docs
           /\ \A r \in Requests : HeldBy(r) \subseteq Docs /\ SeenBy(r) \subseteq Docs
  <1>1. born \in Nat
    BY StoreAssumption DEF TypeInv, StoreType
  <1>2. \A p \in Inserting : patch[p].doc \in Docs
    BY PatchCases DEF TypeInv, UploadType, Inserting
  <1>3. ASSUME NEW r \in Requests PROVE HeldBy(r) \subseteq Docs /\ SeenBy(r) \subseteq Docs
    <2>1. req[r] \in ReqRec
      BY DEF TypeInv
    <2>2. CASE req[r].at = "clip"
      BY <2>1, <2>2, ReqCases DEF HeldBy, SeenBy
    <2>3. CASE req[r].at = "mark"
      BY <2>1, <2>3, ReqCases DEF HeldBy, SeenBy
    <2> QED  BY <2>2, <2>3 DEF HeldBy, SeenBy
  <1> QED  BY <1>1, <1>2, <1>3 DEF UploadIds

(* Steps that draw no id and insert nothing under a drawn one leave the ids in order. *)
LEMMA Quiet ==
    ASSUME TypeInv, TypeInv', IdsInv, NewIdsOnly, QuietRequests, QuietUploads
    PROVE  IdsInv'
  <1>t. /\ born \in Nat /\ Docs \subseteq Nat /\ UploadIds \subseteq Docs
        /\ \A p \in Inserting : patch[p].doc \in Docs
        /\ \A r \in Requests : HeldBy(r) \subseteq Docs /\ SeenBy(r) \subseteq Docs
    BY IdTypes
  <1>b. born' \in Nat
    BY StoreAssumption DEF TypeInv, StoreType
  <1>1. \A d \in Docs : docs'[d] # NoDoc => d <= born'
    BY <1>t, <1>b DEF IdsInv, NewIdsOnly
  <1>2. /\ Inserting' \subseteq Inserting /\ UploadIds' \subseteq UploadIds
        /\ \A p \in Inserting' : patch'[p].doc = patch[p].doc
    BY DEF QuietUploads, Inserting, UploadIds
  <1>3. \A r \in Requests : HeldBy(r)' \subseteq HeldBy(r)
    BY DEF QuietRequests, HeldBy
  <1>4. \A r \in Requests : SeenBy(r)' \subseteq SeenBy(r) \cup Live
    BY DEF QuietRequests, SeenBy
  <1>5. \A d \in UploadIds' : d <= born' /\ docs'[d] = NoDoc
    BY <1>t, <1>b, <1>2 DEF IdsInv, NewIdsOnly, UploadIds
  <1>6. \A p \in Inserting', q \in Inserting' : patch'[p].doc = patch'[q].doc => p = q
    BY <1>2 DEF IdsInv
  <1>7. \A r \in Requests : \A d \in HeldBy(r)' : d <= born' /\ docs'[d] = NoDoc /\ d \notin UploadIds'
    BY <1>t, <1>b, <1>2, <1>3 DEF IdsInv, NewIdsOnly
  <1>8. \A r \in Requests, s \in Requests : \A d \in HeldBy(r)' :
            (d \in HeldBy(s)' => r = s) /\ d \notin SeenBy(s)'
    BY <1>3, <1>4 DEF IdsInv
  <1>9. \A r \in Requests : \A d \in SeenBy(r)' : d <= born' /\ d \notin UploadIds'
    BY <1>t, <1>b, <1>2, <1>4 DEF IdsInv, NewIdsOnly
  <1>10. \A r \in Requests : req'[r].at = "clip" => req'[r].image # req'[r].parent
    BY DEF IdsInv, QuietRequests
  <1> QED  BY <1>1, <1>5, <1>6, <1>7, <1>8, <1>9, <1>10 DEF IdsInv

(* The id drawn for an upload is new. *)
LEMMA StoreFileIds ==
    ASSUME TypeInv, IdsInv, NEW p \in Patches, StoreFile(p), UNCHANGED req
    PROVE  IdsInv'
  <1>t. /\ born \in Nat /\ Docs \subseteq Nat /\ UploadIds \subseteq Docs
        /\ \A q \in Inserting : patch[q].doc \in Docs
        /\ \A r \in Requests : HeldBy(r) \subseteq Docs /\ SeenBy(r) \subseteq Docs
    BY IdTypes
  <1>1. /\ born' = born + 1 /\ docs' = docs
        /\ \A q \in Patches \ {p} : patch'[q] = patch[q]
        /\ patch'[p].at = "inserting" /\ patch'[p].doc = born + 1
    BY DEF StoreFile, TypeInv, UploadType
  <1>2. /\ Inserting' = Inserting \cup {p} /\ UploadIds' \subseteq UploadIds \cup {born + 1}
        /\ \A q \in Inserting \ {p} : patch'[q].doc = patch[q].doc
    BY <1>1 DEF Inserting, UploadIds
  <1>3. \A r \in Requests : HeldBy(r)' = HeldBy(r) /\ SeenBy(r)' = SeenBy(r)
    BY DEF HeldBy, SeenBy
  <1>4. \A q \in Inserting', s \in Inserting' : patch'[q].doc = patch'[s].doc => q = s
    BY <1>t, <1>1, <1>2 DEF IdsInv, UploadIds
  <1>5. \A d \in UploadIds' : d <= born' /\ docs'[d] = NoDoc
    <2>1. born + 1 \in Docs
      BY <1>t, StoreAssumption DEF StoreFile
    <2> QED  BY <1>t, <1>1, <1>2, <2>1 DEF IdsInv
  <1> QED  BY <1>t, <1>1, <1>2, <1>3, <1>4, <1>5 DEF IdsInv

(* Its row takes the place of the id. *)
LEMMA FinalizeIds ==
    ASSUME TypeInv, IdsInv, NEW p \in Patches, NEW ok \in BOOLEAN, _finalize(p, ok), UNCHANGED req
    PROVE  IdsInv'
  <1>t. /\ born \in Nat /\ Docs \subseteq Nat /\ UploadIds \subseteq Docs
        /\ \A q \in Inserting : patch[q].doc \in Docs
        /\ \A r \in Requests : HeldBy(r) \subseteq Docs /\ SeenBy(r) \subseteq Docs
    BY IdTypes
  <1>1. /\ born' = born /\ p \in Inserting
        /\ \A d \in Docs \ {patch[p].doc} : docs'[d] = docs[d]
        /\ \A q \in Patches \ {p} : patch'[q] = patch[q]
        /\ patch'[p].at = "idle"
    BY <1>t DEF _finalize, TypeInv, StoreType, UploadType, NoPatch, Inserting
  <1>2. /\ Inserting' = Inserting \ {p}
        /\ \A q \in Inserting' : patch'[q].doc = patch[q].doc
        /\ patch[p].doc \in UploadIds
    BY <1>1 DEF Inserting, UploadIds
  <1>3. UploadIds' = UploadIds \ {patch[p].doc}
    BY <1>1, <1>2 DEF IdsInv, UploadIds
  <1>4. \A r \in Requests : HeldBy(r)' = HeldBy(r) /\ SeenBy(r)' = SeenBy(r)
    BY DEF HeldBy, SeenBy
  <1> QED  BY <1>t, <1>1, <1>2, <1>3, <1>4 DEF IdsInv

(* The ids drawn for a clip and its image are new, and the clip that was found is not drawn by anybody. *)
LEMMA PreviewIds ==
    ASSUME TypeInv, TypeInv', IdsInv, NEW r \in Requests, PreviewClip(r), UNCHANGED patch
    PROVE  IdsInv'
  <1>t. /\ born \in Nat /\ Docs \subseteq Nat /\ UploadIds \subseteq Docs
        /\ \A q \in Inserting : patch[q].doc \in Docs
        /\ \A s \in Requests : HeldBy(s) \subseteq Docs /\ SeenBy(s) \subseteq Docs
    BY IdTypes
  <1>1. PICK k \in kbs, t \in Texts, img \in {0, 1} :
          LET known == {d \in Clips : docs[d].kb = k}
              parent == IF known = {} THEN born + 1 ELSE CHOOSE d \in known : TRUE
              n == born + img + (IF known = {} THEN 1 ELSE 0)
          IN /\ n <= MaxDocs /\ born' = n
             /\ Await(r, [at |-> "clip", kb |-> k, text |-> t, parent |-> parent, existing_preview |-> known # {},
                          image |-> IF img = 1 THEN n ELSE 0])
    BY DEF PreviewClip, materialize_webclip_assets
  <1> DEFINE known == {d \in Clips : docs[d].kb = k}
             parent == IF known = {} THEN born + 1 ELSE CHOOSE d \in known : TRUE
             n == born + img + (IF known = {} THEN 1 ELSE 0)
  <1>2. /\ docs' = docs /\ born' = n /\ Inserting' = Inserting /\ UploadIds' = UploadIds
        /\ \A s \in Requests \ {r} : req'[s] = req[s]
        /\ req'[r].at = "clip" /\ req'[r].parent = parent /\ req'[r].existing_preview = (known # {})
        /\ req'[r].image = IF img = 1 THEN n ELSE 0
    <2>1. docs' = docs /\ Inserting' = Inserting /\ UploadIds' = UploadIds
      BY DEF PreviewClip, Inserting, UploadIds
    <2>2. req' = [req EXCEPT ![r] = [at |-> "clip", kb |-> k, text |-> t, parent |-> parent,
                     existing_preview |-> known # {}, image |-> IF img = 1 THEN n ELSE 0]]
      BY <1>1 DEF Await
    <2>3. born' = n
      BY <1>1
    <2> HIDE DEF known, parent, n
    <2>4. /\ \A s \in Requests \ {r} : req'[s] = req[s]
          /\ req'[r] = [at |-> "clip", kb |-> k, text |-> t, parent |-> parent,
                        existing_preview |-> known # {}, image |-> IF img = 1 THEN n ELSE 0]
      BY <2>2 DEF TypeInv
    <2> QED  BY <2>1, <2>3, <2>4
  <1>3. /\ n \in Nat /\ born <= n
        /\ known # {} => parent \in Live
        /\ known = {} => parent = born + 1 /\ n = born + 1 + img
        /\ known # {} => n = born + img
    BY <1>t DEF Clips
  <1> HIDE DEF known, parent, n
  <1>4. /\ \A s \in Requests \ {r} : HeldBy(s)' = HeldBy(s) /\ SeenBy(s)' = SeenBy(s)
        /\ \A d \in HeldBy(r)' : born < d /\ d <= n
        /\ SeenBy(r)' \subseteq Live
        /\ \A d \in HeldBy(r)' : d \notin SeenBy(r)'
        /\ req'[r].image # req'[r].parent
    <2>1. \A s \in Requests \ {r} : HeldBy(s)' = HeldBy(s) /\ SeenBy(s)' = SeenBy(s)
      BY <1>2 DEF HeldBy, SeenBy
    <2>2. CASE known = {}
      <3>1. HeldBy(r)' = ({req'[r].image} \ {0}) \cup {born + 1} /\ SeenBy(r)' = {}
        BY <1>t, <1>2, <1>3, <2>2 DEF HeldBy, SeenBy
      <3> QED  BY <1>t, <1>2, <1>3, <2>1, <2>2, <3>1
    <2>3. CASE known # {}
      <3>1. HeldBy(r)' = {req'[r].image} \ {0} /\ SeenBy(r)' = {parent}
        BY <1>2, <2>3 DEF HeldBy, SeenBy
      <3>2. parent \in Nat /\ parent <= born
        BY <1>t, <1>3, <2>3 DEF IdsInv
      <3> QED  BY <1>t, <1>2, <1>3, <2>1, <2>3, <3>1, <3>2
    <2> QED  BY <2>2, <2>3
  <1>5. HeldBy(r)' \subseteq Docs
    <2>1. req'[r] \in ReqRec
      BY DEF TypeInv
    <2> QED  BY <1>2, <2>1, ReqCases DEF HeldBy
  <1>6. \A s \in Requests : \A d \in HeldBy(s)' : d <= born' /\ docs'[d] = NoDoc /\ d \notin UploadIds'
    BY <1>t, <1>2, <1>3, <1>4, <1>5 DEF IdsInv
  <1>7. \A s \in Requests, q \in Requests : \A d \in HeldBy(s)' :
            (d \in HeldBy(q)' => s = q) /\ d \notin SeenBy(q)'
    BY <1>t, <1>2, <1>3, <1>4, <1>5 DEF IdsInv
  <1>8. \A s \in Requests : \A d \in SeenBy(s)' : d <= born' /\ d \notin UploadIds'
    BY <1>t, <1>2, <1>3, <1>4 DEF IdsInv
  <1> QED  BY <1>t, <1>2, <1>3, <1>4, <1>6, <1>7, <1>8 DEF IdsInv

(* A clip uses up the ids it drew; it can only insert its own or the row it found. *)
LEMMA ClipIds ==
    ASSUME TypeInv, IdsInv, NEW r \in Requests, UNCHANGED <<patch, born>>,
           \A s \in Requests \ {r} : req'[s] = req[s], req'[r].at = "purge",
           \A x \in Docs : docs'[x] # NoDoc => Exists(x) \/ x \in HeldBy(r) \cup SeenBy(r)
    PROVE  IdsInv'
  <1>t. /\ born \in Nat /\ Docs \subseteq Nat /\ UploadIds \subseteq Docs
        /\ \A q \in Inserting : patch[q].doc \in Docs
        /\ \A s \in Requests : HeldBy(s) \subseteq Docs /\ SeenBy(s) \subseteq Docs
    BY IdTypes
  <1>1. /\ Inserting' = Inserting /\ UploadIds' = UploadIds
        /\ \A s \in Requests \ {r} : HeldBy(s)' = HeldBy(s) /\ SeenBy(s)' = SeenBy(s)
        /\ HeldBy(r)' = {} /\ SeenBy(r)' = {}
    BY DEF Inserting, UploadIds, HeldBy, SeenBy
  <1>2. \A d \in Docs : docs'[d] # NoDoc => d <= born'
    BY <1>t DEF IdsInv
  <1>3. \A d \in UploadIds : docs'[d] = NoDoc
    BY <1>t DEF IdsInv
  <1>4. \A s \in Requests \ {r} : \A d \in HeldBy(s) : docs'[d] = NoDoc
    BY <1>t DEF IdsInv
  <1> QED  BY <1>t, <1>1, <1>2, <1>3, <1>4 DEF IdsInv

--------------------------------------------------------------------------------
(* Chunks that are made of a text show no annotation. *)
LEMMA FreshChunks ==
    ASSUME NEW t \in Texts, NEW k
    PROVE  chunk_text(t, k) = NoChunks \/ \A i \in Places : chunk_text(t, k).notes[i] = {}
  BY DEF chunk_text

(* Recomputing turns annotations that fit the old highlights into ones that fit the new. *)
LEMMA Recomputed ==
    ASSUME NEW c \in Chunked \cup {NoChunks}, NEW old, NEW new,
           c = NoChunks \/ \A i \in Places : c.notes[i] \subseteq NotesAt(old, i)
    PROVE  LET c2 == _recompute_chunks_for_doc(c, old, new) IN
           c2 = NoChunks \/ \A i \in Places : c2.notes[i] \subseteq NotesAt(new, i)
  <1>1. CASE c = NoChunks
    BY <1>1 DEF _recompute_chunks_for_doc
  <1>2. CASE c # NoChunks
    <2> DEFINE c2 == _recompute_chunks_for_doc(c, old, new)
    <2>1. c2 = [c EXCEPT !.notes = [i \in Places |-> IF i \in Touched(old) \cup Touched(new)
                                                    THEN NotesAt(new, i) ELSE c.notes[i]]]
      BY <1>2 DEF _recompute_chunks_for_doc
    <2>2. \A i \in Places : c2.notes[i] = IF i \in Touched(old) \cup Touched(new) THEN NotesAt(new, i) ELSE c.notes[i]
      BY <1>2, <2>1 DEF Chunked
    <2>3. ASSUME NEW i \in Places, i \notin Touched(old) PROVE c.notes[i] = {}
      <3>1. NotesAt(old, i) = {}
        BY <2>3, StoreAssumption DEF NotesAt, Touched
      <3> QED  BY <1>2, <3>1
    <2> HIDE DEF c2
    <2> QED  BY <2>2, <2>3 DEF c2
  <1> QED  BY <1>1, <1>2

--------------------------------------------------------------------------------
ReadsMarks ==
    \A q \in Requests : req'[q].at = "mark" =>
        \/ req'[q] = req[q]
        \/ /\ docs' = docs /\ req'[q].doc \in Live
           /\ req'[q].version = docs[req'[q].doc].version /\ req'[q].marks = docs[req'[q].doc].marks

(* What a request does to ids, chunks and rows. *)
LEMMA RequestEffect ==
    ASSUME TypeInv, TypeInv', IdsInv, ChunksInv, NEW r \in Requests, RequestStep(r), UNCHANGED patch
    PROVE  IdsInv' /\ ChunksInv' /\ RowsOnward /\ ReadsMarks
  <1> DEFINE Q == req[r]
             Goal == IdsInv' /\ ChunksInv' /\ RowsOnward /\ ReadsMarks
  <1>t. /\ Q \in ReqRec /\ req \in [Requests -> ReqRec] /\ born \in Nat /\ Docs \subseteq Nat
        /\ docs \in [Docs -> Row \cup {NoDoc}] /\ chunks \in [Docs -> Chunked \cup {NoChunks}]
        /\ kbs \subseteq Kbs
    BY IdTypes DEF TypeInv, StoreType
  <1>q. QuietUploads
    BY DEF QuietUploads
  <1>e. ASSUME NEW rec, req' = [req EXCEPT ![r] = rec], rec.at \notin {"clip", "mark"}
        PROVE  QuietRequests /\ ReadsMarks
    BY <1>t, <1>e DEF QuietRequests, ReadsMarks
  <1>k. docs' = docs /\ chunks' = chunks => ChunksInv' /\ RowsOnward
    BY DEF ChunksInv, Fits, RowsOnward
  <1>n. born' = born /\ (\A d \in Docs : docs'[d] # NoDoc => Exists(d)) => NewIdsOnly
    BY <1>t DEF NewIdsOnly
  <1>0. ASSUME NEW rec, req' = [req EXCEPT ![r] = rec], rec.at \notin {"clip", "mark"},
               docs' = docs, chunks' = chunks, born' = born
        PROVE  Goal
    BY <1>0, <1>e, <1>k, <1>n, <1>q, Quiet
  <1>1. CASE CheckNote(r)
    BY <1>0, <1>1 DEF CheckNote, Await, storeVars
  <1>2. CASE create_note(r)
    <2>1. Q.kb \in Kbs /\ born + 1 \in Docs
      BY <1>2, <1>t, ReqCases, StoreAssumption DEF create_note
    <2>2. PICK t \in Texts :
            /\ docs' = [docs EXCEPT ![born + 1] =
                          [File(Q.kb) EXCEPT !.kind = "note", !.status = "ready", !.text = t]]
            /\ chunks' = [chunks EXCEPT ![born + 1] = chunk_text(t, Q.kb)]
      BY <1>2 DEF create_note
    <2>3. docs'[born + 1] # NoDoc /\ ~Exists(born + 1)
      <3>1. [File(Q.kb) EXCEPT !.kind = "note", !.status = "ready", !.text = t] \in Row
        BY <2>1, Rows
      <3>2. docs'[born + 1] \in Row
        BY <1>t, <2>1, <2>2, <3>1
      <3>3. ~Exists(born + 1)
        BY <1>t, <2>1 DEF IdsInv
      <3> QED  BY <3>2, <3>3, AbsenceAssumption
    <2>4. ChunksInv'
      BY <1>t, <2>1, <2>2, <2>3, FreshChunks DEF ChunksInv, Fits
    <2>5. RowsOnward /\ NewIdsOnly
      BY <1>2, <1>t, <2>1, <2>2, <2>3 DEF create_note, RowsOnward, NewIdsOnly
    <2>6. QuietRequests /\ ReadsMarks
      BY <1>2, <1>e DEF create_note, Ends, Idle
    <2> QED  BY <1>q, <2>4, <2>5, <2>6, Quiet
  <1>3. CASE PreviewClip(r)
    <2>1. docs' = docs /\ chunks' = chunks /\ ReadsMarks
      BY <1>3, <1>t DEF PreviewClip, Await, ReadsMarks
    <2> QED  BY <1>3, <1>k, <2>1, PreviewIds
  <1>4. CASE create_web_clip(r)
    <2>1. /\ Q.kb \in Kbs /\ Q.text \in Texts /\ Q.parent \in Docs /\ Q.image \in Docs \cup {0}
          /\ Q.existing_preview \in BOOLEAN /\ Q.at = "clip"
      BY <1>4, <1>t, ReqCases DEF create_web_clip
    <2>2. SameUrl(r) \subseteq Live
      BY <2>1 DEF SameUrl, Clips
    <2> DEFINE found == SameUrl(r)
               d == IF found = {} THEN Q.parent ELSE CHOOSE x \in found : TRUE
               old == IF found = {} THEN NoMarks ELSE docs[d].marks
               dropped == IF found = {} THEN {} ELSE AssetsOf({d})
               mix(new) == _merge_highlights_by_id(old, new)
               row(m) == IF found = {}
                         THEN [File(Q.kb) EXCEPT !.kind = "clip", !.status = "ready", !.text = Q.text, !.marks = m]
                         ELSE [docs[d] EXCEPT !.status = "ready", !.text = Q.text, !.marks = m, !.version = Bumped(d)]
    <2>3. PICK new \in Marks :
            /\ docs' = [x \in Docs |-> IF x = d THEN row(mix(new)) ELSE IF x = Q.image THEN Asset(d, Q.kb)
                                       ELSE IF x \in dropped THEN NoDoc ELSE docs[x]]
            /\ chunks' = [x \in Docs |->
                 IF x = d THEN _recompute_chunks_for_doc(chunk_text(Q.text, Q.kb), NoMarks, mix(new))
                 ELSE IF x \in dropped THEN NoChunks ELSE chunks[x]]
            /\ Await(r, [at |-> "purge", ids |-> dropped])
      BY <1>4 DEF create_web_clip
    <2>4. /\ d \in Docs
          /\ found # {} => d \in Live /\ docs[d] \in Row
          /\ found = {} => d = Q.parent /\ ~(Q.existing_preview /\ Exists(Q.parent))
      BY <1>t, <2>1, <2>2 DEF SameUrl
    <2>5. Q.image \in Docs => ~Exists(Q.image) /\ Q.image \in HeldBy(r)
      BY <1>t, <2>1 DEF IdsInv, HeldBy
    <2>6. found = {} => ~Exists(d) /\ d \in HeldBy(r) \cup SeenBy(r)
      BY <1>t, <2>1, <2>4 DEF IdsInv, HeldBy, SeenBy
    <2>7. \A m : /\ row(m).marks = m
                 /\ found # {} => row(m).version = docs[d].version + 1 /\ docs[d].version \in Nat
      BY <2>4 DEF Row, Bumped, File
    <2> HIDE DEF d, old, dropped, mix, row, found
    <2>8. docs'[d] # NoDoc
      <3>1. docs'[d] \in Row \cup {NoDoc} /\ docs'[d] = row(mix(new))
        BY <2>3, <2>4 DEF TypeInv, StoreType
      <3>2. CASE found = {}
        <4>1. mix(new) \in Marks
          BY <3>2, <2>3 DEF mix, old, _merge_highlights_by_id, NoMarks, Marks
        <4>2. row(mix(new)) \in Row
          BY <3>2, <4>1, <2>1, Rows DEF row
        <4> QED  BY <3>1, <4>2, AbsenceAssumption
      <3>3. CASE found # {}
        <4>1. mix(new) \in Marks
          BY <3>3, <2>3, <2>4 DEF mix, old, _merge_highlights_by_id, Marks, Row
        <4>2. Bumped(d) \in Nat
          BY <3>3, <2>4 DEF Bumped, Row
        <4>3. row(mix(new)) \in Row
          BY <3>3, <4>1, <4>2, <2>1, <2>4, RowChanges DEF row
        <4> QED  BY <3>1, <4>3, AbsenceAssumption
      <3> QED  BY <3>2, <3>3
    <2>9. ChunksInv'
      <3>1. LET c == _recompute_chunks_for_doc(chunk_text(Q.text, Q.kb), NoMarks, mix(new)) IN
            c = NoChunks \/ \A i \in Places : c.notes[i] \subseteq NotesAt(mix(new), i)
        <4>1. chunk_text(Q.text, Q.kb) \in Chunked \cup {NoChunks}
          BY <2>1, Chunks
        <4>2. \/ chunk_text(Q.text, Q.kb) = NoChunks
              \/ \A i \in Places : chunk_text(Q.text, Q.kb).notes[i] \subseteq NotesAt(NoMarks, i)
          BY <2>1, FreshChunks
        <4> QED  BY <4>1, <4>2, Recomputed
      <3>2. chunks'[d] = NoChunks \/ (docs'[d] # NoDoc /\ \A i \in Places : chunks'[d].notes[i] \subseteq NotesAt(docs'[d].marks, i))
        BY <3>1, <2>3, <2>4, <2>7, <2>8
      <3>3. ASSUME NEW x \in Docs \ {d}
            PROVE  chunks'[x] = NoChunks \/ (docs'[x] # NoDoc /\ \A i \in Places : chunks'[x].notes[i] \subseteq NotesAt(docs'[x].marks, i))
        BY <2>3, <2>5 DEF ChunksInv, Fits
      <3> QED  BY <3>2, <3>3 DEF ChunksInv, Fits
    <2>10. RowsOnward
      BY <2>3, <2>5, <2>6, <2>7 DEF RowsOnward
    <2>11. \A x \in Docs : docs'[x] # NoDoc => Exists(x) \/ x \in HeldBy(r) \cup SeenBy(r)
      BY <2>3, <2>4, <2>5, <2>6
    <2>12. /\ \A s \in Requests \ {r} : req'[s] = req[s]
           /\ req'[r].at = "purge" /\ ReadsMarks /\ born' = born
      BY <1>4, <1>t, <2>3 DEF create_web_clip, Await, ReadsMarks
    <2> QED  BY <2>9, <2>10, <2>11, <2>12, ClipIds
  <1>5. CASE ClipFails(r) \/ HighlightRefused(r)
    BY <1>0, <1>5 DEF ClipFails, HighlightRefused, Ends, Idle, storeVars
  <1>6. CASE get_highlights(r)
    <2>1. PICK d \in Live : req' = [req EXCEPT ![r] =
                [at |-> "mark", doc |-> d, version |-> docs[d].version, marks |-> docs[d].marks]]
      BY <1>6 DEF get_highlights, Await
    <2>2. /\ docs' = docs /\ chunks' = chunks /\ born' = born
          /\ QuietRequests /\ ReadsMarks
      BY <1>6, <1>t, <2>1 DEF get_highlights, storeVars, QuietRequests, ReadsMarks
    <2> QED  BY <1>k, <1>n, <1>q, <2>2, Quiet
  <1>7. ASSUME NEW new \in Marks, Q.at = "mark", Exists(Q.doc), WriteMarks(r, new) PROVE Goal
    <2> DEFINE d == Q.doc
    <2>1. d \in Docs /\ docs[d] \in Row /\ docs[d].version \in Nat /\ docs[d].version + 1 \in Nat
      BY <1>7, <1>t, ReqCases DEF Row
    <2>2. /\ docs' = [docs EXCEPT ![d].marks = new, ![d].version = docs[d].version + 1]
          /\ chunks' = [chunks EXCEPT ![d] = _recompute_chunks_for_doc(chunks[d], docs[d].marks, new)]
          /\ born' = born /\ req' = [req EXCEPT ![r] = Idle]
      BY <1>7, <1>t, <2>1 DEF WriteMarks, Bumped, Ends
    <2> HIDE DEF d
    <2>3. /\ docs'[d] # NoDoc /\ docs'[d].marks = new /\ docs'[d].version = docs[d].version + 1
          /\ \A x \in Docs \ {d} : docs'[x] = docs[x] /\ chunks'[x] = chunks[x]
      <3>1. [docs[d] EXCEPT !.marks = new, !.version = docs[d].version + 1] \in Row
        BY <2>1, RowChanges
      <3>2. docs'[d] = [docs[d] EXCEPT !.marks = new, !.version = docs[d].version + 1]
        BY <1>t, <2>1, <2>2
      <3>3. \A x \in Docs \ {d} : docs'[x] = docs[x] /\ chunks'[x] = chunks[x]
        BY <1>t, <2>1, <2>2
      <3>4. docs'[d].marks = new /\ docs'[d].version = docs[d].version + 1
        BY <3>2, <2>1 DEF Row
      <3> QED  BY <3>1, <3>2, <3>3, <3>4, AbsenceAssumption
    <2>4. chunks'[d] = NoChunks \/ \A i \in Places : chunks'[d].notes[i] \subseteq NotesAt(new, i)
      <3>1. chunks[d] = NoChunks \/ \A i \in Places : chunks[d].notes[i] \subseteq NotesAt(docs[d].marks, i)
        BY <2>1 DEF ChunksInv, Fits
      <3>2. chunks[d] \in Chunked \cup {NoChunks} /\ chunks'[d] = _recompute_chunks_for_doc(chunks[d], docs[d].marks, new)
        BY <1>t, <2>1, <2>2
      <3> QED  BY <3>1, <3>2, Recomputed
    <2>5. ChunksInv'
      BY <2>1, <2>3, <2>4 DEF ChunksInv, Fits
    <2>6. RowsOnward /\ NewIdsOnly
      BY <1>t, <2>1, <2>2, <2>3, <1>7 DEF RowsOnward, NewIdsOnly, d
    <2>7. QuietRequests /\ ReadsMarks
      BY <1>e, <2>2 DEF Idle
    <2> QED  BY <1>q, <2>5, <2>6, <2>7, Quiet
  <1>8. CASE replace_highlights(r)
    BY <1>7, <1>8 DEF replace_highlights, MayWrite
  <1>9. Q.at = "mark" /\ Exists(Q.doc) => docs[Q.doc].marks \in Marks
    BY <1>t, ReqCases DEF Row
  <1>10. CASE upsert_highlight(r)
    <2>1. PICK h \in Highlights, i \in Places :
            Q.at = "mark" /\ Exists(Q.doc) /\ WriteMarks(r, [docs[Q.doc].marks EXCEPT ![h] = i])
      BY <1>10 DEF upsert_highlight, MayWrite
    <2>2. [docs[Q.doc].marks EXCEPT ![h] = i] \in Marks
      BY <1>9, <2>1 DEF Marks
    <2> QED  BY <1>7, <2>1, <2>2
  <1>11. CASE delete_highlight(r)
    <2>1. PICK h \in Highlights :
            Q.at = "mark" /\ Exists(Q.doc) /\ WriteMarks(r, [docs[Q.doc].marks EXCEPT ![h] = 0])
      BY <1>11 DEF delete_highlight, MayWrite
    <2>2. [docs[Q.doc].marks EXCEPT ![h] = 0] \in Marks
      BY <1>9, <2>1 DEF Marks
    <2> QED  BY <1>7, <2>1, <2>2
  <1>12. CASE update_content(r)
    <2>1. PICK d \in Live, t \in Texts :
            /\ docs' = [docs EXCEPT ![d].text = t, ![d].version = docs[d].version + 1]
            /\ Await(r, [at |-> "kb", doc |-> d, text |-> t])
      BY <1>12, <1>t DEF update_content, Bumped
    <2>2. d \in Docs /\ docs[d] \in Row /\ docs[d].version \in Nat /\ docs[d].version + 1 \in Nat
      BY <1>t DEF Row
    <2>3. /\ docs'[d] # NoDoc /\ docs'[d].marks = docs[d].marks /\ docs'[d].version = docs[d].version + 1
          /\ \A x \in Docs \ {d} : docs'[x] = docs[x]
      <3>1. [docs[d] EXCEPT !.text = t, !.version = docs[d].version + 1] \in Row
        BY <2>2, RowChanges
      <3>2. docs'[d] = [docs[d] EXCEPT !.text = t, !.version = docs[d].version + 1]
        BY <1>t, <2>1, <2>2
      <3>3. \A x \in Docs \ {d} : docs'[x] = docs[x]
        BY <1>t, <2>1, <2>2
      <3>4. docs'[d].marks = docs[d].marks /\ docs'[d].version = docs[d].version + 1
        BY <3>2, <2>2 DEF Row
      <3> QED  BY <3>1, <3>2, <3>3, <3>4, AbsenceAssumption
    <2>4. chunks' = chunks /\ born' = born
      BY <1>12 DEF update_content
    <2>5. ChunksInv'
      BY <2>2, <2>3, <2>4 DEF ChunksInv, Fits
    <2>6. RowsOnward /\ NewIdsOnly
      BY <1>t, <2>2, <2>3, <2>4 DEF RowsOnward, NewIdsOnly
    <2>7. QuietRequests /\ ReadsMarks
      BY <1>e, <2>1 DEF Await
    <2> QED  BY <1>q, <2>5, <2>6, <2>7, Quiet
  <1>13. CASE FetchKb(r)
    <2>1. docs' = docs /\ chunks' = chunks /\ born' = born
      BY <1>13 DEF FetchKb, storeVars
    <2>2. PICK rec : req' = [req EXCEPT ![r] = rec] /\ rec.at \notin {"clip", "mark"}
      <3>1. CASE Exists(Q.doc)
        BY <1>13, <3>1 DEF FetchKb, Await
      <3>2. CASE ~Exists(Q.doc)
        BY <1>13, <3>2 DEF FetchKb, Ends, Idle
      <3> QED  BY <3>1, <3>2
    <2> QED  BY <1>0, <2>1, <2>2
  <1>14. CASE DropChunksOf(r)
    <2>1. /\ docs' = docs /\ born' = born
          /\ \A x \in Docs : chunks'[x] = NoChunks \/ chunks'[x] = chunks[x]
      BY <1>14, <1>t DEF DropChunksOf
    <2>2. ChunksInv' /\ RowsOnward
      BY <2>1 DEF ChunksInv, Fits, RowsOnward
    <2>3. QuietRequests /\ ReadsMarks
      BY <1>14, <1>t DEF DropChunksOf, QuietRequests, ReadsMarks
    <2> QED  BY <1>n, <1>q, <2>1, <2>2, <2>3, Quiet
  <1>15. CASE StoreChunksOf(r)
    <2>1. Q \in [at : {"drop", "cut"}, doc : Docs, text : Texts, kb : Kbs]
      BY <1>15, <1>t, ReqCases DEF StoreChunksOf
    <2>2. /\ docs' = docs /\ born' = born
          /\ chunks' = chunks \/ (Exists(Q.doc) /\ chunks' = [chunks EXCEPT ![Q.doc] = chunk_text(Q.text, Q.kb)])
      BY <1>15 DEF StoreChunksOf
    <2>3. ChunksInv' /\ RowsOnward
      <3>1. CASE chunks' = chunks
        BY <1>k, <2>2, <3>1
      <3>2. CASE Exists(Q.doc) /\ chunks' = [chunks EXCEPT ![Q.doc] = chunk_text(Q.text, Q.kb)]
        <4>1. /\ \A x \in Docs \ {Q.doc} : chunks'[x] = chunks[x]
              /\ chunks'[Q.doc] = chunk_text(Q.text, Q.kb)
          BY <1>t, <2>1, <3>2
        <4>2. chunks'[Q.doc] = NoChunks \/ \A i \in Places : chunks'[Q.doc].notes[i] = {}
          BY <2>1, <4>1, FreshChunks
        <4> QED  BY <2>2, <3>2, <4>1, <4>2 DEF ChunksInv, Fits, RowsOnward
      <3> QED  BY <2>2, <3>1, <3>2
    <2>4. QuietRequests /\ ReadsMarks
      BY <1>15, <1>e DEF StoreChunksOf, Ends, Idle
    <2> QED  BY <1>n, <1>q, <2>2, <2>3, <2>4, Quiet
  <1>16. CASE update_metadata(r)
    <2>1. PICK d \in Live, k \in kbs :
            /\ docs' = [docs EXCEPT ![d].kb = k]
            /\ chunks' = IF chunks[d] = NoChunks THEN chunks ELSE [chunks EXCEPT ![d].kb = k]
      BY <1>16 DEF update_metadata
    <2>2. d \in Docs /\ docs[d] \in Row /\ docs[d].version \in Nat /\ k \in Kbs
      BY <1>t DEF Row
    <2>3. /\ docs'[d] # NoDoc /\ docs'[d].marks = docs[d].marks /\ docs'[d].version = docs[d].version
          /\ \A x \in Docs \ {d} : docs'[x] = docs[x] /\ chunks'[x] = chunks[x]
      <3>1. [docs[d] EXCEPT !.kb = k] \in Row
        BY <2>2, RowChanges
      <3>2. docs'[d] = [docs[d] EXCEPT !.kb = k]
        BY <1>t, <2>1, <2>2
      <3>3. \A x \in Docs \ {d} : docs'[x] = docs[x] /\ chunks'[x] = chunks[x]
        BY <1>t, <2>1, <2>2
      <3>4. docs'[d].marks = docs[d].marks /\ docs'[d].version = docs[d].version
        BY <3>2, <2>2 DEF Row
      <3> QED  BY <3>1, <3>2, <3>3, <3>4, AbsenceAssumption
    <2>4. chunks[d] = NoChunks => chunks'[d] = NoChunks
      BY <1>t, <2>1
    <2>5. chunks[d] # NoChunks => chunks'[d].notes = chunks[d].notes
      BY <1>t, <2>1, <2>2 DEF Chunked
    <2>6. ChunksInv'
      BY <2>2, <2>3, <2>4, <2>5 DEF ChunksInv, Fits
    <2>7. born' = born /\ req' = req
      BY <1>16 DEF update_metadata
    <2>8. RowsOnward /\ NewIdsOnly /\ QuietRequests /\ ReadsMarks
      BY <1>t, <2>2, <2>3, <2>7 DEF RowsOnward, NewIdsOnly, QuietRequests, ReadsMarks
    <2> QED  BY <1>q, <2>6, <2>8, Quiet
  <1>17. CASE BeginDelete(r)
    <2>1. PICK d \in Live :
            IF docs[d].kind = "note"
            THEN docs' = [docs EXCEPT ![d].archived = TRUE] /\ UNCHANGED req
            ELSE Await(r, [at |-> "delete", ids |-> {d} \cup AssetsOf({d})]) /\ UNCHANGED docs
      BY <1>17 DEF BeginDelete
    <2>2. chunks' = chunks /\ born' = born
      BY <1>17 DEF BeginDelete
    <2>3. CASE docs[d].kind # "note"
      BY <1>0, <2>1, <2>2, <2>3 DEF Await
    <2>4. CASE docs[d].kind = "note"
      <3>1. d \in Docs /\ Exists(d) /\ docs[d] \in Row /\ docs[d].version \in Nat
        BY <1>t DEF Row
      <3>2. docs'[d] = [docs[d] EXCEPT !.archived = TRUE] /\ \A x \in Docs \ {d} : docs'[x] = docs[x]
        BY <1>t, <2>1, <2>4
      <3>3. docs'[d] # NoDoc /\ docs'[d].marks = docs[d].marks /\ docs'[d].version = docs[d].version
        <4>1. docs'[d] \in Row
          BY <3>1, <3>2, RowChanges
        <4>2. docs'[d].marks = docs[d].marks /\ docs'[d].version = docs[d].version
          BY <3>1, <3>2 DEF Row
        <4> QED  BY <4>1, <4>2, AbsenceAssumption
      <3>4. ChunksInv'
        BY <2>2, <3>1, <3>2, <3>3 DEF ChunksInv, Fits
      <3>5. RowsOnward /\ NewIdsOnly
        <4>1. RowsOnward
          BY <3>1, <3>2, <3>3 DEF RowsOnward
        <4>2. \A x \in Docs : docs'[x] # NoDoc => Exists(x)
          BY <3>1, <3>2
        <4> QED  BY <1>n, <2>2, <4>1, <4>2
      <3>6. QuietRequests /\ ReadsMarks
        BY <2>1, <2>4 DEF QuietRequests, ReadsMarks
      <3> QED  BY <1>q, <3>4, <3>5, <3>6, Quiet
    <2> QED  BY <2>3, <2>4
  <1>18. ASSUME \A x \in Docs : docs'[x] = NoDoc \/ docs'[x] = docs[x],
                \A x \in Docs : chunks'[x] = NoChunks \/ (chunks'[x] = chunks[x] /\ docs'[x] = docs[x]),
                born' = born
         PROVE  ChunksInv' /\ RowsOnward /\ NewIdsOnly
    BY <1>t, <1>18 DEF ChunksInv, Fits, RowsOnward, NewIdsOnly
  <1>19. CASE _hard_delete(r)
    <2>1. QuietRequests /\ ReadsMarks
      <3>1. CASE Q.ids \cap Live = {}
        BY <1>e, <1>19, <3>1 DEF _hard_delete, Ends, Idle
      <3>2. CASE Q.ids \cap Live # {}
        <4>1. req' = [req EXCEPT ![r].at = "purge"]
          BY <1>19, <3>2 DEF _hard_delete
        <4>2. Q \in [at : {"purge", "delete"}, ids : SUBSET Docs]
          BY <1>19, <1>t, ReqCases DEF _hard_delete
        <4>3. req'[r].at = "purge" /\ \A s \in Requests \ {r} : req'[s] = req[s]
          BY <1>t, <4>1, <4>2
        <4> QED  BY <4>3 DEF QuietRequests, ReadsMarks
      <3> QED  BY <3>1, <3>2
    <2>2. ChunksInv' /\ RowsOnward /\ NewIdsOnly
      BY <1>18, <1>19 DEF _hard_delete, Remove
    <2> QED  BY <1>q, <2>1, <2>2, Quiet
  <1>20. CASE _purge_s3(r)
    BY <1>0, <1>20 DEF _purge_s3, Ends, Idle
  <1>21. CASE _kb_document_ids(r)
    BY <1>0, <1>21 DEF _kb_document_ids, Await, storeVars
  <1>22. CASE delete_kb(r)
    <2>1. PICK rec : req' = [req EXCEPT ![r] = rec] /\ rec.at \notin {"clip", "mark"}
      <3>1. CASE Q.kb \in kbs
        BY <1>22, <3>1 DEF delete_kb, Await
      <3>2. CASE Q.kb \notin kbs
        BY <1>22, <3>2 DEF delete_kb, Ends, Idle
      <3> QED  BY <3>1, <3>2
    <2>2. QuietRequests /\ ReadsMarks
      BY <1>e, <2>1
    <2>3. ChunksInv' /\ RowsOnward /\ NewIdsOnly
      BY <1>18, <1>22 DEF delete_kb
    <2> QED  BY <1>q, <2>2, <2>3, Quiet
  <1> QED
    BY <1>1, <1>2, <1>3, <1>4, <1>5, <1>6, <1>8, <1>10, <1>11, <1>12, <1>13, <1>14, <1>15, <1>16,
       <1>17, <1>19, <1>20, <1>21, <1>22 DEF RequestStep

--------------------------------------------------------------------------------
(* An extraction writes rows that are there, or the image it draws an id for. *)
LEMMA JobEffect ==
    ASSUME TypeInv, TypeInv', IdsInv, ChunksInv, NEW d \in Docs, JobStep(d), UNCHANGED <<patch, req>>
    PROVE  IdsInv' /\ ChunksInv' /\ RowsOnward /\ NewIdsOnly
  <1> DEFINE J == jobs[d]
             Goal == IdsInv' /\ ChunksInv' /\ RowsOnward /\ NewIdsOnly
  <1>t. /\ J \in JobRec /\ born \in Nat /\ Docs \subseteq Nat
        /\ docs \in [Docs -> Row \cup {NoDoc}] /\ chunks \in [Docs -> Chunked \cup {NoChunks}]
    BY IdTypes DEF TypeInv, StoreType
  <1>q. QuietUploads /\ QuietRequests
    BY DEF QuietUploads, QuietRequests
  <1>n. born' = born /\ (\A x \in Docs : docs'[x] # NoDoc => Exists(x)) => NewIdsOnly
    BY <1>t DEF NewIdsOnly
  <1>0. ASSUME docs' = docs, chunks' = chunks, born' = born PROVE Goal
    <2>1. ChunksInv' /\ RowsOnward
      BY <1>0 DEF ChunksInv, Fits, RowsOnward
    <2> QED  BY <1>0, <1>n, <1>q, <2>1, Quiet
  <1>s. ASSUME NEW s \in {"processing", "failed"}, SetStatus(d, s), chunks' = chunks, born' = born PROVE Goal
    <2>1. CASE ~Exists(d)
      BY <1>0, <1>s, <2>1 DEF SetStatus
    <2>2. CASE Exists(d)
      <3>1. docs[d] \in Row /\ docs[d].version \in Nat
        BY <1>t, <2>2 DEF Row
      <3>2. docs'[d] = [docs[d] EXCEPT !.status = s] /\ \A x \in Docs \ {d} : docs'[x] = docs[x]
        BY <1>t, <1>s, <2>2 DEF SetStatus
      <3>3. docs'[d].marks = docs[d].marks /\ docs'[d].version = docs[d].version /\ docs'[d] # NoDoc
        <4>1. docs'[d] \in Row
          <5>1. [docs[d] EXCEPT !.status = s] \in Row
            BY <3>1, RowChanges
          <5> QED  BY <3>2, <5>1
        <4>2. docs'[d].marks = docs[d].marks /\ docs'[d].version = docs[d].version
          BY <3>1, <3>2 DEF Row
        <4> QED  BY <4>1, <4>2, AbsenceAssumption
      <3>4. ChunksInv'
        BY <1>s, <2>2, <3>2, <3>3 DEF ChunksInv, Fits
      <3>5. RowsOnward
        BY <3>1, <3>2, <3>3 DEF RowsOnward
      <3>6. \A x \in Docs : docs'[x] # NoDoc => Exists(x)
        BY <2>2, <3>2
      <3> QED  BY <1>n, <1>q, <1>s, <3>4, <3>5, <3>6, Quiet
    <2> QED  BY <2>1, <2>2
  <1>1. CASE process_document(d)
    BY <1>1, <1>s DEF process_document
  <1>2. CASE Fails(d)
    BY <1>2, <1>s DEF Fails
  <1>3. CASE Fetch(d) \/ _upload_assets(d)
    BY <1>0, <1>3 DEF Fetch, _upload_assets, storeVars
  <1>4. CASE _check_user_page_limit(d)
    <2>1. SetStatus(d, "failed") \/ docs' = docs
      BY <1>4 DEF _check_user_page_limit
    <2> QED  BY <1>0, <1>4, <1>s, <2>1 DEF _check_user_page_limit
  <1>5. CASE DropChunks(d)
    <2>1. ChunksInv' /\ RowsOnward
      BY <1>5, <1>t DEF DropChunks, ChunksInv, Fits, RowsOnward
    <2> QED  BY <1>5, <1>n, <1>q, <2>1, Quiet DEF DropChunks
  <1>6. CASE store_chunks(d)
    <2>1. J.text \in Texts
      BY <1>6, <1>t, JobCases DEF store_chunks, Steps
    <2>2. docs' = docs /\ born' = born
      BY <1>6 DEF store_chunks
    <2>3. CASE chunks' = chunks
      BY <1>0, <2>2, <2>3
    <2>4. CASE Exists(d) /\ chunks' = [chunks EXCEPT ![d] = chunk_text(J.text, J.kb)]
      <3>1. /\ \A x \in Docs \ {d} : chunks'[x] = chunks[x]
            /\ chunks'[d] = NoChunks \/ \A i \in Places : chunks'[d].notes[i] = {}
        BY <1>t, <2>1, <2>4, FreshChunks
      <3>2. ChunksInv' /\ RowsOnward
        BY <2>2, <2>4, <3>1 DEF ChunksInv, Fits, RowsOnward
      <3> QED  BY <1>n, <1>q, <2>2, <3>2, Quiet
    <2> QED  BY <1>6, <2>3, <2>4 DEF store_chunks
  <1>7. CASE _store_extracted_pages(d)
    <2>1. CASE ~Exists(d)
      BY <1>0, <1>7, <2>1 DEF _store_extracted_pages
    <2>2. CASE Exists(d)
      <3> DEFINE old == IF FormatOf[d] = "pdf" THEN ImagesOf(d) ELSE {}
                 text == IF FormatOf[d] = "image" THEN docs[d].text
                         ELSE IF J.pages = 0 THEN 0 ELSE FileText
                 kept == [x \in Docs |-> IF x \in old THEN NoDoc ELSE docs[x]]
                 paged == [kept EXCEPT ![d].status = "ready", ![d].text = text, ![d].pages = J.pages]
      <3>1. PICK img \in {0, 1} :
              /\ born + img <= MaxDocs
              /\ born' = born + img
              /\ docs' = IF img = 0 THEN paged ELSE [paged EXCEPT ![born + img] = Asset(d, J.kb)]
              /\ chunks' = [x \in Docs |-> IF x \in old THEN NoChunks ELSE chunks[x]]
        BY <1>7, <2>2 DEF _store_extracted_pages, _build_pdf_assets
      <3>2. d \notin old
        BY DEF ImagesOf
      <3>3. /\ \A x \in Docs \ {d} : paged[x] = kept[x]
            /\ paged[d] = [docs[d] EXCEPT !.status = "ready", !.text = text, !.pages = J.pages]
            /\ paged = [x \in Docs |-> paged[x]]
        BY <3>2
      <3>4. docs[d] \in Row /\ docs[d].version \in Nat
        BY <1>t, <2>2 DEF Row
      <3>5. paged[d].marks = docs[d].marks /\ paged[d].version = docs[d].version
        <4> HIDE DEF paged, text
        <4> QED  BY <3>3, <3>4 DEF Row
      <3>6. \A x \in Docs : x # d /\ x \in old => kept[x] = NoDoc
        OBVIOUS
      <3>7. \A x \in Docs : x # d /\ x \notin old => kept[x] = docs[x]
        OBVIOUS
      <3>8. d <= born /\ \A x \in Docs : born < x => ~Exists(x)
        BY <1>t, <2>2 DEF IdsInv
      <3>9. \A x \in Docs : docs'[x] = IF img = 1 /\ x = born + 1 THEN Asset(d, J.kb) ELSE paged[x]
        <4> HIDE DEF paged
        <4> QED  BY <3>1, <3>3
      <3> HIDE DEF old, text, kept, paged
      <3>10. d # born + 1
        BY <1>t, <3>8
      <3>11. docs'[d] = paged[d] /\ docs'[d] # NoDoc
        <4>1. [docs[d] EXCEPT !.status = "ready", !.text = text, !.pages = J.pages] \in Row
          <5>1. text \in Texts /\ J.pages \in Nat
            <6>1. J \in [at : {"checked"}, kb : Kbs, pages : Nat]
              BY <1>7, <1>t, JobCases DEF _store_extracted_pages
            <6> QED  BY <6>1, <3>4, StoreAssumption, OcrAssumption DEF text, Row
          <5> QED  BY <3>4, <5>1, RowChanges
        <4> QED  BY <3>3, <3>9, <3>10, <4>1, AbsenceAssumption
      <3>12. ASSUME NEW x \in Docs, x # d
             PROVE  \/ docs'[x] = NoDoc \/ docs'[x] = docs[x]
                    \/ img = 1 /\ x = born + 1 /\ ~Exists(x)
        BY <1>t, <3>3, <3>6, <3>7, <3>8, <3>9, <3>12
      <3>13. ChunksInv'
        <4>1. ASSUME NEW x \in Docs
              PROVE  chunks'[x] = NoChunks \/ (docs'[x] # NoDoc /\ \A i \in Places : chunks'[x].notes[i] \subseteq NotesAt(docs'[x].marks, i))
          <5>1. CASE x \in old
            BY <3>1, <5>1
          <5>2. CASE x \notin old /\ x # d
            <6>1. chunks'[x] = chunks[x] /\ (docs'[x] = docs[x] \/ ~Exists(x))
              BY <1>t, <3>1, <3>3, <3>7, <3>8, <3>9, <5>2
            <6> QED  BY <6>1 DEF ChunksInv, Fits
          <5>3. CASE x = d
            BY <3>1, <3>2, <3>5, <3>11, <5>3 DEF ChunksInv, Fits
          <5> QED  BY <5>1, <5>2, <5>3
        <4> QED  BY <4>1 DEF ChunksInv, Fits
      <3>14. RowsOnward
        BY <3>5, <3>11, <3>12 DEF RowsOnward
      <3>15. NewIdsOnly
        BY <1>t, <2>2, <3>1, <3>12 DEF NewIdsOnly
      <3> QED  BY <1>q, <3>13, <3>14, <3>15, Quiet
    <2> QED  BY <2>1, <2>2
  <1> QED  BY <1>1, <1>2, <1>3, <1>4, <1>5, <1>6, <1>7 DEF JobStep

UploadedOnly == \A d \in Docs : docs'[d] # NoDoc => Exists(d) \/ d \in UploadIds

(* An upload inserts a row under the id it drew. *)
LEMMA UploadEffect ==
    ASSUME TypeInv, TypeInv', IdsInv, ChunksInv, UploadStep, UNCHANGED req
    PROVE  IdsInv' /\ ChunksInv' /\ RowsOnward /\ UploadedOnly
  <1>t. /\ born \in Nat /\ patch \in [Patches -> PatchRec]
        /\ docs \in [Docs -> Row \cup {NoDoc}]
    BY IdTypes DEF TypeInv, StoreType, UploadType
  <1>q. QuietRequests
    BY DEF QuietRequests
  <1>0. ASSUME UNCHANGED storeVars, QuietUploads PROVE IdsInv' /\ ChunksInv' /\ RowsOnward /\ UploadedOnly
    <2>1. ChunksInv' /\ RowsOnward /\ UploadedOnly
      BY <1>0 DEF storeVars, ChunksInv, Fits, RowsOnward, UploadedOnly
    <2>2. NewIdsOnly
      BY <1>0, <1>t DEF storeVars, NewIdsOnly
    <2> QED  BY <1>0, <1>q, <2>1, <2>2, Quiet
  <1>1. ASSUME NEW u \in Uploads, ReadUsage(u) \/ tus_create(u) \/ cleanup_stale_uploads(u)
        PROVE  IdsInv' /\ ChunksInv' /\ RowsOnward /\ UploadedOnly
    BY <1>0, <1>1 DEF ReadUsage, tus_create, cleanup_stale_uploads, QuietUploads
  <1>2. ASSUME NEW p \in Patches, NEW u \in Uploads, tus_patch(p, u)
        PROVE  IdsInv' /\ ChunksInv' /\ RowsOnward /\ UploadedOnly
    BY <1>0, <1>2, <1>t DEF tus_patch, QuietUploads
  <1>3. ASSUME NEW p \in Patches, _append_file(p) \/ PatchStops(p) \/ PatchEnds(p) \/ StoreFails(p)
        PROVE  IdsInv' /\ ChunksInv' /\ RowsOnward /\ UploadedOnly
    <2>1. CASE _append_file(p)
      <3>1. patch[p] \in [at : {"draining", "storing"}, upload : Uploads, from : Nat, written : Nat]
        BY <1>t, <2>1, PatchCases DEF _append_file
      <3>2. patch'[p].at = "draining" /\ \A q \in Patches \ {p} : patch'[q] = patch[q]
        BY <1>t, <2>1, <3>1 DEF _append_file
      <3> QED  BY <1>0, <2>1, <3>2 DEF _append_file, QuietUploads
    <2>2. CASE PatchStops(p) \/ StoreFails(p)
      BY <1>0, <1>t, <2>2 DEF PatchStops, StoreFails, NoPatch, QuietUploads
    <2>3. CASE PatchEnds(p)
      <3>1. patch[p] \in [at : {"draining", "storing"}, upload : Uploads, from : Nat, written : Nat]
        BY <1>t, <2>3, PatchCases DEF PatchEnds
      <3>2. patch' = [patch EXCEPT ![p] = NoPatch] \/ patch' = [patch EXCEPT ![p].at = "storing"]
        BY <2>3 DEF PatchEnds
      <3>3. patch'[p].at \in {"idle", "storing"} /\ \A q \in Patches \ {p} : patch'[q] = patch[q]
        BY <1>t, <3>1, <3>2 DEF NoPatch
      <3> QED  BY <1>0, <2>3, <3>3 DEF PatchEnds, QuietUploads
    <2> QED  BY <1>3, <2>1, <2>2, <2>3
  <1>4. ASSUME NEW p \in Patches, StoreFile(p) PROVE IdsInv' /\ ChunksInv' /\ RowsOnward /\ UploadedOnly
    <2>1. docs' = docs /\ chunks' = chunks
      BY <1>4 DEF StoreFile
    <2>2. ChunksInv' /\ RowsOnward /\ UploadedOnly
      BY <2>1 DEF ChunksInv, Fits, RowsOnward, UploadedOnly
    <2> QED  BY <1>4, <2>2, StoreFileIds
  <1>5. ASSUME NEW p \in Patches, NEW ok \in BOOLEAN, _finalize(p, ok) PROVE IdsInv' /\ ChunksInv' /\ RowsOnward /\ UploadedOnly
    <2>1. patch[p].doc \in Docs /\ ~Exists(patch[p].doc) /\ patch[p].doc \in UploadIds
      BY <1>5, <1>t, PatchCases DEF _finalize, IdsInv, UploadIds, Inserting
    <2>2. chunks' = chunks /\ \A x \in Docs \ {patch[p].doc} : docs'[x] = docs[x]
      BY <1>5, <1>t DEF _finalize
    <2>3. ChunksInv' /\ RowsOnward /\ UploadedOnly
      BY <2>1, <2>2 DEF ChunksInv, Fits, RowsOnward, UploadedOnly
    <2> QED  BY <1>5, <2>3, FinalizeIds
  <1> QED  BY <1>1, <1>2, <1>3, <1>4, <1>5 DEF UploadStep

--------------------------------------------------------------------------------
HighlightInv == TypeInv /\ IdsInv /\ ChunksInv /\ VersionInv

(* At first nothing is drawn, and no document has chunks. *)
LEMMA HighlightInit == Init => HighlightInv
  <1> SUFFICES ASSUME Init PROVE HighlightInv
    OBVIOUS
  <1>1. TypeInv
    BY InitTypes
  <1>2. Inserting = {} /\ \A r \in Requests : HeldBy(r) = {} /\ SeenBy(r) = {} /\ req[r].at = "idle"
    BY DEF Init, UploadInit, NoPatch, RequestsInit, Idle, Inserting, HeldBy, SeenBy
  <1>3. IdsInv
    BY <1>2, ServiceAssumption DEF Init, IdsInv, UploadIds
  <1>4. ChunksInv /\ VersionInv
    BY <1>2 DEF Init, ChunksInv, VersionInv
  <1> QED  BY <1>1, <1>3, <1>4 DEF HighlightInv

(* Versions that were read stay behind the rows, which keep the highlights of a version. *)
LEMMA VersionKept ==
    ASSUME TypeInv, TypeInv', VersionInv, RowsOnward,
           \A q \in Requests : req'[q].at = "mark" /\ q \notin remade' =>
               \/ /\ req'[q] = req[q] /\ q \notin remade
                  /\ docs'[req[q].doc] # NoDoc => Exists(req[q].doc)
               \/ /\ docs' = docs /\ req'[q].doc \in Live
                  /\ req'[q].version = docs[req'[q].doc].version /\ req'[q].marks = docs[req'[q].doc].marks
    PROVE  VersionInv'
  <1> SUFFICES ASSUME NEW r \in Requests, req'[r].at = "mark", r \notin remade', docs'[req'[r].doc] # NoDoc
               PROVE  /\ req'[r].version <= docs'[req'[r].doc].version
                      /\ req'[r].version = docs'[req'[r].doc].version => docs'[req'[r].doc].marks = req'[r].marks
    BY DEF VersionInv
  <1>1. docs \in [Docs -> Row \cup {NoDoc}] /\ req[r] \in ReqRec
    BY DEF TypeInv, StoreType
  <1>2. CASE req'[r] = req[r] /\ r \notin remade /\ Exists(req[r].doc)
    <2>1. req[r] \in [at : {"mark"}, doc : Docs, version : Nat, marks : Marks]
      BY <1>1, <1>2, ReqCases
    <2>2. docs[req[r].doc].version \in Nat
      BY <1>1, <1>2, <2>1 DEF Row
    <2>3. req[r].version <= docs[req[r].doc].version
          /\ (req[r].version = docs[req[r].doc].version => docs[req[r].doc].marks = req[r].marks)
      BY <1>2 DEF VersionInv
    <2>4. \/ /\ docs'[req[r].doc].version = docs[req[r].doc].version
             /\ docs'[req[r].doc].marks = docs[req[r].doc].marks
          \/ docs'[req[r].doc].version > docs[req[r].doc].version
      BY <1>2, <2>1 DEF RowsOnward
    <2>5. CASE docs'[req[r].doc].version = docs[req[r].doc].version /\ docs'[req[r].doc].marks = docs[req[r].doc].marks
      BY <1>2, <2>3, <2>5
    <2>6. CASE docs'[req[r].doc].version > docs[req[r].doc].version
      <3>1. docs' \in [Docs -> Row \cup {NoDoc}] /\ docs'[req[r].doc] # NoDoc
        BY <1>2 DEF TypeInv, StoreType
      <3>2. docs'[req[r].doc] \in Row
        BY <2>1, <3>1
      <3>3. docs'[req[r].doc].version \in Nat
        BY <3>2 DEF Row
      <3> QED  BY <1>2, <2>1, <2>2, <2>3, <2>6, <3>3
    <2> QED  BY <2>4, <2>5, <2>6
  <1>3. CASE /\ docs' = docs /\ req'[r].doc \in Live
             /\ req'[r].version = docs[req'[r].doc].version /\ req'[r].marks = docs[req'[r].doc].marks
    <2>1. docs[req'[r].doc].version \in Nat
      BY <1>1, <1>3 DEF Row
    <2> QED  BY <1>3, <2>1
  <1> QED  BY <1>2, <1>3

(* Every step keeps ids, chunks and versions together. *)
LEMMA HighlightStep == ASSUME HighlightInv, [Next]_vars PROVE HighlightInv'
  <1>t. TypeInv /\ TypeInv' /\ IdsInv /\ ChunksInv /\ VersionInv
    BY StepTypes DEF HighlightInv
  <1>s. \A q \in Requests : req[q].at = "mark" => req[q].doc \in Docs /\ SeenBy(q) = {req[q].doc}
    BY <1>t, ReqCases DEF TypeInv, SeenBy
  <1>1. CASE UploadStep /\ UNCHANGED <<req, restarts, remade>>
    <2>1. IdsInv' /\ ChunksInv' /\ RowsOnward /\ UploadedOnly
      BY <1>1, <1>t, UploadEffect
    <2>2. VersionInv'
      BY <1>1, <1>s, <1>t, <2>1, VersionKept DEF UploadedOnly, IdsInv
    <2> QED  BY <1>t, <2>1, <2>2 DEF HighlightInv
  <1>2. ASSUME NEW d \in Docs, Extract(d) PROVE HighlightInv'
    <2>1. JobStep(d) /\ patch' = patch /\ req' = req /\ remade' = remade
      BY <1>2 DEF Extract, uploadVars
    <2>2. IdsInv' /\ ChunksInv' /\ RowsOnward /\ NewIdsOnly
      BY <1>t, <2>1, JobEffect
    <2>3. \A q \in Requests : req[q].at = "mark" => (docs'[req[q].doc] # NoDoc => Exists(req[q].doc))
      BY <1>s, <1>t, <2>2, IdTypes DEF NewIdsOnly, IdsInv
    <2>4. VersionInv'
      BY <1>t, <2>1, <2>2, <2>3, VersionKept
    <2> QED  BY <1>t, <2>2, <2>4 DEF HighlightInv
  <1>3. ASSUME NEW r \in Requests, Serve(r) PROVE HighlightInv'
    <2>1. RequestStep(r) /\ patch' = patch
      BY <1>3 DEF Serve, uploadVars
    <2>2. IdsInv' /\ ChunksInv' /\ RowsOnward /\ ReadsMarks
      BY <1>t, <2>1, RequestEffect
    <2>3. ASSUME NEW q \in Requests, req'[q].at = "mark", q \notin remade', req'[q] = req[q]
          PROVE  q \notin remade /\ (docs'[req[q].doc] # NoDoc => Exists(req[q].doc))
      BY <1>3, <2>3 DEF Serve
    <2>4. VersionInv'
      BY <1>t, <2>2, <2>3, VersionKept DEF ReadsMarks
    <2> QED  BY <1>t, <2>2, <2>4 DEF HighlightInv
  <1>4. CASE Restart
    <2>1. /\ docs' = docs /\ chunks' = chunks /\ born' = born
          /\ \A q \in Requests : req'[q].at = "idle"
          /\ \A p \in Patches : patch'[p].at = "idle"
      BY <1>4 DEF Restart, RequestsLost, UploadsLost, Idle, NoPatch
    <2>2. NewIdsOnly /\ QuietRequests /\ QuietUploads
      BY <1>t, <2>1, IdTypes DEF NewIdsOnly, QuietRequests, QuietUploads
    <2>3. ChunksInv' /\ VersionInv'
      BY <1>t, <2>1 DEF ChunksInv, Fits, VersionInv
    <2> QED  BY <1>t, <2>2, <2>3, Quiet DEF HighlightInv
  <1>5. CASE UNCHANGED vars
    <2>1. docs' = docs /\ chunks' = chunks /\ born' = born /\ req' = req /\ patch' = patch /\ remade' = remade
      BY <1>5 DEF vars, storeVars, uploadVars
    <2>2. NewIdsOnly /\ QuietRequests /\ QuietUploads
      BY <1>t, <2>1, IdTypes DEF NewIdsOnly, QuietRequests, QuietUploads
    <2>3. ChunksInv' /\ VersionInv'
      BY <1>t, <2>1 DEF ChunksInv, Fits, VersionInv
    <2> QED  BY <1>t, <2>2, <2>3, Quiet DEF HighlightInv
  <1> QED  BY <1>1, <1>2, <1>3, <1>4, <1>5 DEF Next

(* No chunk shows an annotation of a highlight that was deleted or moved away,
   whatever clips, edits, uploads and deletions run beside each other. *)
THEOREM AnnotationsFollowHighlights == Spec => []NoStaleAnnotation
  <1>1. HighlightInv => NoStaleAnnotation
    BY DEF HighlightInv, ChunksInv, Fits, NoStaleAnnotation
  <1> QED  BY HighlightInit, HighlightStep, <1>1, PTL DEF Spec

(* A write that expects the version it read does not undo another's, unless the
   clip was inserted again under its id in between. *)
THEOREM VersionsNameMarks == Spec => []VersionNamesMarks
  <1>1. HighlightInv => VersionNamesMarks
    BY DEF HighlightInv, VersionInv, VersionNamesMarks
  <1> QED  BY HighlightInit, HighlightStep, <1>1, PTL DEF Spec

------------------------------------------------------------------------------

(* What becomes of rows: their kind stays, a knowledge base changes by a move
   only, and a clip is inserted where there is none of its page. *)
RowsKept ==
    \A d \in Docs : docs'[d] # NoDoc =>
        \/ Exists(d) /\ docs'[d].kind = docs[d].kind /\ ("move" \in Ops \/ docs'[d].kb = docs[d].kb)
        \/ ~Exists(d) /\ docs'[d].kind \in {"note", "asset"}
        \/ ~Exists(d) /\ docs'[d].kind = "clip" /\ \A e \in Clips : docs[e].kb # docs'[d].kb
        \/ d \in UploadIds /\ docs'[d].kind = "file"

(* A request keeps the kinds of rows. *)
LEMMA RequestRows ==
    ASSUME TypeInv, IdsInv, NEW r \in Requests, RequestStep(r)
    PROVE  RowsKept
  <1> DEFINE Q == req[r]
  <1>t. /\ Q \in ReqRec /\ req \in [Requests -> ReqRec] /\ born \in Nat
        /\ docs \in [Docs -> Row \cup {NoDoc}] /\ Kbs # {}
    BY IdTypes, StoreAssumption DEF TypeInv, StoreType
  <1>r. \A d \in Docs : Exists(d) => docs[d] \in Row
    BY <1>t
  <1>0. CASE docs' = docs
    BY <1>0 DEF RowsKept
  <1>1. CASE create_note(r)
    <2>1. Q.kb \in Kbs /\ born + 1 \in Docs /\ ~Exists(born + 1)
      BY <1>1, <1>t, ReqCases, StoreAssumption DEF create_note, IdsInv
    <2>2. PICK t \in Texts :
            docs' = [docs EXCEPT ![born + 1] =
                          [File(Q.kb) EXCEPT !.kind = "note", !.status = "ready", !.text = t]]
      BY <1>1 DEF create_note
    <2>3. docs'[born + 1].kind = "note" /\ \A d \in Docs \ {born + 1} : docs'[d] = docs[d]
      BY <1>t, <2>1, <2>2 DEF File
    <2> QED  BY <2>1, <2>3 DEF RowsKept
  <1>2. CASE create_web_clip(r)
    <2>1. /\ Q.kb \in Kbs /\ Q.parent \in Docs /\ Q.image \in Docs \cup {0} /\ Q.at = "clip"
      BY <1>2, <1>t, ReqCases DEF create_web_clip
    <2>2. SameUrl(r) \subseteq Live
      BY <2>1 DEF SameUrl, Clips
    <2> DEFINE found == SameUrl(r)
               d == IF found = {} THEN Q.parent ELSE CHOOSE x \in found : TRUE
               old == IF found = {} THEN NoMarks ELSE docs[d].marks
               dropped == IF found = {} THEN {} ELSE AssetsOf({d})
               mix(new) == _merge_highlights_by_id(old, new)
               row(m) == IF found = {}
                         THEN [File(Q.kb) EXCEPT !.kind = "clip", !.status = "ready", !.text = Q.text, !.marks = m]
                         ELSE [docs[d] EXCEPT !.status = "ready", !.text = Q.text, !.marks = m, !.version = Bumped(d)]
    <2>3. PICK new \in Marks :
            docs' = [x \in Docs |-> IF x = d THEN row(mix(new)) ELSE IF x = Q.image THEN Asset(d, Q.kb)
                                       ELSE IF x \in dropped THEN NoDoc ELSE docs[x]]
      BY <1>2 DEF create_web_clip
    <2>4. /\ d \in Docs
          /\ found # {} => d \in Live /\ docs[d] \in Row
          /\ found = {} => d = Q.parent /\ ~(Q.existing_preview /\ Exists(Q.parent))
      BY <1>t, <2>1, <2>2 DEF SameUrl
    <2>5. Q.image \in Docs => ~Exists(Q.image)
      BY <2>1 DEF IdsInv, HeldBy
    <2>6. found = {} => ~Exists(d)
      BY <1>t, <2>1, <2>4 DEF IdsInv, HeldBy
    <2>7. found = {} => \A e \in Clips : docs[e].kb # Q.kb
      BY <2>1, <2>4 DEF SameUrl
    <2>8. \A m : found = {} => row(m).kind = "clip" /\ row(m).kb = Q.kb
      BY DEF File
    <2>9. \A m : found # {} => row(m).kind = docs[d].kind /\ row(m).kb = docs[d].kb
      BY <2>4 DEF Row
    <2>10. Asset(d, Q.kb).kind = "asset"
      BY DEF Asset, File
    <2> HIDE DEF d, old, dropped, mix, row, found
    <2>11. docs'[d] = row(mix(new))
      BY <2>3, <2>4
    <2>12. \A x \in Docs : x # d /\ docs'[x] # NoDoc =>
              \/ (x = Q.image /\ docs'[x] = Asset(d, Q.kb)) \/ docs'[x] = docs[x]
      BY <2>3
    <2> QED
      BY <2>1, <2>4, <2>5, <2>6, <2>7, <2>8, <2>9, <2>10, <2>11, <2>12 DEF RowsKept
  <1>3. CASE replace_highlights(r) \/ upsert_highlight(r) \/ delete_highlight(r)
    <2>1. PICK new : WriteMarks(r, new) /\ Exists(Q.doc) /\ Q.at = "mark"
      BY <1>3 DEF replace_highlights, upsert_highlight, delete_highlight, MayWrite
    <2>2. Q.doc \in Docs
      BY <1>t, <2>1, ReqCases
    <2> QED  BY <1>t, <1>r, <2>1, <2>2 DEF WriteMarks, RowsKept, Row
  <1>4. CASE update_content(r)
    BY <1>4, <1>t, <1>r DEF update_content, RowsKept, Row
  <1>5. CASE update_metadata(r)
    BY <1>5, <1>t, <1>r DEF update_metadata, Begins, RowsKept, Row
  <1>6. CASE BeginDelete(r)
    <2>1. PICK d \in Live : docs' = [docs EXCEPT ![d].archived = TRUE] \/ docs' = docs
      BY <1>6 DEF BeginDelete
    <2> DEFINE w == [docs[d] EXCEPT !.archived = TRUE]
    <2>2. w.kind = docs[d].kind /\ w.kb = docs[d].kb
      BY <1>r DEF Row
    <2>3. docs' = [docs EXCEPT ![d] = w] \/ docs' = docs
      BY <2>1
    <2> HIDE DEF w
    <2> QED  BY <1>t, <2>2, <2>3 DEF RowsKept
  <1>7. CASE _hard_delete(r) \/ delete_kb(r)
    BY <1>7, <1>t DEF _hard_delete, Remove, delete_kb, RowsKept
  <1> QED
    BY <1>0, <1>1, <1>2, <1>3, <1>4, <1>5, <1>6, <1>7
       DEF RequestStep, CheckNote, PreviewClip, ClipFails, get_highlights, HighlightRefused, FetchKb,
           DropChunksOf, StoreChunksOf, _purge_s3, _kb_document_ids, storeVars

(* So does an extraction, which inserts images only. *)
LEMMA JobRows ==
    ASSUME TypeInv, IdsInv, NEW d \in Docs, JobStep(d)
    PROVE  RowsKept
  <1> DEFINE J == jobs[d]
  <1>t. born \in Nat /\ docs \in [Docs -> Row \cup {NoDoc}] /\ Docs \subseteq Nat
    BY IdTypes DEF TypeInv, StoreType
  <1>r. \A x \in Docs : Exists(x) => docs[x] \in Row
    BY <1>t
  <1>0. CASE docs' = docs
    BY <1>0 DEF RowsKept
  <1>1. ASSUME NEW s, SetStatus(d, s) PROVE RowsKept
    BY <1>1, <1>t, <1>r DEF SetStatus, RowsKept, Row
  <1>2. CASE _store_extracted_pages(d) /\ Exists(d)
    <2> DEFINE old == IF FormatOf[d] = "pdf" THEN ImagesOf(d) ELSE {}
               text == IF FormatOf[d] = "image" THEN docs[d].text
                       ELSE IF J.pages = 0 THEN 0 ELSE FileText
               kept == [x \in Docs |-> IF x \in old THEN NoDoc ELSE docs[x]]
               paged == [kept EXCEPT ![d].status = "ready", ![d].text = text, ![d].pages = J.pages]
    <2>1. PICK img \in {0, 1} :
            /\ born + img <= MaxDocs
            /\ docs' = IF img = 0 THEN paged ELSE [paged EXCEPT ![born + img] = Asset(d, J.kb)]
      BY <1>2 DEF _store_extracted_pages, _build_pdf_assets
    <2>2. d \notin old
      BY DEF ImagesOf
    <2>3. /\ \A x \in Docs \ {d} : paged[x] = kept[x]
          /\ paged[d] = [docs[d] EXCEPT !.status = "ready", !.text = text, !.pages = J.pages]
          /\ paged = [x \in Docs |-> paged[x]]
      BY <2>2
    <2>4. \A x \in Docs \ {d} : kept[x] = NoDoc \/ kept[x] = docs[x]
      OBVIOUS
    <2>5. paged[d].kind = docs[d].kind /\ paged[d].kb = docs[d].kb
      <3> HIDE DEF paged, text
      <3> QED  BY <1>2, <1>r, <2>3 DEF Row
    <2>6. \A x \in Docs : docs'[x] = IF img = 1 /\ x = born + 1 THEN Asset(d, J.kb) ELSE paged[x]
      <3> HIDE DEF paged
      <3> QED  BY <2>1, <2>3
    <2>7. ~Exists(born + 1) \/ born + 1 \notin Docs
      BY <1>t DEF IdsInv
    <2> HIDE DEF old, text, kept, paged
    <2>8. Asset(d, J.kb).kind = "asset"
      BY DEF Asset, File
    <2> QED  BY <1>2, <2>3, <2>4, <2>5, <2>6, <2>7, <2>8 DEF RowsKept
  <1> QED
    BY <1>0, <1>1, <1>2 DEF JobStep, process_document, Fails, Fetch, _upload_assets, storeVars,
       _check_user_page_limit, DropChunks, store_chunks, _store_extracted_pages

(* And an upload, which inserts files. *)
LEMMA UploadRows ==
    ASSUME TypeInv, IdsInv, UploadStep
    PROVE  RowsKept
  <1>t. patch \in [Patches -> PatchRec] /\ docs \in [Docs -> Row \cup {NoDoc}]
    BY DEF TypeInv, StoreType, UploadType
  <1>0. CASE docs' = docs
    BY <1>0 DEF RowsKept
  <1>1. ASSUME NEW p \in Patches, NEW ok \in BOOLEAN, _finalize(p, ok) PROVE RowsKept
    <2>1. patch[p].doc \in Docs /\ patch[p].doc \in UploadIds
      BY <1>1, <1>t, PatchCases DEF _finalize, UploadIds, Inserting
    <2>2. File(uploads[patch[p].upload].kb).kind = "file"
      BY DEF File
    <2> QED  BY <1>1, <1>t, <2>1, <2>2 DEF _finalize, RowsKept
  <1> QED
    BY <1>0, <1>1 DEF UploadStep, ReadUsage, tus_create, cleanup_stale_uploads, tus_patch, _append_file,
       PatchStops, PatchEnds, StoreFile, StoreFails, storeVars

(* Every step keeps the kinds of rows. *)
LEMMA StepRows == ASSUME HighlightInv, [Next]_vars PROVE RowsKept
  <1>t. TypeInv /\ IdsInv
    BY DEF HighlightInv
  <1>1. CASE docs' = docs
    BY <1>1 DEF RowsKept
  <1> QED
    BY <1>t, <1>1, RequestRows, JobRows, UploadRows DEF Next, Extract, Serve, Restart, vars, storeVars

(* Requests that clip a page at the same time make one document of it in a
   knowledge base, whatever was moved or deleted since they looked it up. *)
THEOREM ClipsAreNotDoubled == Spec => OneClipPerPage
  <1>1. HighlightInv /\ [Next]_vars => [\A d \in Docs : ~Exists(d) /\ docs'[d] # NoDoc /\ docs'[d].kind = "clip"
                                          => \A e \in Clips : docs[e].kb # docs'[d].kb]_vars
    <2> SUFFICES ASSUME HighlightInv, [Next]_vars, NEW d \in Docs, ~Exists(d), docs'[d] # NoDoc, docs'[d].kind = "clip"
                 PROVE  \A e \in Clips : docs[e].kb # docs'[d].kb
      OBVIOUS
    <2> QED  BY StepRows DEF RowsKept
  <1> QED  BY <1>1, HighlightInit, HighlightStep, PTL DEF Spec, OneClipPerPage

--------------------------------------------------------------------------------
(* Documents and their files.  A deletion purges the files of ids it read     *)
(* before: by then no file may be behind a row that is there.                 *)

MovesApart == "move" \notin Ops \/ "delete_kb" \notin Ops

Purging(r) == req[r].at \in {"delete", "purge", "delete_kb"}
PurgeInv ==
    /\ \A r \in Requests : Purging(r) => \A d \in req[r].ids : d <= born /\ d \notin UploadIds
    /\ \A r \in Requests : req[r].at = "purge" =>
          \A d \in req[r].ids : Exists(d) => docs[d].kind # "file"
    /\ \A r \in Requests : req[r].at = "delete_kb" =>
          /\ "delete_kb" \in Ops
          /\ \A d \in req[r].ids : Exists(d) /\ docs[d].kind = "file" => docs[d].kb = req[r].kb
StoredInv == \A p \in Inserting : objects[patch[p].doc] # NoFile

FileInv == RowHasObject /\ StoredInv /\ PurgeInv

(* Rows that are files afterwards, and were not drawn for, were files. *)
LEMMA FilesStay ==
    ASSUME RowsKept, NEW d \in Docs, d \notin UploadIds, docs'[d] # NoDoc, docs'[d].kind = "file"
    PROVE  Exists(d) /\ docs[d].kind = "file" /\ ("move" \in Ops \/ docs'[d].kb = docs[d].kb)
  BY DEF RowsKept

(* Requests that read nothing new to purge keep the ids in order, as uploads and jobs do. *)
LEMMA PurgeKept ==
    ASSUME TypeInv, TypeInv', IdsInv, IdsInv', RowsKept, MovesApart, PurgeInv, born <= born',
           \A d \in UploadIds' : d \in UploadIds \/ born < d,
           \A r \in Requests : Purging(r)' =>
               \/ req'[r] = req[r]
               \/ req'[r].at = "delete" /\ \A d \in req'[r].ids : Exists(d)
               \/ req'[r].at = "purge" /\ \A d \in req'[r].ids :
                      /\ d <= born /\ d \notin UploadIds
                      /\ docs'[d] = NoDoc \/ ~Exists(d) \/ docs[d].kind # "file"
               \/ /\ req'[r].at = "delete_kb" /\ "delete_kb" \in Ops /\ docs' = docs
                  /\ \A d \in req'[r].ids : Exists(d) /\ docs[d].kb = req'[r].kb
    PROVE  PurgeInv'
  <1>t. /\ born \in Nat /\ born' \in Nat /\ Docs \subseteq Nat
        /\ \A r \in Requests : Purging(r) => req[r].ids \subseteq Docs
        /\ \A r \in Requests : Purging(r)' => req'[r].ids \subseteq Docs
    <2>1. \A q \in ReqRec : q.at \in {"delete", "purge", "delete_kb"} => q.ids \subseteq Docs
      BY ReqCases
    <2>2. \A r \in Requests : req[r] \in ReqRec /\ req'[r] \in ReqRec
      BY DEF TypeInv
    <2>3. born \in Nat /\ born' \in Nat /\ Docs \subseteq Nat
      BY StoreAssumption DEF TypeInv, StoreType
    <2> QED  BY <2>1, <2>2, <2>3 DEF Purging
  <1>1. ASSUME NEW r \in Requests, Purging(r)', NEW d \in req'[r].ids
        PROVE  d \in Docs /\ d <= born' /\ d \notin UploadIds /\ d \notin UploadIds'
    <2>1. d \in Docs
      BY <1>1, <1>t
    <2>2. d <= born /\ d \notin UploadIds
      <3>1. CASE req'[r] = req[r]
        BY <1>1, <3>1 DEF PurgeInv, Purging
      <3>2. CASE Exists(d)
        BY <2>1, <3>2 DEF IdsInv
      <3> QED  BY <1>1, <3>1, <3>2
    <2> QED  BY <1>t, <2>1, <2>2
  <1>2. ASSUME NEW r \in Requests, req'[r].at = "purge", NEW d \in req'[r].ids, docs'[d] # NoDoc
        PROVE  docs'[d].kind # "file"
    <2>1. d \in Docs /\ d \notin UploadIds
      BY <1>1, <1>2 DEF Purging
    <2>2. CASE req'[r] = req[r]
      BY <1>2, <2>1, <2>2, FilesStay DEF PurgeInv
    <2>3. CASE docs'[d] = NoDoc \/ ~Exists(d) \/ docs[d].kind # "file"
      BY <1>2, <2>1, <2>3, FilesStay
    <2> QED  BY <1>2, <2>2, <2>3 DEF Purging
  <1>3. ASSUME NEW r \in Requests, req'[r].at = "delete_kb"
        PROVE  /\ "delete_kb" \in Ops
               /\ \A d \in req'[r].ids : docs'[d] # NoDoc /\ docs'[d].kind = "file" => docs'[d].kb = req'[r].kb
    <2>1. CASE req'[r] = req[r]
      <3>1. "delete_kb" \in Ops /\ "move" \notin Ops
        BY <1>3, <2>1 DEF PurgeInv, MovesApart
      <3>2. ASSUME NEW d \in req'[r].ids, docs'[d] # NoDoc, docs'[d].kind = "file"
            PROVE  docs'[d].kb = req'[r].kb
        <4>1. d \in Docs /\ d \notin UploadIds
          BY <1>1, <1>3, <3>2 DEF Purging
        <4>2. Exists(d) /\ docs[d].kind = "file" /\ docs'[d].kb = docs[d].kb
          BY <3>1, <3>2, <4>1, FilesStay
        <4> QED  BY <1>3, <2>1, <3>2, <4>2 DEF PurgeInv
      <3> QED  BY <3>1, <3>2
    <2> QED  BY <1>3, <2>1 DEF Purging
  <1> QED  BY <1>1, <1>2, <1>3 DEF PurgeInv, Purging

FilesKept == \A d \in Docs : objects'[d] = NoFile => objects[d] = NoFile

(* As long as files are kept, so is every row's. *)
LEMMA FilesKeptStored ==
    ASSUME TypeInv, RowsKept, FileInv, FilesKept,
           \A p \in Inserting' : (p \in Inserting /\ patch'[p] = patch[p]) \/ objects'[patch'[p].doc] # NoFile
    PROVE  RowHasObject' /\ StoredInv'
  <1>1. ASSUME NEW d \in Docs, docs'[d] # NoDoc, docs'[d].kind = "file" PROVE objects'[d] # NoFile
    <2>1. CASE d \in UploadIds
      BY <2>1 DEF FileInv, StoredInv, UploadIds, FilesKept
    <2>2. CASE d \notin UploadIds
      BY <1>1, <2>2, FilesStay DEF FileInv, RowHasObject, FilesKept
    <2> QED  BY <2>1, <2>2
  <1>2. \A p \in Inserting : patch[p].doc \in Docs
    BY IdTypes
  <1>3. StoredInv'
    BY <1>2 DEF FileInv, StoredInv, FilesKept
  <1> QED  BY <1>1, <1>3 DEF RowHasObject

(* What a file is, is not no file. *)
LEMMA FilesAreFiles == Image # NoFile /\ \A u \in Uploads, s \in Seq(Nat) : [of |-> u, bytes |-> s] # NoFile
  <1>1. <<>> \in Seq(Nat)
    OBVIOUS
  <1>2. Image \in [of : Nat, bytes : Seq(Nat)]
    BY <1>1 DEF Image
  <1>3. \A u \in Uploads, s \in Seq(Nat) : [of |-> u, bytes |-> s] \in [of : Nat, bytes : Seq(Nat)]
    BY UploadAssumption
  <1> QED  BY <1>2, <1>3, AbsenceAssumption

(* A request purges the files of ids it deleted, and no other. *)
LEMMA RequestFiles ==
    ASSUME TypeInv, TypeInv', IdsInv, IdsInv', FileInv, MovesApart, NEW r \in Requests, RequestStep(r), UNCHANGED patch
    PROVE  FileInv'
  <1> DEFINE Q == req[r]
  <1>t. /\ Q \in ReqRec /\ req \in [Requests -> ReqRec] /\ born \in Nat /\ born' \in Nat /\ Docs \subseteq Nat
        /\ objects \in [Docs -> [of : Uploads \cup {0}, bytes : Seq(Nat)] \cup {NoFile}]
        /\ docs \in [Docs -> Row \cup {NoDoc}]
    BY StoreAssumption DEF TypeInv, StoreType
  <1>r. RowsKept
    BY RequestRows
  <1>u. UploadIds' = UploadIds /\ Inserting' = Inserting
    BY DEF UploadIds, Inserting
  <1>b. born <= born'
    <2>1. CASE PreviewClip(r)
      <3>1. PICK k \in kbs, img \in {0, 1}, known \in SUBSET Docs :
              born' = born + img + (IF known = {} THEN 1 ELSE 0)
        BY <2>1 DEF PreviewClip, materialize_webclip_assets, Clips
      <3> QED  BY <1>t, <3>1
    <2>2. CASE born' \in {born, born + 1}
      BY <1>t, <2>2
    <2> QED
      BY <2>1, <2>2 DEF RequestStep, CheckNote, create_note, create_web_clip, ClipFails, get_highlights,
         replace_highlights, upsert_highlight, delete_highlight, WriteMarks, HighlightRefused, update_content,
         FetchKb, DropChunksOf, StoreChunksOf, update_metadata, BeginDelete, _hard_delete, _purge_s3,
         _kb_document_ids, delete_kb, storeVars
  <1>1. PurgeInv'
    <2>1. ASSUME NEW s \in Requests, Purging(s)'
          PROVE  \/ req'[s] = req[s]
                 \/ req'[s].at = "delete" /\ \A d \in req'[s].ids : Exists(d)
                 \/ req'[s].at = "purge" /\ \A d \in req'[s].ids :
                        /\ d <= born /\ d \notin UploadIds
                        /\ docs'[d] = NoDoc \/ ~Exists(d) \/ docs[d].kind # "file"
                 \/ /\ req'[s].at = "delete_kb" /\ "delete_kb" \in Ops /\ docs' = docs
                    /\ \A d \in req'[s].ids : Exists(d) /\ docs[d].kb = req'[s].kb
      <3>1. CASE \E rec : req' = [req EXCEPT ![r] = rec] /\ rec.at \notin {"delete", "purge", "delete_kb"}
        BY <1>t, <2>1, <3>1 DEF Purging
      <3>2. CASE req' = req
        BY <3>2
      <3>3. CASE create_web_clip(r)
        <4>1. PICK d, found : req' = [req EXCEPT ![r] = [at |-> "purge", ids |-> IF found = {} THEN {} ELSE AssetsOf({d})]]
          BY <3>3 DEF create_web_clip, Await
        <4>2. \A x \in AssetsOf({d}) : x \in Docs /\ Exists(x) /\ docs[x].kind = "asset"
          BY DEF AssetsOf
        <4> QED  BY <1>t, <4>1, <4>2 DEF IdsInv
      <3>4. CASE BeginDelete(r)
        <4>1. PICK d \in Live : req' = req \/ req' = [req EXCEPT ![r] = [at |-> "delete", ids |-> {d} \cup AssetsOf({d})]]
          BY <3>4 DEF BeginDelete, Await
        <4> QED  BY <1>t, <4>1 DEF AssetsOf
      <3>5. CASE _hard_delete(r)
        <4>1. Q.ids \subseteq Docs /\ Q.at = "delete" /\ Q \in [at : {"purge", "delete"}, ids : SUBSET Docs]
          BY <1>t, <3>5, ReqCases DEF _hard_delete
        <4>2. \A d \in Q.ids : docs'[d] = NoDoc /\ d <= born /\ d \notin UploadIds
          BY <3>5, <4>1 DEF _hard_delete, Remove, FileInv, PurgeInv, Purging
        <4>3. req' = [req EXCEPT ![r] = Idle] \/ req' = [req EXCEPT ![r].at = "purge"]
          BY <3>5 DEF _hard_delete, Ends
        <4>4. s # r => req'[s] = req[s]
          BY <1>t, <4>3
        <4>5. req'[r].at = "purge" => req'[r].ids = Q.ids
          BY <1>t, <4>1, <4>3 DEF Idle
        <4>6. req'[r].at \in {"idle", "purge"}
          BY <1>t, <4>1, <4>3 DEF Idle
        <4> QED  BY <2>1, <4>2, <4>4, <4>5, <4>6 DEF Purging
      <3>6. CASE _kb_document_ids(r)
        <4>1. PICK k \in kbs : req' = [req EXCEPT ![r] = [at |-> "delete_kb", kb |-> k, ids |-> {d \in Live : docs[d].kb = k}]]
          BY <3>6 DEF _kb_document_ids, Await
        <4>2. "delete_kb" \in Ops /\ docs' = docs
          BY <3>6 DEF _kb_document_ids, Begins, storeVars
        <4> QED  BY <1>t, <4>1, <4>2
      <3>7. CASE delete_kb(r)
        <4>1. Q.ids \subseteq Docs /\ Q.at = "delete_kb"
          BY <1>t, <3>7, ReqCases DEF delete_kb
        <4>2. CASE Q.kb \in kbs
          <5>1. req' = [req EXCEPT ![r] = [at |-> "purge", ids |-> Q.ids]]
            BY <3>7, <4>2 DEF delete_kb, Await
          <5>2. \A d \in Q.ids : d <= born /\ d \notin UploadIds
            BY <4>1 DEF FileInv, PurgeInv, Purging
          <5>3. \A d \in Q.ids : docs'[d] = NoDoc \/ ~Exists(d) \/ docs[d].kind # "file"
            BY <3>7, <4>1, <4>2 DEF FileInv, PurgeInv, delete_kb
          <5> QED  BY <1>t, <5>1, <5>2, <5>3
        <4>3. CASE Q.kb \notin kbs
          <5>1. req' = [req EXCEPT ![r] = Idle] /\ Idle.at = "idle"
            BY <3>7, <4>3 DEF delete_kb, Ends, Idle
          <5> QED  BY <3>1, <5>1
        <4> QED  BY <4>2, <4>3
      <3>8. CASE DropChunksOf(r)
        <4>1. Q \in [at : {"drop", "cut"}, doc : Docs, text : Texts, kb : Kbs]
          BY <1>t, <3>8, ReqCases DEF DropChunksOf
        <4>2. req' = [req EXCEPT ![r] = [Q EXCEPT !.at = "cut"]] /\ [Q EXCEPT !.at = "cut"].at = "cut"
          BY <1>t, <3>8, <4>1 DEF DropChunksOf
        <4> QED  BY <3>1, <4>2
      <3>9. CASE ~(create_web_clip(r) \/ BeginDelete(r) \/ _hard_delete(r) \/ _kb_document_ids(r) \/ delete_kb(r)
                   \/ DropChunksOf(r))
        <4>1. CASE update_metadata(r)
          BY <3>2, <4>1 DEF update_metadata
        <4>2. CASE PreviewClip(r) \/ CheckNote(r) \/ get_highlights(r) \/ update_content(r) \/ FetchKb(r)
          <5>1. ASSUME NEW rec, rec.at \notin {"delete", "purge", "delete_kb"}, Await(r, rec) PROVE req'[s] = req[s]
            BY <1>t, <2>1, <5>1 DEF Await, Purging
          <5>2. CASE PreviewClip(r)
            <6>1. PICK k, t, d, b, n : Await(r, [at |-> "clip", kb |-> k, text |-> t, parent |-> d,
                                                 existing_preview |-> b, image |-> n])
              BY <5>2 DEF PreviewClip
            <6> QED  BY <5>1, <6>1
          <5>3. CASE CheckNote(r)
            BY <5>1, <5>3 DEF CheckNote
          <5>4. CASE get_highlights(r)
            BY <5>1, <5>4 DEF get_highlights
          <5>5. CASE update_content(r)
            BY <5>1, <5>5 DEF update_content
          <5>6. CASE FetchKb(r)
            BY <5>1, <5>6 DEF FetchKb, Ends, Await, Idle
          <5> QED  BY <4>2, <5>2, <5>3, <5>4, <5>5, <5>6
        <4>3. CASE create_note(r) \/ ClipFails(r) \/ replace_highlights(r) \/ upsert_highlight(r) \/ delete_highlight(r)
                   \/ HighlightRefused(r) \/ StoreChunksOf(r) \/ _purge_s3(r)
          <5>1. req' = [req EXCEPT ![r] = Idle] /\ Idle.at = "idle"
            BY <4>3 DEF create_note, ClipFails, replace_highlights, upsert_highlight, delete_highlight, WriteMarks,
               HighlightRefused, StoreChunksOf, _purge_s3, Ends, Idle
          <5> QED  BY <3>1, <5>1
        <4> QED  BY <3>9, <4>1, <4>2, <4>3 DEF RequestStep
      <3> QED  BY <3>3, <3>4, <3>5, <3>6, <3>7, <3>8, <3>9
    <2> QED  BY <1>b, <1>r, <1>u, <2>1, PurgeKept DEF FileInv
  <1>2. RowHasObject' /\ StoredInv'
    <2>1. CASE FilesKept
      BY <1>r, <1>u, <2>1, FilesKeptStored DEF Inserting
    <2>2. CASE _purge_s3(r)
      <3>1. Q.at = "purge" /\ docs' = docs
        BY <2>2 DEF _purge_s3
      <3>2. PICK gone \in SUBSET Q.ids : objects' = [d \in Docs |-> IF d \in gone THEN NoFile ELSE objects[d]]
        BY <2>2 DEF _purge_s3
      <3>3. \A d \in gone : d \notin UploadIds /\ (Exists(d) => docs[d].kind # "file")
        BY <3>1 DEF FileInv, PurgeInv, Purging
      <3>4. RowHasObject'
        BY <3>1, <3>2, <3>3 DEF FileInv, RowHasObject
      <3>5. \A p \in Inserting : patch[p].doc \in Docs /\ patch[p].doc \in UploadIds
        BY IdTypes DEF UploadIds
      <3>6. StoredInv'
        BY <1>u, <3>2, <3>3, <3>5 DEF FileInv, StoredInv
      <3> QED  BY <3>4, <3>6
    <2>3. CASE PreviewClip(r)
      <3>1. PICK n : objects' = objects \/ objects' = [objects EXCEPT ![n] = Image]
        BY <2>3 DEF PreviewClip
      <3> QED  BY <1>t, <2>1, <3>1, FilesAreFiles DEF FilesKept
    <2>4. CASE objects' = objects
      BY <2>1, <2>4 DEF FilesKept
    <2> QED
      BY <2>2, <2>3, <2>4 DEF RequestStep, CheckNote, create_note, create_web_clip, ClipFails, get_highlights,
         replace_highlights, upsert_highlight, delete_highlight, WriteMarks, HighlightRefused, update_content,
         FetchKb, DropChunksOf, StoreChunksOf, update_metadata, BeginDelete, _hard_delete,
         _kb_document_ids, delete_kb, storeVars
  <1> QED  BY <1>1, <1>2 DEF FileInv

(* An extraction and a restart lose no file. *)
LEMMA JobFiles ==
    ASSUME TypeInv, TypeInv', IdsInv, IdsInv', FileInv, MovesApart, NEW d \in Docs, JobStep(d), UNCHANGED <<patch, req>>
    PROVE  FileInv'
  <1>t. objects \in [Docs -> [of : Uploads \cup {0}, bytes : Seq(Nat)] \cup {NoFile}] /\ born \in Nat
    BY StoreAssumption DEF TypeInv, StoreType
  <1>r. RowsKept
    BY JobRows
  <1>u. UploadIds' = UploadIds /\ Inserting' = Inserting
    BY DEF UploadIds, Inserting
  <1>b. born <= born'
    <2>1. CASE _store_extracted_pages(d)
      <3>1. _build_pdf_assets(d) \subseteq {0, 1}
        BY DEF _build_pdf_assets
      <3>2. born' = born \/ \E img \in {0, 1} : born' = born + img
        BY <2>1, <3>1 DEF _store_extracted_pages
      <3> QED  BY <1>t, <3>2
    <2>2. CASE born' = born
      BY <1>t, <2>2
    <2> QED
      BY <2>1, <2>2 DEF JobStep, process_document, Fails, Fetch, _upload_assets, storeVars,
         _check_user_page_limit, DropChunks, store_chunks
  <1>1. PurgeInv'
    BY <1>b, <1>r, <1>u, PurgeKept DEF FileInv
  <1>2. FilesKept
    <2>1. objects' = objects \/ objects' = [objects EXCEPT ![jobs[d].image] = Image]
      BY DEF JobStep, process_document, Fails, Fetch, _upload_assets, storeVars,
         _check_user_page_limit, DropChunks, store_chunks, _store_extracted_pages
    <2> QED  BY <1>t, <2>1, FilesAreFiles DEF FilesKept
  <1>3. RowHasObject' /\ StoredInv'
    BY <1>r, <1>u, <1>2, FilesKeptStored DEF Inserting
  <1> QED  BY <1>1, <1>3 DEF FileInv

(* An upload stores its file before it inserts the row. *)
LEMMA UploadFiles ==
    ASSUME TypeInv, TypeInv', IdsInv, IdsInv', FileInv, MovesApart, UploadStep, UNCHANGED req
    PROVE  FileInv'
  <1>t. /\ objects \in [Docs -> [of : Uploads \cup {0}, bytes : Seq(Nat)] \cup {NoFile}] /\ born \in Nat
        /\ patch \in [Patches -> PatchRec] /\ temp \in [Uploads -> Seq(Nat) \cup {NoFile}]
    BY StoreAssumption DEF TypeInv, StoreType, UploadType
  <1>r. RowsKept
    BY UploadRows
  <1>1. ASSUME NEW p \in Patches, StoreFile(p) PROVE FileInv'
    <2>1. patch[p].upload \in Uploads /\ born + 1 \in Docs /\ born' = born + 1
      BY <1>1, <1>t, PatchCases, StoreAssumption DEF StoreFile
    <2> DEFINE new == [of |-> patch[p].upload, bytes |-> temp[patch[p].upload]]
    <2>2. new # NoFile
      BY <1>1, <1>t, <2>1, FilesAreFiles DEF StoreFile
    <2>3. objects' = [objects EXCEPT ![born + 1] = new]
      BY <1>1, <2>1 DEF StoreFile
    <2> DEFINE rec == [at |-> "inserting", upload |-> patch[p].upload, doc |-> born + 1]
    <2>4. patch' = [patch EXCEPT ![p] = rec]
      BY <1>1, <2>1 DEF StoreFile
    <2>9. rec.doc = born + 1
      OBVIOUS
    <2> HIDE DEF new, rec
    <2>5. FilesKept /\ objects'[born + 1] # NoFile
      BY <1>t, <2>1, <2>2, <2>3 DEF FilesKept
    <2>6. \A q \in Inserting' : (q = p /\ patch'[q].doc = born + 1) \/ (q \in Inserting /\ patch'[q] = patch[q])
      <3>1. patch'[p] = rec /\ \A q \in Patches \ {p} : patch'[q] = patch[q]
        BY <1>1, <1>t, <2>4
      <3> QED  BY <2>9, <3>1 DEF Inserting
    <2>7. \A d \in UploadIds' : d \in UploadIds \/ born < d
      BY <1>t, <2>6 DEF UploadIds
    <2>8. PurgeInv'
      BY <1>r, <1>t, <2>1, <2>7, PurgeKept DEF FileInv
    <2> QED  BY <1>r, <2>5, <2>6, <2>8, FilesKeptStored DEF FileInv
  <1>2. CASE objects' = objects /\ born' = born /\ \A q \in Inserting' : q \in Inserting /\ patch'[q] = patch[q]
    <2>1. FilesKept /\ UploadIds' \subseteq UploadIds
      BY <1>2 DEF FilesKept, UploadIds
    <2>2. PurgeInv'
      BY <1>2, <1>r, <1>t, <2>1, PurgeKept DEF FileInv
    <2> QED  BY <1>2, <1>r, <2>1, <2>2, FilesKeptStored DEF FileInv
  <1>3. ASSUME NEW p \in Patches, NEW rec, rec.at # "inserting", patch' = [patch EXCEPT ![p] = rec]
        PROVE  \A q \in Inserting' : q \in Inserting /\ patch'[q] = patch[q]
    BY <1>3, <1>t DEF Inserting
  <1>4. ASSUME NEW u \in Uploads, ReadUsage(u) \/ tus_create(u) \/ cleanup_stale_uploads(u) PROVE FileInv'
    BY <1>2, <1>4 DEF ReadUsage, tus_create, cleanup_stale_uploads, storeVars, Inserting
  <1>5. ASSUME NEW p \in Patches, NEW u \in Uploads, tus_patch(p, u) PROVE FileInv'
    BY <1>2, <1>3, <1>5 DEF tus_patch, storeVars
  <1>6. ASSUME NEW p \in Patches, _append_file(p) PROVE FileInv'
    <2>1. patch[p] \in [at : {"draining", "storing"}, upload : Uploads, from : Nat, written : Nat]
      BY <1>6, <1>t, PatchCases DEF _append_file
    <2>2. patch' = [patch EXCEPT ![p] = [patch[p] EXCEPT !.written = @ + 1]]
      BY <1>6, <1>t DEF _append_file
    <2>3. [patch[p] EXCEPT !.written = @ + 1].at # "inserting"
      BY <1>6, <2>1 DEF _append_file
    <2>4. \A q \in Inserting' : q \in Inserting /\ patch'[q] = patch[q]
      BY <1>3, <2>2, <2>3
    <2> QED  BY <1>2, <1>6, <2>4 DEF _append_file, storeVars
  <1>7. ASSUME NEW p \in Patches, PatchStops(p) \/ StoreFails(p) PROVE FileInv'
    BY <1>2, <1>3, <1>7 DEF PatchStops, StoreFails, storeVars, NoPatch
  <1>8. ASSUME NEW p \in Patches, PatchEnds(p) PROVE FileInv'
    <2>1. patch[p] \in [at : {"draining", "storing"}, upload : Uploads, from : Nat, written : Nat]
      BY <1>8, <1>t, PatchCases DEF PatchEnds
    <2>2. patch' = [patch EXCEPT ![p] = NoPatch] \/ patch' = [patch EXCEPT ![p] = [patch[p] EXCEPT !.at = "storing"]]
      BY <1>8, <1>t DEF PatchEnds
    <2>3. [patch[p] EXCEPT !.at = "storing"].at # "inserting" /\ NoPatch.at # "inserting"
      BY <2>1 DEF NoPatch
    <2>4. \A q \in Inserting' : q \in Inserting /\ patch'[q] = patch[q]
      BY <1>3, <2>2, <2>3
    <2> QED  BY <1>2, <1>8, <2>4 DEF PatchEnds, storeVars
  <1>9. ASSUME NEW p \in Patches, NEW ok \in BOOLEAN, _finalize(p, ok) PROVE FileInv'
    BY <1>2, <1>3, <1>9 DEF _finalize, NoPatch
  <1> QED  BY <1>1, <1>4, <1>5, <1>6, <1>7, <1>8, <1>9 DEF UploadStep

(* Every step keeps the files of the rows that are there. *)
LEMMA FileStep == ASSUME HighlightInv, HighlightInv', FileInv, MovesApart, [Next]_vars PROVE FileInv'
  <1>t. TypeInv /\ TypeInv' /\ IdsInv /\ IdsInv'
    BY DEF HighlightInv
  <1>r. RowsKept
    BY StepRows
  <1>1. CASE UploadStep /\ UNCHANGED <<req, restarts, remade>>
    BY <1>1, <1>t, UploadFiles
  <1>2. ASSUME NEW d \in Docs, Extract(d) PROVE FileInv'
    BY <1>2, <1>t, JobFiles DEF Extract, uploadVars
  <1>3. ASSUME NEW r \in Requests, Serve(r) PROVE FileInv'
    BY <1>3, <1>t, RequestFiles DEF Serve, uploadVars
  <1>4. CASE Restart \/ UNCHANGED vars
    <2>1. /\ objects' = objects /\ born' = born
          /\ \A p \in Inserting' : p \in Inserting /\ patch'[p] = patch[p]
          /\ \A r \in Requests : Purging(r)' => req'[r] = req[r]
      BY <1>4 DEF Restart, RequestsLost, UploadsLost, Idle, NoPatch, vars, storeVars, uploadVars, Inserting, Purging
    <2>2. FilesKept /\ UploadIds' \subseteq UploadIds
      BY <2>1 DEF FilesKept, UploadIds
    <2>3. born <= born'
      BY <1>t, <2>1, StoreAssumption DEF TypeInv, StoreType
    <2>4. PurgeInv'
      BY <1>r, <1>t, <2>1, <2>2, <2>3, PurgeKept DEF FileInv
    <2> QED  BY <1>r, <1>t, <2>1, <2>2, <2>4, FilesKeptStored DEF FileInv
  <1> QED  BY <1>1, <1>2, <1>3, <1>4 DEF Next

(* The documents that were uploaded before have their files. *)
LEMMA FileInit == Init => FileInv
  <1> SUFFICES ASSUME Init PROVE FileInv
    OBVIOUS
  <1>1. Inserting = {} /\ \A r \in Requests : req[r].at = "idle"
    BY DEF Init, UploadInit, NoPatch, RequestsInit, Idle, Inserting
  <1>2. RowHasObject
    BY FilesAreFiles DEF Init, RowHasObject
  <1> QED  BY <1>1, <1>2 DEF FileInv, StoredInv, PurgeInv, Purging

(* A document has its file in S3 as long as its row is there, if documents are
   not moved out of a knowledge base while it is deleted: the list of files to
   purge is read before the rows are deleted. *)
THEOREM DocumentsHaveFiles == MovesApart => (Spec => []RowHasObject)
  <1> SUFFICES ASSUME MovesApart PROVE Spec => []RowHasObject
    OBVIOUS
  <1>1. Init => HighlightInv /\ FileInv
    BY HighlightInit, FileInit
  <1>2. HighlightInv /\ FileInv /\ [Next]_vars => (HighlightInv /\ FileInv)'
    BY HighlightStep, FileStep
  <1>3. FileInv => RowHasObject
    BY DEF FileInv
  <1> QED  BY <1>1, <1>2, <1>3, PTL DEF Spec

--------------------------------------------------------------------------------
(* An upload and the document it becomes.  As long as no two of its requests  *)
(* are in flight together, the temporary file has the bytes up to the offset  *)
(* of the entry and what the one request has appended; when the clean-up      *)
(* unlinks it under that request, it has the bytes from there on, which never *)
(* make up the declared size.                                                 *)

Acting(u) == {p \in Patches : patch[p].at # "idle" /\ patch[p].upload = u}
From(k, n) == [i \in 1..n |-> k + i]
Whole == From(0, Length)
StoredFor(u) == {d \in Docs : objects[d] # NoFile /\ objects[d].of = u}

\* What the one request of an upload has done so far.
Drained(u, p) ==
    LET n == patch[p].from + patch[p].written IN
    /\ uploads[u].offset = patch[p].from /\ n <= Length
    /\ Open(u) => temp[u] = From(0, n)
    /\ temp[u] = NoFile \/ \E k \in 0..n : temp[u] = From(k, n - k)
Storing(u) ==
    /\ temp[u] \in {NoFile, Whole}
    /\ Open(u) => temp[u] = Whole /\ uploads[u].offset = Length

OneRequest(u) == \A p, q \in Acting(u) : p = q
NotBegun(u) == /\ uploads[u].at \in {"new", "checked"} => Acting(u) = {}
               /\ uploads[u].at = "checked" => uploads[u].offset = 0
AtRest(u) == Open(u) /\ Acting(u) = {} => uploads[u].offset <= Length /\ temp[u] = From(0, uploads[u].offset)
InFlight(u) == \A p \in Acting(u) : /\ patch[p].at = "draining" => Drained(u, p)
                                    /\ patch[p].at = "storing" => Storing(u)
StoredOnce(u) ==
    /\ \A d, e \in StoredFor(u) : d = e
    /\ \A d \in StoredFor(u) : objects[d].bytes = Whole
    /\ StoredFor(u) # {} => \/ uploads[u].at = "gone" /\ Acting(u) = {}
                            \/ \E p \in Acting(u) : patch[p].at = "inserting"

IntactUpload(u) == OneRequest(u) /\ NotBegun(u) /\ AtRest(u) /\ InFlight(u) /\ StoredOnce(u)
IntactInv == \A u \in Uploads \ raced : IntactUpload(u)

(* The bytes from k on, as they are appended. *)
LEMMA Bytes ==
    /\ From(0, 0) = <<>>
    /\ \A k, n \in Nat : /\ From(k, n) \in Seq(Nat) /\ Len(From(k, n)) = n /\ From(k, n) # NoFile
                         /\ Append(From(k, n), k + n + 1) = From(k, n + 1)
    /\ \A k \in Nat : Append(<<>>, k + 1) = From(k, 1)
  <1>1. From(0, 0) = <<>>
    BY DEF From
  <1>2. ASSUME NEW k \in Nat, NEW n \in Nat
        PROVE  /\ From(k, n) \in Seq(Nat) /\ Len(From(k, n)) = n
               /\ Append(From(k, n), k + n + 1) = From(k, n + 1)
    <2>1. From(k, n) \in Seq(Nat) /\ Len(From(k, n)) = n /\ \A i \in 1..n : From(k, n)[i] = k + i
      BY DEF From
    <2>2. Append(From(k, n), k + n + 1) = [i \in 1..(n + 1) |-> k + i]
      <3> DEFINE s == From(k, n)
      <3>1. s \in Seq(Nat) /\ Len(s) = n /\ (\A i \in 1..n : s[i] = k + i) /\ k + n + 1 \in Nat
        BY <2>1
      <3> HIDE DEF s
      <3>2. Append(s, k + n + 1) \in Seq(Nat) /\ Len(Append(s, k + n + 1)) = n + 1
        BY <3>1
      <3>3. \A i \in 1..(n + 1) : Append(s, k + n + 1)[i] = k + i
        BY <3>1
      <3> QED  BY <3>2, <3>3 DEF s
    <2> QED  BY <2>1, <2>2 DEF From
  <1>3. \A k \in Nat : Append(<<>>, k + 1) = From(k, 1)
    <2> SUFFICES ASSUME NEW k \in Nat PROVE Append(<<>>, k + 1) = From(k, 1)
      OBVIOUS
    <2>1. From(k, 0) = <<>> /\ Append(From(k, 0), k + 0 + 1) = From(k, 0 + 1)
      BY <1>2 DEF From
    <2>2. k + 0 + 1 = k + 1 /\ 0 + 1 = 1
      OBVIOUS
    <2> QED  BY <2>1, <2>2, Zenon
  <1> QED  BY <1>1, <1>2, <1>3, AbsenceAssumption

\* What another upload does, a job, or a request, as this one sees it.
Same(u) ==
    /\ uploads'[u] = uploads[u] /\ temp'[u] = temp[u] /\ Acting(u)' = Acting(u)
    /\ \A p \in Acting(u) : patch'[p] = patch[p]
    /\ \A d \in StoredFor(u)' : d \in StoredFor(u) /\ objects'[d] = objects[d]

(* What leaves an upload alone, and stores nothing of it, leaves it intact. *)
LEMMA IntactSame == ASSUME NEW u \in Uploads, IntactUpload(u), Same(u) PROVE IntactUpload(u)'
  <1>1. OneRequest(u)' /\ NotBegun(u)' /\ AtRest(u)'
    BY DEF Same, IntactUpload, OneRequest, NotBegun, AtRest, Open
  <1>2. InFlight(u)'
    BY DEF Same, IntactUpload, InFlight, Drained, Storing, Open
  <1>3. StoredOnce(u)'
    BY DEF Same, IntactUpload, StoredOnce
  <1> QED  BY <1>1, <1>2, <1>3 DEF IntactUpload

(* Jobs store images, and requests delete files. *)
LEMMA IntactElsewhere ==
    ASSUME TypeInv, IntactInv, UNCHANGED uploadVars,
           \A d \in Docs : objects'[d] \in {objects[d], Image, NoFile}
    PROVE  IntactInv'
  <1> SUFFICES ASSUME NEW u \in Uploads \ raced PROVE IntactUpload(u)'
    BY DEF IntactInv, uploadVars
  <1>1. Image.of # u
    BY UploadAssumption DEF Image
  <1>2. Same(u)
    BY <1>1 DEF Same, Acting, StoredFor, uploadVars
  <1> QED  BY <1>2, IntactSame DEF IntactInv

(* A request on an upload leaves every other one alone. *)
LEMMA OtherUploads ==
    ASSUME TypeInv, TypeInv', NEW v \in Uploads, NEW u \in Uploads \ {v}, IntactUpload(u),
           \A w \in Uploads \ {v} : uploads'[w] = uploads[w] /\ temp'[w] = temp[w],
           \A p \in Patches : \/ patch'[p] = patch[p]
                              \/ /\ patch[p].at = "idle" \/ patch[p].upload = v
                                 /\ patch'[p].at = "idle" \/ patch'[p].upload = v,
           \A d \in Docs : objects'[d] = objects[d] \/ objects'[d].of = v
    PROVE  IntactUpload(u)'
  <1>1. Acting(u)' = Acting(u) /\ \A p \in Acting(u) : patch'[p] = patch[p]
    BY DEF Acting
  <1>2. \A d \in StoredFor(u)' : d \in StoredFor(u) /\ objects'[d] = objects[d]
    BY DEF StoredFor
  <1> QED  BY <1>1, <1>2, IntactSame DEF Same

(* An upload that is begun, entered, or cleaned up. *)
LEMMA EntrySteps ==
    ASSUME TypeInv, TypeInv', IntactInv, NEW v \in Uploads, ReadUsage(v) \/ tus_create(v) \/ cleanup_stale_uploads(v)
    PROVE  IntactInv'
  <1>t. /\ uploads \in [Uploads -> UploadRec] /\ temp \in [Uploads -> Seq(Nat) \cup {NoFile}]
    BY DEF TypeInv, UploadType
  <1>e. patch' = patch /\ objects' = objects /\ raced' = raced
    BY DEF ReadUsage, tus_create, cleanup_stale_uploads, storeVars
  <1> SUFFICES ASSUME NEW u \in Uploads \ raced PROVE IntactUpload(u)'
    BY <1>e DEF IntactInv
  <1>i. IntactUpload(u)
    BY DEF IntactInv
  <1>1. CASE u # v
    <2>1. \A w \in Uploads \ {v} : uploads'[w] = uploads[w] /\ temp'[w] = temp[w]
      BY <1>t DEF ReadUsage, tus_create, cleanup_stale_uploads
    <2> QED  BY <1>1, <1>e, <1>i, <2>1, OtherUploads
  <1>2. CASE u = v
    <2>a. Acting(u)' = Acting(u) /\ StoredFor(u)' = StoredFor(u)
      BY <1>e DEF Acting, StoredFor
    <2>1. CASE ReadUsage(u)
      <3>1. PICK k \in kbs : uploads' = [uploads EXCEPT ![u] = [at |-> "checked", offset |-> 0, kb |-> k, used |-> Sizes]]
        BY <2>1 DEF ReadUsage
      <3>2. uploads'[u].at = "checked" /\ uploads'[u].offset = 0 /\ uploads[u].at = "new"
        BY <1>t, <2>1, <3>1 DEF ReadUsage
      <3>3. Acting(u) = {} /\ StoredFor(u) = {}
        BY <1>i, <3>2 DEF IntactUpload, NotBegun, StoredOnce
      <3> QED
        BY <2>a, <3>2, <3>3 DEF IntactUpload, OneRequest, NotBegun, AtRest, InFlight, StoredOnce, Open
    <2>2. CASE tus_create(u)
      <3>1. uploads[u].at = "checked" /\ uploads[u].offset = 0
        BY <1>i, <2>2 DEF tus_create, IntactUpload, NotBegun
      <3>2. Acting(u) = {} /\ StoredFor(u) = {}
        BY <1>i, <3>1 DEF IntactUpload, NotBegun, StoredOnce
      <3>4. /\ uploads[u] \in [at : {"checked"}, offset : Nat, kb : Kbs, used : Nat]
            /\ uploads' = [uploads EXCEPT ![u] = [uploads[u] EXCEPT !.at = "gone"]]
               \/ /\ uploads' = [uploads EXCEPT ![u] = [uploads[u] EXCEPT !.at = "open"]]
                  /\ temp' = [temp EXCEPT ![u] = <<>>]
        BY <1>t, <2>2, <3>1 DEF tus_create, UploadRec
      <3>3. /\ uploads'[u].offset = 0
            /\ uploads'[u].at = "gone" \/ (uploads'[u].at = "open" /\ temp'[u] = <<>>)
        BY <1>t, <3>1, <3>4
      <3>5. AtRest(u)'
        <4>1. From(0, 0) = <<>> /\ 0 <= Length
          BY Bytes, UploadAssumption
        <4> QED  BY <3>3, <4>1 DEF AtRest, Open
      <3> QED
        BY <2>a, <3>2, <3>3, <3>5 DEF IntactUpload, OneRequest, NotBegun, InFlight, StoredOnce
    <2>3. CASE cleanup_stale_uploads(u)
      <3>1. uploads'[u].at = "gone" /\ uploads'[u].offset = uploads[u].offset /\ temp'[u] = NoFile
        BY <1>t, <2>3 DEF cleanup_stale_uploads, UploadRec
      <3>2. Open(u)
        BY <2>3 DEF cleanup_stale_uploads
      <3>3. InFlight(u)'
        BY <1>e, <1>i, <2>a, <3>1 DEF IntactUpload, InFlight, Drained, Storing, Open
      <3>4. StoredOnce(u)'
        BY <1>e, <1>i, <2>a, <3>1, <3>2 DEF IntactUpload, StoredOnce, Open
      <3> QED
        BY <1>i, <2>a, <3>1, <3>3, <3>4 DEF IntactUpload, OneRequest, NotBegun, AtRest, Open
    <2> QED  BY <1>2, <2>1, <2>2, <2>3
  <1> QED  BY <1>1, <1>2

(* The one request of an upload moves on. *)
LEMMA Alone ==
    ASSUME NEW v \in Uploads, OneRequest(v), NEW p \in Acting(v),
           \A q \in Patches \ {p} : patch'[q] = patch[q]
    PROVE  /\ Acting(v) = {p}
           /\ patch'[p].at = "idle" => Acting(v)' = {}
           /\ patch'[p].at # "idle" /\ patch'[p].upload = v => Acting(v)' = {p}
  <1>1. Acting(v) = {p} /\ p \in Patches
    BY DEF OneRequest, Acting
  <1>2. \A q \in Patches \ {p} : q \notin Acting(v)'
    BY <1>1 DEF Acting
  <1>3. patch'[p].at = "idle" => p \notin Acting(v)'
    BY DEF Acting
  <1>4. patch'[p].at # "idle" /\ patch'[p].upload = v => p \in Acting(v)'
    BY <1>1 DEF Acting
  <1>5. Acting(v)' \subseteq Patches
    BY DEF Acting
  <1> QED  BY <1>1, <1>2, <1>3, <1>4, <1>5

(* A request on an open upload begins where the file ends. *)
LEMMA PatchBegins ==
    ASSUME TypeInv, TypeInv', IntactInv, NEW p \in Patches, NEW v \in Uploads, tus_patch(p, v)
    PROVE  IntactInv'
  <1> DEFINE rec == [at |-> "draining", upload |-> v, from |-> uploads[v].offset, written |-> 0]
  <1>t. /\ patch \in [Patches -> PatchRec] /\ uploads[v] \in UploadRec
        /\ patch[p].at = "idle" /\ Open(v) /\ patch' = [patch EXCEPT ![p] = rec]
        /\ uploads' = uploads /\ temp' = temp /\ objects' = objects
        /\ raced' = IF Acting(v) # {} THEN raced \cup {v} ELSE raced
    BY DEF TypeInv, UploadType, tus_patch, storeVars, Acting
  <1>o. uploads[v].offset \in Nat
    BY <1>t DEF UploadRec
  <1>r. rec.at = "draining" /\ rec.upload = v /\ rec.from = uploads[v].offset /\ rec.written = 0
    OBVIOUS
  <1> HIDE DEF rec
  <1>p. patch'[p] = rec /\ \A q \in Patches \ {p} : patch'[q] = patch[q]
    BY <1>t
  <1> SUFFICES ASSUME NEW u \in Uploads \ raced' PROVE IntactUpload(u)'
    BY DEF IntactInv
  <1>i. u \notin raced /\ IntactUpload(u)
    BY <1>t DEF IntactInv
  <1>1. CASE u # v
    BY <1>1, <1>i, <1>t, <1>p, <1>r, OtherUploads
  <1>2. CASE u = v
    <2>1. Acting(u) = {} /\ Acting(u)' = {p} /\ StoredFor(u) = {} /\ StoredFor(u)' = {}
      <3>1. Acting(u) = {}
        BY <1>2, <1>t
      <3>2. Acting(u)' = {p}
        BY <1>2, <1>p, <1>r, <3>1 DEF Acting
      <3>3. StoredFor(u) = {}
        BY <1>2, <1>i, <1>t, <3>1 DEF IntactUpload, StoredOnce, Open
      <3> QED  BY <1>t, <3>1, <3>2, <3>3 DEF StoredFor
    <2>2. temp[u] = From(0, uploads[u].offset) /\ uploads[u].offset <= Length
      BY <1>2, <1>i, <1>t, <2>1 DEF IntactUpload, AtRest
    <2>3. Drained(u, p)'
      <3>1. patch'[p].from + patch'[p].written = uploads'[u].offset /\ uploads'[u].offset - 0 = uploads'[u].offset
        BY <1>2, <1>o, <1>p, <1>r, <1>t
      <3>2. 0 \in 0..uploads'[u].offset /\ temp'[u] = From(0, uploads'[u].offset - 0)
        BY <1>2, <1>o, <1>t, <2>2, <3>1
      <3> QED  BY <1>2, <1>p, <1>r, <1>t, <2>2, <3>1, <3>2 DEF Drained
    <2>4. InFlight(u)'
      BY <1>p, <1>r, <2>1, <2>3 DEF InFlight
    <2> QED
      BY <1>2, <1>i, <1>t, <2>1, <2>4 DEF IntactUpload, OneRequest, NotBegun, AtRest, StoredOnce, Open
  <1> QED  BY <1>1, <1>2

(* Bytes are appended after the ones before, or to a new file. *)
LEMMA Appends ==
    ASSUME TypeInv, TypeInv', IntactInv, NEW p \in Patches, _append_file(p)
    PROVE  IntactInv'
  <1>v. PICK v \in Uploads : v = patch[p].upload
    BY PatchCases DEF TypeInv, UploadType, _append_file
  <1> DEFINE f == patch[p].from
             n == f + patch[p].written
             base == IF temp[v] = NoFile THEN <<>> ELSE temp[v]
  <1>rec. PICK rec : rec = [patch[p] EXCEPT !.written = @ + 1]
    OBVIOUS
  <1>t. /\ patch \in [Patches -> PatchRec] /\ temp \in [Uploads -> Seq(Nat) \cup {NoFile}]
        /\ patch[p] \in [at : {"draining"}, upload : Uploads, from : Nat, written : Nat]
    BY PatchCases DEF TypeInv, UploadType, _append_file
  <1>a. /\ n < Length /\ patch' = [patch EXCEPT ![p] = rec] /\ temp' = [temp EXCEPT ![v] = Append(base, n + 1)]
        /\ uploads' = uploads /\ objects' = objects /\ raced' = raced
    BY <1>t, <1>v, <1>rec DEF _append_file, storeVars
  <1>r. /\ rec.at = "draining" /\ rec.upload = v /\ rec.from = f /\ rec.from + rec.written = n + 1
        /\ v \in Uploads /\ n \in Nat /\ p \in Acting(v) /\ patch[p].at = "draining"
        /\ n = patch[p].from + patch[p].written /\ f = patch[p].from
        /\ base = IF temp[v] = NoFile THEN <<>> ELSE temp[v]
        /\ patch[p].upload = v
    BY <1>t, <1>v, <1>rec DEF Acting
  <1> HIDE DEF f, n, base
  <1> SUFFICES ASSUME NEW u \in Uploads \ raced PROVE IntactUpload(u)'
    BY <1>a DEF IntactInv
  <1>i. IntactUpload(u)
    BY DEF IntactInv
  <1>1. CASE u # v
    <2>1. \A q \in Patches : \/ patch'[q] = patch[q]
                             \/ /\ patch[q].at = "idle" \/ patch[q].upload = v
                                /\ patch'[q].at = "idle" \/ patch'[q].upload = v
      BY <1>t, <1>a, <1>r
    <2>2. \A w \in Uploads \ {v} : uploads'[w] = uploads[w] /\ temp'[w] = temp[w]
      BY <1>t, <1>a, <1>r
    <2> QED  BY <1>1, <1>i, <1>a, <1>r, <2>1, <2>2, OtherUploads
  <1>2. CASE u = v
    <2>1. Acting(u) = {p} /\ Acting(u)' = {p} /\ patch'[p] = rec /\ StoredFor(u) = {} /\ StoredFor(u)' = {}
      <3>1. Acting(u) = {p} /\ Acting(u)' = {p} /\ patch'[p] = rec
        <4>1. OneRequest(v)
          BY <1>2, <1>i DEF IntactUpload
        <4>2. patch'[p] = rec /\ \A q \in Patches \ {p} : patch'[q] = patch[q]
          BY <1>t, <1>a
        <4> QED  BY <1>2, <1>r, <4>1, <4>2, Alone
      <3>2. StoredFor(u) = {}
        BY <1>2, <1>i, <1>r, <3>1 DEF IntactUpload, StoredOnce
      <3> QED  BY <1>a, <3>1, <3>2 DEF StoredFor
    <2>2. Drained(u, p)
      BY <1>i, <1>r, <2>1 DEF IntactUpload, InFlight
    <2>3. temp'[u] = Append(base, n + 1)
      BY <1>2, <1>t, <1>a, <1>r
    <2>4. Open(u) => temp'[u] = From(0, n + 1)
      <3>1. From(0, n) # NoFile /\ Append(From(0, n), 0 + n + 1) = From(0, n + 1) /\ 0 + n + 1 = n + 1
        <4>1. 0 + n + 1 = n + 1 /\ 0 \in Nat
          BY <1>r
        <4> QED  BY <1>r, <4>1, Bytes
      <3>2. Open(u) => base = From(0, n)
        BY <1>2, <1>r, <2>2, <3>1 DEF Drained
      <3> QED  BY <2>3, <3>1, <3>2
    <2>5. \E k \in 0..(n + 1) : temp'[u] = From(k, n + 1 - k)
      <3>1. CASE temp[u] = NoFile
        <4>1. Append(<<>>, n + 1) = From(n, 1) /\ n + 1 - n = 1 /\ n \in 0..(n + 1)
          <5>1. n + 1 - n = 1 /\ n \in 0..(n + 1)
            BY <1>r
          <5> QED  BY <1>r, <5>1, Bytes
        <4>2. base = <<>>
          BY <1>2, <1>r, <3>1
        <4> QED  BY <2>3, <4>1, <4>2
      <3>2. ASSUME NEW k \in 0..n, temp[u] = From(k, n - k) PROVE \E j \in 0..(n + 1) : temp'[u] = From(j, n + 1 - j)
        <4>1. /\ k \in Nat /\ n - k \in Nat /\ k + (n - k) + 1 = n + 1 /\ (n - k) + 1 = n + 1 - k
              /\ k \in 0..(n + 1)
          BY <1>r, <3>2
        <4>2. From(k, n - k) # NoFile /\ Append(From(k, n - k), k + (n - k) + 1) = From(k, (n - k) + 1)
          BY <4>1, Bytes
        <4>3. base = From(k, n - k)
          BY <1>2, <1>r, <3>2, <4>2
        <4> QED  BY <2>3, <4>1, <4>2, <4>3
      <3> QED  BY <1>r, <2>2, <3>1, <3>2 DEF Drained
    <2>6. Drained(u, p)'
      <3>1. n + 1 <= Length
        BY <1>a, <1>r, UploadAssumption
      <3> QED  BY <1>2, <1>a, <1>r, <2>1, <2>2, <2>4, <2>5, <3>1 DEF Drained, Open
    <2>7. InFlight(u)'
      BY <1>r, <2>1, <2>6 DEF InFlight
    <2> QED
      BY <1>2, <1>i, <1>a, <2>1, <2>7 DEF IntactUpload, OneRequest, NotBegun, AtRest, StoredOnce, Open
  <1> QED  BY <1>1, <1>2

(* An upload whose request is over. *)
LEMMA RequestOver ==
    ASSUME NEW u \in Uploads, IntactUpload(u), Acting(u)' = {}, objects' = objects,
           StoredFor(u) = {} \/ uploads'[u].at = "gone",
           uploads'[u].at \notin {"new", "checked"},
           uploads'[u].at = "open" => uploads'[u].offset <= Length /\ temp'[u] = From(0, uploads'[u].offset)
    PROVE  IntactUpload(u)'
  <1>1. StoredFor(u)' = StoredFor(u)
    BY DEF StoredFor
  <1>2. StoredOnce(u)'
    BY <1>1 DEF IntactUpload, StoredOnce
  <1> QED
    BY <1>2 DEF IntactUpload, OneRequest, NotBegun, AtRest, InFlight, Open

(* A request that stops, or fails to store the file, leaves the offset where the file ends. *)
LEMMA RequestEnds ==
    ASSUME TypeInv, TypeInv', IntactInv, NEW p \in Patches, NEW v \in Uploads,
           patch[p].at # "idle", patch[p].upload = v, patch' = [patch EXCEPT ![p] = NoPatch],
           raced' = raced, objects' = objects,
           \A w \in Uploads \ {v} : uploads'[w] = uploads[w] /\ temp'[w] = temp[w],
           \/ uploads'[v].at = "gone"
           \/ /\ uploads'[v].at = uploads[v].at /\ temp'[v] = temp[v]
              /\ \/ /\ patch[p].at = "draining"
                    /\ uploads'[v].offset = uploads[v].offset + patch[p].written
                 \/ patch[p].at = "storing" /\ uploads'[v].offset = uploads[v].offset
    PROVE  IntactInv'
  <1>a. p \in Acting(v)
    BY DEF Acting
  <1>b. patch'[p].at = "idle" /\ \A q \in Patches \ {p} : patch'[q] = patch[q]
    BY DEF NoPatch, TypeInv, UploadType
  <1> SUFFICES ASSUME NEW u \in Uploads \ raced PROVE IntactUpload(u)'
    BY DEF IntactInv
  <1>i. IntactUpload(u)
    BY DEF IntactInv
  <1>1. CASE u # v
    <2>1. \A q \in Patches : \/ patch'[q] = patch[q]
                             \/ /\ patch[q].at = "idle" \/ patch[q].upload = v
                                /\ patch'[q].at = "idle" \/ patch'[q].upload = v
      BY <1>b
    <2> QED  BY <1>1, <1>i, <2>1, OtherUploads
  <1>2. CASE u = v
    <2>1. Acting(u) = {p} /\ Acting(u)' = {}
      <3>1. OneRequest(v)
        BY <1>2, <1>i DEF IntactUpload
      <3>2. Acting(v) = {p} /\ Acting(v)' = {}
        BY <1>a, <1>b, <3>1, Alone
      <3> QED  BY <1>2, <3>2
    <2>2. CASE uploads'[u].at = "gone"
      BY <1>i, <2>1, <2>2, RequestOver
    <2>3. CASE uploads'[u].at # "gone"
      <3>1. uploads'[u].at = uploads[u].at /\ temp'[u] = temp[u] /\ patch[p].at # "inserting"
        BY <1>2, <2>3
      <3>2. StoredFor(u) = {}
        BY <1>i, <2>1, <2>3, <3>1 DEF IntactUpload, StoredOnce
      <3>3. uploads'[u].at \notin {"new", "checked"}
        BY <1>i, <2>1, <3>1 DEF IntactUpload, NotBegun
      <3>4. ASSUME uploads'[u].at = "open"
            PROVE  uploads'[u].offset <= Length /\ temp'[u] = From(0, uploads'[u].offset)
        <4>1. CASE patch[p].at = "draining"
          <5>1. Drained(u, p)
            BY <1>i, <2>1, <4>1 DEF IntactUpload, InFlight
          <5>2. uploads'[u].offset = patch[p].from + patch[p].written
            BY <1>2, <2>3, <4>1, <5>1 DEF Drained
          <5> QED  BY <3>1, <3>4, <5>1, <5>2 DEF Drained, Open
        <4>2. CASE patch[p].at = "storing"
          <5>1. Storing(u)
            BY <1>i, <2>1, <4>2 DEF IntactUpload, InFlight
          <5>2. uploads'[u].offset = Length /\ temp'[u] = Whole
            BY <1>2, <2>3, <3>1, <3>4, <4>2, <5>1 DEF Storing, Open
          <5> QED  BY <5>2, UploadAssumption DEF Whole
        <4> QED  BY <1>2, <2>3, <4>1, <4>2
      <3> QED  BY <1>i, <2>1, <3>2, <3>3, <3>4, RequestOver
    <2> QED  BY <2>2, <2>3
  <1> QED  BY <1>1, <1>2

(* The file an upload stores has the declared bytes. *)
LEMMA StoresWhole ==
    ASSUME TypeInv, TypeInv', IntactInv, NEW p \in Patches, StoreFile(p)
    PROVE  IntactInv'
  <1>v. PICK v \in Uploads : v = patch[p].upload
    BY PatchCases DEF TypeInv, UploadType, StoreFile
  <1>d. PICK d \in Docs : d = born + 1
    BY StoreAssumption DEF StoreFile, TypeInv, StoreType
  <1>t. /\ patch \in [Patches -> PatchRec] /\ p \in Acting(v) /\ patch[p].at = "storing"
        /\ objects \in [Docs -> [of : Uploads \cup {0}, bytes : Seq(Nat)] \cup {NoFile}]
    BY <1>v DEF TypeInv, UploadType, StoreType, StoreFile, Acting
  <1>a. /\ uploads' = uploads /\ temp' = temp /\ raced' = raced /\ temp[v] # NoFile
        /\ objects' = [objects EXCEPT ![d] = [of |-> v, bytes |-> temp[v]]]
        /\ patch' = [patch EXCEPT ![p] = [at |-> "inserting", upload |-> v, doc |-> d]]
    BY <1>v, <1>d DEF StoreFile
  <1>p. /\ patch'[p].at = "inserting" /\ patch'[p].upload = v
        /\ \A q \in Patches \ {p} : patch'[q] = patch[q]
    BY <1>t, <1>a
  <1>o. /\ objects'[d].of = v /\ objects'[d].bytes = temp[v]
        /\ \A e \in Docs \ {d} : objects'[e] = objects[e]
    BY <1>t, <1>a
  <1> SUFFICES ASSUME NEW u \in Uploads \ raced PROVE IntactUpload(u)'
    BY <1>a DEF IntactInv
  <1>i. IntactUpload(u)
    BY DEF IntactInv
  <1>1. CASE u # v
    <2>1. patch[p].upload = v
      BY <1>t DEF Acting
    <2>2. \A q \in Patches : \/ patch'[q] = patch[q]
                             \/ /\ patch[q].at = "idle" \/ patch[q].upload = v
                                /\ patch'[q].at = "idle" \/ patch'[q].upload = v
      BY <1>p, <2>1
    <2>3. \A e \in Docs : objects'[e] = objects[e] \/ objects'[e].of = v
      BY <1>o
    <2> QED  BY <1>1, <1>i, <1>a, <2>2, <2>3, OtherUploads
  <1>2. CASE u = v
    <2>1. Acting(u) = {p} /\ Acting(u)' = {p}
      <3>1. OneRequest(v)
        BY <1>2, <1>i DEF IntactUpload
      <3> QED  BY <1>2, <1>t, <1>p, <3>1, Alone
    <2>2. StoredFor(u) = {} /\ temp[u] = Whole
      BY <1>2, <1>i, <1>t, <1>a, <2>1 DEF IntactUpload, StoredOnce, InFlight, Storing
    <2>3. \A e \in StoredFor(u)' : e = d
      BY <1>o, <2>2 DEF StoredFor
    <2>4. StoredOnce(u)'
      BY <1>2, <1>o, <1>p, <2>1, <2>2, <2>3 DEF StoredOnce
    <2> QED
      BY <1>i, <1>a, <1>p, <2>1, <2>4 DEF IntactUpload, OneRequest, NotBegun, AtRest, InFlight, Open
  <1> QED  BY <1>1, <1>2

(* The last request finds the whole file, or throws it away. *)
LEMMA PatchEndsIntact ==
    ASSUME TypeInv, TypeInv', IntactInv, NEW p \in Patches, PatchEnds(p)
    PROVE  IntactInv'
  <1>v. PICK v \in Uploads : v = patch[p].upload
    BY PatchCases DEF TypeInv, UploadType, PatchEnds
  <1>n. PICK n \in Nat : n = uploads[v].offset + patch[p].written
    BY <1>v, PatchCases DEF TypeInv, UploadType, UploadRec, PatchEnds
  <1>t. /\ patch \in [Patches -> PatchRec] /\ uploads \in [Uploads -> UploadRec]
        /\ temp \in [Uploads -> Seq(Nat) \cup {NoFile}]
        /\ p \in Acting(v) /\ patch[p].at = "draining" /\ patch[p].upload = v
        /\ raced' = raced /\ objects' = objects
    BY <1>v DEF TypeInv, UploadType, PatchEnds, Acting, storeVars
  <1>1. CASE /\ uploads' = [uploads EXCEPT ![v].offset = n] /\ temp' = temp
             /\ patch' = [patch EXCEPT ![p] = NoPatch]
    <2>1. uploads'[v].at = uploads[v].at /\ uploads'[v].offset = n
      BY <1>1, <1>t DEF UploadRec
    <2>2. \A w \in Uploads \ {v} : uploads'[w] = uploads[w] /\ temp'[w] = temp[w]
      BY <1>1, <1>t
    <2> QED  BY <1>1, <1>n, <1>t, <2>1, <2>2, RequestEnds
  <1>2. CASE /\ uploads' = [uploads EXCEPT ![v].offset = n, ![v].at = "gone"]
             /\ temp' = [temp EXCEPT ![v] = NoFile]
             /\ patch' = [patch EXCEPT ![p] = NoPatch]
    <2>1. uploads'[v].at = "gone"
      BY <1>2, <1>t DEF UploadRec
    <2>2. \A w \in Uploads \ {v} : uploads'[w] = uploads[w] /\ temp'[w] = temp[w]
      BY <1>2, <1>t
    <2> QED  BY <1>2, <1>t, <2>1, <2>2, RequestEnds
  <1>3. CASE /\ n = Length /\ temp[v] # NoFile /\ Len(temp[v]) = Length
             /\ uploads' = [uploads EXCEPT ![v].offset = n] /\ temp' = temp
             /\ patch' = [patch EXCEPT ![p].at = "storing"]
    <2>1. uploads'[v].at = uploads[v].at /\ uploads'[v].offset = n
      BY <1>3, <1>t DEF UploadRec
    <2>2. \A w \in Uploads \ {v} : uploads'[w] = uploads[w] /\ temp'[w] = temp[w]
      BY <1>3, <1>t
    <2>3. patch[p] \in [at : {"draining"}, upload : Uploads, from : Nat, written : Nat]
      BY <1>t, PatchCases DEF Acting
    <2>4. patch'[p].at = "storing" /\ patch'[p].upload = v /\ \A q \in Patches \ {p} : patch'[q] = patch[q]
      BY <1>3, <1>t, <2>3 DEF Acting
    <2> SUFFICES ASSUME NEW u \in Uploads \ raced PROVE IntactUpload(u)'
      BY <1>t DEF IntactInv
    <2>i. IntactUpload(u)
      BY DEF IntactInv
    <2>5. CASE u # v
      <3>1. \A q \in Patches : \/ patch'[q] = patch[q]
                               \/ /\ patch[q].at = "idle" \/ patch[q].upload = v
                                  /\ patch'[q].at = "idle" \/ patch'[q].upload = v
        BY <1>t, <2>4
      <3> QED  BY <1>t, <2>2, <2>5, <2>i, <3>1, OtherUploads
    <2>6. CASE u = v
      <3>1. Acting(u) = {p} /\ Acting(u)' = {p}
        <4>1. OneRequest(v)
          BY <2>6, <2>i DEF IntactUpload
        <4> QED  BY <1>t, <2>4, <2>6, <4>1, Alone
      <3>2. Drained(u, p) /\ StoredFor(u) = {}
        BY <1>t, <2>i, <3>1 DEF IntactUpload, InFlight, StoredOnce
      <3>3. n = patch[p].from + patch[p].written
        BY <1>n, <2>6, <3>2 DEF Drained
      <3>4. PICK k \in 0..n : temp[u] = From(k, n - k)
        BY <1>3, <2>6, <3>2, <3>3 DEF Drained
      <3>5. Len(From(k, n - k)) = n - k /\ n - k \in Nat
        BY <3>4, Bytes
      <3>6. k = 0 /\ n - 0 = n
        BY <1>3, <2>6, <3>4, <3>5
      <3>7. temp[u] = Whole
        BY <1>3, <3>4, <3>6 DEF Whole
      <3>8. Storing(u)'
        BY <1>3, <2>1, <2>6, <3>7 DEF Storing, Whole
      <3>9. StoredFor(u)' = {}
        BY <1>t, <3>2 DEF StoredFor
      <3>10. InFlight(u)'
        BY <2>4, <3>1, <3>8 DEF InFlight
      <3> QED
        BY <2>1, <2>6, <2>i, <3>1, <3>9, <3>10 DEF IntactUpload, OneRequest, NotBegun, AtRest, StoredOnce, Open
    <2> QED  BY <2>5, <2>6
  <1> QED
    BY <1>1, <1>2, <1>3, <1>v, <1>n DEF PatchEnds, _validate_file_signature, SizeMatches

(* Every step of an upload leaves all uploads intact. *)
LEMMA UploadStepIntact == ASSUME TypeInv, TypeInv', IntactInv, UploadStep PROVE IntactInv'
  <1>t. /\ patch \in [Patches -> PatchRec] /\ uploads \in [Uploads -> UploadRec]
        /\ temp \in [Uploads -> Seq(Nat) \cup {NoFile}]
    BY DEF TypeInv, UploadType
  <1>1. ASSUME NEW p \in Patches, PatchStops(p) \/ StoreFails(p) PROVE IntactInv'
    <2>1. PICK v \in Uploads : v = patch[p].upload
      BY <1>1, <1>t, PatchCases DEF PatchStops, StoreFails
    <2>2. CASE PatchStops(p)
      <3>1. PICK n \in Nat : n = uploads[v].offset + patch[p].written
        BY <1>t, <2>1, <2>2, PatchCases DEF PatchStops, UploadRec
      <3>2. /\ uploads' = [uploads EXCEPT ![v].offset = n] /\ temp' = temp
            /\ patch' = [patch EXCEPT ![p] = NoPatch] /\ raced' = raced /\ objects' = objects
            /\ patch[p].at = "draining"
        BY <2>1, <2>2, <3>1 DEF PatchStops, storeVars
      <3>3. uploads'[v].at = uploads[v].at /\ uploads'[v].offset = n
        BY <1>t, <3>2 DEF UploadRec
      <3>4. \A w \in Uploads \ {v} : uploads'[w] = uploads[w] /\ temp'[w] = temp[w]
        BY <1>t, <3>2
      <3> QED  BY <2>1, <3>1, <3>2, <3>3, <3>4, RequestEnds
    <2>3. CASE StoreFails(p)
      <3>1. /\ uploads' = uploads /\ temp' = temp /\ patch[p].at = "storing"
            /\ patch' = [patch EXCEPT ![p] = NoPatch] /\ raced' = raced /\ objects' = objects
        BY <2>3 DEF StoreFails, storeVars
      <3> QED  BY <2>1, <3>1, RequestEnds
    <2> QED  BY <1>1, <2>2, <2>3
  <1>2. ASSUME NEW p \in Patches, NEW ok \in BOOLEAN, _finalize(p, ok) PROVE IntactInv'
    <2>1. PICK v \in Uploads : v = patch[p].upload
      BY <1>2, <1>t, PatchCases DEF _finalize
    <2>2. /\ uploads' = [uploads EXCEPT ![v].at = "gone"] /\ temp' = [temp EXCEPT ![v] = NoFile]
          /\ patch' = [patch EXCEPT ![p] = NoPatch] /\ raced' = raced /\ objects' = objects
          /\ patch[p].at = "inserting"
      BY <1>2, <2>1 DEF _finalize
    <2>3. uploads'[v].at = "gone"
      BY <1>t, <2>2 DEF UploadRec
    <2>4. \A w \in Uploads \ {v} : uploads'[w] = uploads[w] /\ temp'[w] = temp[w]
      BY <1>t, <2>2
    <2> QED  BY <2>1, <2>2, <2>3, <2>4, RequestEnds
  <1> QED
    BY <1>1, <1>2, EntrySteps, PatchBegins, Appends, StoresWhole, PatchEndsIntact DEF UploadStep

(* Jobs store the images they find, and nothing else. *)
LEMMA JobObjects ==
    ASSUME NEW d \in Docs, JobStep(d), objects \in [Docs -> [of : Uploads \cup {0}, bytes : Seq(Nat)] \cup {NoFile}]
    PROVE  \A e \in Docs : objects'[e] \in {objects[e], Image, NoFile}
  <1>1. objects' = objects \/ \E n : objects' = [objects EXCEPT ![n] = Image]
    BY DEF JobStep, process_document, Fails, Fetch, _upload_assets, storeVars,
       _check_user_page_limit, DropChunks, store_chunks, _store_extracted_pages
  <1> QED  BY <1>1

(* Requests store images, and purge files. *)
LEMMA RequestObjects ==
    ASSUME NEW r \in Requests, RequestStep(r), objects \in [Docs -> [of : Uploads \cup {0}, bytes : Seq(Nat)] \cup {NoFile}]
    PROVE  \A e \in Docs : objects'[e] \in {objects[e], Image, NoFile}
  <1>1. CASE PreviewClip(r)
    <2>1. PICK n : objects' = objects \/ objects' = [objects EXCEPT ![n] = Image]
      BY <1>1 DEF PreviewClip
    <2> QED  BY <2>1
  <1>2. CASE _purge_s3(r)
    <2>1. PICK gone \in SUBSET req[r].ids : objects' = [d \in Docs |-> IF d \in gone THEN NoFile ELSE objects[d]]
      BY <1>2 DEF _purge_s3
    <2> QED  BY <2>1
  <1>3. CASE objects' = objects
    BY <1>3
  <1> QED
    BY <1>1, <1>2, <1>3 DEF RequestStep, CheckNote, create_note, create_web_clip, ClipFails, get_highlights,
       replace_highlights, upsert_highlight, delete_highlight, WriteMarks, HighlightRefused, update_content,
       FetchKb, DropChunksOf, StoreChunksOf, update_metadata, BeginDelete, _hard_delete,
       _kb_document_ids, delete_kb, storeVars

(* A restart forgets the uploads and their requests, not what they stored. *)
LEMMA RestartIntact == ASSUME TypeInv, IntactInv, Restart PROVE IntactInv'
  <1>t. uploads \in [Uploads -> UploadRec]
    BY DEF TypeInv, UploadType
  <1>1. /\ \A u \in Uploads : uploads'[u].at = "gone" \/ (uploads'[u] = uploads[u] /\ uploads[u].at = "new")
        /\ \A p \in Patches : patch'[p].at = "idle"
        /\ raced' = raced /\ objects' = objects
    BY <1>t DEF Restart, UploadsLost, NoPatch
  <1> SUFFICES ASSUME NEW u \in Uploads \ raced PROVE IntactUpload(u)'
    BY <1>1 DEF IntactInv
  <1>2. IntactUpload(u) /\ Acting(u)' = {}
    BY <1>1 DEF IntactInv, Acting
  <1>3. StoredFor(u) = {} \/ uploads'[u].at = "gone"
    BY <1>1, <1>2 DEF IntactUpload, StoredOnce, NotBegun
  <1>4. StoredFor(u)' = StoredFor(u)
    BY <1>1 DEF StoredFor
  <1>5. StoredOnce(u)'
    BY <1>1, <1>2, <1>3, <1>4 DEF IntactUpload, StoredOnce
  <1> QED  BY <1>1, <1>2, <1>5 DEF IntactUpload, OneRequest, NotBegun, AtRest, InFlight, Open

(* Every step leaves the uploads intact. *)
LEMMA IntactStep == ASSUME TypeInv, TypeInv', IntactInv, [Next]_vars PROVE IntactInv'
  <1>t. objects \in [Docs -> [of : Uploads \cup {0}, bytes : Seq(Nat)] \cup {NoFile}]
    BY DEF TypeInv, StoreType
  <1>1. CASE UploadStep
    BY <1>1, UploadStepIntact
  <1>2. ASSUME NEW d \in Docs, Extract(d) PROVE IntactInv'
    <2>1. JobStep(d) /\ UNCHANGED uploadVars
      BY <1>2 DEF Extract
    <2>2. \A e \in Docs : objects'[e] \in {objects[e], Image, NoFile}
      BY <1>t, <2>1, JobObjects
    <2> QED  BY <2>1, <2>2, IntactElsewhere
  <1>3. ASSUME NEW r \in Requests, Serve(r) PROVE IntactInv'
    <2>1. RequestStep(r) /\ UNCHANGED uploadVars
      BY <1>3 DEF Serve
    <2>2. \A e \in Docs : objects'[e] \in {objects[e], Image, NoFile}
      BY <1>t, <2>1, RequestObjects
    <2> QED  BY <2>1, <2>2, IntactElsewhere
  <1>4. CASE Restart
    BY <1>4, RestartIntact
  <1>5. CASE UNCHANGED vars
    <2>1. UNCHANGED uploadVars /\ \A e \in Docs : objects'[e] \in {objects[e], Image, NoFile}
      BY <1>5 DEF vars, storeVars
    <2> QED  BY <2>1, IntactElsewhere
  <1> QED  BY <1>1, <1>2, <1>3, <1>4, <1>5 DEF Next

(* No upload has begun, and the files that are there are none of theirs. *)
LEMMA IntactInit == Init => IntactInv
  <1> SUFFICES ASSUME Init, NEW u \in Uploads PROVE IntactUpload(u)
    BY DEF IntactInv
  <1>1. Acting(u) = {} /\ uploads[u].at = "new"
    BY DEF Init, UploadInit, NoPatch, Acting
  <1>2. StoredFor(u) = {}
    <2>1. \A d \in Docs : objects[d] = Image \/ objects[d] = NoFile
      BY DEF Init
    <2>2. Image.of # u
      BY UploadAssumption DEF Image
    <2> QED  BY <2>1, <2>2 DEF StoredFor
  <1> QED  BY <1>1, <1>2 DEF IntactUpload, OneRequest, NotBegun, AtRest, InFlight, StoredOnce, Open

(* An upload becomes at most one document, whose file has the declared bytes in
   their order, however its requests are cut off, retried, overtaken by the
   clean-up, or lost in a restart, as long as no two are in flight together. *)
THEOREM UploadsAreIntact == Spec => []UploadIntact
  <1>1. Init => HighlightInv /\ IntactInv
    BY HighlightInit, IntactInit
  <1>2. HighlightInv /\ IntactInv /\ [Next]_vars => (HighlightInv /\ IntactInv)'
    BY HighlightStep, IntactStep DEF HighlightInv
  <1>3. HighlightInv /\ IntactInv => UploadIntact
    <2> SUFFICES ASSUME HighlightInv, IntactInv, NEW d \in Live, objects[d] # NoFile, objects[d].of \notin raced \cup {0}
                 PROVE  /\ objects[d].bytes = [i \in 1..Length |-> i]
                        /\ \A e \in Live \ {d} : objects[e] = NoFile \/ objects[e].of # objects[d].of
      BY DEF UploadIntact
    <2>1. objects \in [Docs -> [of : Uploads \cup {0}, bytes : Seq(Nat)] \cup {NoFile}]
      BY DEF HighlightInv, TypeInv, StoreType
    <2>2. PICK u \in Uploads \ raced : u = objects[d].of
      BY <2>1
    <2>3. StoredOnce(u)
      BY DEF IntactInv, IntactUpload
    <2>4. d \in StoredFor(u) /\ \A e \in Live : objects[e] # NoFile /\ objects[e].of = u => e \in StoredFor(u)
      BY <2>2 DEF StoredFor
    <2>5. Whole = [i \in 1..Length |-> i]
      BY UploadAssumption DEF Whole, From
    <2> QED  BY <2>2, <2>3, <2>4, <2>5 DEF StoredOnce
  <1> QED  BY <1>1, <1>2, <1>3, PTL DEF Spec

--------------------------------------------------------------------------------
(* Sums over finite sets: PagesUsed is one.                                    *)

\* The sums of f over the subsets of S, as the fold takes them.
IsSum(f, S, g) ==
    g = [s \in SUBSET S |-> IF s = {} THEN 0
                            ELSE f[CHOOSE x \in s : TRUE] + g[s \ {CHOOSE x \in s : TRUE}]]

\* g has the sums of natural numbers f over the subsets of S.
SumsOf(f, S, g) == IsFiniteSet(S) /\ f \in [S -> Nat] /\ g \in [SUBSET S -> Nat] /\ IsSum(f, S, g)

(* Of some subsets of a finite set, one has no other of them below it. *)
LEMMA SmallestSet ==
    ASSUME NEW S, IsFiniteSet(S), NEW Bad \in SUBSET (SUBSET S), Bad # {}
    PROVE  \E s \in Bad : \A x \in s : s \ {x} \notin Bad
  <1>1. PICK s \in Bad : \A t \in Bad : ~(<<t, s>> \in StrictSubsetOrdering(S))
    <2>1. Bad \subseteq FiniteSubsetsOf(S)
      BY FS_FiniteSubsetsOfFinite
    <2> QED  BY <2>1, FS_StrictSubsetOrderingWellFounded, WFMin
  <1>2. ASSUME NEW x \in s, s \ {x} \in Bad PROVE FALSE
    <2>1. <<s \ {x}, s>> \in StrictSubsetOrdering(S)
      BY DEF StrictSubsetOrdering
    <2> QED  BY <1>1, <1>2, <2>1
  <1> QED  BY <1>2

(* What the fold calls the sums is there: it is made from small sets to large. *)
LEMMA SumsThere ==
    ASSUME NEW S, IsFiniteSet(S), NEW f \in [S -> Nat]
    PROVE  \E g : SumsOf(f, S, g)
  <1> DEFINE c(s) == CHOOSE x \in s : TRUE
             Right(g, s) == g[s] = IF s = {} THEN 0 ELSE f[c(s)] + g[s \ {c(s)}]
             Made(k) == \E g \in [SUBSET S -> Nat] : \A s \in SUBSET S : Cardinality(s) <= k => Right(g, s)
             n == Cardinality(S)
             Left == {k \in 0..n : Made(n - k)}
             Gaps == {0..k : k \in Left}
  <1>c. \A s : s # {} => c(s) \in s
    OBVIOUS
  <1>n. n \in Nat /\ \A s \in SUBSET S : Cardinality(s) \in Nat /\ Cardinality(s) <= n
    BY FS_CardinalityType, FS_Subset
  <1>f. \A s \in SUBSET S : s # {} => Cardinality(s \ {c(s)}) = Cardinality(s) - 1
    BY <1>c, FS_RemoveElement, FS_Subset
  <1> HIDE DEF c
  <1>1. Made(0)
    <2>1. \A s \in SUBSET S : Cardinality(s) <= 0 => s = {}
      BY <1>n, FS_Subset, FS_EmptySet
    <2>2. [s \in SUBSET S |-> 0] \in [SUBSET S -> Nat] /\ Right([s \in SUBSET S |-> 0], {})
      OBVIOUS
    <2> HIDE DEF Right
    <2> QED  BY <2>1, <2>2
  <1>2. ASSUME NEW k \in 0..n, k # n, Made(k) PROVE Made(k + 1)
    <2>1. PICK g \in [SUBSET S -> Nat] : \A s \in SUBSET S : Cardinality(s) <= k => Right(g, s)
      BY <1>2
    <2> DEFINE h == [s \in SUBSET S |-> IF Cardinality(s) = k + 1 THEN f[c(s)] + g[s \ {c(s)}] ELSE g[s]]
    <2>2. \A s \in SUBSET S : s # {} => c(s) \in S /\ s \ {c(s)} \in SUBSET S
      BY <1>c
    <2>3. Cardinality({}) = 0
      BY FS_EmptySet
    <2>4. h \in [SUBSET S -> Nat]
      <3> SUFFICES ASSUME NEW s \in SUBSET S, Cardinality(s) = k + 1 PROVE f[c(s)] + g[s \ {c(s)}] \in Nat
        OBVIOUS
      <3>1. s # {}
        BY <2>3, <1>n
      <3>2. f[c(s)] \in Nat /\ g[s \ {c(s)}] \in Nat
        <4> HIDE DEF Right
        <4> QED  BY <3>1, <2>2
      <3> QED  BY <3>2
    <2>5. ASSUME NEW s \in SUBSET S, Cardinality(s) <= k + 1 PROVE Right(h, s)
      <3>1. CASE s = {}
        BY <3>1, <2>1, <2>3
      <3>2. CASE s # {}
        <4>1. h[s \ {c(s)}] = g[s \ {c(s)}]
          BY <3>2, <2>2, <2>5, <1>f, <1>n
        <4>2. CASE Cardinality(s) = k + 1
          BY <4>1, <4>2, <3>2
        <4>3. CASE Cardinality(s) # k + 1
          BY <4>1, <4>3, <3>2, <2>1, <2>5, <1>n
        <4> QED  BY <4>2, <4>3
      <3> QED  BY <3>1, <3>2
    <2> HIDE DEF h, Right
    <2> QED  BY <2>4, <2>5
  <1> HIDE DEF Made
  <1>3. Made(n)
    <2>1. Left # {} /\ \A S1 \in Gaps : IsFiniteSet(S1)
      <3>1. n \in Left
        BY <1>1, <1>n
      <3> QED  BY <3>1, <1>n, FS_Interval
    <2>2. Gaps # {} /\ Gaps \in SUBSET (SUBSET (0..n))
      BY <2>1, <1>n
    <2>3. IsFiniteSet(0..n)
      BY <1>n, FS_Interval
    <2>4. PICK G \in Gaps : \A x \in G : G \ {x} \notin Gaps
      <3> HIDE DEF Gaps
      <3> QED  BY <2>2, <2>3, SmallestSet
    <2>5. PICK k \in Left : G = 0..k
      OBVIOUS
    <2>6. CASE k = 0
      BY <2>6, <1>n
    <2>7. CASE k # 0
      <3>1. n - k \in 0..n /\ n - k # n /\ Made(n - k)
        BY <2>7, <1>n
      <3>2. Made(n - k + 1)
        BY <3>1, <1>2
      <3>3. n - k + 1 = n - (k - 1) /\ k - 1 \in 0..n
        BY <2>7, <1>n
      <3>4. k - 1 \in Left
        BY <3>2, <3>3
      <3>5. (0..k) \ {k} = 0..(k - 1) /\ k \in 0..k
        BY <2>7, <1>n
      <3> QED  BY <3>4, <3>5, <2>4, <2>5
    <2> QED  BY <2>6, <2>7
  <1>4. PICK g \in [SUBSET S -> Nat] : \A s \in SUBSET S : Right(g, s)
    BY <1>3, <1>n DEF Made
  <1>5. IsSum(f, S, g)
    <2>1. g = [s \in SUBSET S |-> g[s]]
      OBVIOUS
    <2> QED  BY <1>4, <2>1 DEF IsSum, c
  <1> QED  BY <1>5 DEF SumsOf

\* A sum takes its elements in any order.
TakesAny(f, S, g) == \A s \in SUBSET S : \A x \in s : g[s] = f[x] + g[s \ {x}]

(* The sums of the fold do, which takes them in one. *)
LEMMA SumsTakeOne ==
    ASSUME NEW S, NEW f, NEW g, SumsOf(f, S, g)
    PROVE  TakesAny(f, S, g)
  <1>0. IsFiniteSet(S) /\ f \in [S -> Nat] /\ g \in [SUBSET S -> Nat] /\ IsSum(f, S, g)
    BY DEF SumsOf
  <1> DEFINE c(t) == CHOOSE y \in t : TRUE
             Bad == {t \in SUBSET S : \E y \in t : g[t] # f[y] + g[t \ {y}]}
  <1>c. \A t : t # {} => c(t) \in t
    OBVIOUS
  <1>g. \A t \in SUBSET S : t # {} => g[t] = f[c(t)] + g[t \ {c(t)}]
    BY <1>0 DEF IsSum
  <1> HIDE DEF c
  <1> SUFFICES ASSUME Bad # {} PROVE FALSE
    BY DEF TakesAny
  <1>1. PICK t \in Bad : \A y \in t : t \ {y} \notin Bad
    <2>1. Bad \in SUBSET (SUBSET S)
      OBVIOUS
    <2> HIDE DEF Bad
    <2> QED  BY <1>0, <2>1, SmallestSet
  <1>2. PICK y \in t : g[t] # f[y] + g[t \ {y}]
    OBVIOUS
  <1> DEFINE z == c(t)
  <1>3. t \in SUBSET S /\ z \in t /\ g[t] = f[z] + g[t \ {z}] /\ z # y
    BY <1>2, <1>c, <1>g
  <1> HIDE DEF z
  <1>4. g[t \ {z}] = f[y] + g[(t \ {z}) \ {y}] /\ g[t \ {y}] = f[z] + g[(t \ {y}) \ {z}]
    BY <1>1, <1>3
  <1>5. (t \ {z}) \ {y} = (t \ {y}) \ {z}
    OBVIOUS
  <1>6. f[y] \in Nat /\ f[z] \in Nat /\ g[(t \ {y}) \ {z}] \in Nat
    BY <1>0, <1>3
  <1> HIDE DEF Bad
  <1>7. g[t] = f[y] + g[t \ {y}]
    <2>1. g[t] = f[z] + (f[y] + g[(t \ {y}) \ {z}])
      BY <1>3, <1>4, <1>5
    <2>2. f[y] + g[t \ {y}] = f[y] + (f[z] + g[(t \ {y}) \ {z}])
      BY <1>4
    <2>3. \A i, j, k \in Nat : i + (j + k) = j + (i + k)
      OBVIOUS
    <2> QED  BY <1>6, <2>1, <2>2, <2>3
  <1> QED  BY <1>2, <1>7

\* Of what w counts, f counts all: the rest is 0.
LeavesOut(w, S, f, T) == \A x \in S : w[x] = IF x \in T THEN f[x] ELSE 0

(* What counts nothing can be left out of a sum. *)
LEMMA SumsLeaveOut ==
    ASSUME NEW S, NEW T \in SUBSET S, NEW f, NEW g, SumsOf(f, T, g), NEW w, NEW h, SumsOf(w, S, h),
           LeavesOut(w, S, f, T)
    PROVE  h[S] = g[T]
  <1>0. IsFiniteSet(S) /\ w \in [S -> Nat] /\ h \in [SUBSET S -> Nat] /\ IsSum(w, S, h)
    BY DEF SumsOf
  <1>T. IsFiniteSet(T) /\ f \in [T -> Nat] /\ g \in [SUBSET T -> Nat] /\ IsSum(f, T, g)
    BY DEF SumsOf
  <1> DEFINE Bad == {s \in SUBSET S : h[s] # g[s \cap T]}
  <1>h. TakesAny(w, S, h)
    BY SumsTakeOne
  <1>g. TakesAny(f, T, g)
    BY SumsTakeOne
  <1>w. \A x \in S : w[x] = IF x \in T THEN f[x] ELSE 0
    BY DEF LeavesOut
  <1>1. CASE Bad = {}
    <2>1. S \cap T = T
      OBVIOUS
    <2> QED  BY <1>1, <2>1
  <1>2. CASE Bad # {}
    <2>1. PICK s \in Bad : \A x \in s : s \ {x} \notin Bad
      <3>1. Bad \in SUBSET (SUBSET S)
        OBVIOUS
      <3> HIDE DEF Bad
      <3> QED  BY <1>0, <3>1, <1>2, SmallestSet
    <2>2. s # {}
      BY <1>0, <1>T DEF IsSum
    <2>3. PICK x \in s : TRUE
      BY <2>2
    <2>f. s \in SUBSET S /\ h[s] # g[s \cap T]
      OBVIOUS
    <2>4. h[s] = w[x] + h[s \ {x}]
      BY <1>h DEF TakesAny
    <2>5. h[s \ {x}] = g[(s \ {x}) \cap T]
      BY <2>1
    <2>6. CASE x \in T
      <3>1. (s \ {x}) \cap T = (s \cap T) \ {x} /\ x \in s \cap T /\ s \cap T \in SUBSET T
        BY <2>6
      <3>2. g[s \cap T] = f[x] + g[(s \cap T) \ {x}]
        BY <3>1, <1>g DEF TakesAny
      <3> QED  BY <2>4, <2>5, <2>6, <1>w, <3>1, <3>2
    <2>7. CASE x \notin T
      <3>1. (s \ {x}) \cap T = s \cap T /\ s \cap T \in SUBSET T /\ w[x] = 0
        BY <2>7, <1>w
      <3>2. g[s \cap T] \in Nat
        BY <1>T, <3>1
      <3>3. h[s \ {x}] = g[s \cap T]
        BY <2>5, <3>1
      <3>4. h[s] = 0 + g[s \cap T]
        BY <2>4, <3>1, <3>3
      <3> HIDE DEF Bad
      <3> QED  BY <2>f, <3>2, <3>4
    <2> QED  BY <2>6, <2>7
  <1> QED  BY <1>1, <1>2

(* When one element counts up to n more and no other counts more, the sum is
   up to n more. *)
LEMMA SumsCompare ==
    ASSUME NEW S, NEW v, NEW g, SumsOf(v, S, g), NEW w, NEW h, SumsOf(w, S, h), NEW n \in Nat, NEW d,
           \A x \in S : w[x] <= v[x] \/ (x = d /\ w[x] <= n)
    PROVE  h[S] <= g[S] + n
  <1>0. /\ IsFiniteSet(S) /\ v \in [S -> Nat] /\ g \in [SUBSET S -> Nat] /\ IsSum(v, S, g)
        /\ w \in [S -> Nat] /\ h \in [SUBSET S -> Nat] /\ IsSum(w, S, h)
    BY DEF SumsOf
  <1> DEFINE more(s) == IF d \in s THEN n ELSE 0
             Bad == {s \in SUBSET S : ~(h[s] <= g[s] + more(s))}
  <1>1. CASE Bad = {}
    <2>1. h[S] \in Nat /\ g[S] \in Nat /\ h[S] <= g[S] + more(S)
      BY <1>0, <1>1
    <2> QED  BY <2>1
  <1>2. CASE Bad # {}
    <2>1. PICK s \in Bad : \A x \in s : s \ {x} \notin Bad
      <3>1. Bad \in SUBSET (SUBSET S)
        OBVIOUS
      <3> HIDE DEF Bad
      <3> QED  BY <1>0, <3>1, <1>2, SmallestSet
    <2>2. s # {}
      BY <1>0 DEF IsSum
    <2>3. PICK x \in s : TRUE
      BY <2>2
    <2>4. h[s] = w[x] + h[s \ {x}] /\ g[s] = v[x] + g[s \ {x}]
      <3>1. TakesAny(w, S, h) /\ TakesAny(v, S, g)
        BY SumsTakeOne
      <3> QED  BY <3>1 DEF TakesAny
    <2>5. h[s \ {x}] <= g[s \ {x}] + more(s \ {x})
      BY <2>1
    <2>6. w[x] <= v[x] \/ (x = d /\ w[x] <= n)
      OBVIOUS
    <2>7. x # d => more(s \ {x}) = more(s)
      OBVIOUS
    <2>8. x = d => more(s \ {x}) = 0 /\ more(s) = n
      OBVIOUS
    <2>9. w[x] \in Nat /\ v[x] \in Nat /\ h[s \ {x}] \in Nat /\ g[s \ {x}] \in Nat /\ more(s) \in Nat
      BY <1>0
    <2>10. ~(h[s] <= g[s] + more(s))
      OBVIOUS
    <2> HIDE DEF more, Bad
    <2> QED  BY <2>4, <2>5, <2>6, <2>7, <2>8, <2>9, <2>10
  <1> QED  BY <1>1, <1>2

(* Where nothing counts the sum is 0. *)
LEMMA SumsOfNothing ==
    ASSUME NEW S, NEW f, NEW g, SumsOf(f, S, g), \A x \in S : f[x] = 0
    PROVE  g[S] = 0
  <1>0. IsFiniteSet(S) /\ f \in [S -> Nat] /\ g \in [SUBSET S -> Nat] /\ IsSum(f, S, g)
    BY DEF SumsOf
  <1> DEFINE Bad == {s \in SUBSET S : g[s] # 0}
  <1> SUFFICES ASSUME Bad # {} PROVE FALSE
    OBVIOUS
  <1>1. PICK s \in Bad : \A x \in s : s \ {x} \notin Bad
    <2>1. Bad \in SUBSET (SUBSET S)
      OBVIOUS
    <2> HIDE DEF Bad
    <2> QED  BY <1>0, <2>1, SmallestSet
  <1>2. s # {}
    BY <1>0 DEF IsSum
  <1>3. PICK x \in s : TRUE
    BY <1>2
  <1>4. g[s] = f[x] + g[s \ {x}]
    BY SumsTakeOne DEF TakesAny
  <1> QED  BY <1>0, <1>1, <1>4

(* There is one function of sums, so what the fold chooses has natural numbers. *)
LEMMA SumsAreNumbers ==
    ASSUME NEW S, IsFiniteSet(S), NEW f \in [S -> Nat], NEW g, IsSum(f, S, g)
    PROVE  SumsOf(f, S, g)
  <1> DEFINE c(s) == CHOOSE x \in s : TRUE
  <1>c. \A s : s # {} => c(s) \in s
    OBVIOUS
  <1>1. PICK h : h \in [SUBSET S -> Nat] /\ IsSum(f, S, h)
    BY SumsThere DEF SumsOf
  <1>2. /\ g = [s \in SUBSET S |-> g[s]] /\ h = [s \in SUBSET S |-> h[s]]
        /\ \A s \in SUBSET S : g[s] = IF s = {} THEN 0 ELSE f[c(s)] + g[s \ {c(s)}]
        /\ \A s \in SUBSET S : h[s] = IF s = {} THEN 0 ELSE f[c(s)] + h[s \ {c(s)}]
    BY <1>1 DEF IsSum
  <1> HIDE DEF c
  <1> DEFINE Bad == {s \in SUBSET S : g[s] # h[s]}
  <1>3. Bad = {}
    <2> SUFFICES ASSUME Bad # {} PROVE FALSE
      OBVIOUS
    <2>1. PICK s \in Bad : \A x \in s : s \ {x} \notin Bad
      <3>1. Bad \in SUBSET (SUBSET S)
        OBVIOUS
      <3> HIDE DEF Bad
      <3> QED  BY <3>1, SmallestSet
    <2>2. CASE s = {}
      BY <2>2, <1>2
    <2>3. CASE s # {}
      <3>1. c(s) \in s /\ s \ {c(s)} \in SUBSET S
        BY <2>3, <1>c
      <3>2. g[s \ {c(s)}] = h[s \ {c(s)}]
        BY <2>1, <3>1
      <3> QED  BY <2>3, <3>2, <1>2
    <2> QED  BY <2>2, <2>3
  <1> QED  BY <1>1, <1>2, <1>3 DEF SumsOf

--------------------------------------------------------------------------------
(* The page limit.  A job compares the pages under the lock and keeps the lock *)
(* until it has committed; nothing else makes the pages more.                  *)

Weigh(row) == IF row = NoDoc THEN 0 ELSE IF row.archived THEN 0 ELSE row.pages

QuotaInv ==
    /\ PagesUsed <= PageLimit
    /\ \A d \in Docs : jobs[d].at = "checked" => locked = d /\ PagesUsed + jobs[d].pages <= PageLimit

\* What a step that is not the commit of a job does to the pages of a row: it goes,
\* comes without pages, or stays as it was or is archived.
Lighter(new, old) ==
    \/ new = NoDoc \/ new.pages = 0
    \/ old # NoDoc /\ new.pages = old.pages /\ (old.archived => new.archived)
PagesKept == \A x \in Docs : Lighter(docs'[x], docs[x])

\* What PagesUsed is of rows D: a lemma about it is about docs and docs'.
LiveIn(D) == {d \in Docs : D[d] # NoDoc}
PagesIn(D) == MapThenSumSet(LAMBDA d : D[d].pages, {d \in LiveIn(D) : ~D[d].archived})

(* The pages used are the sum of what each row counts. *)
LEMMA PagesAreWeighed ==
    ASSUME NEW D \in [Docs -> Row \cup {NoDoc}]
    PROVE  \E h : SumsOf([x \in Docs |-> Weigh(D[x])], Docs, h) /\ PagesIn(D) = h[Docs]
  <1> DEFINE Counted == {d \in LiveIn(D) : ~D[d].archived}
             f == [x \in Counted |-> D[x].pages]
             w == [x \in Docs |-> Weigh(D[x])]
             g == CHOOSE g : g = [s \in SUBSET Counted |-> IF s = {} THEN 0 ELSE
                        D[CHOOSE x \in s : TRUE].pages + g[s \ {CHOOSE x \in s : TRUE}]]
  <1>0. IsFiniteSet(Docs)
    BY FS_Interval, StoreAssumption
  <1>1. Counted \in SUBSET Docs
    BY DEF LiveIn
  <1>2. IsFiniteSet(Counted)
    BY <1>0, <1>1, FS_Subset
  <1>r. \A x \in Docs : D[x] # NoDoc => D[x] \in Row /\ D[x].pages \in Nat
    BY DEF Row
  <1>3. f \in [Counted -> Nat] /\ w \in [Docs -> Nat]
    <2>1. \A x \in Docs : Weigh(D[x]) \in Nat
      BY <1>r DEF Weigh, LiveIn
    <2>2. \A x \in Counted : D[x].pages \in Nat
      BY <1>r DEF LiveIn
    <2> HIDE DEF Counted
    <2> QED  BY <2>1, <2>2
  <1>4. LeavesOut(w, Docs, f, Counted)
    <2>1. \A x \in Docs : Weigh(D[x]) = IF x \in Counted THEN f[x] ELSE 0
      BY <1>r DEF Weigh, LiveIn
    <2> HIDE DEF f, Counted
    <2> QED  BY <2>1 DEF LeavesOut
  <1>5. PagesIn(D) = g[Counted]
    BY DEF PagesIn, MapThenSumSet, MapThenFoldSet, LiveIn
  <1>6. \A k : k = [s \in SUBSET Counted |-> IF s = {} THEN 0 ELSE
                        D[CHOOSE x \in s : TRUE].pages + k[s \ {CHOOSE x \in s : TRUE}]]
               <=> IsSum(f, Counted, k)
    <2>1. \A s \in SUBSET Counted : s # {} => f[CHOOSE x \in s : TRUE] = D[CHOOSE x \in s : TRUE].pages
      OBVIOUS
    <2> QED  BY <2>1 DEF IsSum
  <1>7. PICK k : IsSum(f, Counted, k)
    <2>1. \E k : SumsOf(f, Counted, k)
      <3> HIDE DEF f, Counted
      <3> QED  BY <1>2, <1>3, SumsThere
    <2> QED  BY <2>1 DEF SumsOf
  <1>8. IsSum(f, Counted, g)
    <2>1. \E m : m = [s \in SUBSET Counted |-> IF s = {} THEN 0 ELSE
                        D[CHOOSE x \in s : TRUE].pages + m[s \ {CHOOSE x \in s : TRUE}]]
      <3>1. k = [s \in SUBSET Counted |-> IF s = {} THEN 0 ELSE
                        D[CHOOSE x \in s : TRUE].pages + k[s \ {CHOOSE x \in s : TRUE}]]
        <4> HIDE DEF f, Counted
        <4> QED  BY <1>6, <1>7
      <3> HIDE DEF f, Counted
      <3> QED  BY <3>1
    <2>2. g = [s \in SUBSET Counted |-> IF s = {} THEN 0 ELSE
                        D[CHOOSE x \in s : TRUE].pages + g[s \ {CHOOSE x \in s : TRUE}]]
      BY <2>1
    <2> QED  BY <1>6, <2>2
  <1> HIDE DEF f, g, w, Counted
  <1>9. SumsOf(f, Counted, g)
    BY <1>2, <1>3, <1>8, SumsAreNumbers
  <1>10. PICK h : SumsOf(w, Docs, h)
    BY <1>0, <1>3, SumsThere
  <1>11. h[Docs] = g[Counted]
    <2> HIDE DEF Docs
    <2> QED  BY <1>1, <1>4, <1>9, <1>10, SumsLeaveOut
  <1> QED  BY <1>5, <1>10, <1>11 DEF w

(* A step keeps the pages, but for one row that may get up to n. *)
LEMMA PagesGrow ==
    ASSUME docs \in [Docs -> Row \cup {NoDoc}], docs' \in [Docs -> Row \cup {NoDoc}], NEW n \in Nat, NEW d,
           \A x \in Docs : Lighter(docs'[x], docs[x]) \/ (x = d /\ docs'[x].pages = n)
    PROVE  PagesUsed \in Nat /\ PagesUsed' \in Nat /\ PagesUsed' <= PagesUsed + n
  <1>1. PagesUsed = PagesIn(docs) /\ PagesUsed' = PagesIn(docs')
    BY DEF PagesUsed, PagesIn, LiveIn, MapThenSumSet, MapThenFoldSet
  <1> DEFINE v == [x \in Docs |-> Weigh(docs[x])]
             w == [x \in Docs |-> Weigh(docs'[x])]
  <1>2. PICK g : SumsOf(v, Docs, g) /\ PagesUsed = g[Docs]
    BY <1>1, PagesAreWeighed
  <1>3. PICK h : SumsOf(w, Docs, h) /\ PagesUsed' = h[Docs]
    BY <1>1, PagesAreWeighed
  <1>4. ASSUME NEW x \in Docs PROVE w[x] <= v[x] \/ (x = d /\ w[x] <= n)
    <2>1. /\ docs[x] # NoDoc => docs[x].pages \in Nat /\ docs[x].archived \in BOOLEAN
          /\ docs'[x] # NoDoc => docs'[x].pages \in Nat /\ docs'[x].archived \in BOOLEAN
      BY DEF Row
    <2> QED  BY <2>1 DEF Lighter, Weigh
  <1>5. g[Docs] \in Nat /\ h[Docs] \in Nat
    BY <1>2, <1>3 DEF SumsOf
  <1>6. h[Docs] <= g[Docs] + n
    <2> HIDE DEF v, w, Docs
    <2> QED  BY <1>2, <1>3, <1>4, SumsCompare
  <1> QED  BY <1>2, <1>3, <1>5, <1>6

(* A request leaves the pages of a row as they are. *)
LEMMA RequestPages ==
    ASSUME TypeInv, IdsInv, NEW r \in Requests, RequestStep(r)
    PROVE  PagesKept
  <1> DEFINE Q == req[r]
  <1>t. /\ Q \in ReqRec /\ req \in [Requests -> ReqRec] /\ born \in Nat
        /\ docs \in [Docs -> Row \cup {NoDoc}] /\ Kbs # {}
    BY IdTypes, StoreAssumption DEF TypeInv, StoreType
  <1>r. \A d \in Docs : Exists(d) => docs[d] \in Row
    BY <1>t
  <1>0. CASE docs' = docs
    BY <1>0 DEF PagesKept, Lighter
  <1>1. CASE create_note(r)
    <2>1. born + 1 \in Docs
      BY <1>1, <1>t, StoreAssumption DEF create_note
    <2>2. PICK t \in Texts :
            docs' = [docs EXCEPT ![born + 1] =
                          [File(Q.kb) EXCEPT !.kind = "note", !.status = "ready", !.text = t]]
      BY <1>1 DEF create_note
    <2>3. docs'[born + 1].pages = 0 /\ \A d \in Docs \ {born + 1} : docs'[d] = docs[d]
      BY <1>t, <2>1, <2>2 DEF File
    <2> QED  BY <2>1, <2>3 DEF PagesKept, Lighter
  <1>2. CASE create_web_clip(r)
    <2>1. Q.kb \in Kbs /\ Q.parent \in Docs /\ Q.image \in Docs \cup {0} /\ Q.at = "clip"
      BY <1>2, <1>t, ReqCases DEF create_web_clip
    <2>2. SameUrl(r) \subseteq Live
      BY <2>1 DEF SameUrl, Clips
    <2> DEFINE found == SameUrl(r)
               d == IF found = {} THEN Q.parent ELSE CHOOSE x \in found : TRUE
               old == IF found = {} THEN NoMarks ELSE docs[d].marks
               dropped == IF found = {} THEN {} ELSE AssetsOf({d})
               mix(new) == _merge_highlights_by_id(old, new)
               row(m) == IF found = {}
                         THEN [File(Q.kb) EXCEPT !.kind = "clip", !.status = "ready", !.text = Q.text, !.marks = m]
                         ELSE [docs[d] EXCEPT !.status = "ready", !.text = Q.text, !.marks = m, !.version = Bumped(d)]
    <2>3. PICK new \in Marks :
            docs' = [x \in Docs |-> IF x = d THEN row(mix(new)) ELSE IF x = Q.image THEN Asset(d, Q.kb)
                                       ELSE IF x \in dropped THEN NoDoc ELSE docs[x]]
      BY <1>2 DEF create_web_clip
    <2>4. d \in Docs /\ (found # {} => d \in Live /\ docs[d] \in Row)
      BY <1>t, <2>1, <2>2 DEF SameUrl
    <2>5. \A m : found = {} => row(m).pages = 0
      BY DEF File
    <2>6. \A m : found # {} => row(m).pages = docs[d].pages /\ row(m).archived = docs[d].archived
      BY <2>4 DEF Row
    <2>7. Asset(d, Q.kb).pages = 0
      BY DEF Asset, File
    <2> HIDE DEF d, old, dropped, mix, row, found
    <2>8. docs'[d] = row(mix(new))
      BY <2>3, <2>4
    <2>9. \A x \in Docs : x # d =>
              docs'[x] = NoDoc \/ docs'[x] = Asset(d, Q.kb) \/ docs'[x] = docs[x]
      BY <2>3
    <2>10. Lighter(docs'[d], docs[d])
      BY <2>4, <2>5, <2>6, <2>8 DEF Lighter
    <2>11. ASSUME NEW x \in Docs, x # d PROVE Lighter(docs'[x], docs[x])
      BY <2>7, <2>9, <2>11 DEF Lighter
    <2> QED  BY <2>10, <2>11 DEF PagesKept
  <1>3. CASE replace_highlights(r) \/ upsert_highlight(r) \/ delete_highlight(r)
    <2>1. PICK new : WriteMarks(r, new) /\ Exists(Q.doc) /\ Q.at = "mark"
      BY <1>3 DEF replace_highlights, upsert_highlight, delete_highlight, MayWrite
    <2>2. Q.doc \in Docs
      BY <1>t, <2>1, ReqCases
    <2> QED  BY <1>t, <1>r, <2>1, <2>2 DEF WriteMarks, PagesKept, Lighter, Row
  <1>4. CASE update_content(r)
    BY <1>4, <1>t, <1>r DEF update_content, PagesKept, Lighter, Row
  <1>5. CASE update_metadata(r)
    BY <1>5, <1>t, <1>r DEF update_metadata, Begins, PagesKept, Lighter, Row
  <1>6. CASE BeginDelete(r)
    <2>1. PICK d \in Live : docs' = [docs EXCEPT ![d].archived = TRUE] \/ docs' = docs
      BY <1>6 DEF BeginDelete
    <2> DEFINE w == [docs[d] EXCEPT !.archived = TRUE]
    <2>2. w.pages = docs[d].pages /\ w.archived = TRUE
      BY <1>r DEF Row
    <2>3. docs' = [docs EXCEPT ![d] = w] \/ docs' = docs
      BY <2>1
    <2> HIDE DEF w
    <2> QED  BY <1>t, <2>2, <2>3 DEF PagesKept, Lighter
  <1>7. CASE _hard_delete(r) \/ delete_kb(r)
    BY <1>7, <1>t DEF _hard_delete, Remove, delete_kb, PagesKept, Lighter
  <1> QED
    BY <1>0, <1>1, <1>2, <1>3, <1>4, <1>5, <1>6, <1>7
       DEF RequestStep, CheckNote, PreviewClip, ClipFails, get_highlights, HighlightRefused, FetchKb,
           DropChunksOf, StoreChunksOf, _purge_s3, _kb_document_ids, storeVars

(* So does an upload, whose row comes without pages. *)
LEMMA UploadPages ==
    ASSUME TypeInv, IdsInv, UploadStep
    PROVE  PagesKept
  <1>t. patch \in [Patches -> PatchRec] /\ docs \in [Docs -> Row \cup {NoDoc}]
    BY DEF TypeInv, StoreType, UploadType
  <1>0. CASE docs' = docs
    BY <1>0 DEF PagesKept, Lighter
  <1>1. ASSUME NEW p \in Patches, NEW ok \in BOOLEAN, _finalize(p, ok) PROVE PagesKept
    <2>1. patch[p].doc \in Docs
      BY <1>1, <1>t, PatchCases DEF _finalize
    <2>2. File(uploads[patch[p].upload].kb).pages = 0
      BY DEF File
    <2> QED  BY <1>1, <1>t, <2>1, <2>2 DEF _finalize, PagesKept, Lighter
  <1> QED
    BY <1>0, <1>1 DEF UploadStep, ReadUsage, tus_create, cleanup_stale_uploads, tus_patch, _append_file,
       PatchStops, PatchEnds, StoreFile, StoreFails, storeVars

(* A commit gives its document the pages that were compared, and no other any. *)
LEMMA CommitPages ==
    ASSUME TypeInv, IdsInv, NEW d \in Docs, _store_extracted_pages(d), Exists(d)
    PROVE  \A x \in Docs : Lighter(docs'[x], docs[x]) \/ (x = d /\ docs'[x].pages = jobs[d].pages)
  <1> DEFINE J == jobs[d]
  <1>t. born \in Nat /\ docs \in [Docs -> Row \cup {NoDoc}] /\ Docs \subseteq Nat /\ docs[d] \in Row
    BY IdTypes DEF TypeInv, StoreType
  <1> DEFINE old == IF FormatOf[d] = "pdf" THEN ImagesOf(d) ELSE {}
             text == IF FormatOf[d] = "image" THEN docs[d].text
                     ELSE IF J.pages = 0 THEN 0 ELSE FileText
             kept == [x \in Docs |-> IF x \in old THEN NoDoc ELSE docs[x]]
             paged == [kept EXCEPT ![d].status = "ready", ![d].text = text, ![d].pages = J.pages]
  <1>1. PICK img \in {0, 1} :
            /\ born + img <= MaxDocs
            /\ docs' = IF img = 0 THEN paged ELSE [paged EXCEPT ![born + img] = Asset(d, J.kb)]
    BY DEF _store_extracted_pages, _build_pdf_assets
  <1>2. d \notin old
    BY DEF ImagesOf
  <1>3. /\ \A x \in Docs \ {d} : paged[x] = kept[x]
        /\ paged[d] = [docs[d] EXCEPT !.status = "ready", !.text = text, !.pages = J.pages]
        /\ paged = [x \in Docs |-> paged[x]]
    BY <1>2
  <1>4. \A x \in Docs \ {d} : kept[x] = NoDoc \/ kept[x] = docs[x]
    OBVIOUS
  <1>5. paged[d].pages = J.pages
    <2> HIDE DEF paged, text
    <2> QED  BY <1>t, <1>3 DEF Row
  <1>6. \A x \in Docs : docs'[x] = IF img = 1 /\ x = born + 1 THEN Asset(d, J.kb) ELSE paged[x]
    <2> HIDE DEF paged
    <2> QED  BY <1>1, <1>3
  <1> HIDE DEF old, text, kept, paged
  <1>7. Asset(d, J.kb).pages = 0
    BY DEF Asset, File
  <1>8. ASSUME NEW x \in Docs, x # d PROVE Lighter(docs'[x], docs[x])
    BY <1>3, <1>4, <1>6, <1>7, <1>8 DEF Lighter
  <1>9. Lighter(docs'[d], docs[d]) \/ docs'[d].pages = J.pages
    BY <1>5, <1>6, <1>7 DEF Lighter
  <1> SUFFICES ASSUME NEW x \in Docs
               PROVE  Lighter(docs'[x], docs[x]) \/ (x = d /\ docs'[x].pages = J.pages)
    OBVIOUS
  <1>10. CASE x = d
    BY <1>9, <1>10 DEF Lighter
  <1>11. CASE x # d
    BY <1>8, <1>11 DEF Lighter
  <1> QED  BY <1>10, <1>11

(* No other step makes the pages more, and the job that has the lock has it for
   what it compared. *)
LEMMA QuotaStep == ASSUME HighlightInv, HighlightInv', QuotaInv, [Next]_vars PROVE QuotaInv'
  <1>t. /\ TypeInv /\ IdsInv /\ docs \in [Docs -> Row \cup {NoDoc}] /\ docs' \in [Docs -> Row \cup {NoDoc}]
        /\ jobs \in [Docs -> JobRec] /\ PageLimit \in Nat /\ \A d \in Docs : d # 0
    BY StoreAssumption DEF HighlightInv, TypeInv, StoreType
  <1>k. ASSUME PagesKept PROVE PagesUsed \in Nat /\ PagesUsed' \in Nat /\ PagesUsed' <= PagesUsed
    <2>1. PagesUsed \in Nat /\ PagesUsed' \in Nat /\ PagesUsed' <= PagesUsed + 0
      <3>1. \A x \in Docs : Lighter(docs'[x], docs[x]) \/ (x = 0 /\ docs'[x].pages = 0)
        BY <1>k DEF PagesKept
      <3> HIDE DEF Docs
      <3> QED  BY <1>t, <3>1, PagesGrow
    <2> QED  BY <2>1
  <1>p. \A d \in Docs : jobs[d].at = "checked" => jobs[d].pages \in Nat
    BY <1>t, JobCases
  <1>1. ASSUME PagesKept, \A d \in Docs : jobs'[d].at = "checked" => jobs'[d] = jobs[d] /\ locked' = locked
        PROVE  QuotaInv'
    <2>1. PagesUsed' <= PageLimit
      BY <1>1, <1>k, <1>t DEF QuotaInv
    <2>2. ASSUME NEW d \in Docs, jobs'[d].at = "checked"
          PROVE  locked' = d /\ PagesUsed' + jobs'[d].pages <= PageLimit
      <3>1. jobs[d].at = "checked" /\ locked' = d /\ PagesUsed + jobs[d].pages <= PageLimit /\ jobs'[d] = jobs[d]
        BY <1>1, <2>2 DEF QuotaInv
      <3> QED  BY <3>1, <1>1, <1>k, <1>p, <1>t
    <2> QED  BY <2>1, <2>2 DEF QuotaInv
  <1>0. ASSUME docs' = docs PROVE PagesKept
    BY <1>0 DEF PagesKept, Lighter
  <1>2. CASE UploadStep
    <2>0. jobs' = jobs \/ \E p \in Patches : jobs' = [jobs EXCEPT ![patch[p].doc] = [at |-> "waiting"]]
      BY <1>2 DEF UploadStep, ReadUsage, tus_create, cleanup_stale_uploads, tus_patch, _append_file,
         PatchStops, PatchEnds, StoreFile, StoreFails, _finalize
    <2>1. \A d \in Docs : jobs'[d].at = "checked" => jobs'[d] = jobs[d]
      <3>1. CASE jobs' = jobs
        BY <3>1
      <3>2. ASSUME NEW p \in Patches, jobs' = [jobs EXCEPT ![patch[p].doc] = [at |-> "waiting"]]
            PROVE  \A d \in Docs : jobs'[d].at = "checked" => jobs'[d] = jobs[d]
        BY <3>2, <1>t
      <3> QED  BY <2>0, <3>1, <3>2
    <2>2. locked' = locked
      BY <1>2 DEF UploadStep, ReadUsage, tus_create, cleanup_stale_uploads, tus_patch, _append_file,
         PatchStops, PatchEnds, StoreFile, StoreFails, _finalize, storeVars
    <2> QED  BY <2>1, <2>2, <1>1, <1>2, <1>t, UploadPages
  <1>3. ASSUME NEW r \in Requests, Serve(r) PROVE QuotaInv'
    <2>1. jobs' = jobs /\ RequestStep(r)
      BY <1>3 DEF Serve
    <2>2. locked' = locked
      BY <2>1 DEF RequestStep, CheckNote, create_note, PreviewClip, create_web_clip, ClipFails, get_highlights,
         replace_highlights, upsert_highlight, delete_highlight, WriteMarks, HighlightRefused, update_content,
         FetchKb, DropChunksOf, StoreChunksOf, update_metadata, BeginDelete, _hard_delete, _purge_s3,
         _kb_document_ids, delete_kb, storeVars
    <2> QED  BY <2>1, <2>2, <1>1, <1>t, RequestPages
  <1>4. CASE Restart
    BY <1>4, <1>1, <1>0, <1>t DEF Restart, JobsRecovered, NoJob
  <1>5. CASE UNCHANGED vars
    BY <1>5, <1>1, <1>0 DEF vars, storeVars
  <1>6. ASSUME NEW d \in Docs, Extract(d) PROVE QuotaInv'
    <2>s. ASSUME NEW s, SetStatus(d, s) PROVE PagesKept
      BY <2>s, <1>t DEF SetStatus, PagesKept, Lighter, Row
    <2>o. ASSUME PagesKept, \A e \in Docs \ {d} : jobs'[e] = jobs[e], jobs'[d].at # "checked",
                 locked' = locked \/ (locked = d /\ locked' = 0)
          PROVE  QuotaInv'
      <3>1. \A e \in Docs : jobs'[e].at = "checked" => e # d /\ jobs[e].at = "checked" /\ jobs'[e] = jobs[e]
        BY <2>o
      <3>2. \A e \in Docs : jobs'[e].at = "checked" => jobs'[e] = jobs[e] /\ locked' = e /\ PagesUsed + jobs[e].pages <= PageLimit
        BY <2>o, <3>1 DEF QuotaInv
      <3> QED  BY <2>o, <3>1, <3>2, <1>k, <1>p, <1>t DEF QuotaInv
    <2>1. CASE process_document(d)
      <3>1. /\ \A e \in Docs \ {d} : jobs'[e] = jobs[e]
            /\ jobs'[d].at # "checked" /\ locked' = locked
        BY <2>1, <1>t DEF process_document, NoJob
      <3> QED  BY <2>1, <3>1, <2>s, <2>o DEF process_document
    <2>2. CASE Fails(d)
      <3>1. /\ \A e \in Docs \ {d} : jobs'[e] = jobs[e]
            /\ jobs'[d].at # "checked"
            /\ \/ locked' = locked \/ (locked = d /\ locked' = 0)
        BY <2>2, <1>t DEF Fails, NoJob
      <3> QED  BY <2>2, <3>1, <2>s, <2>o DEF Fails
    <2>3. CASE Fetch(d)
      <3>1. /\ \A e \in Docs \ {d} : jobs'[e] = jobs[e]
            /\ jobs'[d].at # "checked" /\ locked' = locked /\ docs' = docs
        BY <2>3, <1>t, JobCases DEF Fetch, Goto, storeVars
      <3> QED  BY <3>1, <1>0, <2>o
    <2>4. CASE _check_user_page_limit(d)
      <3> PICK n \in Extraction(d) :
             IF PagesUsed + n > PageLimit
             THEN SetStatus(d, "failed") /\ jobs' = [jobs EXCEPT ![d] = NoJob] /\ UNCHANGED locked
             ELSE /\ locked' = d
                  /\ jobs' = [jobs EXCEPT ![d] = [at |-> "checked", kb |-> jobs[d].kb, pages |-> n]]
                  /\ UNCHANGED docs
        BY <2>4 DEF _check_user_page_limit
      <3>1. CASE PagesUsed + n > PageLimit
        <4>1. /\ \A e \in Docs \ {d} : jobs'[e] = jobs[e]
              /\ jobs'[d].at # "checked" /\ locked' = locked
          BY <3>1, <1>t DEF NoJob
        <4> QED  BY <3>1, <4>1, <2>s, <2>o
      <3>2. CASE ~(PagesUsed + n > PageLimit)
        <4>1. n \in Nat
          BY OcrAssumption DEF Extraction, _process_pdf, _process_html, _process_image, _parse_sheets,
             _call_mistral_ocr, _call_converter_extract, _process_opendataloader
        <4>2. docs' = docs /\ locked' = d /\ jobs'[d].pages = n /\ \A e \in Docs \ {d} : jobs'[e] = jobs[e]
          BY <3>2, <1>t
        <4>3. \A e \in Docs \ {d} : jobs'[e].at # "checked"
          BY <4>2, <2>4, <1>t DEF QuotaInv, _check_user_page_limit
        <4>4. PagesUsed' \in Nat /\ PagesUsed \in Nat /\ PagesUsed' <= PagesUsed
          BY <4>2, <1>0, <1>k
        <4>5. PagesUsed' <= PageLimit /\ PagesUsed' + n <= PageLimit
          BY <3>2, <4>1, <4>4, <1>t
        <4> QED  BY <4>2, <4>3, <4>5 DEF QuotaInv
      <3> QED  BY <3>1, <3>2
    <2>5. CASE _store_extracted_pages(d)
      <3>1. /\ jobs[d].at = "checked" /\ locked' = 0
            /\ \A e \in Docs \ {d} : jobs'[e] = jobs[e]
        BY <2>5, <1>t DEF _store_extracted_pages
      <3>2. \A e \in Docs \ {d} : jobs'[e].at # "checked"
        BY <3>1 DEF QuotaInv
      <3>3. jobs'[d].at # "checked"
        <4> DEFINE tail == _process_document_tail(d)
                   job(t, i) == [at |-> "checked", kb |-> jobs[d].kb, text |-> t, image |-> i, todo |-> tail]
        <4>1. tail = <<>> \/ Head(tail) \in Steps
          BY DEF _process_document_tail, Steps
        <4>2. ASSUME NEW t, NEW i PROVE Proceed(job(t, i)).at # "checked"
          <5> HIDE DEF tail
          <5> QED  BY <4>1 DEF Proceed, NoJob, Steps
        <4>3. CASE ~Exists(d)
          BY <2>5, <4>3, <1>t DEF _store_extracted_pages, NoJob
        <4>4. CASE Exists(d)
          <5> DEFINE text == IF FormatOf[d] = "image" THEN docs[d].text
                             ELSE IF jobs[d].pages = 0 THEN 0 ELSE FileText
          <5>1. \E img : jobs' = [jobs EXCEPT ![d] = Proceed(job(text, IF img = 0 THEN 0 ELSE born + img))]
            BY <2>5, <4>4 DEF _store_extracted_pages
          <5> HIDE DEF job, text
          <5>2. PICK img : jobs'[d] = Proceed(job(text, IF img = 0 THEN 0 ELSE born + img))
            BY <5>1, <1>t
          <5> QED  BY <4>2, <5>2
        <4> QED  BY <4>3, <4>4
      <3>4. CASE ~Exists(d)
        <4>1. docs' = docs
          BY <2>5, <3>4 DEF _store_extracted_pages
        <4>2. PagesUsed' <= PageLimit
          BY <4>1, <1>0, <1>k, <1>t DEF QuotaInv
        <4> QED  BY <3>2, <3>3, <4>2 DEF QuotaInv
      <3>5. CASE Exists(d)
        <4>1. jobs[d].pages \in Nat /\ PagesUsed + jobs[d].pages <= PageLimit
          BY <3>1, <1>p DEF QuotaInv
        <4>2. \A x \in Docs : Lighter(docs'[x], docs[x]) \/ (x = d /\ docs'[x].pages = jobs[d].pages)
          BY <1>t, <2>5, <3>5, CommitPages
        <4>3. PagesUsed \in Nat /\ PagesUsed' \in Nat /\ PagesUsed' <= PagesUsed + jobs[d].pages
          <5> HIDE DEF Docs
          <5> QED  BY <1>t, <4>1, <4>2, PagesGrow
        <4>4. PagesUsed' <= PageLimit
          BY <4>1, <4>3, <1>t
        <4> QED  BY <3>2, <3>3, <4>4 DEF QuotaInv
      <3> QED  BY <3>4, <3>5
    <2>6. CASE DropChunks(d) \/ store_chunks(d) \/ _upload_assets(d)
      <3>1. jobs[d].at \in Steps /\ jobs' = [jobs EXCEPT ![d] = Proceed(jobs[d])] /\ locked' = locked /\ docs' = docs
        BY <2>6 DEF DropChunks, store_chunks, _upload_assets, Steps
      <3>2. Proceed(jobs[d]).at # "checked"
        <4>1. jobs[d] \in [at : Steps, kb : Kbs, text : Texts, image : Docs \cup {0}, todo : Seq(Steps)]
          BY <3>1, <1>t, JobCases
        <4>2. jobs[d].todo # <<>> => Head(jobs[d].todo) \in Steps
          BY <4>1
        <4> QED  BY <4>1, <4>2 DEF Proceed, NoJob, Steps
      <3> QED  BY <3>1, <3>2, <1>t, <1>0, <2>o
    <2> QED  BY <1>6, <2>1, <2>2, <2>3, <2>4, <2>5, <2>6 DEF Extract, JobStep
  <1> QED  BY <1>2, <1>3, <1>4, <1>5, <1>6 DEF Next

(* At first no document has pages. *)
LEMMA QuotaInit == Init => QuotaInv
  <1> SUFFICES ASSUME Init PROVE QuotaInv
    OBVIOUS
  <1>t. docs \in [Docs -> Row \cup {NoDoc}]
    BY InitTypes DEF TypeInv, StoreType
  <1>1. PagesUsed = PagesIn(docs)
    BY DEF PagesUsed, PagesIn, LiveIn, MapThenSumSet, MapThenFoldSet
  <1> DEFINE v == [x \in Docs |-> Weigh(docs[x])]
  <1>2. PICK g : SumsOf(v, Docs, g) /\ PagesUsed = g[Docs]
    BY <1>t, <1>1, PagesAreWeighed
  <1>3. \A x \in Docs : v[x] = 0
    BY DEF Init, Weigh, File
  <1>4. PagesUsed = 0
    <2> HIDE DEF v, Docs
    <2> QED  BY <1>2, <1>3, SumsOfNothing
  <1>5. \A d \in Docs : jobs[d].at # "checked"
    BY DEF Init, NoJob
  <1> QED  BY <1>4, <1>5, StoreAssumption DEF QuotaInv

(* The pages of the user stay within the limit, whatever jobs run at the same time,
   are cut off or fail, and whatever is deleted, clipped and uploaded beside them. *)
THEOREM PagesStayWithinLimit == Spec => []PagesWithinLimit
  <1>1. QuotaInv => PagesWithinLimit
    BY DEF QuotaInv, PagesWithinLimit
  <1> QED  BY QuotaInit, QuotaStep, HighlightInit, HighlightStep, <1>1, PTL DEF Spec
===============================================================================
