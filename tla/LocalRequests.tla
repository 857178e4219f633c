----------------------------- MODULE LocalRequests -----------------------------
(***************************************************************************)
(* What changes a file or the index from outside the indexing: the user,   *)
(* the requests to the API in local mode (services/local.py,               *)
(* routes/local_upload.py, infra/db/sqlite.py), and the tools of the MCP   *)
(* server, a process with a connection of its own (tools/write.py,         *)
(* tools/delete.py, vaultfs/sqlite.py).                                    *)
(***************************************************************************)
EXTENDS LocalIndexing

MarkOps == {"upsert", "remove"}
New == contents + 1
MayWrite == contents < MaxContents
Deleted == NoRow

\* A task on a path where another is at work; highlights are guarded by BEGIN.
Overlap(t, op, p) ==
    IF \E u \in OthersOn(t, p) : ~(op \in MarkOps /\ task[u].op \in MarkOps) THEN {p} ELSE {}

Begin(t, job) ==
    /\ ~Active(t) /\ Watched
    /\ task' = [task EXCEPT ![t] = job]
    /\ tainted' = tainted \cup Overlap(t, job.op, job.p)

--------------------------------------------------------------------------------
(* The user, in an editor.                                                 *)

EditFile(p) ==
    /\ MayWrite
    /\ \E c \in {0, New} :
          /\ file[p] # c
          /\ file' = [file EXCEPT ![p] = c]
          /\ contents' = IF c = 0 THEN contents ELSE c
          /\ tainted' = tainted \cup Unseen(p, c)
    /\ Tell(p)
    /\ UNCHANGED <<db, committed, txn, task, ids, noteVars>>

--------------------------------------------------------------------------------
(* LocalDocumentService.update_content: the file, the row without its      *)
(* content_hash, and the chunks with a commit of their own.                *)

update_content(t, p) ==
    /\ p \in TextPaths /\ db[p].id # 0
    /\ Begin(t, Job("content", p, db[p].id, "file"))
    /\ UNCHANGED <<storeVars, events, noteVars>>

WriteContent(t) ==
    /\ Is(t, "content", "file") /\ MayWrite
    /\ AppWrites(task[t].p, New)
    /\ task' = [task EXCEPT ![t].c = New, ![t].at = "row"]
    /\ NoStatement /\ UNCHANGED <<ids, acked>>

ContentRow(t) ==
    /\ Is(t, "content", "row")
    /\ Execute(t, task[t].p, IF Mine(t) THEN [Row(t) EXCEPT !.text = task[t].c] ELSE Row(t))
    /\ Goto(t, "commit row")
    /\ UNCHANGED <<ids, fileVars, events, noteVars>>

\* ChunkRepository.store, also of an upload.
StoreChunks(t) ==
    /\ Is(t, "content", "chunks") \/ Is(t, "upload", "chunks")
    /\ IF Mine(t)
       THEN Execute(t, task[t].p, [Row(t) EXCEPT !.chunks = task[t].c, !.ann = {}]) /\ Goto(t, "commit")
       ELSE FailOpen(t) /\ Done(t)
    /\ UNCHANGED <<ids, fileVars, events, noteVars>>

--------------------------------------------------------------------------------
(* routes/local_upload.upload_file, where on_conflict = "replace" may      *)
(* replace a file and the row that was found before the body was read.     *)

upload_file(t, p) ==
    /\ Begin(t, Job("upload", p, db[p].id, "file"))
    /\ UNCHANGED <<storeVars, events, noteVars>>

WriteUpload(t) ==
    /\ Is(t, "upload", "file") /\ MayWrite
    /\ AppWrites(task[t].p, New)
    /\ task' = [task EXCEPT ![t].c = New, ![t].at = IF task[t].id = 0 THEN "insert" ELSE "clear"]
    /\ NoStatement /\ UNCHANGED <<ids, acked>>

InsertUpload(t) ==
    /\ Is(t, "upload", "insert") /\ ids < MaxIds
    /\ LET p == task[t].p IN
       IF db[p].id # 0
       THEN FailOpen(t) /\ Done(t) /\ UNCHANGED <<ids, acked>>
       ELSE /\ ids' = ids + 1
            /\ Execute(t, p, [NoRow EXCEPT !.id = ids + 1, !.status = StatusOf(p), !.hash = task[t].c,
                                           !.text = IF p \in TextPaths THEN task[t].c ELSE 0])
            /\ task' = [task EXCEPT ![t].id = ids + 1, ![t].at = "commit row"]
            /\ acked' = [acked EXCEPT ![p] = {}]
    /\ UNCHANGED <<fileVars, events, recent>>

_clear_extracted_state(t) ==
    /\ Is(t, "upload", "clear")
    /\ Execute(t, task[t].p, IF Mine(t) THEN [Row(t) EXCEPT !.chunks = 0, !.ann = {}] ELSE Row(t))
    /\ Goto(t, "row")
    /\ UNCHANGED <<ids, fileVars, events, noteVars>>

\* The highlights of the file that was replaced go with it.
ReplaceRow(t) ==
    /\ Is(t, "upload", "row")
    /\ LET p == task[t].p IN
       /\ Execute(t, p, IF Mine(t) THEN [Row(t) EXCEPT !.status = StatusOf(p), !.hash = task[t].c, !.marks = {},
                                                       !.text = IF p \in TextPaths THEN task[t].c ELSE 0]
                        ELSE Row(t))
       /\ acked' = IF Mine(t) THEN [acked EXCEPT ![p] = {}] ELSE acked
    /\ Goto(t, "commit row")
    /\ UNCHANGED <<ids, fileVars, events, recent>>

\* After an upload of a binary file the request leaves a coroutine that extracts it.
CommitDocument(t) ==
    /\ Is(t, "content", "commit row") \/ Is(t, "upload", "commit row")
    /\ Commit(t)
    /\ task' = [task EXCEPT ![t].op = IF task[t].p \in BinaryPaths THEN "extract" ELSE @,
                            ![t].at = IF task[t].p \in BinaryPaths THEN "x select" ELSE "chunks"]
    /\ UNCHANGED <<ids, fileVars, events, noteVars>>

--------------------------------------------------------------------------------
(* LocalDocumentService.delete: the file, then the rows.                   *)

delete(t, p) ==
    /\ db[p].id # 0
    /\ Begin(t, Job("delete", p, db[p].id, "file"))
    /\ UNCHANGED <<storeVars, events, noteVars>>

Unlink(t) ==
    /\ Is(t, "delete", "file")
    /\ IF file[task[t].p] = 0 THEN UNCHANGED <<fileVars, recent, events>> ELSE AppWrites(task[t].p, 0)
    /\ Goto(t, "chunks")
    /\ NoStatement /\ UNCHANGED <<ids, acked>>

archive(t, at) ==
    /\ Is(t, "delete", at)
    /\ LET p == task[t].p IN
       /\ Execute(t, p, IF ~Mine(t) THEN Row(t)
                        ELSE IF at = "chunks" THEN [Row(t) EXCEPT !.chunks = 0, !.ann = {}] ELSE Deleted)
       /\ acked' = IF at = "row" /\ Mine(t) THEN [acked EXCEPT ![p] = {}] ELSE acked
    /\ Goto(t, IF at = "chunks" THEN "row" ELSE "commit")
    /\ UNCHANGED <<ids, fileVars, events, recent>>

\* The last commit of a request.
EndRequest(t) ==
    /\ Is(t, "content", "commit") \/ Is(t, "upload", "commit") \/ Is(t, "delete", "commit")
    /\ Commit(t) /\ Done(t)
    /\ UNCHANGED <<ids, fileVars, events, noteVars>>

--------------------------------------------------------------------------------
(* upsert_highlight and delete_highlight: read, write the row, write the   *)
(* annotations of its chunks, in a transaction that BEGIN IMMEDIATE opens. *)

BeginHighlight(t, op, p, m) ==
    /\ db[p].id # 0
    /\ Begin(t, [op |-> op, p |-> p, id |-> db[p].id, c |-> 0, at |-> "read", m |-> m, marks |-> {}])
    /\ BeginImmediate(t)
    /\ UNCHANGED <<file, db, committed, contents, ids, events, noteVars>>

After(t) == IF task[t].op = "upsert" THEN Row(t).marks \cup {task[t].m} ELSE Row(t).marks \ {task[t].m}

ReadHighlights(t) ==
    /\ task[t].op \in MarkOps /\ task[t].at = "read"
    /\ Mine(t)
    /\ task[t].op = "upsert" \/ task[t].m \in Row(t).marks
    /\ task' = [task EXCEPT ![t].marks = After(t), ![t].at = "row"]
    /\ NoStatement /\ UNCHANGED <<ids, fileVars, events, noteVars>>

\* No document, another version, too many highlights, or nothing to remove.
RefuseHighlight(t) ==
    /\ task[t].op \in MarkOps /\ task[t].at = "read"
    /\ Rollback(t) /\ Done(t)
    /\ UNCHANGED <<ids, fileVars, events, noteVars>>

WriteHighlights(t) ==
    /\ task[t].op \in MarkOps /\ task[t].at = "row"
    /\ IF Mine(t)
       THEN Execute(t, task[t].p, [Row(t) EXCEPT !.marks = task[t].marks]) /\ Goto(t, "annotate")
       ELSE Rollback(t) /\ Done(t)
    /\ UNCHANGED <<ids, fileVars, events, noteVars>>

\* Of all chunks that an old or a new highlight touches.
RecomputeNew(row, marks) == IF row.chunks = 0 THEN {} ELSE row.ann \cup marks
_recompute_chunks_for_doc(row, marks) == IF row.chunks = 0 THEN {} ELSE marks

Annotate(t) ==
    /\ task[t].op \in MarkOps /\ task[t].at = "annotate"
    /\ Execute(t, task[t].p,
               IF Mine(t) THEN [Row(t) EXCEPT !.ann = _recompute_chunks_for_doc(Row(t), task[t].marks)] ELSE Row(t))
    /\ Goto(t, "commit")
    /\ UNCHANGED <<ids, fileVars, events, noteVars>>

CommitHighlights(t) ==
    /\ task[t].op \in MarkOps /\ task[t].at = "commit"
    /\ Commit(t) /\ Done(t)
    /\ acked' = IF ~Mine(t) THEN acked
                ELSE [acked EXCEPT ![task[t].p] = IF task[t].op = "upsert" THEN @ \cup {task[t].m} ELSE @ \ {task[t].m}]
    /\ UNCHANGED <<ids, fileVars, events, recent>>

--------------------------------------------------------------------------------
(* The MCP server: the document is read, the file is written, and the row  *)
(* with its chunks in one transaction, which must wait for that of the API.*)

BeginTool(t, op, p) ==
    /\ ~Active(t)
    /\ op = "mcp create" \/ (committed[p].id # 0 /\ committed[p].status \notin {"failed", "removed"})
    /\ op # "mcp create" \/ committed[p].id = 0
    /\ task' = [task EXCEPT ![t] = Job(op, p, committed[p].id, "file")]
    /\ tainted' = tainted \cup IF Watched THEN Overlap(t, op, p) ELSE {p}
    /\ UNCHANGED <<file, db, committed, txn, contents, ids, events, noteVars>>

ToolFile(t) ==
    /\ Survives(t) /\ task[t].at = "file" /\ MayWrite
    /\ LET p == task[t].p
           c == IF task[t].op = "mcp delete" THEN 0 ELSE New
       IN /\ file' = [file EXCEPT ![p] = c]
          /\ contents' = IF c = 0 THEN contents ELSE c
          /\ Tell(p) /\ tainted' = tainted \cup Unseen(p, c)
          /\ task' = [task EXCEPT ![t].c = c, ![t].at = "row"]
    /\ UNCHANGED <<db, committed, txn, ids, noteVars>>

\* create_document, update_document or archive_documents.
ToolTransaction(t) ==
    /\ Survives(t) /\ task[t].at = "row" /\ txn = "none"
    /\ LET p == task[t].p
           row == CASE task[t].op = "mcp edit" /\ Mine(t) -> [db[p] EXCEPT !.text = task[t].c, !.chunks = task[t].c, !.ann = {}]
                    [] task[t].op = "mcp delete" /\ Mine(t) -> Deleted
                    [] task[t].op = "mcp create" /\ db[p].id = 0 /\ ids < MaxIds ->
                         [NoRow EXCEPT !.id = ids + 1, !.status = "ready", !.text = task[t].c, !.chunks = task[t].c]
                    [] OTHER -> db[p]
       IN /\ db' = [db EXCEPT ![p] = row]
          /\ committed' = db'
          /\ ids' = IF row.id > ids THEN ids + 1 ELSE ids
          /\ acked' = IF row.id # db[p].id THEN [acked EXCEPT ![p] = {}] ELSE acked
    /\ Done(t)
    /\ UNCHANGED <<txn, tainted, fileVars, events, recent>>

\* "database is locked", after the file was written.
ToolLocked(t) ==
    /\ Survives(t) /\ task[t].at = "row" /\ txn # "none"
    /\ Done(t)
    /\ NoStatement /\ UNCHANGED <<ids, fileVars, events, noteVars>>

RequestStep(t) ==
    \/ WriteContent(t) \/ ContentRow(t) \/ StoreChunks(t)
    \/ WriteUpload(t) \/ InsertUpload(t) \/ _clear_extracted_state(t) \/ ReplaceRow(t) \/ CommitDocument(t)
    \/ Unlink(t) \/ archive(t, "chunks") \/ archive(t, "row") \/ EndRequest(t)
    \/ ReadHighlights(t) \/ RefuseHighlight(t) \/ WriteHighlights(t) \/ Annotate(t) \/ CommitHighlights(t)
    \/ ToolFile(t) \/ ToolTransaction(t) \/ ToolLocked(t)
================================================================================
