----------------------------- MODULE LocalIndexing -----------------------------
(***************************************************************************)
(* The indexing of files in local mode: the watcher (domain/watcher.py),   *)
(* the scan and the recovery at startup (main.py), and the extraction of   *)
(* binary files (domain/local_processor.py), by the watcher or by a        *)
(* coroutine of its own.                                                   *)
(***************************************************************************)
EXTENDS LocalStore

Watch == task["watch"]
SetWatch(w) == task' = [task EXCEPT !["watch"] = w]
StatusOf(p) == IF p \in TextPaths THEN "ready" ELSE "pending"
Boot == [op |-> "boot", at |-> "next", p |-> "none", id |-> 0, c |-> 0, todo |-> {p \in Paths : file[p] # 0}]
\* Calls of the MCP server are of another process.
Survives(t) == task[t].op \in {"mcp edit", "mcp create", "mcp delete"}

fileVars == <<file, contents>>
noteVars == <<recent, acked>>

--------------------------------------------------------------------------------
(* _index_file.  Its task has the path p, the content c read at the start, *)
(* and the row that was found.                                             *)

\* Where an event or the scan comes to a path.
Open(op, p, todo) == [op |-> op, p |-> p, id |-> db[p].id, c |-> file[p], todo |-> todo,
                      at |-> IF file[p] = 0 THEN "gone" ELSE "select"]

\* An event in the cooldown of a write of the app is dropped.
Drop(p) ==
    /\ Watched /\ p \in events /\ recent[p] # NotRecent
    /\ events' = events \ {p}
    /\ tainted' = tainted \cup IF file[p] = recent[p] /\ \A t \in OthersOn("watch", p) : ~Survives(t) THEN {} ELSE {p}
    /\ UNCHANGED <<db, committed, txn, task, ids, fileVars, noteVars>>

_apply_watched_change(p) ==
    /\ ~Active("watch") /\ p \in events /\ recent[p] = NotRecent
    /\ events' = events \ {p}
    /\ SetWatch(Open("index", p, {}))
    /\ tainted' = tainted \cup IF OthersOn("watch", p) = {} THEN {} ELSE {p}
    /\ UNCHANGED <<db, committed, txn, ids, fileVars, noteVars>>

Cooldown(p) ==
    /\ recent[p] # NotRecent
    /\ recent' = [recent EXCEPT ![p] = NotRecent]
    /\ UNCHANGED <<storeVars, task, events, acked, tainted>>

\* An exception ends the task with the transaction open, but the startup as a whole.
Raise ==
    IF Watch.op = "index"
    THEN FailOpen("watch") /\ Done("watch")
    ELSE /\ db' = committed /\ txn' = "none"
         /\ SetWatch(Boot)
         /\ UNCHANGED <<committed, tainted>>

\* What the row calls for.  A text that has not changed is chunked again, because the
\* last time may have been interrupted.
KeepUnchanged(row, c) == "next"
ReindexUnchanged(row, c) == "chunks"
Choice(p, row, c) ==
    IF row.id = 0 THEN "insert"
    ELSE IF p \in BinaryPaths
    THEN IF row.hash = c /\ (row.status # "ready" \/ row.chunks # 0) THEN "next" ELSE "clear"
    ELSE IF row.hash = c /\ row.status = "ready" THEN ReindexUnchanged(row, c) ELSE "row"

Select ==
    /\ Active("watch") /\ Watch.at = "select"
    /\ SetWatch([Watch EXCEPT !.id = db[Watch.p].id, !.at = Choice(Watch.p, db[Watch.p], Watch.c)])
    /\ NoStatement /\ UNCHANGED <<ids, fileVars, events, noteVars>>

\* The path is unique.
InsertRow ==
    /\ Active("watch") /\ Watch.at = "insert"
    /\ IF db[Watch.p].id # 0
       THEN Raise /\ UNCHANGED ids
       ELSE /\ ids < MaxIds /\ ids' = ids + 1
            /\ Execute("watch", Watch.p, [NoRow EXCEPT !.id = ids + 1, !.status = StatusOf(Watch.p), !.hash = Watch.c,
                                          !.text = IF Watch.p \in TextPaths THEN Watch.c ELSE 0])
            /\ SetWatch([Watch EXCEPT !.id = ids + 1, !.at = "commit"])
    /\ UNCHANGED <<fileVars, events, noteVars>>

_clear_extracted_rows ==
    /\ Active("watch") /\ Watch.at = "clear"
    /\ Execute("watch", Watch.p, IF Mine("watch") THEN [db[Watch.p] EXCEPT !.chunks = 0, !.ann = {}] ELSE db[Watch.p])
    /\ Goto("watch", "row")
    /\ UNCHANGED <<ids, fileVars, events, noteVars>>

UpdateRow ==
    /\ Active("watch") /\ Watch.at = "row"
    /\ Execute("watch", Watch.p,
               IF Mine("watch") THEN [db[Watch.p] EXCEPT !.status = StatusOf(Watch.p), !.hash = Watch.c,
                                                         !.text = IF Watch.p \in TextPaths THEN Watch.c ELSE 0]
               ELSE db[Watch.p])
    /\ Goto("watch", "commit")
    /\ UNCHANGED <<ids, fileVars, events, noteVars>>

CommitRow ==
    /\ Active("watch") /\ Watch.at = "commit"
    /\ Commit("watch")
    /\ Goto("watch", IF Watch.p \in TextPaths THEN "chunks" ELSE "next")
    /\ UNCHANGED <<ids, fileVars, events, noteVars>>

\* index_document_chunks replaces the chunks; the annotations in them are gone.
IndexChunks ==
    /\ Active("watch") /\ Watch.at = "chunks"
    /\ IF Mine("watch")
       THEN /\ Execute("watch", Watch.p, [db[Watch.p] EXCEPT !.chunks = Watch.c, !.ann = {}])
            /\ Goto("watch", "commit chunks")
       ELSE Raise
    /\ UNCHANGED <<ids, fileVars, events, noteVars>>

CommitChunks ==
    /\ Active("watch") /\ Watch.at \in {"commit chunks", "commit gone"}
    /\ Commit("watch")
    /\ Goto("watch", "next")
    /\ UNCHANGED <<ids, fileVars, events, noteVars>>

\* _remove_file: the row of a file that is gone stays, as failed.
mark_source_deleted ==
    /\ Active("watch") /\ Watch.at = "gone"
    /\ IF Watch.id = 0 \/ ~Mine("watch")
       THEN NoStatement /\ Goto("watch", "next")
       ELSE Execute("watch", Watch.p, [db[Watch.p] EXCEPT !.status = "removed"]) /\ Goto("watch", "commit gone")
    /\ UNCHANGED <<ids, fileVars, events, noteVars>>

--------------------------------------------------------------------------------
(* After a change, extract_pending_sources: every document that waits, and *)
(* a failed one unless its attempts are used up.                           *)

Waiting == {p \in BinaryPaths : db[p].status \in {"pending", "processing"}}
Failed == {p \in BinaryPaths : db[p].status = "failed"}

extract_pending_sources ==
    /\ Is("watch", "index", "next")
    /\ \E retried \in SUBSET Failed :
          SetWatch([Watch EXCEPT !.at = "extract", !.todo = Waiting \cup retried])
    /\ NoStatement /\ UNCHANGED <<ids, fileVars, events, noteVars>>

ExtractNext ==
    /\ Is("watch", "index", "extract")
    /\ IF Watch.todo = {}
       THEN Done("watch") /\ NoStatement
       ELSE \E p \in Watch.todo :
              /\ db' = [db EXCEPT ![p].status = IF db[p].id = 0 THEN @ ELSE "pending"]
              /\ txn' = IF txn = "none" THEN "implicit" ELSE txn
              /\ tainted' = tainted \cup Intrudes("watch", p) \cup IF OthersOn("watch", p) = {} THEN {} ELSE {p}
              /\ UNCHANGED committed
              /\ SetWatch([Watch EXCEPT !.p = p, !.id = db[p].id, !.todo = @ \ {p}, !.at = "x queued"])
    /\ UNCHANGED <<ids, fileVars, events, noteVars>>

\* process_document, by the watcher or by a coroutine; both give way to each other.
Extracts(t) == Active(t) /\ task[t].op \in {"index", "extract"}
ExtractionOver(t) == IF t = "watch" THEN Goto(t, "extract") ELSE Done(t)
Row(t) == db[task[t].p]

CommitStep(t, at, next) ==
    /\ Extracts(t) /\ task[t].at = at
    /\ Commit(t)
    /\ Goto(t, next)
    /\ UNCHANGED <<ids, fileVars, events, noteVars>>

process_document(t) ==
    /\ Extracts(t) /\ task[t].at = "x select"
    /\ IF ~Mine(t) \/ Row(t).status \notin {"pending", "processing"}
       THEN NoStatement /\ ExtractionOver(t)
       ELSE IF file[task[t].p] = 0
       THEN Execute(t, task[t].p, [Row(t) EXCEPT !.status = "failed"]) /\ Goto(t, "x end")
       ELSE Execute(t, task[t].p, [Row(t) EXCEPT !.status = "processing"]) /\ Goto(t, "x started")
    /\ UNCHANGED <<ids, fileVars, events, noteVars>>

\* _process_pdf and its like: the file is read in a thread.
_process_file(t) ==
    /\ Extracts(t) /\ task[t].at = "x read"
    /\ \/ /\ file[task[t].p] # 0
          /\ task' = [task EXCEPT ![t].c = file[task[t].p], ![t].at = "x chunks"]
       \/ Goto(t, "x fail")
    /\ NoStatement /\ UNCHANGED <<ids, fileVars, events, noteVars>>

\* The chunks of a document that was deleted meanwhile violate the foreign key.
_store_page_contents(t) ==
    /\ Extracts(t) /\ task[t].at = "x chunks"
    /\ IF Mine(t)
       THEN Execute(t, task[t].p, [Row(t) EXCEPT !.chunks = task[t].c, !.ann = {}]) /\ Goto(t, "x ready")
       ELSE FailOpen(t) /\ Goto(t, "x fail")
    /\ UNCHANGED <<ids, fileVars, events, noteVars>>

SetStatus(t, at, row) ==
    /\ Extracts(t) /\ task[t].at = at
    /\ Execute(t, task[t].p, IF Mine(t) THEN row ELSE Row(t))
    /\ Goto(t, "x end")
    /\ UNCHANGED <<ids, fileVars, events, noteVars>>

EndExtraction(t) ==
    /\ Extracts(t) /\ task[t].at = "x end"
    /\ Commit(t)
    /\ ExtractionOver(t)
    /\ UNCHANGED <<ids, fileVars, events, noteVars>>

ExtractionStep(t) ==
    \/ CommitStep(t, "x queued", "x select") \/ process_document(t)
    \/ CommitStep(t, "x started", "x read") \/ _process_file(t) \/ _store_page_contents(t)
    \/ SetStatus(t, "x ready", [Row(t) EXCEPT !.status = "ready", !.text = task[t].c])
    \/ SetStatus(t, "x fail", [Row(t) EXCEPT !.status = "failed"])
    \/ EndExtraction(t)

--------------------------------------------------------------------------------
(* The process ends, at any time; the next one scans before it serves.     *)

Restart ==
    /\ db' = committed /\ txn' = "none"
    /\ task' = [t \in Tasks |-> IF t = "watch" THEN Boot ELSE IF Survives(t) THEN task[t] ELSE Idle]
    /\ events' = {} /\ recent' = [p \in Paths |-> NotRecent]
    /\ tainted' = tainted \cup {task[t].p : t \in {t \in Slots : Survives(t)}}
    /\ UNCHANGED <<committed, ids, fileVars, acked>>

scan_workspace ==
    /\ Is("watch", "boot", "next") /\ Watch.todo # {}
    /\ \E p \in Watch.todo :
          SetWatch(IF file[p] = 0 THEN [Watch EXCEPT !.todo = @ \ {p}] ELSE Open("boot", p, Watch.todo \ {p}))
    /\ NoStatement /\ UNCHANGED <<ids, fileVars, events, noteVars>>

Missing == {p \in Paths : db[p].id # 0 /\ db[p].status # "removed" /\ file[p] = 0}

ScanMissing ==
    /\ Is("watch", "boot", "next") /\ Watch.todo = {}
    /\ \E p \in Missing : SetWatch(Open("boot", p, {}))
    /\ NoStatement /\ UNCHANGED <<ids, fileVars, events, noteVars>>

\* A coroutine for each document that waits; none holds the workspace lock.
RecoveredAtStartup == Waiting
Serve ==
    /\ Is("watch", "boot", "next") /\ Watch.todo = {} /\ Missing = {}
    /\ \E slot \in [RecoveredAtStartup -> {s \in Slots : ~Active(s)}] :
          /\ \A p, q \in RecoveredAtStartup : slot[p] = slot[q] => p = q
          /\ task' = [t \in Tasks |->
                        IF t = "watch" THEN Idle
                        ELSE IF \E p \in RecoveredAtStartup : slot[p] = t
                        THEN LET p == CHOOSE p \in RecoveredAtStartup : slot[p] = t
                             IN Job("extract", p, db[p].id, "x select")
                        ELSE task[t]]
    /\ NoStatement /\ UNCHANGED <<ids, fileVars, events, noteVars>>

IndexStep ==
    \/ Select \/ InsertRow \/ _clear_extracted_rows \/ UpdateRow \/ CommitRow
    \/ IndexChunks \/ CommitChunks \/ mark_source_deleted
    \/ extract_pending_sources \/ ExtractNext
    \/ scan_workspace \/ ScanMissing \/ Serve
================================================================================
