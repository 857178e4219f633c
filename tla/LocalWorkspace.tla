---------------------------- MODULE LocalWorkspace ----------------------------
(***************************************************************************)
(* The local mode as a whole (api/main.py): the coroutines of the API on   *)
(* their one connection, the MCP server, the user, and restarts.           *)
(***************************************************************************)
EXTENDS LocalRequests

CONSTANTS
    Ops,         \* the requests and tools that are called
    MarkedPaths  \* documents that get highlights

vars == <<storeVars, task, events, recent, acked, tainted>>

Init == StoreInit /\ task = [t \in Tasks |-> Idle]

Starts(t, p) ==
    \/ "content" \in Ops /\ update_content(t, p)
    \/ "upload" \in Ops /\ upload_file(t, p)
    \/ "delete" \in Ops /\ delete(t, p)
    \/ p \in MarkedPaths /\ \E op \in MarkOps \cap Ops, m \in Marks : BeginHighlight(t, op, p, m)
    \/ \E op \in {"mcp edit", "mcp create", "mcp delete"} \cap Ops : p \in TextPaths /\ BeginTool(t, op, p)

Next ==
    \/ \E p \in Paths : EditFile(p) \/ Cooldown(p) \/ Drop(p) \/ _apply_watched_change(p)
    \/ \E t \in Slots, p \in Paths : Starts(t, p)
    \/ \E t \in Slots : RequestStep(t)
    \/ \E t \in Tasks : ExtractionStep(t)
    \/ IndexStep
    \/ Restart

Spec == Init /\ [][Next]_vars

--------------------------------------------------------------------------------
AtRest(p) ==
    /\ Watched /\ p \notin events
    /\ \A t \in Tasks : Active(t) => task[t].p # p /\ (t = "watch" => FALSE)

\* When nothing is at work on a file and no change of it is left to be seen, the index
\* has the text of the file and chunks of that text, and a binary file is extracted or
\* failed; also after requests, tools and restarts at any point.  Only tasks that
\* overlapped on the file, or a change the watcher was not told of, may leave it stale.
IndexCurrent ==
    \A p \in Paths \ tainted : AtRest(p) =>
        IF file[p] = 0 THEN db[p].id = 0 \/ db[p].status = "removed"
        ELSE \/ db[p].text = file[p] /\ db[p].chunks = file[p]
             \/ p \in BinaryPaths /\ db[p].status = "failed"

\* A highlight that a response confirmed stays until it is removed or the file is
\* replaced: two requests do not clobber each other.
HighlightsKept == \A p \in Paths \ tainted : acked[p] \subseteq committed[p].marks

\* What other processes read: no chunk has the text of a highlight that is not there.
NoStaleAnnotation == \A p \in Paths \ tainted : committed[p].ann \subseteq committed[p].marks
================================================================================
