----------------------------- MODULE WikiDecisions -----------------------------
(***************************************************************************)
(* apply-decisions (review/apply.py): the decisions the user has written   *)
(* into the review files, row by row.  Each commits blocks, links and      *)
(* statuses as it goes, then writes the page, then marks the row applied;  *)
(* dispositions and generated sections follow at the end.                  *)
(*                                                                         *)
(* needs_more_info changes nothing; exclusions are in SourceLedger.        *)
(***************************************************************************)
EXTENDS WikiPlacement

CandidateDecisions == {"accept_new", "keep_existing", "merge", "approved_merge", "mark_conflicted",
                       "deprecate_existing", "delete_duplicate"}
StaleDecisions == {"keep_existing", "deprecate_existing"}
TaxonomyDecisions == {"merge", "keep_existing"}  \* the second is reject_new
IsTaxonomy(r) == rows[r].peer # "none"
IsStale(r) == rows[r].candidate = NoCandidate /\ ~IsTaxonomy(r)
Accepts == {"accept_new", "approved_merge", "mark_conflicted", "deprecate_existing"}

CONSTANTS
    Decisions,  \* those that the user takes
    AtATime     \* bound on the decisions of one call

DecisionsFor(r) ==
    Decisions \cap (IF IsTaxonomy(r) THEN TaxonomyDecisions
                    ELSE IF IsStale(r) THEN StaleDecisions ELSE CandidateDecisions)

StartApply ==
    /\ task = Idle
    /\ \E decided \in SUBSET (Open \cap filed) :
          /\ decided # {} /\ Cardinality(decided) <= AtATime
          /\ \E d \in [decided -> Decisions] :
                /\ \A r \in decided : d[r] \in DecisionsFor(r)
                /\ task' = [op |-> "apply", at |-> "next", d |-> d, read |-> rows, changed |-> {}, affected |-> {}]
    /\ file' = Marked /\ block' = MarkedRows
    /\ fresh' = {}
    /\ UNCHANGED <<registry, rows, chunk, links, head, flow, filed, broken, orphans, unlisted>>

Undecided == DOMAIN task.d \cap Open
Row == task.read[task.r]  \* as it was when the file was validated
Does(d) == task.d[task.r] = d

NextRow == CHOOSE r \in Undecided : \A q \in Undecided : r <= q

\* An exception that ends the call, with the pages as the rows before have left them.
Raise == task' = Idle /\ unlisted' = unlisted \cup task.changed

\* _load_page, of the rows in the order of their file; a block that is not there raises.
LoadPage ==
    /\ At("apply", "next") /\ Undecided # {} /\ ~IsTaxonomy(NextRow)
    /\ LET row == task.read[NextRow] IN
       IF row.existing \in On(row.page)
       THEN /\ task' = With(task, [at |-> "status", r |-> NextRow, p |-> row.page, old |-> file[row.page], id |-> row.candidate.id])
            /\ UNCHANGED unlisted
       ELSE Raise
    /\ UNCHANGED <<storeVars, flow, filed, broken, orphans, fresh>>

\* A row about two pages: they are merged, or nothing is done.
TurnToPages ==
    /\ At("apply", "next") /\ Undecided # {} /\ IsTaxonomy(NextRow)
    /\ task' = With(task, [at |-> IF task.d[NextRow] = "merge" THEN "merge" ELSE "applied", r |-> NextRow])
    /\ UNCHANGED <<storeVars, historyVars>>

\* What becomes of the existing block.
Fate ==
    CASE Does("accept_new") -> IF file[task.p].blocks[Row.existing].key = Row.candidate.key THEN "deprecated" ELSE "same"
      [] Does("mark_conflicted") -> "conflicted"
      [] Does("delete_duplicate") -> "deleted"
      [] Does("keep_existing") -> IF IsStale(task.r) THEN "current" ELSE "same"
      [] OTHER -> "deprecated"

\* A merge asks the model first, and its result is a candidate for another row; an
\* approved one has an id of its own.
UpdateStatus ==
    /\ At("apply", "status")
    /\ Does("approved_merge") \/ Does("merge") => NextBlock \in Blocks
    /\ Does("merge") => Cardinality(Rows) < MaxRows
    /\ block' = IF Fate = "same" THEN block ELSE [block EXCEPT ![Row.existing].status = Fate]
    /\ LET linked == {c \in Chunks : <<Row.existing, c>> \in links} IN
       chunk' = IF Does("delete_duplicate")
                THEN [c \in Chunks |-> IF c \in linked \cup Row.candidate.chunks THEN "duplicate" ELSE chunk[c]]
                ELSE chunk
    /\ task' = [task EXCEPT !.at = "create",
                            !.id = IF Does("approved_merge") \/ Does("merge") THEN NextBlock ELSE @]
    /\ UNCHANGED <<file, registry, rows, links, head, historyVars>>

\* The candidate becomes a block of its own.
Takes == task.d[task.r] \in Accepts /\ ~IsStale(task.r)

\* _create_block_and_place_chunks; the id may be there since a call that was cut off.
CreateAccepted ==
    /\ At("apply", "create")
    /\ \/ /\ Takes /\ task.id \in Known
          /\ Fail({task.p}) /\ Raise /\ UNCHANGED <<block, links, rows>>
       \/ /\ Takes /\ task.id \notin Known
          /\ block' = [block EXCEPT ![task.id] =
                 [page |-> task.p, key |-> Row.candidate.key, edited |-> FALSE,
                  status |-> IF Does("mark_conflicted") THEN "conflicted" ELSE "current"]]
          /\ links' = links \cup ({task.id} \X Row.candidate.chunks)
          /\ task' = [task EXCEPT !.at = "write", !.affected = @ \cup Row.candidate.chunks]
          /\ UNCHANGED <<rows, broken, unlisted>>
       \/ /\ Does("merge")
          /\ LET f == Cardinality(Rows) + 1 IN
             /\ rows' = Put(rows, f, [Row EXCEPT !.candidate.id = task.id])
             /\ task' = With([task EXCEPT !.at = "write"], [f |-> f])
          /\ UNCHANGED <<block, links, broken, unlisted>>
       \/ /\ ~Takes /\ ~Does("merge")
          /\ Goto("write") /\ UNCHANGED <<block, links, rows, broken, unlisted>>
    /\ UNCHANGED <<file, registry, chunk, head, flow, filed, orphans, fresh>>

\* The page as the decision leaves it; mark_conflicted lists nothing but this row.
WithFateHidden(f) == IF Fate \in {"same", "deleted", "conflicted"} THEN f ELSE set_status(f, Row.existing, Fate)  \* a mutant
WithFate(f) == IF Fate \in {"same", "deleted"} THEN f ELSE set_status(f, Row.existing, Fate)
\* A mutant: the marker of a merged row stays.
WithBothMarkers(f) ==
    CASE IsStale(task.r) \/ Does("delete_duplicate") -> f
      [] Does("merge") -> add_pending_marker(f, Row.existing, task.f)
      [] OTHER -> remove_pending_marker(f, Row.existing, task.r)
WithMarker(f) ==
    CASE IsStale(task.r) \/ Does("delete_duplicate") -> f
      [] Does("merge") -> add_pending_marker(remove_pending_marker(f, Row.existing, task.r), Row.existing, task.f)
      [] OTHER -> remove_pending_marker(f, Row.existing, task.r)
WithCandidate(f) ==
    CASE Does("delete_duplicate") -> _remove_block(f, Row.existing)
      [] Takes ->
            insert_block(IF Does("mark_conflicted") THEN [f EXCEPT !.listed = {<<"row", task.r>>}] ELSE f, task.id,
                         Drafted(Row.candidate.key, IF Does("mark_conflicted") THEN "conflicted" ELSE "current"))
      [] OTHER -> f

_write_page ==
    /\ At("apply", "write")
    /\ \/ /\ write_page(task.p, WithCandidate(WithMarker(WithFate(task.old))))
          /\ task' = [task EXCEPT !.at = IF Does("merge") THEN "emit" ELSE "applied", !.changed = @ \cup {task.p}]
          /\ UNCHANGED <<broken, unlisted>>
       \/ file[task.p] # task.old /\ Fail({task.p}) /\ Raise /\ UNCHANGED file
    /\ UNCHANGED <<block, registry, rows, chunk, links, head, flow, filed, orphans, fresh>>

\* The review file of the follow-up.
EmitFollowUp ==
    /\ At("apply", "emit")
    /\ filed' = filed \cup {task.f}
    /\ Goto("applied")
    /\ UNCHANGED <<storeVars, flow, broken, orphans, fresh, unlisted>>

RejectedForgotten == {}  \* a mutant
\* A candidate that is not taken is a duplicate of the block that is kept.
Rejected == IF Does("keep_existing") /\ ~IsTaxonomy(task.r) THEN Row.candidate.chunks ELSE {}
_mark_applied ==
    /\ At("apply", "applied")
    /\ rows' = [rows EXCEPT ![task.r].applied = TRUE]
    /\ task' = [task EXCEPT !.at = "next", !.affected = @ \cup Rejected]
    /\ UNCHANGED <<file, block, registry, chunk, links, head, historyVars>>

\* Of chunks that are in no open row: placed with the blocks they are in.
_finalize_candidate_dispositions ==
    /\ At("apply", "next") /\ Undecided = {}
    /\ LET unresolved == UNION {rows[r].candidate.chunks : r \in Open}
           settled == {c \in task.affected \ unresolved : chunk[c] = "conflicted_pending"}
           placed == {c \in settled : \E b \in Live : <<b, c>> \in links}
       IN chunk' = [c \in Chunks |-> IF c \in placed THEN "placed" ELSE IF c \in settled THEN "duplicate" ELSE chunk[c]]
    /\ Goto("refresh")
    /\ UNCHANGED <<file, block, registry, rows, links, head, historyVars>>

\* The path of a page that was merged is an alias of the one it was merged into, and what
\* is open there is written into its file.
resolve_page(p) == {p, registry[p]} \cap Active
ListedIn(p) == UNION {OpenConflicts(q) : q \in resolve_page(p)}

\* A mutant of the next: the section is not cleared of the last conflict.
RefreshOpen ==
    /\ At("apply", "refresh")
    /\ file' = [p \in Pages |-> IF p \in task.changed /\ ListedIn(p) # {} THEN [file[p] EXCEPT !.listed = ListedIn(p)] ELSE file[p]]
    /\ Goto("render")
    /\ UNCHANGED <<block, registry, rows, chunk, links, head, historyVars>>

\* Of the pages that changed, where they are resolved.
RefreshConflicts ==
    /\ At("apply", "refresh")
    /\ file' = [p \in Pages |-> IF p \in task.changed /\ resolve_page(p) # {} THEN [file[p] EXCEPT !.listed = ListedIn(p)] ELSE file[p]]
    /\ Goto("render")
    /\ UNCHANGED <<block, registry, rows, chunk, links, head, historyVars>>

ApplyStep ==
    \/ StartApply \/ LoadPage \/ TurnToPages \/ UpdateStatus \/ CreateAccepted \/ _write_page \/ EmitFollowUp
    \/ _mark_applied \/ _finalize_candidate_dispositions \/ RefreshConflicts
================================================================================
