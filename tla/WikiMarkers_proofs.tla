-------------------------- MODULE WikiMarkers_proofs --------------------------
(***************************************************************************)
(* The pending markers of the pages are those of the open rows, for any    *)
(* pages, keys, chunks, blocks, decisions and kills: what a page shows,    *)
(* and what an operation carries to another page, has the marker of every  *)
(* row that asks about a block, but for the row that a step is about.      *)
(***************************************************************************)
EXTENDS Wiki_proofs

--------------------------------------------------------------------------------
(* Markers on pages, and the rows whose marker is to come or has gone.     *)

Awaits(r) ==
    \/ task.op = "run" /\ task.at \in {"found", "marker"} /\ r = task.r
    \/ At("apply", "write") /\ Does("merge") /\ r = task.f
    \/ task.op = "apply" /\ task.at \in {"emit", "applied"} /\ r = task.r
Asks(r, b) == rows[r].peer = "none" /\ rows[r].candidate # NoCandidate /\ rows[r].existing = b
MarkedBy(b) == {r \in Open : ~Awaits(r) /\ Asks(r, b)}
Marking(blocks) == \A b \in DOMAIN blocks : blocks[b].pending = MarkedBy(b)

MarkInv ==
    /\ \A p \in Pages \ broken : Marking(file[p].blocks)
    /\ Carries => task.p \in broken \/ Marking(task.blocks)
    /\ Renames => task.p \in broken \/ Marking(task.moved.blocks)

(* What is known of such a row.                                            *)
FoundInv ==
    task.op = "run" /\ task.at \in {"found", "marker"} =>
        {"r", "id", "p"} \subseteq DOMAIN task /\ task.r \in Open /\ Asks(task.r, task.id) /\ Sited(task.id, task.p)
DecidedInv ==
    task.op = "apply" => \A r \in DOMAIN task.d : ~task.read[r].applied /\ (task.d[r] = "merge" => ~IsStale(r))
WrittenInv ==
    /\ task.op = "apply" /\ task.at \in {"emit", "applied"} => "r" \in DOMAIN task /\ task.r \in DOMAIN task.d
    /\ At("apply", "write") =>
          /\ Takes => \A r \in Rows : ~Asks(r, task.id)
          /\ Does("merge") => task.f \in Open \ {task.r} /\ Asks(task.f, Row.existing)
DueInv == FoundInv /\ DecidedInv /\ WrittenInv

MarksInv == MarkInv /\ DueInv

(* No marker is to come, and the rows ask what they did.                   *)
Calm == \A r : ~Awaits(r)
RowsAsk ==
    \A r \in Rows : /\ r \in Rows' /\ rows'[r].peer = rows[r].peer /\ rows'[r].candidate = rows[r].candidate
                    /\ rows'[r].existing = rows[r].existing /\ rows'[r].applied = rows[r].applied
SameMarks == \A b : MarkedBy(b)' = MarkedBy(b)
PendingStays == \A p \in Pages : \A b \in On(p)' : b \in On(p) /\ file'[p].blocks[b].pending = file[p].blocks[b].pending

(* The markers stay when the same rows ask, and as many are awaited ...    *)
LEMMA MarksOfRows ==
    ASSUME RowsAsk, \A r \in Rows : \A b : Asks(r, b) => (Awaits(r)' <=> Awaits(r)),
           \A r \in Rows' \ Rows : \A b : Awaits(r)' \/ ~Asks(r, b)'
    PROVE  SameMarks
<1>1. ASSUME NEW b, NEW r
      PROVE  r \in MarkedBy(b)' <=> r \in MarkedBy(b)
  <2>1. r \in MarkedBy(b) <=> r \in Rows /\ ~rows[r].applied /\ ~Awaits(r) /\ Asks(r, b)
    BY DEF MarkedBy, Open
  <2>2. r \in MarkedBy(b)' <=> r \in Rows' /\ ~rows'[r].applied /\ ~Awaits(r)' /\ Asks(r, b)'
    BY DEF MarkedBy, Open
  <2>3. CASE r \in Rows
    <3>1. r \in Rows' /\ rows'[r].applied = rows[r].applied /\ (Asks(r, b)' <=> Asks(r, b))
      BY <2>3 DEF RowsAsk, Asks
    <3> QED  BY <2>1, <2>2, <2>3, <3>1
  <2>4. CASE r \notin Rows
    BY <2>1, <2>2, <2>4
  <2> QED  BY <2>3, <2>4
<1> QED  BY <1>1 DEF SameMarks

(* ... above all when no row changes and none is awaited.                  *)
LEMMA MarksOfSameRows ==
    ASSUME RowsAsk, Rows' = Rows, Calm, Calm'
    PROVE  SameMarks
  BY MarksOfRows DEF Calm

(* Rows that do not change ask what they did.                              *)
LEMMA SameRowsAsk ==
    ASSUME UNCHANGED rows
    PROVE  RowsAsk /\ Rows' = Rows
  BY DEF RowsAsk, Rows

(* Markers stay on pages that are the same.                                *)
LEMMA SamePagesPending ==
    ASSUME SamePages
    PROVE  PendingStays
  BY DEF SamePages, SamePage, SameBlock, PendingStays, On

(* A step that leaves the markers and the pages as they are, and carries nothing. *)
LEMMA QuietMarks ==
    ASSUME MarkInv, SameMarks, PendingStays, broken \subseteq broken', ~Carries', ~Renames'
    PROVE  MarkInv'
<1>1. ASSUME NEW p \in Pages \ broken'
      PROVE  Marking(file[p].blocks)'
  <2>1. Marking(file[p].blocks)
    BY <1>1 DEF MarkInv
  <2> QED  BY <2>1 DEF Marking, SameMarks, PendingStays, On
<1> QED  BY <1>1 DEF MarkInv

(* Nothing is due of a run that has no row at hand, and of a taxonomy operation. *)
LEMMA NothingDue ==
    ASSUME task'.op # "apply", task'.op = "run" => task'.at \notin {"found", "marker"}
    PROVE  DueInv' /\ Calm'
  BY DEF DueInv, FoundInv, DecidedInv, WrittenInv, Calm, Awaits, At

(* Nor of decisions that go on, between two rows.                          *)
LEMMA DecidedStays ==
    ASSUME WikiInv, DueInv, task.op = "apply", GoesOn, RowsStand
    PROVE  DecidedInv' /\ FoundInv'
<1>1. DOMAIN task.d \subseteq Rows
  BY DEF WikiInv, RowInv, ReadInv
<1>2. \A r \in Rows : IsStale(r)' <=> IsStale(r)
  BY DEF RowsStand, IsStale, IsTaxonomy
<1>3. DecidedInv'
  BY <1>1, <1>2 DEF DueInv, DecidedInv, GoesOn
<1>4. FoundInv'
  BY DEF GoesOn, FoundInv
<1> QED  BY <1>3, <1>4

(* ... unless it is written.                                               *)
LEMMA DecisionsDue ==
    ASSUME WikiInv, DueInv, task.op = "apply", GoesOn, RowsStand, task'.at \notin {"write", "emit", "applied"}
    PROVE  DueInv' /\ Calm'
<1>1. WrittenInv' /\ Calm'
  BY DEF GoesOn, WrittenInv, Calm, Awaits, At
<1> QED  BY <1>1, DecidedStays DEF DueInv

(* A block of a row that is awaited is on no page but that of the row.     *)
LEMMA DueHome ==
    ASSUME WikiInv, HomeInv, DueInv, NEW r \in Rows, Awaits(r), NEW b, Asks(r, b), NEW q \in Pages \ broken, b \in On(q)
    PROVE  /\ task.op = "run" => q = task.p
           /\ task.op = "apply" => task.r \in DOMAIN task.d /\ q = rows[task.r].page
           /\ At("apply", "write") => q = task.p
<1>1. b \in Known
  BY DEF WikiInv, IdsInv, Asks
<1>2. Sited(b, q) /\ ~Merges({"rows"})
  BY <1>1 DEF HomeInv, HomeFiles, ShownAt, Awaits, Unregistered, Merges, Splits, At
<1>3. block[b].page = q
  BY <1>2 DEF Sited
<1>4. CASE task.op = "run"
  <2>1. task.at \in {"found", "marker"} /\ r = task.r
    BY <1>4 DEF Awaits, At
  <2>2. b = task.id /\ Sited(b, task.p)
    BY <1>4, <2>1 DEF DueInv, FoundInv, Asks
  <2> QED  BY <1>3, <1>4, <2>2 DEF Sited, At
<1>5. CASE task.op = "apply"
  <2>1. Stands(b)
    BY <1>1 DEF Stands
  <2>2. CASE task.at = "write"
    <3>1. r = task.f /\ Does("merge")
      BY <1>5, <2>2 DEF Awaits, At
    <3>2. b = Row.existing
      BY <1>5, <2>2, <3>1 DEF DueInv, WrittenInv, At, Asks
    <3>3. task.p \in Pages /\ b \in On(task.p) /\ (rows[task.r].page = task.p \/ task.p \in broken)
      BY <1>5, <2>2, <3>2 DEF HomeInv, StageHome, ApplyHome
    <3>4. ShownAt(task.p, b) /\ ~Unregistered
      BY <1>1, <1>5, <2>2, <3>3 DEF HomeInv, HomeFiles, Unregistered, Merges, Splits
    <3>5. Sited(b, task.p)
      BY <3>4 DEF ShownAt
    <3>6. task.r \in DOMAIN task.d
      BY <1>5, <2>2, RowFacts
    <3> QED  BY <1>3, <1>5, <3>3, <3>5, <3>6 DEF Sited
  <2>3. CASE task.at # "write"
    <3>1. task.at \in {"emit", "applied"} /\ r = task.r
      BY <1>5, <2>3 DEF Awaits, At
    <3>2. RowAt(rows[r].page, b)
      BY <2>1 DEF HomeInv, HomeRows, Asks
    <3>3. Sited(b, rows[r].page)
      BY <1>2, <3>2 DEF RowAt
    <3>4. task.r \in DOMAIN task.d
      BY <1>5, <3>1 DEF DueInv, WrittenInv
    <3> QED  BY <1>3, <1>5, <2>3, <3>1, <3>3, <3>4 DEF Sited, At
  <2> QED  BY <2>2, <2>3
<1>6. task.op \in {"run", "apply"}
  BY DEF Awaits, At
<1> QED  BY <1>4, <1>5, <1>6

(* A page is written, and the others show the markers that they did.       *)
LEMMA OnePageMarked ==
    ASSUME FileShape, MarkInv, NEW p, NEW g, file' = [file EXCEPT ![p] = g], broken \subseteq broken', ~Carries', ~Renames',
           p \in Pages \ broken' => \A b \in DOMAIN g.blocks : g.blocks[b].pending = MarkedBy(b)',
           \A q \in Pages \ (broken' \cup {p}) : \A b \in On(q) : MarkedBy(b)' = MarkedBy(b)
    PROVE  MarkInv'
<1>1. ASSUME NEW q \in Pages \ broken'
      PROVE  Marking(file[q].blocks)'
  <2>1. CASE q = p
    BY <1>1, <2>1 DEF Marking, FileShape
  <2>2. CASE q # p
    <3>1. file'[q] = file[q] /\ Marking(file[q].blocks)
      BY <1>1, <2>2 DEF MarkInv, FileShape
    <3> QED  BY <1>1, <2>2, <3>1 DEF Marking, On
  <2> QED  BY <2>1, <2>2
<1> QED  BY <1>1 DEF MarkInv

(* ... and it shows its blocks with the markers that it did.               *)
LEMMA OnePagePending ==
    ASSUME FileShape, NEW p, NEW g, file' = [file EXCEPT ![p] = g],
           p \in Pages => \A b \in DOMAIN g.blocks : b \in On(p) /\ g.blocks[b].pending = file[p].blocks[b].pending
    PROVE  PendingStays
<1>1. ASSUME NEW q \in Pages, NEW b \in On(q)'
      PROVE  b \in On(q) /\ file'[q].blocks[b].pending = file[q].blocks[b].pending
  <2>1. CASE q = p
    BY <1>1, <2>1 DEF On, FileShape
  <2>2. CASE q # p
    BY <1>1, <2>2 DEF On, FileShape
  <2> QED  BY <2>1, <2>2
<1> QED  BY <1>1 DEF PendingStays

(* A step of a run, to one that has no row at hand.                        *)
LEMMA RunMarks ==
    ASSUME MarkInv, SameMarks, PendingStays, broken \subseteq broken',
           task' = Idle \/ (task'.op = "run" /\ task'.at \notin {"found", "marker", "target", "source", "new"})
    PROVE  MarksInv'
<1>1. ~Carries' /\ ~Renames' /\ task'.op # "apply" /\ (task'.op = "run" => task'.at \notin {"found", "marker"})
  BY DEF Carries, Renames, Idle
<1> QED  BY <1>1, QuietMarks, NothingDue DEF MarksInv

(* No marker is to come while a run has no row at hand.                    *)
LEMMA RunCalm ==
    ASSUME task = Idle \/ (task.op = "run" /\ task.at \notin {"found", "marker"}) \/ task.op = "taxonomy"
    PROVE  Calm
  BY DEF Calm, Awaits, At, Idle

(* A run starts: statuses are shown, and markers stay.                     *)
LEMMA StartRunMarks ==
    ASSUME WikiInv, MarksInv, StartRun
    PROVE  MarksInv'
<1>1. task = Idle /\ UNCHANGED <<rows, broken>> /\ file' = sync_block_statuses(Marked) /\ task'.op = "run" /\ task'.at = "next"
  BY DEF StartRun
<1>2. ASSUME NEW p \in Pages, NEW b \in On(p)'
      PROVE  b \in On(p) /\ file'[p].blocks[b].pending = file[p].blocks[b].pending
  <2>1. SamePage(file[p], Marked[p]) /\ IsPage(Marked[p])
    BY <1>2, SameMarked, KeptMarked DEF WikiInv, Shapes, FileShape, Kept
  <2>2. PICK g : g = Marked[p]
    OBVIOUS
  <2> DEFINE blocks == [c \in DOMAIN g.blocks |->
               IF c \in BlocksOf(p) /\ block[c].status = "needs_review" THEN [g.blocks[c] EXCEPT !.status = "needs_review"] ELSE g.blocks[c]]
  <2>3. file'[p] = [g EXCEPT !.blocks = blocks]
    BY <1>1, <1>2, <2>2 DEF sync_block_statuses
  <2>4. file'[p].blocks = blocks
    BY <2>1, <2>2, <2>3 DEF IsPage
  <2>5. DOMAIN g.blocks = On(p) /\ \A c \in On(p) : g.blocks[c].pending = file[p].blocks[c].pending /\ IsBlock(g.blocks[c])
    BY <2>1, <2>2 DEF SamePage, SameBlock, On, IsPage, IsBlocks
  <2>6. \A c \in On(p) : blocks[c].pending = g.blocks[c].pending
    BY <2>5 DEF IsBlock
  <2>7. DOMAIN blocks = On(p)
    BY <2>5
  <2> HIDE DEF blocks
  <2> QED  BY <1>2, <2>4, <2>5, <2>6, <2>7 DEF On
<1>3. PendingStays
  BY <1>2 DEF PendingStays
<1>4. SameMarks
  BY <1>1, SameRowsAsk, RunCalm, NothingDue, MarksOfSameRows
<1> QED  BY <1>1, <1>3, <1>4, RunMarks DEF MarksInv

(* A step of a run that leaves the rows and the markers.                   *)
LEMMA RunMarksStay ==
    ASSUME MarksInv, task.op = "run", task.at \notin {"found", "marker"}, UNCHANGED rows, PendingStays, broken \subseteq broken',
           task' = Idle \/ (task'.op = "run" /\ task'.at \notin {"found", "marker", "target", "source", "new"})
    PROVE  MarksInv'
<1>1. task'.op # "apply" /\ (task'.op = "run" => task'.at \notin {"found", "marker"})
  BY DEF Idle
<1>2. SameMarks
  BY <1>1, SameRowsAsk, RunCalm, NothingDue, MarksOfSameRows
<1> QED  BY <1>2, RunMarks DEF MarksInv

(* A candidate turns out to be new, or a duplicate.                        *)
LEMMA PlaceMarks ==
    ASSUME WikiInv, MarksInv, NEW cs, NEW k, NEW p, PlaceClean(cs, k, p) \/ PlaceDuplicate(cs, k, p)
    PROVE  MarksInv'
<1>1. task.op = "run" /\ task.at = "next" /\ UNCHANGED <<rows, broken>>
  BY DEF PlaceClean, PlaceDuplicate, historyVars, At
<1>2. CASE PlaceClean(cs, k, p)
  <2>1. PICK more : more = [k |-> k, p |-> p, id |-> NextBlock, again |-> FALSE]
    OBVIOUS
  <2>2. DOMAIN more = {"k", "p", "id", "again"} /\ Turn(cs, "read", more)
    BY <1>2, <2>1 DEF PlaceClean
  <2>3. task'.op = "run" /\ task'.at = "read"
    BY <2>2, TurnTask
  <2>4. PendingStays
    BY <1>2, SameFilesSamePages, SamePagesPending DEF PlaceClean
  <2> QED  BY <1>1, <2>3, <2>4, RunMarksStay
<1>3. CASE PlaceDuplicate(cs, k, p)
  <2>1. PICK todo : Run("next", todo, NoBlocks)
    BY <1>3 DEF PlaceDuplicate
  <2>2. task'.op = "run" /\ task'.at = "next"
    BY <2>1, RunTask DEF NoBlocks
  <2>3. PICK q, b : UNCHANGED file \/ file' = [file EXCEPT ![q] = set_status(file[q], b, "current")]
    BY <1>3 DEF PlaceDuplicate
  <2>4. CASE UNCHANGED file
    BY <1>1, <2>2, <2>4, SameFilesSamePages, SamePagesPending, RunMarksStay
  <2>5. CASE file' = [file EXCEPT ![q] = set_status(file[q], b, "current")]
    <3>1. PICK g : g = set_status(file[q], b, "current")
      OBVIOUS
    <3>2. q \in Pages => DOMAIN g.blocks = On(q) /\ \A c \in On(q) : g.blocks[c].pending = file[q].blocks[c].pending
      BY <3>1, StatusOfOne DEF WikiInv, Shapes, FileShape, On
    <3>3. PendingStays
      BY <2>5, <3>1, <3>2, OnePagePending DEF WikiInv, Shapes
    <3> QED  BY <1>1, <2>2, <3>3, RunMarksStay
  <2> QED  BY <2>3, <2>4, <2>5
<1> QED  BY <1>2, <1>3

(* What a row is that comes.                                               *)
LEMMA RowComes ==
    ASSUME IdsInv, NEW v, rows' = Put(rows, Cardinality(Rows) + 1, v)
    PROVE  /\ RowsAsk /\ RowsStand /\ Cardinality(Rows) + 1 \notin Rows /\ Rows' = Rows \cup {Cardinality(Rows) + 1}
           /\ rows'[Cardinality(Rows) + 1] = v
<1>1. PICK n : n = Cardinality(Rows) + 1
  OBVIOUS
<1>2. n \notin Rows
  BY <1>1, NextIsNew
<1>3. DOMAIN rows' = Rows \cup {n} /\ rows'[n] = v /\ \A r \in Rows \ {n} : rows'[r] = rows[r]
  BY <1>1 DEF Put, With, Rows
<1> QED  BY <1>1, <1>2, <1>3 DEF RowsAsk, RowsStand, Rows

(* A candidate contradicts a block: its row has a marker to come.          *)
LEMMA PlaceConflictMarks ==
    ASSUME WikiInv, MarksInv, NEW cs, NEW k, NEW p, PlaceConflict(cs, k, p)
    PROVE  MarksInv'
<1>1. task.op = "run" /\ task.at = "next" /\ UNCHANGED <<file, block, broken>> /\ NextBlock \in Blocks
  BY DEF PlaceConflict, historyVars, At
<1>2. PICK b, q, key, n :
         /\ q = block[b].page /\ n = Cardinality(Rows) + 1
         /\ rows' = Put(rows, Cardinality(Rows) + 1,
                        [page |-> q, existing |-> b, peer |-> "none", applied |-> FALSE,
                         candidate |-> [id |-> NextBlock, key |-> key, chunks |-> cs]])
         /\ Turn(cs, "found", [p |-> q, id |-> b, r |-> n])
  BY DEF PlaceConflict
<1>3. PICK v : v = [page |-> q, existing |-> b, peer |-> "none", applied |-> FALSE,
                    candidate |-> [id |-> NextBlock, key |-> key, chunks |-> cs]]
  OBVIOUS
<1>4. v.peer = "none" /\ v.existing = b /\ v.applied = FALSE /\ v.candidate.id = NextBlock
  BY <1>3
<1>5. v.candidate # NoCandidate
  BY <1>1, <1>4 DEF NoCandidate, Blocks
<1>6. RowsAsk /\ n \notin Rows /\ Rows' = Rows \cup {n} /\ rows'[n] = v
  BY <1>2, <1>3, RowComes DEF WikiInv
<1>7. task'.op = "run" /\ task'.at = "found" /\ task'.p = q /\ task'.id = b /\ task'.r = n
      /\ {"r", "id", "p"} \subseteq DOMAIN task'
  <2>1. PICK more : more = [p |-> q, id |-> b, r |-> n]
    OBVIOUS
  <2>2. DOMAIN more = {"p", "id", "r"} /\ Turn(cs, "found", more) /\ more.p = q /\ more.id = b /\ more.r = n
    BY <1>2, <2>1
  <2> QED  BY <2>2, TurnTask
<1>8. Calm /\ \A r : Awaits(r)' <=> r = n
  BY <1>1, <1>7, RunCalm DEF Awaits, At
<1>9. SameMarks
  BY <1>6, <1>8, MarksOfRows DEF Calm
<1>10. MarkInv'
  <2>1. ~Carries' /\ ~Renames'
    BY <1>7 DEF Carries, Renames
  <2> QED  BY <1>1, <1>9, <2>1, SameFilesSamePages, SamePagesPending, QuietMarks DEF MarksInv
<1>11. FoundInv'
  BY <1>1, <1>2, <1>4, <1>5, <1>6, <1>7 DEF FoundInv, Asks, Open, Rows, Sited
<1>12. DecidedInv' /\ WrittenInv'
  BY <1>7 DEF DecidedInv, WrittenInv, At
<1> QED  BY <1>10, <1>11, <1>12 DEF MarksInv, DueInv

(* A page is read, a conflict with an edit found, the row of a new block committed. *)
LEMMA InsertMarks ==
    ASSUME WikiInv, MarksInv, ReadPage \/ WriteConflict \/ create_block
    PROVE  MarksInv'
<1>1. task.op = "run" /\ task.at \in {"read", "write", "create"} /\ task # Idle /\ UNCHANGED <<rows, broken>>
      /\ {"op", "at"} \subseteq DOMAIN task
  BY DEF ReadPage, WriteConflict, create_block, storeVars, historyVars, At, Idle, WikiInv, TaskInv
<1>2. UNCHANGED file \/ file' = Marked
  BY DEF ReadPage, WriteConflict, create_block, storeVars
<1>3. task'.op = "run" /\ task'.at \in {"write", "next", "read", "place"}
  <2>1. CASE ReadPage
    <3>1. PICK f, more : f = [task EXCEPT !.at = "write"] /\ more = [old |-> file[task.p]]
      OBVIOUS
    <3>2. task' = With(f, more) /\ DOMAIN more = {"old"}
      BY <2>1, <3>1 DEF ReadPage
    <3>3. {"op", "at"} \subseteq DOMAIN f /\ f.op = "run" /\ f.at = "write"
      BY <1>1, <3>1
    <3> QED  BY <3>2, <3>3 DEF With
  <2>2. CASE WriteConflict
    <3>1. CASE Run("next", {}, NoBlocks)
      BY <3>1, RunTask DEF NoBlocks
    <3>2. CASE task' = [task EXCEPT !.at = "read", !.again = TRUE]
      BY <1>1, <3>2
    <3> QED  BY <2>2, <3>1, <3>2 DEF WriteConflict
  <2>3. CASE create_block
    BY <1>1, <2>3, GotoTask DEF create_block, WikiInv
  <2> QED  BY <2>1, <2>2, <2>3
<1>4. PendingStays
  BY <1>2, SameFilesSamePages, MarkedSame, SamePagesPending DEF WikiInv, Shapes
<1> QED  BY <1>1, <1>3, <1>4, RunMarksStay

(* A block is written that no row is about.                                *)
LEMMA WriteBlockMarks ==
    ASSUME WikiInv, HomeInv, MarksInv, WriteBlock
    PROVE  MarksInv'
<1>1. task.op = "run" /\ task.at = "write" /\ task # Idle /\ UNCHANGED <<block, rows, broken>> /\ Goto("create")
  BY DEF WriteBlock, historyVars, At, Idle
<1>2. /\ {"op", "at", "id", "p", "k"} \subseteq DOMAIN task /\ task.id = NextBlock /\ task.p \in Pages
  BY <1>1 DEF WikiInv, TaskInv, NextInv, HomeInv, StageHome, RunHome
<1>3. task'.at = "create" /\ task'.op = "run"
  BY <1>1, <1>2, GotoTask DEF WikiInv
<1>4. PICK v, g : v = Drafted(task.k, "current") /\ g = insert_block(file[task.p], task.id, v)
  OBVIOUS
<1>5. IsBlock(v) /\ v.pending = {}
  BY <1>4 DEF Drafted, IsBlock
<1>6. task.id \notin Known /\ \A q \in Pages : task.id \notin On(q)
  BY <1>1, <1>2, NextIsNew DEF WikiInv, PlacesInv, Writing, At
<1>7. file' = [file EXCEPT ![task.p] = g]
  BY <1>4 DEF WriteBlock, write_page
<1>8. /\ DOMAIN g.blocks = On(task.p) \cup {task.id} /\ g.blocks[task.id] = v
      /\ \A c \in On(task.p) : g.blocks[c] = file[task.p].blocks[c]
  BY <1>2, <1>4, <1>5, <1>6, OneBlockMore DEF WikiInv, Shapes, FileShape, On
<1>9. SameMarks
  BY <1>1, <1>3, SameRowsAsk, RunCalm, NothingDue, MarksOfSameRows
<1>10. MarkedBy(task.id) = {}
  BY <1>6 DEF WikiInv, IdsInv, MarkedBy, Asks, Open
<1>11. task.p \notin broken => \A b \in DOMAIN g.blocks : g.blocks[b].pending = MarkedBy(b)'
  <2>1. ASSUME task.p \notin broken, NEW b \in On(task.p)
        PROVE  file[task.p].blocks[b].pending = MarkedBy(b)
    BY <1>2, <2>1 DEF MarksInv, MarkInv, Marking, On
  <2> QED  BY <1>5, <1>6, <1>8, <1>9, <1>10, <2>1 DEF SameMarks
<1>12. ~Carries' /\ ~Renames'
  BY <1>3 DEF Carries, Renames
<1>13. MarkInv'
  BY <1>1, <1>7, <1>9, <1>11, <1>12, OnePageMarked DEF MarksInv, SameMarks, WikiInv, Shapes
<1> QED  BY <1>3, <1>13, NothingDue DEF MarksInv

(* An operation ends where it is: a block whose marker is still to come is on pages that are broken. *)
LEMMA EndMarks ==
    ASSUME WikiInv, HomeInv, MarksInv, UNCHANGED <<file, rows>>, broken \subseteq broken', Calm', ~Carries', ~Renames',
           task.op = "run" /\ task.at \in {"found", "marker"} => task.p \in broken',
           At("apply", "write") => task.p \in broken',
           task.op = "apply" /\ task.at \in {"emit", "applied"} => rows[task.r].page \in broken'
    PROVE  MarkInv'
<1>1. ASSUME NEW q \in Pages \ broken', NEW b \in On(q)
      PROVE  file[q].blocks[b].pending = MarkedBy(b)'
  <2>1. ASSUME NEW r \in Rows, Awaits(r), Asks(r, b)
        PROVE  FALSE
    <3>1. /\ task.op = "run" => q = task.p
          /\ task.op = "apply" => task.r \in DOMAIN task.d /\ q = rows[task.r].page
          /\ At("apply", "write") => q = task.p
      BY <1>1, <2>1, DueHome DEF MarksInv
    <3> QED  BY <1>1, <2>1, <3>1 DEF Awaits, At
  <2>2. MarkedBy(b)' = MarkedBy(b)
    BY <2>1 DEF MarkedBy, Open, Rows, Asks, Calm
  <2>3. file[q].blocks[b].pending = MarkedBy(b)
    BY <1>1 DEF MarksInv, MarkInv, Marking, On
  <2> QED  BY <2>2, <2>3
<1>2. \A q \in Pages \ broken' : Marking(file[q].blocks)'
  BY <1>1 DEF Marking, On
<1> QED  BY <1>2 DEF MarkInv

(* The marker of a conflict comes to the block that its row is about.      *)
LEMMA apply_pending_conflict_markerMarks ==
    ASSUME WikiInv, HomeInv, MarksInv, apply_pending_conflict_marker
    PROVE  MarksInv'
<1>1. task.op = "run" /\ task.at = "marker" /\ task # Idle /\ UNCHANGED <<block, rows>> /\ broken \subseteq broken'
  BY DEF apply_pending_conflict_marker, At, Idle
<1>2. task.r \in Rows /\ task.r \in Open /\ Asks(task.r, task.id) /\ \A r : Awaits(r) <=> r = task.r
  BY <1>1 DEF MarksInv, DueInv, FoundInv, Awaits, At, Open
<1>3. CASE write_page(task.p, List(add_pending_marker(task.old, task.id, task.r), task.p)) /\ Goto("conflicted")
  <2>1. PICK f, g : f = add_pending_marker(file[task.p], task.id, task.r) /\ g = List(f, task.p)
    OBVIOUS
  <2>2. file' = [file EXCEPT ![task.p] = g]
    BY <1>3, <2>1 DEF write_page
  <2>3. task'.op = "run" /\ task'.at = "conflicted"
    BY <1>1, <1>3, GotoTask DEF WikiInv
  <2>4. Calm' /\ DueInv' /\ ~Carries' /\ ~Renames'
    BY <2>3, NothingDue DEF Carries, Renames
  <2>5. \A b : MarkedBy(b)' = IF b = task.id THEN MarkedBy(b) \cup {task.r} ELSE MarkedBy(b)
    <3>1. ASSUME NEW b, NEW r
          PROVE  r \in MarkedBy(b)' <=> r \in MarkedBy(b) \/ (b = task.id /\ r = task.r)
      BY <1>1, <1>2, <2>4 DEF Calm, MarkedBy, Open, Rows, Asks
    <3> QED  BY <3>1
  <2>6. task.p \in Pages \ broken' => \A b \in DOMAIN g.blocks : g.blocks[b].pending = MarkedBy(b)'
    <3>1. SUFFICES ASSUME task.p \in Pages \ broken' PROVE \A b \in DOMAIN g.blocks : g.blocks[b].pending = MarkedBy(b)'
      OBVIOUS
    <3>2. IsPage(file[task.p]) /\ \A b \in On(task.p) : file[task.p].blocks[b].pending = MarkedBy(b)
      BY <1>1, <3>1 DEF WikiInv, Shapes, FileShape, MarksInv, MarkInv, Marking, On
    <3>3. Repending(file[task.p], task.id, file[task.p].blocks[task.id].pending \cup {task.r}, f)
      BY <2>1, <3>2, MarkerOfOne
    <3>4. IsPage(f) /\ DOMAIN f.blocks = On(task.p)
          /\ \A b \in On(task.p) : f.blocks[b].pending = IF b = task.id THEN file[task.p].blocks[task.id].pending \cup {task.r}
                                                         ELSE file[task.p].blocks[b].pending
      BY <3>3 DEF Repending, On
    <3>5. g.blocks = f.blocks
      BY <2>1, <3>4 DEF List, IsPage
    <3> QED  BY <2>5, <3>2, <3>4, <3>5
  <2>7. \A q \in Pages \ (broken' \cup {task.p}) : \A b \in On(q) : MarkedBy(b)' = MarkedBy(b)
    <3>1. ASSUME NEW q \in Pages \ (broken' \cup {task.p}), NEW b \in On(q)
          PROVE  b # task.id
      BY <1>1, <1>2, <3>1, DueHome DEF MarksInv
    <3> QED  BY <2>5, <3>1
  <2>8. MarkInv'
    BY <1>1, <2>2, <2>4, <2>6, <2>7, OnePageMarked DEF MarksInv, WikiInv, Shapes
  <2> QED  BY <2>4, <2>8 DEF MarksInv
<1>4. CASE Run("next", {}, NoBlocks) /\ UNCHANGED file /\ broken' = broken \cup {task.p}
  <2>1. task'.op = "run" /\ task'.at = "next"
    BY <1>4, RunTask DEF NoBlocks
  <2>2. Calm' /\ DueInv' /\ ~Carries' /\ ~Renames'
    BY <2>1, NothingDue DEF Carries, Renames
  <2> QED  BY <1>1, <1>4, <2>2, EndMarks DEF MarksInv, At
<1> QED  BY <1>3, <1>4 DEF apply_pending_conflict_marker

(* The page is read that is to get a marker.                               *)
LEMMA ReadMarkedMarks ==
    ASSUME WikiInv, MarksInv, ReadMarked
    PROVE  MarksInv'
<1>1. task.op = "run" /\ task.at = "found" /\ task # Idle /\ UNCHANGED <<file, block, rows, broken>>
  BY DEF ReadMarked, storeVars, historyVars, At, Idle
<1>2. task.r \in Open /\ Asks(task.r, task.id) /\ Sited(task.id, task.p)
  BY <1>1 DEF MarksInv, DueInv, FoundInv
<1>3. {"op", "at", "r", "id", "p"} \subseteq DOMAIN task
  BY <1>1 DEF WikiInv, TaskInv, MarksInv, DueInv, FoundInv
<1>4. {"r", "id", "p"} \subseteq DOMAIN task' /\ task'.op = "run" /\ task'.at = "marker" /\ task'.r = task.r /\ task'.id = task.id /\ task'.p = task.p
  <2>1. PICK f, more : f = [task EXCEPT !.at = "marker", !.mine = @ \cup {task.r}] /\ more = [old |-> file[task.p]]
    OBVIOUS
  <2>2. task' = With(f, more) /\ DOMAIN more = {"old"}
    BY <2>1 DEF ReadMarked
  <2>3. DOMAIN f = DOMAIN task /\ f.op = "run" /\ f.at = "marker"
        /\ \A x \in DOMAIN task \ {"at", "mine"} : f[x] = task[x]
    BY <1>1, <1>3, <2>1
  <2>4. DOMAIN task' = DOMAIN f \cup {"old"} /\ \A x \in DOMAIN f \ {"old"} : task'[x] = f[x]
    BY <2>2 DEF With
  <2> QED  BY <1>3, <2>3, <2>4
<1>5. \A r : Awaits(r)' <=> Awaits(r)
  BY <1>1, <1>4 DEF Awaits, At
<1>6. SameMarks
  BY <1>1, <1>5, SameRowsAsk, MarksOfRows
<1>7. ~Carries' /\ ~Renames'
  BY <1>4 DEF Carries, Renames
<1>8. MarkInv'
  BY <1>1, <1>6, <1>7, SameFilesSamePages, SamePagesPending, QuietMarks DEF MarksInv
<1>9. FoundInv'
  BY <1>1, <1>2, <1>4 DEF FoundInv, Open, Rows, Asks, Sited
<1>10. DecidedInv' /\ WrittenInv'
  BY <1>4 DEF DecidedInv, WrittenInv, At
<1> QED  BY <1>8, <1>9, <1>10 DEF MarksInv, DueInv

(* A row that asks for no marker comes: about a stale block, or two pages. *)
LEMMA OtherRowMarks ==
    ASSUME WikiInv, MarksInv, task.op = "run", task.at = "next", UNCHANGED <<file, broken>>,
           NEW v, rows' = Put(rows, Cardinality(Rows) + 1, v), v.peer # "none" \/ v.candidate = NoCandidate,
           task'.op = "run", task'.at \in {"next", "list"}
    PROVE  MarksInv'
<1>1. PICK n : n = Cardinality(Rows) + 1
  OBVIOUS
<1>2. RowsAsk /\ n \notin Rows /\ Rows' = Rows \cup {n} /\ rows'[n] = v
  BY <1>1, RowComes DEF WikiInv
<1>3. Calm /\ Calm'
  BY RunCalm, NothingDue
<1>4. \A b : ~Asks(n, b)'
  BY <1>2 DEF Asks
<1>5. SameMarks
  BY <1>2, <1>3, <1>4, MarksOfRows DEF Calm
<1> QED  BY <1>5, SameFilesSamePages, SamePagesPending, RunMarks DEF MarksInv

(* Rows about pages that look alike, and about stale blocks.               *)
LEMMA ReviewRowMarks ==
    ASSUME WikiInv, MarksInv, NEW p \in Pages, NEW q \in Pages, TaxonomyRow(p, q) \/ create_stale_block_reviews
    PROVE  MarksInv'
<1>1. task.op = "run" /\ task.at = "next" /\ task # Idle /\ UNCHANGED <<file, broken>> /\ {"op", "at"} \subseteq DOMAIN task
  BY DEF TaxonomyRow, create_stale_block_reviews, historyVars, At, Idle, WikiInv, TaskInv
<1>2. CASE TaxonomyRow(p, q)
  <2>1. PICK v : v = [page |-> p, existing |-> 0, peer |-> q, applied |-> FALSE, candidate |-> NoCandidate]
    OBVIOUS
  <2>2. rows' = Put(rows, Cardinality(Rows) + 1, v) /\ v.candidate = NoCandidate
    BY <1>2, <2>1 DEF TaxonomyRow
  <2>3. PICK mine : task' = [task EXCEPT !.mine = mine]
    BY <1>2 DEF TaxonomyRow
  <2>4. task'.op = "run" /\ task'.at = "next"
    BY <1>1, <2>3
  <2> QED  BY <1>1, <2>2, <2>4, OtherRowMarks
<1>3. CASE create_stale_block_reviews
  <2>1. CASE Goto("emit") /\ UNCHANGED rows
    <3>1. task'.op = "run" /\ task'.at = "emit"
      BY <1>1, <2>1, GotoTask DEF WikiInv
    <3> QED  BY <1>1, <2>1, <3>1, SameFilesSamePages, SamePagesPending, RunMarksStay
  <2>2. CASE ~(Goto("emit") /\ UNCHANGED rows)
    <3>1. PICK b, mine :
             /\ rows' = Put(rows, Cardinality(Rows) + 1,
                            [page |-> block[b].page, existing |-> b, peer |-> "none", applied |-> FALSE, candidate |-> NoCandidate])
             /\ Run("list", {}, [p |-> block[b].page, mine |-> mine, had_work |-> FALSE])
      BY <1>3, <2>2 DEF create_stale_block_reviews
    <3>2. PICK v : v = [page |-> block[b].page, existing |-> b, peer |-> "none", applied |-> FALSE, candidate |-> NoCandidate]
      OBVIOUS
    <3>3. rows' = Put(rows, Cardinality(Rows) + 1, v) /\ v.candidate = NoCandidate
      BY <3>1, <3>2
    <3>4. PICK more : more = [p |-> block[b].page, mine |-> mine, had_work |-> FALSE]
      OBVIOUS
    <3>5. Run("list", {}, more) /\ DOMAIN more = {"p", "mine", "had_work"}
      BY <3>1, <3>4
    <3>6. task'.op = "run" /\ task'.at = "list"
      BY <3>5, RunTask
    <3> QED  BY <1>1, <3>3, <3>6, OtherRowMarks
  <2> QED  BY <2>1, <2>2
<1> QED  BY <1>2, <1>3

(* Steps of a run that write nothing about markers.                        *)
LEMMA QuietRunMarks ==
    ASSUME WikiInv, MarksInv, mark_placed \/ mark_conflicted_pending \/ emit_review_file \/ ListStale
    PROVE  MarksInv'
<1>1. task.op = "run" /\ task.at \in {"place", "conflicted", "emit", "list"} /\ task # Idle /\ UNCHANGED <<rows, broken>>
  BY DEF mark_placed, mark_conflicted_pending, emit_review_file, ListStale, storeVars, historyVars, At, Idle
<1>2. task'.op = "run" /\ task'.at \in {"next", "place", "render"}
  <2>1. CASE mark_placed
    <3>1. PICK cs : Run("next", task.todo, NoBlocks) \/ task' = [task EXCEPT !.cs = cs]
      BY <2>1 DEF mark_placed
    <3>2. CASE Run("next", task.todo, NoBlocks)
      BY <3>2, RunTask DEF NoBlocks
    <3>3. CASE task' = [task EXCEPT !.cs = cs]
      BY <2>1, <3>3 DEF mark_placed, At
    <3> QED  BY <3>1, <3>2, <3>3
  <2>2. CASE mark_conflicted_pending
    BY <2>2, RunTask DEF mark_conflicted_pending, NoBlocks
  <2>3. CASE emit_review_file
    BY <1>1, <2>3, GotoTask DEF emit_review_file, WikiInv
  <2>4. CASE ListStale
    BY <2>4, RunTask DEF ListStale, NoBlocks
  <2> QED  BY <2>1, <2>2, <2>3, <2>4
<1>3. PendingStays
  <2>1. CASE UNCHANGED file
    BY <2>1, SameFilesSamePages, SamePagesPending
  <2>2. CASE ListStale
    <3>1. PICK f : f = List(file[task.p], task.p)
      OBVIOUS
    <3>2. file' = [file EXCEPT ![task.p] = f]
      BY <2>2, <3>1 DEF ListStale
    <3>3. task.p \in Pages => SamePage(file[task.p], f)
      BY <3>1, SameListed DEF WikiInv, Shapes, FileShape
    <3> QED  BY <3>2, <3>3, OneFileSame, SamePagesPending DEF WikiInv, Shapes
  <2> QED  BY <2>1, <2>2 DEF mark_placed, mark_conflicted_pending, emit_review_file, storeVars
<1> QED  BY <1>1, <1>2, <1>3, RunMarksStay

(* Operations that end, or go on, with no row at hand.                     *)
LEMMA CalmMarks ==
    ASSUME WikiInv, MarksInv, Calm, RowsAsk, Rows' = Rows, RowsStand, PendingStays, broken \subseteq broken',
           ~Carries', ~Renames',
           task'.op = "run" => task'.at \notin {"found", "marker"},
           task'.op = "apply" => task.op = "apply" /\ GoesOn /\ task'.at \notin {"write", "emit", "applied"}
    PROVE  MarksInv'
<1>1. DueInv' /\ Calm'
  BY NothingDue, DecisionsDue DEF MarksInv
<1> QED  BY <1>1, MarksOfSameRows, QuietMarks DEF MarksInv

(* Rows that do not change stand.                                          *)
LEMMA SameRowsStand ==
    ASSUME UNCHANGED rows
    PROVE  RowsStand
  BY DEF RowsStand, Rows

(* The generated sections are written, and the wiki is committed.          *)
LEMMA RenderMarks ==
    ASSUME WikiInv, MarksInv, Render \/ CommitWiki
    PROVE  MarksInv'
<1>1. /\ task # Idle /\ task.at \in {"render", "commit"} /\ task.op \in {"run", "apply", "taxonomy"}
      /\ UNCHANGED <<rows, broken>> /\ {"op", "at"} \subseteq DOMAIN task
  BY DEF Render, CommitWiki, historyVars, At, Idle, WikiInv, TaskInv
<1>2. Calm
  BY <1>1 DEF Calm, Awaits, At
<1>3. SamePages
  BY SameFilesSamePages, SameRendered DEF SamePages, WikiInv, Shapes, FileShape, Render, CommitWiki
<1>4. task' = Idle \/ (task'.op = task.op /\ task'.at = "commit" /\ (task.op = "apply" => GoesOn))
  <2>1. CASE task' = Idle
    BY <2>1
  <2>2. CASE Goto("commit")
    BY <1>1, <2>2, GotoTask, GotoGoesOn DEF WikiInv
  <2> QED  BY <2>1, <2>2 DEF Render, CommitWiki
<1>5. /\ ~Carries' /\ ~Renames' /\ (task'.op = "run" => task'.at \notin {"found", "marker"})
      /\ task'.op = "apply" => task.op = "apply" /\ GoesOn /\ task'.at \notin {"write", "emit", "applied"}
  BY <1>4 DEF Carries, Renames, Idle
<1> QED  BY <1>1, <1>2, <1>3, <1>5, SameRowsAsk, SameRowsStand, SamePagesPending, CalmMarks

(* An operation is killed.                                                 *)
LEMMA KillMarks ==
    ASSUME WikiInv, HomeInv, MarksInv, Kill
    PROVE  MarksInv'
<1>1. task' = Idle /\ UNCHANGED <<file, block, rows>> /\ broken \subseteq broken'
  BY DEF Kill, storeVars
<1>2. task.op = "apply" => \A r \in DOMAIN task.d : rows[r].page \in broken'
  BY DEF Kill
<1>3. task.op = "run" /\ task.at \in {"found", "marker"} => task.p \in broken'
  BY DEF Kill
<1>4. At("apply", "write") => task.p \in broken'
  BY <1>1, <1>2, RowAtHome, RowFacts DEF At
<1>5. task.op = "apply" /\ task.at \in {"emit", "applied"} => rows[task.r].page \in broken'
  BY <1>2 DEF MarksInv, DueInv, WrittenInv
<1>6. Calm' /\ DueInv' /\ ~Carries' /\ ~Renames'
  BY <1>1, NothingDue DEF Carries, Renames, Idle
<1> QED  BY <1>1, <1>3, <1>4, <1>5, <1>6, EndMarks DEF MarksInv

(* What is beside an operation leaves the markers as they are.             *)
LEMMA EditBlockMarks ==
    ASSUME WikiInv, MarksInv, NEW p \in Pages, NEW b \in Blocks, EditBlock(p, b)
    PROVE  MarksInv'
<1>1. UNCHANGED <<task, block, rows, broken>> /\ b \in On(p)
  BY DEF EditBlock
<1>2. PICK v, f : v = [file[p].blocks[b] EXCEPT !.text = spent + 1] /\ f = [file[p] EXCEPT !.blocks[b] = v]
  OBVIOUS
<1>3. file' = [file EXCEPT ![p] = f]
  BY <1>2 DEF EditBlock
<1>4. IsPage(file[p]) /\ IsBlock(file[p].blocks[b])
  BY <1>1 DEF WikiInv, Shapes, FileShape, IsPage, IsBlocks, On
<1>5. SameBlock(file[p].blocks[b], v)
  BY <1>2, <1>4 DEF SameBlock, IsBlock
<1>6. SamePages
  BY <1>2, <1>3, <1>4, <1>5, SameOneBlock, OneFileSame DEF WikiInv, Shapes
<1>7. \A r : Awaits(r)' <=> Awaits(r)
  BY <1>1 DEF Awaits, At, Does
<1>8. SameMarks
  BY <1>1, <1>7, SameRowsAsk, MarksOfRows
<1>9. MarkInv'
  <2>1. ASSUME NEW q \in Pages \ broken
        PROVE  Marking(file[q].blocks)'
    BY <1>6, <1>8, <2>1, SamePagesPending DEF MarksInv, MarkInv, Marking, SameMarks, PendingStays, On
  <2>3. Carries' => task'.p \in broken' \/ Marking(task.blocks)'
    BY <1>1, <1>8 DEF Carries, MarksInv, MarkInv, Marking, SameMarks
  <2>4. Renames' => task'.p \in broken' \/ Marking(task.moved.blocks)'
    BY <1>1, <1>8 DEF Renames, MarksInv, MarkInv, Marking, SameMarks
  <2> QED  BY <1>1, <2>1, <2>3, <2>4 DEF MarkInv
<1>10. DueInv'
  BY <1>1 DEF MarksInv, DueInv, FoundInv, DecidedInv, WrittenInv, At, Open, Rows, Asks, Sited, Row, Does, Takes, IsStale, IsTaxonomy
<1> QED  BY <1>9, <1>10 DEF MarksInv

(* A block loses its evidence between operations.                          *)
LEMMA flag_blocksMarks ==
    ASSUME WikiInv, MarksInv, NEW b \in Blocks, flag_blocks_with_only_superseded_chunks(b)
    PROVE  MarksInv'
<1>1. task = Idle /\ UNCHANGED <<file, rows, broken, task>>
  BY DEF flag_blocks_with_only_superseded_chunks
<1>2. task'.op # "run" /\ task'.op # "apply" /\ ~Carries' /\ ~Renames'
  BY <1>1 DEF Idle, Carries, Renames
<1> QED  BY <1>1, <1>2, RunCalm, SameRowsAsk, SameRowsStand, SameFilesSamePages, SamePagesPending, CalmMarks

(* Decisions start, about rows that are open.                              *)
LEMMA StartApplyMarks ==
    ASSUME WikiInv, MarksInv, StartApply
    PROVE  MarksInv'
<1>1. task = Idle /\ UNCHANGED <<rows, broken>> /\ file' = Marked
  BY DEF StartApply
<1>2. PICK decided, d :
         /\ decided \subseteq Open /\ d \in [decided -> Decisions] /\ \A r \in decided : d[r] \in DecisionsFor(r)
         /\ task' = [op |-> "apply", at |-> "next", d |-> d, read |-> rows, changed |-> {}, affected |-> {}]
  BY DEF StartApply
<1>3. task'.op = "apply" /\ task'.at = "next" /\ task'.d = d /\ task'.read = rows
  BY <1>2
<1>4. Calm /\ Calm' /\ ~Carries' /\ ~Renames'
  BY <1>1, <1>3, RunCalm DEF Calm, Awaits, At, Carries, Renames
<1>5. SameMarks
  BY <1>1, <1>4, SameRowsAsk, MarksOfSameRows
<1>6. MarkInv'
  BY <1>1, <1>4, <1>5, MarkedSame, SamePagesPending, QuietMarks DEF MarksInv, WikiInv, Shapes
<1>7. DecidedInv'
  <2>1. ASSUME NEW r \in decided
        PROVE  ~rows[r].applied /\ (d[r] = "merge" => ~IsStale(r))
    <3>1. ~rows[r].applied /\ d[r] \in DecisionsFor(r)
      BY <1>2, <2>1 DEF Open
    <3>2. IsStale(r) => d[r] \in StaleDecisions
      BY <3>1 DEF DecisionsFor, IsStale
    <3> QED  BY <3>1, <3>2 DEF StaleDecisions
  <2>2. \A r : IsStale(r)' <=> IsStale(r)
    BY <1>1 DEF IsStale, IsTaxonomy
  <2>3. DOMAIN d = decided
    BY <1>2
  <2> QED  BY <1>3, <2>1, <2>2, <2>3 DEF DecidedInv
<1>8. FoundInv' /\ WrittenInv'
  BY <1>3 DEF FoundInv, WrittenInv, At
<1> QED  BY <1>6, <1>7, <1>8 DEF MarksInv, DueInv

(* A step of decisions that is at no row, before it and after it.          *)
LEMMA DecisionMarks ==
    ASSUME WikiInv, MarksInv, task.op = "apply", task.at \notin {"write", "emit", "applied"}, SamePages, UNCHANGED rows,
           broken \subseteq broken',
           task' = Idle \/ (GoesOn /\ task'.at \notin {"write", "emit", "applied", "target", "source", "new"})
    PROVE  MarksInv'
<1>1. Calm
  BY DEF Calm, Awaits, At
<1>2. ~Carries' /\ ~Renames' /\ task'.op # "run" /\ (task'.op = "apply" => GoesOn /\ task'.at \notin {"write", "emit", "applied"})
  BY DEF Carries, Renames, Idle, GoesOn
<1> QED  BY <1>1, <1>2, SameRowsAsk, SameRowsStand, SamePagesPending, CalmMarks

(* The page of a row is read.                                              *)
LEMMA LoadPageMarks ==
    ASSUME WikiInv, MarksInv, LoadPage
    PROVE  MarksInv'
<1>1. At("apply", "next") /\ UNCHANGED <<file, block, rows, broken>>
  BY DEF LoadPage, storeVars, historyVars
<1>2. task.op = "apply" /\ task.at = "next" /\ {"op", "at", "d", "read"} \subseteq DOMAIN task
  BY <1>1, ApplyBusy
<1>3. task' = Idle \/ (GoesOn /\ task'.at = "status")
  <2>1. CASE task' = Idle
    BY <2>1
  <2>2. CASE task' # Idle
    <3>1. PICK row, more : /\ more = [at |-> "status", r |-> NextRow, p |-> row.page, old |-> file[row.page], id |-> row.candidate.id]
                          /\ task' = With(task, more)
      BY <2>2 DEF LoadPage, Raise
    <3>2. DOMAIN more = {"at", "r", "p", "old", "id"} /\ more.at = "status"
      BY <3>1
    <3> QED  BY <1>2, <3>1, <3>2, WithGoesOn
  <2> QED  BY <2>1, <2>2
<1> QED  BY <1>1, <1>2, <1>3, SameFilesSamePages, DecisionMarks

(* A row about two pages has no marker.                                    *)
LEMMA TurnToPagesMarks ==
    ASSUME WikiInv, MarksInv, TurnToPages
    PROVE  MarksInv'
<1>1. At("apply", "next") /\ UNCHANGED <<file, block, rows, broken>> /\ Undecided # {} /\ IsTaxonomy(NextRow)
  BY DEF TurnToPages, storeVars, historyVars
<1>2. task.op = "apply" /\ task.at = "next" /\ {"op", "at", "d", "read"} \subseteq DOMAIN task
  BY <1>1, ApplyBusy
<1>3. PICK at, more : /\ at \in {"merge", "applied"} /\ more = [at |-> at, r |-> NextRow]
                     /\ task' = With(task, more)
  BY DEF TurnToPages
<1>4. DOMAIN more = {"at", "r"} /\ more.at = at /\ more.r = NextRow
  BY <1>3
<1>5. GoesOn /\ task'.at = at /\ task'.r = NextRow /\ "r" \in DOMAIN task'
  BY <1>2, <1>3, <1>4, WithGoesOn
<1>6. CASE at = "merge"
  BY <1>1, <1>2, <1>5, <1>6, SameFilesSamePages, DecisionMarks
<1>7. CASE at = "applied"
  <2>1. NextRow \in DOMAIN task.d /\ rows[NextRow].peer # "none"
    BY <1>1, NextRowIsUndecided DEF Undecided, IsTaxonomy
  <2>2. \A r, b : Asks(r, b) => ~Awaits(r) /\ ~Awaits(r)'
    BY <1>2, <1>5, <1>7, <2>1 DEF Asks, Awaits, At, GoesOn
  <2>3. SameMarks
    BY <1>1, <2>2, SameRowsAsk, MarksOfRows
  <2>4. ~Carries' /\ ~Renames'
    BY <1>5, <1>7 DEF Carries, Renames
  <2>5. MarkInv'
    BY <1>1, <2>3, <2>4, SameFilesSamePages, SamePagesPending, QuietMarks DEF MarksInv
  <2>6. DecidedInv' /\ FoundInv'
    BY <1>1, <1>2, <1>5, SameRowsStand, DecidedStays DEF MarksInv
  <2>7. WrittenInv'
    BY <1>5, <1>7, <2>1 DEF WrittenInv, At, GoesOn
  <2> QED  BY <2>5, <2>6, <2>7 DEF MarksInv, DueInv
<1> QED  BY <1>3, <1>6, <1>7

(* The fate of a block is committed; dispositions; what is open is listed. *)
LEMMA QuietDecisionMarks ==
    ASSUME WikiInv, MarksInv, UpdateStatus \/ _finalize_candidate_dispositions \/ RefreshConflicts
    PROVE  MarksInv'
<1>1. /\ task.op = "apply" /\ task.at \in {"status", "next", "refresh"} /\ {"op", "at", "d", "read"} \subseteq DOMAIN task
      /\ UNCHANGED <<rows, broken>> /\ task # Idle
  BY ApplyBusy DEF UpdateStatus, _finalize_candidate_dispositions, RefreshConflicts, historyVars
<1>2. GoesOn /\ task'.at \in {"create", "refresh", "render"}
  <2>1. CASE UpdateStatus
    <3>1. PICK id : task' = [task EXCEPT !.at = "create", !.id = id]
      BY <2>1 DEF UpdateStatus
    <3> QED  BY <1>1, <3>1 DEF GoesOn
  <2>2. CASE Goto("refresh") \/ Goto("render")
    BY <1>1, <2>2 DEF Goto, GoesOn
  <2> QED  BY <2>1, <2>2 DEF _finalize_candidate_dispositions, RefreshConflicts
<1>3. SamePages
  <2>1. CASE UNCHANGED file
    BY <2>1, SameFilesSamePages
  <2>2. CASE RefreshConflicts
    <3>1. ASSUME NEW p \in Pages
          PROVE  SamePage(file[p], file'[p])
      <4>1. PICK listed : listed = ListedIn(p)
        OBVIOUS
      <4>2. file'[p] \in {file[p], [file[p] EXCEPT !.listed = listed]}
        BY <2>2, <3>1, <4>1 DEF RefreshConflicts
      <4>3. IsPage(file[p])
        BY <3>1 DEF WikiInv, Shapes, FileShape
      <4> QED  BY <4>2, <4>3, SameGenerated, SameListed
    <3> QED  BY <3>1 DEF SamePages
  <2> QED  BY <2>1, <2>2 DEF UpdateStatus, _finalize_candidate_dispositions
<1> QED  BY <1>1, <1>2, <1>3, DecisionMarks

(* The candidate is committed: no row is about it yet, but one that a merge opens. *)
LEMMA CreateAcceptedMarks ==
    ASSUME WikiInv, HomeInv, MarksInv, CreateAccepted
    PROVE  MarksInv'
<1>1. At("apply", "create") /\ UNCHANGED file
  BY DEF CreateAccepted
<1>2. /\ task.op = "apply" /\ task.at = "create" /\ ReadInv /\ {"op", "at", "d", "read"} \subseteq DOMAIN task
  BY <1>1, ApplyBusy
<1>3. /\ {"r", "p", "id", "old"} \subseteq DOMAIN task /\ task.r \in Rows /\ IsRow(Row)
      /\ task.r \in DOMAIN task.d /\ Row.existing \in Known /\ Row.peer = "none"
  BY <1>2, RowFacts
<1>4. Calm
  BY <1>2 DEF Calm, Awaits, At
<1>5. PendingStays
  BY <1>1, SameFilesSamePages, SamePagesPending
<1>6. CASE Takes /\ task.id \in Known
  <2>1. UNCHANGED rows /\ task' = Idle /\ broken' = broken \cup {task.p}
    BY <1>6 DEF CreateAccepted, Fail, Takes, Does, Accepts
  <2> QED  BY <1>1, <1>2, <2>1, SameFilesSamePages, DecisionMarks
<1>7. CASE Takes /\ task.id \notin Known
  <2>1. PICK affected : UNCHANGED <<rows, broken>> /\ task' = [task EXCEPT !.at = "write", !.affected = affected]
    BY <1>7 DEF CreateAccepted, Takes, Does, Accepts
  <2>2. GoesOn /\ task'.at = "write" /\ task'.r = task.r /\ task'.id = task.id
    BY <1>2, <1>3, <2>1 DEF GoesOn
  <2>3. ~Does("merge")'
    BY <1>7, <2>2 DEF Takes, Accepts, Does, GoesOn
  <2>4. Calm' /\ ~Carries' /\ ~Renames'
    BY <2>2, <2>3 DEF Calm, Awaits, At, GoesOn, Carries, Renames
  <2>5. SameMarks
    BY <1>4, <2>1, <2>4, SameRowsAsk, MarksOfSameRows
  <2>6. MarkInv'
    BY <1>5, <2>1, <2>4, <2>5, QuietMarks DEF MarksInv
  <2>7. DecidedInv' /\ FoundInv'
    BY <1>2, <2>1, <2>2, SameRowsStand, DecidedStays DEF MarksInv
  <2>8. \A r \in Rows' : ~Asks(r, task.id)'
    BY <1>7, <2>1, <2>2 DEF Asks, WikiInv, IdsInv, Rows
  <2>9. WrittenInv'
    BY <2>2, <2>3, <2>8 DEF WrittenInv, At
  <2> QED  BY <2>6, <2>7, <2>9 DEF MarksInv, DueInv
<1>8. CASE ~Takes /\ task.d[task.r] = "merge"
  <2>1. PICK v, n : /\ v = [Row EXCEPT !.candidate.id = task.id]
                    /\ n = Cardinality(Rows) + 1
                    /\ rows' = Put(rows, Cardinality(Rows) + 1, v) /\ UNCHANGED broken
                    /\ task' = With([task EXCEPT !.at = "write"], [f |-> n])
    BY <1>8 DEF CreateAccepted, Takes, Does
  <2>2. v.existing = Row.existing /\ v.peer = "none" /\ v.candidate.id = task.id /\ v.applied = Row.applied
    <3>1. PICK c : c = [Row.candidate EXCEPT !.id = task.id]
      OBVIOUS
    <3>2. c.id = task.id
      BY <1>3, <3>1 DEF IsRow, IsCandidate
    <3>3. v = [Row EXCEPT !.candidate = c]
      BY <2>1, <3>1
    <3> QED  BY <1>3, <3>2, <3>3 DEF IsRow
  <2>3. v.candidate # NoCandidate
    <3>1. task.id \in Blocks
      BY <1>2, <1>8 DEF WikiInv, RowInv
    <3> QED  BY <2>2, <3>1 DEF NoCandidate, Blocks
  <2>4. ~v.applied
    BY <1>2, <1>3, <2>2 DEF MarksInv, DueInv, DecidedInv, Row
  <2>5. RowsAsk /\ RowsStand /\ n \notin Rows /\ Rows' = Rows \cup {n} /\ rows'[n] = v
    BY <2>1, RowComes DEF WikiInv
  <2>6. PICK g, more : g = [task EXCEPT !.at = "write"] /\ more = [f |-> n]
    OBVIOUS
  <2>7. /\ DOMAIN g = DOMAIN task /\ g.at = "write" /\ DOMAIN more = {"f"} /\ more.f = n
        /\ \A x \in DOMAIN task \ {"at"} : g[x] = task[x]
    BY <1>2, <2>6
  <2>8. /\ DOMAIN task' = DOMAIN g \cup DOMAIN more
        /\ \A x \in DOMAIN g \ DOMAIN more : task'[x] = g[x]
        /\ task'["f"] = n
    BY <2>1, <2>6, <2>7 DEF With
  <2>9. task'["op"] = task["op"] /\ task'["d"] = task["d"] /\ task'["read"] = task["read"] /\ task'["r"] = task["r"]
        /\ task'["at"] = "write"
    BY <1>2, <1>3, <2>7, <2>8
  <2>10. GoesOn /\ task'.at = "write" /\ task'.r = task.r /\ task'.f = n
    BY <1>2, <2>7, <2>8, <2>9 DEF GoesOn
  <2>11. ~Takes' /\ Does("merge")' /\ Row' = Row
    BY <1>8, <2>10 DEF Takes, Accepts, Does, Row, GoesOn
  <2>12. \A r : Awaits(r)' <=> r = n
    BY <2>10, <2>11 DEF Awaits, At, GoesOn
  <2>13. SameMarks
    BY <1>4, <2>5, <2>12, MarksOfRows DEF Calm
  <2>14. ~Carries' /\ ~Renames'
    BY <2>10 DEF Carries, Renames
  <2>15. MarkInv'
    BY <1>5, <2>1, <2>13, <2>14, QuietMarks DEF MarksInv
  <2>16. DecidedInv' /\ FoundInv'
    BY <1>2, <2>5, <2>10, DecidedStays DEF MarksInv
  <2>17. task'.f \in Open' \ {task'.r} /\ Asks(task.f, Row.existing)'
    BY <1>3, <2>2, <2>3, <2>4, <2>5, <2>10, <2>11 DEF Open, Rows, Asks
  <2>18. WrittenInv'
    BY <2>10, <2>11, <2>17 DEF WrittenInv, At
  <2> QED  BY <2>15, <2>16, <2>18 DEF MarksInv, DueInv
<1>9. CASE ~Takes /\ task.d[task.r] # "merge"
  <2>1. UNCHANGED <<block, rows, broken>> /\ Goto("write")
    BY <1>9 DEF CreateAccepted, Takes, Does
  <2>2. /\ GoesOn /\ task'.at = "write" /\ task'.r = task.r
    BY <1>2, <1>3, <2>1, GotoGoesOn DEF Goto
  <2>3. ~Takes' /\ ~Does("merge")'
    BY <1>9, <2>1, <2>2 DEF Takes, IsStale, IsTaxonomy, GoesOn, Does
  <2>4. Calm' /\ ~Carries' /\ ~Renames'
    BY <2>2, <2>3 DEF Calm, Awaits, At, GoesOn, Carries, Renames
  <2>5. SameMarks
    BY <1>4, <2>1, <2>4, SameRowsAsk, MarksOfSameRows
  <2>6. MarkInv'
    BY <1>5, <2>1, <2>4, <2>5, QuietMarks DEF MarksInv
  <2>7. DecidedInv' /\ FoundInv'
    BY <1>2, <2>1, <2>2, SameRowsStand, DecidedStays DEF MarksInv
  <2>8. WrittenInv'
    BY <2>2, <2>3 DEF WrittenInv, At
  <2> QED  BY <2>6, <2>7, <2>8 DEF MarksInv, DueInv
<1> QED  BY <1>6, <1>7, <1>8, <1>9

(* The review file of the follow-up is written.                            *)
LEMMA EmitFollowUpMarks ==
    ASSUME WikiInv, MarksInv, EmitFollowUp
    PROVE  MarksInv'
<1>1. At("apply", "emit") /\ Goto("applied") /\ UNCHANGED <<file, rows, broken>>
  BY DEF EmitFollowUp, storeVars
<1>2. task.op = "apply" /\ task.at = "emit" /\ {"op", "at", "d", "read"} \subseteq DOMAIN task
  BY <1>1, ApplyBusy
<1>3. "r" \in DOMAIN task /\ task.r \in DOMAIN task.d
  BY <1>2 DEF MarksInv, DueInv, WrittenInv
<1>4. GoesOn /\ task'.at = "applied" /\ task'.r = task.r /\ "r" \in DOMAIN task'
  BY <1>1, <1>2, <1>3 DEF Goto, GoesOn
<1>5. \A r : Awaits(r)' <=> Awaits(r)
  BY <1>2, <1>4 DEF Awaits, At, GoesOn
<1>6. SameMarks
  BY <1>1, <1>5, SameRowsAsk, MarksOfRows
<1>7. ~Carries' /\ ~Renames'
  BY <1>4 DEF Carries, Renames
<1>8. MarkInv'
  BY <1>1, <1>6, <1>7, SameFilesSamePages, SamePagesPending, QuietMarks DEF MarksInv
<1>9. DecidedInv' /\ FoundInv'
  BY <1>1, <1>2, <1>4, SameRowsStand, DecidedStays DEF MarksInv
<1>10. WrittenInv'
  BY <1>3, <1>4 DEF WrittenInv, At, GoesOn
<1> QED  BY <1>8, <1>9, <1>10 DEF MarksInv, DueInv

(* A row is applied, whose marker has gone before.                         *)
LEMMA _mark_appliedMarks ==
    ASSUME WikiInv, MarksInv, _mark_applied
    PROVE  MarksInv'
<1>1. At("apply", "applied") /\ UNCHANGED <<file, broken>> /\ rows' = [rows EXCEPT ![task.r].applied = TRUE]
  BY DEF _mark_applied, historyVars
<1>2. task.op = "apply" /\ task.at = "applied" /\ {"op", "at", "d", "read"} \subseteq DOMAIN task
  BY <1>1, ApplyBusy
<1>3. PICK affected : task' = [task EXCEPT !.at = "next", !.affected = affected]
  BY DEF _mark_applied
<1>4. GoesOn /\ task'.at = "next"
  BY <1>2, <1>3 DEF GoesOn
<1>5. Rows' = Rows /\ \A r \in Rows : IsRow(rows[r]) /\ rows'[r] = IF r = task.r THEN [rows[r] EXCEPT !.applied = TRUE] ELSE rows[r]
  BY <1>1 DEF Rows, WikiInv, Shapes, RowShape
<1>10. ASSUME NEW r \in Rows
       PROVE  rows'[r].peer = rows[r].peer /\ rows'[r].candidate = rows[r].candidate /\ rows'[r].existing = rows[r].existing
  <2>1. PICK v : v = rows[r]
    OBVIOUS
  <2>2. IsRow(v) /\ rows'[r] = IF r = task.r THEN [v EXCEPT !.applied = TRUE] ELSE v
    BY <1>5, <2>1
  <2> QED  BY <2>1, <2>2 DEF IsRow
<1>11. Open' = Open \ {task.r}
  <2>1. ASSUME NEW r \in Rows
        PROVE  r \in Open' <=> r \in Open /\ r # task.r
    <3>1. PICK v : v = rows[r]
      OBVIOUS
    <3>2. IsRow(v) /\ rows'[r] = IF r = task.r THEN [v EXCEPT !.applied = TRUE] ELSE v
      BY <1>5, <3>1
    <3>3. CASE r = task.r
      BY <1>5, <3>2, <3>3 DEF Open, IsRow
    <3>4. CASE r # task.r
      BY <1>5, <3>1, <3>2, <3>4 DEF Open
    <3> QED  BY <3>3, <3>4
  <2> QED  BY <1>5, <2>1 DEF Open
<1>6. \A r : Awaits(r) <=> r = task.r
  BY <1>2 DEF Awaits, At
<1>7. DueInv' /\ Calm'
  <2>1. RowsStand
    BY <1>5, <1>10 DEF RowsStand
  <2> QED  BY <1>2, <1>4, <2>1, DecisionsDue DEF MarksInv
<1>8. SameMarks
  <2>1. ASSUME NEW b, NEW r
        PROVE  r \in MarkedBy(b)' <=> r \in MarkedBy(b)
    <3>1. r \in MarkedBy(b) <=> r \in Open /\ r # task.r /\ Asks(r, b)
      BY <1>6 DEF MarkedBy
    <3>2. r \in MarkedBy(b)' <=> r \in Open' /\ Asks(r, b)'
      BY <1>7 DEF MarkedBy, Calm
    <3>3. r \in Open => (Asks(r, b)' <=> Asks(r, b))
      BY <1>10 DEF Asks, Open
    <3> QED  BY <1>11, <3>1, <3>2, <3>3
  <2> QED  BY <2>1 DEF SameMarks
<1>9. ~Carries' /\ ~Renames'
  BY <1>4 DEF Carries, Renames
<1> QED  BY <1>1, <1>7, <1>8, <1>9, SameFilesSamePages, SamePagesPending, QuietMarks DEF MarksInv

(* What a decision writes is about the markers of one block.               *)
LEMMA RemarkedMarks ==
    ASSUME WikiInv, MarksInv, At("apply", "write"), UNCHANGED rows,
           GoesOn, task'.at \in {"emit", "applied"}, task'.r = task.r
    PROVE  /\ \A b : b # Row.existing => MarkedBy(b)' = MarkedBy(b)
           /\ \A b : b = Row.existing => Does("delete_duplicate") \/ MarkedBy(b)' = Remarked(MarkedBy(b))
<1>1. task.op = "apply" /\ task.at = "write"
  BY DEF At
<1>2. /\ task.r \in Rows /\ task.r \in DOMAIN task.d /\ Row.existing = rows[task.r].existing
      /\ Row.candidate = rows[task.r].candidate /\ rows[task.r].peer = "none"
  BY <1>1, RowFacts DEF WikiInv, RowInv, ReadInv, Row
<1>3. Does("merge") => ~IsStale(task.r) /\ task.f \in Open \ {task.r} /\ Asks(task.f, Row.existing)
  BY <1>2 DEF MarksInv, DueInv, DecidedInv, WrittenInv, Does, At
<1>4. /\ \A r : Awaits(r) <=> Does("merge") /\ r = task.f
      /\ \A r : Awaits(r)' <=> r = task.r
  BY <1>1 DEF Awaits, At, GoesOn
<1>5. /\ \A b, r : r \in MarkedBy(b) <=> r \in Open /\ ~(Does("merge") /\ r = task.f) /\ Asks(r, b)
      /\ \A b, r : r \in MarkedBy(b)' <=> r \in Open /\ r # task.r /\ Asks(r, b)
  BY <1>4 DEF MarkedBy, Open, Rows, Asks
<1>6. /\ \A b : Asks(task.r, b) => b = Row.existing /\ ~IsStale(task.r)
      /\ IsStale(task.r) \/ Asks(task.r, Row.existing)
      /\ Does("merge") => \A b : Asks(task.f, b) => b = Row.existing
  BY <1>2, <1>3 DEF Asks, IsStale, IsTaxonomy
<1>7. ASSUME NEW b, b # Row.existing
      PROVE  MarkedBy(b)' = MarkedBy(b)
  <2>1. \A r : r \in MarkedBy(b)' <=> r \in MarkedBy(b)
    BY <1>5, <1>6, <1>7
  <2> QED  BY <2>1
<1>8. ASSUME NEW b, b = Row.existing, ~Does("delete_duplicate")
      PROVE  MarkedBy(b)' = Remarked(MarkedBy(b))
  <2>1. CASE IsStale(task.r)
    <3>1. ~Does("merge")
      BY <1>3, <2>1
    <3>2. \A r : r \in MarkedBy(b)' <=> r \in MarkedBy(b)
      BY <1>5, <1>6, <1>8, <2>1, <3>1
    <3>3. MarkedBy(b)' = MarkedBy(b)
      BY <3>2
    <3> QED  BY <2>1, <3>3 DEF Remarked
  <2>2. CASE ~IsStale(task.r) /\ Does("merge")
    <3>1. \A r : r \in MarkedBy(b)' <=> r \in (MarkedBy(b) \ {task.r}) \cup {task.f}
      BY <1>3, <1>5, <1>6, <1>8, <2>2
    <3>2. MarkedBy(b)' = (MarkedBy(b) \ {task.r}) \cup {task.f}
      BY <3>1
    <3> QED  BY <1>8, <2>2, <3>2 DEF Remarked
  <2>3. CASE ~IsStale(task.r) /\ ~Does("merge")
    <3>1. \A r : r \in MarkedBy(b)' <=> r \in MarkedBy(b) \ {task.r}
      BY <1>5, <1>6, <1>8, <2>3
    <3>2. MarkedBy(b)' = MarkedBy(b) \ {task.r}
      BY <3>1
    <3> QED  BY <1>8, <2>3, <3>2 DEF Remarked
  <2> QED  BY <2>1, <2>2, <2>3
<1> QED  BY <1>7, <1>8

(* The page is written with the markers that its rows ask for by then.     *)
LEMMA _write_pageMarks ==
    ASSUME WikiInv, HomeInv, MarksInv, _write_page
    PROVE  MarksInv'
<1>1. At("apply", "write") /\ UNCHANGED <<block, rows>>
  BY DEF _write_page
<1>2. /\ task.op = "apply" /\ task.at = "write" /\ {"op", "at", "d", "read"} \subseteq DOMAIN task /\ task # Idle
      /\ {"r", "p", "id", "old"} \subseteq DOMAIN task /\ task.r \in DOMAIN task.d
  BY <1>1, ApplyBusy, RowFacts
<1>3. CASE task' = Idle /\ UNCHANGED file
  <2>1. broken' = broken \cup {task.p}
    BY <1>2, <1>3 DEF _write_page, Fail, Idle
  <2>2. DueInv' /\ Calm' /\ ~Carries' /\ ~Renames'
    BY <1>3, NothingDue DEF Idle, Carries, Renames
  <2> QED  BY <1>1, <1>2, <1>3, <2>1, <2>2, EndMarks DEF MarksInv
<1>4. CASE ~(task' = Idle /\ UNCHANGED file)
  <2>1. PICK p, e, id, f, g :
           /\ p = task.p /\ e = Row.existing /\ id = task.id
           /\ f = WithMarker(WithFate(file[p])) /\ g = WithCandidate(f)
    OBVIOUS
  <2>2. file' = [file EXCEPT ![p] = g] /\ UNCHANGED broken
    BY <1>4, <2>1 DEF _write_page, write_page, Fail
  <2>3. PICK at \in {"emit", "applied"} : \E changed : task' = [task EXCEPT !.at = at, !.changed = changed]
    BY <1>4 DEF _write_page, Fail
  <2>4. GoesOn /\ task'.at = at /\ task'.r = task.r /\ "r" \in DOMAIN task'
    BY <1>2, <2>3 DEF GoesOn
  <2>5. /\ p \in Pages /\ e \in On(p) /\ e \in Known /\ Sited(e, p) /\ ~Unregistered
    BY <1>2, <2>1, RowAtHome
  <2>6. Takes => /\ \A y \in Pages : id \notin On(y)
                 /\ \A r \in Rows : ~Asks(r, id)
    BY <1>2, <2>1 DEF WikiInv, RowInv, MarksInv, DueInv, WrittenInv, At
  <2>7. ~(IsStale(task.r) /\ Does("merge"))
    BY <1>2 DEF MarksInv, DueInv, DecidedInv, Does
  <2>8. IsPage(file[p]) /\ IsPage(f)
    <3>1. IsPage(file[p])
      BY <2>5 DEF WikiInv, Shapes, FileShape
    <3>2. PICK w : w = WithFate(file[p])
      OBVIOUS
    <3>3. IsPage(w)
      BY <3>1, <3>2, KeptFate DEF Kept
    <3> QED  BY <2>1, <3>1, <3>2, <3>3, KeptFate DEF Kept
  <2>9. /\ DOMAIN f.blocks = On(p)
        /\ \A c \in On(p) : f.blocks[c].pending = IF c = e THEN Remarked(file[p].blocks[c].pending) ELSE file[p].blocks[c].pending
    BY <2>1, <2>7, <2>8, FateOnPage DEF On
  <2>10. /\ Does("delete_duplicate") => DOMAIN g.blocks = On(p) \ {e}
         /\ ~Does("delete_duplicate") => DOMAIN g.blocks = On(p) \cup (IF Takes THEN {id} ELSE {})
         /\ \A c \in On(p) \cap DOMAIN g.blocks : g.blocks[c].pending = f.blocks[c].pending
         /\ Takes => g.blocks[id].pending = {}
    BY <2>1, <2>5, <2>6, <2>8, <2>9, DecidedPage
  <2>11. /\ \A b : b # e => MarkedBy(b)' = MarkedBy(b)
         /\ \A b : b = e => Does("delete_duplicate") \/ MarkedBy(b)' = Remarked(MarkedBy(b))
    BY <1>1, <2>1, <2>4, RemarkedMarks
  <2>12. p \notin broken => \A b \in DOMAIN g.blocks : g.blocks[b].pending = MarkedBy(b)'
    <3>1. ASSUME p \notin broken, NEW b \in DOMAIN g.blocks
          PROVE  g.blocks[b].pending = MarkedBy(b)'
      <4>1. CASE b \in On(p)
        <5>1. file[p].blocks[b].pending = MarkedBy(b)
          BY <2>5, <3>1, <4>1 DEF MarksInv, MarkInv, Marking, On
        <5>2. g.blocks[b].pending = IF b = e THEN Remarked(MarkedBy(b)) ELSE MarkedBy(b)
          BY <2>9, <2>10, <3>1, <4>1, <5>1
        <5>3. b = e => ~Does("delete_duplicate")
          BY <2>10, <3>1
        <5> QED  BY <2>11, <5>2, <5>3
      <4>2. CASE b \notin On(p)
        <5>1. Takes /\ b = id
          BY <2>10, <3>1, <4>2
        <5>2. MarkedBy(b) = {} /\ b # e
          BY <2>5, <2>6, <4>2, <5>1 DEF MarkedBy, Open
        <5> QED  BY <2>10, <2>11, <5>1, <5>2
      <4> QED  BY <4>1, <4>2
    <3> QED  BY <3>1
  <2>13. \A q \in Pages \ (broken' \cup {p}) : \A b \in On(q) : MarkedBy(b)' = MarkedBy(b)
    <3>1. ASSUME NEW q \in Pages \ (broken \cup {p}), e \in On(q)
          PROVE  FALSE
      <4>1. Sited(e, q)
        BY <2>5, <3>1 DEF HomeInv, HomeFiles, ShownAt
      <4> QED  BY <2>5, <3>1, <4>1 DEF Sited
    <3> QED  BY <2>2, <2>11, <3>1
  <2>14. ~Carries' /\ ~Renames'
    BY <2>4 DEF Carries, Renames
  <2>15. MarkInv'
    BY <2>2, <2>12, <2>13, <2>14, OnePageMarked DEF MarksInv, WikiInv, Shapes
  <2>16. DecidedInv' /\ FoundInv'
    BY <1>1, <1>2, <2>4, SameRowsStand, DecidedStays DEF MarksInv
  <2>17. WrittenInv'
    BY <1>2, <2>4 DEF WrittenInv, At, GoesOn
  <2> QED  BY <2>15, <2>16, <2>17 DEF MarksInv, DueInv
<1> QED  BY <1>3, <1>4

--------------------------------------------------------------------------------
(* Markers of taxonomy operations.                                         *)

(* What the pages show, and what is carried, has its markers.              *)
PagesMarked ==
    /\ \A q \in Pages \ broken' : \A b \in On(q)' : file'[q].blocks[b].pending = MarkedBy(b)
    /\ Carries' => task'.p \in broken' \/ \A b \in DOMAIN task'.blocks : task'.blocks[b].pending = MarkedBy(b)
    /\ Renames' => task'.p \in broken' \/ \A b \in DOMAIN task'.moved.blocks : task'.moved.blocks[b].pending = MarkedBy(b)
AtNoRow ==
    \/ task' = Idle \/ task'.op = "taxonomy"
    \/ task.op = "apply" /\ GoesOn /\ task'.at \notin {"write", "emit", "applied"}

(* It has them still when no row is at hand.                               *)
LEMMA CarryMarks ==
    ASSUME WikiInv, MarksInv, Calm, RowsAsk, Rows' = Rows, AtNoRow, PagesMarked
    PROVE  MarksInv'
<1>1. RowsStand
  BY DEF RowsAsk, RowsStand
<1>4. DueInv' /\ Calm'
  <2>1. CASE task' = Idle \/ task'.op = "taxonomy"
    <3>1. task'.op # "apply" /\ task'.op # "run"
      BY <2>1 DEF Idle
    <3> QED  BY <3>1, NothingDue
  <2>2. CASE task.op = "apply" /\ GoesOn /\ task'.at \notin {"write", "emit", "applied"}
    BY <1>1, <2>2, DecisionsDue DEF MarksInv
  <2> QED  BY <2>1, <2>2 DEF AtNoRow
<1>5. SameMarks
  BY <1>4, MarksOfSameRows
<1>6. MarkInv'
  BY <1>5 DEF MarkInv, Marking, SameMarks, PagesMarked, On
<1> QED  BY <1>4, <1>6 DEF MarksInv

(* Pages that show what they did have their markers.                       *)
LEMMA SamePagesMarked ==
    ASSUME MarksInv, SamePages, broken \subseteq broken', NEW q \in Pages \ broken', NEW b \in On(q)'
    PROVE  file'[q].blocks[b].pending = MarkedBy(b)
  BY SamePagesPending DEF MarksInv, MarkInv, Marking, PendingStays, On

(* A merge, a split or a rename starts ...                                 *)
LEMMA StartMarks ==
    ASSUME WikiInv, MarksInv, NEW kind, NEW p \in Pages, NEW q \in Pages, NEW at, NEW more, Start(kind, p, q, at, more),
           task'.op = "taxonomy", task'.p = p,
           Carries' => \A b \in DOMAIN task'.blocks : b \in On(p)' /\ task'.blocks[b].pending = file'[p].blocks[b].pending,
           Renames' => \A b \in DOMAIN task'.moved.blocks : b \in On(p)' /\ task'.moved.blocks[b].pending = file'[p].blocks[b].pending
    PROVE  MarksInv'
<1>1. task = Idle /\ UNCHANGED rows /\ file' = Marked /\ broken \subseteq broken'
  BY DEF Start, Spread
<1>2. SamePages
  BY <1>1, MarkedSame DEF WikiInv, Shapes
<1>3. \A y \in Pages \ broken' : \A b \in On(y)' : file'[y].blocks[b].pending = MarkedBy(b)
  BY <1>1, <1>2, SamePagesMarked
<1>4. PagesMarked
  BY <1>3 DEF PagesMarked
<1> QED  BY <1>1, <1>4, RunCalm, SameRowsAsk, CarryMarks DEF AtNoRow

(* ... with the blocks of a page in memory.                                *)
LEMMA StartMergeMarks ==
    ASSUME WikiInv, HomeInv, MarksInv, NEW p \in Pages, NEW q \in Pages, StartMerge(p, q), UNCHANGED late, Spend(2)
    PROVE  MarksInv'
<1>1. PICK more : more = [blocks |-> Marked[p].blocks, old |-> Marked[q]]
  OBVIOUS
<1>2. DOMAIN more = {"blocks", "old"} /\ more.blocks = Marked[p].blocks
  BY <1>1
<1>3. Start("merge", p, q, "target", more)
  BY <1>1 DEF StartMerge
<1>4. task'.op = "taxonomy" /\ task'.at = "target" /\ task'.p = p /\ task'.blocks = Marked[p].blocks
  BY <1>2, <1>3, StartTask
<1>5. file'[p] = Marked[p]
  BY <1>3, StartHome
<1>6. ~Renames' /\ \A b \in DOMAIN task'.blocks : b \in On(p)' /\ task'.blocks[b].pending = file'[p].blocks[b].pending
  BY <1>4, <1>5 DEF Renames, On
<1> QED  BY <1>3, <1>4, <1>6, StartMarks

(* ... or with some of them ...                                            *)
LEMMA StartSplitMarks ==
    ASSUME WikiInv, HomeInv, MarksInv, NEW p \in Pages, NEW q \in Pages, StartSplit(p, q), UNCHANGED late, Spend(2)
    PROVE  MarksInv'
<1>1. PICK moving, more : /\ moving \in SUBSET On(p)
                          /\ more = [blocks |-> Restrict(Marked[p].blocks, moving), old |-> Marked[p]]
                          /\ Start("split", p, q, "source", more)
  BY DEF StartSplit
<1>2. DOMAIN more = {"blocks", "old"} /\ more.blocks = [b \in moving |-> Marked[p].blocks[b]]
  BY <1>1 DEF Restrict
<1>3. task'.op = "taxonomy" /\ task'.at = "source" /\ task'.p = p /\ task'.blocks = [b \in moving |-> Marked[p].blocks[b]]
  BY <1>1, <1>2, StartTask
<1>4. file'[p] = Marked[p] /\ On(p)' = On(p)
  BY <1>1, StartHome
<1>5. ~Renames' /\ \A b \in DOMAIN task'.blocks : b \in On(p)' /\ task'.blocks[b].pending = file'[p].blocks[b].pending
  BY <1>1, <1>3, <1>4 DEF Renames
<1> QED  BY <1>1, <1>3, <1>5, StartMarks

(* ... or with all of the file.                                            *)
LEMMA StartRenameMarks ==
    ASSUME WikiInv, HomeInv, MarksInv, NEW p \in Pages, StartRename(p), UNCHANGED late, Spend(2)
    PROVE  MarksInv'
<1>1. PICK more : more = [blocks |-> NoBlocks, moved |-> Marked[p]]
  OBVIOUS
<1>2. DOMAIN more = {"blocks", "moved"} /\ more.moved = Marked[p]
  BY <1>1
<1>3. Start("rename", p, p, "redirect", more)
  BY <1>1 DEF StartRename
<1>4. task'.op = "taxonomy" /\ task'.at = "redirect" /\ task'.p = p /\ task'.moved = Marked[p]
  BY <1>2, <1>3, StartTask
<1>5. file'[p] = Marked[p]
  BY <1>3, StartHome
<1>6. ~Carries' /\ \A b \in DOMAIN task'.moved.blocks : b \in On(p)' /\ task'.moved.blocks[b].pending = file'[p].blocks[b].pending
  BY <1>4, <1>5 DEF Carries, On
<1> QED  BY <1>3, <1>4, <1>6, StartMarks

(* The merge of a row has the blocks of its page.                          *)
LEMMA MergeRowMarks ==
    ASSUME WikiInv, HomeInv, MarksInv, MergeRow
    PROVE  MarksInv'
<1>1. At("apply", "merge") /\ UNCHANGED <<file, rows>>
  BY DEF MergeRow, storeVars
<1>2. task.op = "apply" /\ task.at = "merge" /\ {"op", "at", "d", "read"} \subseteq DOMAIN task
  BY <1>1, ApplyBusy
<1>3. Calm
  BY <1>2 DEF Calm, Awaits, At
<1>4. broken \subseteq broken'
  BY DEF MergeRow, Spread
<1>5. \A y \in Pages \ broken' : \A b \in On(y)' : file'[y].blocks[b].pending = MarkedBy(b)
  BY <1>1, <1>4, SameFilesSamePages, SamePagesMarked
<1>6. CASE task' = Idle
  <2>1. ~Carries' /\ ~Renames'
    BY <1>6 DEF Carries, Renames, Idle
  <2> QED  BY <1>1, <1>3, <1>5, <1>6, <2>1, SameRowsAsk, CarryMarks DEF PagesMarked, AtNoRow
<1>7. CASE task' # Idle
  <2>1. PICK p, q : p = Row.page /\ q = Row.peer
    OBVIOUS
  <2>2. PICK more : /\ more = [p |-> p, q |-> q, kind |-> "merge", blocks |-> file[p].blocks, old |-> file[q]]
                    /\ task' = With([task EXCEPT !.at = "target"], more)
    BY <1>7, <2>1 DEF MergeRow, Raise
  <2>3. PICK g : g = [task EXCEPT !.at = "target"]
    OBVIOUS
  <2>4. DOMAIN g = DOMAIN task /\ g.at = "target" /\ \A x \in DOMAIN task \ {"at"} : g[x] = task[x]
    BY <1>2, <2>3
  <2>5. DOMAIN more = {"p", "q", "kind", "blocks", "old"} /\ more["p"] = p /\ more["blocks"] = file[p].blocks
    BY <2>2
  <2>6. /\ DOMAIN task' = DOMAIN g \cup DOMAIN more
        /\ \A x \in DOMAIN more : task'[x] = more[x]
        /\ \A x \in DOMAIN g \ DOMAIN more : task'[x] = g[x]
    BY <2>2, <2>3 DEF With
  <2>7. /\ task'["op"] = task["op"] /\ task'["d"] = task["d"] /\ task'["read"] = task["read"] /\ task'["at"] = "target"
        /\ task'["p"] = p /\ task'["blocks"] = file[p].blocks /\ {"op", "at", "d", "read"} \subseteq DOMAIN task'
    BY <1>2, <2>4, <2>5, <2>6
  <2>8. p \in Pages
    <3>1. task.r \in DOMAIN task.d /\ ReadInv
      BY <1>2 DEF WikiInv, RowInv
    <3> QED  BY <1>2, <2>1, <3>1 DEF ReadInv, Row, HomeInv, StageHome, ApplyHome
  <2>9. AtNoRow
    BY <1>2, <2>7 DEF AtNoRow, GoesOn
  <2>10. ~Renames' /\ (task'.p \in broken' \/ \A b \in DOMAIN task'.blocks : task'.blocks[b].pending = MarkedBy(b))
    BY <1>1, <1>2, <1>5, <2>7, <2>8 DEF Renames, On
  <2> QED  BY <1>1, <1>3, <1>5, <2>9, <2>10, SameRowsAsk, CarryMarks DEF PagesMarked
<1> QED  BY <1>6, <1>7

(* The page gets the blocks that move to it, with their markers.           *)
LEMMA WriteTargetMarks ==
    ASSUME WikiInv, HomeInv, MarksInv, WriteTarget
    PROVE  MarksInv'
<1>1. Merging("target") /\ UNCHANGED rows
  BY DEF WriteTarget
<1>2. ~Renames /\ Carries /\ Calm
  BY <1>1 DEF Merging, Renames, Carries, Calm, Awaits, At, Idle
<1>3. /\ task.op \in {"apply", "taxonomy"} /\ task.at = "target" /\ task.kind = "merge"
      /\ task.p \in Pages /\ task.q \in Pages /\ task.p # task.q /\ (task.p \in broken => task.q \in broken)
  BY <1>1, <1>2, MergeSoFar
<1>4. CASE task' = Idle /\ UNCHANGED file
  <2>1. broken \subseteq broken' /\ ~Carries' /\ ~Renames'
    BY <1>4 DEF WriteTarget, Fail, Carries, Renames, Idle
  <2>2. \A y \in Pages \ broken' : \A b \in On(y)' : file'[y].blocks[b].pending = MarkedBy(b)
    BY <1>4, <2>1, SameFilesSamePages, SamePagesMarked
  <2> QED  BY <1>1, <1>2, <1>4, <2>1, <2>2, SameRowsAsk, CarryMarks DEF PagesMarked, AtNoRow
<1>5. CASE ~(task' = Idle /\ UNCHANGED file)
  <2>1. PICK p, q, blocks, f : p = task.p /\ q = task.q /\ blocks = task.blocks /\ f = file[q]
    OBVIOUS
  <2>2. PICK shown : shown = With(f.blocks, blocks)
    OBVIOUS
  <2>3. PICK g : g = [f EXCEPT !.there = TRUE, !.blocks = shown]
    OBVIOUS
  <2>4. file' = [file EXCEPT ![q] = g] /\ Goto("redirect") /\ UNCHANGED broken
    BY <1>5, <2>1, <2>2, <2>3 DEF WriteTarget, write_page, Fail
  <2>5. /\ DOMAIN shown = DOMAIN f.blocks \cup DOMAIN blocks
        /\ \A b \in DOMAIN shown : shown[b] = IF b \in DOMAIN blocks THEN blocks[b] ELSE f.blocks[b]
    BY <2>2 DEF With
  <2>6. g.blocks = shown
    <3>1. IsPage(f)
      BY <1>3, <2>1 DEF WikiInv, Shapes, FileShape
    <3> QED  BY <2>3, <3>1 DEF IsPage
  <2>7. file'[q] = g /\ \A y \in Pages \ {q} : file'[y] = file[y]
    BY <1>3, <2>1, <2>4 DEF WikiInv, Shapes, FileShape
  <2>8. /\ task'.op = task.op /\ task'.at = "redirect" /\ task'.kind = "merge"
        /\ task.op = "apply" => GoesOn
    BY <1>1, <1>2, <2>1, <2>4, MergeGoesOn DEF GoesOn
  <2>9. ~Carries' /\ ~Renames' /\ AtNoRow
    BY <1>3, <2>8 DEF Carries, Renames, AtNoRow
  <2>10. ASSUME NEW y \in Pages \ broken', NEW b \in On(y)'
         PROVE  file'[y].blocks[b].pending = MarkedBy(b)
    <3>1. CASE y = q
      <4>1. q \notin broken /\ p \notin broken
        BY <1>3, <2>1, <2>4, <2>10, <3>1
      <4>2. \A c \in DOMAIN blocks : blocks[c].pending = MarkedBy(c)
        BY <1>2, <2>1, <4>1 DEF MarksInv, MarkInv, Marking
      <4>3. \A c \in DOMAIN f.blocks : f.blocks[c].pending = MarkedBy(c)
        BY <1>3, <2>1, <4>1 DEF MarksInv, MarkInv, Marking
      <4>4. b \in DOMAIN shown /\ file'[y].blocks[b] = shown[b]
        BY <2>6, <2>7, <2>10, <3>1 DEF On
      <4> QED  BY <2>5, <4>2, <4>3, <4>4
    <3>2. CASE y # q
      BY <2>4, <2>7, <2>10, <3>2 DEF MarksInv, MarkInv, Marking, On
    <3> QED  BY <3>1, <3>2
  <2> QED  BY <1>1, <1>2, <2>9, <2>10, SameRowsAsk, CarryMarks DEF PagesMarked
<1> QED  BY <1>4, <1>5

(* The old page is a redirect without blocks.                              *)
LEMMA _write_redirect_stubMarks ==
    ASSUME WikiInv, HomeInv, MarksInv, _write_redirect_stub
    PROVE  MarksInv'
<1>1. /\ Merging("redirect") /\ UNCHANGED <<rows, broken>> /\ Goto("register")
      /\ file' = [file EXCEPT ![task.p] = Stub]
  BY DEF _write_redirect_stub, historyVars
<1>2. Calm /\ task.at = "redirect"
  BY <1>1 DEF Merging, Calm, Awaits, At
<1>3. ASSUME NEW y \in Pages \ broken', NEW b \in On(y)'
      PROVE  file'[y].blocks[b].pending = MarkedBy(b)
  <2>1. Stub.blocks = NoBlocks
    BY DEF Stub, NoFile
  <2>2. y # task.p
    BY <1>1, <1>3, <2>1 DEF On, NoBlocks, WikiInv, Shapes, FileShape
  <2>3. file'[y] = file[y]
    BY <1>1, <1>3, <2>2 DEF WikiInv, Shapes, FileShape
  <2> QED  BY <1>1, <1>3, <2>3 DEF MarksInv, MarkInv, Marking, On
<1>4. CASE ~Renames
  <2>1. /\ task'.op = task.op /\ task'.at = "register" /\ task'.kind = "merge" /\ task.op \in {"apply", "taxonomy"}
        /\ task.op = "apply" => GoesOn
    BY <1>1, <1>4, MergeGoesOn, MergeSoFar DEF GoesOn
  <2>2. ~Carries' /\ ~Renames' /\ AtNoRow
    BY <2>1 DEF Carries, Renames, AtNoRow
  <2> QED  BY <1>1, <1>2, <1>3, <2>2, SameRowsAsk, CarryMarks DEF PagesMarked
<1>5. CASE Renames
  <2>1. task.op = "taxonomy" /\ {"op", "at", "kind", "p", "q", "moved"} \subseteq DOMAIN task
    BY <1>5, RenameSoFar
  <2>2. /\ DOMAIN task' = DOMAIN task /\ task'.at = "register" /\ task'.op = task.op
        /\ \A x \in DOMAIN task \ {"at"} : task'[x] = task[x]
    BY <1>1, <2>1, GotoTask DEF WikiInv, Idle
  <2>3. task'["p"] = task["p"] /\ task'["moved"] = task["moved"]
    BY <2>1, <2>2
  <2>4. task.p \in broken \/ \A b \in DOMAIN task.moved.blocks : task.moved.blocks[b].pending = MarkedBy(b)
    BY <1>5 DEF MarksInv, MarkInv, Marking
  <2>5. ~Carries' /\ AtNoRow
    BY <2>1, <2>2 DEF Carries, AtNoRow
  <2> QED  BY <1>1, <1>2, <1>3, <2>3, <2>4, <2>5, SameRowsAsk, CarryMarks DEF PagesMarked
<1> QED  BY <1>4, <1>5

(* The blocks that were merged are registered, and no file changes.        *)
LEMMA RegisterMergeMarks ==
    ASSUME WikiInv, HomeInv, MarksInv, RegisterMerge
    PROVE  MarksInv'
<1>1. Merging("register") /\ task.kind = "merge" /\ UNCHANGED <<file, rows, broken>> /\ Goto("rows") /\ ~Renames
  BY DEF RegisterMerge, historyVars, Renames
<1>2. Calm
  BY <1>1 DEF Merging, Calm, Awaits, At
<1>3. /\ task'.op = task.op /\ task'.at = "rows" /\ task.op \in {"apply", "taxonomy"}
      /\ task.op = "apply" => GoesOn
  BY <1>1, MergeGoesOn, MergeSoFar DEF GoesOn
<1>4. ~Carries' /\ ~Renames' /\ AtNoRow
  BY <1>3 DEF Carries, Renames, AtNoRow
<1>5. \A y \in Pages \ broken' : \A b \in On(y)' : file'[y].blocks[b].pending = MarkedBy(b)
  BY <1>1, SameFilesSamePages, SamePagesMarked
<1> QED  BY <1>1, <1>2, <1>4, <1>5, SameRowsAsk, CarryMarks DEF PagesMarked

(* Rows that are moved to another page ask what they did.                  *)
LEMMA MovedRowsAsk ==
    ASSUME RowShape, DOMAIN rows' = Rows, NEW q, \A r \in Rows : rows'[r] \in {rows[r], [rows[r] EXCEPT !.page = q]}
    PROVE  RowsAsk /\ Rows' = Rows
<1>1. ASSUME NEW r \in Rows
      PROVE  /\ rows'[r].peer = rows[r].peer /\ rows'[r].candidate = rows[r].candidate
             /\ rows'[r].existing = rows[r].existing /\ rows'[r].applied = rows[r].applied
  BY <1>1 DEF RowShape, IsRow
<1> QED  BY <1>1 DEF RowsAsk, Rows

(* The rows go where the blocks went.                                      *)
LEMMA MoveRowsMarks ==
    ASSUME WikiInv, HomeInv, MarksInv, MoveRows
    PROVE  MarksInv'
<1>1. Merging("rows") /\ UNCHANGED <<file, broken>> /\ ~Renames
  BY DEF MoveRows, historyVars, Renames, Merging
<1>2. Calm /\ task.op \in {"apply", "taxonomy"} /\ task.at = "rows"
  BY <1>1 DEF Merging, Calm, Awaits, At
<1>3. RowsAsk /\ Rows' = Rows
  <2>1. \A r \in Rows : rows'[r] \in {rows[r], [rows[r] EXCEPT !.page = task.q]}
    BY DEF MoveRows
  <2>2. DOMAIN rows' = Rows
    BY DEF MoveRows
  <2> QED  BY <2>1, <2>2, MovedRowsAsk DEF WikiInv, Shapes
<1>4. {"op", "at"} \subseteq DOMAIN task /\ (task.op = "apply" => {"d", "read"} \subseteq DOMAIN task)
  BY <1>1, MergingBusy
<1>5. CASE task.op = "taxonomy"
  <2>1. task'.op = "taxonomy" /\ task'.at = "refresh"
    BY <1>4, <1>5 DEF MoveRows, Ends
  <2>2. ~Carries' /\ ~Renames' /\ AtNoRow
    BY <2>1 DEF Carries, Renames, AtNoRow
  <2>3. \A y \in Pages \ broken' : \A b \in On(y)' : file'[y].blocks[b].pending = MarkedBy(b)
    BY <1>1, SameFilesSamePages, SamePagesMarked
  <2> QED  BY <1>2, <1>3, <2>2, <2>3, CarryMarks DEF PagesMarked
<1>6. CASE task.op = "apply"
  <2>1. PICK changed : task' = [task EXCEPT !.at = "applied", !.changed = changed]
    BY <1>6 DEF MoveRows, Ends
  <2>2. /\ "r" \in DOMAIN task /\ task.r \in DOMAIN task.d /\ rows[task.r].peer = task.q /\ task.q \in Pages
    BY <1>1, <1>2, <1>6 DEF HomeInv, StageHome, MergeHome, Merges
  <2>3. /\ task'.op = "apply" /\ task'.at = "applied" /\ task'.d = task.d /\ task'.read = task.read /\ task'.r = task.r
        /\ {"op", "at", "d", "read", "r"} \subseteq DOMAIN task'
    BY <1>4, <1>6, <2>1, <2>2
  <2>4. \A b : ~Asks(task.r, b)
    BY <2>2, WikiAssumption DEF Asks
  <2>5. SameMarks
    <3>1. \A r : Awaits(r)' <=> r = task.r
      BY <2>3 DEF Awaits, At
    <3> QED  BY <1>2, <1>3, <2>4, <3>1, MarksOfRows DEF Calm
  <2>6. MarkInv'
    <3>1. ~Carries' /\ ~Renames'
      BY <2>3 DEF Carries, Renames
    <3> QED  BY <1>1, <2>5, <3>1, QuietMarks, SameFilesSamePages, SamePagesPending DEF MarksInv
  <2>7. DecidedInv' /\ FoundInv'
    <3>1. RowsStand
      BY <1>3 DEF RowsAsk, RowsStand
    <3> QED  BY <1>6, <2>3, <3>1, DecidedStays DEF GoesOn, MarksInv
  <2>8. WrittenInv'
    BY <2>2, <2>3 DEF WrittenInv, At
  <2> QED  BY <2>6, <2>7, <2>8 DEF MarksInv, DueInv
<1> QED  BY <1>2, <1>5, <1>6

(* A taxonomy operation that goes on carries nothing, or what it did.      *)
LEMMA TaxonomyMarks ==
    ASSUME WikiInv, MarksInv, task.op = "taxonomy", RowsAsk, Rows' = Rows, task'.op = "taxonomy", UNCHANGED broken,
           task'.at \notin {"target", "source", "redirect", "register"},
           task'.at = "new" => Carries /\ task'.p = task.p /\ task'.blocks = task.blocks,
           \A q \in Pages \ broken : \A b \in On(q)' : file'[q].blocks[b].pending = MarkedBy(b)
    PROVE  MarksInv'
<1>1. Calm
  BY RunCalm
<1>2. Carries' => task'.p \in broken' \/ \A b \in DOMAIN task'.blocks : task'.blocks[b].pending = MarkedBy(b)
  <2>1. CASE task'.at = "new"
    BY <2>1 DEF MarksInv, MarkInv, Marking
  <2>2. CASE task'.at # "new"
    BY <2>2 DEF Carries
  <2> QED  BY <2>1, <2>2
<1>3. ~Renames' /\ AtNoRow
  BY DEF Renames, AtNoRow
<1> QED  BY <1>1, <1>2, <1>3, CarryMarks DEF PagesMarked

(* The page is written under its new name.                                 *)
LEMMA RegisterRenameMarks ==
    ASSUME WikiInv, HomeInv, MarksInv, RegisterRename
    PROVE  MarksInv'
<1>1. /\ At("taxonomy", "register") /\ task.kind = "rename" /\ UNCHANGED <<rows, broken>> /\ Goto("refresh")
      /\ file' = [file EXCEPT ![task.p] = task.moved]
  BY DEF RegisterRename, historyVars
<1>2. Renames /\ task # Idle /\ task.op = "taxonomy"
  BY <1>1 DEF Renames, At, Idle
<1>3. task'.op = "taxonomy" /\ task'.at = "refresh"
  BY <1>1, <1>2, GotoTask DEF WikiInv
<1>4. ASSUME NEW y \in Pages \ broken, NEW b \in On(y)'
      PROVE  file'[y].blocks[b].pending = MarkedBy(b)
  <2>1. CASE y = task.p
    <3>1. file'[y] = task.moved
      BY <1>1, <1>4, <2>1 DEF WikiInv, Shapes, FileShape
    <3> QED  BY <1>2, <1>4, <2>1, <3>1 DEF MarksInv, MarkInv, Marking, On
  <2>2. CASE y # task.p
    <3>1. file'[y] = file[y]
      BY <1>1, <1>4, <2>2 DEF WikiInv, Shapes, FileShape
    <3> QED  BY <1>4, <3>1 DEF MarksInv, MarkInv, Marking, On
  <2> QED  BY <2>1, <2>2
<1> QED  BY <1>1, <1>2, <1>3, <1>4, SameRowsAsk, TaxonomyMarks

(* The page that is split loses the blocks, which are in memory ...        *)
LEMMA WriteSourceMarks ==
    ASSUME WikiInv, HomeInv, MarksInv, WriteSource
    PROVE  MarksInv'
<1>1. At("taxonomy", "source") /\ UNCHANGED rows
  BY DEF WriteSource
<1>2. task.op = "taxonomy" /\ task.at = "source" /\ task # Idle /\ Carries
  BY <1>1 DEF At, Idle, Carries
<1>3. PICK p, blocks : p = task.p /\ blocks = task.blocks
  OBVIOUS
<1>4. {"kind", "p", "q", "blocks"} \subseteq DOMAIN task /\ p \in Pages
  BY <1>2, <1>3 DEF HomeInv, StageHome, SplitHome, Splits, Cargo
<1>5. CASE task' = Idle /\ UNCHANGED file
  <2>1. broken \subseteq broken' /\ ~Carries' /\ ~Renames'
    BY <1>5 DEF WriteSource, Fail, Carries, Renames, Idle
  <2>2. \A y \in Pages \ broken' : \A b \in On(y)' : file'[y].blocks[b].pending = MarkedBy(b)
    BY <1>5, <2>1, SameFilesSamePages, SamePagesMarked
  <2> QED  BY <1>1, <1>2, <1>5, <2>1, <2>2, RunCalm, SameRowsAsk, CarryMarks DEF PagesMarked, AtNoRow
<1>6. CASE ~(task' = Idle /\ UNCHANGED file)
  <2>1. PICK f : f = file[p]
    OBVIOUS
  <2>2. PICK left : left = [b \in DOMAIN f.blocks \ DOMAIN blocks |-> f.blocks[b]]
    OBVIOUS
  <2>3. PICK g : g = [f EXCEPT !.blocks = left]
    OBVIOUS
  <2>4. file' = [file EXCEPT ![p] = g] /\ Goto("new") /\ UNCHANGED broken
    BY <1>3, <1>6, <2>1, <2>2, <2>3 DEF WriteSource, write_page, Fail, Restrict, Moved
  <2>5. g.blocks = left
    <3>1. IsPage(f)
      BY <1>4, <2>1 DEF WikiInv, Shapes, FileShape
    <3> QED  BY <2>3, <3>1 DEF IsPage
  <2>6. \A b \in DOMAIN g.blocks : b \in On(p) /\ g.blocks[b].pending = file[p].blocks[b].pending
    BY <2>1, <2>2, <2>5 DEF On
  <2>7. PendingStays
    BY <2>4, <2>6, OnePagePending DEF WikiInv, Shapes
  <2>8. \A y \in Pages \ broken : \A b \in On(y)' : file'[y].blocks[b].pending = MarkedBy(b)
    BY <2>7 DEF PendingStays, MarksInv, MarkInv, Marking, On
  <2>9. task'.op = "taxonomy" /\ task'.at = "new" /\ task'.p = p /\ task'.blocks = blocks
    <3>1. /\ DOMAIN task' = DOMAIN task /\ task'.at = "new" /\ task'.op = task.op
          /\ \A x \in DOMAIN task \ {"at"} : task'[x] = task[x]
      BY <1>2, <2>4, GotoTask DEF WikiInv
    <3>2. task'["p"] = task["p"] /\ task'["blocks"] = task["blocks"]
      BY <1>4, <3>1
    <3> QED  BY <1>2, <1>3, <3>1, <3>2
  <2> QED  BY <1>1, <1>2, <1>3, <2>4, <2>8, <2>9, SameRowsAsk, TaxonomyMarks
<1> QED  BY <1>5, <1>6

(* ... and the new page gets them, with their markers.                     *)
LEMMA WriteNewMarks ==
    ASSUME WikiInv, HomeInv, MarksInv, WriteNew
    PROVE  MarksInv'
<1>1. At("taxonomy", "new") /\ UNCHANGED <<rows, broken>> /\ Goto("moves")
  BY DEF WriteNew, historyVars
<1>2. task.op = "taxonomy" /\ task.at = "new" /\ task # Idle /\ Carries
  BY <1>1 DEF At, Idle, Carries
<1>3. PICK p, q, blocks : p = task.p /\ q = task.q /\ blocks = task.blocks
  OBVIOUS
<1>4. p \in broken => q \in broken
  BY <1>2, <1>3 DEF HomeInv, StageHome, SplitHome, Splits, Cargo
<1>5. PICK g : g = [NoFile EXCEPT !.there = TRUE, !.blocks = blocks]
  OBVIOUS
<1>6. g.blocks = blocks
  BY <1>5 DEF NoFile
<1>7. file' = [file EXCEPT ![q] = g]
  BY <1>3, <1>5 DEF WriteNew
<1>8. task'.op = "taxonomy" /\ task'.at = "moves"
  BY <1>1, <1>2, GotoTask DEF WikiInv
<1>9. ASSUME NEW y \in Pages \ broken, NEW b \in On(y)'
      PROVE  file'[y].blocks[b].pending = MarkedBy(b)
  <2>1. CASE y = q
    <3>1. file'[y] = g /\ p \notin broken
      BY <1>4, <1>7, <1>9, <2>1 DEF WikiInv, Shapes, FileShape
    <3> QED  BY <1>2, <1>3, <1>6, <1>9, <2>1, <3>1 DEF MarksInv, MarkInv, Marking, On
  <2>2. CASE y # q
    <3>1. file'[y] = file[y]
      BY <1>7, <1>9, <2>2 DEF WikiInv, Shapes, FileShape
    <3> QED  BY <1>9, <3>1 DEF MarksInv, MarkInv, Marking, On
  <2> QED  BY <2>1, <2>2
<1> QED  BY <1>1, <1>2, <1>8, <1>9, SameRowsAsk, TaxonomyMarks

(* Blocks and rows are committed where they are.                           *)
LEMMA CommitMovesMarks ==
    ASSUME WikiInv, MarksInv, CommitMoves
    PROVE  MarksInv'
<1>1. At("taxonomy", "moves") /\ UNCHANGED <<file, broken>> /\ Goto("refresh")
  BY DEF CommitMoves, historyVars
<1>2. task.op = "taxonomy" /\ task # Idle
  BY <1>1 DEF At, Idle
<1>3. RowsAsk /\ Rows' = Rows
  <2>1. \A r \in Rows : rows'[r] \in {rows[r], [rows[r] EXCEPT !.page = task.q]}
    BY DEF CommitMoves
  <2>2. DOMAIN rows' = Rows
    BY DEF CommitMoves
  <2> QED  BY <2>1, <2>2, MovedRowsAsk DEF WikiInv, Shapes
<1>4. task'.op = "taxonomy" /\ task'.at = "refresh"
  BY <1>1, <1>2, GotoTask DEF WikiInv
<1>5. \A y \in Pages \ broken : \A b \in On(y)' : file'[y].blocks[b].pending = MarkedBy(b)
  BY <1>1, SameFilesSamePages, SamePagesMarked
<1> QED  BY <1>1, <1>2, <1>3, <1>4, <1>5, TaxonomyMarks

(* What is open is listed again.                                           *)
LEMMA _refresh_derived_pagesMarks ==
    ASSUME WikiInv, MarksInv, _refresh_derived_pages
    PROVE  MarksInv'
<1>1. At("taxonomy", "refresh") /\ UNCHANGED <<rows, broken>> /\ Goto("render")
  BY DEF _refresh_derived_pages, historyVars
<1>2. task.op = "taxonomy" /\ task # Idle
  BY <1>1 DEF At, Idle
<1>3. SamePages
  <2>1. ASSUME NEW p \in Pages
        PROVE  SamePage(file[p], file'[p])
    <3>1. IsPage(file[p])
      BY <2>1 DEF WikiInv, Shapes, FileShape
    <3>2. file'[p] \in {file[p], List(file[p], p)}
      BY <2>1 DEF _refresh_derived_pages
    <3> QED  BY <3>1, <3>2, SameGenerated, SameListed
  <2> QED  BY <2>1 DEF SamePages
<1>4. task'.op = "taxonomy" /\ task'.at = "render"
  BY <1>1, <1>2, GotoTask DEF WikiInv
<1>5. \A y \in Pages \ broken : \A b \in On(y)' : file'[y].blocks[b].pending = MarkedBy(b)
  BY <1>1, <1>3, SamePagesMarked
<1> QED  BY <1>1, <1>2, <1>4, <1>5, SameRowsAsk, TaxonomyMarks

--------------------------------------------------------------------------------
(* All steps, and what the markers show.                                   *)

(* There is one block, without a marker, and no row.                       *)
LEMMA InitMarks ==
    ASSUME Init
    PROVE  MarksInv
<1>1. First \in Pages /\ 1 \in Blocks
  BY WikiAssumption DEF Blocks
<1>2. PICK v : v = Drafted(block[1].key, "current")
  OBVIOUS
<1>3. PICK blocks : blocks = [b \in {1} |-> v]
  OBVIOUS
<1>4. file = [p \in Pages |-> IF p = First THEN [Stub EXCEPT !.blocks = blocks] ELSE NoFile]
  BY <1>2, <1>3 DEF Init
<1>5. file[First].blocks = blocks /\ \A p \in Pages \ {First} : file[p].blocks = NoBlocks
  <2>1. [Stub EXCEPT !.blocks = blocks] =
        [there |-> Stub.there, blocks |-> blocks, listed |-> Stub.listed, coverage |-> Stub.coverage, digest |-> Stub.digest]
    BY StubIsGood DEF IsPage
  <2>2. [Stub EXCEPT !.blocks = blocks].blocks = blocks
    BY <2>1
  <2>3. NoFile.blocks = NoBlocks
    BY DEF NoFile
  <2> QED  BY <1>1, <1>4, <2>2, <2>3
<1>6. rows = [r \in {} |-> 0] /\ task = Idle
  BY DEF Init
<1>7. Rows = {} /\ task.op = "idle"
  BY <1>6 DEF Rows, Idle
<1>8. \A b : MarkedBy(b) = {}
  BY <1>7 DEF MarkedBy, Open
<1>9. \A b \in DOMAIN blocks : blocks[b].pending = {}
  BY <1>2, <1>3 DEF Drafted
<1>10. \A p \in Pages : Marking(file[p].blocks)
  BY <1>5, <1>8, <1>9 DEF Marking, NoBlocks
<1>11. MarkInv
  BY <1>6, <1>7, <1>10 DEF MarkInv, Carries, Renames
<1>12. DueInv
  BY <1>7 DEF DueInv, FoundInv, DecidedInv, WrittenInv, At
<1> QED  BY <1>11, <1>12 DEF MarksInv

(* Every step of a run leaves the markers as they should be ...            *)
LEMMA RunStepMarks ==
    ASSUME WikiInv, HomeInv, MarksInv, RunStep
    PROVE  MarksInv'
<1>1. ASSUME NEW cs \in SUBSET Chunks, NEW k \in Keys, NEW p \in Pages,
             PlaceClean(cs, k, p) \/ PlaceDuplicate(cs, k, p) \/ PlaceConflict(cs, k, p)
      PROVE  MarksInv'
  BY <1>1, PlaceMarks, PlaceConflictMarks
<1>2. ASSUME NEW p \in Pages, NEW q \in Pages, TaxonomyRow(p, q)
      PROVE  MarksInv'
  BY <1>2, ReviewRowMarks
<1>3. CASE ReadPage \/ WriteBlock \/ WriteConflict \/ create_block
  BY <1>3, InsertMarks, WriteBlockMarks
<1>4. CASE StartRun \/ mark_placed \/ ReadMarked \/ apply_pending_conflict_marker \/ mark_conflicted_pending
  BY <1>4, StartRunMarks, QuietRunMarks, ReadMarkedMarks, apply_pending_conflict_markerMarks
<1>5. CASE ListStale \/ emit_review_file \/ Render \/ CommitWiki
  BY <1>5, QuietRunMarks, RenderMarks
<1>6. CASE create_stale_block_reviews
  <2>1. First \in Pages
    BY WikiAssumption
  <2> QED  BY <1>6, <2>1, ReviewRowMarks
<1> QED  BY <1>1, <1>2, <1>3, <1>4, <1>5, <1>6 DEF RunStep

(* ... and so do decisions ...                                             *)
LEMMA ApplyStepMarks ==
    ASSUME WikiInv, HomeInv, MarksInv, ApplyStep
    PROVE  MarksInv'
  BY StartApplyMarks, LoadPageMarks, TurnToPagesMarks, QuietDecisionMarks, CreateAcceptedMarks, _write_pageMarks,
     EmitFollowUpMarks, _mark_appliedMarks DEF ApplyStep

(* ... and taxonomy operations.                                            *)
LEMMA TaxonomyStepMarks ==
    ASSUME WikiInv, HomeInv, MarksInv, TaxonomyStep, IF task = Idle THEN Spend(2) ELSE UNCHANGED spent, UNCHANGED late
    PROVE  MarksInv'
<1> DEFINE Starts == \/ \E p, q \in Pages : StartMerge(p, q) \/ StartSplit(p, q)
                     \/ \E p \in Pages : StartRename(p)
<1>1. CASE Starts
  <2>1. task = Idle
    BY <1>1 DEF StartMerge, StartSplit, StartRename, Start
  <2>2. Spend(2)
    BY <2>1
  <2> QED  BY <1>1, <2>2, StartMergeMarks, StartSplitMarks, StartRenameMarks
<1>2. CASE MergeRow \/ WriteTarget \/ _write_redirect_stub \/ RegisterMerge \/ MoveRows \/ RegisterRename
  BY <1>2, MergeRowMarks, WriteTargetMarks, _write_redirect_stubMarks, RegisterMergeMarks, MoveRowsMarks, RegisterRenameMarks
<1>3. CASE WriteSource \/ WriteNew \/ CommitMoves \/ _refresh_derived_pages
  BY <1>3, WriteSourceMarks, WriteNewMarks, CommitMovesMarks, _refresh_derived_pagesMarks
<1> QED  BY <1>1, <1>2, <1>3 DEF TaxonomyStep

(* A step leaves the markers as they should be.                            *)
LEMMA NextMarks ==
    ASSUME WikiInv, HomeInv, MarksInv, [Next]_vars
    PROVE  MarksInv'
<1>1. CASE RunStep
  BY <1>1, RunStepMarks
<1>2. CASE ApplyStep
  BY <1>2, ApplyStepMarks
<1>3. CASE TaxonomyStep /\ (IF task = Idle THEN Spend(2) ELSE UNCHANGED spent) /\ UNCHANGED late
  BY <1>3, TaxonomyStepMarks
<1>4. CASE \E p \in Pages, b \in Blocks : EditBlock(p, b)
  BY <1>4, EditBlockMarks
<1>5. CASE \E b \in Blocks : flag_blocks_with_only_superseded_chunks(b)
  BY <1>5, flag_blocksMarks
<1>6. CASE Kill
  BY <1>6, KillMarks
<1>7. CASE UNCHANGED vars
  <2>1. UNCHANGED <<file, task, block, rows, broken>>
    BY <1>7 DEF vars, storeVars, historyVars
  <2>2. MarkInv'
    BY <2>1 DEF MarksInv, MarkInv, Marking, MarkedBy, Open, Rows, Awaits, At, Does, Asks, Carries, Renames
  <2>3. DueInv'
    BY <2>1 DEF MarksInv, DueInv, FoundInv, DecidedInv, WrittenInv, At, Open, Rows, Asks, Sited, Row, Does, Takes, IsStale, IsTaxonomy
  <2> QED  BY <2>2, <2>3 DEF MarksInv
<1> QED  BY <1>1, <1>2, <1>3, <1>4, <1>5, <1>6, <1>7 DEF Next

(* Between operations a page has the markers of its open rows.             *)
LEMMA MarksAgree ==
    ASSUME WikiInv, HomeInv, MarksInv
    PROVE  MarkersMatch
<1> SUFFICES ASSUME NEW p \in Pages, Settled(p)
             PROVE  Markers(p) = {r \in Conflicts(p) : ~IsStale(r) /\ rows[r].existing \in Live}
  BY DEF MarkersMatch
<1>1. task = Idle /\ task.op = "idle" /\ p \notin broken
  BY DEF Settled, Idle
<1>2. Homes /\ Calm
  BY <1>1, HomesBetween, RunCalm DEF PartDone, Fated
<1>3. \A b \in On(p) : file[p].blocks[b].pending = MarkedBy(b)
  BY <1>1 DEF MarksInv, MarkInv, Marking, On
<1>4. ASSUME NEW b \in On(p), NEW r \in MarkedBy(b)
      PROVE  r \in Conflicts(p) /\ ~IsStale(r) /\ rows[r].existing \in Live
  <2>1. r \in Open /\ r \in Rows /\ rows[r].peer = "none" /\ rows[r].candidate # NoCandidate /\ rows[r].existing = b
    BY <1>4 DEF MarkedBy, Asks, Open
  <2>2. b \in Known
    BY <2>1 DEF WikiInv, IdsInv
  <2>3. Sited(b, p) /\ block[b].status # "deleted"
    BY <1>1, <1>2, <1>4, <2>2 DEF Homes, FilesAtHome
  <2>4. Stands(b)
    BY <1>4, <2>2 DEF Stands
  <2>5. Sited(b, rows[r].page)
    BY <1>2, <2>1, <2>4 DEF Homes, RowsAtHome
  <2>6. rows[r].page = p
    BY <1>1, <2>3, <2>5 DEF Sited
  <2> QED  BY <2>1, <2>2, <2>3, <2>6 DEF Conflicts, IsStale, Live
<1>5. ASSUME NEW r \in Conflicts(p), ~IsStale(r), rows[r].existing \in Live
      PROVE  \E b \in On(p) : r \in MarkedBy(b)
  <2>1. PICK b : b = rows[r].existing
    OBVIOUS
  <2>2. r \in Open /\ r \in Rows /\ rows[r].page = p /\ rows[r].peer = "none" /\ rows[r].candidate # NoCandidate
    BY <1>5 DEF Conflicts, Open, IsStale, IsTaxonomy
  <2>3. Sited(b, p)
    BY <1>2, <1>5, <2>1, <2>2 DEF Homes, RowsAtHome, Stands
  <2>4. b \in On(p)
    BY <1>1, <1>2, <1>5, <2>1, <2>3 DEF Homes, BlocksAtHome, Sited
  <2>5. r \in MarkedBy(b)
    BY <1>2, <2>1, <2>2 DEF MarkedBy, Asks, Calm
  <2> QED  BY <2>4, <2>5
<1>6. ASSUME NEW r
      PROVE  r \in Markers(p) <=> \E b \in On(p) : r \in MarkedBy(b)
  BY <1>3 DEF Markers
<1> QED  BY <1>4, <1>5, <1>6 DEF Conflicts

(* On a page that no cut-off operation has left in parts, the markers that *)
(* the blocks carry are those of the open rows about them: a row that is   *)
(* decided, that is moved with its page or whose block is deleted leaves   *)
(* none behind, and no other way of writing a page loses one.              *)
THEOREM MarkersAreKept == Spec => []MarkersMatch
<1>1. Init => WikiInv /\ HomeInv /\ MarksInv
  BY InitInv, InitHome, InitMarks
<1>2. WikiInv /\ HomeInv /\ MarksInv /\ [Next]_vars => (WikiInv /\ HomeInv /\ MarksInv)'
  BY NextStep, NextHome, NextMarks
<1>3. WikiInv /\ HomeInv /\ MarksInv => MarkersMatch
  BY MarksAgree
<1> QED  BY <1>1, <1>2, <1>3, PTL DEF Spec
================================================================================
