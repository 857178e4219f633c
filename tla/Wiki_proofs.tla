------------------------------ MODULE Wiki_proofs ------------------------------
(***************************************************************************)
(* What becomes of the texts of the user in the wiki, for any pages, keys, *)
(* chunks, blocks, decisions and kills: an edit that is committed is       *)
(* marked as the user's, and no operation drafts over one (WikiInv).  And  *)
(* the files of pages show the blocks that the rows place there, but for   *)
(* what the operation that runs has done in part (HomeInv).                *)
(***************************************************************************)
EXTENDS Wiki, FiniteSetTheorems, WellFoundedInduction, TLAPS

--------------------------------------------------------------------------------
(* Shapes.                                                                 *)

IsBlock(v) ==
    /\ v = [key |-> v.key, status |-> v.status, text |-> v.text, edited |-> v.edited, pending |-> v.pending]
    /\ v.text \in Nat /\ v.edited \in BOOLEAN
IsBlocks(f) == f = [b \in DOMAIN f |-> f[b]] /\ \A b \in DOMAIN f : IsBlock(f[b])
IsPage(f) ==
    /\ f = [there |-> f.there, blocks |-> f.blocks, listed |-> f.listed, coverage |-> f.coverage, digest |-> f.digest]
    /\ IsBlocks(f.blocks)
IsBlockRow(v) == v = [page |-> v.page, key |-> v.key, status |-> v.status, edited |-> v.edited]
IsCandidate(c) == c = [id |-> c.id, key |-> c.key, chunks |-> c.chunks]
IsRow(v) ==
    /\ v = [page |-> v.page, existing |-> v.existing, peer |-> v.peer, applied |-> v.applied, candidate |-> v.candidate]
    /\ IsCandidate(v.candidate)
    /\ v.peer # "none" => v.page \in Pages

FileShape == DOMAIN file = Pages /\ \A p \in Pages : IsPage(file[p])
HeadShape == DOMAIN head = Pages /\ \A p \in Pages : IsBlocks(head[p])
BlockShape == DOMAIN block = Blocks /\ \A b \in Blocks : IsBlockRow(block[b])
RowShape == \A r \in Rows : IsRow(rows[r])
Shapes == FileShape /\ HeadShape /\ BlockShape /\ RowShape /\ spent \in Nat

(* A user's text is marked, or it was edited during an operation.          *)
Fine(v) == v.text # 0 => v.edited
Old(f) == \A b \in DOMAIN f : f[b].text <= spent
Marks(f) == IsBlocks(f) /\ Old(f) /\ \A b \in DOMAIN f \ late : Fine(f[b])

PagesInv ==
    \A p \in Pages :
        /\ Marks(head[p]) /\ Old(file[p].blocks)
        /\ \A b \in On(p) \ late :
              \/ Fine(file[p].blocks[b])
              \/ task = Idle /\ b \in DOMAIN head[p] /\ file[p].blocks[b] # head[p][b]

(* The blocks of a page that is moved.                                     *)
Carries == task # Idle /\ task.at \in {"target", "source", "new"}
Renames == task.op = "taxonomy" /\ task.at \in {"redirect", "register"} /\ task.kind = "rename"
TaskInv ==
    /\ task = Idle \/ (task.op \in {"run", "apply", "taxonomy"} /\ {"op", "at"} \subseteq DOMAIN task)
    /\ Carries => {"kind", "p", "q", "blocks"} \subseteq DOMAIN task /\ Marks(task.blocks) /\ task.kind # "rename"
    /\ task.op = "taxonomy" => {"kind", "q"} \subseteq DOMAIN task /\ task.q \in Pages
    /\ Renames => "moved" \in DOMAIN task /\ IsPage(task.moved) /\ Marks(task.moved.blocks)

(* Ids of blocks and rows.                                                 *)
Numbered(S) == \E n \in Nat : S = 1..n
Offered == UNION {{rows[r].candidate.id} : r \in {r \in Rows : rows[r].candidate.id # 0}}
Taken == Known \cup orphans \cup Offered
Writing == IF At("run", "create") THEN {task.id} ELSE {}

IdsInv ==
    /\ Numbered(Rows) /\ Numbered(Taken)
    /\ Offered \cap orphans = {}
    /\ \A r \in Rows : /\ rows[r].candidate = NoCandidate \/ rows[r].candidate.id \in Blocks
                       /\ rows[r].peer = "none" => rows[r].existing \in Known
PlacesInv ==
    /\ \A p \in Pages : On(p) \subseteq Known \cup orphans \cup Writing
    /\ Carries => DOMAIN task.blocks \subseteq Known \cup orphans
    /\ Renames => DOMAIN task.moved.blocks \subseteq Known \cup orphans
NextInv ==
    task.op = "run" /\ task.at \in {"read", "write", "create"} =>
        {"id", "p", "k"} \subseteq DOMAIN task /\ task.id = NextBlock /\ task.id \in Blocks

(* What the rows were read as still holds.                                 *)
ReadInv ==
    /\ {"d", "read"} \subseteq DOMAIN task
    /\ DOMAIN task.d \subseteq DOMAIN task.read /\ DOMAIN task.read \subseteq Rows
    /\ \A r \in DOMAIN task.read :
          /\ IsRow(task.read[r])
          /\ task.read[r].candidate = rows[r].candidate
          /\ task.read[r].existing = rows[r].existing /\ task.read[r].peer = rows[r].peer

(* The row a decision is about.                                            *)
RowInv ==
    task.op = "apply" =>
        /\ ReadInv
        /\ task.at \in {"status", "create", "write"} =>
              /\ {"r", "p", "id", "old"} \subseteq DOMAIN task
              /\ task.r \in DOMAIN task.d /\ rows[task.r].peer = "none"
        /\ task.at = "merge" => "r" \in DOMAIN task /\ task.r \in DOMAIN task.d /\ rows[task.r].peer # "none"
        /\ task.at = "status" => task.id = rows[task.r].candidate.id
        /\ task.at = "create" /\ task.d[task.r] \in {"approved_merge", "merge"} => task.id \in Blocks
        /\ task.at = "create" =>
              task.id = IF task.d[task.r] \in {"approved_merge", "merge"} THEN NextBlock ELSE rows[task.r].candidate.id
        /\ task.at = "write" /\ Takes => task.id \in Known /\ \A p \in Pages : task.id \notin On(p)

WikiInv == Shapes /\ PagesInv /\ TaskInv /\ IdsInv /\ PlacesInv /\ NextInv /\ RowInv

--------------------------------------------------------------------------------
(* Functions and records.                                                  *)

(* The numbers up to one more.                                             *)
LEMMA NumberedNext ==
    ASSUME NEW S, Numbered(S)
    PROVE  /\ Cardinality(S) \in Nat /\ Cardinality(S) + 1 \notin S
           /\ Numbered(S \cup {Cardinality(S) + 1})
           /\ S \subseteq Nat
<1>1. PICK n \in Nat : S = 1..n
  BY DEF Numbered
<1>2. Cardinality(S) = n
  BY <1>1, FS_Interval
<1>3. S \cup {n + 1} = 1..n + 1 /\ n + 1 \in Nat /\ n + 1 \notin S
  BY <1>1
<1> QED  BY <1>1, <1>2, <1>3 DEF Numbered

--------------------------------------------------------------------------------
(* Pages as values.                                                        *)

(* The blocks of g are those of f, with their texts and marks.             *)
Kept(f, g) ==
    /\ IsPage(g) /\ DOMAIN g.blocks = DOMAIN f.blocks
    /\ \A b \in DOMAIN f.blocks :
          g.blocks[b].text = f.blocks[b].text /\ (f.blocks[b].edited => g.blocks[b].edited)

(* A page is kept when nothing changes but what is generated.              *)
LEMMA KeptGenerated ==
    ASSUME NEW f, IsPage(f), NEW g, IsPage(g), g.blocks = f.blocks
    PROVE  Kept(f, g)
  BY DEF Kept

(* ... or one of its blocks, in all but its text.                          *)
LEMMA KeptBlock ==
    ASSUME NEW f, IsPage(f), NEW g, NEW b, NEW v,
           g = [f EXCEPT !.blocks[b] = v], b \in DOMAIN f.blocks => IsBlock(v) /\ v.text = f.blocks[b].text /\ v.edited = f.blocks[b].edited
    PROVE  Kept(f, g)
<1>1. PICK blocks : blocks = [f.blocks EXCEPT ![b] = v]
  OBVIOUS
<1>2. /\ DOMAIN blocks = DOMAIN f.blocks /\ blocks = [c \in DOMAIN blocks |-> blocks[c]]
      /\ \A c \in DOMAIN f.blocks : blocks[c] = IF c = b THEN v ELSE f.blocks[c]
  BY <1>1
<1>3. IsBlocks(blocks)
  BY <1>2 DEF IsPage, IsBlocks
<1>4. g = [f EXCEPT !.blocks = blocks]
  BY <1>1
<1>5. g = [there |-> f.there, blocks |-> blocks, listed |-> f.listed, coverage |-> f.coverage, digest |-> f.digest]
  BY <1>4 DEF IsPage
<1>6. IsPage(g) /\ g.blocks = blocks
  BY <1>3, <1>5 DEF IsPage
<1> QED  BY <1>2, <1>6 DEF Kept

(* A page that is kept twice is kept.                                      *)
LEMMA KeptTwice ==
    ASSUME NEW f, NEW g, NEW h, Kept(f, g), Kept(g, h)
    PROVE  Kept(f, h)
  BY DEF Kept

(* ... and the marks are as good as they were.                             *)
LEMMA KeptMarks ==
    ASSUME NEW f, NEW g, Kept(f, g), Marks(f.blocks)
    PROVE  Marks(g.blocks)
  BY DEF Kept, Marks, IsPage, Old, Fine

(* Pages are kept when the status of a block is set.                       *)
LEMMA KeptStatus ==
    ASSUME NEW f, IsPage(f), NEW b, NEW status
    PROVE  Kept(f, set_status(f, b, status))
<1> DEFINE v == [f.blocks[b] EXCEPT !.status = status]
<1>1. set_status(f, b, status) = [f EXCEPT !.blocks[b] = v]
  BY DEF set_status
<1>2. b \in DOMAIN f.blocks => IsBlock(v) /\ v.text = f.blocks[b].text /\ v.edited = f.blocks[b].edited
  BY DEF IsPage, IsBlocks, IsBlock
<1> HIDE DEF v
<1> QED  BY <1>1, <1>2, KeptBlock

(* ... when the markers of a block are.                                    *)
LEMMA KeptPending ==
    ASSUME NEW f, IsPage(f), NEW b, NEW pending
    PROVE  Kept(f, [f EXCEPT !.blocks[b].pending = pending])
<1> DEFINE v == [f.blocks[b] EXCEPT !.pending = pending]
<1>1. [f EXCEPT !.blocks[b].pending = pending] = [f EXCEPT !.blocks[b] = v]
  OBVIOUS
<1>2. b \in DOMAIN f.blocks => IsBlock(v) /\ v.text = f.blocks[b].text /\ v.edited = f.blocks[b].edited
  BY DEF IsPage, IsBlocks, IsBlock
<1> HIDE DEF v
<1> QED  BY <1>1, <1>2, KeptBlock

(* ... when a marker comes or goes.                                        *)
LEMMA KeptMarker ==
    ASSUME NEW f, IsPage(f), NEW b, NEW r
    PROVE  Kept(f, add_pending_marker(f, b, r)) /\ Kept(f, remove_pending_marker(f, b, r))
<1>1. add_pending_marker(f, b, r) = [f EXCEPT !.blocks[b].pending = f.blocks[b].pending \cup {r}]
  BY DEF add_pending_marker
<1>2. remove_pending_marker(f, b, r) = [f EXCEPT !.blocks[b].pending = f.blocks[b].pending \ {r}]
  BY DEF remove_pending_marker
<1> QED  BY <1>1, <1>2, KeptPending

(* A page that comes to be there.                                          *)
LEMMA PageThere ==
    ASSUME NEW f, IsPage(f), NEW g, g = [f EXCEPT !.there = TRUE]
    PROVE  IsPage(g) /\ g.blocks = f.blocks
<1>1. g = [there |-> TRUE, blocks |-> f.blocks, listed |-> f.listed, coverage |-> f.coverage, digest |-> f.digest]
  BY DEF IsPage
<1> QED  BY <1>1 DEF IsPage

(* Pages are kept when what is open there is listed.                       *)
LEMMA KeptListed ==
    ASSUME NEW f, IsPage(f), NEW listed
    PROVE  Kept(f, [f EXCEPT !.listed = listed]) /\ Kept(f, [f EXCEPT !.there = TRUE, !.listed = listed])
<1>1. ASSUME NEW g, IsPage(g)
      PROVE  IsPage([g EXCEPT !.listed = listed]) /\ [g EXCEPT !.listed = listed].blocks = g.blocks
  <2>1. [g EXCEPT !.listed = listed] = [there |-> g.there, blocks |-> g.blocks, listed |-> listed, coverage |-> g.coverage, digest |-> g.digest]
    BY <1>1 DEF IsPage
  <2> QED  BY <1>1, <2>1 DEF IsPage
<1>2. PICK g : g = [f EXCEPT !.there = TRUE]
  OBVIOUS
<1>3. [f EXCEPT !.there = TRUE, !.listed = listed] = [g EXCEPT !.listed = listed]
  BY <1>2
<1>4. IsPage(g) /\ g.blocks = f.blocks
  BY <1>2, PageThere
<1> QED  BY <1>1, <1>3, <1>4, KeptGenerated

(* ... by any operation.                                                   *)
LEMMA KeptList ==
    ASSUME NEW f, IsPage(f), NEW p
    PROVE  Kept(f, List(f, p))
<1>1. PICK listed : listed = OpenConflicts(p)
  OBVIOUS
<1>2. List(f, p) = [f EXCEPT !.there = TRUE, !.listed = listed]
  BY <1>1 DEF List
<1> QED  BY <1>2, KeptListed

(* ... when the rest that is generated is written.                         *)
LEMMA KeptRendered ==
    ASSUME NEW p \in Pages, IsPage(file[p]), NEW skipped
    PROVE  Kept(file[p], Rendered(skipped)[p])
<1> DEFINE f == file[p]
<1>1. PICK digest : Rendered(skipped)[p] = IF p \in Active THEN [f EXCEPT !.there = TRUE, !.coverage = Coverage(p), !.digest = digest] ELSE f
  BY DEF Rendered
<1>2. PICK g : g = [f EXCEPT !.there = TRUE]
  OBVIOUS
<1>3. PICK h : h = [g EXCEPT !.coverage = Coverage(p)]
  OBVIOUS
<1>4. IsPage(g) /\ g.blocks = f.blocks
  BY <1>2, PageThere
<1>5. h = [there |-> g.there, blocks |-> g.blocks, listed |-> g.listed, coverage |-> Coverage(p), digest |-> g.digest]
  BY <1>3, <1>4 DEF IsPage
<1>6. IsPage(h) /\ h.blocks = f.blocks
  BY <1>4, <1>5 DEF IsPage
<1>7. [h EXCEPT !.digest = digest] =
      [there |-> h.there, blocks |-> h.blocks, listed |-> h.listed, coverage |-> h.coverage, digest |-> digest]
  BY <1>6 DEF IsPage
<1>8. [f EXCEPT !.there = TRUE, !.coverage = Coverage(p), !.digest = digest] = [h EXCEPT !.digest = digest]
  BY <1>2, <1>3
<1> QED  BY <1>1, <1>6, <1>7, <1>8, KeptGenerated DEF IsPage

(* ... when edits are marked; and then every block that has changed is.    *)
LEMMA KeptMarked ==
    ASSUME NEW p \in Pages, IsPage(file[p])
    PROVE  /\ Kept(file[p], Marked[p])
           /\ \A b \in _changed_block_ids(p) : Marked[p].blocks[b].edited
<1> DEFINE f == file[p]
           blocks == [b \in On(p) |-> [f.blocks[b] EXCEPT !.edited = f.blocks[b].edited \/ b \in _changed_block_ids(p)]]
<1>1. Marked[p] = [f EXCEPT !.blocks = blocks]
  BY DEF Marked
<1>2. Marked[p] = [there |-> f.there, blocks |-> blocks, listed |-> f.listed, coverage |-> f.coverage, digest |-> f.digest]
  BY <1>1 DEF IsPage
<1>3. ASSUME NEW b \in On(p)
      PROVE  /\ IsBlock(blocks[b]) /\ blocks[b].text = f.blocks[b].text
             /\ blocks[b].edited = (f.blocks[b].edited \/ b \in _changed_block_ids(p))
  <2>1. IsBlock(f.blocks[b])
    BY <1>3 DEF On, IsPage, IsBlocks
  <2>2. PICK e \in BOOLEAN : e = (f.blocks[b].edited \/ b \in _changed_block_ids(p))
    OBVIOUS
  <2>3. blocks[b] = [f.blocks[b] EXCEPT !.edited = e]
    BY <1>3, <2>2
  <2> QED  BY <2>1, <2>2, <2>3 DEF IsBlock
<1>4. IsBlocks(blocks) /\ DOMAIN blocks = DOMAIN f.blocks
  BY <1>3 DEF IsBlocks, On
<1>5. _changed_block_ids(p) \subseteq On(p)
  BY DEF _changed_block_ids
<1> HIDE DEF blocks
<1>6. IsPage(Marked[p]) /\ Marked[p].blocks = blocks
  BY <1>2, <1>4 DEF IsPage
<1> QED  BY <1>3, <1>4, <1>5, <1>6 DEF Kept, On

(* ... when stale blocks are shown to be.                                  *)
LEMMA KeptSynced ==
    ASSUME NEW f, NEW p \in Pages, IsPage(f[p])
    PROVE  Kept(f[p], sync_block_statuses(f)[p])
<1> DEFINE g == f[p]
           blocks == [b \in DOMAIN g.blocks |->
               IF b \in BlocksOf(p) /\ block[b].status = "needs_review" THEN [g.blocks[b] EXCEPT !.status = "needs_review"] ELSE g.blocks[b]]
<1>1. sync_block_statuses(f)[p] = [g EXCEPT !.blocks = blocks]
  BY DEF sync_block_statuses
<1>2. sync_block_statuses(f)[p] = [there |-> g.there, blocks |-> blocks, listed |-> g.listed, coverage |-> g.coverage, digest |-> g.digest]
  BY <1>1 DEF IsPage
<1>3. ASSUME NEW b \in DOMAIN g.blocks
      PROVE  IsBlock(blocks[b]) /\ blocks[b].text = g.blocks[b].text /\ blocks[b].edited = g.blocks[b].edited
  <2>1. IsBlock(g.blocks[b])
    BY <1>3 DEF IsPage, IsBlocks
  <2>2. blocks[b] = [g.blocks[b] EXCEPT !.status = "needs_review"] \/ blocks[b] = g.blocks[b]
    BY <1>3
  <2> QED  BY <2>1, <2>2 DEF IsBlock
<1>4. IsBlocks(blocks) /\ DOMAIN blocks = DOMAIN g.blocks
  BY <1>3 DEF IsBlocks
<1> HIDE DEF blocks
<1> QED  BY <1>2, <1>3, <1>4 DEF Kept, IsPage

(* A page with one block more.                                             *)
LEMMA InsertedBlock ==
    ASSUME NEW f, IsPage(f), NEW b, NEW v, IsBlock(v)
    PROVE  /\ IsPage(insert_block(f, b, v))
           /\ insert_block(f, b, v).blocks = Put(f.blocks, b, v)
<1>1. PICK g : g = [f EXCEPT !.there = TRUE]
  OBVIOUS
<1>2. PICK blocks : blocks = Put(f.blocks, b, v)
  OBVIOUS
<1>3. IsPage(g) /\ g.blocks = f.blocks
  BY <1>1, PageThere
<1>4. insert_block(f, b, v) = [g EXCEPT !.blocks = blocks]
  BY <1>1, <1>2 DEF insert_block
<1>5. [g EXCEPT !.blocks = blocks] = [there |-> g.there, blocks |-> blocks, listed |-> g.listed, coverage |-> g.coverage, digest |-> g.digest]
  BY <1>3 DEF IsPage
<1>6. /\ DOMAIN blocks = DOMAIN f.blocks \cup {b} /\ blocks[b] = v /\ blocks = [c \in DOMAIN blocks |-> blocks[c]]
      /\ \A c \in DOMAIN f.blocks \ {b} : blocks[c] = f.blocks[c]
  BY <1>2 DEF Put, With
<1>7. IsBlocks(blocks)
  BY <1>6 DEF IsBlocks, IsPage
<1> QED  BY <1>2, <1>4, <1>5, <1>7 DEF IsPage

--------------------------------------------------------------------------------
(* The store.                                                              *)

(* What is shown of the pages of a step.                                   *)
FilesKept == DOMAIN file' = Pages /\ \A p \in Pages : Kept(file[p], file'[p])
FilesGood == DOMAIN file' = Pages /\ \A p \in Pages : IsPage(file'[p]) /\ Marks(file'[p].blocks)
FilesInv == FileShape /\ HeadShape /\ spent \in Nat /\ PagesInv
TextsStay ==
    \A p \in Pages : \A b \in On(p) :
        b \in DOMAIN file'[p].blocks /\ file'[p].blocks[b].text = file[p].blocks[b].text

(* An operation finds the edits that are not its own marked.               *)
LEMMA PagesAreGood ==
    ASSUME WikiInv, task # Idle
    PROVE  \A p \in Pages : IsPage(file[p]) /\ Marks(file[p].blocks)
  BY DEF WikiInv, Shapes, FileShape, PagesInv, Marks, On, IsPage

(* Pages that are kept are good, and keep their texts.                     *)
LEMMA KeptGood ==
    ASSUME WikiInv, task # Idle, FilesKept
    PROVE  FilesGood
<1>1. \A p \in Pages : IsPage(file[p]) /\ Marks(file[p].blocks)
  BY PagesAreGood
<1>2. ASSUME NEW p \in Pages
      PROVE  IsPage(file'[p]) /\ Marks(file'[p].blocks)
  <2>1. Kept(file[p], file'[p])
    BY <1>2 DEF FilesKept
  <2>2. Marks(file[p].blocks)
    BY <1>1, <1>2
  <2> QED  BY <2>1, <2>2, KeptMarks DEF Kept
<1> QED  BY <1>2 DEF FilesKept, FilesGood

(* Files that are not written are kept.                                    *)
LEMMA SameFiles ==
    ASSUME FileShape, UNCHANGED file
    PROVE  FilesKept
  BY KeptGenerated DEF FileShape, FilesKept

(* A file that is written is kept if what is written keeps it.             *)
LEMMA OneFileKept ==
    ASSUME FileShape, NEW p, NEW f, p \in Pages => Kept(file[p], f), file' = [file EXCEPT ![p] = f]
    PROVE  FilesKept
<1>1. ASSUME NEW q \in Pages
      PROVE  Kept(file[q], file'[q])
  <2>1. CASE q = p
    BY <2>1 DEF FileShape
  <2>2. CASE q # p
    <3>1. file'[q] = file[q]
      BY <2>2, <1>1 DEF FileShape
    <3> QED  BY <3>1, <1>1, KeptGenerated DEF FileShape
  <2> QED  BY <2>1, <2>2
<1> QED  BY <1>1 DEF FilesKept, FileShape

(* A file that is written is good if what is written is.                   *)
LEMMA OneFileGood ==
    ASSUME WikiInv, task # Idle, NEW p, NEW f, p \in Pages => IsPage(f) /\ Marks(f.blocks), file' = [file EXCEPT ![p] = f]
    PROVE  FilesGood
<1>1. \A q \in Pages : IsPage(file[q]) /\ Marks(file[q].blocks)
  BY PagesAreGood
<1> QED  BY <1>1 DEF FilesGood, WikiInv, Shapes, FileShape

(* Texts stay on pages that are kept.                                      *)
LEMMA KeptTexts ==
    ASSUME FilesKept
    PROVE  TextsStay
  BY DEF FilesKept, Kept, TextsStay, On

(* The pages after a step of an operation.                                 *)
LEMMA FilesStep ==
    ASSUME WikiInv, task # Idle, FilesGood, UNCHANGED <<head, late, spent>>
    PROVE  FilesInv'
<1>1. HeadShape' /\ spent' \in Nat
  BY DEF WikiInv, Shapes, HeadShape
<1>2. FileShape'
  BY DEF FilesGood, FileShape
<1>3. \A p \in Pages : Marks(head[p])' /\ Marks(file[p].blocks)'
  BY DEF FilesGood, WikiInv, PagesInv, Marks, Old
<1>4. PagesInv'
  BY <1>3 DEF PagesInv, Marks, On
<1> QED  BY <1>1, <1>2, <1>4 DEF FilesInv

(* The pages when an operation starts.                                     *)
LEMMA FilesStart ==
    ASSUME WikiInv, task = Idle, UNCHANGED <<head, late>>, spent' \in Nat, spent <= spent',
           DOMAIN file' = Pages, \A p \in Pages : Kept(Marked[p], file'[p])
    PROVE  FilesInv' /\ FilesKept
<1>1. ASSUME NEW p \in Pages
      PROVE  /\ Kept(file[p], file'[p]) /\ Kept(file[p], Marked[p]) /\ Kept(Marked[p], file'[p])
             /\ \A b \in _changed_block_ids(p) : Marked[p].blocks[b].edited
  <2>1. Kept(file[p], Marked[p]) /\ \A b \in _changed_block_ids(p) : Marked[p].blocks[b].edited
    BY <1>1, KeptMarked DEF WikiInv, Shapes, FileShape
  <2> QED  BY <1>1, <2>1, KeptTwice
<1>2. FilesKept
  BY <1>1 DEF FilesKept
<1>3. HeadShape' /\ FileShape'
  BY <1>1 DEF WikiInv, Shapes, HeadShape, FileShape, Kept
<1>4. ASSUME NEW p \in Pages
      PROVE  Marks(head[p])' /\ Marks(file[p].blocks)'
  <2>1. Marks(head[p])'
    <3>1. Marks(head[p]) /\ spent \in Nat
      BY <1>4 DEF WikiInv, Shapes, PagesInv
    <3>2. ASSUME NEW b \in DOMAIN head[p]
          PROVE  head[p][b].text <= spent'
      <4>1. head[p][b].text \in Nat
        BY <3>1, <3>2 DEF Marks, IsBlocks, IsBlock
      <4>2. head[p][b].text <= spent
        BY <3>1, <3>2 DEF Marks, Old
      <4> QED  BY <3>1, <4>1, <4>2
    <3> QED  BY <3>1, <3>2 DEF Marks, Old
  <2>2. Old(file[p].blocks) /\ IsPage(file[p]) /\ spent \in Nat
    BY <1>4 DEF WikiInv, Shapes, PagesInv, FileShape
  <2>3. ASSUME NEW b \in DOMAIN file'[p].blocks
        PROVE  file'[p].blocks[b].text <= spent' /\ (b \notin late => Fine(file'[p].blocks[b]))
    <3>1. /\ b \in On(p) /\ b \in DOMAIN Marked[p].blocks
          /\ file'[p].blocks[b].text = file[p].blocks[b].text
          /\ file[p].blocks[b].edited => file'[p].blocks[b].edited
          /\ Marked[p].blocks[b].edited => file'[p].blocks[b].edited
      BY <1>1, <1>4, <2>3 DEF Kept, On
    <3>2. file[p].blocks[b].text \in Nat /\ file[p].blocks[b].text <= spent
      BY <2>2, <3>1 DEF On, Old, IsPage, IsBlocks, IsBlock
    <3>3. b \notin late => Fine(file[p].blocks[b]) \/ b \in _changed_block_ids(p)
      BY <1>4, <3>1 DEF WikiInv, PagesInv, _changed_block_ids
    <3>4. file'[p].blocks[b].text <= spent'
      BY <2>2, <3>1, <3>2
    <3>5. b \notin late => Fine(file'[p].blocks[b])
      BY <1>1, <1>4, <3>1, <3>3 DEF Fine
    <3> QED  BY <3>4, <3>5
  <2>4. IsBlocks(file'[p].blocks)
    BY <1>1, <1>4 DEF Kept, IsPage
  <2> QED  BY <2>1, <2>3, <2>4 DEF Marks, Old
<1>5. PagesInv'
  BY <1>4 DEF PagesInv, Marks, On
<1> QED  BY <1>2, <1>3, <1>5 DEF FilesInv

--------------------------------------------------------------------------------
(* Rows of blocks.                                                         *)

(* The statuses change, or whose the blocks are, or where; the blocks that *)
(* are known do not.                                                       *)
BlocksStep == BlockShape' /\ Known' = Known

(* A block that is known gets a status.                                    *)
LEMMA StatusStep ==
    ASSUME BlockShape, NEW b \in Known, NEW status, status # "unknown", block' = [block EXCEPT ![b].status = status]
    PROVE  BlocksStep
<1>1. PICK v : v = [block[b] EXCEPT !.status = status]
  OBVIOUS
<1>2. b \in Blocks /\ IsBlockRow(block[b])
  BY DEF Known, BlockShape
<1>3. v = [page |-> block[b].page, key |-> block[b].key, status |-> status, edited |-> block[b].edited]
  BY <1>1, <1>2 DEF IsBlockRow
<1>4. block' = [block EXCEPT ![b] = v]
  BY <1>1
<1>5. DOMAIN block' = Blocks /\ block'[b] = v /\ \A c \in Blocks \ {b} : block'[c] = block[c]
  BY <1>2, <1>4 DEF BlockShape
<1>6. IsBlockRow(v) /\ v.status # "unknown"
  BY <1>3 DEF IsBlockRow
<1>7. BlockShape'
  BY <1>5, <1>6 DEF BlockShape
<1>8. \A c \in Blocks : block'[c].status # "unknown" <=> block[c].status # "unknown"
  BY <1>2, <1>5, <1>6 DEF Known
<1> QED  BY <1>7, <1>8 DEF BlocksStep, Known

(* Blocks are marked.                                                      *)
LEMMA MarkedStep ==
    ASSUME BlockShape, block' = MarkedRows
    PROVE  BlocksStep
<1>1. ASSUME NEW b \in Blocks
      PROVE  IsBlockRow(block'[b]) /\ block'[b].status = block[b].status
  <2>1. PICK e : block'[b] = [block[b] EXCEPT !.edited = e]
    BY <1>1 DEF MarkedRows
  <2> QED  BY <2>1, <1>1 DEF BlockShape, IsBlockRow
<1>2. BlockShape'
  BY <1>1 DEF BlockShape, MarkedRows
<1> QED  BY <1>1, <1>2 DEF BlocksStep, Known

(* Blocks are moved.                                                       *)
LEMMA RehomedStep ==
    ASSUME BlockShape, block' = [b \in Blocks |-> Rehome(b)]
    PROVE  BlocksStep
<1>1. ASSUME NEW b \in Blocks
      PROVE  IsBlockRow(block'[b]) /\ block'[b].status = block[b].status
  <2>1. block'[b] = [block[b] EXCEPT !.page = task.q] \/ block'[b] = block[b]
    BY <1>1 DEF Rehome
  <2> QED  BY <2>1, <1>1 DEF BlockShape, IsBlockRow
<1>2. BlockShape'
  BY <1>1 DEF BlockShape
<1> QED  BY <1>1, <1>2 DEF BlocksStep, Known

(* No block changes.                                                       *)
LEMMA SameBlocks ==
    ASSUME BlockShape, UNCHANGED block
    PROVE  BlocksStep
  BY DEF BlockShape, BlocksStep, Known

(* A block is new, or known again.                                         *)
LEMMA CreatedStep ==
    ASSUME BlockShape, NEW b \in Blocks, NEW v, IsBlockRow(v), v.status # "unknown", block' = [block EXCEPT ![b] = v]
    PROVE  BlockShape' /\ Known' = Known \cup {b}
<1>1. DOMAIN block' = Blocks /\ block'[b] = v /\ \A c \in Blocks \ {b} : block'[c] = block[c]
  BY DEF BlockShape
<1>2. BlockShape'
  BY <1>1 DEF BlockShape
<1>3. \A c \in Blocks : block'[c].status # "unknown" <=> (c = b \/ block[c].status # "unknown")
  BY <1>1
<1> QED  BY <1>2, <1>3 DEF Known

--------------------------------------------------------------------------------
(* Ids.                                                                    *)

(* The rows are those there were, about the same blocks.                   *)
RowsStep ==
    /\ RowShape' /\ DOMAIN rows' = Rows
    /\ \A r \in Rows : /\ rows'[r].candidate = rows[r].candidate
                       /\ rows'[r].existing = rows[r].existing /\ rows'[r].peer = rows[r].peer

(* No row changes.                                                         *)
LEMMA SameRows ==
    ASSUME RowShape, UNCHANGED rows
    PROVE  RowsStep
  BY DEF RowShape, RowsStep, Rows

(* Ids are taken as they were.                                             *)
SameIds == Taken' = Taken /\ NextBlock' = NextBlock /\ Known' = Known /\ Rows' = Rows

(* Ids stay when no block and no row comes.                                *)
LEMMA IdsStay ==
    ASSUME IdsInv, BlocksStep, RowsStep, UNCHANGED orphans
    PROVE  IdsInv' /\ SameIds
<1>1. Rows' = Rows /\ Known' = Known
  BY DEF RowsStep, BlocksStep, Rows
<1>2. Offered' = Offered
  BY <1>1 DEF Offered, RowsStep
<1>3. Taken' = Taken
  BY <1>1, <1>2 DEF Taken
<1>4. NextBlock = Cardinality(Taken) + 1
  BY DEF NextBlock, Taken, Offered
<1>5. NextBlock' = Cardinality(Taken') + 1
  BY DEF NextBlock, Taken, Offered
<1>6. IdsInv'
  BY <1>1, <1>2, <1>3 DEF IdsInv, RowsStep, Numbered
<1> QED  BY <1>1, <1>3, <1>4, <1>5, <1>6 DEF SameIds

(* The id of the next block is new, and the next to be taken.              *)
LEMMA NextIsNew ==
    ASSUME IdsInv
    PROVE  /\ NextBlock = Cardinality(Taken) + 1 /\ NextBlock \in Nat \ {0}
           /\ NextBlock \notin Taken /\ Numbered(Taken \cup {NextBlock})
           /\ Known \cup orphans \subseteq Taken /\ Offered \subseteq Taken
           /\ Cardinality(Rows) + 1 \notin Rows /\ Numbered(Rows \cup {Cardinality(Rows) + 1})
           /\ Rows \subseteq Nat
<1>1. NextBlock = Cardinality(Taken) + 1
  BY DEF NextBlock, Taken, Offered
<1>2. Numbered(Taken) /\ Numbered(Rows)
  BY DEF IdsInv
<1>3. /\ Cardinality(Taken) \in Nat /\ Cardinality(Taken) + 1 \notin Taken
      /\ Numbered(Taken \cup {Cardinality(Taken) + 1})
  BY <1>2, NumberedNext
<1>4. /\ Cardinality(Rows) + 1 \notin Rows /\ Numbered(Rows \cup {Cardinality(Rows) + 1})
      /\ Rows \subseteq Nat
  BY <1>2, NumberedNext
<1>5. Known \cup orphans \subseteq Taken /\ Offered \subseteq Taken
  BY DEF Taken
<1> QED  BY <1>1, <1>3, <1>4, <1>5

(* A row more: of its own block, of no block, or of the next.              *)
LEMMA RowStep ==
    ASSUME IdsInv, RowShape, BlocksStep, UNCHANGED orphans,
           NEW v, IsRow(v), rows' = Put(rows, Cardinality(Rows) + 1, v),
           v.candidate = NoCandidate \/ (v.candidate.id = NextBlock /\ NextBlock \in Blocks),
           v.peer = "none" => v.existing \in Known
    PROVE  /\ IdsInv' /\ RowShape'
           /\ Rows' = Rows \cup {Cardinality(Rows) + 1}
           /\ \A r \in Rows : rows'[r] = rows[r]
<1> DEFINE n == Cardinality(Rows) + 1
<1>1. /\ n \notin Rows /\ Numbered(Rows \cup {n})
      /\ NextBlock \notin Taken /\ Numbered(Taken \cup {NextBlock}) /\ NextBlock # 0
  BY NextIsNew
<1>2. /\ Rows' = Rows \cup {n} /\ rows'[n] = v
      /\ \A r \in Rows : rows'[r] = rows[r]
  <2>0. rows' = Put(rows, n, v)
    OBVIOUS
  <2> HIDE DEF n
  <2>1. /\ DOMAIN rows' = DOMAIN rows \cup {n} /\ rows'[n] = v
        /\ \A r \in DOMAIN rows \ {n} : rows'[r] = rows[r]
    BY <2>0 DEF Put, With
  <2> QED  BY <1>1, <2>1 DEF Rows
<1>3. RowShape'
  BY <1>2 DEF RowShape
<1>4. Known' = Known
  BY DEF BlocksStep
<1>5. CASE v.candidate = NoCandidate
  <2>1. v.candidate.id = 0
    BY <1>5 DEF NoCandidate
  <2>2. Offered' = Offered
    BY <1>2, <2>1 DEF Offered
  <2> QED  BY <1>1, <1>2, <1>3, <1>4, <1>5, <2>2 DEF IdsInv, Taken
<1>6. CASE v.candidate.id = NextBlock /\ NextBlock \in Blocks
  <2>1. Offered' = Offered \cup {NextBlock}
    BY <1>1, <1>2, <1>6 DEF Offered
  <2>2. Taken' = Taken \cup {NextBlock}
    BY <1>4, <2>1 DEF Taken
  <2>3. Offered' \cap orphans' = {}
    BY <1>1, <2>1 DEF IdsInv, Taken
  <2> QED  BY <1>1, <1>2, <1>3, <1>4, <1>6, <2>2, <2>3 DEF IdsInv
<1> QED  BY <1>5, <1>6

--------------------------------------------------------------------------------
(* Operations.                                                             *)

(* What a step may do to the texts of the user.                            *)
KeepsTexts ==
    \A b \in Blocks : TextOf(b) \ {0} # {} /\ task' # task =>
        \/ TextOf(b) \ {0} \subseteq TextOf(b)'
        \/ task.op = "taxonomy" \/ Merging("redirect") \/ (Merging("target") /\ b \in Moved)
        \/ task.op = "apply" /\ task.at = "write" /\ Does("delete_duplicate") /\ b = Row.existing

(* Texts that stay are kept.                                               *)
LEMMA StayingTexts ==
    ASSUME TextsStay
    PROVE  KeepsTexts
<1>1. ASSUME NEW b \in Blocks, NEW t \in TextOf(b)
      PROVE  t \in TextOf(b)'
  <2>1. PICK p \in Pages : b \in On(p) /\ t = file[p].blocks[b].text
    BY <1>1 DEF TextOf
  <2>2. b \in DOMAIN file'[p].blocks /\ file'[p].blocks[b].text = t
    BY <2>1 DEF TextsStay
  <2> QED  BY <2>2 DEF TextOf, On
<1> QED  BY <1>1 DEF KeepsTexts

(* A task that turns to something else.                                    *)
LEMMA GotoTask ==
    ASSUME TaskInv, task # Idle, NEW at, Goto(at)
    PROVE  /\ DOMAIN task' = DOMAIN task /\ task'.at = at /\ task'.op = task.op
           /\ {"op", "at"} \subseteq DOMAIN task'
           /\ \A x \in DOMAIN task \ {"at"} : task'[x] = task[x]
  BY DEF Goto, TaskInv

(* A run that goes on.                                                     *)
LEMMA RunTask ==
    ASSUME NEW at, NEW todo, NEW more, Run(at, todo, more), DOMAIN more \cap {"op", "at"} = {}
    PROVE  /\ task'.op = "run" /\ task'.at = at /\ {"op", "at"} \subseteq DOMAIN task'
           /\ \A x \in DOMAIN more : x \in DOMAIN task' /\ task'[x] = more[x]
<1> DEFINE f == [op |-> "run", at |-> at, todo |-> todo, mine |-> task.mine, had_work |-> task.had_work]
<1>1. task' = With(f, more)
  BY DEF Run
<1>2. DOMAIN f = {"op", "at", "todo", "mine", "had_work"} /\ f.op = "run" /\ f.at = at
  OBVIOUS
<1> HIDE DEF f
<1>3. /\ DOMAIN task' = DOMAIN f \cup DOMAIN more
      /\ \A x \in DOMAIN more : task'[x] = more[x]
      /\ \A x \in DOMAIN f \ DOMAIN more : task'[x] = f[x]
  BY <1>1 DEF With
<1>4. task'["op"] = f["op"] /\ task'["at"] = f["at"]
  BY <1>2, <1>3
<1> QED  BY <1>2, <1>3, <1>4

(* Tasks that hold no blocks and no ids.                                   *)
Plain ==
    \/ task = Idle
    \/ /\ {"op", "at"} \subseteq DOMAIN task
       /\ \/ task.op = "run" /\ task.at \in {"next", "place", "found", "marker", "conflicted", "list", "emit", "render", "commit"}
          \/ /\ task.op = "taxonomy" /\ {"kind", "q"} \subseteq DOMAIN task /\ task.q \in Pages
             /\ \/ task.at \in {"moves", "rows", "refresh", "render", "commit"}
                \/ task.at \in {"redirect", "register"} /\ task.kind # "rename"

(* Such a task needs nothing but that blocks are known.                    *)
LEMMA PlainTask ==
    ASSUME Plain', \A p \in Pages : DOMAIN file'[p].blocks \subseteq Known' \cup orphans'
    PROVE  TaskInv' /\ PlacesInv' /\ NextInv' /\ RowInv'
<1>1. task'.op # "apply"
  BY DEF Plain, Idle
<1>2. ~Carries' /\ ~Renames'
  BY DEF Plain, Idle, Carries, Renames
<1>3. TaskInv'
  BY <1>2 DEF TaskInv, Plain, Idle
<1>4. PlacesInv'
  BY <1>2 DEF PlacesInv, On
<1>5. NextInv'
  BY DEF NextInv, Plain, Idle
<1>6. RowInv'
  BY <1>1 DEF RowInv
<1> QED  BY <1>3, <1>4, <1>5, <1>6

(* Blocks of pages that are kept are known, but for one that is written.   *)
LEMMA KeptPlaces ==
    ASSUME PlacesInv, FilesKept, ~At("run", "create"), Known \cup orphans \subseteq Known' \cup orphans'
    PROVE  \A p \in Pages : DOMAIN file'[p].blocks \subseteq Known' \cup orphans'
  BY DEF PlacesInv, FilesKept, Kept, Writing, On

(* The parts of the invariant.                                             *)
LEMMA AllParts ==
    ASSUME FilesInv', BlockShape', RowShape', IdsInv', TaskInv', PlacesInv', NextInv', RowInv'
    PROVE  WikiInv'
  BY DEF WikiInv, Shapes, FilesInv

(* A step that keeps the pages, to a plain task.                           *)
LEMMA PlainStep ==
    ASSUME WikiInv, task # Idle, ~At("run", "create"), UNCHANGED <<head, late, spent>>, FilesKept,
           BlockShape', RowShape', IdsInv', Known \cup orphans \subseteq Known' \cup orphans', Plain'
    PROVE  WikiInv' /\ KeepsTexts
<1>1. FilesInv'
  BY KeptGood, FilesStep
<1>2. TaskInv' /\ PlacesInv' /\ NextInv' /\ RowInv'
  BY PlainTask, KeptPlaces DEF WikiInv
<1> QED  BY <1>1, <1>2, AllParts, KeptTexts, StayingTexts

(* ... that lets blocks and rows be.                                       *)
LEMMA QuietStep ==
    ASSUME WikiInv, task # Idle, ~At("run", "create"), UNCHANGED <<head, late, spent, orphans>>, FilesKept,
           BlocksStep, RowsStep, Plain'
    PROVE  WikiInv' /\ KeepsTexts
<1>1. IdsInv' /\ Known' = Known
  BY IdsStay DEF WikiInv, SameIds
<1>2. BlockShape' /\ RowShape'
  BY DEF BlocksStep, RowsStep
<1> QED  BY <1>1, <1>2, PlainStep

(* An operation runs.                                                      *)
LEMMA AtBusy ==
    ASSUME NEW op \in {"run", "apply", "taxonomy"}, NEW at, At(op, at)
    PROVE  task # Idle /\ task.op = op /\ task.at = at
  BY DEF At, Idle

(* An operation starts: what is written keeps the pages as they are marked. *)
LEMMA StartStep ==
    ASSUME WikiInv, task = Idle, UNCHANGED <<rows, head, late, orphans>>, Spend(2), block' = MarkedRows,
           DOMAIN file' = Pages, \A p \in Pages : Kept(Marked[p], file'[p])
    PROVE  /\ FilesInv' /\ BlockShape' /\ RowShape' /\ IdsInv' /\ Known' = Known /\ KeepsTexts
           /\ FilesKept
           /\ \A p \in Pages : DOMAIN file'[p].blocks \subseteq Known' \cup orphans'
<1>1. spent' \in Nat /\ spent <= spent'
  BY DEF Spend, WikiInv, Shapes
<1>2. FilesInv' /\ FilesKept
  BY <1>1, FilesStart
<1>3. BlocksStep /\ RowsStep
  BY MarkedStep, SameRows DEF WikiInv, Shapes
<1>4. IdsInv' /\ Known' = Known
  BY <1>3, IdsStay DEF WikiInv, SameIds
<1>5. ~At("run", "create")
  BY DEF At, Idle
<1> QED  BY <1>2, <1>3, <1>4, <1>5, KeptPlaces, KeptTexts, StayingTexts DEF BlocksStep, RowsStep, WikiInv

(* A task that writes a new block.                                         *)
LEMMA WritingTask ==
    ASSUME {"op", "at"} \subseteq DOMAIN task', task'.op = "run", task'.at \in {"read", "write", "create"},
           {"id", "p", "k"} \subseteq DOMAIN task', task'.id = NextBlock', task'.id \in Blocks,
           \A p \in Pages : DOMAIN file'[p].blocks \subseteq
               Known' \cup orphans' \cup (IF task'.at = "create" THEN {task'.id} ELSE {})
    PROVE  TaskInv' /\ PlacesInv' /\ NextInv' /\ RowInv'
<1>1. ~Carries' /\ ~Renames'
  BY DEF Carries, Renames
<1>2. TaskInv'
  BY <1>1 DEF TaskInv
<1>3. PlacesInv'
  BY <1>1 DEF PlacesInv, On, Writing, At
<1>4. NextInv'
  BY DEF NextInv
<1>5. RowInv'
  BY DEF RowInv
<1> QED  BY <1>2, <1>3, <1>4, <1>5

(* A page gets a block that is on no page.                                 *)
LEMMA InsertStep ==
    ASSUME WikiInv, task # Idle, NEW p, p \in Pages, NEW f, Kept(file[p], f), NEW b, NEW v, IsBlock(v), v.text = 0,
           \A q \in Pages : b \notin On(q),
           file' = [file EXCEPT ![p] = insert_block(f, b, v)]
    PROVE  FilesGood /\ TextsStay /\ \A q \in Pages : DOMAIN file'[q].blocks \subseteq On(q) \cup {b}
<1>1. PICK g : g = insert_block(f, b, v)
  OBVIOUS
<1>2. IsPage(g) /\ g.blocks = Put(f.blocks, b, v)
  BY <1>1, InsertedBlock DEF Kept
<1>3. /\ DOMAIN g.blocks = On(p) \cup {b} /\ g.blocks[b] = v
      /\ \A c \in On(p) : g.blocks[c] = f.blocks[c]
  BY <1>2 DEF Put, With, Kept, On
<1>4. \A q \in Pages : IsPage(file[q]) /\ Marks(file[q].blocks)
  BY PagesAreGood
<1>5. Marks(f.blocks)
  BY <1>4, KeptMarks
<1>6. Marks(g.blocks)
  <2>1. DOMAIN f.blocks = On(p) /\ spent \in Nat
    BY DEF Kept, On, WikiInv, Shapes
  <2> QED  BY <1>2, <1>3, <1>5, <2>1 DEF Marks, IsPage, Old, Fine
<1>7. file' = [file EXCEPT ![p] = g]
  BY <1>1
<1>8. FilesGood
  BY <1>2, <1>6, <1>7, OneFileGood
<1>9. file'[p] = g /\ \A q \in Pages \ {p} : file'[q] = file[q]
  BY <1>7 DEF WikiInv, Shapes, FileShape
<1>10. \A q \in Pages : DOMAIN file'[q].blocks \subseteq On(q) \cup {b}
  BY <1>3, <1>9 DEF On
<1>11. ASSUME NEW q \in Pages, NEW c \in On(q)
       PROVE  c \in DOMAIN file'[q].blocks /\ file'[q].blocks[c].text = file[q].blocks[c].text
  <2>1. CASE q = p
    <3>1. c \in On(p) /\ c \in DOMAIN g.blocks /\ g.blocks[c] = f.blocks[c]
      BY <1>3, <1>11, <2>1
    <3>2. f.blocks[c].text = file[p].blocks[c].text
      BY <3>1 DEF Kept, On
    <3> QED  BY <1>9, <2>1, <3>1, <3>2
  <2>2. CASE q # p
    BY <1>9, <1>11, <2>2 DEF On
  <2> QED  BY <2>1, <2>2
<1> QED  BY <1>8, <1>10, <1>11 DEF TextsStay

(* The run turns to a candidate.                                           *)
LEMMA TurnTask ==
    ASSUME NEW cs, NEW at, NEW more, Turn(cs, at, more), DOMAIN more \cap {"op", "at", "cs"} = {}
    PROVE  /\ task'.op = "run" /\ task'.at = at /\ {"op", "at"} \subseteq DOMAIN task'
           /\ \A x \in DOMAIN more : x \in DOMAIN task' /\ task'[x] = more[x]
<1>1. PICK g : g = With([cs |-> cs], more)
  OBVIOUS
<1>2. /\ DOMAIN g = {"cs"} \cup DOMAIN more
      /\ \A x \in DOMAIN more : g[x] = more[x]
  BY <1>1 DEF With
<1>3. Run(at, task.todo \ cs, g)
  BY <1>1 DEF Turn
<1> QED  BY <1>2, <1>3, RunTask

--------------------------------------------------------------------------------
(* The steps of a run.                                                     *)

(* A run starts: the pages are marked, and show what is stale.             *)
LEMMA StartRunStep ==
    ASSUME WikiInv, StartRun, UNCHANGED late, Spend(2)
    PROVE  WikiInv' /\ KeepsTexts
<1>1. task = Idle /\ UNCHANGED <<rows, head, orphans>> /\ block' = MarkedRows /\ file' = sync_block_statuses(Marked)
  BY DEF StartRun
<1>2. \A p \in Pages : IsPage(Marked[p])
  BY KeptMarked DEF WikiInv, Shapes, FileShape, Kept
<1>3. DOMAIN file' = Pages /\ \A p \in Pages : Kept(Marked[p], file'[p])
  BY <1>1, <1>2, KeptSynced DEF sync_block_statuses
<1>4. /\ FilesInv' /\ BlockShape' /\ RowShape' /\ IdsInv' /\ KeepsTexts
      /\ \A p \in Pages : DOMAIN file'[p].blocks \subseteq Known' \cup orphans'
  BY <1>1, <1>3, StartStep
<1>5. Plain'
  BY DEF StartRun, Plain
<1> QED  BY <1>4, <1>5, PlainTask, AllParts

(* A candidate turns out to be new, and is to be written.                  *)
LEMMA PlaceCleanStep ==
    ASSUME WikiInv, NEW cs, NEW k, NEW p, PlaceClean(cs, k, p), UNCHANGED <<late, spent>>
    PROVE  WikiInv' /\ KeepsTexts
<1>1. At("run", "next") /\ UNCHANGED <<file, block, rows, head, orphans>> /\ NextBlock \in Blocks
  BY DEF PlaceClean, historyVars
<1>2. task # Idle /\ ~At("run", "create")
  BY <1>1, AtBusy DEF At
<1>3. PICK more : more = [k |-> k, p |-> p, id |-> NextBlock, again |-> FALSE]
  OBVIOUS
<1>4. DOMAIN more = {"k", "p", "id", "again"} /\ more.id = NextBlock
  BY <1>3
<1>5. Turn(cs, "read", more)
  BY <1>3 DEF PlaceClean
<1>6. /\ task'.op = "run" /\ task'.at = "read" /\ {"op", "at"} \subseteq DOMAIN task'
      /\ {"id", "p", "k"} \subseteq DOMAIN task' /\ task'.id = NextBlock
  BY <1>4, <1>5, TurnTask
<1>7. FilesKept /\ BlocksStep /\ RowsStep
  BY <1>1, SameFiles, SameBlocks, SameRows DEF WikiInv, Shapes
<1>8. IdsInv' /\ NextBlock' = NextBlock /\ Known' = Known
  BY <1>1, <1>7, IdsStay DEF WikiInv, SameIds
<1>9. \A q \in Pages : DOMAIN file'[q].blocks \subseteq Known' \cup orphans'
  BY <1>1, <1>2, <1>7, <1>8, KeptPlaces DEF WikiInv
<1>10. TaskInv' /\ PlacesInv' /\ NextInv' /\ RowInv'
  BY <1>1, <1>6, <1>8, <1>9, WritingTask
<1>11. FilesInv'
  BY <1>1, <1>2, <1>7, KeptGood, FilesStep
<1> QED  BY <1>7, <1>8, <1>10, <1>11, AllParts, KeptTexts, StayingTexts DEF BlocksStep, RowsStep

(* A candidate turns out to be a duplicate of a block.                     *)
LEMMA PlaceDuplicateStep ==
    ASSUME WikiInv, NEW cs, NEW k, NEW p, PlaceDuplicate(cs, k, p), UNCHANGED <<late, spent>>
    PROVE  WikiInv' /\ KeepsTexts
<1>1. At("run", "next") /\ UNCHANGED <<rows, head, orphans>>
  BY DEF PlaceDuplicate, historyVars
<1>2. task # Idle /\ ~At("run", "create")
  BY <1>1, AtBusy DEF At
<1>3. PICK b \in detect_candidate_conflict("duplicate", k) :
         LET q == block[b].page IN
         \/ UNCHANGED <<file, block>>
         \/ /\ file' = [file EXCEPT ![q] = set_status(@, b, "current")]
            /\ block' = [block EXCEPT ![b].status = "current"]
  BY DEF PlaceDuplicate
<1>4. b \in Known /\ block[b].page \in Pages
  BY <1>3 DEF detect_candidate_conflict, retrieve_comparison_candidates, _comparison_blocks_for_pages, Live, Active
<1>5. Plain'
  <2>1. PICK todo : Run("next", todo, NoBlocks)
    BY DEF PlaceDuplicate
  <2> QED  BY <2>1, RunTask DEF Plain, NoBlocks
<1>6. RowsStep
  BY <1>1, SameRows DEF WikiInv, Shapes
<1>7. CASE UNCHANGED <<file, block>>
  BY <1>1, <1>2, <1>5, <1>6, <1>7, SameFiles, SameBlocks, QuietStep DEF WikiInv, Shapes
<1>8. CASE ~UNCHANGED <<file, block>>
  <2>1. PICK q \in Pages : q = block[b].page
    BY <1>4
  <2>2. file' = [file EXCEPT ![q] = set_status(file[q], b, "current")] /\ block' = [block EXCEPT ![b].status = "current"]
    BY <1>3, <1>8, <2>1
  <2>3. BlocksStep
    BY <1>4, <2>2, StatusStep DEF WikiInv, Shapes
  <2>4. Kept(file[q], set_status(file[q], b, "current"))
    BY KeptStatus DEF WikiInv, Shapes, FileShape
  <2>5. FilesKept
    BY <2>2, <2>4, OneFileKept DEF WikiInv, Shapes
  <2> QED  BY <1>1, <1>2, <1>5, <1>6, <2>3, <2>5, QuietStep
<1> QED  BY <1>7, <1>8

(* A candidate contradicts a block: a row is opened.                       *)
LEMMA PlaceConflictStep ==
    ASSUME WikiInv, NEW cs, NEW k, NEW p, PlaceConflict(cs, k, p), UNCHANGED <<late, spent>>
    PROVE  WikiInv' /\ KeepsTexts
<1>1. At("run", "next") /\ UNCHANGED <<file, block, head, orphans>> /\ NextBlock \in Blocks
  BY DEF PlaceConflict, historyVars
<1>2. task # Idle /\ ~At("run", "create")
  BY <1>1, AtBusy DEF At
<1>3. PICK b, q, key, r :
         /\ b \in detect_candidate_conflict("conflict", k)
         /\ rows' = Put(rows, Cardinality(Rows) + 1,
                        [page |-> q, existing |-> b, peer |-> "none", applied |-> FALSE,
                         candidate |-> [id |-> NextBlock, key |-> key, chunks |-> cs]])
         /\ Turn(cs, "found", [p |-> q, id |-> b, r |-> r])
  BY DEF PlaceConflict
<1>4. b \in Known
  BY <1>3 DEF detect_candidate_conflict, retrieve_comparison_candidates, _comparison_blocks_for_pages, _fts_block_ids, Live
<1>5. PICK v : v = [page |-> q, existing |-> b, peer |-> "none", applied |-> FALSE,
                    candidate |-> [id |-> NextBlock, key |-> key, chunks |-> cs]]
  OBVIOUS
<1>6. IsRow(v) /\ v.candidate.id = NextBlock /\ v.existing = b
  BY <1>5 DEF IsRow, IsCandidate
<1>7. rows' = Put(rows, Cardinality(Rows) + 1, v)
  BY <1>3, <1>5
<1>8. BlocksStep
  BY <1>1, SameBlocks DEF WikiInv, Shapes
<1>9. IdsInv' /\ RowShape'
  BY <1>1, <1>4, <1>6, <1>7, <1>8, RowStep DEF WikiInv, Shapes
<1>10. Plain'
  <2>1. PICK more : more = [p |-> q, id |-> b, r |-> r]
    OBVIOUS
  <2>2. DOMAIN more = {"p", "id", "r"} /\ Turn(cs, "found", more)
    BY <1>3, <2>1
  <2> QED  BY <2>2, TurnTask DEF Plain
<1>11. FilesKept
  BY <1>1, SameFiles DEF WikiInv, Shapes
<1> QED  BY <1>1, <1>2, <1>8, <1>9, <1>10, <1>11, PlainStep DEF BlocksStep

(* The page is read again.                                                 *)
LEMMA ReadPageStep ==
    ASSUME WikiInv, ReadPage, UNCHANGED <<late, spent>>
    PROVE  WikiInv' /\ KeepsTexts
<1>1. At("run", "read") /\ UNCHANGED <<file, block, rows, head, orphans>>
  BY DEF ReadPage, storeVars, historyVars
<1>2. task # Idle /\ ~At("run", "create") /\ task.op = "run" /\ task.at = "read"
  BY <1>1, AtBusy DEF At
<1>3. PICK f, more : f = [task EXCEPT !.at = "write"] /\ more = [old |-> file[task.p]]
  OBVIOUS
<1>4. task' = With(f, more) /\ DOMAIN more = {"old"}
  BY <1>3 DEF ReadPage
<1>5. /\ {"op", "at"} \subseteq DOMAIN task /\ {"id", "p", "k"} \subseteq DOMAIN task
      /\ task.id = NextBlock /\ task.id \in Blocks
  BY <1>2 DEF WikiInv, TaskInv, NextInv
<1>6. DOMAIN f = DOMAIN task /\ f.op = "run" /\ f.at = "write" /\ f.id = task.id
  BY <1>2, <1>3, <1>5
<1>7. /\ task'.op = "run" /\ task'.at = "write" /\ {"op", "at"} \subseteq DOMAIN task'
      /\ {"id", "p", "k"} \subseteq DOMAIN task' /\ task'.id = task.id
  BY <1>4, <1>5, <1>6 DEF With
<1>8. FilesKept /\ BlocksStep /\ RowsStep
  BY <1>1, SameFiles, SameBlocks, SameRows DEF WikiInv, Shapes
<1>9. IdsInv' /\ NextBlock' = NextBlock /\ Known' = Known
  BY <1>1, <1>8, IdsStay DEF WikiInv, SameIds
<1>10. \A q \in Pages : DOMAIN file'[q].blocks \subseteq Known' \cup orphans'
  BY <1>1, <1>2, <1>8, <1>9, KeptPlaces DEF WikiInv
<1>11. TaskInv' /\ PlacesInv' /\ NextInv' /\ RowInv'
  BY <1>5, <1>7, <1>9, <1>10, WritingTask
<1>12. FilesInv'
  BY <1>1, <1>2, <1>8, KeptGood, FilesStep
<1> QED  BY <1>8, <1>9, <1>11, <1>12, AllParts, KeptTexts, StayingTexts DEF BlocksStep, RowsStep

(* The block is written: its id is on no page.                             *)
LEMMA WriteBlockStep ==
    ASSUME WikiInv, WriteBlock, UNCHANGED <<late, spent>>
    PROVE  WikiInv' /\ KeepsTexts
<1>1. At("run", "write") /\ UNCHANGED <<block, rows, head, orphans>> /\ Goto("create")
  BY DEF WriteBlock, historyVars
<1>2. task # Idle /\ ~At("run", "create") /\ task.op = "run" /\ task.at = "write"
  BY <1>1, AtBusy DEF At
<1>3. /\ {"op", "at"} \subseteq DOMAIN task /\ {"id", "p", "k"} \subseteq DOMAIN task
      /\ task.id = NextBlock /\ task.id \in Blocks
  BY <1>2 DEF WikiInv, TaskInv, NextInv
<1>4. /\ DOMAIN task' = DOMAIN task /\ task'.at = "create" /\ task'.op = "run" /\ task'.id = task.id
  BY <1>1, <1>2, <1>3, GotoTask DEF WikiInv
<1>5. PICK v : v = Drafted(task.k, "current")
  OBVIOUS
<1>6. IsBlock(v) /\ v.text = 0
  BY <1>5 DEF Drafted, IsBlock
<1>7. BlocksStep /\ RowsStep
  BY <1>1, SameBlocks, SameRows DEF WikiInv, Shapes
<1>8. IdsInv' /\ NextBlock' = NextBlock /\ Known' = Known
  BY <1>1, <1>7, IdsStay DEF WikiInv, SameIds
<1>9. \A q \in Pages : On(q) \subseteq Known \cup orphans /\ task.id \notin On(q)
  BY <1>2, <1>3, NextIsNew DEF WikiInv, PlacesInv, Writing
<1>10. FilesGood /\ TextsStay /\ \A q \in Pages : DOMAIN file'[q].blocks \subseteq On(q) \cup {task.id}
  <2>1. file' = [file EXCEPT ![task.p] = insert_block(file[task.p], task.id, v)]
    BY <1>5 DEF WriteBlock, write_page
  <2>2. CASE task.p \in Pages
    <3>1. PICK p, b, f : p \in Pages /\ p = task.p /\ b = task.id /\ f = file[p]
      BY <2>2
    <3>2. Kept(file[p], f)
      BY <3>1, KeptGenerated DEF WikiInv, Shapes, FileShape
    <3>3. file' = [file EXCEPT ![p] = insert_block(f, b, v)] /\ \A q \in Pages : b \notin On(q)
      BY <1>9, <2>1, <3>1
    <3>4. FilesGood /\ TextsStay /\ \A q \in Pages : DOMAIN file'[q].blocks \subseteq On(q) \cup {b}
      BY <1>2, <1>6, <3>1, <3>2, <3>3, InsertStep
    <3> QED  BY <3>1, <3>4
  <2>3. CASE task.p \notin Pages
    <3>1. DOMAIN file' = Pages /\ \A q \in Pages : file'[q] = file[q]
      BY <2>1, <2>3 DEF WikiInv, Shapes, FileShape
    <3>2. \A q \in Pages : IsPage(file[q])
      BY DEF WikiInv, Shapes, FileShape
    <3>3. FilesKept
      BY <3>1, <3>2, KeptGenerated DEF FilesKept
    <3> QED  BY <1>2, <3>1, <3>3, KeptGood, KeptTexts DEF On
  <2> QED  BY <2>2, <2>3
<1>11. TaskInv' /\ PlacesInv' /\ NextInv' /\ RowInv'
  <2>1. \A q \in Pages : DOMAIN file'[q].blocks \subseteq Known' \cup orphans' \cup {task'.id}
    BY <1>1, <1>4, <1>8, <1>9, <1>10
  <2> QED  BY <1>3, <1>4, <1>8, <2>1, WritingTask
<1>12. FilesInv'
  BY <1>1, <1>2, <1>10, FilesStep
<1> QED  BY <1>7, <1>8, <1>10, <1>11, <1>12, AllParts, StayingTexts DEF BlocksStep, RowsStep

(* The page has changed: it is read once more, or the batch is left.       *)
LEMMA WriteConflictStep ==
    ASSUME WikiInv, WriteConflict, UNCHANGED <<late, spent>>
    PROVE  WikiInv' /\ KeepsTexts
<1>1. At("run", "write") /\ UNCHANGED <<rows, head, orphans>>
  BY DEF WriteConflict, historyVars
<1>2. task # Idle /\ ~At("run", "create") /\ task.op = "run" /\ task.at = "write"
  BY <1>1, AtBusy DEF At
<1>3. RowsStep
  BY <1>1, SameRows DEF WikiInv, Shapes
<1>4. CASE task.again
  <2>1. Run("next", {}, NoBlocks) /\ UNCHANGED <<file, block>>
    BY <1>4 DEF WriteConflict
  <2>2. Plain'
    BY <2>1, RunTask DEF Plain, NoBlocks
  <2> QED  BY <1>1, <1>2, <1>3, <2>1, <2>2, SameFiles, SameBlocks, QuietStep DEF WikiInv, Shapes
<1>5. CASE ~task.again
  <2>1. file' = Marked /\ block' = MarkedRows
    BY <1>5 DEF WriteConflict
  <2>2. task' = [task EXCEPT !.at = "read", !.again = TRUE]
    BY <1>5 DEF WriteConflict
  <2>3. /\ {"op", "at"} \subseteq DOMAIN task /\ {"id", "p", "k"} \subseteq DOMAIN task
        /\ task.id = NextBlock /\ task.id \in Blocks
    BY <1>2 DEF WikiInv, TaskInv, NextInv
  <2>4. /\ DOMAIN task' = DOMAIN task /\ task'.at = "read" /\ task'.op = "run" /\ task'.id = task.id
    BY <1>2, <2>2, <2>3
  <2>5. FilesKept
    BY <2>1, KeptMarked DEF WikiInv, Shapes, FileShape, FilesKept, Marked
  <2>6. BlocksStep
    BY <2>1, MarkedStep DEF WikiInv, Shapes
  <2>7. IdsInv' /\ NextBlock' = NextBlock /\ Known' = Known
    BY <1>1, <1>3, <2>6, IdsStay DEF WikiInv, SameIds
  <2>8. \A q \in Pages : DOMAIN file'[q].blocks \subseteq Known' \cup orphans'
    BY <1>1, <1>2, <2>5, <2>7, KeptPlaces DEF WikiInv
  <2>9. TaskInv' /\ PlacesInv' /\ NextInv' /\ RowInv'
    BY <2>3, <2>4, <2>7, <2>8, WritingTask
  <2>10. FilesInv'
    BY <1>1, <1>2, <2>5, KeptGood, FilesStep
  <2> QED  BY <1>3, <2>5, <2>6, <2>7, <2>9, <2>10, AllParts, KeptTexts, StayingTexts DEF BlocksStep, RowsStep
<1> QED  BY <1>4, <1>5

(* A block is known that is new, or that a row offers.                     *)
LEMMA KnownMore ==
    ASSUME IdsInv, NEW b, b = NextBlock \/ b \in Offered, Known' = Known \cup {b}, RowsStep, UNCHANGED orphans
    PROVE  IdsInv'
<1>1. /\ NextBlock \notin Taken /\ Numbered(Taken) /\ Numbered(Taken \cup {NextBlock})
  BY NextIsNew DEF IdsInv
<1>2. Rows' = Rows /\ Offered' = Offered
  BY DEF RowsStep, Rows, Offered
<1>3. Taken' = Taken \cup {b}
  BY <1>2 DEF Taken
<1>4. Numbered(Taken \cup {b})
  <2>1. CASE b = NextBlock
    BY <1>1, <2>1
  <2>2. CASE b \in Offered
    <3>1. Taken \cup {b} = Taken
      BY <2>2 DEF Taken
    <3> QED  BY <1>1, <3>1
  <2> QED  BY <2>1, <2>2
<1>5. Numbered(Taken') /\ Numbered(Rows')
  BY <1>2, <1>3, <1>4 DEF IdsInv
<1> QED  BY <1>2, <1>5 DEF IdsInv, RowsStep

(* The block is committed.                                                 *)
LEMMA create_blockStep ==
    ASSUME WikiInv, create_block, UNCHANGED <<late, spent>>
    PROVE  WikiInv' /\ KeepsTexts
<1>1. At("run", "create") /\ UNCHANGED <<file, rows, head, orphans>> /\ Goto("place")
  BY DEF create_block, historyVars
<1>2. task # Idle /\ task.op = "run" /\ task.at = "create"
  BY <1>1, AtBusy
<1>3. task.id = NextBlock /\ task.id \in Blocks
  BY <1>2 DEF WikiInv, NextInv
<1>4. PICK v : v = [page |-> task.p, key |-> task.k, status |-> "current", edited |-> FALSE]
  OBVIOUS
<1>5. IsBlockRow(v) /\ v.status # "unknown"
  BY <1>4 DEF IsBlockRow
<1>6. block' = [block EXCEPT ![task.id] = v]
  BY <1>4 DEF create_block
<1>7. BlockShape' /\ Known' = Known \cup {task.id}
  BY <1>3, <1>5, <1>6, CreatedStep DEF WikiInv, Shapes
<1>8. RowsStep /\ FilesKept
  BY <1>1, SameRows, SameFiles DEF WikiInv, Shapes
<1>9. IdsInv'
  BY <1>1, <1>3, <1>7, <1>8, KnownMore DEF WikiInv
<1>10. Plain'
  BY <1>1, <1>2, GotoTask DEF Plain, WikiInv
<1>11. \A p \in Pages : DOMAIN file'[p].blocks \subseteq Known' \cup orphans'
  BY <1>1, <1>7 DEF WikiInv, PlacesInv, On, Writing
<1>12. FilesInv'
  BY <1>1, <1>2, <1>8, KeptGood, FilesStep
<1> QED  BY <1>7, <1>8, <1>9, <1>10, <1>11, <1>12, PlainTask, AllParts, KeptTexts, StayingTexts DEF RowsStep

(* A chunk is placed with the block.                                       *)
LEMMA mark_placedStep ==
    ASSUME WikiInv, mark_placed, UNCHANGED <<late, spent>>
    PROVE  WikiInv' /\ KeepsTexts
<1>1. At("run", "place") /\ UNCHANGED <<file, block, rows, head, orphans>>
  BY DEF mark_placed, historyVars
<1>2. task # Idle /\ ~At("run", "create") /\ task.op = "run" /\ task.at = "place"
  BY <1>1, AtBusy DEF At
<1>3. FilesKept /\ BlocksStep /\ RowsStep
  BY <1>1, SameFiles, SameBlocks, SameRows DEF WikiInv, Shapes
<1>4. PICK cs : Run("next", task.todo, NoBlocks) \/ task' = [task EXCEPT !.cs = cs]
  BY DEF mark_placed
<1>5. Plain'
  <2>1. CASE Run("next", task.todo, NoBlocks)
    BY <2>1, RunTask DEF Plain, NoBlocks
  <2>2. CASE task' = [task EXCEPT !.cs = cs]
    BY <1>2, <2>2 DEF Plain, WikiInv, TaskInv
  <2> QED  BY <1>4, <2>1, <2>2
<1> QED  BY <1>1, <1>2, <1>3, <1>5, QuietStep

(* The page of a conflict is read.                                         *)
LEMMA ReadMarkedStep ==
    ASSUME WikiInv, ReadMarked, UNCHANGED <<late, spent>>
    PROVE  WikiInv' /\ KeepsTexts
<1>1. At("run", "found") /\ UNCHANGED <<file, block, rows, head, orphans>>
  BY DEF ReadMarked, storeVars, historyVars
<1>2. task # Idle /\ ~At("run", "create") /\ task.op = "run" /\ task.at = "found"
  BY <1>1, AtBusy DEF At
<1>3. FilesKept /\ BlocksStep /\ RowsStep
  BY <1>1, SameFiles, SameBlocks, SameRows DEF WikiInv, Shapes
<1>4. PICK f, more : f = [task EXCEPT !.at = "marker", !.mine = @ \cup {task.r}] /\ more = [old |-> file[task.p]]
  OBVIOUS
<1>5. task' = With(f, more) /\ DOMAIN more = {"old"}
  BY <1>4 DEF ReadMarked
<1>6. {"op", "at"} \subseteq DOMAIN f /\ f.op = "run" /\ f.at = "marker"
  BY <1>2, <1>4 DEF WikiInv, TaskInv
<1>7. Plain'
  BY <1>5, <1>6 DEF With, Plain
<1> QED  BY <1>1, <1>2, <1>3, <1>7, QuietStep

(* The page of a conflict gets its marker, unless it has changed.          *)
LEMMA apply_pending_conflict_markerStep ==
    ASSUME WikiInv, apply_pending_conflict_marker, UNCHANGED <<late, spent>>
    PROVE  WikiInv' /\ KeepsTexts
<1>1. At("run", "marker") /\ UNCHANGED <<block, rows, head, orphans>>
  BY DEF apply_pending_conflict_marker
<1>2. task # Idle /\ ~At("run", "create") /\ task.op = "run" /\ task.at = "marker"
  BY <1>1, AtBusy DEF At
<1>3. BlocksStep /\ RowsStep
  BY <1>1, SameBlocks, SameRows DEF WikiInv, Shapes
<1>4. CASE write_page(task.p, List(add_pending_marker(task.old, task.id, task.r), task.p)) /\ Goto("conflicted")
  <2>1. PICK f : f = add_pending_marker(file[task.p], task.id, task.r)
    OBVIOUS
  <2>2. PICK g : g = List(f, task.p)
    OBVIOUS
  <2>3. file' = [file EXCEPT ![task.p] = g]
    BY <1>4, <2>1, <2>2 DEF write_page
  <2>4. ASSUME task.p \in Pages PROVE Kept(file[task.p], g)
    <3>1. Kept(file[task.p], f)
      BY <2>1, <2>4, KeptMarker DEF WikiInv, Shapes, FileShape
    <3>2. Kept(f, g)
      BY <2>2, <3>1, KeptList DEF Kept
    <3> QED  BY <3>1, <3>2, KeptTwice
  <2>5. FilesKept
    BY <2>3, <2>4, OneFileKept DEF WikiInv, Shapes
  <2>6. Plain'
    BY <1>2, <1>4, GotoTask DEF Plain, WikiInv
  <2> QED  BY <1>1, <1>2, <1>3, <2>5, <2>6, QuietStep
<1>5. CASE Run("next", {}, NoBlocks) /\ UNCHANGED file
  <2>1. Plain'
    BY <1>5, RunTask DEF Plain, NoBlocks
  <2> QED  BY <1>1, <1>2, <1>3, <1>5, <2>1, SameFiles, QuietStep DEF WikiInv, Shapes
<1> QED  BY <1>4, <1>5 DEF apply_pending_conflict_marker

(* The chunks of a conflict wait for a decision.                           *)
LEMMA mark_conflicted_pendingStep ==
    ASSUME WikiInv, mark_conflicted_pending, UNCHANGED <<late, spent>>
    PROVE  WikiInv' /\ KeepsTexts
<1>1. At("run", "conflicted") /\ UNCHANGED <<file, block, rows, head, orphans>> /\ Run("next", task.todo, NoBlocks)
  BY DEF mark_conflicted_pending, historyVars
<1>2. task # Idle /\ ~At("run", "create")
  BY <1>1, AtBusy DEF At
<1>3. FilesKept /\ BlocksStep /\ RowsStep
  BY <1>1, SameFiles, SameBlocks, SameRows DEF WikiInv, Shapes
<1>4. Plain'
  BY <1>1, RunTask DEF Plain, NoBlocks
<1> QED  BY <1>1, <1>2, <1>3, <1>4, QuietStep

(* A row is opened on two pages that look alike.                           *)
LEMMA TaxonomyRowStep ==
    ASSUME WikiInv, NEW p \in Pages, NEW q \in Pages, TaxonomyRow(p, q), UNCHANGED <<late, spent>>
    PROVE  WikiInv' /\ KeepsTexts
<1>1. At("run", "next") /\ UNCHANGED <<file, block, head, orphans>>
  BY DEF TaxonomyRow, historyVars
<1>2. task # Idle /\ ~At("run", "create") /\ task.op = "run" /\ task.at = "next"
  BY <1>1, AtBusy DEF At
<1>3. PICK v : v = [page |-> p, existing |-> 0, peer |-> q, applied |-> FALSE, candidate |-> NoCandidate]
  OBVIOUS
<1>4. rows' = Put(rows, Cardinality(Rows) + 1, v)
  BY <1>3 DEF TaxonomyRow
<1>5. IsRow(v) /\ v.candidate = NoCandidate /\ v.peer # "none"
  BY <1>3, WikiAssumption DEF IsRow, IsCandidate, NoCandidate
<1>6. BlocksStep /\ FilesKept
  BY <1>1, SameBlocks, SameFiles DEF WikiInv, Shapes
<1>7. IdsInv' /\ RowShape'
  BY <1>1, <1>4, <1>5, <1>6, RowStep DEF WikiInv, Shapes
<1>8. PICK mine : task' = [task EXCEPT !.mine = mine]
  BY DEF TaxonomyRow
<1>9. Plain'
  BY <1>2, <1>8 DEF Plain, WikiInv, TaskInv
<1> QED  BY <1>1, <1>2, <1>6, <1>7, <1>9, PlainStep DEF BlocksStep

(* A row is opened on a stale block, or none is left.                      *)
LEMMA create_stale_block_reviewsStep ==
    ASSUME WikiInv, create_stale_block_reviews, UNCHANGED <<late, spent>>
    PROVE  WikiInv' /\ KeepsTexts
<1>1. At("run", "next") /\ UNCHANGED <<file, block, head, orphans>>
  BY DEF create_stale_block_reviews, historyVars
<1>2. task # Idle /\ ~At("run", "create") /\ task.op = "run" /\ task.at = "next"
  BY <1>1, AtBusy DEF At
<1>3. BlocksStep /\ FilesKept
  BY <1>1, SameBlocks, SameFiles DEF WikiInv, Shapes
<1>4. CASE Goto("emit") /\ UNCHANGED rows
  <2>1. Plain'
    BY <1>2, <1>4, GotoTask DEF Plain, WikiInv
  <2> QED  BY <1>1, <1>2, <1>3, <1>4, <2>1, SameRows, QuietStep DEF WikiInv, Shapes
<1>5. CASE ~(Goto("emit") /\ UNCHANGED rows)
  <2>1. PICK b, p, mine :
           /\ b \in Unreviewed
           /\ rows' = Put(rows, Cardinality(Rows) + 1,
                          [page |-> p, existing |-> b, peer |-> "none", applied |-> FALSE, candidate |-> NoCandidate])
           /\ Run("list", {}, [p |-> p, mine |-> mine, had_work |-> FALSE])
    BY <1>5 DEF create_stale_block_reviews
  <2>2. PICK v : v = [page |-> p, existing |-> b, peer |-> "none", applied |-> FALSE, candidate |-> NoCandidate]
    OBVIOUS
  <2>3. IsRow(v) /\ v.candidate = NoCandidate /\ v.existing = b
    BY <2>2 DEF IsRow, IsCandidate, NoCandidate
  <2>4. b \in Known
    BY <2>1 DEF Unreviewed, Live
  <2>5. IdsInv' /\ RowShape'
    BY <1>1, <1>3, <2>1, <2>2, <2>3, <2>4, RowStep DEF WikiInv, Shapes
  <2>6. PICK more : more = [p |-> p, mine |-> mine, had_work |-> FALSE]
    OBVIOUS
  <2>7. Run("list", {}, more) /\ DOMAIN more = {"p", "mine", "had_work"}
    BY <2>1, <2>6
  <2>8. Plain'
    BY <2>7, RunTask DEF Plain
  <2> QED  BY <1>1, <1>2, <1>3, <2>5, <2>8, PlainStep DEF BlocksStep
<1> QED  BY <1>4, <1>5

(* The page of a stale block lists it.                                     *)
LEMMA ListStaleStep ==
    ASSUME WikiInv, ListStale, UNCHANGED <<late, spent>>
    PROVE  WikiInv' /\ KeepsTexts
<1>1. At("run", "list") /\ UNCHANGED <<block, rows, head, orphans>> /\ Run("next", {}, NoBlocks)
  BY DEF ListStale, historyVars
<1>2. task # Idle /\ ~At("run", "create")
  BY <1>1, AtBusy DEF At
<1>3. BlocksStep /\ RowsStep
  BY <1>1, SameBlocks, SameRows DEF WikiInv, Shapes
<1>4. PICK f : f = List(file[task.p], task.p)
  OBVIOUS
<1>5. file' = [file EXCEPT ![task.p] = f]
  BY <1>4 DEF ListStale
<1>6. task.p \in Pages => Kept(file[task.p], f)
  BY <1>4, KeptList DEF WikiInv, Shapes, FileShape
<1>7. FilesKept
  BY <1>5, <1>6, OneFileKept DEF WikiInv, Shapes
<1>8. Plain'
  BY <1>1, RunTask DEF Plain, NoBlocks
<1> QED  BY <1>1, <1>2, <1>3, <1>7, <1>8, QuietStep

(* The review file is written.                                             *)
LEMMA emit_review_fileStep ==
    ASSUME WikiInv, emit_review_file, UNCHANGED <<late, spent>>
    PROVE  WikiInv' /\ KeepsTexts
<1>1. At("run", "emit") /\ UNCHANGED <<file, block, rows, head, orphans>> /\ Goto("render")
  BY DEF emit_review_file, storeVars
<1>2. task # Idle /\ ~At("run", "create") /\ task.op = "run"
  BY <1>1, AtBusy DEF At
<1>3. FilesKept /\ BlocksStep /\ RowsStep
  BY <1>1, SameFiles, SameBlocks, SameRows DEF WikiInv, Shapes
<1>4. Plain'
  BY <1>1, <1>2, GotoTask DEF Plain, WikiInv
<1> QED  BY <1>1, <1>2, <1>3, <1>4, QuietStep

--------------------------------------------------------------------------------
(* Decisions.                                                              *)

(* The task goes on with its decisions.                                    *)
GoesOn ==
    /\ {"op", "at", "d", "read"} \subseteq DOMAIN task' /\ task'.op = "apply"
    /\ task'.d = task.d /\ task'.read = task.read

(* The rows that there were are about the same blocks.                     *)
RowsStand ==
    /\ Rows \subseteq Rows'
    /\ \A r \in Rows : /\ rows'[r].candidate = rows[r].candidate
                       /\ rows'[r].existing = rows[r].existing /\ rows'[r].peer = rows[r].peer

(* What the rows were read as still holds when an operation goes on.       *)
LEMMA ReadStands ==
    ASSUME ReadInv, GoesOn, RowsStand
    PROVE  ReadInv'
<1>1. /\ DOMAIN task'.d \subseteq DOMAIN task'.read /\ DOMAIN task'.read \subseteq Rows'
  BY DEF ReadInv, GoesOn, RowsStand
<1>2. ASSUME NEW r \in DOMAIN task'.read
      PROVE  /\ IsRow(task'.read[r])
             /\ task'.read[r].candidate = rows'[r].candidate
             /\ task'.read[r].existing = rows'[r].existing /\ task'.read[r].peer = rows'[r].peer
  <2>1. r \in DOMAIN task.read /\ r \in Rows /\ task'.read[r] = task.read[r]
    BY <1>2 DEF ReadInv, GoesOn
  <2> QED  BY <2>1 DEF ReadInv, RowsStand
<1> QED  BY <1>1, <1>2 DEF ReadInv, GoesOn

(* A task of decisions that holds no blocks.                               *)
LEMMA ApplyTask ==
    ASSUME {"op", "at"} \subseteq DOMAIN task', task'.op = "apply", task'.at \notin {"target", "source", "new"},
           \A p \in Pages : DOMAIN file'[p].blocks \subseteq Known' \cup orphans'
    PROVE  TaskInv' /\ PlacesInv' /\ NextInv'
<1>1. ~Carries' /\ ~Renames'
  BY DEF Carries, Renames
<1>2. TaskInv'
  BY <1>1 DEF TaskInv
<1>3. PlacesInv'
  BY <1>1 DEF PlacesInv, On
<1>4. NextInv'
  BY DEF NextInv
<1> QED  BY <1>2, <1>3, <1>4

(* ... and no id either.                                                   *)
LEMMA DecisionTask ==
    ASSUME ReadInv', {"op", "at"} \subseteq DOMAIN task', task'.op = "apply",
           task'.at \in {"next", "emit", "applied", "redirect", "register", "rows", "refresh", "render", "commit"},
           \A p \in Pages : DOMAIN file'[p].blocks \subseteq Known' \cup orphans'
    PROVE  TaskInv' /\ PlacesInv' /\ NextInv' /\ RowInv'
<1>1. TaskInv' /\ PlacesInv' /\ NextInv'
  BY ApplyTask
<1> QED  BY <1>1 DEF RowInv

(* A step to such a task that keeps the pages, the blocks and the rows.    *)
LEMMA DecisionStep ==
    ASSUME WikiInv, task.op = "apply", UNCHANGED <<head, late, spent, orphans>>, FilesKept, BlocksStep, RowsStep,
           GoesOn, task'.at \in {"next", "emit", "applied", "redirect", "register", "rows", "refresh", "render", "commit"}
    PROVE  WikiInv' /\ KeepsTexts
<1>1. task # Idle /\ ~At("run", "create")
  BY DEF Idle, At
<1>2. FilesInv'
  BY <1>1, KeptGood, FilesStep
<1>3. IdsInv' /\ Known' = Known /\ BlockShape' /\ RowShape'
  BY IdsStay DEF WikiInv, SameIds, BlocksStep, RowsStep
<1>4. ReadInv'
  <2>1. ReadInv
    BY DEF WikiInv, RowInv, ReadInv
  <2>2. RowsStand
    BY DEF RowsStep, RowsStand, Rows
  <2> QED  BY <2>1, <2>2, ReadStands
<1>5. \A p \in Pages : DOMAIN file'[p].blocks \subseteq Known' \cup orphans'
  BY <1>1, <1>3, KeptPlaces DEF WikiInv
<1>6. TaskInv' /\ PlacesInv' /\ NextInv' /\ RowInv'
  BY <1>4, <1>5, DecisionTask DEF GoesOn
<1> QED  BY <1>2, <1>3, <1>6, AllParts, KeptTexts, StayingTexts

(* Decisions go on.                                                        *)
LEMMA GotoGoesOn ==
    ASSUME WikiInv, task.op = "apply", NEW at, Goto(at)
    PROVE  GoesOn /\ task'.at = at
<1>1. task # Idle
  BY DEF Idle
<1>2. {"d", "read"} \subseteq DOMAIN task
  BY DEF WikiInv, RowInv, ReadInv
<1> QED  BY <1>1, <1>2, GotoTask DEF WikiInv, GoesOn

--------------------------------------------------------------------------------
(* The ends.                                                               *)

(* What is generated is written.                                           *)
LEMMA RenderStep ==
    ASSUME WikiInv, Render, UNCHANGED <<late, spent>>
    PROVE  WikiInv' /\ KeepsTexts
<1>1. /\ UNCHANGED <<block, rows, head, orphans>>
      /\ Goto("commit") \/ task' = Idle
      /\ \E skipped : file' = Rendered(skipped)
  BY DEF Render
<1>2. PICK op \in {"run", "apply", "taxonomy"} : At(op, "render")
  BY DEF Render
<1>3. task # Idle /\ task.op = op /\ ~At("run", "create")
  BY <1>2, AtBusy DEF At
<1>4. BlocksStep /\ RowsStep
  BY <1>1, SameBlocks, SameRows DEF WikiInv, Shapes
<1>5. FilesKept
  BY <1>1, KeptRendered DEF WikiInv, Shapes, FileShape, FilesKept, Rendered
<1>6. CASE task' = Idle
  BY <1>1, <1>3, <1>4, <1>5, <1>6, QuietStep DEF Plain
<1>7. CASE Goto("commit") /\ op = "apply"
  BY <1>1, <1>3, <1>4, <1>5, <1>7, GotoGoesOn, DecisionStep
<1>8. CASE Goto("commit") /\ op # "apply"
  <2>1. op = "taxonomy" => {"kind", "q"} \subseteq DOMAIN task /\ task.q \in Pages
    BY <1>3 DEF WikiInv, TaskInv
  <2>2. Plain'
    BY <1>3, <1>8, <2>1, GotoTask DEF Plain, WikiInv
  <2> QED  BY <1>1, <1>3, <1>4, <1>5, <2>2, QuietStep
<1> QED  BY <1>1, <1>6, <1>7, <1>8

(* An operation ends: it commits, or is killed.                            *)
LEMMA EndStep ==
    ASSUME WikiInv, task # Idle, task' = Idle, UNCHANGED <<file, block, rows, late>>, spent' \in Nat, spent <= spent',
           head' = head \/ head' = [p \in Pages |-> file[p].blocks], IdsInv',
           orphans \cup Writing \subseteq orphans'
    PROVE  WikiInv' /\ KeepsTexts
<1>1. FilesKept /\ BlocksStep /\ RowsStep
  BY SameFiles, SameBlocks, SameRows DEF WikiInv, Shapes
<1>2. \A p \in Pages : IsPage(file[p]) /\ Marks(file[p].blocks) /\ Marks(head[p])
  BY PagesAreGood DEF WikiInv, PagesInv
<1>3. DOMAIN head' = Pages /\ \A p \in Pages : Marks(head'[p])
  BY <1>2 DEF WikiInv, Shapes, HeadShape
<1>4. ASSUME NEW f, Marks(f)
      PROVE  IsBlocks(f) /\ \A b \in DOMAIN f : f[b].text <= spent'
  <2>1. IsBlocks(f)
    BY <1>4 DEF Marks
  <2>2. ASSUME NEW b \in DOMAIN f
        PROVE  f[b].text <= spent'
    <3>1. f[b].text \in Nat
      BY <2>1, <2>2 DEF IsBlocks, IsBlock
    <3>2. f[b].text <= spent
      BY <1>4, <2>2 DEF Marks, Old
    <3> QED  BY <3>1, <3>2 DEF WikiInv, Shapes
  <2> QED  BY <2>1, <2>2
<1>5. \A p \in Pages : Marks(head[p])' /\ Marks(file[p].blocks)'
  BY <1>2, <1>3, <1>4 DEF Marks, Old
<1>6. FilesInv'
  <2>1. FileShape' /\ HeadShape'
    BY <1>2, <1>3, <1>4 DEF FileShape, HeadShape, WikiInv, Shapes
  <2>2. PagesInv'
    BY <1>5 DEF PagesInv, Marks, On
  <2> QED  BY <2>1, <2>2 DEF FilesInv
<1>7. \A p \in Pages : DOMAIN file'[p].blocks \subseteq Known' \cup orphans'
  BY <1>1 DEF WikiInv, PlacesInv, On, BlocksStep
<1>8. TaskInv' /\ PlacesInv' /\ NextInv' /\ RowInv'
  BY <1>7, PlainTask DEF Plain
<1> QED  BY <1>1, <1>6, <1>8, AllParts, KeptTexts, StayingTexts DEF BlocksStep, RowsStep

(* The wiki is committed.                                                  *)
LEMMA CommitWikiStep ==
    ASSUME WikiInv, CommitWiki, UNCHANGED <<late, spent>>
    PROVE  WikiInv' /\ KeepsTexts
<1>1. /\ UNCHANGED <<file, block, rows, orphans>> /\ task' = Idle
      /\ head' = head \/ head' = [p \in Pages |-> file[p].blocks]
  BY DEF CommitWiki, historyVars
<1>2. PICK op \in {"run", "apply", "taxonomy"} : At(op, "commit")
  BY DEF CommitWiki
<1>3. task # Idle /\ Writing = {}
  BY <1>2, AtBusy DEF At, Writing
<1>4. IdsInv'
  BY <1>1, SameBlocks, SameRows, IdsStay DEF WikiInv, Shapes
<1> QED  BY <1>1, <1>3, <1>4, EndStep DEF WikiInv, Shapes

(* An operation is killed: a block it has written is an orphan.            *)
LEMMA KillStep ==
    ASSUME WikiInv, Kill
    PROVE  WikiInv' /\ KeepsTexts
<1>1. /\ task # Idle /\ task' = Idle /\ UNCHANGED <<file, block, rows, head, late>>
      /\ orphans' = orphans \cup Writing
  BY DEF Kill, storeVars, Writing
<1>2. spent' \in Nat /\ spent <= spent'
  BY DEF Kill, Spend, WikiInv, Shapes
<1>3. BlocksStep /\ RowsStep
  BY <1>1, SameBlocks, SameRows DEF WikiInv, Shapes
<1>4. IdsInv'
  <2>1. CASE Writing = {}
    BY <1>1, <1>3, <2>1, IdsStay DEF WikiInv
  <2>2. CASE Writing # {}
    <3>1. Writing = {NextBlock}
      BY <2>2 DEF Writing, At, WikiInv, NextInv
    <3>2. NextBlock \notin Taken /\ Numbered(Taken \cup {NextBlock}) /\ Offered \subseteq Taken
      BY NextIsNew DEF WikiInv
    <3>3. Rows' = Rows /\ Known' = Known /\ Offered' = Offered
      BY <1>1, <1>3 DEF Rows, BlocksStep, Offered
    <3>4. Taken' = Taken \cup {NextBlock}
      BY <1>1, <3>1, <3>3 DEF Taken
    <3>5. Numbered(Rows') /\ Numbered(Taken') /\ Offered' \cap orphans' = {}
      BY <1>1, <3>1, <3>2, <3>3, <3>4 DEF WikiInv, IdsInv
    <3> QED  BY <1>1, <3>3, <3>5 DEF WikiInv, IdsInv
  <2> QED  BY <2>1, <2>2
<1> QED  BY <1>1, <1>2, <1>4, EndStep

--------------------------------------------------------------------------------
(* The steps of decisions.                                                 *)

(* A set of numbers has a least member.                                    *)
LEMMA Least ==
    ASSUME NEW T \in SUBSET Nat, T # {}
    PROVE  \E m \in T : \A k \in T : m <= k
<1> DEFINE Below == {0..n : n \in T}
<1>1. \A S \in Below : IsFiniteSet(S)
  BY FS_Interval
<1>2. \A S \in Below : \E n \in T : S = 0..n
  OBVIOUS
<1>3. \A n \in T : 0..n \in Below /\ 0..n \in SUBSET Nat
  OBVIOUS
<1> HIDE DEF Below
<1>4. PICK S \in Below : \A k \in Below : ~(<<k, S>> \in StrictSubsetOrdering(Nat))
  <2>1. Below # {}
    BY <1>3
  <2>2. Below \subseteq FiniteSubsetsOf(Nat)
    BY <1>1, <1>2, <1>3 DEF FiniteSubsetsOf
  <2> QED  BY <2>1, <2>2, FS_StrictSubsetOrderingWellFounded, WFMin
<1>5. PICK m \in T : S = 0..m
  BY <1>2
<1>6. ASSUME NEW k \in T, ~(m <= k) PROVE FALSE
  <2>1. 0..k \subseteq S /\ m \notin 0..k /\ m \in S /\ S \in SUBSET Nat
    BY <1>5, <1>6
  <2>2. <<0..k, S>> \in StrictSubsetOrdering(Nat)
    BY <2>1 DEF StrictSubsetOrdering
  <2> QED  BY <1>3, <1>4, <2>2
<1> QED  BY <1>6

(* The next row is one of those to decide.                                 *)
LEMMA NextRowIsUndecided ==
    ASSUME WikiInv, Undecided # {}
    PROVE  NextRow \in Undecided
<1>1. Undecided \in SUBSET Nat
  BY NextIsNew DEF Undecided, Open, WikiInv
<1>2. \E r \in Undecided : \A q \in Undecided : r <= q
  BY <1>1, Least
<1> QED  BY <1>2 DEF NextRow

(* What a decision needs of its operation.                                 *)
LEMMA ApplyBusy ==
    ASSUME WikiInv, NEW at, At("apply", at)
    PROVE  /\ task # Idle /\ ~At("run", "create") /\ task.op = "apply" /\ task.at = at
           /\ ReadInv /\ {"op", "at", "d", "read"} \subseteq DOMAIN task
  BY DEF At, Idle, WikiInv, RowInv, ReadInv, TaskInv

(* A task with more to it goes on.                                         *)
LEMMA WithGoesOn ==
    ASSUME {"op", "at", "d", "read"} \subseteq DOMAIN task, task.op = "apply",
           NEW more, task' = With(task, more), DOMAIN more \cap {"op", "d", "read"} = {}
    PROVE  /\ GoesOn
           /\ \A x \in DOMAIN more : x \in DOMAIN task' /\ task'[x] = more[x]
<1>1. /\ DOMAIN task' = DOMAIN task \cup DOMAIN more
      /\ \A x \in DOMAIN more : task'[x] = more[x]
      /\ \A x \in DOMAIN task \ DOMAIN more : task'[x] = task[x]
  BY DEF With
<1>2. task'["op"] = task["op"] /\ task'["d"] = task["d"] /\ task'["read"] = task["read"]
  BY <1>1
<1> QED  BY <1>1, <1>2 DEF GoesOn

(* Nothing changes but the task.                                           *)
LEMMA OnlyTask ==
    ASSUME WikiInv, task # Idle, ~At("run", "create"), UNCHANGED <<file, block, rows, head, orphans, late, spent>>
    PROVE  /\ FilesKept /\ BlocksStep /\ RowsStep /\ RowsStand
           /\ FilesInv' /\ BlockShape' /\ RowShape' /\ IdsInv' /\ SameIds /\ KeepsTexts
           /\ \A p \in Pages : DOMAIN file'[p].blocks \subseteq Known' \cup orphans'
<1>1. FilesKept /\ BlocksStep /\ RowsStep
  BY SameFiles, SameBlocks, SameRows DEF WikiInv, Shapes
<1>2. RowsStand
  BY <1>1 DEF RowsStep, RowsStand, Rows
<1>3. IdsInv' /\ SameIds
  BY <1>1, IdsStay DEF WikiInv
<1>4. FilesInv'
  BY <1>1, KeptGood, FilesStep
<1>5. \A p \in Pages : DOMAIN file'[p].blocks \subseteq Known' \cup orphans'
  BY <1>1, <1>3, KeptPlaces DEF WikiInv, SameIds
<1> QED  BY <1>1, <1>2, <1>3, <1>4, <1>5, KeptTexts, StayingTexts DEF BlocksStep, RowsStep

(* Decisions are read, with the rows they are about.                       *)
LEMMA StartApplyStep ==
    ASSUME WikiInv, StartApply, UNCHANGED late, Spend(2)
    PROVE  WikiInv' /\ KeepsTexts
<1>1. task = Idle /\ UNCHANGED <<rows, head, orphans>> /\ block' = MarkedRows /\ file' = Marked
  BY DEF StartApply
<1>2. ASSUME NEW p \in Pages
      PROVE  Kept(Marked[p], file'[p])
  <2>1. IsPage(Marked[p])
    BY <1>2, KeptMarked DEF WikiInv, Shapes, FileShape, Kept
  <2> QED  BY <1>1, <2>1, KeptGenerated
<1>3. DOMAIN file' = Pages
  BY <1>1 DEF Marked
<1>4. /\ FilesInv' /\ BlockShape' /\ RowShape' /\ IdsInv' /\ KeepsTexts
      /\ \A p \in Pages : DOMAIN file'[p].blocks \subseteq Known' \cup orphans'
  BY <1>1, <1>2, <1>3, StartStep
<1>5. PICK d : /\ DOMAIN d \subseteq Open
               /\ task' = [op |-> "apply", at |-> "next", d |-> d, read |-> rows, changed |-> {}, affected |-> {}]
  <2>1. PICK decided \in SUBSET (Open \cap filed) :
           \E d \in [decided -> Decisions] :
               task' = [op |-> "apply", at |-> "next", d |-> d, read |-> rows, changed |-> {}, affected |-> {}]
    BY DEF StartApply
  <2> QED  BY <2>1
<1>6. /\ {"op", "at", "d", "read"} \subseteq DOMAIN task' /\ task'.op = "apply" /\ task'.at = "next"
      /\ task'.d = d /\ task'.read = rows
  BY <1>5
<1>7. ReadInv'
  BY <1>1, <1>5, <1>6 DEF ReadInv, Rows, Open, WikiInv, Shapes, RowShape
<1> QED  BY <1>4, <1>6, <1>7, DecisionTask, AllParts

(* The page of the next row is read, if the block is there.                *)
LEMMA LoadPageStep ==
    ASSUME WikiInv, LoadPage, UNCHANGED <<late, spent>>
    PROVE  WikiInv' /\ KeepsTexts
<1>1. At("apply", "next") /\ UNCHANGED <<file, block, rows, head, orphans>> /\ Undecided # {} /\ ~IsTaxonomy(NextRow)
  BY DEF LoadPage, storeVars, historyVars
<1>2. /\ task # Idle /\ ~At("run", "create") /\ task.op = "apply"
      /\ ReadInv /\ {"op", "at", "d", "read"} \subseteq DOMAIN task
  BY <1>1, ApplyBusy
<1>3. PICK r \in Undecided : r = NextRow
  BY <1>1, NextRowIsUndecided
<1>4. CASE task' = Idle
  <2>1. FilesKept /\ BlocksStep /\ RowsStep
    BY <1>1, <1>2, OnlyTask
  <2> QED  BY <1>1, <1>2, <1>4, <2>1, QuietStep DEF Plain
<1>5. CASE task' # Idle
  <2>1. PICK more : /\ more = [at |-> "status", r |-> r, p |-> task.read[r].page, old |-> file[task.read[r].page], id |-> task.read[r].candidate.id]
                    /\ task' = With(task, more)
    BY <1>3, <1>5 DEF LoadPage, Raise
  <2>2. /\ DOMAIN more = {"at", "r", "p", "old", "id"} /\ more.at = "status" /\ more.r = r
        /\ more.id = task.read[r].candidate.id
    BY <2>1
  <2>3. GoesOn /\ \A x \in DOMAIN more : x \in DOMAIN task' /\ task'[x] = more[x]
    BY <1>2, <2>1, <2>2, WithGoesOn
  <2>4. /\ {"r", "p", "id", "old"} \subseteq DOMAIN task' /\ task'.at = "status" /\ task'.r = r
        /\ task'.id = task.read[r].candidate.id
    BY <2>2, <2>3
  <2>5. ReadInv'
    BY <1>1, <1>2, <2>3, OnlyTask, ReadStands
  <2>6. r \in DOMAIN task'.d /\ rows'[r].peer = "none" /\ task'.id = rows'[r].candidate.id
    BY <1>1, <1>2, <1>3, <2>3, <2>4 DEF Undecided, GoesOn, ReadInv, IsTaxonomy
  <2>7. RowInv'
    BY <2>4, <2>5, <2>6 DEF RowInv
  <2>8. TaskInv' /\ PlacesInv' /\ NextInv'
    BY <1>1, <1>2, <2>3, <2>4, OnlyTask, ApplyTask DEF GoesOn
  <2> QED  BY <1>1, <1>2, <2>7, <2>8, OnlyTask, AllParts
<1> QED  BY <1>4, <1>5

(* A row about two pages is turned to.                                     *)
LEMMA TurnToPagesStep ==
    ASSUME WikiInv, TurnToPages, UNCHANGED <<late, spent>>
    PROVE  WikiInv' /\ KeepsTexts
<1>1. At("apply", "next") /\ UNCHANGED <<file, block, rows, head, orphans>>
  BY DEF TurnToPages, storeVars, historyVars
<1>2. /\ task # Idle /\ ~At("run", "create") /\ task.op = "apply"
      /\ ReadInv /\ {"op", "at", "d", "read"} \subseteq DOMAIN task
  BY <1>1, ApplyBusy
<1>3. PICK at, more : /\ at \in {"merge", "applied"} /\ more = [at |-> at, r |-> NextRow]
                     /\ task' = With(task, more)
  BY DEF TurnToPages
<1>4. DOMAIN more = {"at", "r"} /\ more.at = at /\ more.r = NextRow
  BY <1>3
<1>5. GoesOn /\ task'.at = at /\ "r" \in DOMAIN task' /\ task'.r = NextRow
  BY <1>2, <1>3, <1>4, WithGoesOn
<1>6. CASE at = "applied"
  BY <1>1, <1>2, <1>5, <1>6, OnlyTask, DecisionStep
<1>7. CASE at = "merge"
  <2>1. PICK r \in Undecided : r = NextRow /\ IsTaxonomy(r)
    BY NextRowIsUndecided DEF TurnToPages
  <2>2. task'.r \in DOMAIN task'.d /\ rows'[task'.r].peer # "none"
    BY <1>1, <1>5, <2>1 DEF Undecided, GoesOn, IsTaxonomy
  <2>3. ReadInv'
    BY <1>1, <1>2, <1>5, OnlyTask, ReadStands
  <2>4. RowInv'
    BY <1>5, <1>7, <2>2, <2>3 DEF RowInv
  <2>5. TaskInv' /\ PlacesInv' /\ NextInv'
    BY <1>1, <1>2, <1>5, <1>7, OnlyTask, ApplyTask DEF GoesOn
  <2> QED  BY <1>1, <1>2, <2>4, <2>5, OnlyTask, AllParts
<1> QED  BY <1>3, <1>6, <1>7

(* The row that is decided, between its reading and its writing.           *)
LEMMA RowFacts ==
    ASSUME WikiInv, task.op = "apply", task.at \in {"status", "create", "write"}
    PROVE  /\ {"r", "p", "id", "old"} \subseteq DOMAIN task /\ task.r \in DOMAIN task.d /\ task.r \in Rows
           /\ IsRow(Row) /\ Row.candidate = rows[task.r].candidate
           /\ Row.existing \in Known /\ Row.peer = "none" /\ rows[task.r].peer = "none"
<1>1. /\ ReadInv /\ {"r", "p", "id", "old"} \subseteq DOMAIN task
      /\ task.r \in DOMAIN task.d /\ rows[task.r].peer = "none"
  BY DEF WikiInv, RowInv
<1>2. task.r \in Rows /\ IsRow(Row) /\ Row.candidate = rows[task.r].candidate
      /\ Row.existing = rows[task.r].existing /\ Row.peer = rows[task.r].peer
  BY <1>1 DEF ReadInv, Row
<1>3. rows[task.r].existing \in Known
  BY <1>1, <1>2 DEF WikiInv, IdsInv
<1> QED  BY <1>1, <1>2, <1>3

(* The existing block gets its fate.                                       *)
LEMMA UpdateStatusStep ==
    ASSUME WikiInv, UpdateStatus, UNCHANGED <<late, spent>>
    PROVE  WikiInv' /\ KeepsTexts
<1>1. At("apply", "status") /\ UNCHANGED <<file, rows, head, orphans>>
  BY DEF UpdateStatus, historyVars
<1>2. /\ task # Idle /\ ~At("run", "create") /\ task.op = "apply" /\ task.at = "status"
      /\ ReadInv /\ {"op", "at", "d", "read"} \subseteq DOMAIN task
  BY <1>1, ApplyBusy
<1>3. /\ {"r", "p", "id", "old"} \subseteq DOMAIN task /\ task.r \in DOMAIN task.d
      /\ Row.existing \in Known /\ rows[task.r].peer = "none" /\ task.id = rows[task.r].candidate.id
  BY <1>2, RowFacts DEF WikiInv, RowInv
<1>4. PICK fate : fate = Fate
  OBVIOUS
<1>5. fate \in {"same", "deprecated", "conflicted", "deleted", "current"}
  BY <1>4 DEF Fate
<1>6. BlocksStep
  <2>1. CASE fate = "same"
    <3>1. block' = block
      BY <1>4, <2>1 DEF UpdateStatus
    <3> QED  BY <3>1, SameBlocks DEF WikiInv, Shapes
  <2>2. CASE fate # "same"
    <3>1. block' = [block EXCEPT ![Row.existing].status = fate]
      BY <1>4, <2>2 DEF UpdateStatus
    <3> QED  BY <1>3, <1>5, <3>1, StatusStep DEF WikiInv, Shapes
  <2> QED  BY <2>1, <2>2
<1>7. FilesKept /\ RowsStep
  BY <1>1, SameFiles, SameRows DEF WikiInv, Shapes
<1>8. IdsInv' /\ NextBlock' = NextBlock /\ Known' = Known
  BY <1>1, <1>6, <1>7, IdsStay DEF WikiInv, SameIds
<1>9. PICK new \in BOOLEAN : new <=> task.d[task.r] \in {"approved_merge", "merge"}
  OBVIOUS
<1>10. /\ task' = [task EXCEPT !.at = "create", !.id = IF new THEN NextBlock ELSE task.id]
       /\ new => NextBlock \in Blocks
  BY <1>9 DEF UpdateStatus, Does
<1>11. /\ GoesOn /\ task'.at = "create" /\ task'.r = task.r /\ {"r", "p", "id", "old"} \subseteq DOMAIN task'
       /\ task'.id = IF new THEN NextBlock ELSE task.id
  BY <1>2, <1>3, <1>10 DEF GoesOn
<1>12. ReadInv'
  BY <1>1, <1>2, <1>11, ReadStands DEF RowsStand, Rows
<1>13. RowInv'
  <2>1. task'.r \in DOMAIN task'.d /\ rows'[task'.r].peer = "none" /\ task'.d[task'.r] = task.d[task.r]
    BY <1>1, <1>3, <1>11 DEF GoesOn
  <2>2. task'.d[task'.r] \in {"approved_merge", "merge"} => task'.id \in Blocks
    BY <1>9, <1>10, <1>11, <2>1
  <2>3. task'.id = IF task'.d[task'.r] \in {"approved_merge", "merge"} THEN NextBlock' ELSE rows'[task'.r].candidate.id
    BY <1>1, <1>3, <1>8, <1>9, <1>11, <2>1
  <2> QED  BY <1>11, <1>12, <2>1, <2>2, <2>3 DEF RowInv
<1>14. \A p \in Pages : DOMAIN file'[p].blocks \subseteq Known' \cup orphans'
  BY <1>1, <1>2, <1>7, <1>8, KeptPlaces DEF WikiInv
<1>15. TaskInv' /\ PlacesInv' /\ NextInv'
  BY <1>11, <1>14, ApplyTask DEF GoesOn
<1>16. FilesInv'
  BY <1>1, <1>2, <1>7, KeptGood, FilesStep
<1> QED  BY <1>6, <1>7, <1>8, <1>13, <1>15, <1>16, AllParts, KeptTexts, StayingTexts DEF BlocksStep, RowsStep

(* The candidate is committed as a block, or a row is opened on the merge. *)
LEMMA CreateAcceptedStep ==
    ASSUME WikiInv, CreateAccepted, UNCHANGED <<late, spent>>
    PROVE  WikiInv' /\ KeepsTexts
<1>1. At("apply", "create") /\ UNCHANGED <<file, head, orphans>>
  BY DEF CreateAccepted
<1>2. /\ task # Idle /\ ~At("run", "create") /\ task.op = "apply" /\ task.at = "create"
      /\ ReadInv /\ {"op", "at", "d", "read"} \subseteq DOMAIN task
  BY <1>1, ApplyBusy
<1>3. /\ {"r", "p", "id", "old"} \subseteq DOMAIN task /\ task.r \in DOMAIN task.d /\ task.r \in Rows
      /\ IsRow(Row) /\ Row.candidate = rows[task.r].candidate
      /\ Row.existing \in Known /\ Row.peer = "none" /\ rows[task.r].peer = "none"
  BY <1>2, RowFacts
<1>4. /\ task.d[task.r] \in {"approved_merge", "merge"} => task.id = NextBlock /\ task.id \in Blocks
      /\ task.d[task.r] \notin {"approved_merge", "merge"} => task.id = rows[task.r].candidate.id
  BY <1>2 DEF WikiInv, RowInv
<1>5. FilesKept
  BY <1>1, SameFiles DEF WikiInv, Shapes
<1>6. FilesInv'
  BY <1>1, <1>2, <1>5, KeptGood, FilesStep
<1>7. CASE Takes /\ task.id \in Known
  <2>1. UNCHANGED <<block, rows>> /\ task' = Idle
    BY <1>7 DEF CreateAccepted, Fail, Takes, Does, Accepts
  <2> QED  BY <1>1, <1>2, <2>1, OnlyTask, QuietStep DEF Plain
<1>8. CASE Takes /\ task.id \notin Known
  <2>1. PICK v, affected :
           /\ block' = [block EXCEPT ![task.id] = v] /\ rows' = rows
           /\ IsBlockRow(v) /\ v.status # "unknown"
           /\ task' = [task EXCEPT !.at = "write", !.affected = affected]
    <3>1. PICK status, v :
             /\ status \in {"conflicted", "current"}
             /\ v = [page |-> task.p, key |-> Row.candidate.key, edited |-> FALSE, status |-> status]
             /\ block' = [block EXCEPT ![task.id] = v] /\ rows' = rows
      BY <1>8 DEF CreateAccepted, Takes, Does, Accepts
    <3>2. PICK affected : task' = [task EXCEPT !.at = "write", !.affected = affected]
      BY <1>8 DEF CreateAccepted, Takes, Does, Accepts
    <3>3. IsBlockRow(v) /\ v.status # "unknown"
      BY <3>1 DEF IsBlockRow
    <3> QED  BY <3>1, <3>2, <3>3
  <2>2. task.id \in Blocks /\ (task.id = NextBlock \/ task.id \in Offered)
    <3>1. CASE task.d[task.r] \in {"approved_merge", "merge"}
      BY <1>4, <3>1
    <3>2. CASE task.d[task.r] \notin {"approved_merge", "merge"}
      <4>1. rows[task.r].candidate # NoCandidate
        BY <1>3, <1>8 DEF Takes, IsStale, IsTaxonomy
      <4>2. task.id \in Blocks /\ task.id = rows[task.r].candidate.id
        BY <1>3, <1>4, <3>2, <4>1 DEF WikiInv, IdsInv
      <4>3. task.id # 0
        BY <4>2, WikiAssumption DEF Blocks
      <4> QED  BY <1>3, <4>2, <4>3 DEF Offered
    <3> QED  BY <3>1, <3>2
  <2>3. BlockShape' /\ Known' = Known \cup {task.id}
    BY <2>1, <2>2, CreatedStep DEF WikiInv, Shapes
  <2>4. RowsStep
    BY <2>1, SameRows DEF WikiInv, Shapes
  <2>5. IdsInv'
    BY <1>1, <2>2, <2>3, <2>4, KnownMore DEF WikiInv
  <2>6. \A p \in Pages : task.id \notin DOMAIN file'[p].blocks
    <3>1. task.id \notin Known \cup orphans
      BY <1>8, <2>2, NextIsNew DEF WikiInv, IdsInv
    <3> QED  BY <1>1, <1>2, <3>1 DEF WikiInv, PlacesInv, Writing, On
  <2>7. /\ GoesOn /\ task'.at = "write" /\ task'.r = task.r /\ task'.id = task.id
        /\ {"r", "p", "id", "old"} \subseteq DOMAIN task'
    BY <1>2, <1>3, <2>1 DEF GoesOn
  <2>8. ReadInv'
    BY <1>2, <2>1, <2>7, ReadStands DEF RowsStand, Rows
  <2>9. RowInv'
    <3>1. task'.r \in DOMAIN task'.d /\ rows'[task'.r].peer = "none"
      BY <1>3, <2>1, <2>7 DEF GoesOn
    <3>2. task'.id \in Known' /\ \A p \in Pages : task'.id \notin On(p)'
      BY <2>3, <2>6, <2>7 DEF On
    <3> QED  BY <2>7, <2>8, <3>1, <3>2 DEF RowInv
  <2>10. \A p \in Pages : DOMAIN file'[p].blocks \subseteq Known' \cup orphans'
    BY <1>1, <1>2, <1>5, <2>3, KeptPlaces DEF WikiInv
  <2>11. TaskInv' /\ PlacesInv' /\ NextInv'
    BY <2>7, <2>10, ApplyTask DEF GoesOn
  <2> QED  BY <1>5, <1>6, <2>3, <2>4, <2>5, <2>9, <2>11, AllParts, KeptTexts, StayingTexts DEF RowsStep
<1>9. CASE ~Takes /\ task.d[task.r] = "merge"
  <2>1. PICK v, n : /\ v = [Row EXCEPT !.candidate.id = task.id]
                    /\ n = Cardinality(Rows) + 1
                    /\ rows' = Put(rows, n, v) /\ block' = block
                    /\ task' = With([task EXCEPT !.at = "write"], [f |-> n])
    BY <1>9 DEF CreateAccepted, Takes, Does
  <2>2. IsRow(v) /\ v.candidate.id = task.id /\ v.existing = Row.existing
    <3>1. PICK c : c = [Row.candidate EXCEPT !.id = task.id]
      OBVIOUS
    <3>2. c = [id |-> task.id, key |-> Row.candidate.key, chunks |-> Row.candidate.chunks]
      BY <1>3, <3>1 DEF IsRow, IsCandidate
    <3>3. v = [Row EXCEPT !.candidate = c]
      BY <2>1, <3>1
    <3>4. v = [page |-> Row.page, existing |-> Row.existing, peer |-> Row.peer, applied |-> Row.applied, candidate |-> c]
      BY <1>3, <3>3 DEF IsRow
    <3> QED  BY <1>3, <3>2, <3>4 DEF IsRow, IsCandidate
  <2>3. BlocksStep
    BY <2>1, SameBlocks DEF WikiInv, Shapes
  <2>4. /\ IdsInv' /\ RowShape' /\ Rows' = Rows \cup {Cardinality(Rows) + 1}
        /\ \A r \in Rows : rows'[r] = rows[r]
    BY <1>1, <1>3, <1>4, <1>9, <2>1, <2>2, <2>3, RowStep DEF WikiInv, Shapes
  <2>5. PICK g, more : g = [task EXCEPT !.at = "write"] /\ more = [f |-> n]
    OBVIOUS
  <2>6. /\ DOMAIN g = DOMAIN task /\ g.at = "write" /\ DOMAIN more = {"f"}
        /\ \A x \in DOMAIN task \ {"at"} : g[x] = task[x]
    BY <1>2, <2>5
  <2>7. /\ DOMAIN task' = DOMAIN g \cup DOMAIN more
        /\ \A x \in DOMAIN g \ DOMAIN more : task'[x] = g[x]
    BY <2>1, <2>5 DEF With
  <2>8. task'["op"] = task["op"] /\ task'["d"] = task["d"] /\ task'["read"] = task["read"] /\ task'["r"] = task["r"]
        /\ task'["at"] = "write" /\ {"r", "p", "id", "old"} \subseteq DOMAIN task'
    BY <1>2, <1>3, <2>6, <2>7
  <2>9. GoesOn /\ task'.at = "write" /\ task'.r = task.r
    BY <1>2, <2>6, <2>7, <2>8 DEF GoesOn
  <2>10. ReadInv'
    BY <1>2, <2>4, <2>9, ReadStands DEF RowsStand
  <2>11. RowInv'
    <3>1. task'.r \in DOMAIN task'.d /\ rows'[task'.r].peer = "none" /\ task'.d[task'.r] = "merge"
      BY <1>3, <1>9, <2>4, <2>9 DEF GoesOn
    <3>2. ~Takes'
      BY <3>1 DEF Takes, Accepts
    <3> QED  BY <2>8, <2>9, <2>10, <3>1, <3>2 DEF RowInv
  <2>12. \A p \in Pages : DOMAIN file'[p].blocks \subseteq Known' \cup orphans'
    BY <1>1, <1>2, <1>5, <2>3, KeptPlaces DEF WikiInv, BlocksStep
  <2>13. TaskInv' /\ PlacesInv' /\ NextInv'
    BY <2>9, <2>12, ApplyTask DEF GoesOn
  <2> QED  BY <1>5, <1>6, <2>3, <2>4, <2>11, <2>13, AllParts, KeptTexts, StayingTexts DEF BlocksStep
<1>10. CASE ~Takes /\ task.d[task.r] # "merge"
  <2>1. UNCHANGED <<block, rows>> /\ Goto("write")
    BY <1>10 DEF CreateAccepted, Takes, Does
  <2>2. /\ GoesOn /\ task'.at = "write" /\ task'.r = task.r /\ {"r", "p", "id", "old"} \subseteq DOMAIN task'
    BY <1>2, <1>3, <2>1, GotoGoesOn DEF Goto
  <2>3. ReadInv'
    BY <1>2, <2>1, <2>2, ReadStands DEF RowsStand, Rows
  <2>4. task'.r \in DOMAIN task'.d /\ rows'[task'.r].peer = "none"
    BY <1>3, <2>1, <2>2 DEF GoesOn
  <2>5. ~Takes'
    BY <1>10, <2>1, <2>2 DEF Takes, IsStale, IsTaxonomy, GoesOn
  <2>6. RowInv'
    BY <2>2, <2>3, <2>4, <2>5 DEF RowInv
  <2>7. TaskInv' /\ PlacesInv' /\ NextInv'
    BY <1>1, <1>2, <2>1, <2>2, OnlyTask, ApplyTask DEF GoesOn
  <2> QED  BY <1>1, <1>2, <2>1, <2>6, <2>7, OnlyTask, AllParts
<1> QED  BY <1>7, <1>8, <1>9, <1>10

(* A page without one of its blocks.                                       *)
LEMMA RemovedBlock ==
    ASSUME NEW f, IsPage(f), NEW b
    PROVE  /\ IsPage(_remove_block(f, b))
           /\ _remove_block(f, b).blocks = [c \in DOMAIN f.blocks \ {b} |-> f.blocks[c]]
<1>1. PICK blocks : blocks = [c \in DOMAIN f.blocks \ {b} |-> f.blocks[c]]
  OBVIOUS
<1>2. _remove_block(f, b) = [f EXCEPT !.blocks = blocks]
  BY <1>1 DEF _remove_block, Restrict
<1>3. _remove_block(f, b) = [there |-> f.there, blocks |-> blocks, listed |-> f.listed, coverage |-> f.coverage, digest |-> f.digest]
  BY <1>2 DEF IsPage
<1>4. IsBlocks(blocks)
  BY <1>1 DEF IsPage, IsBlocks
<1> QED  BY <1>1, <1>3, <1>4 DEF IsPage

(* A page keeps its texts when its blocks get their fates and markers.     *)
LEMMA KeptFate ==
    ASSUME NEW f, IsPage(f)
    PROVE  Kept(f, WithFate(f)) /\ Kept(f, WithMarker(f))
<1>1. Kept(f, f)
  BY KeptGenerated
<1>2. PICK fate, b, r : fate = Fate /\ b = Row.existing /\ r = task.r
  OBVIOUS
<1>3. WithFate(f) \in {f, set_status(f, b, fate)}
  BY <1>2 DEF WithFate
<1>4. Kept(f, set_status(f, b, fate))
  BY KeptStatus
<1>5. PICK q, g : q = task.f /\ g = remove_pending_marker(f, b, r)
  OBVIOUS
<1>6. WithMarker(f) \in {f, g, add_pending_marker(g, b, q)}
  BY <1>2, <1>5 DEF WithMarker
<1>7. Kept(f, g)
  BY <1>5, KeptMarker
<1>8. Kept(f, add_pending_marker(g, b, q))
  <2>1. Kept(g, add_pending_marker(g, b, q))
    BY <1>7, KeptMarker DEF Kept
  <2> QED  BY <1>7, <2>1, KeptTwice
<1> QED  BY <1>1, <1>3, <1>4, <1>6, <1>7, <1>8

(* The page is written as the decision leaves it, or has changed.          *)
LEMMA _write_pageStep ==
    ASSUME WikiInv, _write_page, UNCHANGED <<late, spent>>
    PROVE  WikiInv' /\ KeepsTexts
<1>1. At("apply", "write") /\ UNCHANGED <<block, rows, head, orphans>>
  BY DEF _write_page
<1>2. /\ task # Idle /\ ~At("run", "create") /\ task.op = "apply" /\ task.at = "write"
      /\ ReadInv /\ {"op", "at", "d", "read"} \subseteq DOMAIN task
  BY <1>1, ApplyBusy
<1>3. BlocksStep /\ RowsStep
  BY <1>1, SameBlocks, SameRows DEF WikiInv, Shapes
<1>4. IdsInv' /\ Known' = Known /\ BlockShape' /\ RowShape'
  BY <1>1, <1>3, IdsStay DEF WikiInv, SameIds, BlocksStep, RowsStep
<1>5. CASE task' = Idle /\ UNCHANGED file
  BY <1>1, <1>2, <1>3, <1>5, SameFiles, QuietStep DEF Plain, WikiInv, Shapes
<1>6. CASE ~(task' = Idle /\ UNCHANGED file)
  <2>1. PICK f : f = WithMarker(WithFate(file[task.p]))
    OBVIOUS
  <2>2. PICK g : g = WithCandidate(f)
    OBVIOUS
  <2>3. file' = [file EXCEPT ![task.p] = g]
    BY <1>6, <2>1, <2>2 DEF _write_page, write_page, Fail
  <2>4. PICK at \in {"emit", "applied"} : \E changed : task' = [task EXCEPT !.at = at, !.changed = changed]
    BY <1>6 DEF _write_page, Fail
  <2>5. GoesOn /\ task'.at = at
    BY <1>2, <2>4 DEF GoesOn
  <2>6. ASSUME task.p \in Pages
        PROVE  Kept(file[task.p], f)
    <3>1. IsPage(file[task.p])
      BY <2>6 DEF WikiInv, Shapes, FileShape
    <3>2. PICK e : e = WithFate(file[task.p])
      OBVIOUS
    <3>3. Kept(file[task.p], e)
      BY <3>1, <3>2, KeptFate
    <3>4. Kept(e, f)
      BY <2>1, <3>2, <3>3, KeptFate DEF Kept
    <3> QED  BY <3>3, <3>4, KeptTwice
  <2>7. CASE task.p \notin Pages \/ Kept(file[task.p], g)
    <3>1. FilesKept
      BY <2>3, <2>7, OneFileKept DEF WikiInv, Shapes
    <3> QED  BY <1>1, <1>2, <1>3, <2>4, <2>5, <3>1, DecisionStep
  <2>8. ReadInv'
    <3>1. RowsStand
      BY <1>1 DEF RowsStand, Rows
    <3> QED  BY <1>2, <2>5, <3>1, ReadStands
  <2>9. CASE task.p \in Pages /\ Does("delete_duplicate")
    <3>1. Kept(file[task.p], f) /\ IsPage(f)
      BY <2>6, <2>9 DEF Kept
    <3>2. g = _remove_block(f, Row.existing)
      BY <2>2, <2>9 DEF WithCandidate, Does, Takes, Accepts
    <3>3. IsPage(g) /\ g.blocks = [c \in DOMAIN f.blocks \ {Row.existing} |-> f.blocks[c]]
      BY <3>1, <3>2, RemovedBlock
    <3>4. Marks(f.blocks)
      BY <1>2, <2>9, <3>1, PagesAreGood, KeptMarks
    <3>5. Marks(g.blocks)
      BY <3>3, <3>4 DEF Marks, Old, IsPage
    <3>6. FilesInv'
      BY <1>1, <1>2, <2>3, <2>9, <3>3, <3>5, OneFileGood, FilesStep
    <3>7. file'[task.p] = g /\ \A p \in Pages \ {task.p} : file'[p] = file[p]
      BY <2>3, <2>9 DEF WikiInv, Shapes, FileShape
    <3>8. \A p \in Pages : DOMAIN file'[p].blocks \subseteq On(p)
      BY <3>1, <3>3, <3>7 DEF On, Kept
    <3>9. \A p \in Pages : DOMAIN file'[p].blocks \subseteq Known' \cup orphans'
      BY <1>1, <1>2, <1>4, <3>8 DEF WikiInv, PlacesInv, Writing
    <3>10. TaskInv' /\ PlacesInv' /\ NextInv' /\ RowInv'
      BY <2>4, <2>5, <2>8, <3>9, DecisionTask DEF GoesOn
    <3>11. KeepsTexts
      <4>1. ASSUME NEW b \in Blocks, b # Row.existing, NEW t \in TextOf(b)
            PROVE  t \in TextOf(b)'
        <5>1. PICK p \in Pages : b \in On(p) /\ t = file[p].blocks[b].text
          BY <4>1 DEF TextOf
        <5>2. b \in DOMAIN file'[p].blocks /\ file'[p].blocks[b].text = t
          BY <3>1, <3>3, <3>7, <4>1, <5>1 DEF Kept, On
        <5> QED  BY <5>2 DEF TextOf, On
      <4> QED  BY <1>2, <2>9, <4>1 DEF KeepsTexts
    <3> QED  BY <1>4, <3>6, <3>10, <3>11, AllParts
  <2>10. CASE task.p \in Pages /\ ~Does("delete_duplicate") /\ Takes
    <3>1. PICK v, h : /\ g = insert_block(h, task.id, v) /\ IsBlock(v) /\ v.text = 0
                      /\ Kept(file[task.p], h)
      <4>1. PICK status : status = IF Does("mark_conflicted") THEN "conflicted" ELSE "current"
        OBVIOUS
      <4>2. PICK v : v = Drafted(Row.candidate.key, status)
        OBVIOUS
      <4>3. PICK listed : listed = {<<"row", task.r>>}
        OBVIOUS
      <4>4. PICK h \in {f, [f EXCEPT !.listed = listed]} : g = insert_block(h, task.id, v)
        BY <2>2, <2>10, <4>1, <4>2, <4>3 DEF WithCandidate
      <4>5. Kept(file[task.p], f) /\ IsPage(f)
        BY <2>6, <2>10 DEF Kept
      <4>6. Kept(f, h)
        <5>1. Kept(f, f) /\ Kept(f, [f EXCEPT !.listed = listed])
          BY <4>5, KeptListed, KeptGenerated
        <5> QED  BY <4>4, <5>1
      <4>7. Kept(file[task.p], h)
        BY <4>5, <4>6, KeptTwice
      <4>8. IsBlock(v) /\ v.text = 0
        BY <4>2 DEF Drafted, IsBlock
      <4> QED  BY <4>4, <4>7, <4>8
    <3>2. task.id \in Known /\ \A p \in Pages : task.id \notin On(p)
      BY <1>2, <2>10 DEF WikiInv, RowInv
    <3>3. file' = [file EXCEPT ![task.p] = insert_block(h, task.id, v)]
      BY <2>3, <3>1
    <3>4. FilesGood /\ TextsStay /\ \A p \in Pages : DOMAIN file'[p].blocks \subseteq On(p) \cup {task.id}
      BY <1>2, <2>10, <3>1, <3>2, <3>3, InsertStep
    <3>5. \A p \in Pages : DOMAIN file'[p].blocks \subseteq Known' \cup orphans'
      BY <1>1, <1>2, <1>4, <3>2, <3>4 DEF WikiInv, PlacesInv, Writing
    <3>6. TaskInv' /\ PlacesInv' /\ NextInv' /\ RowInv'
      BY <2>4, <2>5, <2>8, <3>5, DecisionTask DEF GoesOn
    <3> QED  BY <1>1, <1>2, <1>4, <3>4, <3>6, FilesStep, AllParts, StayingTexts
  <2>11. CASE task.p \in Pages /\ ~Does("delete_duplicate") /\ ~Takes
    <3>1. g = f
      BY <2>2, <2>11 DEF WithCandidate
    <3> QED  BY <2>6, <2>7, <2>11, <3>1
  <2> QED  BY <2>7, <2>9, <2>10, <2>11
<1> QED  BY <1>5, <1>6

(* The review file of a merge is written.                                  *)
LEMMA EmitFollowUpStep ==
    ASSUME WikiInv, EmitFollowUp, UNCHANGED <<late, spent>>
    PROVE  WikiInv' /\ KeepsTexts
<1>1. At("apply", "emit") /\ UNCHANGED <<file, block, rows, head, orphans>> /\ Goto("applied")
  BY DEF EmitFollowUp, storeVars
<1>2. task # Idle /\ ~At("run", "create") /\ task.op = "apply"
  BY <1>1, ApplyBusy
<1>3. GoesOn /\ task'.at = "applied"
  BY <1>1, <1>2, GotoGoesOn
<1> QED  BY <1>1, <1>2, <1>3, OnlyTask, DecisionStep

(* The row is applied.                                                     *)
LEMMA _mark_appliedStep ==
    ASSUME WikiInv, _mark_applied, UNCHANGED <<late, spent>>
    PROVE  WikiInv' /\ KeepsTexts
<1>1. At("apply", "applied") /\ UNCHANGED <<file, block, head, orphans>>
  BY DEF _mark_applied, historyVars
<1>2. /\ task # Idle /\ ~At("run", "create") /\ task.op = "apply"
      /\ {"op", "at", "d", "read"} \subseteq DOMAIN task
  BY <1>1, ApplyBusy
<1>3. RowsStep
  <2>1. PICK yes \in BOOLEAN : yes = TRUE
    OBVIOUS
  <2>2. rows' = [rows EXCEPT ![task.r].applied = yes]
    BY <2>1 DEF _mark_applied
  <2>3. ASSUME NEW r \in Rows
        PROVE  /\ IsRow(rows'[r]) /\ rows'[r].candidate = rows[r].candidate
               /\ rows'[r].existing = rows[r].existing /\ rows'[r].peer = rows[r].peer
    <3>1. rows'[r] \in {rows[r], [rows[r] EXCEPT !.applied = yes]}
      BY <2>2, <2>3 DEF Rows
    <3>2. IsRow(rows[r])
      BY <2>3 DEF WikiInv, Shapes, RowShape
    <3>3. [rows[r] EXCEPT !.applied = yes] =
          [page |-> rows[r].page, existing |-> rows[r].existing, peer |-> rows[r].peer, applied |-> yes, candidate |-> rows[r].candidate]
      BY <3>2 DEF IsRow
    <3> QED  BY <3>1, <3>2, <3>3 DEF IsRow
  <2>4. DOMAIN rows' = Rows
    BY <2>2 DEF Rows
  <2> QED  BY <2>3, <2>4 DEF RowsStep, RowShape, Rows
<1>4. PICK affected : task' = [task EXCEPT !.at = "next", !.affected = affected]
  BY DEF _mark_applied
<1>5. GoesOn /\ task'.at = "next"
  BY <1>2, <1>4 DEF GoesOn
<1> QED  BY <1>1, <1>2, <1>3, <1>5, SameFiles, SameBlocks, DecisionStep DEF WikiInv, Shapes

(* The chunks of the candidates are disposed of.                           *)
LEMMA _finalize_candidate_dispositionsStep ==
    ASSUME WikiInv, _finalize_candidate_dispositions, UNCHANGED <<late, spent>>
    PROVE  WikiInv' /\ KeepsTexts
<1>1. At("apply", "next") /\ UNCHANGED <<file, block, rows, head, orphans>> /\ Goto("refresh")
  BY DEF _finalize_candidate_dispositions, historyVars
<1>2. task # Idle /\ ~At("run", "create") /\ task.op = "apply"
  BY <1>1, ApplyBusy
<1>3. GoesOn /\ task'.at = "refresh"
  BY <1>1, <1>2, GotoGoesOn
<1> QED  BY <1>1, <1>2, <1>3, OnlyTask, DecisionStep

(* What is open is listed on the pages that changed.                       *)
LEMMA RefreshConflictsStep ==
    ASSUME WikiInv, RefreshConflicts, UNCHANGED <<late, spent>>
    PROVE  WikiInv' /\ KeepsTexts
<1>1. At("apply", "refresh") /\ UNCHANGED <<block, rows, head, orphans>> /\ Goto("render")
  BY DEF RefreshConflicts, historyVars
<1>2. task # Idle /\ ~At("run", "create") /\ task.op = "apply"
  BY <1>1, ApplyBusy
<1>3. GoesOn /\ task'.at = "render"
  BY <1>1, <1>2, GotoGoesOn
<1>4. ASSUME NEW p \in Pages
      PROVE  Kept(file[p], file'[p])
  <2>1. PICK listed : listed = ListedIn(p)
    OBVIOUS
  <2>2. file'[p] \in {file[p], [file[p] EXCEPT !.listed = listed]}
    BY <1>4, <2>1 DEF RefreshConflicts
  <2>3. IsPage(file[p])
    BY <1>4 DEF WikiInv, Shapes, FileShape
  <2>4. Kept(file[p], file[p]) /\ Kept(file[p], [file[p] EXCEPT !.listed = listed])
    BY <2>3, KeptGenerated, KeptListed
  <2> QED  BY <2>2, <2>4
<1>5. FilesKept
  BY <1>4 DEF FilesKept, RefreshConflicts
<1> QED  BY <1>1, <1>2, <1>3, <1>5, SameBlocks, SameRows, DecisionStep DEF WikiInv, Shapes

--------------------------------------------------------------------------------
(* The steps of taxonomy operations.                                       *)

(* A task that holds the blocks to move.                                   *)
LEMMA CarryTask ==
    ASSUME {"op", "at", "kind", "p", "q", "blocks"} \subseteq DOMAIN task',
           task'.op \in {"apply", "taxonomy"}, task'.op = "apply" => ReadInv',
           task'.at \in {"target", "source", "new"}, task'.kind # "rename", task'.op = "taxonomy" => task'.q \in Pages,
           Marks(task.blocks)', DOMAIN task'.blocks \subseteq Known' \cup orphans',
           \A p \in Pages : DOMAIN file'[p].blocks \subseteq Known' \cup orphans'
    PROVE  TaskInv' /\ PlacesInv' /\ NextInv' /\ RowInv'
<1>1. task' # Idle /\ ~Renames'
  BY DEF Renames, Idle
<1>2. TaskInv'
  BY <1>1 DEF TaskInv, Marks, Old, Fine
<1>3. PlacesInv'
  BY <1>1 DEF PlacesInv, On
<1>4. NextInv'
  BY DEF NextInv
<1>5. RowInv'
  BY DEF RowInv
<1> QED  BY <1>2, <1>3, <1>4, <1>5

(* A task that holds the page to rename.                                   *)
LEMMA RenameTask ==
    ASSUME {"op", "at", "kind", "q", "moved"} \subseteq DOMAIN task', task'.op = "taxonomy",
           task'.at \in {"redirect", "register"}, task'.kind = "rename", task'.q \in Pages,
           IsPage(task'.moved), Marks(task.moved.blocks)', DOMAIN task'.moved.blocks \subseteq Known' \cup orphans',
           \A p \in Pages : DOMAIN file'[p].blocks \subseteq Known' \cup orphans'
    PROVE  TaskInv' /\ PlacesInv' /\ NextInv' /\ RowInv'
<1>1. ~Carries'
  BY DEF Carries
<1>2. TaskInv'
  BY <1>1 DEF TaskInv, Marks, Old, Fine
<1>3. PlacesInv'
  BY <1>1 DEF PlacesInv, On
<1>4. NextInv'
  BY DEF NextInv
<1>5. RowInv'
  BY DEF RowInv
<1> QED  BY <1>2, <1>3, <1>4, <1>5

(* What starts of a taxonomy operation.                                    *)
LEMMA StartTask ==
    ASSUME WikiInv, NEW kind, NEW p, NEW q, NEW at, NEW more, Start(kind, p, q, at, more), UNCHANGED late, Spend(2),
           DOMAIN more \cap {"op", "at", "kind", "p", "q"} = {}
    PROVE  /\ {"op", "at", "kind", "p", "q"} \subseteq DOMAIN task'
           /\ task'.op = "taxonomy" /\ task'.at = at /\ task'.kind = kind /\ task'.p = p /\ task'.q = q
           /\ \A x \in DOMAIN more : x \in DOMAIN task' /\ task'[x] = more[x]
           /\ FilesInv' /\ BlockShape' /\ RowShape' /\ IdsInv' /\ KeepsTexts
           /\ \A r \in Pages : /\ DOMAIN file'[r].blocks \subseteq Known' \cup orphans'
                               /\ file'[r] = Marked[r] /\ IsPage(Marked[r]) /\ DOMAIN Marked[r].blocks = On(r)
                               /\ Marks(file[r].blocks)'
<1>1. task = Idle /\ UNCHANGED <<rows, head, orphans>> /\ block' = MarkedRows /\ file' = Marked
  BY DEF Start
<1>2. PICK f : f = [op |-> "taxonomy", at |-> at, kind |-> kind, p |-> p, q |-> q]
  OBVIOUS
<1>3. task' = With(f, more)
  BY <1>2 DEF Start
<1>4. /\ DOMAIN f = {"op", "at", "kind", "p", "q"}
      /\ f["op"] = "taxonomy" /\ f["at"] = at /\ f["kind"] = kind /\ f["p"] = p /\ f["q"] = q
  BY <1>2
<1>5. /\ DOMAIN task' = DOMAIN f \cup DOMAIN more
      /\ \A x \in DOMAIN more : task'[x] = more[x]
      /\ \A x \in DOMAIN f \ DOMAIN more : task'[x] = f[x]
  BY <1>3 DEF With
<1>6. /\ task'["op"] = "taxonomy" /\ task'["at"] = at /\ task'["kind"] = kind
      /\ task'["p"] = p /\ task'["q"] = q
  BY <1>4, <1>5
<1>7. ASSUME NEW r \in Pages
      PROVE  Kept(Marked[r], file'[r]) /\ IsPage(Marked[r]) /\ DOMAIN Marked[r].blocks = On(r)
  <2>1. Kept(file[r], Marked[r])
    BY <1>7, KeptMarked DEF WikiInv, Shapes, FileShape
  <2> QED  BY <1>1, <2>1, KeptGenerated DEF Kept, On
<1>8. DOMAIN file' = Pages
  BY <1>1 DEF Marked
<1>9. /\ FilesInv' /\ BlockShape' /\ RowShape' /\ IdsInv' /\ KeepsTexts
      /\ \A r \in Pages : DOMAIN file'[r].blocks \subseteq Known' \cup orphans'
  BY <1>1, <1>7, <1>8, StartStep
<1>10. task' # Idle
  BY <1>6 DEF Idle
<1>11. \A r \in Pages : Marks(file[r].blocks)'
  BY <1>9, <1>10 DEF FilesInv, PagesInv, FileShape, IsPage, Marks, On
<1> QED  BY <1>1, <1>4, <1>5, <1>6, <1>7, <1>9, <1>11

(* A merge starts: the blocks of the page are to move.                     *)
LEMMA StartMergeStep ==
    ASSUME WikiInv, NEW p \in Pages, NEW q \in Pages, StartMerge(p, q), UNCHANGED late, Spend(2)
    PROVE  WikiInv' /\ KeepsTexts
<1>1. PICK more : more = [blocks |-> Marked[p].blocks, old |-> Marked[q]]
  OBVIOUS
<1>2. DOMAIN more = {"blocks", "old"} /\ more.blocks = Marked[p].blocks
  BY <1>1
<1>3. Start("merge", p, q, "target", more)
  BY <1>1 DEF StartMerge
<1>4. /\ {"op", "at", "kind", "p", "q", "blocks"} \subseteq DOMAIN task'
      /\ task'.op = "taxonomy" /\ task'.at = "target" /\ task'.kind = "merge" /\ task'.q = q
      /\ task'.blocks = Marked[p].blocks
      /\ FilesInv' /\ BlockShape' /\ RowShape' /\ IdsInv' /\ KeepsTexts
      /\ \A r \in Pages : /\ DOMAIN file'[r].blocks \subseteq Known' \cup orphans'
                          /\ file'[r] = Marked[r] /\ Marks(file[r].blocks)'
  BY <1>2, <1>3, StartTask
<1>5. TaskInv' /\ PlacesInv' /\ NextInv' /\ RowInv'
  <2>1. Marks(task.blocks)' /\ DOMAIN task'.blocks \subseteq Known' \cup orphans'
    BY <1>4
  <2> QED  BY <1>4, <2>1, CarryTask
<1> QED  BY <1>4, <1>5, AllParts

(* A split starts: some of the blocks are to move.                         *)
LEMMA StartSplitStep ==
    ASSUME WikiInv, NEW p \in Pages, NEW q \in Pages, StartSplit(p, q), UNCHANGED late, Spend(2)
    PROVE  WikiInv' /\ KeepsTexts
<1>1. PICK moving, more : /\ moving \in SUBSET On(p)
                          /\ more = [blocks |-> Restrict(Marked[p].blocks, moving), old |-> Marked[p]]
                          /\ Start("split", p, q, "source", more)
  BY DEF StartSplit
<1>2. /\ DOMAIN more = {"blocks", "old"} /\ more.blocks = [b \in moving |-> Marked[p].blocks[b]]
  BY <1>1 DEF Restrict
<1>3. /\ {"op", "at", "kind", "p", "q", "blocks"} \subseteq DOMAIN task'
      /\ task'.op = "taxonomy" /\ task'.at = "source" /\ task'.kind = "split" /\ task'.q = q
      /\ task'.blocks = [b \in moving |-> Marked[p].blocks[b]]
      /\ FilesInv' /\ BlockShape' /\ RowShape' /\ IdsInv' /\ KeepsTexts
      /\ \A r \in Pages : /\ DOMAIN file'[r].blocks \subseteq Known' \cup orphans'
                          /\ file'[r] = Marked[r] /\ DOMAIN Marked[r].blocks = On(r) /\ Marks(file[r].blocks)'
  BY <1>1, <1>2, StartTask
<1>4. TaskInv' /\ PlacesInv' /\ NextInv' /\ RowInv'
  <2>1. Marks(task.blocks)'
    <3>1. PICK f, g : f = file'[p].blocks /\ g = task'.blocks
      OBVIOUS
    <3>2. IsBlocks(f) /\ \A b \in DOMAIN f : f[b].text <= spent' /\ (b \notin late' => Fine(f[b]))
      BY <1>3, <3>1 DEF Marks, Old, Fine
    <3>3. DOMAIN g \subseteq DOMAIN f /\ g = [b \in DOMAIN g |-> f[b]]
      BY <1>1, <1>3, <3>1
    <3>4. IsBlocks(g) /\ \A b \in DOMAIN g : g[b].text <= spent' /\ (b \notin late' => Fine(g[b]))
      BY <3>2, <3>3 DEF IsBlocks
    <3> QED  BY <3>1, <3>4 DEF Marks, Old, Fine
  <2>2. DOMAIN task'.blocks \subseteq Known' \cup orphans'
    BY <1>1, <1>3
  <2> QED  BY <1>3, <2>1, <2>2, CarryTask
<1> QED  BY <1>3, <1>4, AllParts

(* A rename starts: the page is kept in memory.                            *)
LEMMA StartRenameStep ==
    ASSUME WikiInv, NEW p \in Pages, StartRename(p), UNCHANGED late, Spend(2)
    PROVE  WikiInv' /\ KeepsTexts
<1>1. PICK more : more = [blocks |-> NoBlocks, moved |-> Marked[p]]
  OBVIOUS
<1>2. DOMAIN more = {"blocks", "moved"} /\ more.moved = Marked[p]
  BY <1>1
<1>3. Start("rename", p, p, "redirect", more)
  BY <1>1 DEF StartRename
<1>4. /\ {"op", "at", "kind", "p", "q", "moved"} \subseteq DOMAIN task'
      /\ task'.op = "taxonomy" /\ task'.at = "redirect" /\ task'.kind = "rename" /\ task'.q = p
      /\ task'.moved = Marked[p]
      /\ FilesInv' /\ BlockShape' /\ RowShape' /\ IdsInv' /\ KeepsTexts
      /\ \A r \in Pages : /\ DOMAIN file'[r].blocks \subseteq Known' \cup orphans'
                          /\ file'[r] = Marked[r] /\ IsPage(Marked[r]) /\ Marks(file[r].blocks)'
  BY <1>2, <1>3, StartTask
<1>5. TaskInv' /\ PlacesInv' /\ NextInv' /\ RowInv'
  <2>1. Marks(task.moved.blocks)' /\ IsPage(task'.moved) /\ DOMAIN task'.moved.blocks \subseteq Known' \cup orphans'
    BY <1>4
  <2> QED  BY <1>4, <2>1, RenameTask
<1> QED  BY <1>4, <1>5, AllParts

(* A row about two pages is applied: the one is merged into the other.     *)
LEMMA MergeRowStep ==
    ASSUME WikiInv, MergeRow, UNCHANGED <<late, spent>>
    PROVE  WikiInv' /\ KeepsTexts
<1>1. At("apply", "merge") /\ UNCHANGED <<file, block, rows, head, orphans>>
  BY DEF MergeRow, storeVars
<1>2. /\ task # Idle /\ ~At("run", "create") /\ task.op = "apply" /\ task.at = "merge"
      /\ ReadInv /\ {"op", "at", "d", "read"} \subseteq DOMAIN task
  BY <1>1, ApplyBusy
<1>3. CASE task' = Idle
  BY <1>1, <1>2, <1>3, OnlyTask, QuietStep DEF Plain
<1>4. CASE task' # Idle
  <2>1. PICK p, q : p = Row.page /\ q = Row.peer
    OBVIOUS
  <2>2. PICK more : /\ more = [p |-> p, q |-> q, kind |-> "merge", blocks |-> file[p].blocks, old |-> file[q]]
                    /\ task' = With([task EXCEPT !.at = "target"], more)
    BY <1>4, <2>1 DEF MergeRow, Raise
  <2>3. p \in Pages
    <3>1. task.r \in DOMAIN task.d /\ rows[task.r].peer # "none"
      BY <1>2 DEF WikiInv, RowInv
    <3> QED  BY <1>2, <2>1, <3>1 DEF ReadInv, IsRow, Row
  <2>4. PICK g : g = [task EXCEPT !.at = "target"]
    OBVIOUS
  <2>5. /\ DOMAIN g = DOMAIN task /\ g.at = "target"
        /\ \A x \in DOMAIN task \ {"at"} : g[x] = task[x]
    BY <1>2, <2>4
  <2>6. DOMAIN more = {"p", "q", "kind", "blocks", "old"} /\ more["kind"] = "merge" /\ more["blocks"] = file[p].blocks
    BY <2>2
  <2>7. /\ DOMAIN task' = DOMAIN g \cup DOMAIN more
        /\ \A x \in DOMAIN more : task'[x] = more[x]
        /\ \A x \in DOMAIN g \ DOMAIN more : task'[x] = g[x]
    BY <2>2, <2>4 DEF With
  <2>8. /\ task'["op"] = task["op"] /\ task'["d"] = task["d"] /\ task'["read"] = task["read"] /\ task'["at"] = "target"
        /\ task'["kind"] = "merge" /\ task'["blocks"] = file[p].blocks
        /\ {"op", "at", "kind", "p", "q", "blocks", "d", "read"} \subseteq DOMAIN task'
    BY <1>2, <2>5, <2>6, <2>7
  <2>9. GoesOn /\ ReadInv'
    BY <1>1, <1>2, <2>8, OnlyTask, ReadStands DEF GoesOn
  <2>10. Marks(task.blocks)'
    <3>1. Marks(file[p].blocks)
      BY <1>2, <2>3, PagesAreGood
    <3> QED  BY <1>1, <2>8, <3>1 DEF Marks, Old
  <2>11. DOMAIN task'.blocks \subseteq Known' \cup orphans'
    BY <1>1, <1>2, <2>3, <2>8, OnlyTask
  <2>12. TaskInv' /\ PlacesInv' /\ NextInv' /\ RowInv'
    BY <1>1, <1>2, <2>8, <2>9, <2>10, <2>11, OnlyTask, CarryTask
  <2> QED  BY <1>1, <1>2, <2>12, OnlyTask, AllParts
<1> QED  BY <1>3, <1>4

(* A merge or a taxonomy operation at work.                                *)
LEMMA MergingBusy ==
    ASSUME WikiInv, NEW at, Merging(at)
    PROVE  /\ task # Idle /\ ~At("run", "create") /\ task.op \in {"apply", "taxonomy"} /\ task.at = at
           /\ {"op", "at"} \subseteq DOMAIN task
           /\ task.op = "apply" => ReadInv /\ {"d", "read"} \subseteq DOMAIN task
           /\ task.op = "taxonomy" => {"kind", "q"} \subseteq DOMAIN task /\ task.q \in Pages
  BY DEF Merging, At, Idle, WikiInv, TaskInv, RowInv, ReadInv

(* A step to a task that holds nothing, of a merge or a taxonomy           *)
(* operation, when the pages are good and the blocks known.                *)
LEMMA MergingStep ==
    ASSUME WikiInv, NEW at \in {"redirect", "register", "rows", "refresh"}, NEW now, Merging(now), Goto(at),
           task.op = "taxonomy" /\ at \in {"redirect", "register"} => task.kind # "rename",
           UNCHANGED <<head, late, spent, orphans>>, FilesGood, BlocksStep, RowsStep, KeepsTexts,
           \A p \in Pages : DOMAIN file'[p].blocks \subseteq Known' \cup orphans'
    PROVE  WikiInv' /\ KeepsTexts
<1>1. /\ task # Idle /\ task.op \in {"apply", "taxonomy"} /\ {"op", "at"} \subseteq DOMAIN task
      /\ task.op = "apply" => ReadInv /\ {"d", "read"} \subseteq DOMAIN task
      /\ task.op = "taxonomy" => {"kind", "q"} \subseteq DOMAIN task /\ task.q \in Pages
  BY MergingBusy
<1>2. /\ DOMAIN task' = DOMAIN task /\ task'.at = at /\ task'.op = task.op
      /\ \A x \in DOMAIN task \ {"at"} : task'[x] = task[x]
  BY <1>1, GotoTask DEF WikiInv
<1>3. FilesInv'
  BY <1>1, FilesStep
<1>4. IdsInv' /\ BlockShape' /\ RowShape'
  BY IdsStay DEF WikiInv, BlocksStep, RowsStep
<1>5. TaskInv' /\ PlacesInv' /\ NextInv' /\ RowInv'
  <2>1. CASE task.op = "apply"
    <3>1. GoesOn
      BY <1>1, <1>2, <2>1, GotoGoesOn
    <3>2. ReadInv'
      BY <1>1, <2>1, <3>1, ReadStands DEF RowsStep, RowsStand, Rows
    <3> QED  BY <1>2, <2>1, <3>1, <3>2, DecisionTask DEF GoesOn
  <2>2. CASE task.op = "taxonomy"
    <3>1. task'.q = task.q /\ task'.kind = task.kind
      BY <1>1, <1>2, <2>2
    <3>2. Plain'
      BY <1>1, <1>2, <2>2, <3>1 DEF Plain
    <3> QED  BY <3>2, PlainTask
  <2> QED  BY <1>1, <2>1, <2>2
<1> QED  BY <1>3, <1>4, <1>5, AllParts

(* A step that fails: nothing is written.                                  *)
LEMMA FailStep ==
    ASSUME WikiInv, task # Idle, ~At("run", "create"), task' = Idle,
           UNCHANGED <<file, block, rows, head, orphans, late, spent>>
    PROVE  WikiInv' /\ KeepsTexts
  BY OnlyTask, QuietStep DEF Plain

(* The page gets the blocks that move to it.                               *)
LEMMA WriteTargetStep ==
    ASSUME WikiInv, WriteTarget, UNCHANGED <<late, spent>>
    PROVE  WikiInv' /\ KeepsTexts
<1>1. Merging("target") /\ UNCHANGED <<block, rows, head, orphans>>
  BY DEF WriteTarget
<1>2. /\ task # Idle /\ ~At("run", "create") /\ task.op \in {"apply", "taxonomy"} /\ task.at = "target"
  BY <1>1, MergingBusy
<1>3. CASE task' = Idle /\ UNCHANGED file
  BY <1>1, <1>2, <1>3, FailStep
<1>4. CASE ~(task' = Idle /\ UNCHANGED file)
  <2>1. PICK f, more : f = file[task.q] /\ more = task.blocks
    OBVIOUS
  <2>2. PICK blocks : blocks = With(f.blocks, more)
    OBVIOUS
  <2>3. PICK g : g = [f EXCEPT !.there = TRUE]
    OBVIOUS
  <2>4. PICK h : h = [g EXCEPT !.blocks = blocks]
    OBVIOUS
  <2>5. file' = [file EXCEPT ![task.q] = h] /\ Goto("redirect")
    BY <1>4, <2>1, <2>2, <2>3, <2>4 DEF WriteTarget, write_page, Fail
  <2>6. BlocksStep /\ RowsStep
    BY <1>1, SameBlocks, SameRows DEF WikiInv, Shapes
  <2>7. /\ DOMAIN blocks = DOMAIN f.blocks \cup DOMAIN more /\ blocks = [b \in DOMAIN blocks |-> blocks[b]]
        /\ \A b \in DOMAIN blocks : blocks[b] = IF b \in DOMAIN more THEN more[b] ELSE f.blocks[b]
    BY <2>2 DEF With
  <2>8. Marks(more) /\ DOMAIN more \subseteq Known \cup orphans /\ task.kind # "rename"
    BY <1>2, <2>1 DEF WikiInv, TaskInv, PlacesInv, Carries
  <2>9. ASSUME task.q \in Pages
        PROVE  IsPage(h) /\ Marks(h.blocks) /\ h.blocks = blocks
    <3>1. IsPage(f) /\ Marks(f.blocks)
      BY <1>2, <2>1, <2>9, PagesAreGood
    <3>2. IsPage(g)
      BY <2>3, <3>1, PageThere
    <3>3. h = [there |-> g.there, blocks |-> blocks, listed |-> g.listed, coverage |-> g.coverage, digest |-> g.digest]
      BY <2>4, <3>2 DEF IsPage
    <3>4. IsBlocks(blocks)
      BY <2>7, <2>8, <3>1 DEF IsBlocks, Marks
    <3>5. Marks(blocks)
      BY <2>7, <2>8, <3>1, <3>4 DEF Marks, Old
    <3> QED  BY <3>3, <3>4, <3>5 DEF IsPage
  <2>10. FilesGood
    BY <1>2, <2>5, <2>9, OneFileGood
  <2>11. /\ \A p \in Pages \ {task.q} : file'[p] = file[p]
         /\ task.q \in Pages => file'[task.q] = h
    BY <2>5 DEF WikiInv, Shapes, FileShape
  <2>12. \A p \in Pages : DOMAIN file'[p].blocks \subseteq Known' \cup orphans'
    <3>1. \A p \in Pages : On(p) \subseteq Known \cup orphans
      BY <1>2 DEF WikiInv, PlacesInv, Writing
    <3> QED  BY <1>1, <2>1, <2>6, <2>7, <2>8, <2>9, <2>11, <3>1 DEF On, BlocksStep
  <2>13. KeepsTexts
    <3>1. ASSUME NEW b \in Blocks, b \notin Moved, NEW t \in TextOf(b)
          PROVE  t \in TextOf(b)'
      <4>1. PICK p \in Pages : b \in On(p) /\ t = file[p].blocks[b].text
        BY <3>1 DEF TextOf
      <4>2. b \in DOMAIN file'[p].blocks /\ file'[p].blocks[b].text = t
        BY <2>1, <2>7, <2>9, <2>11, <3>1, <4>1 DEF On, Moved
      <4> QED  BY <4>2 DEF TextOf, On
    <3> QED  BY <1>1, <3>1 DEF KeepsTexts
  <2> QED  BY <1>1, <2>5, <2>6, <2>8, <2>10, <2>12, <2>13, MergingStep
<1> QED  BY <1>3, <1>4

(* An empty page.                                                          *)
LEMMA StubIsGood ==
    IsPage(Stub) /\ Marks(Stub.blocks) /\ DOMAIN Stub.blocks = {}
<1>1. IsPage(NoFile) /\ NoFile.blocks = NoBlocks
  BY DEF NoFile, NoBlocks, IsPage, IsBlocks
<1>2. IsPage(Stub) /\ Stub.blocks = NoBlocks
  BY <1>1, PageThere DEF Stub
<1> QED  BY <1>2 DEF IsPage, Marks, Old, NoBlocks

(* A page becomes a redirect; one that is renamed is in memory.            *)
LEMMA _write_redirect_stubStep ==
    ASSUME WikiInv, _write_redirect_stub, UNCHANGED <<late, spent>>
    PROVE  WikiInv' /\ KeepsTexts
<1>1. /\ Merging("redirect") /\ UNCHANGED <<block, rows, head, orphans>> /\ Goto("register")
      /\ file' = [file EXCEPT ![task.p] = Stub]
  BY DEF _write_redirect_stub, historyVars
<1>2. /\ task # Idle /\ ~At("run", "create") /\ task.op \in {"apply", "taxonomy"} /\ task.at = "redirect"
      /\ {"op", "at"} \subseteq DOMAIN task
      /\ task.op = "taxonomy" => {"kind", "q"} \subseteq DOMAIN task /\ task.q \in Pages
  BY <1>1, MergingBusy
<1>3. BlocksStep /\ RowsStep
  BY <1>1, SameBlocks, SameRows DEF WikiInv, Shapes
<1>4. FilesGood
  BY <1>1, <1>2, StubIsGood, OneFileGood
<1>5. \A p \in Pages : DOMAIN file'[p].blocks \subseteq Known' \cup orphans'
  <2>1. \A p \in Pages : On(p) \subseteq Known \cup orphans
    BY <1>2 DEF WikiInv, PlacesInv, Writing
  <2>2. \A p \in Pages : file'[p] \in {file[p], Stub}
    BY <1>1 DEF WikiInv, Shapes, FileShape
  <2> QED  BY <1>1, <1>3, <2>1, <2>2, StubIsGood DEF On, BlocksStep
<1>6. KeepsTexts
  BY <1>1 DEF KeepsTexts
<1>7. CASE ~Renames
  BY <1>1, <1>2, <1>3, <1>4, <1>5, <1>6, <1>7, MergingStep DEF Renames
<1>8. CASE Renames
  <2>1. /\ "moved" \in DOMAIN task /\ IsPage(task.moved) /\ Marks(task.moved.blocks)
        /\ DOMAIN task.moved.blocks \subseteq Known \cup orphans /\ task.op = "taxonomy" /\ task.kind = "rename"
    BY <1>8 DEF WikiInv, TaskInv, PlacesInv, Renames
  <2>2. /\ DOMAIN task' = DOMAIN task /\ task'.at = "register" /\ task'.op = task.op
        /\ \A x \in DOMAIN task \ {"at"} : task'[x] = task[x]
    BY <1>1, <1>2, GotoTask DEF WikiInv
  <2>3. task'["moved"] = task["moved"] /\ task'["kind"] = task["kind"] /\ task'["q"] = task["q"]
    BY <1>2, <2>1, <2>2
  <2>4. Marks(task.moved.blocks)'
    BY <2>1, <2>3 DEF Marks, Old
  <2>5. Known' = Known /\ IdsInv' /\ BlockShape' /\ RowShape'
    BY <1>1, <1>3, IdsStay DEF WikiInv, BlocksStep, RowsStep
  <2>6. TaskInv' /\ PlacesInv' /\ NextInv' /\ RowInv'
    BY <1>1, <1>2, <1>5, <2>1, <2>2, <2>3, <2>4, <2>5, RenameTask
  <2> QED  BY <1>1, <1>2, <1>4, <1>6, <2>5, <2>6, FilesStep, AllParts
<1> QED  BY <1>7, <1>8

(* What becomes of the blocks of pages that are not written.               *)
LEMMA SamePlaces ==
    ASSUME WikiInv, task # Idle, ~At("run", "create"), FilesKept, BlocksStep, UNCHANGED orphans
    PROVE  FilesGood /\ KeepsTexts /\ \A p \in Pages : DOMAIN file'[p].blocks \subseteq Known' \cup orphans'
  BY KeptGood, KeptPlaces, KeptTexts, StayingTexts DEF WikiInv, BlocksStep

(* The blocks are committed where they have gone, and the page.            *)
LEMMA RegisterMergeStep ==
    ASSUME WikiInv, RegisterMerge, UNCHANGED <<late, spent>>
    PROVE  WikiInv' /\ KeepsTexts
<1>1. /\ Merging("register") /\ UNCHANGED <<file, rows, head, orphans>> /\ Goto("rows")
      /\ block' = [b \in Blocks |-> Rehome(b)]
  BY DEF RegisterMerge, historyVars
<1>2. task # Idle /\ ~At("run", "create")
  BY <1>1, MergingBusy
<1>3. BlocksStep /\ RowsStep /\ FilesKept
  BY <1>1, RehomedStep, SameRows, SameFiles DEF WikiInv, Shapes
<1> QED  BY <1>1, <1>2, <1>3, SamePlaces, MergingStep

(* Rows go with the page, those about two pages excepted.                  *)
LEMMA MoveRowsStep ==
    ASSUME WikiInv, MoveRows, UNCHANGED <<late, spent>>
    PROVE  WikiInv' /\ KeepsTexts
<1>1. Merging("rows") /\ UNCHANGED <<file, block, head, orphans>> /\ Ends("refresh")
  BY DEF MoveRows, historyVars
<1>2. /\ task # Idle /\ ~At("run", "create") /\ task.op \in {"apply", "taxonomy"} /\ task.at = "rows"
      /\ {"op", "at"} \subseteq DOMAIN task
      /\ task.op = "apply" => ReadInv /\ {"d", "read"} \subseteq DOMAIN task
  BY <1>1, MergingBusy
<1>3. RowsStep
  <2>1. ASSUME NEW r \in Rows
        PROVE  /\ IsRow(rows'[r]) /\ rows'[r].candidate = rows[r].candidate
               /\ rows'[r].existing = rows[r].existing /\ rows'[r].peer = rows[r].peer
    <3>1. IsRow(rows[r])
      BY <2>1 DEF WikiInv, Shapes, RowShape
    <3>2. \/ rows'[r] = rows[r]
          \/ rows'[r] = [rows[r] EXCEPT !.page = task.q] /\ rows[r].peer = "none"
      BY <2>1 DEF MoveRows, IsTaxonomy
    <3>3. [rows[r] EXCEPT !.page = task.q] =
          [page |-> task.q, existing |-> rows[r].existing, peer |-> rows[r].peer, applied |-> rows[r].applied, candidate |-> rows[r].candidate]
      BY <3>1 DEF IsRow
    <3> QED  BY <3>1, <3>2, <3>3 DEF IsRow
  <2>2. DOMAIN rows' = Rows
    BY DEF MoveRows
  <2> QED  BY <2>1, <2>2 DEF RowsStep, RowShape, Rows
<1>4. BlocksStep /\ FilesKept
  BY <1>1, SameBlocks, SameFiles DEF WikiInv, Shapes
<1>5. CASE task.op = "apply"
  <2>1. PICK changed : task' = [task EXCEPT !.at = "applied", !.changed = changed]
    BY <1>1, <1>5 DEF Ends
  <2>2. GoesOn /\ task'.at = "applied"
    BY <1>2, <1>5, <2>1 DEF GoesOn
  <2> QED  BY <1>1, <1>2, <1>3, <1>4, <1>5, <2>2, DecisionStep
<1>6. CASE task.op = "taxonomy"
  <2>1. Goto("refresh")
    BY <1>1, <1>6 DEF Ends, Goto
  <2> QED  BY <1>1, <1>2, <1>3, <1>4, <2>1, SamePlaces, MergingStep
<1> QED  BY <1>2, <1>5, <1>6

(* The page is written under its new name.                                 *)
LEMMA RegisterRenameStep ==
    ASSUME WikiInv, RegisterRename, UNCHANGED <<late, spent>>
    PROVE  WikiInv' /\ KeepsTexts
<1>1. /\ At("taxonomy", "register") /\ task.kind = "rename" /\ UNCHANGED <<block, rows, head, orphans>> /\ Goto("refresh")
      /\ file' = [file EXCEPT ![task.p] = task.moved]
  BY DEF RegisterRename, historyVars
<1>2. task # Idle /\ ~At("run", "create") /\ task.op = "taxonomy" /\ Merging("register") /\ Renames
  BY <1>1, AtBusy DEF At, Merging, Renames
<1>3. BlocksStep /\ RowsStep
  BY <1>1, SameBlocks, SameRows DEF WikiInv, Shapes
<1>4. PICK f : f = task.moved
  OBVIOUS
<1>5. IsPage(f) /\ Marks(f.blocks) /\ DOMAIN f.blocks \subseteq Known \cup orphans
  BY <1>2, <1>4 DEF WikiInv, TaskInv, PlacesInv
<1>6. FilesGood
  BY <1>1, <1>2, <1>4, <1>5, OneFileGood
<1>7. \A p \in Pages : DOMAIN file'[p].blocks \subseteq Known' \cup orphans'
  <2>1. \A p \in Pages : On(p) \subseteq Known \cup orphans
    BY <1>2 DEF WikiInv, PlacesInv, Writing
  <2>2. \A p \in Pages : file'[p] \in {file[p], f}
    BY <1>1, <1>4 DEF WikiInv, Shapes, FileShape
  <2> QED  BY <1>1, <1>3, <1>5, <2>1, <2>2 DEF On, BlocksStep
<1>8. KeepsTexts
  BY <1>2 DEF KeepsTexts
<1> QED  BY <1>1, <1>2, <1>3, <1>6, <1>7, <1>8, MergingStep

(* The page that is split loses the blocks, which are in memory.           *)
LEMMA WriteSourceStep ==
    ASSUME WikiInv, WriteSource, UNCHANGED <<late, spent>>
    PROVE  WikiInv' /\ KeepsTexts
<1>1. At("taxonomy", "source") /\ UNCHANGED <<block, rows, head, orphans>>
  BY DEF WriteSource
<1>2. task # Idle /\ ~At("run", "create") /\ task.op = "taxonomy" /\ task.at = "source"
  BY <1>1, AtBusy DEF At
<1>3. CASE task' = Idle /\ UNCHANGED file
  BY <1>1, <1>2, <1>3, FailStep
<1>4. CASE ~(task' = Idle /\ UNCHANGED file)
  <2>1. PICK f : f = file[task.p]
    OBVIOUS
  <2>2. PICK blocks : blocks = [b \in DOMAIN f.blocks \ Moved |-> f.blocks[b]]
    OBVIOUS
  <2>3. PICK g : g = [f EXCEPT !.blocks = blocks]
    OBVIOUS
  <2>4. file' = [file EXCEPT ![task.p] = g] /\ Goto("new")
    BY <1>4, <2>1, <2>2, <2>3 DEF WriteSource, write_page, Fail, Restrict
  <2>5. BlocksStep /\ RowsStep
    BY <1>1, SameBlocks, SameRows DEF WikiInv, Shapes
  <2>6. IdsInv' /\ Known' = Known /\ BlockShape' /\ RowShape'
    BY <1>1, <2>5, IdsStay DEF WikiInv, SameIds, BlocksStep, RowsStep
  <2>7. ASSUME task.p \in Pages
        PROVE  IsPage(g) /\ Marks(g.blocks) /\ g.blocks = blocks
    <3>1. IsPage(f) /\ Marks(f.blocks)
      BY <1>2, <2>1, <2>7, PagesAreGood
    <3>2. g = [there |-> f.there, blocks |-> blocks, listed |-> f.listed, coverage |-> f.coverage, digest |-> f.digest]
      BY <2>3, <3>1 DEF IsPage
    <3>3. IsBlocks(blocks) /\ Marks(blocks)
      BY <2>2, <3>1 DEF Marks, Old, IsBlocks
    <3> QED  BY <3>2, <3>3 DEF IsPage
  <2>8. FilesInv'
    BY <1>1, <1>2, <2>4, <2>7, OneFileGood, FilesStep
  <2>9. /\ \A p \in Pages \ {task.p} : file'[p] = file[p]
        /\ task.p \in Pages => file'[task.p] = g
    BY <2>4 DEF WikiInv, Shapes, FileShape
  <2>10. \A p \in Pages : DOMAIN file'[p].blocks \subseteq Known' \cup orphans'
    <3>1. \A p \in Pages : On(p) \subseteq Known \cup orphans
      BY <1>2 DEF WikiInv, PlacesInv, Writing
    <3> QED  BY <1>1, <2>1, <2>2, <2>6, <2>7, <2>9, <3>1 DEF On
  <2>11. /\ {"op", "at", "kind", "p", "q", "blocks"} \subseteq DOMAIN task /\ task.kind # "rename" /\ task.q \in Pages
         /\ Marks(task.blocks) /\ DOMAIN task.blocks \subseteq Known \cup orphans
    BY <1>2 DEF WikiInv, TaskInv, PlacesInv, Carries
  <2>12. /\ DOMAIN task' = DOMAIN task /\ task'.at = "new" /\ task'.op = "taxonomy"
         /\ \A x \in DOMAIN task \ {"at"} : task'[x] = task[x]
    BY <1>2, <2>4, GotoTask DEF WikiInv
  <2>13. task'["kind"] = task["kind"] /\ task'["q"] = task["q"] /\ task'["blocks"] = task["blocks"]
    BY <2>11, <2>12
  <2>14. Marks(task.blocks)'
    BY <2>11, <2>13 DEF Marks, Old
  <2>15. TaskInv' /\ PlacesInv' /\ NextInv' /\ RowInv'
    BY <1>1, <2>6, <2>10, <2>11, <2>12, <2>13, <2>14, CarryTask
  <2>16. KeepsTexts
    BY <1>2 DEF KeepsTexts
  <2> QED  BY <2>6, <2>8, <2>15, <2>16, AllParts
<1> QED  BY <1>3, <1>4

(* The new page gets the blocks.                                           *)
LEMMA WriteNewStep ==
    ASSUME WikiInv, WriteNew, UNCHANGED <<late, spent>>
    PROVE  WikiInv' /\ KeepsTexts
<1>1. At("taxonomy", "new") /\ UNCHANGED <<block, rows, head, orphans>> /\ Goto("moves")
  BY DEF WriteNew, historyVars
<1>2. task # Idle /\ ~At("run", "create") /\ task.op = "taxonomy" /\ task.at = "new"
  BY <1>1, AtBusy DEF At
<1>3. /\ {"op", "at", "kind", "p", "q", "blocks"} \subseteq DOMAIN task /\ task.q \in Pages
      /\ Marks(task.blocks) /\ DOMAIN task.blocks \subseteq Known \cup orphans
  BY <1>2 DEF WikiInv, TaskInv, PlacesInv, Carries
<1>4. BlocksStep /\ RowsStep
  BY <1>1, SameBlocks, SameRows DEF WikiInv, Shapes
<1>5. PICK blocks : blocks = task.blocks
  OBVIOUS
<1>6. PICK g : g = [Stub EXCEPT !.blocks = blocks]
  OBVIOUS
<1>7. file' = [file EXCEPT ![task.q] = g]
  <2>1. [NoFile EXCEPT !.there = TRUE, !.blocks = blocks] = [Stub EXCEPT !.blocks = blocks]
    BY DEF Stub
  <2> QED  BY <1>5, <1>6, <2>1 DEF WriteNew
<1>8. IsPage(g) /\ g.blocks = blocks
  <2>1. g = [there |-> Stub.there, blocks |-> blocks, listed |-> Stub.listed, coverage |-> Stub.coverage, digest |-> Stub.digest]
    BY <1>6, StubIsGood DEF IsPage
  <2> QED  BY <1>3, <1>5, <2>1 DEF IsPage, Marks
<1>9. FilesGood
  BY <1>2, <1>3, <1>5, <1>7, <1>8, OneFileGood
<1>10. \A p \in Pages : DOMAIN file'[p].blocks \subseteq Known' \cup orphans'
  <2>1. \A p \in Pages : On(p) \subseteq Known \cup orphans
    BY <1>2 DEF WikiInv, PlacesInv, Writing
  <2>2. \A p \in Pages : file'[p] \in {file[p], g}
    BY <1>7 DEF WikiInv, Shapes, FileShape
  <2> QED  BY <1>1, <1>3, <1>4, <1>5, <1>8, <2>1, <2>2 DEF On, BlocksStep
<1>11. Plain'
  <2>1. /\ DOMAIN task' = DOMAIN task /\ task'.at = "moves" /\ task'.op = "taxonomy"
        /\ \A x \in DOMAIN task \ {"at"} : task'[x] = task[x]
    BY <1>1, <1>2, GotoTask DEF WikiInv
  <2>2. task'["q"] = task["q"]
    BY <1>3, <2>1
  <2> QED  BY <1>3, <2>1, <2>2 DEF Plain
<1>12. IdsInv' /\ BlockShape' /\ RowShape'
  BY <1>1, <1>4, IdsStay DEF WikiInv, BlocksStep, RowsStep
<1>13. KeepsTexts
  BY <1>2 DEF KeepsTexts
<1> QED  BY <1>1, <1>2, <1>9, <1>10, <1>11, <1>12, <1>13, FilesStep, PlainTask, AllParts

(* The blocks are committed where they have gone, and their rows.          *)
LEMMA CommitMovesStep ==
    ASSUME WikiInv, CommitMoves, UNCHANGED <<late, spent>>
    PROVE  WikiInv' /\ KeepsTexts
<1>1. /\ At("taxonomy", "moves") /\ UNCHANGED <<file, head, orphans>> /\ Goto("refresh")
      /\ block' = [b \in Blocks |-> Rehome(b)]
  BY DEF CommitMoves, historyVars
<1>2. task # Idle /\ ~At("run", "create") /\ task.op = "taxonomy" /\ Merging("moves")
  BY <1>1, AtBusy DEF At, Merging
<1>3. task.q \in Pages
  BY <1>2 DEF WikiInv, TaskInv
<1>4. RowsStep
  <2>1. ASSUME NEW r \in Rows
        PROVE  /\ IsRow(rows'[r]) /\ rows'[r].candidate = rows[r].candidate
               /\ rows'[r].existing = rows[r].existing /\ rows'[r].peer = rows[r].peer
    <3>1. IsRow(rows[r])
      BY <2>1 DEF WikiInv, Shapes, RowShape
    <3>2. rows'[r] = rows[r] \/ rows'[r] = [rows[r] EXCEPT !.page = task.q]
      BY <2>1 DEF CommitMoves
    <3>3. [rows[r] EXCEPT !.page = task.q] =
          [page |-> task.q, existing |-> rows[r].existing, peer |-> rows[r].peer, applied |-> rows[r].applied, candidate |-> rows[r].candidate]
      BY <3>1 DEF IsRow
    <3> QED  BY <1>3, <3>1, <3>2, <3>3 DEF IsRow
  <2>2. DOMAIN rows' = Rows
    BY DEF CommitMoves
  <2> QED  BY <2>1, <2>2 DEF RowsStep, RowShape, Rows
<1>5. BlocksStep /\ FilesKept
  BY <1>1, RehomedStep, SameFiles DEF WikiInv, Shapes
<1> QED  BY <1>1, <1>2, <1>4, <1>5, SamePlaces, MergingStep

(* What is open is listed again.                                           *)
LEMMA _refresh_derived_pagesStep ==
    ASSUME WikiInv, _refresh_derived_pages, UNCHANGED <<late, spent>>
    PROVE  WikiInv' /\ KeepsTexts
<1>1. At("taxonomy", "refresh") /\ UNCHANGED <<block, rows, head, orphans>> /\ Goto("render")
  BY DEF _refresh_derived_pages, historyVars
<1>2. /\ task # Idle /\ ~At("run", "create") /\ task.op = "taxonomy"
      /\ {"op", "at", "kind", "q"} \subseteq DOMAIN task /\ task.q \in Pages
  BY <1>1, AtBusy DEF At, WikiInv, TaskInv
<1>3. BlocksStep /\ RowsStep
  BY <1>1, SameBlocks, SameRows DEF WikiInv, Shapes
<1>4. ASSUME NEW p \in Pages
      PROVE  Kept(file[p], file'[p])
  <2>1. IsPage(file[p])
    BY <1>4 DEF WikiInv, Shapes, FileShape
  <2>2. file'[p] \in {file[p], List(file[p], p)}
    BY <1>4 DEF _refresh_derived_pages
  <2> QED  BY <2>1, <2>2, KeptGenerated, KeptList
<1>5. FilesKept
  BY <1>4 DEF FilesKept, _refresh_derived_pages
<1>6. Plain'
  <2>1. /\ DOMAIN task' = DOMAIN task /\ task'.at = "render" /\ task'.op = "taxonomy"
        /\ \A x \in DOMAIN task \ {"at"} : task'[x] = task[x]
    BY <1>1, <1>2, GotoTask DEF WikiInv
  <2>2. task'["q"] = task["q"]
    BY <1>2, <2>1
  <2> QED  BY <1>2, <2>1, <2>2 DEF Plain
<1> QED  BY <1>1, <1>2, <1>3, <1>5, <1>6, QuietStep

--------------------------------------------------------------------------------
(* What happens beside the operations.                                     *)

(* Marks are as good when more has happened.                               *)
LEMMA MarksStay ==
    ASSUME NEW f, Marks(f), late \subseteq late', spent \in Nat, spent' \in Nat, spent <= spent'
    PROVE  IsBlocks(f) /\ \A b \in DOMAIN f : f[b].text <= spent' /\ (b \notin late' => Fine(f[b]))
<1>1. IsBlocks(f)
  BY DEF Marks
<1>2. ASSUME NEW b \in DOMAIN f
      PROVE  f[b].text <= spent'
  <2>1. f[b].text \in Nat
    BY <1>1, <1>2 DEF IsBlocks, IsBlock
  <2>2. f[b].text <= spent
    BY <1>2 DEF Marks, Old
  <2> QED  BY <2>1, <2>2
<1>3. ASSUME NEW b \in DOMAIN f, b \notin late'
      PROVE  Fine(f[b])
  BY <1>3 DEF Marks
<1> QED  BY <1>1, <1>2, <1>3

(* The operation is where it was.                                          *)
LEMMA TaskStays ==
    ASSUME TaskInv, UNCHANGED task, late \subseteq late', spent \in Nat, spent' \in Nat, spent <= spent'
    PROVE  TaskInv'
<1>1. task = Idle \/ (task.op \in {"run", "apply", "taxonomy"} /\ {"op", "at"} \subseteq DOMAIN task)
  BY DEF TaskInv
<1>2. ASSUME Carries
      PROVE  {"kind", "p", "q", "blocks"} \subseteq DOMAIN task /\ task.kind # "rename" /\ Marks(task.blocks)'
  <2>1. Marks(task.blocks)
    BY <1>2 DEF TaskInv
  <2>2. IsBlocks(task.blocks) /\ \A b \in DOMAIN task.blocks : task.blocks[b].text <= spent' /\ (b \notin late' => Fine(task.blocks[b]))
    BY <2>1, MarksStay
  <2>3. PICK f : f = task.blocks
    OBVIOUS
  <2>4. IsBlocks(f) /\ \A b \in DOMAIN f : f[b].text <= spent' /\ (b \notin late' => Fine(f[b]))
    BY <2>2, <2>3
  <2>5. task'.blocks = f
    BY <2>3
  <2>6. Marks(task.blocks)'
    BY <2>4, <2>5 DEF Marks, Old, Fine
  <2> QED  BY <1>2, <2>6 DEF TaskInv
<1>3. ASSUME Renames
      PROVE  "moved" \in DOMAIN task /\ IsPage(task.moved) /\ Marks(task.moved.blocks)'
  <2>1. Marks(task.moved.blocks)
    BY <1>3 DEF TaskInv
  <2>2. PICK f : f = task.moved.blocks
    OBVIOUS
  <2>3. IsBlocks(f) /\ \A b \in DOMAIN f : f[b].text <= spent' /\ (b \notin late' => Fine(f[b]))
    BY <2>1, <2>2, MarksStay
  <2>4. task'.moved.blocks = f
    BY <2>2
  <2>5. Marks(task.moved.blocks)'
    BY <2>3, <2>4 DEF Marks, Old, Fine
  <2> QED  BY <1>3, <2>5 DEF TaskInv
<1>4. task.op = "taxonomy" => {"kind", "q"} \subseteq DOMAIN task /\ task.q \in Pages
  BY DEF TaskInv
<1> QED  BY <1>1, <1>2, <1>3, <1>4 DEF TaskInv, Carries, Renames

(* No block and no row comes, and none goes from a page.                   *)
LEMMA AsideStep ==
    ASSUME WikiInv, UNCHANGED <<task, head, rows, orphans>>, BlocksStep, FileShape', PagesInv',
           \A p \in Pages : DOMAIN file'[p].blocks = On(p),
           late \subseteq late', spent' \in Nat, spent <= spent'
    PROVE  WikiInv' /\ KeepsTexts
<1>1. RowsStep
  BY SameRows DEF WikiInv, Shapes
<1>2. IdsInv' /\ SameIds
  BY <1>1, IdsStay DEF WikiInv
<1>3. HeadShape' /\ FilesInv'
  BY DEF FilesInv, HeadShape, WikiInv, Shapes
<1>4. TaskInv'
  BY TaskStays DEF WikiInv, Shapes
<1>5. Known' = Known /\ NextBlock' = NextBlock /\ Writing' = Writing
  BY <1>2 DEF SameIds, Writing, At
<1>6. PlacesInv'
  <2>1. PlacesInv
    BY DEF WikiInv
  <2>2. Carries' = Carries /\ Renames' = Renames
    BY DEF Carries, Renames
  <2>3. \A p \in Pages : On(p)' \subseteq Known' \cup orphans' \cup Writing'
    BY <1>5, <2>1 DEF PlacesInv, On
  <2> QED  BY <1>5, <2>1, <2>2, <2>3 DEF PlacesInv
<1>7. NextInv'
  BY <1>5 DEF WikiInv, NextInv
<1>8. RowInv'
  <2>1. RowInv
    BY DEF WikiInv
  <2>2. Takes' = Takes /\ ReadInv' = ReadInv
    BY DEF Takes, IsStale, IsTaxonomy, ReadInv, Rows
  <2>3. \A p \in Pages : On(p)' = On(p)
    BY DEF On
  <2> QED  BY <1>5, <2>1, <2>2, <2>3 DEF RowInv
<1>9. KeepsTexts
  BY DEF KeepsTexts
<1> QED  BY <1>1, <1>2, <1>3, <1>4, <1>6, <1>7, <1>8, <1>9, AllParts DEF BlocksStep, RowsStep

(* The user edits a block: it differs from the one of the last commit, or  *)
(* is one of those that are edited late.                                   *)
LEMMA EditBlockStep ==
    ASSUME WikiInv, NEW p \in Pages, NEW b \in Blocks, EditBlock(p, b)
    PROVE  WikiInv' /\ KeepsTexts
<1> DEFINE n == spent + 1
           v == [file[p].blocks[b] EXCEPT !.text = n]
           blocks == [file[p].blocks EXCEPT ![b] = v]
           f == [file[p] EXCEPT !.blocks = blocks]
<1>1. /\ b \in On(p) /\ UNCHANGED <<task, head, rows, orphans, block>>
      /\ file' = [file EXCEPT ![p] = f]
      /\ late' = IF task # Idle \/ b \notin DOMAIN head[p] THEN late \cup {b} ELSE late
  BY DEF EditBlock
<1>2. spent \in Nat /\ spent' = spent + 2
  BY DEF EditBlock, Spend, WikiInv, Shapes
<1>3. n \in Nat /\ spent' \in Nat /\ spent <= spent' /\ n <= spent' /\ ~(n <= spent)
  BY <1>2
<1>4. IsPage(file[p]) /\ DOMAIN file = Pages
  BY DEF WikiInv, Shapes, FileShape
<1> HIDE DEF n
<1>5. IsBlock(v) /\ v.text = n
  <2>1. IsBlock(file[p].blocks[b])
    BY <1>1, <1>4 DEF IsPage, IsBlocks, On
  <2> QED  BY <1>3, <2>1 DEF IsBlock
<1> HIDE DEF v
<1>6. /\ IsBlocks(blocks) /\ DOMAIN blocks = On(p) /\ blocks[b] = v
      /\ \A c \in On(p) \ {b} : blocks[c] = file[p].blocks[c]
  <2>1. IsBlocks(file[p].blocks)
    BY <1>4 DEF IsPage
  <2> QED  BY <1>1, <1>5, <2>1 DEF IsBlocks, On
<1> HIDE DEF blocks
<1>7. IsPage(f) /\ f.blocks = blocks
  <2>1. f = [there |-> file[p].there, blocks |-> blocks, listed |-> file[p].listed, coverage |-> file[p].coverage, digest |-> file[p].digest]
    BY <1>4 DEF IsPage
  <2> QED  BY <1>6, <2>1 DEF IsPage
<1> HIDE DEF f
<1>8. DOMAIN file' = Pages /\ file'[p].blocks = blocks /\ \A q \in Pages \ {p} : file'[q] = file[q]
  BY <1>1, <1>4, <1>7
<1>9. FileShape'
  BY <1>1, <1>4, <1>7, <1>8 DEF WikiInv, Shapes, FileShape
<1>10. \A q \in Pages : DOMAIN file'[q].blocks = On(q)
  BY <1>6, <1>8 DEF On
<1>11. late \subseteq late'
  BY <1>1
<1>12. PagesInv'
  <2> SUFFICES ASSUME NEW q \in Pages
               PROVE  /\ Marks(head[q])' /\ Old(file[q].blocks)'
                      /\ \A c \in On(q)' \ late' :
                            \/ Fine(file[q].blocks[c])'
                            \/ task' = Idle /\ c \in DOMAIN head'[q] /\ file'[q].blocks[c] # head'[q][c]
    BY DEF PagesInv
  <2>1. Marks(head[q]) /\ Old(file[q].blocks) /\ IsPage(file[q])
    BY DEF WikiInv, PagesInv, Shapes, FileShape
  <2>2. Marks(head[q])'
    BY <1>1, <1>2, <1>3, <1>11, <2>1, MarksStay DEF Marks, Old
  <2>3. ASSUME NEW c \in On(q)
        PROVE  file[q].blocks[c].text \in Nat /\ file[q].blocks[c].text <= spent'
    <3>1. file[q].blocks[c].text \in Nat
      BY <2>1, <2>3 DEF IsPage, IsBlocks, IsBlock, On
    <3>2. file[q].blocks[c].text <= spent
      BY <2>1, <2>3 DEF Old, On
    <3> QED  BY <1>2, <3>1, <3>2
  <2>4. ASSUME NEW c \in DOMAIN file'[q].blocks, q # p \/ c # b
        PROVE  file'[q].blocks[c] = file[q].blocks[c] /\ c \in On(q)
    BY <1>6, <1>8, <2>4 DEF On
  <2>5. Old(file[q].blocks)'
    <3> SUFFICES ASSUME NEW c \in DOMAIN file'[q].blocks
                 PROVE  file'[q].blocks[c].text <= spent'
      BY DEF Old
    <3>1. CASE q = p /\ c = b
      BY <1>3, <1>5, <1>6, <1>8, <3>1
    <3>2. CASE q # p \/ c # b
      BY <2>3, <2>4, <3>2
    <3> QED  BY <3>1, <3>2
  <2>6. ASSUME NEW c \in DOMAIN file'[q].blocks, c \notin late'
        PROVE  \/ Fine(file[q].blocks[c])'
               \/ task' = Idle /\ c \in DOMAIN head'[q] /\ file'[q].blocks[c] # head'[q][c]
    <3>1. CASE q = p /\ c = b
      <4>1. task = Idle /\ b \in DOMAIN head[p]
        BY <1>1, <2>6, <3>1
      <4>2. head[p][b].text <= spent
        BY <2>1, <3>1, <4>1 DEF Marks, Old
      <4>3. file'[p].blocks[b].text = n
        BY <1>5, <1>6, <1>8
      <4> QED  BY <1>1, <1>3, <3>1, <4>1, <4>2, <4>3
    <3>2. CASE q # p \/ c # b
      <4>1. file'[q].blocks[c] = file[q].blocks[c] /\ c \in On(q) \ late
        BY <1>11, <2>4, <2>6, <3>2
      <4>2. Fine(file[q].blocks[c]) \/ (task = Idle /\ c \in DOMAIN head[q] /\ file[q].blocks[c] # head[q][c])
        BY <4>1 DEF WikiInv, PagesInv
      <4> QED  BY <1>1, <4>1, <4>2 DEF Fine
    <3> QED  BY <3>1, <3>2
  <2> QED  BY <2>2, <2>5, <2>6 DEF On
<1>13. BlocksStep
  BY <1>1, SameBlocks DEF WikiInv, Shapes
<1> QED  BY <1>1, <1>3, <1>9, <1>10, <1>11, <1>12, <1>13, AsideStep

(* A block loses its evidence: its file shows nothing of it yet.           *)
LEMMA flag_blocks_with_only_superseded_chunksStep ==
    ASSUME WikiInv, NEW b \in Blocks, flag_blocks_with_only_superseded_chunks(b)
    PROVE  WikiInv' /\ KeepsTexts
<1>1. /\ task = Idle /\ UNCHANGED <<file, rows, head, task, orphans, late>>
      /\ block[b].status \in {"current", "conflicted", "deprecated"}
      /\ block' = [block EXCEPT ![b].status = "needs_review"]
  BY DEF flag_blocks_with_only_superseded_chunks
<1>2. spent \in Nat /\ spent' = spent + 2
  BY DEF flag_blocks_with_only_superseded_chunks, Spend, WikiInv, Shapes
<1>3. spent' \in Nat /\ spent <= spent'
  BY <1>2
<1>4. BlocksStep
  <2>1. b \in Known
    BY <1>1 DEF Known
  <2> QED  BY <1>1, <2>1, StatusStep DEF WikiInv, Shapes
<1>5. FileShape' /\ \A p \in Pages : DOMAIN file'[p].blocks = On(p)
  BY <1>1 DEF WikiInv, Shapes, FileShape, On
<1>6. PagesInv'
  <2> SUFFICES ASSUME NEW p \in Pages
               PROVE  Marks(head[p])' /\ Old(file[p].blocks)'
    BY <1>1 DEF WikiInv, PagesInv, On, Fine
  <2>1. Marks(head[p]) /\ Old(file[p].blocks) /\ IsPage(file[p])
    BY DEF WikiInv, PagesInv, Shapes, FileShape
  <2>2. Marks(head[p])'
    BY <1>1, <1>2, <1>3, <2>1, MarksStay DEF Marks, Old
  <2>3. ASSUME NEW c \in On(p)
        PROVE  file[p].blocks[c].text <= spent'
    <3>1. file[p].blocks[c].text \in Nat /\ file[p].blocks[c].text <= spent
      BY <2>1, <2>3 DEF IsPage, IsBlocks, IsBlock, On, Old
    <3> QED  BY <1>2, <3>1
  <2> QED  BY <1>1, <2>2, <2>3 DEF Old, On
<1> QED  BY <1>1, <1>3, <1>4, <1>5, <1>6, AsideStep

--------------------------------------------------------------------------------
(* The specification.                                                      *)

(* There is a page with one block, and nothing has been edited.            *)
LEMMA InitInv ==
    ASSUME Init
    PROVE  WikiInv
<1>1. First \in Pages /\ 1 \in Blocks
  BY WikiAssumption DEF Blocks
<1>2. PICK k : block = [b \in Blocks |-> IF b = 1 THEN [page |-> First, key |-> k, status |-> "current", edited |-> FALSE] ELSE Unknown]
  BY DEF Init
<1>3. PICK no \in BOOLEAN : no = FALSE
  OBVIOUS
<1>4. BlockShape /\ Known = {1}
  <2>1. ASSUME NEW b \in Blocks
        PROVE  IsBlockRow(block[b]) /\ (block[b].status # "unknown" <=> b = 1)
    BY <1>2, <2>1 DEF IsBlockRow, Unknown
  <2> QED  BY <1>1, <1>2, <2>1 DEF BlockShape, Known
<1>5. PICK v : v = Drafted(block[1].key, "current")
  OBVIOUS
<1>6. IsBlock(v) /\ v.text = 0
  BY <1>5 DEF IsBlock, Drafted
<1>7. PICK blocks : blocks = [b \in {1} |-> v]
  OBVIOUS
<1>8. IsBlocks(blocks) /\ DOMAIN blocks = {1} /\ blocks[1].text = 0
  BY <1>6, <1>7 DEF IsBlocks
<1>9. file = [p \in Pages |-> IF p = First THEN [Stub EXCEPT !.blocks = blocks] ELSE NoFile]
  BY <1>5, <1>7 DEF Init
<1>10. IsPage(Stub) /\ IsPage(NoFile) /\ NoFile.blocks = NoBlocks /\ IsBlocks(NoBlocks) /\ DOMAIN NoBlocks = {}
  <2>1. IsBlocks(NoBlocks) /\ DOMAIN NoBlocks = {}
    BY DEF IsBlocks, NoBlocks
  <2>2. NoFile = [there |-> FALSE, blocks |-> NoBlocks, listed |-> {}, coverage |-> NoBlocks, digest |-> {}]
    BY DEF NoFile
  <2>3. IsPage(NoFile) /\ NoFile.blocks = NoBlocks
    BY <2>1, <2>2 DEF IsPage
  <2>4. IsPage(Stub)
    BY <2>3, PageThere DEF Stub
  <2> QED  BY <2>1, <2>3, <2>4
<1>11. IsPage([Stub EXCEPT !.blocks = blocks]) /\ [Stub EXCEPT !.blocks = blocks].blocks = blocks
  <2>1. [Stub EXCEPT !.blocks = blocks] =
        [there |-> Stub.there, blocks |-> blocks, listed |-> Stub.listed, coverage |-> Stub.coverage, digest |-> Stub.digest]
    BY <1>10 DEF IsPage
  <2> QED  BY <1>8, <2>1 DEF IsPage
<1>12. /\ DOMAIN file = Pages
       /\ \A p \in Pages : IsPage(file[p]) /\ DOMAIN file[p].blocks \subseteq {1}
                           /\ \A b \in DOMAIN file[p].blocks : file[p].blocks[b].text = 0
  <2>1. ASSUME NEW p \in Pages
        PROVE  IsPage(file[p]) /\ (file[p].blocks = blocks \/ file[p].blocks = NoBlocks)
    BY <1>9, <1>10, <1>11
  <2> QED  BY <1>8, <1>9, <1>10, <2>1
<1>13. /\ head = [p \in Pages |-> file[p].blocks] /\ task = Idle /\ orphans = {} /\ spent = 0
       /\ rows = [r \in {} |-> 0]
  BY DEF Init
<1>14. Shapes
  BY <1>4, <1>12, <1>13 DEF Shapes, FileShape, HeadShape, RowShape, Rows, IsPage
<1>15. PagesInv
  <2> SUFFICES ASSUME NEW p \in Pages
               PROVE  Marks(file[p].blocks)
    BY <1>13 DEF PagesInv, Marks, On
  <2> QED  BY <1>12, <1>13 DEF Marks, Old, Fine, IsPage
<1>16. Rows = {} /\ Offered = {} /\ Taken = {1}
  BY <1>4, <1>13 DEF Rows, Offered, Taken
<1>17. IdsInv
  <2>1. {} = 1..0 /\ {1} = 1..1 /\ 0 \in Nat /\ 1 \in Nat
    OBVIOUS
  <2>2. Numbered(Rows) /\ Numbered(Taken)
    BY <1>16, <2>1 DEF Numbered
  <2> QED  BY <1>16, <2>2 DEF IdsInv
<1>18. TaskInv /\ PlacesInv /\ NextInv /\ RowInv
  <2>1. task.op = "idle" /\ ~Carries /\ ~Renames
    BY <1>13 DEF Idle, Carries, Renames
  <2>2. PlacesInv
    BY <1>4, <1>12, <2>1 DEF PlacesInv, On
  <2> QED  BY <1>13, <2>1, <2>2 DEF TaskInv, NextInv, RowInv
<1> QED  BY <1>14, <1>15, <1>17, <1>18 DEF WikiInv

(* Every step of a run is one of those above.                              *)
LEMMA RunStepInv ==
    ASSUME WikiInv, RunStep, IF task = Idle THEN Spend(2) ELSE UNCHANGED spent, UNCHANGED late
    PROVE  WikiInv' /\ KeepsTexts
<1>1. CASE StartRun
  BY <1>1, StartRunStep DEF StartRun
<1>2. CASE ~StartRun
  <2>1. PICK op \in {"run", "apply", "taxonomy"} : \E at : At(op, at)
    BY <1>2 DEF RunStep, PlaceClean, PlaceDuplicate, PlaceConflict, ReadPage, WriteBlock, WriteConflict, create_block,
        mark_placed, ReadMarked, apply_pending_conflict_marker, mark_conflicted_pending, TaxonomyRow,
        create_stale_block_reviews, ListStale, emit_review_file, Render, CommitWiki
  <2>2. UNCHANGED <<late, spent>>
    BY <2>1, AtBusy
  <2>3. ASSUME NEW cs \in SUBSET Chunks, NEW k \in Keys, NEW p \in Pages,
               PlaceClean(cs, k, p) \/ PlaceDuplicate(cs, k, p) \/ PlaceConflict(cs, k, p)
        PROVE  WikiInv' /\ KeepsTexts
    BY <2>2, <2>3, PlaceCleanStep, PlaceDuplicateStep, PlaceConflictStep
  <2>4. ASSUME NEW p \in Pages, NEW q \in Pages, TaxonomyRow(p, q)
        PROVE  WikiInv' /\ KeepsTexts
    BY <2>2, <2>4, TaxonomyRowStep
  <2>5. CASE ReadPage \/ WriteBlock \/ WriteConflict \/ create_block \/ mark_placed
    BY <2>2, <2>5, ReadPageStep, WriteBlockStep, WriteConflictStep, create_blockStep, mark_placedStep
  <2>6. CASE ReadMarked \/ apply_pending_conflict_marker \/ mark_conflicted_pending
    BY <2>2, <2>6, ReadMarkedStep, apply_pending_conflict_markerStep, mark_conflicted_pendingStep
  <2>7. CASE create_stale_block_reviews \/ ListStale \/ emit_review_file \/ Render \/ CommitWiki
    BY <2>2, <2>7, create_stale_block_reviewsStep, ListStaleStep, emit_review_fileStep, RenderStep, CommitWikiStep
  <2> QED  BY <1>2, <2>3, <2>4, <2>5, <2>6, <2>7 DEF RunStep
<1> QED  BY <1>1, <1>2

(* ... and of decisions.                                                   *)
LEMMA ApplyStepInv ==
    ASSUME WikiInv, ApplyStep, IF task = Idle THEN Spend(2) ELSE UNCHANGED spent, UNCHANGED late
    PROVE  WikiInv' /\ KeepsTexts
<1>1. CASE StartApply
  BY <1>1, StartApplyStep DEF StartApply
<1>2. CASE ~StartApply
  <2>1. PICK at : At("apply", at)
    BY <1>2 DEF ApplyStep, LoadPage, TurnToPages, UpdateStatus, CreateAccepted, _write_page, EmitFollowUp,
        _mark_applied, _finalize_candidate_dispositions, RefreshConflicts
  <2>2. UNCHANGED <<late, spent>>
    BY <2>1, AtBusy
  <2> QED  BY <1>2, <2>2, LoadPageStep, TurnToPagesStep, UpdateStatusStep, CreateAcceptedStep, _write_pageStep,
        EmitFollowUpStep, _mark_appliedStep, _finalize_candidate_dispositionsStep, RefreshConflictsStep DEF ApplyStep
<1> QED  BY <1>1, <1>2

(* ... and of taxonomy operations.                                         *)
LEMMA TaxonomyStepInv ==
    ASSUME WikiInv, TaxonomyStep, IF task = Idle THEN Spend(2) ELSE UNCHANGED spent, UNCHANGED late
    PROVE  WikiInv' /\ KeepsTexts
<1> DEFINE Starts == \/ \E p, q \in Pages : StartMerge(p, q) \/ StartSplit(p, q)
                     \/ \E p \in Pages : StartRename(p)
<1>1. CASE Starts
  <2>1. task = Idle
    BY <1>1 DEF StartMerge, StartSplit, StartRename, Start
  <2>2. Spend(2)
    BY <2>1
  <2> QED  BY <1>1, <2>2, StartMergeStep, StartSplitStep, StartRenameStep
<1>2. CASE MergeRow \/ WriteTarget \/ _write_redirect_stub \/ RegisterMerge \/ MoveRows \/ RegisterRename
           \/ WriteSource \/ WriteNew \/ CommitMoves \/ _refresh_derived_pages
  <2>1. task # Idle
    BY <1>2, MergingBusy, AtBusy DEF MergeRow, WriteTarget, _write_redirect_stub, RegisterMerge, MoveRows, RegisterRename,
        WriteSource, WriteNew, CommitMoves, _refresh_derived_pages
  <2>2. UNCHANGED <<late, spent>>
    BY <2>1
  <2>3. CASE MergeRow \/ WriteTarget \/ _write_redirect_stub \/ RegisterMerge \/ MoveRows \/ RegisterRename
    BY <2>2, <2>3, MergeRowStep, WriteTargetStep, _write_redirect_stubStep, RegisterMergeStep, MoveRowsStep, RegisterRenameStep
  <2>4. CASE WriteSource \/ WriteNew \/ CommitMoves \/ _refresh_derived_pages
    BY <2>2, <2>4, WriteSourceStep, WriteNewStep, CommitMovesStep, _refresh_derived_pagesStep
  <2> QED  BY <1>2, <2>3, <2>4
<1> QED  BY <1>1, <1>2 DEF TaxonomyStep

(* Nothing happens.                                                        *)
LEMMA StillStep ==
    ASSUME WikiInv, UNCHANGED vars
    PROVE  WikiInv'
<1>1. UNCHANGED <<file, block, rows, head, task, orphans, late, spent>>
  BY DEF vars, storeVars, historyVars
<1>2. BlocksStep /\ spent' \in Nat /\ spent <= spent' /\ late \subseteq late'
  BY <1>1, SameBlocks DEF WikiInv, Shapes
<1>3. FileShape' /\ \A p \in Pages : DOMAIN file'[p].blocks = On(p)
  BY <1>1 DEF WikiInv, Shapes, FileShape, On
<1>4. PagesInv'
  BY <1>1 DEF WikiInv, PagesInv, Marks, Old, Fine, On
<1> QED  BY <1>1, <1>2, <1>3, <1>4, AsideStep

(* A step keeps the invariant, and the texts of the user.                  *)
LEMMA NextStep ==
    ASSUME WikiInv, [Next]_vars
    PROVE  WikiInv' /\ [KeepsTexts]_vars
<1>1. CASE RunStep /\ (IF task = Idle THEN Spend(2) ELSE UNCHANGED spent) /\ UNCHANGED late
  BY <1>1, RunStepInv
<1>2. CASE ApplyStep /\ (IF task = Idle THEN Spend(2) ELSE UNCHANGED spent) /\ UNCHANGED late
  BY <1>2, ApplyStepInv
<1>3. CASE TaxonomyStep /\ (IF task = Idle THEN Spend(2) ELSE UNCHANGED spent) /\ UNCHANGED late
  BY <1>3, TaxonomyStepInv
<1>4. CASE \E p \in Pages, b \in Blocks : EditBlock(p, b)
  BY <1>4, EditBlockStep
<1>5. CASE \E b \in Blocks : flag_blocks_with_only_superseded_chunks(b)
  BY <1>5, flag_blocks_with_only_superseded_chunksStep
<1>6. CASE Kill
  BY <1>6, KillStep
<1>7. CASE UNCHANGED vars
  BY <1>7, StillStep
<1> QED  BY <1>1, <1>2, <1>3, <1>4, <1>5, <1>6, <1>7 DEF Next

(* The invariant holds always.                                             *)
LEMMA WikiAlways == Spec => []WikiInv
<1>1. Init => WikiInv
  BY InitInv
<1>2. WikiInv /\ [Next]_vars => WikiInv'
  BY NextStep
<1> QED  BY <1>1, <1>2, PTL DEF Spec

(* A text of the user's that is committed is flagged as the user's, unless *)
(* it was edited while an operation ran or before its block was committed: *)
(* an operation marks what differs from the last commit when it starts,    *)
(* and from then on carries the mark wherever it carries the text.         *)
THEOREM EditsAlwaysMarked == Spec => []EditsAreMarked
<1>1. WikiInv => EditsAreMarked
  BY DEF WikiInv, PagesInv, Marks, Fine, EditsAreMarked
<1> QED  BY <1>1, WikiAlways, PTL

(* No step of a run or of decisions loses a text of the user's: a new      *)
(* block gets an id that no page shows, and a write is of the page that    *)
(* was read.  It goes only with the duplicate that the user has deleted,   *)
(* or in an operation that moves pages.                                    *)
THEOREM UserTextIsKept == Spec => UserTextKept
<1>1. WikiInv /\ [Next]_vars => [KeepsTexts]_vars
  BY NextStep
<1>2. [][KeepsTexts]_vars => UserTextKept
  BY PTL DEF KeepsTexts, UserTextKept
<1> QED  BY <1>1, <1>2, WikiAlways, PTL DEF Spec

--------------------------------------------------------------------------------
(* On which pages blocks are, and when an operation has only done a part.  *)

Sited(b, p) == block[b].page = p \/ {p, block[b].page} \subseteq broken

Fated == task.op = "apply" /\ task.at \in {"create", "write"}
Merges(ats) == task.op \in {"apply", "taxonomy"} /\ task.at \in ats /\ ~Renames
Splits(ats) == task.op = "taxonomy" /\ task.at \in ats
Unregistered == Merges({"redirect", "register"}) \/ Splits({"moves"})
Aloft(b) ==
    \/ (Merges({"register"}) \/ Splits({"new", "moves"})) /\ b \in Moved
    \/ At("taxonomy", "register") /\ task.kind = "rename" /\ b \in DOMAIN task.moved.blocks
    \/ At("apply", "write") /\ Takes /\ b = task.id

ShownAt(p, b) ==
    /\ Sited(b, p) \/ (Unregistered /\ p = task.q /\ b \in Moved)
    /\ block[b].status = "deleted" =>
          p \in broken \/ (Fated /\ p = task.p /\ b = Row.existing /\ Does("delete_duplicate"))
PresentAt(p, b) == b \in On(p) \/ p \in broken \/ (p = task.p /\ Aloft(b))
SameStatus(p, b) ==
    \/ p \in broken
    \/ block[b].status \in {file[p].blocks[b].status, "needs_review"}
    \/ Fated /\ p = task.p /\ b = Row.existing /\ Fate # "same"
Carried(b) ==
    \/ Splits({"new"}) /\ b \in Moved
    \/ At("taxonomy", "register") /\ task.kind = "rename" /\ b \in DOMAIN task.moved.blocks
Stands(b) == b \in Live \/ (b \in Known /\ \E p \in Pages : b \in On(p))
RowAt(p, b) == Sited(b, p) \/ (Merges({"rows"}) /\ p = task.p /\ block[b].page = task.q)

PageNames ==
    /\ \A b \in Blocks : block[b].page \in Pages
    /\ \A r \in Rows : rows[r].page \in Pages
    /\ \A r \in Rows : rows[r].peer # "none" => rows[r].existing = 0 /\ rows[r].peer \in Pages \ {rows[r].page}
HomeFiles ==
    /\ \A p \in Pages : file[p].there \/ On(p) = {}
    /\ \A p \in Pages : \A b \in On(p) \cap Known : ShownAt(p, b)
HomeBlocks ==
    /\ \A b \in Live : PresentAt(block[b].page, b)
    /\ \A b \in Live : b \in On(block[b].page) => SameStatus(block[b].page, b)
HomeRows ==
    \A r \in Rows :
        LET b == rows[r].existing IN
        rows[r].peer = "none" /\ (Stands(b) \/ (b \in Known /\ Carried(b))) => RowAt(rows[r].page, b)

(* What is carried from page p to q: blocks that were on p.                *)
Cargo(p, q, blocks) ==
    /\ p \in Pages /\ q \in Pages /\ (p \in broken => q \in broken)
    /\ \A b \in DOMAIN blocks \cap Known :
          /\ Sited(b, p)
          /\ block[b].status = "deleted" => p \in broken
          /\ p \in broken \/ block[b].page # p \/ block[b].status \in {blocks[b].status, "needs_review"}
          /\ \A y \in Pages \ {p, q} : b \in On(y) => {y, q} \subseteq broken
Delivered(q, blocks) == \A b \in DOMAIN blocks : b \in On(q) /\ file[q].blocks[b].status = blocks[b].status

MergeHome ==
    Merges({"target", "redirect", "register", "rows"}) =>
        /\ {"kind", "p", "q", "blocks"} \subseteq DOMAIN task
        /\ task.kind = "merge" /\ task.p \in Pages /\ task.q \in Pages /\ task.p # task.q
        /\ task.p \in broken => task.q \in broken
        /\ task.at # "rows" => Cargo(task.p, task.q, task.blocks)
        /\ task.at \in {"target", "redirect"} => On(task.p) = Moved
        /\ task.at \in {"register", "rows"} => On(task.p) = {}
        /\ task.at \in {"redirect", "register"} => Delivered(task.q, task.blocks)
        /\ task.op = "apply" => /\ "r" \in DOMAIN task /\ task.r \in DOMAIN task.d
                                /\ rows[task.r].page = task.p /\ rows[task.r].peer = task.q
SplitHome ==
    Splits({"source", "new", "moves"}) =>
        /\ {"kind", "p", "q", "blocks"} \subseteq DOMAIN task
        /\ task.p # task.q /\ Cargo(task.p, task.q, task.blocks)
        /\ task.at = "source" => Moved \subseteq On(task.p)
        /\ task.at \in {"source", "new"} => On(task.q) = {}
        /\ task.at \in {"new", "moves"} => On(task.p) \cap Moved = {}
        /\ task.at = "moves" => Delivered(task.q, task.blocks)
RenameHome ==
    Renames =>
        /\ {"kind", "p", "q", "moved"} \subseteq DOMAIN task
        /\ task.p = task.q /\ Cargo(task.p, task.q, task.moved.blocks) /\ task.moved.there
        /\ On(task.p) = IF task.at = "redirect" THEN DOMAIN task.moved.blocks ELSE {}
RunHome ==
    task.op = "run" /\ task.at \in {"read", "write", "create"} =>
        /\ task.p \in Pages
        /\ task.at = "create" =>
              /\ \A y \in Pages : task.id \in On(y) => y = task.p
              /\ task.id \in On(task.p) /\ file[task.p].blocks[task.id].status = "current"
ApplyHome ==
    task.op = "apply" =>
        /\ \A r \in DOMAIN task.read : /\ task.read[r].page \in Pages
                                       /\ rows[r].peer # "none" => rows[r].page = task.read[r].page
        /\ task.at \in {"status", "create", "write"} =>
              /\ task.p \in Pages /\ task.p = Row.page /\ Row.existing \in On(task.p)
              /\ rows[task.r].page = task.p \/ task.p \in broken
        /\ Fated => Fate = "same" \/ block[Row.existing].status = Fate
        /\ task.at = "write" /\ Takes =>
              /\ block[task.id].page = task.p
              /\ block[task.id].status = IF Does("mark_conflicted") THEN "conflicted" ELSE "current"
StageHome == MergeHome /\ SplitHome /\ RenameHome /\ RunHome /\ ApplyHome

HomeInv == PageNames /\ HomeFiles /\ HomeBlocks /\ HomeRows /\ StageHome

(* The same without an operation that has only done a part.                *)
FilesAtHome ==
    /\ \A p \in Pages : file[p].there \/ On(p) = {}
    /\ \A p \in Pages : \A b \in On(p) \cap Known : Sited(b, p) /\ (block[b].status = "deleted" => p \in broken)
StatusAt(p, b) == p \in broken \/ block[b].status \in {file[p].blocks[b].status, "needs_review"}
BlocksAtHome ==
    /\ \A b \in Live : b \in On(block[b].page) \/ block[b].page \in broken
    /\ \A b \in Live : b \in On(block[b].page) => StatusAt(block[b].page, b)
RowsAtHome == \A r \in Rows : rows[r].peer = "none" /\ Stands(rows[r].existing) => Sited(rows[r].existing, rows[r].page)
Homes == PageNames /\ FilesAtHome /\ BlocksAtHome /\ RowsAtHome

(* Blocks are in no file meanwhile.                                        *)
Away == task.op = "taxonomy" /\ task.at \in {"new", "register"}
PartDone ==
    \/ Fated
    \/ task.op \in {"apply", "taxonomy"} /\ task.at \in {"redirect", "register", "rows"}
    \/ task.op = "taxonomy" /\ task.at \in {"new", "moves"}

(* Between the parts of an operation everything is in its place ...        *)
LEMMA HomesBetween ==
    ASSUME HomeInv, ~PartDone
    PROVE  Homes
<1>1. ~Fated /\ ~Unregistered /\ ~Merges({"rows"}) /\ \A b : ~Aloft(b)
  BY DEF PartDone, Fated, Unregistered, Merges, Splits, Aloft, At
<1>2. PageNames
  BY DEF HomeInv
<1>3. FilesAtHome
  BY <1>1 DEF HomeInv, HomeFiles, FilesAtHome, ShownAt
<1>4. BlocksAtHome
  BY <1>1 DEF HomeInv, HomeBlocks, BlocksAtHome, PresentAt, SameStatus, StatusAt
<1>5. RowsAtHome
  BY <1>1 DEF HomeInv, HomeRows, RowsAtHome, RowAt
<1> QED  BY <1>2, <1>3, <1>4, <1>5 DEF Homes

(* ... and what is in its place needs no excuse.                           *)
LEMMA HomesAlways ==
    ASSUME Homes', StageHome', ~Away'
    PROVE  HomeInv'
<1>1. HomeFiles'
  BY DEF Homes, FilesAtHome, HomeFiles, ShownAt
<1>2. HomeBlocks'
  BY DEF Homes, BlocksAtHome, HomeBlocks, PresentAt, SameStatus, StatusAt
<1>3. HomeRows'
  BY DEF Homes, RowsAtHome, HomeRows, RowAt, Carried, Away, Splits, At
<1> QED  BY <1>1, <1>2, <1>3 DEF Homes, HomeInv

(* Pages show the same blocks, with the same keys, statuses and markers.   *)
SameBlock(v, w) == w.key = v.key /\ w.status = v.status /\ w.pending = v.pending
SamePage(f, g) ==
    /\ f.there => g.there
    /\ DOMAIN g.blocks = DOMAIN f.blocks
    /\ \A b \in DOMAIN f.blocks : SameBlock(f.blocks[b], g.blocks[b])
SamePages == \A p \in Pages : SamePage(file[p], file'[p])
SameInventory == \A b \in Blocks : block'[b].page = block[b].page /\ block'[b].status = block[b].status
RowPlaced(v) ==
    /\ v.page \in Pages /\ (v.peer # "none" => v.existing = 0 /\ v.peer \in Pages \ {v.page})
    /\ v.peer = "none" => Sited(v.existing, v.page)
MoreRows ==
    /\ \A r \in Rows : r \in Rows' /\ rows'[r].page = rows[r].page /\ rows'[r].existing = rows[r].existing /\ rows'[r].peer = rows[r].peer
    /\ \A r \in Rows' \ Rows : RowPlaced(rows'[r])

(* The inventory as far as it is about pages and statuses.                 *)
LEMMA InventoryStays ==
    ASSUME SameInventory
    PROVE  Known' = Known /\ Live' = Live
  BY DEF SameInventory, Known, Live

(* Nothing is moved, and what a page shows of its own blocks is right.     *)
NothingMoves ==
    /\ \A p \in Pages : On(p)' \cap Known = On(p) \cap Known /\ (file'[p].there \/ On(p)' = {})
    /\ \A b \in Blocks : block'[b].page = block[b].page
    /\ Known' = Known /\ Live' = Live
StatusesRight == \A b \in Live : b \in On(block[b].page) => StatusAt(block[b].page, b)

(* Everything stays in its place if nothing is moved, and the statuses ... *)
LEMMA HomesShown ==
    ASSUME Homes, NothingMoves, StatusesRight', MoreRows, broken \subseteq broken'
    PROVE  Homes'
<1>1. Known' = Known /\ Live' = Live /\ Known \subseteq Blocks /\ Live \subseteq Blocks
  BY DEF NothingMoves, Known, Live
<1>2. \A p \in Pages : On(p)' \cap Known = On(p) \cap Known /\ (file'[p].there \/ On(p)' = {})
  BY DEF NothingMoves
<1>3. \A b \in Blocks : \A p : Sited(b, p) => Sited(b, p)'
  BY DEF Sited, NothingMoves
<1>4. PageNames'
  <2>1. \A b \in Blocks : block'[b].page \in Pages
    BY DEF Homes, PageNames, NothingMoves
  <2>2. ASSUME NEW r \in Rows'
        PROVE  rows'[r].page \in Pages /\ (rows'[r].peer # "none" => rows'[r].existing = 0 /\ rows'[r].peer \in Pages \ {rows'[r].page})
    <3>1. CASE r \in Rows
      BY <3>1 DEF Homes, PageNames, MoreRows
    <3>2. CASE r \notin Rows
      BY <2>2, <3>2 DEF MoreRows, RowPlaced
    <3> QED  BY <3>1, <3>2
  <2> QED  BY <2>1, <2>2 DEF PageNames
<1>5. FilesAtHome'
  <2>1. ASSUME NEW b \in Known
        PROVE  block[b].status = "deleted" <=> block'[b].status = "deleted"
    BY <1>1, <2>1 DEF Live
  <2> QED  BY <1>1, <1>2, <1>3, <2>1 DEF Homes, FilesAtHome
<1>6. BlocksAtHome'
  <2>1. ASSUME NEW b \in Live
        PROVE  b \in On(block[b].page)' \/ block'[b].page \in broken'
    <3>1. b \in On(block[b].page) \/ block[b].page \in broken
      BY <2>1 DEF Homes, BlocksAtHome
    <3>2. block[b].page \in Pages /\ block'[b].page = block[b].page
      BY <1>1, <2>1 DEF Homes, PageNames, NothingMoves
    <3> QED  BY <1>2, <2>1, <3>1, <3>2 DEF On, Live
  <2> QED  BY <1>1, <2>1 DEF BlocksAtHome, StatusesRight
<1>7. RowsAtHome'
  <2>1. ASSUME NEW r \in Rows', rows'[r].peer = "none", Stands(rows'[r].existing)
        PROVE  Sited(rows[r].existing, rows[r].page)'
    <3>1. Sited(rows'[r].existing, rows'[r].page)
      <4>1. CASE r \in Rows
        BY <2>1, <4>1 DEF Homes, RowsAtHome, MoreRows
      <4>2. CASE r \notin Rows
        BY <2>1, <4>2 DEF MoreRows, RowPlaced
      <4> QED  BY <4>1, <4>2
    <3>2. rows'[r].existing \in Blocks
      BY <2>1 DEF Stands, Live, Known
    <3> QED  BY <1>3, <3>1, <3>2
  <2>2. \A b : Stands(b)' => Stands(b)
    BY <1>1, <1>2 DEF Stands
  <2> QED  BY <2>1, <2>2 DEF RowsAtHome
<1> QED  BY <1>4, <1>5, <1>6, <1>7 DEF Homes

(* ... if the statuses are those that were right.                          *)
LEMMA HomesStay ==
    ASSUME Homes, SamePages, SameInventory, MoreRows, broken \subseteq broken'
    PROVE  Homes'
<1>1. Known' = Known /\ Live' = Live /\ Live \subseteq Blocks
  BY InventoryStays DEF Live, Known
<1>2. \A p \in Pages : On(p)' = On(p) /\ (file[p].there => file'[p].there)
                       /\ \A b \in On(p) : file'[p].blocks[b].status = file[p].blocks[b].status
  BY DEF SamePages, SamePage, SameBlock, On
<1>3. NothingMoves
  BY <1>1, <1>2 DEF NothingMoves, SameInventory, Homes, FilesAtHome
<1>4. ASSUME NEW b \in Live, b \in On(block[b].page)'
      PROVE  StatusAt(block[b].page, b)'
  <2>1. block[b].page \in Pages /\ block'[b].page = block[b].page /\ block'[b].status = block[b].status
    BY <1>1, <1>4 DEF Homes, PageNames, SameInventory
  <2>2. b \in On(block[b].page)
    BY <1>2, <1>4, <2>1 DEF On
  <2>3. StatusAt(block[b].page, b)
    BY <1>4, <2>2 DEF Homes, BlocksAtHome
  <2> QED  BY <1>2, <2>1, <2>2, <2>3 DEF StatusAt
<1>5. StatusesRight'
  BY <1>1, <1>4 DEF StatusesRight
<1> QED  BY <1>3, <1>5, HomesShown

(* A page is the same when one of its blocks changes in neither.           *)
LEMMA SameOneBlock ==
    ASSUME NEW f, IsPage(f), NEW g, NEW b, NEW v,
           g = [f EXCEPT !.blocks[b] = v], b \in DOMAIN f.blocks => SameBlock(f.blocks[b], v)
    PROVE  SamePage(f, g)
<1>1. PICK blocks : blocks = [f.blocks EXCEPT ![b] = v]
  OBVIOUS
<1>2. DOMAIN blocks = DOMAIN f.blocks /\ \A c \in DOMAIN f.blocks : blocks[c] = IF c = b THEN v ELSE f.blocks[c]
  BY <1>1
<1>3. g = [f EXCEPT !.blocks = blocks]
  BY <1>1
<1>4. g.blocks = blocks /\ g.there = f.there
  BY <1>3 DEF IsPage
<1>5. \A c \in DOMAIN f.blocks : SameBlock(f.blocks[c], g.blocks[c])
  BY <1>2, <1>4 DEF SameBlock
<1> HIDE DEF SameBlock
<1> QED  BY <1>2, <1>4, <1>5 DEF SamePage

(* A page where one block has other markers shows its blocks as it did.    *)
WithPending(f, b, pending) == [f EXCEPT !.blocks[b].pending = pending]
Repending(f, b, pending, g) ==
    /\ IsPage(g) /\ g.there = f.there /\ DOMAIN g.blocks = DOMAIN f.blocks
    /\ \A c \in DOMAIN f.blocks : /\ g.blocks[c].status = f.blocks[c].status
                                  /\ g.blocks[c].pending = IF c = b THEN pending ELSE f.blocks[c].pending

(* A page where a marker comes or goes shows its blocks as it did.         *)
LEMMA PendingOfOne ==
    ASSUME NEW f, IsPage(f), NEW b, NEW pending
    PROVE  Repending(f, b, pending, WithPending(f, b, pending))
<1>1. PICK v : v = [f.blocks[b] EXCEPT !.pending = pending]
  OBVIOUS
<1>2. PICK blocks : blocks = [f.blocks EXCEPT ![b] = v]
  OBVIOUS
<1>3. DOMAIN blocks = DOMAIN f.blocks /\ \A c \in DOMAIN f.blocks : blocks[c] = IF c = b THEN v ELSE f.blocks[c]
  BY <1>2
<1>4. PICK g : g = WithPending(f, b, pending)
  OBVIOUS
<1>5. g = [f EXCEPT !.blocks = blocks]
  BY <1>1, <1>2, <1>4 DEF WithPending
<1>6. g.blocks = blocks /\ g.there = f.there
  BY <1>5 DEF IsPage
<1>7. b \in DOMAIN f.blocks => v.status = f.blocks[b].status /\ v.pending = pending
  BY <1>1 DEF IsPage, IsBlocks, IsBlock
<1>8. IsPage(g)
  BY <1>4, KeptPending DEF Kept, WithPending
<1>9. Repending(f, b, pending, g)
  BY <1>3, <1>6, <1>7, <1>8 DEF Repending
<1> QED  BY <1>4, <1>9

(* A marker comes or goes.                                                 *)
LEMMA MarkerOfOne ==
    ASSUME NEW f, IsPage(f), NEW b, NEW r
    PROVE  /\ Repending(f, b, f.blocks[b].pending \cup {r}, add_pending_marker(f, b, r))
           /\ Repending(f, b, f.blocks[b].pending \ {r}, remove_pending_marker(f, b, r))
<1>1. add_pending_marker(f, b, r) = WithPending(f, b, f.blocks[b].pending \cup {r})
  BY DEF add_pending_marker, WithPending
<1>2. remove_pending_marker(f, b, r) = WithPending(f, b, f.blocks[b].pending \ {r})
  BY DEF remove_pending_marker, WithPending
<1> QED  BY <1>1, <1>2, PendingOfOne

(* A page whose blocks are what they were is the same.                     *)
LEMMA SameGenerated ==
    ASSUME NEW f, NEW g, g.blocks = f.blocks, f.there => g.there
    PROVE  SamePage(f, g)
  BY DEF SamePage, SameBlock

(* ... one where open conflicts are listed.                                *)
LEMMA SameListed ==
    ASSUME NEW f, IsPage(f), NEW p, NEW listed
    PROVE  SamePage(f, [f EXCEPT !.listed = listed]) /\ SamePage(f, List(f, p))
<1>1. [f EXCEPT !.listed = listed].blocks = f.blocks /\ [f EXCEPT !.listed = listed].there = f.there
  BY DEF IsPage
<1>2. List(f, p).blocks = f.blocks /\ List(f, p).there
  BY DEF IsPage, List
<1> QED  BY <1>1, <1>2, SameGenerated

(* ... one that is rendered.                                               *)
LEMMA SameRendered ==
    ASSUME NEW p \in Pages, IsPage(file[p]), NEW skipped
    PROVE  SamePage(file[p], Rendered(skipped)[p])
<1> DEFINE f == file[p]
<1>1. PICK digest : Rendered(skipped)[p] = IF p \in Active THEN [f EXCEPT !.there = TRUE, !.coverage = Coverage(p), !.digest = digest] ELSE f
  BY DEF Rendered
<1>2. Rendered(skipped)[p].blocks = f.blocks /\ (f.there => Rendered(skipped)[p].there)
  BY <1>1 DEF IsPage
<1> QED  BY <1>2, SameGenerated

(* ... one where edits are marked.                                         *)
LEMMA SameMarked ==
    ASSUME NEW p \in Pages, IsPage(file[p])
    PROVE  SamePage(file[p], Marked[p])
<1> DEFINE f == file[p]
           blocks == [b \in On(p) |-> [f.blocks[b] EXCEPT !.edited = f.blocks[b].edited \/ b \in _changed_block_ids(p)]]
<1>1. Marked[p] = [f EXCEPT !.blocks = blocks]
  BY DEF Marked
<1>2. Marked[p].blocks = blocks /\ Marked[p].there = f.there
  BY <1>1 DEF IsPage
<1>3. ASSUME NEW b \in On(p)
      PROVE  SameBlock(f.blocks[b], blocks[b])
  <2>1. IsBlock(f.blocks[b])
    BY <1>3 DEF On, IsPage, IsBlocks
  <2>2. PICK e : blocks[b] = [f.blocks[b] EXCEPT !.edited = e]
    BY <1>3
  <2> QED  BY <2>1, <2>2 DEF IsBlock, SameBlock
<1>4. DOMAIN blocks = DOMAIN f.blocks
  BY DEF On
<1> HIDE DEF blocks, SameBlock
<1> QED  BY <1>2, <1>3, <1>4 DEF SamePage, On

(* Pages are the same when no file is written ...                          *)
LEMMA SameFilesSamePages ==
    ASSUME UNCHANGED file
    PROVE  SamePages
  BY SameGenerated DEF SamePages

(* ... or one that stays the same.                                         *)
LEMMA OneFileSame ==
    ASSUME FileShape, NEW p, NEW f, p \in Pages => SamePage(file[p], f), file' = [file EXCEPT ![p] = f]
    PROVE  SamePages
<1>1. ASSUME NEW q \in Pages
      PROVE  SamePage(file[q], file'[q])
  <2>1. CASE q = p
    BY <2>1 DEF FileShape
  <2>2. CASE q # p
    <3>1. file'[q] = file[q]
      BY <2>2, <1>1 DEF FileShape
    <3> QED  BY <3>1, SameGenerated
  <2> QED  BY <2>1, <2>2
<1> QED  BY <1>1 DEF SamePages

(* ... or when edits are marked.                                           *)
LEMMA MarkedSame ==
    ASSUME FileShape, file' = Marked
    PROVE  SamePages
  BY SameMarked DEF SamePages, FileShape

(* The inventory is the same when no block changes ...                     *)
LEMMA SameBlocksSameInventory ==
    ASSUME UNCHANGED block
    PROVE  SameInventory
  BY DEF SameInventory

(* ... or when edits are marked.                                           *)
LEMMA MarkedInventory ==
    ASSUME BlockShape, block' = MarkedRows
    PROVE  SameInventory
<1>1. ASSUME NEW b \in Blocks
      PROVE  block'[b].page = block[b].page /\ block'[b].status = block[b].status
  <2>1. PICK e : block'[b] = [block[b] EXCEPT !.edited = e]
    BY <1>1 DEF MarkedRows
  <2> QED  BY <2>1, <1>1 DEF BlockShape, IsBlockRow
<1> QED  BY <1>1 DEF SameInventory

(* The rows are those that are placed when none changes ...                *)
LEMMA SameRowsMore ==
    ASSUME UNCHANGED rows
    PROVE  MoreRows
  BY DEF MoreRows, Rows

(* ... or one comes.                                                       *)
LEMMA OneRowMore ==
    ASSUME NEW n, n \notin Rows, NEW v, RowPlaced(v), rows' = Put(rows, n, v)
    PROVE  MoreRows
<1>1. /\ DOMAIN rows' = DOMAIN rows \cup {n} /\ rows'[n] = v
      /\ \A r \in DOMAIN rows \ {n} : rows'[r] = rows[r]
  BY DEF Put, With
<1> QED  BY <1>1 DEF MoreRows, Rows

(* Operations that do not move anything.                                   *)
Unstaged ==
    /\ task.op = "run" => task.at \notin {"read", "write", "create"}
    /\ task.op = "apply" => task.at \notin {"status", "create", "write", "target", "redirect", "register", "rows"}
    /\ task.op = "taxonomy" => task.at \notin {"target", "redirect", "register", "rows", "source", "new", "moves"}
ReadHome ==
    \A r \in DOMAIN task.read : /\ task.read[r].page \in Pages
                                /\ rows[r].peer # "none" => rows[r].page = task.read[r].page

(* Nothing is between two parts then.                                      *)
LEMMA UnstagedHome ==
    ASSUME Unstaged', task'.op = "apply" => ReadHome'
    PROVE  StageHome' /\ ~Away'
<1>1. MergeHome' /\ SplitHome' /\ RenameHome'
  BY DEF Unstaged, MergeHome, SplitHome, RenameHome, Merges, Splits, Renames
<1>2. RunHome' /\ ApplyHome'
  BY DEF Unstaged, RunHome, ApplyHome, ReadHome, Fated
<1> QED  BY <1>1, <1>2 DEF StageHome, Unstaged, Away

(* The pages of what was read stay right.                                  *)
LEMMA ReadHomeStays ==
    ASSUME WikiInv, HomeInv, task.op = "apply", task'.read = task.read, MoreRows
    PROVE  ReadHome'
<1>1. ReadHome
  BY DEF HomeInv, StageHome, ApplyHome, ReadHome
<1>2. DOMAIN task.read \subseteq Rows
  BY DEF WikiInv, RowInv, ReadInv
<1> QED  BY <1>1, <1>2 DEF ReadHome, MoreRows

(* A step that moves nothing, and leaves nothing half done.                *)
LEMMA PlainHome ==
    ASSUME WikiInv, HomeInv, ~PartDone, Unstaged', SamePages, SameInventory, MoreRows, broken \subseteq broken',
           task'.op = "apply" => (task.op = "apply" /\ task'.read = task.read)
    PROVE  HomeInv'
<1>1. Homes
  BY HomesBetween
<1>2. Homes'
  BY <1>1, HomesStay
<1>3. task'.op = "apply" => ReadHome'
  BY ReadHomeStays
<1>4. StageHome' /\ ~Away'
  BY <1>3, UnstagedHome
<1> QED  BY <1>2, <1>4, HomesAlways

(* A page where one block has another status.                              *)
LEMMA StatusOfOne ==
    ASSUME NEW f, IsPage(f), NEW b, NEW status
    PROVE  /\ set_status(f, b, status).there = f.there
           /\ DOMAIN set_status(f, b, status).blocks = DOMAIN f.blocks
           /\ \A c \in DOMAIN f.blocks :
                 /\ set_status(f, b, status).blocks[c].status = IF c = b THEN status ELSE f.blocks[c].status
                 /\ set_status(f, b, status).blocks[c].key = f.blocks[c].key
                 /\ set_status(f, b, status).blocks[c].pending = f.blocks[c].pending
<1>1. PICK v : v = [f.blocks[b] EXCEPT !.status = status]
  OBVIOUS
<1>2. PICK blocks : blocks = [f.blocks EXCEPT ![b] = v]
  OBVIOUS
<1>3. DOMAIN blocks = DOMAIN f.blocks /\ \A c \in DOMAIN f.blocks : blocks[c] = IF c = b THEN v ELSE f.blocks[c]
  BY <1>2
<1>4. set_status(f, b, status) = [f EXCEPT !.blocks = blocks]
  BY <1>1, <1>2 DEF set_status
<1>5. set_status(f, b, status).blocks = blocks /\ set_status(f, b, status).there = f.there
  BY <1>4 DEF IsPage
<1>6. b \in DOMAIN f.blocks => v.status = status /\ v.key = f.blocks[b].key /\ v.pending = f.blocks[b].pending
  BY <1>1 DEF IsPage, IsBlocks, IsBlock
<1> QED  BY <1>3, <1>5, <1>6

(* A block gets a status in the database: the other blocks are as they were. *)
LEMMA StatusOfRow ==
    ASSUME BlockShape, NEW b \in Blocks, NEW status, block' = [block EXCEPT ![b].status = status]
    PROVE  /\ block'[b].status = status /\ \A c \in Blocks \ {b} : block'[c] = block[c]
           /\ \A c \in Blocks : block'[c].page = block[c].page
<1>1. PICK v : v = [block[b] EXCEPT !.status = status]
  OBVIOUS
<1>2. v.status = status /\ v.page = block[b].page
  BY <1>1 DEF BlockShape, IsBlockRow
<1>3. block' = [block EXCEPT ![b] = v]
  BY <1>1
<1>4. block'[b] = v /\ \A c \in Blocks \ {b} : block'[c] = block[c]
  BY <1>3 DEF BlockShape
<1> QED  BY <1>2, <1>4

(* A stale block is current again, on its page too.                        *)
LEMMA HomesRestored ==
    ASSUME BlockShape, FileShape, Homes, MoreRows, UNCHANGED broken, NEW b \in Live, NEW q \in Pages, q = block[b].page,
           file' = [file EXCEPT ![q] = set_status(file[q], b, "current")], block' = [block EXCEPT ![b].status = "current"]
    PROVE  Homes'
<1>1. b \in Blocks /\ Live \subseteq Blocks
  BY DEF Live, Known
<1>2. PICK g : g = set_status(file[q], b, "current")
  OBVIOUS
<1>3. file'[q] = g /\ \A p \in Pages \ {q} : file'[p] = file[p]
  BY <1>2 DEF FileShape
<1>4. /\ g.there = file[q].there /\ DOMAIN g.blocks = On(q)
      /\ \A c \in On(q) : g.blocks[c].status = IF c = b THEN "current" ELSE file[q].blocks[c].status
  BY <1>2, StatusOfOne DEF FileShape, On
<1>5. /\ block'[b].status = "current" /\ \A c \in Blocks \ {b} : block'[c] = block[c]
      /\ \A c \in Blocks : block'[c].page = block[c].page
  BY <1>1, StatusOfRow
<1>6. Known' = Known /\ Live' = Live
  BY <1>1, <1>5 DEF Known, Live
<1>7. \A p \in Pages : On(p)' = On(p) /\ (file[p].there => file'[p].there)
  BY <1>3, <1>4 DEF On
<1>8. NothingMoves
  BY <1>5, <1>6, <1>7 DEF NothingMoves, Homes, FilesAtHome
<1>9. ASSUME NEW c \in Live, c \in On(block[c].page)'
      PROVE  StatusAt(block[c].page, c)'
  <2>1. block[c].page \in Pages /\ block'[c].page = block[c].page
    BY <1>1, <1>5, <1>9 DEF Homes, PageNames
  <2>2. c \in On(block[c].page)
    BY <1>7, <1>9, <2>1 DEF On
  <2>3. StatusAt(block[c].page, c)
    BY <1>9, <2>2 DEF Homes, BlocksAtHome
  <2>4. CASE c = b
    BY <1>3, <1>4, <1>5, <2>1, <2>2, <2>4 DEF StatusAt
  <2>5. CASE c # b
    <3>1. block'[c].status = block[c].status
      BY <1>1, <1>5, <1>9, <2>5
    <3>2. file'[block[c].page].blocks[c].status = file[block[c].page].blocks[c].status
      BY <1>3, <1>4, <2>1, <2>2, <2>5
    <3> QED  BY <2>1, <2>3, <3>1, <3>2 DEF StatusAt
  <2> QED  BY <2>4, <2>5
<1>10. StatusesRight'
  BY <1>6, <1>9 DEF StatusesRight
<1> QED  BY <1>8, <1>10, HomesShown

--------------------------------------------------------------------------------
(* Runs and kills.                                                         *)

(* A run starts: what it shows as stale is so.                             *)
LEMMA StartRunHome ==
    ASSUME WikiInv, HomeInv, StartRun
    PROVE  HomeInv'
<1>1. task = Idle /\ UNCHANGED <<rows, broken>> /\ block' = MarkedRows /\ file' = sync_block_statuses(Marked)
  BY DEF StartRun
<1>2. Homes
  BY <1>1, HomesBetween DEF PartDone, Fated, Idle
<1>3. SameInventory
  BY <1>1, MarkedInventory DEF WikiInv, Shapes
<1>4. ASSUME NEW p \in Pages
      PROVE  /\ On(p)' = On(p) /\ (file[p].there => file'[p].there)
             /\ \A b \in On(p) : file'[p].blocks[b].status = file[p].blocks[b].status
                                 \/ (b \in BlocksOf(p) /\ block[b].status = "needs_review")
  <2>1. SamePage(file[p], Marked[p]) /\ IsPage(Marked[p])
    BY <1>4, SameMarked, KeptMarked DEF WikiInv, Shapes, FileShape, Kept
  <2>2. PICK g : g = Marked[p]
    OBVIOUS
  <2> DEFINE blocks == [b \in DOMAIN g.blocks |->
               IF b \in BlocksOf(p) /\ block[b].status = "needs_review" THEN [g.blocks[b] EXCEPT !.status = "needs_review"] ELSE g.blocks[b]]
  <2>3. file'[p] = [g EXCEPT !.blocks = blocks]
    BY <1>1, <1>4, <2>2 DEF sync_block_statuses
  <2>4. file'[p].blocks = blocks /\ file'[p].there = g.there
    BY <2>1, <2>2, <2>3 DEF IsPage
  <2>5. DOMAIN g.blocks = On(p) /\ (file[p].there => g.there) /\ \A b \in On(p) : g.blocks[b].status = file[p].blocks[b].status
    BY <2>1, <2>2 DEF SamePage, SameBlock, On
  <2>6. \A b \in On(p) : blocks[b].status = g.blocks[b].status \/ (b \in BlocksOf(p) /\ block[b].status = "needs_review")
    BY <2>5
  <2> HIDE DEF blocks
  <2>7. DOMAIN blocks = DOMAIN g.blocks
    BY DEF blocks
  <2> QED  BY <2>4, <2>5, <2>6, <2>7 DEF On
<1>5. Known' = Known /\ Live' = Live /\ Live \subseteq Blocks
  BY <1>3, InventoryStays DEF Live, Known
<1>6. NothingMoves
  BY <1>2, <1>3, <1>4, <1>5 DEF NothingMoves, SameInventory, Homes, FilesAtHome
<1>7. ASSUME NEW b \in Live, b \in On(block[b].page)'
      PROVE  StatusAt(block[b].page, b)'
  <2>1. block[b].page \in Pages /\ block'[b].page = block[b].page /\ block'[b].status = block[b].status
    BY <1>2, <1>3, <1>5, <1>7 DEF Homes, PageNames, SameInventory
  <2>2. b \in On(block[b].page)
    BY <1>4, <1>7, <2>1 DEF On
  <2>3. StatusAt(block[b].page, b)
    BY <1>2, <1>7, <2>2 DEF Homes, BlocksAtHome
  <2> QED  BY <1>1, <1>4, <2>1, <2>2, <2>3 DEF StatusAt
<1>8. StatusesRight'
  BY <1>5, <1>7 DEF StatusesRight
<1>9. Homes'
  BY <1>1, <1>2, <1>6, <1>8, SameRowsMore, HomesShown
<1>10. Unstaged' /\ task'.op # "apply"
  BY DEF StartRun, Unstaged
<1> QED  BY <1>9, <1>10, UnstagedHome, HomesAlways

(* A run leaves nothing half done but a block.                             *)
LEMMA RunNotPart ==
    ASSUME task.op = "run"
    PROVE  ~PartDone
  BY DEF PartDone, Fated

(* A step of a run that moves nothing, to one that is not about a new block. *)
LEMMA RunHomeStep ==
    ASSUME WikiInv, HomeInv, task.op = "run", SamePages, SameInventory, MoreRows, broken \subseteq broken',
           task' = Idle \/ (task'.op = "run" /\ task'.at \notin {"read", "write", "create"})
    PROVE  HomeInv'
<1>1. Unstaged' /\ task'.op # "apply"
  BY DEF Unstaged, Idle
<1> QED  BY <1>1, RunNotPart, PlainHome

(* A candidate turns out to be new.                                        *)
LEMMA PlaceCleanHome ==
    ASSUME WikiInv, HomeInv, NEW cs, NEW k, NEW p \in Pages, PlaceClean(cs, k, p)
    PROVE  HomeInv'
<1>1. task.op = "run" /\ UNCHANGED <<file, block, rows, broken>>
  BY DEF PlaceClean, historyVars, At
<1>2. PICK more : more = [k |-> k, p |-> p, id |-> NextBlock, again |-> FALSE]
  OBVIOUS
<1>3. DOMAIN more = {"k", "p", "id", "again"} /\ more.p = p
  BY <1>2
<1>4. Turn(cs, "read", more)
  BY <1>2 DEF PlaceClean
<1>5. task'.op = "run" /\ task'.at = "read" /\ task'.p = p
  BY <1>3, <1>4, TurnTask
<1>6. Homes'
  BY <1>1, RunNotPart, HomesBetween, HomesStay, SameFilesSamePages, SameBlocksSameInventory, SameRowsMore
<1>7. StageHome' /\ ~Away'
  BY <1>5 DEF Away, StageHome, MergeHome, SplitHome, RenameHome, RunHome, ApplyHome, Merges, Splits, Renames, Fated
<1> QED  BY <1>6, <1>7, HomesAlways

(* A candidate turns out to be a duplicate: a stale block is current on its page and in the database. *)
LEMMA PlaceDuplicateHome ==
    ASSUME WikiInv, HomeInv, NEW cs, NEW k, NEW p, PlaceDuplicate(cs, k, p)
    PROVE  HomeInv'
<1>1. task.op = "run" /\ UNCHANGED <<rows, broken>>
  BY DEF PlaceDuplicate, historyVars, At
<1>2. PICK b \in detect_candidate_conflict("duplicate", k) :
         LET q == block[b].page IN
         \/ UNCHANGED <<file, block>>
         \/ /\ file' = [file EXCEPT ![q] = set_status(@, b, "current")]
            /\ block' = [block EXCEPT ![b].status = "current"]
  BY DEF PlaceDuplicate
<1>3. b \in Live /\ block[b].page \in Pages
  BY <1>2 DEF detect_candidate_conflict, retrieve_comparison_candidates, _comparison_blocks_for_pages, Active
<1>4. task'.op = "run" /\ task'.at = "next"
  <2>1. PICK todo : Run("next", todo, NoBlocks)
    BY DEF PlaceDuplicate
  <2> QED  BY <2>1, RunTask DEF NoBlocks
<1>5. CASE UNCHANGED <<file, block>>
  BY <1>1, <1>4, <1>5, SameFilesSamePages, SameBlocksSameInventory, SameRowsMore, RunHomeStep
<1>6. CASE ~UNCHANGED <<file, block>>
  <2>1. PICK q \in Pages : q = block[b].page
    BY <1>3
  <2>2. file' = [file EXCEPT ![q] = set_status(file[q], b, "current")] /\ block' = [block EXCEPT ![b].status = "current"]
    BY <1>2, <1>6, <2>1
  <2>3. BlockShape /\ FileShape /\ b \in Blocks
    BY <1>3 DEF WikiInv, Shapes, Live, Known
  <2>4. Homes
    BY <1>1, RunNotPart, HomesBetween
  <2>5. Homes'
    BY <1>1, <1>3, <2>1, <2>2, <2>3, <2>4, SameRowsMore, HomesRestored
  <2>6. Unstaged' /\ task'.op # "apply"
    BY <1>4 DEF Unstaged
  <2> QED  BY <2>5, <2>6, UnstagedHome, HomesAlways
<1> QED  BY <1>5, <1>6

(* A candidate contradicts a block: the row is about the page of the block. *)
LEMMA PlaceConflictHome ==
    ASSUME WikiInv, HomeInv, NEW cs, NEW k, NEW p, PlaceConflict(cs, k, p)
    PROVE  HomeInv'
<1>1. task.op = "run" /\ UNCHANGED <<file, block, broken>>
  BY DEF PlaceConflict, historyVars, At
<1>2. PICK b, key, r :
         /\ b \in detect_candidate_conflict("conflict", k)
         /\ rows' = Put(rows, Cardinality(Rows) + 1,
                        [page |-> block[b].page, existing |-> b, peer |-> "none", applied |-> FALSE,
                         candidate |-> [id |-> NextBlock, key |-> key, chunks |-> cs]])
         /\ Turn(cs, "found", [p |-> block[b].page, id |-> b, r |-> r])
  BY DEF PlaceConflict
<1>3. b \in Live /\ block[b].page \in Pages
  BY <1>2 DEF detect_candidate_conflict, retrieve_comparison_candidates, _comparison_blocks_for_pages, _fts_block_ids, Active
<1>4. PICK v : v = [page |-> block[b].page, existing |-> b, peer |-> "none", applied |-> FALSE,
                    candidate |-> [id |-> NextBlock, key |-> key, chunks |-> cs]]
  OBVIOUS
<1>5. RowPlaced(v)
  BY <1>3, <1>4 DEF RowPlaced, Sited
<1>6. MoreRows
  BY <1>2, <1>4, <1>5, NextIsNew, OneRowMore DEF WikiInv
<1>7. task'.op = "run" /\ task'.at = "found"
  <2>1. PICK more : more = [p |-> block[b].page, id |-> b, r |-> r]
    OBVIOUS
  <2>2. DOMAIN more = {"p", "id", "r"} /\ Turn(cs, "found", more)
    BY <1>2, <2>1
  <2> QED  BY <2>2, TurnTask
<1> QED  BY <1>1, <1>6, <1>7, SameFilesSamePages, SameBlocksSameInventory, RunHomeStep

(* The page of a new block is read: nothing is written.                    *)
LEMMA ReadPageHome ==
    ASSUME WikiInv, HomeInv, ReadPage
    PROVE  HomeInv'
<1>1. task.op = "run" /\ task.at = "read" /\ UNCHANGED <<file, block, rows, broken>>
  BY DEF ReadPage, storeVars, historyVars, At
<1>2. PICK f, more : f = [task EXCEPT !.at = "write"] /\ more = [old |-> file[task.p]]
  OBVIOUS
<1>3. task' = With(f, more) /\ DOMAIN more = {"old"}
  BY <1>2 DEF ReadPage
<1>4. {"op", "at", "p"} \subseteq DOMAIN task
  BY <1>1 DEF WikiInv, TaskInv, NextInv, Idle
<1>5. DOMAIN f = DOMAIN task /\ f.op = "run" /\ f.at = "write" /\ f.p = task.p
  BY <1>1, <1>2, <1>4
<1>6. task'.op = "run" /\ task'.at = "write" /\ task'.p = task.p
  BY <1>3, <1>4, <1>5 DEF With
<1>7. Homes'
  BY <1>1, RunNotPart, HomesBetween, HomesStay, SameFilesSamePages, SameBlocksSameInventory, SameRowsMore
<1>8. task.p \in Pages
  BY <1>1 DEF HomeInv, StageHome, RunHome
<1>9. StageHome' /\ ~Away'
  BY <1>6, <1>8 DEF Away, StageHome, MergeHome, SplitHome, RenameHome, RunHome, ApplyHome, Merges, Splits, Renames, Fated
<1> QED  BY <1>7, <1>9, HomesAlways

(* What a page is with one block more.                                     *)
LEMMA OneBlockMore ==
    ASSUME NEW f, IsPage(f), NEW b, NEW v, IsBlock(v)
    PROVE  /\ insert_block(f, b, v).there /\ DOMAIN insert_block(f, b, v).blocks = DOMAIN f.blocks \cup {b}
           /\ insert_block(f, b, v).blocks[b] = v
           /\ \A c \in DOMAIN f.blocks \ {b} : insert_block(f, b, v).blocks[c] = f.blocks[c]
<1>1. insert_block(f, b, v).blocks = Put(f.blocks, b, v) /\ insert_block(f, b, v).there
  BY DEF insert_block, IsPage
<1>2. PICK g : g = Put(f.blocks, b, v)
  OBVIOUS
<1>3. DOMAIN g = DOMAIN f.blocks \cup {b} /\ g[b] = v /\ \A c \in DOMAIN f.blocks \ {b} : g[c] = f.blocks[c]
  BY <1>2 DEF Put, With
<1> QED  BY <1>1, <1>2, <1>3

(* The block is written on its page, before the database knows of it.      *)
LEMMA WriteBlockHome ==
    ASSUME WikiInv, HomeInv, WriteBlock
    PROVE  HomeInv'
<1>1. task.op = "run" /\ task.at = "write" /\ task # Idle /\ UNCHANGED <<block, rows, broken>> /\ Goto("create")
  BY DEF WriteBlock, historyVars, At, Idle
<1>2. /\ {"op", "at", "id", "p", "k"} \subseteq DOMAIN task /\ task.id = NextBlock /\ task.p \in Pages
  BY <1>1 DEF WikiInv, TaskInv, NextInv, HomeInv, StageHome, RunHome
<1>3. task'.at = "create" /\ task'.op = "run" /\ task'.id = task.id /\ task'.p = task.p
  BY <1>1, <1>2, GotoTask DEF WikiInv
<1>4. PICK v : v = Drafted(task.k, "current")
  OBVIOUS
<1>5. IsBlock(v) /\ v.status = "current"
  BY <1>4 DEF Drafted, IsBlock
<1>6. task.id \notin Known /\ \A q \in Pages : task.id \notin On(q)
  BY <1>1, <1>2, NextIsNew DEF WikiInv, PlacesInv, Writing, At
<1>7. PICK g : g = insert_block(file[task.p], task.id, v)
  OBVIOUS
<1>8. file'[task.p] = g /\ \A q \in Pages \ {task.p} : file'[q] = file[q]
  <2>1. file' = [file EXCEPT ![task.p] = g]
    BY <1>4, <1>7 DEF WriteBlock, write_page
  <2> QED  BY <1>2, <2>1 DEF WikiInv, Shapes, FileShape
<1>9. /\ g.there /\ DOMAIN g.blocks = On(task.p) \cup {task.id} /\ g.blocks[task.id] = v
      /\ \A c \in On(task.p) : g.blocks[c] = file[task.p].blocks[c]
  BY <1>2, <1>5, <1>6, <1>7, OneBlockMore DEF WikiInv, Shapes, FileShape, On
<1>10. Homes
  BY <1>1, RunNotPart, HomesBetween
<1>11. Known' = Known /\ Live' = Live /\ Live \subseteq Known
  BY <1>1 DEF Known, Live
<1>12. \A q \in Pages : \A c \in Known : (c \in On(q)' <=> c \in On(q)) /\ (c \in On(q) => file'[q].blocks[c] = file[q].blocks[c])
  BY <1>6, <1>8, <1>9 DEF On
<1>13. NothingMoves
  <2>1. ASSUME NEW q \in Pages
        PROVE  file'[q].there \/ On(q)' = {}
    BY <1>8, <1>9, <1>10, <2>1 DEF Homes, FilesAtHome, On
  <2> QED  BY <1>1, <1>11, <1>12, <2>1 DEF NothingMoves
<1>14. StatusesRight'
  <2>1. ASSUME NEW c \in Live, c \in On(block[c].page)'
        PROVE  StatusAt(block[c].page, c)'
    <3>1. block[c].page \in Pages /\ c \in Known
      BY <1>10, <2>1 DEF Homes, PageNames, Live, Known
    <3>2. c \in On(block[c].page) /\ file'[block[c].page].blocks[c] = file[block[c].page].blocks[c]
      BY <1>1, <1>12, <2>1, <3>1 DEF On
    <3>3. StatusAt(block[c].page, c)
      BY <1>10, <2>1, <3>2 DEF Homes, BlocksAtHome
    <3> QED  BY <1>1, <3>2, <3>3 DEF StatusAt
  <2> QED  BY <1>11, <2>1 DEF StatusesRight
<1>15. Homes'
  BY <1>1, <1>10, <1>13, <1>14, SameRowsMore, HomesShown
<1>16. RunHome'
  <2>1. \A y \in Pages : task'.id \in On(y)' => y = task'.p
    BY <1>3, <1>6, <1>8 DEF On
  <2>2. task'.id \in On(task.p)' /\ file'[task'.p].blocks[task'.id].status = "current"
    BY <1>3, <1>5, <1>8, <1>9 DEF On
  <2> QED  BY <1>2, <1>3, <2>1, <2>2 DEF RunHome, On
<1>17. StageHome' /\ ~Away'
  BY <1>3, <1>16 DEF Away, StageHome, MergeHome, SplitHome, RenameHome, ApplyHome, Merges, Splits, Renames, Fated
<1> QED  BY <1>15, <1>17, HomesAlways

(* The page has changed: it is read once more, or the batch is left.       *)
LEMMA WriteConflictHome ==
    ASSUME WikiInv, HomeInv, WriteConflict
    PROVE  HomeInv'
<1>1. task.op = "run" /\ task.at = "write" /\ UNCHANGED <<rows, broken>>
  BY DEF WriteConflict, historyVars, At
<1>2. CASE task.again
  <2>1. Run("next", {}, NoBlocks) /\ UNCHANGED <<file, block>>
    BY <1>2 DEF WriteConflict
  <2>2. task'.op = "run" /\ task'.at = "next"
    BY <2>1, RunTask DEF NoBlocks
  <2> QED  BY <1>1, <2>1, <2>2, SameFilesSamePages, SameBlocksSameInventory, SameRowsMore, RunHomeStep
<1>3. CASE ~task.again
  <2>1. file' = Marked /\ block' = MarkedRows /\ task' = [task EXCEPT !.at = "read", !.again = TRUE]
    BY <1>3 DEF WriteConflict
  <2>2. {"op", "at", "p"} \subseteq DOMAIN task /\ task.p \in Pages
    BY <1>1 DEF WikiInv, TaskInv, NextInv, Idle, HomeInv, StageHome, RunHome
  <2>3. task'.op = "run" /\ task'.at = "read" /\ task'.p = task.p
    BY <1>1, <2>1, <2>2
  <2>4. SamePages /\ SameInventory
    BY <2>1, MarkedSame, MarkedInventory DEF WikiInv, Shapes
  <2>5. Homes'
    BY <1>1, <2>4, RunNotPart, HomesBetween, HomesStay, SameRowsMore
  <2>6. StageHome' /\ ~Away'
    BY <2>2, <2>3 DEF Away, StageHome, MergeHome, SplitHome, RenameHome, RunHome, ApplyHome, Merges, Splits, Renames, Fated
  <2> QED  BY <2>5, <2>6, HomesAlways
<1> QED  BY <1>2, <1>3

(* The database gets a block.                                              *)
LEMMA OneBlockKnown ==
    ASSUME BlockShape, NEW b \in Blocks, NEW v, v.status \notin {"unknown", "deleted"}, block' = [block EXCEPT ![b] = v]
    PROVE  /\ block'[b] = v /\ \A c \in Blocks \ {b} : block'[c] = block[c]
           /\ Known' = Known \cup {b} /\ Live' = Live \cup {b}
<1>1. block'[b] = v /\ \A c \in Blocks \ {b} : block'[c] = block[c]
  BY DEF BlockShape
<1> QED  BY <1>1 DEF Known, Live

(* The block that was written is committed.                                *)
LEMMA create_blockHome ==
    ASSUME WikiInv, HomeInv, create_block
    PROVE  HomeInv'
<1>1. task.op = "run" /\ task.at = "create" /\ task # Idle /\ UNCHANGED <<file, rows, broken>> /\ Goto("place")
  BY DEF create_block, historyVars, At, Idle
<1>2. /\ {"op", "at", "id", "p", "k"} \subseteq DOMAIN task /\ task.id = NextBlock /\ task.id \in Blocks
  BY <1>1 DEF WikiInv, TaskInv, NextInv
<1>3. /\ task.p \in Pages /\ \A y \in Pages : task.id \in On(y) => y = task.p
      /\ task.id \in On(task.p) /\ file[task.p].blocks[task.id].status = "current"
  BY <1>1 DEF HomeInv, StageHome, RunHome
<1>4. task'.at = "place" /\ task'.op = "run"
  BY <1>1, GotoTask DEF WikiInv
<1>5. PICK v : v = [page |-> task.p, key |-> task.k, status |-> "current", edited |-> FALSE]
  OBVIOUS
<1>6. v.page = task.p /\ v.status = "current" /\ block' = [block EXCEPT ![task.id] = v]
  BY <1>5 DEF create_block
<1>7. /\ block'[task.id] = v /\ \A c \in Blocks \ {task.id} : block'[c] = block[c]
      /\ Known' = Known \cup {task.id} /\ Live' = Live \cup {task.id}
  BY <1>2, <1>6, OneBlockKnown DEF WikiInv, Shapes
<1>8. task.id \notin Known
  BY <1>2, NextIsNew DEF WikiInv
<1>9. Homes /\ Live \subseteq Known /\ Known \subseteq Blocks
  BY <1>1, RunNotPart, HomesBetween DEF Live, Known
<1>10. \A c \in Known : block'[c] = block[c]
  BY <1>7, <1>8, <1>9
<1>11. PageNames'
  BY <1>1, <1>3, <1>6, <1>7, <1>9 DEF Homes, PageNames, Rows
<1>12. FilesAtHome'
  <2>1. ASSUME NEW p \in Pages, NEW b \in On(p) \cap (Known \cup {task.id})
        PROVE  Sited(b, p)' /\ (block'[b].status = "deleted" => p \in broken)
    <3>1. CASE b \in Known
      BY <1>1, <1>9, <1>10, <2>1, <3>1 DEF Homes, FilesAtHome, Sited
    <3>2. CASE b = task.id
      BY <1>1, <1>3, <1>6, <1>7, <2>1, <3>2 DEF Sited
    <3> QED  BY <2>1, <3>1, <3>2
  <2> QED  BY <1>1, <1>7, <1>9, <2>1 DEF Homes, FilesAtHome, On
<1>13. BlocksAtHome'
  <2>1. ASSUME NEW b \in Live \cup {task.id}
        PROVE  /\ b \in On(block'[b].page) \/ block'[b].page \in broken
               /\ b \in On(block'[b].page) => block'[b].page \in broken \/ block'[b].status \in {file[block'[b].page].blocks[b].status, "needs_review"}
    <3>1. CASE b \in Live
      BY <1>9, <1>10, <3>1 DEF Homes, BlocksAtHome, StatusAt
    <3>2. CASE b = task.id
      BY <1>3, <1>6, <1>7, <3>2
    <3> QED  BY <2>1, <3>1, <3>2
  <2> QED  BY <1>1, <1>7, <2>1 DEF BlocksAtHome, StatusAt, On
<1>14. RowsAtHome'
  <2>1. ASSUME NEW r \in Rows, rows[r].peer = "none", Stands(rows[r].existing)'
        PROVE  Sited(rows[r].existing, rows[r].page)'
    <3>1. rows[r].existing \in Known
      BY <2>1 DEF WikiInv, IdsInv
    <3>2. Stands(rows[r].existing)
      BY <1>1, <1>7, <1>8, <2>1, <3>1 DEF Stands, On
    <3> QED  BY <1>1, <1>9, <1>10, <2>1, <3>1, <3>2 DEF Homes, RowsAtHome, Sited
  <2> QED  BY <1>1, <2>1 DEF RowsAtHome, Rows
<1>15. Homes'
  BY <1>11, <1>12, <1>13, <1>14 DEF Homes
<1>16. Unstaged' /\ task'.op # "apply"
  BY <1>4 DEF Unstaged
<1> QED  BY <1>15, <1>16, UnstagedHome, HomesAlways

(* The marker of a conflict is written on a page that is otherwise the same. *)
LEMMA apply_pending_conflict_markerHome ==
    ASSUME WikiInv, HomeInv, apply_pending_conflict_marker
    PROVE  HomeInv'
<1>1. task.op = "run" /\ task.at = "marker" /\ task # Idle /\ UNCHANGED <<block, rows>> /\ broken \subseteq broken'
  BY DEF apply_pending_conflict_marker, At, Idle
<1>2. CASE write_page(task.p, List(add_pending_marker(task.old, task.id, task.r), task.p)) /\ Goto("conflicted")
  <2>1. PICK f : f = add_pending_marker(file[task.p], task.id, task.r)
    OBVIOUS
  <2>2. PICK g : g = List(f, task.p)
    OBVIOUS
  <2>3. file' = [file EXCEPT ![task.p] = g]
    BY <1>2, <2>1, <2>2 DEF write_page
  <2>4. ASSUME task.p \in Pages
        PROVE  g.there /\ DOMAIN g.blocks = On(task.p) /\ \A c \in On(task.p) : g.blocks[c].status = file[task.p].blocks[c].status
    <3>1. /\ DOMAIN f.blocks = On(task.p) /\ IsPage(f)
          /\ \A c \in On(task.p) : f.blocks[c].status = file[task.p].blocks[c].status
      <4>1. IsPage(file[task.p])
        BY <2>4 DEF WikiInv, Shapes, FileShape
      <4>2. Repending(file[task.p], task.id, file[task.p].blocks[task.id].pending \cup {task.r}, f)
        BY <2>1, <4>1, MarkerOfOne
      <4> QED  BY <4>2 DEF Repending, On
    <3>2. g.there /\ g.blocks = f.blocks
      BY <2>2, <3>1 DEF List, IsPage
    <3> QED  BY <3>1, <3>2
  <2>5. \A p \in Pages : /\ On(p)' = On(p) /\ (file[p].there => file'[p].there)
                         /\ \A c \in On(p) : file'[p].blocks[c].status = file[p].blocks[c].status
    BY <2>3, <2>4 DEF WikiInv, Shapes, FileShape, On
  <2>6. Homes
    BY <1>1, RunNotPart, HomesBetween
  <2>7. Known' = Known /\ Live' = Live /\ Live \subseteq Blocks
    BY <1>1 DEF Known, Live
  <2>8. NothingMoves
    BY <1>1, <2>5, <2>6, <2>7 DEF NothingMoves, Homes, FilesAtHome
  <2>9. StatusesRight'
    <3>1. ASSUME NEW c \in Live, c \in On(block[c].page)'
          PROVE  StatusAt(block[c].page, c)'
      <4>1. block[c].page \in Pages
        BY <2>6, <2>7, <3>1 DEF Homes, PageNames
      <4>2. StatusAt(block[c].page, c)
        BY <1>1, <2>5, <2>6, <3>1, <4>1 DEF Homes, BlocksAtHome, On
      <4> QED  BY <1>1, <2>5, <3>1, <4>1, <4>2 DEF StatusAt, On
    <3> QED  BY <1>1, <2>7, <3>1 DEF StatusesRight
  <2>10. Homes'
    BY <1>1, <2>6, <2>8, <2>9, SameRowsMore, HomesShown
  <2>11. Unstaged' /\ task'.op # "apply"
    BY <1>1, <1>2, GotoTask DEF WikiInv, Unstaged
  <2> QED  BY <2>10, <2>11, UnstagedHome, HomesAlways
<1>3. CASE Run("next", {}, NoBlocks) /\ UNCHANGED file
  <2>1. task'.op = "run" /\ task'.at = "next"
    BY <1>3, RunTask DEF NoBlocks
  <2> QED  BY <1>1, <1>3, <2>1, SameFilesSamePages, SameBlocksSameInventory, SameRowsMore, RunHomeStep
<1> QED  BY <1>2, <1>3 DEF apply_pending_conflict_marker

(* Steps of a run that write nothing about pages.                          *)
LEMMA QuietRunHome ==
    ASSUME WikiInv, HomeInv, mark_placed \/ ReadMarked \/ mark_conflicted_pending \/ emit_review_file
    PROVE  HomeInv'
<1>1. task.op = "run" /\ task # Idle /\ UNCHANGED <<file, block, rows, broken>>
  BY DEF mark_placed, ReadMarked, mark_conflicted_pending, emit_review_file, storeVars, historyVars, At, Idle
<1>2. task'.op = "run" /\ task'.at \in {"next", "place", "marker", "render"}
  <2>1. CASE mark_placed
    <3>1. PICK cs : Run("next", task.todo, NoBlocks) \/ task' = [task EXCEPT !.cs = cs]
      BY <2>1 DEF mark_placed
    <3>2. CASE Run("next", task.todo, NoBlocks)
      BY <3>2, RunTask DEF NoBlocks
    <3>3. CASE task' = [task EXCEPT !.cs = cs]
      BY <2>1, <3>3 DEF mark_placed, At
    <3> QED  BY <3>1, <3>2, <3>3
  <2>2. CASE ReadMarked
    <3>1. PICK f, more : f = [task EXCEPT !.at = "marker", !.mine = @ \cup {task.r}] /\ more = [old |-> file[task.p]]
      OBVIOUS
    <3>2. task' = With(f, more) /\ DOMAIN more = {"old"} /\ task.op = "run"
      BY <2>2, <3>1 DEF ReadMarked, At
    <3>3. {"op", "at"} \subseteq DOMAIN f /\ f.op = "run" /\ f.at = "marker"
      BY <1>1, <3>1 DEF WikiInv, TaskInv
    <3> QED  BY <3>2, <3>3 DEF With
  <2>3. CASE mark_conflicted_pending
    BY <2>3, RunTask DEF mark_conflicted_pending, NoBlocks
  <2>4. CASE emit_review_file
    BY <1>1, <2>4, GotoTask DEF emit_review_file, WikiInv
  <2> QED  BY <2>1, <2>2, <2>3, <2>4
<1> QED  BY <1>1, <1>2, SameFilesSamePages, SameBlocksSameInventory, SameRowsMore, RunHomeStep

(* A row is opened on two pages, which are not the same.                   *)
LEMMA TaxonomyRowHome ==
    ASSUME WikiInv, HomeInv, NEW p \in Pages, NEW q \in Pages, TaxonomyRow(p, q)
    PROVE  HomeInv'
<1>1. task.op = "run" /\ task.at = "next" /\ UNCHANGED <<file, block, broken>>
  BY DEF TaxonomyRow, historyVars, At
<1>2. PICK v : v = [page |-> p, existing |-> 0, peer |-> q, applied |-> FALSE, candidate |-> NoCandidate]
  OBVIOUS
<1>3. rows' = Put(rows, Cardinality(Rows) + 1, v)
  BY <1>2 DEF TaxonomyRow
<1>4. p # q /\ q # "none"
  BY AlikeAssumption, WikiAssumption DEF TaxonomyRow
<1>5. RowPlaced(v)
  BY <1>2, <1>4 DEF RowPlaced
<1>6. MoreRows
  BY <1>3, <1>5, NextIsNew, OneRowMore DEF WikiInv
<1>7. PICK mine : task' = [task EXCEPT !.mine = mine]
  BY DEF TaxonomyRow
<1>8. task'.op = "run" /\ task'.at = "next"
  BY <1>1, <1>7
<1> QED  BY <1>1, <1>6, <1>8, SameFilesSamePages, SameBlocksSameInventory, RunHomeStep

(* A row is opened on a stale block, about the page of the block.          *)
LEMMA create_stale_block_reviewsHome ==
    ASSUME WikiInv, HomeInv, create_stale_block_reviews
    PROVE  HomeInv'
<1>1. task.op = "run" /\ task # Idle /\ UNCHANGED <<file, block, broken>>
  BY DEF create_stale_block_reviews, historyVars, At, Idle
<1>2. CASE Goto("emit") /\ UNCHANGED rows
  <2>1. task'.op = "run" /\ task'.at = "emit"
    BY <1>1, <1>2, GotoTask DEF WikiInv
  <2> QED  BY <1>1, <1>2, <2>1, SameFilesSamePages, SameBlocksSameInventory, SameRowsMore, RunHomeStep
<1>3. CASE ~(Goto("emit") /\ UNCHANGED rows)
  <2>1. PICK b, mine :
           /\ b \in Unreviewed
           /\ rows' = Put(rows, Cardinality(Rows) + 1,
                          [page |-> block[b].page, existing |-> b, peer |-> "none", applied |-> FALSE, candidate |-> NoCandidate])
           /\ Run("list", {}, [p |-> block[b].page, mine |-> mine, had_work |-> FALSE])
    BY <1>3 DEF create_stale_block_reviews
  <2>2. PICK v : v = [page |-> block[b].page, existing |-> b, peer |-> "none", applied |-> FALSE, candidate |-> NoCandidate]
    OBVIOUS
  <2>3. block[b].page \in Pages
    BY <2>1 DEF Unreviewed, Live, Known, HomeInv, PageNames
  <2>4. RowPlaced(v)
    BY <2>2, <2>3 DEF RowPlaced, Sited
  <2>5. MoreRows
    BY <2>1, <2>2, <2>4, NextIsNew, OneRowMore DEF WikiInv
  <2>6. PICK more : more = [p |-> block[b].page, mine |-> mine, had_work |-> FALSE]
    OBVIOUS
  <2>7. Run("list", {}, more) /\ DOMAIN more = {"p", "mine", "had_work"}
    BY <2>1, <2>6
  <2>8. task'.op = "run" /\ task'.at = "list"
    BY <2>7, RunTask
  <2> QED  BY <1>1, <2>5, <2>8, SameFilesSamePages, SameBlocksSameInventory, RunHomeStep
<1> QED  BY <1>2, <1>3

(* The page of a stale block lists it.                                     *)
LEMMA ListStaleHome ==
    ASSUME WikiInv, HomeInv, ListStale
    PROVE  HomeInv'
<1>1. task.op = "run" /\ UNCHANGED <<block, rows, broken>> /\ Run("next", {}, NoBlocks)
  BY DEF ListStale, historyVars, At
<1>2. PICK f : f = List(file[task.p], task.p)
  OBVIOUS
<1>3. file' = [file EXCEPT ![task.p] = f]
  BY <1>2 DEF ListStale
<1>4. task.p \in Pages => SamePage(file[task.p], f)
  BY <1>2, SameListed DEF WikiInv, Shapes, FileShape
<1>5. SamePages
  BY <1>3, <1>4, OneFileSame DEF WikiInv, Shapes
<1>6. task'.op = "run" /\ task'.at = "next"
  BY <1>1, RunTask DEF NoBlocks
<1> QED  BY <1>1, <1>5, <1>6, SameBlocksSameInventory, SameRowsMore, RunHomeStep

(* The generated sections are written.                                     *)
LEMMA RenderHome ==
    ASSUME WikiInv, HomeInv, Render
    PROVE  HomeInv'
<1>1. /\ task # Idle /\ task.at = "render" /\ task.op \in {"run", "apply", "taxonomy"}
      /\ UNCHANGED <<block, rows, broken>> /\ {"op", "at"} \subseteq DOMAIN task
  BY DEF Render, At, Idle, WikiInv, TaskInv
<1>2. PICK skipped : file' = Rendered(skipped) /\ (Goto("commit") \/ task' = Idle)
  BY DEF Render
<1>3. SamePages
  BY <1>2, SameRendered DEF SamePages, WikiInv, Shapes, FileShape
<1>4. task' = Idle \/ (task'.op = task.op /\ task'.at = "commit" /\ (task.op = "apply" => task'.read = task.read))
  <2>1. CASE task' = Idle
    BY <2>1
  <2>2. CASE Goto("commit")
    <3>1. task.op = "apply" => "read" \in DOMAIN task
      BY DEF WikiInv, RowInv, ReadInv
    <3> QED  BY <1>1, <2>2, <3>1, GotoTask DEF WikiInv
  <2> QED  BY <1>2, <2>1, <2>2
<1>5. ~PartDone /\ Unstaged' /\ (task'.op = "apply" => task.op = "apply" /\ task'.read = task.read)
  BY <1>1, <1>4 DEF PartDone, Fated, Unstaged, Idle
<1> QED  BY <1>1, <1>3, <1>5, SameBlocksSameInventory, SameRowsMore, PlainHome

(* The operation ends.                                                     *)
LEMMA CommitWikiHome ==
    ASSUME WikiInv, HomeInv, CommitWiki
    PROVE  HomeInv'
<1>1. /\ task.at = "commit" /\ task' = Idle /\ UNCHANGED <<file, block, rows, broken>>
  BY DEF CommitWiki, At, historyVars
<1>2. ~PartDone /\ Unstaged' /\ task'.op # "apply"
  BY <1>1 DEF PartDone, Fated, Unstaged, Idle
<1> QED  BY <1>1, <1>2, SameFilesSamePages, SameBlocksSameInventory, SameRowsMore, PlainHome

(* An operation that ends leaves the pages broken of which it has only done a part. *)
LEMMA LeftBroken ==
    ASSUME WikiInv, HomeInv, task' = Idle, UNCHANGED <<file, block, rows>>, broken \subseteq broken',
           PartDone => task.p \in broken', PartDone /\ ~Fated => task.q \in broken'
    PROVE  HomeInv'
<1>1. /\ Known' = Known /\ Live' = Live /\ Rows' = Rows /\ Live \subseteq Known /\ Known \subseteq Blocks
      /\ \A p : On(p)' = On(p)
  BY DEF Known, Live, Rows, On
<1>2. Fated => task.p \in broken'
  BY DEF PartDone
<1>3. Unregistered \/ Merges({"register"}) \/ Merges({"rows"}) \/ Splits({"new", "moves"}) => {task.p, task.q} \subseteq broken'
  <2>1. ASSUME Unregistered \/ Merges({"register"}) \/ Merges({"rows"}) \/ Splits({"new", "moves"})
        PROVE  PartDone /\ ~Fated
    BY <2>1 DEF Unregistered, Merges, Splits, PartDone, Fated
  <2> QED  BY <2>1
<1>4. ASSUME NEW b, Aloft(b)
      PROVE  task.p \in broken'
  BY <1>4 DEF Aloft, At, Merges, Splits, PartDone, Fated
<1>5. ASSUME Unregistered, NEW b \in Moved \cap Known
      PROVE  block[b].page \in broken'
  <2>1. Cargo(task.p, task.q, task.blocks)
    BY <1>5 DEF Unregistered, Merges, Splits, HomeInv, StageHome, MergeHome, SplitHome
  <2>2. Sited(b, task.p)
    BY <1>5, <2>1 DEF Cargo, Moved
  <2> QED  BY <1>3, <1>5, <2>2 DEF Sited
<1>6. FilesAtHome'
  <2>1. ASSUME NEW p \in Pages, NEW b \in On(p) \cap Known
        PROVE  Sited(b, p)' /\ (block[b].status = "deleted" => p \in broken')
    <3>1. ShownAt(p, b)
      BY <2>1 DEF HomeInv, HomeFiles
    <3>2. Sited(b, p) => Sited(b, p)'
      BY DEF Sited
    <3>3. Unregistered /\ p = task.q /\ b \in Moved => Sited(b, p)'
      BY <1>3, <1>5, <2>1 DEF Sited
    <3> QED  BY <1>2, <3>1, <3>2, <3>3 DEF ShownAt
  <2> QED  BY <1>1, <2>1 DEF FilesAtHome, HomeInv, HomeFiles
<1>7. BlocksAtHome'
  <2>1. ASSUME NEW b \in Live
        PROVE  b \in On(block[b].page) \/ block[b].page \in broken'
    <3>1. PresentAt(block[b].page, b)
      BY <2>1 DEF HomeInv, HomeBlocks
    <3> QED  BY <1>4, <3>1 DEF PresentAt
  <2>2. ASSUME NEW b \in Live, b \in On(block[b].page)
        PROVE  StatusAt(block[b].page, b)'
    <3>1. SameStatus(block[b].page, b)
      BY <2>2 DEF HomeInv, HomeBlocks
    <3> QED  BY <1>2, <3>1 DEF SameStatus, StatusAt
  <2> QED  BY <1>1, <2>1, <2>2 DEF BlocksAtHome
<1>8. RowsAtHome'
  <2>1. ASSUME NEW r \in Rows, rows[r].peer = "none", Stands(rows[r].existing)
        PROVE  Sited(rows[r].existing, rows[r].page)'
    <3>1. RowAt(rows[r].page, rows[r].existing)
      BY <2>1 DEF HomeInv, HomeRows
    <3> QED  BY <1>3, <3>1 DEF RowAt, Sited
  <2> QED  BY <1>1, <2>1 DEF RowsAtHome, Stands
<1>9. Homes'
  BY <1>1, <1>6, <1>7, <1>8 DEF Homes, HomeInv, PageNames
<1>10. Unstaged' /\ task'.op # "apply"
  BY DEF Unstaged, Idle
<1> QED  BY <1>9, <1>10, UnstagedHome, HomesAlways

(* An operation is killed.                                                 *)
LEMMA KillHome ==
    ASSUME WikiInv, HomeInv, Kill
    PROVE  HomeInv'
<1>1. task' = Idle /\ UNCHANGED <<file, block, rows>> /\ broken \subseteq broken'
  BY DEF Kill, storeVars
<1>2. task.op = "apply" => \A r \in DOMAIN task.d : {rows[r].page, rows[r].peer} \subseteq broken'
  BY DEF Kill
<1>3. task.op = "taxonomy" => {task.p, task.q} \subseteq broken'
  BY DEF Kill
<1>4. Fated => task.p \in broken'
  <2>1. SUFFICES ASSUME Fated PROVE task.p \in broken'
    OBVIOUS
  <2>2. task.r \in DOMAIN task.d
    BY <2>1 DEF Fated, WikiInv, RowInv
  <2>3. rows[task.r].page = task.p \/ task.p \in broken
    BY <2>1 DEF Fated, HomeInv, StageHome, ApplyHome
  <2> QED  BY <1>1, <1>2, <2>1, <2>2, <2>3 DEF Fated
<1>5. PartDone /\ ~Fated => {task.p, task.q} \subseteq broken'
  <2>1. SUFFICES ASSUME PartDone, ~Fated PROVE {task.p, task.q} \subseteq broken'
    OBVIOUS
  <2>2. CASE task.op = "taxonomy"
    BY <1>3, <2>2
  <2>3. CASE task.op = "apply"
    <3>1. Merges({"target", "redirect", "register", "rows"})
      BY <2>1, <2>3 DEF PartDone, Merges, Renames
    <3>2. task.r \in DOMAIN task.d /\ rows[task.r].page = task.p /\ rows[task.r].peer = task.q
      BY <2>3, <3>1 DEF HomeInv, StageHome, MergeHome
    <3> QED  BY <1>2, <2>3, <3>2
  <2> QED  BY <2>1, <2>2, <2>3 DEF PartDone
<1> QED  BY <1>1, <1>4, <1>5, LeftBroken

(* What is beside an operation, and moves nothing, leaves it as it is.     *)
LEMMA AsideHome ==
    ASSUME WikiInv, HomeInv, SamePages, UNCHANGED <<task, block, rows, broken>>
    PROVE  HomeInv'
<1>1. /\ Known' = Known /\ Live' = Live /\ Rows' = Rows /\ Live \subseteq Known /\ Known \subseteq Blocks
      /\ PageNames'
  BY DEF Known, Live, Rows, HomeInv, PageNames
<1>2. \A p \in Pages : /\ On(p)' = On(p) /\ (file[p].there => file'[p].there)
                       /\ \A b \in On(p) : file'[p].blocks[b].status = file[p].blocks[b].status
                                           /\ file'[p].blocks[b].key = file[p].blocks[b].key
  BY DEF SamePages, SamePage, SameBlock, On
<1>3. Fated' = Fated /\ Unregistered' = Unregistered /\ Row' = Row /\ Moved' = Moved /\ \A d : Does(d)' = Does(d)
  BY DEF Fated, Unregistered, Merges, Renames, Splits, Row, Moved, Does
<1>4. ASSUME Fated PROVE Fate' = Fate
  <2>1. task.p \in Pages /\ Row.existing \in On(task.p)
    BY <1>4 DEF HomeInv, StageHome, ApplyHome, Fated
  <2>2. file'[task.p].blocks[Row.existing].key = file[task.p].blocks[Row.existing].key
    BY <1>2, <2>1
  <2>3. IsStale(task.r)' = IsStale(task.r)
    BY DEF IsStale, IsTaxonomy
  <2> QED  BY <1>3, <2>2, <2>3 DEF Fate
<1>5. HomeFiles'
  <2>1. \A p, b : ShownAt(p, b)' = ShownAt(p, b)
    BY <1>3 DEF ShownAt, Sited
  <2> QED  BY <1>1, <1>2, <2>1 DEF HomeInv, HomeFiles
<1>6. HomeBlocks'
  <2>1. \A b : Aloft(b)' = Aloft(b)
    BY DEF Aloft, Merges, Renames, Splits, Moved, At, Takes, IsStale, IsTaxonomy
  <2>2. \A b \in Live : block[b].page \in Pages
    BY <1>1 DEF HomeInv, PageNames
  <2>3. ASSUME NEW b \in Live PROVE PresentAt(block[b].page, b)'
    BY <1>2, <2>1, <2>2, <2>3 DEF HomeInv, HomeBlocks, PresentAt
  <2>4. ASSUME NEW b \in Live, b \in On(block[b].page) PROVE SameStatus(block[b].page, b)'
    <3>1. SameStatus(block[b].page, b)
      BY <2>4 DEF HomeInv, HomeBlocks
    <3>2. file'[block[b].page].blocks[b].status = file[block[b].page].blocks[b].status
      BY <1>2, <2>2, <2>4
    <3> QED  BY <1>3, <1>4, <3>1, <3>2 DEF SameStatus
  <2> QED  BY <1>1, <1>2, <2>2, <2>3, <2>4 DEF HomeBlocks
<1>7. HomeRows'
  <2>1. \A b : Stands(b)' = Stands(b) /\ Carried(b)' = Carried(b)
    BY <1>1, <1>2 DEF Stands, Carried, Splits, Moved, At
  <2> QED  BY <1>1, <2>1 DEF HomeInv, HomeRows, RowAt, Sited, Merges, Renames
<1>8. ASSUME NEW p, NEW q, NEW blocks, Cargo(p, q, blocks) PROVE Cargo(p, q, blocks)'
  BY <1>1, <1>2, <1>8 DEF Cargo, Sited
<1>9. ASSUME NEW q \in Pages, NEW blocks, Delivered(q, blocks) PROVE Delivered(q, blocks)'
  BY <1>2, <1>9 DEF Delivered
<1>10. MergeHome'
  <2>1. SUFFICES ASSUME Merges({"target", "redirect", "register", "rows"}) PROVE MergeHome'
    BY DEF MergeHome, Merges, Renames
  <2>2. task.p \in Pages /\ task.q \in Pages
    BY <2>1 DEF HomeInv, StageHome, MergeHome
  <2>3. MergeHome
    BY DEF HomeInv, StageHome
  <2> QED  BY <1>2, <1>3, <1>8, <1>9, <2>1, <2>2, <2>3 DEF MergeHome, Merges, Renames
<1>11. SplitHome'
  <2>1. SUFFICES ASSUME Splits({"source", "new", "moves"}) PROVE SplitHome'
    BY DEF SplitHome, Splits
  <2>2. SplitHome
    BY DEF HomeInv, StageHome
  <2>3. task.p \in Pages /\ task.q \in Pages
    BY <2>1, <2>2 DEF SplitHome, Cargo
  <2> QED  BY <1>2, <1>3, <1>8, <1>9, <2>1, <2>2, <2>3 DEF SplitHome, Splits
<1>12. RenameHome'
  <2>1. SUFFICES ASSUME Renames PROVE RenameHome'
    BY DEF RenameHome, Renames
  <2>2. RenameHome
    BY DEF HomeInv, StageHome
  <2>3. task.p \in Pages
    BY <2>1, <2>2 DEF RenameHome, Cargo
  <2> QED  BY <1>2, <1>8, <2>1, <2>2, <2>3 DEF RenameHome, Renames
<1>13. RunHome'
  BY <1>2 DEF HomeInv, StageHome, RunHome
<1>14. ApplyHome'
  <2>1. SUFFICES ASSUME task.op = "apply" PROVE ApplyHome'
    BY DEF ApplyHome
  <2>2. ApplyHome
    BY DEF HomeInv, StageHome
  <2>3. Takes' = Takes
    BY DEF Takes, IsStale, IsTaxonomy
  <2> QED  BY <1>2, <1>3, <1>4, <2>1, <2>2, <2>3 DEF ApplyHome
<1> QED  BY <1>1, <1>5, <1>6, <1>7, <1>10, <1>11, <1>12, <1>13, <1>14 DEF HomeInv, StageHome

--------------------------------------------------------------------------------
(* Decisions.                                                              *)

(* A block loses its evidence between operations.                          *)
LEMMA flag_blocksHome ==
    ASSUME WikiInv, HomeInv, NEW b \in Blocks, flag_blocks_with_only_superseded_chunks(b)
    PROVE  HomeInv'
<1>1. task = Idle /\ UNCHANGED <<file, rows, broken, task>> /\ block[b].status \notin {"unknown", "deleted"}
  BY DEF flag_blocks_with_only_superseded_chunks
<1>2. block' = [block EXCEPT ![b].status = "needs_review"]
  BY DEF flag_blocks_with_only_superseded_chunks
<1>3. /\ block'[b].status = "needs_review" /\ \A c \in Blocks \ {b} : block'[c] = block[c]
      /\ \A c \in Blocks : block'[c].page = block[c].page
  BY <1>2, StatusOfRow DEF WikiInv, Shapes
<1>4. Known' = Known /\ Live' = Live /\ Live \subseteq Blocks
  BY <1>1, <1>3 DEF Known, Live
<1>5. Homes
  BY <1>1, HomesBetween DEF PartDone, Fated, Idle
<1>6. NothingMoves
  BY <1>1, <1>3, <1>4, <1>5 DEF NothingMoves, Homes, FilesAtHome, On
<1>7. StatusesRight'
  <2>1. ASSUME NEW c \in Live, c \in On(block[c].page)
        PROVE  StatusAt(block[c].page, c)'
    <3>1. StatusAt(block[c].page, c)
      BY <1>5, <2>1 DEF Homes, BlocksAtHome
    <3> QED  BY <1>1, <1>3, <1>4, <2>1, <3>1 DEF StatusAt
  <2> QED  BY <1>1, <1>3, <1>4, <2>1 DEF StatusesRight, On
<1>8. Homes'
  BY <1>1, <1>5, <1>6, <1>7, SameRowsMore, HomesShown
<1>9. Unstaged' /\ task'.op # "apply"
  BY <1>1 DEF Unstaged, Idle
<1> QED  BY <1>8, <1>9, UnstagedHome, HomesAlways

(* The user edits the text of a block, which is where it was.              *)
LEMMA EditBlockHome ==
    ASSUME WikiInv, HomeInv, NEW p \in Pages, NEW b \in Blocks, EditBlock(p, b)
    PROVE  HomeInv'
<1>1. UNCHANGED <<task, block, rows, broken>> /\ b \in On(p)
  BY DEF EditBlock
<1>2. PICK v : v = [file[p].blocks[b] EXCEPT !.text = spent + 1]
  OBVIOUS
<1>3. PICK f : f = [file[p] EXCEPT !.blocks[b] = v]
  OBVIOUS
<1>4. file' = [file EXCEPT ![p] = f]
  BY <1>2, <1>3 DEF EditBlock
<1>5. IsPage(file[p]) /\ IsBlock(file[p].blocks[b])
  BY <1>1 DEF WikiInv, Shapes, FileShape, IsPage, IsBlocks, On
<1>6. SameBlock(file[p].blocks[b], v)
  BY <1>2, <1>5 DEF SameBlock, IsBlock
<1>7. SamePage(file[p], f)
  BY <1>3, <1>5, <1>6, SameOneBlock
<1>8. SamePages
  BY <1>4, <1>7, OneFileSame DEF WikiInv, Shapes
<1> QED  BY <1>1, <1>8, AsideHome

--------------------------------------------------------------------------------
(* Decisions.                                                              *)

(* Decisions are read, with rows about pages.                              *)
LEMMA StartApplyHome ==
    ASSUME WikiInv, HomeInv, StartApply
    PROVE  HomeInv'
<1>1. task = Idle /\ UNCHANGED <<rows, broken>> /\ block' = MarkedRows /\ file' = Marked
  BY DEF StartApply
<1>2. Homes
  BY <1>1, HomesBetween DEF PartDone, Fated, Idle
<1>3. Homes'
  BY <1>1, <1>2, MarkedSame, MarkedInventory, SameRowsMore, HomesStay DEF WikiInv, Shapes
<1>4. PICK d : task' = [op |-> "apply", at |-> "next", d |-> d, read |-> rows, changed |-> {}, affected |-> {}]
  BY DEF StartApply
<1>5. task'.op = "apply" /\ task'.at = "next" /\ task'.read = rows
  BY <1>4
<1>6. ReadHome'
  BY <1>1, <1>2, <1>5 DEF ReadHome, Homes, PageNames, Rows
<1>7. Unstaged'
  BY <1>5 DEF Unstaged
<1> QED  BY <1>3, <1>6, <1>7, UnstagedHome, HomesAlways

(* A step of decisions that moves nothing.                                 *)
LEMMA DecisionHome ==
    ASSUME WikiInv, HomeInv, task.op = "apply", ~PartDone, GoesOn,
           task'.at \in {"next", "merge", "emit", "applied", "refresh", "render", "commit"},
           SamePages, SameInventory, MoreRows, broken \subseteq broken'
    PROVE  HomeInv'
<1>1. Unstaged' /\ task'.read = task.read
  BY DEF Unstaged, GoesOn
<1> QED  BY <1>1, PlainHome

(* The page of the next row is read: the block is there.                   *)
LEMMA LoadPageHome ==
    ASSUME WikiInv, HomeInv, LoadPage
    PROVE  HomeInv'
<1>1. At("apply", "next") /\ UNCHANGED <<file, block, rows, broken>> /\ Undecided # {} /\ ~IsTaxonomy(NextRow)
  BY DEF LoadPage, storeVars, historyVars
<1>2. /\ task.op = "apply" /\ task.at = "next" /\ ReadInv /\ {"op", "at", "d", "read"} \subseteq DOMAIN task
  BY <1>1, ApplyBusy
<1>3. ~PartDone
  BY <1>2 DEF PartDone, Fated
<1>4. SamePages /\ SameInventory /\ MoreRows
  BY <1>1, SameFilesSamePages, SameBlocksSameInventory, SameRowsMore
<1>5. CASE task' = Idle
  BY <1>1, <1>3, <1>4, <1>5, PlainHome DEF Unstaged, Idle
<1>6. CASE task' # Idle
  <2>1. PICK r \in Undecided : r = NextRow
    BY <1>1, NextRowIsUndecided
  <2>2. PICK row : row = task.read[r]
    OBVIOUS
  <2>3. PICK more : /\ more = [at |-> "status", r |-> r, p |-> row.page, old |-> file[row.page], id |-> row.candidate.id]
                    /\ task' = With(task, more) /\ row.existing \in On(row.page)
    BY <1>6, <2>1, <2>2 DEF LoadPage, Raise
  <2>4. DOMAIN more = {"at", "r", "p", "old", "id"} /\ more.at = "status" /\ more.r = r /\ more.p = row.page
    BY <2>3
  <2>5. GoesOn /\ task'.at = "status" /\ task'.r = r /\ task'.p = row.page
    BY <1>2, <2>3, <2>4, WithGoesOn
  <2>6. /\ r \in DOMAIN task.read /\ r \in Rows /\ row.existing = rows[r].existing /\ rows[r].peer = "none"
        /\ row.existing \in Known
    BY <1>1, <1>2, <2>1, <2>2 DEF Undecided, ReadInv, IsTaxonomy, WikiInv, IdsInv
  <2>7. Homes
    BY <1>3, HomesBetween
  <2>8. row.page \in Pages
    BY <1>2, <2>2, <2>6 DEF HomeInv, StageHome, ApplyHome
  <2>9. rows[r].page = row.page \/ row.page \in broken
    <3>1. Sited(row.existing, row.page) /\ (block[row.existing].status = "deleted" => row.page \in broken)
      BY <2>3, <2>6, <2>7, <2>8 DEF Homes, FilesAtHome
    <3>2. Sited(row.existing, rows[r].page)
      BY <2>3, <2>6, <2>7, <2>8 DEF Homes, RowsAtHome, Stands
    <3> QED  BY <3>1, <3>2 DEF Sited
  <2>10. Homes'
    BY <1>1, <1>4, <2>7, HomesStay
  <2>11. Row' = row
    BY <2>2, <2>5 DEF Row, GoesOn
  <2>12. ApplyHome'
    <3>1. ReadHome'
      BY <1>2, <1>4, <2>5, ReadHomeStays DEF GoesOn
    <3>2. task'.p \in Pages /\ task'.p = Row'.page /\ Row'.existing \in On(task.p)'
      BY <1>1, <2>3, <2>5, <2>8, <2>11 DEF On
    <3>3. rows'[task'.r].page = task'.p \/ task'.p \in broken'
      BY <1>1, <2>5, <2>9
    <3>4. ~Fated'
      BY <2>5 DEF Fated
    <3>5. task'.at = "status"
      BY <2>5
    <3> QED  BY <3>1, <3>2, <3>3, <3>4, <3>5 DEF ApplyHome, ReadHome
  <2>13. StageHome' /\ ~Away'
    BY <1>2, <2>5, <2>12 DEF Away, GoesOn, StageHome, MergeHome, SplitHome, RenameHome, RunHome, Merges, Splits, Renames
  <2> QED  BY <2>10, <2>13, HomesAlways
<1> QED  BY <1>5, <1>6

(* A row about two pages is turned to.                                     *)
LEMMA TurnToPagesHome ==
    ASSUME WikiInv, HomeInv, TurnToPages
    PROVE  HomeInv'
<1>1. At("apply", "next") /\ UNCHANGED <<file, block, rows, broken>>
  BY DEF TurnToPages, storeVars, historyVars
<1>2. /\ task.op = "apply" /\ task.at = "next" /\ {"op", "at", "d", "read"} \subseteq DOMAIN task
  BY <1>1, ApplyBusy
<1>3. PICK at, more : /\ at \in {"merge", "applied"} /\ more = [at |-> at, r |-> NextRow]
                     /\ task' = With(task, more)
  BY DEF TurnToPages
<1>4. DOMAIN more = {"at", "r"} /\ more.at = at
  BY <1>3
<1>5. GoesOn /\ task'.at = at
  BY <1>2, <1>3, <1>4, WithGoesOn
<1> QED  BY <1>1, <1>2, <1>3, <1>5, SameFilesSamePages, SameBlocksSameInventory, SameRowsMore, DecisionHome DEF PartDone, Fated

(* Steps of decisions that write nothing about pages.                      *)
LEMMA QuietDecisionHome ==
    ASSUME WikiInv, HomeInv, EmitFollowUp \/ _finalize_candidate_dispositions
    PROVE  HomeInv'
<1>1. PICK at \in {"emit", "next"}, to \in {"applied", "refresh"} :
         At("apply", at) /\ Goto(to) /\ UNCHANGED <<file, block, rows, broken>>
  BY DEF EmitFollowUp, _finalize_candidate_dispositions, storeVars, historyVars
<1>2. task.op = "apply" /\ task.at = at
  BY <1>1 DEF At
<1>3. GoesOn /\ task'.at = to
  BY <1>1, <1>2, GotoGoesOn
<1> QED  BY <1>1, <1>2, <1>3, SameFilesSamePages, SameBlocksSameInventory, SameRowsMore, DecisionHome DEF PartDone, Fated

(* The row is applied.                                                     *)
LEMMA _mark_appliedHome ==
    ASSUME WikiInv, HomeInv, _mark_applied
    PROVE  HomeInv'
<1>1. At("apply", "applied") /\ UNCHANGED <<file, block, broken>>
  BY DEF _mark_applied, historyVars
<1>2. task.op = "apply" /\ task.at = "applied" /\ {"op", "at", "d", "read"} \subseteq DOMAIN task
  BY <1>1, ApplyBusy
<1>3. MoreRows
  <2>1. rows' = [rows EXCEPT ![task.r].applied = TRUE]
    BY DEF _mark_applied
  <2>2. ASSUME NEW r \in Rows
        PROVE  rows'[r].page = rows[r].page /\ rows'[r].existing = rows[r].existing /\ rows'[r].peer = rows[r].peer
    <3>1. IsRow(rows[r])
      BY <2>2 DEF WikiInv, Shapes, RowShape
    <3>2. PICK v : v = rows[r]
      OBVIOUS
    <3>3. rows'[r] \in {v, [v EXCEPT !.applied = TRUE]}
      BY <2>1, <2>2, <3>2 DEF Rows
    <3> QED  BY <3>1, <3>2, <3>3 DEF IsRow
  <2>3. Rows' = Rows
    BY <2>1 DEF Rows
  <2> QED  BY <2>2, <2>3 DEF MoreRows
<1>4. PICK affected : task' = [task EXCEPT !.at = "next", !.affected = affected]
  BY DEF _mark_applied
<1>5. GoesOn /\ task'.at = "next"
  BY <1>2, <1>4 DEF GoesOn
<1> QED  BY <1>1, <1>2, <1>3, <1>5, SameFilesSamePages, SameBlocksSameInventory, DecisionHome DEF PartDone, Fated

(* What is open is listed on the pages that changed.                       *)
LEMMA RefreshConflictsHome ==
    ASSUME WikiInv, HomeInv, RefreshConflicts
    PROVE  HomeInv'
<1>1. At("apply", "refresh") /\ UNCHANGED <<block, rows, broken>> /\ Goto("render")
  BY DEF RefreshConflicts, historyVars
<1>2. task.op = "apply" /\ task.at = "refresh"
  BY <1>1, ApplyBusy
<1>3. GoesOn /\ task'.at = "render"
  BY <1>1, <1>2, GotoGoesOn
<1>4. ASSUME NEW p \in Pages
      PROVE  SamePage(file[p], file'[p])
  <2>1. PICK listed : listed = ListedIn(p)
    OBVIOUS
  <2>2. file'[p] \in {file[p], [file[p] EXCEPT !.listed = listed]}
    BY <1>4, <2>1 DEF RefreshConflicts
  <2>3. IsPage(file[p])
    BY <1>4 DEF WikiInv, Shapes, FileShape
  <2> QED  BY <2>2, <2>3, SameGenerated, SameListed
<1>5. SamePages
  BY <1>4 DEF SamePages
<1> QED  BY <1>1, <1>2, <1>3, <1>5, SameBlocksSameInventory, SameRowsMore, DecisionHome DEF PartDone, Fated

(* What an operation on a row knows of its page and its block.             *)
LEMMA RowAtHome ==
    ASSUME WikiInv, HomeInv, task.op = "apply", task.at \in {"status", "create", "write"}
    PROVE  /\ task.p \in Pages /\ task.p = Row.page /\ Row.existing \in On(task.p) /\ Row.existing \in Known
           /\ Sited(Row.existing, task.p) /\ (rows[task.r].page = task.p \/ task.p \in broken)
           /\ ~Unregistered /\ ~Merges({"rows"}) /\ \A b : ~Carried(b)
<1>1. ~Unregistered /\ ~Merges({"rows"}) /\ \A b : ~Carried(b)
  BY DEF Unregistered, Merges, Splits, Carried, At
<1>2. /\ task.p \in Pages /\ task.p = Row.page /\ Row.existing \in On(task.p)
      /\ rows[task.r].page = task.p \/ task.p \in broken
  BY DEF HomeInv, StageHome, ApplyHome
<1>3. Row.existing \in Known
  BY RowFacts
<1>4. ShownAt(task.p, Row.existing)
  BY <1>2, <1>3 DEF HomeInv, HomeFiles
<1> QED  BY <1>1, <1>2, <1>3, <1>4 DEF ShownAt

(* The existing block gets its fate in the database, before its page is written. *)
LEMMA UpdateStatusHome ==
    ASSUME WikiInv, HomeInv, UpdateStatus
    PROVE  HomeInv'
<1>1. At("apply", "status") /\ UNCHANGED <<file, rows, broken>>
  BY DEF UpdateStatus, historyVars
<1>2. /\ task.op = "apply" /\ task.at = "status" /\ {"op", "at", "d", "read"} \subseteq DOMAIN task
      /\ {"r", "p", "id", "old"} \subseteq DOMAIN task
  BY <1>1, ApplyBusy, RowFacts
<1>3. /\ task.p \in Pages /\ task.p = Row.page /\ Row.existing \in On(task.p) /\ Row.existing \in Known
      /\ Sited(Row.existing, task.p) /\ (rows[task.r].page = task.p \/ task.p \in broken)
  BY <1>2, RowAtHome
<1>4. PICK id : task' = [task EXCEPT !.at = "create", !.id = id]
  BY DEF UpdateStatus
<1>5. GoesOn /\ task'.at = "create" /\ task'.r = task.r /\ task'.p = task.p
  BY <1>2, <1>4 DEF GoesOn
<1>6. Row' = Row /\ \A d : Does(d)' = Does(d)
  BY <1>5 DEF Row, Does, GoesOn
<1>7. PICK fate : fate = Fate
  OBVIOUS
<1>8. fate \in {"same", "deprecated", "conflicted", "deleted", "current"} /\ (fate = "deleted" => Does("delete_duplicate"))
  BY <1>7 DEF Fate, Does
<1>9. Fate' = fate
  <2>1. IsStale(task.r)' = IsStale(task.r)
    BY <1>1, <1>5 DEF IsStale, IsTaxonomy
  <2> QED  BY <1>1, <1>5, <1>6, <1>7, <2>1 DEF Fate
<1>10. /\ \A c \in Blocks : block'[c].page = block[c].page
       /\ \A c \in Blocks \ {Row.existing} : block'[c] = block[c]
       /\ block'[Row.existing].status = IF fate = "same" THEN block[Row.existing].status ELSE fate
  <2>1. PICK e \in Blocks : e = Row.existing
    BY <1>3 DEF Known
  <2>2. CASE fate = "same"
    BY <1>7, <2>2 DEF UpdateStatus
  <2>3. CASE fate # "same"
    <3>1. block' = [block EXCEPT ![e].status = fate]
      BY <1>7, <2>1, <2>3 DEF UpdateStatus
    <3>2. /\ block'[e].status = fate /\ \A c \in Blocks \ {e} : block'[c] = block[c]
          /\ \A c \in Blocks : block'[c].page = block[c].page
      BY <3>1, StatusOfRow DEF WikiInv, Shapes
    <3> QED  BY <2>1, <2>3, <3>2
  <2> QED  BY <2>2, <2>3
<1>11. Known' = Known /\ Known \subseteq Blocks /\ Live \subseteq Known /\ Live' \subseteq Live \cup {Row.existing}
  BY <1>3, <1>8, <1>10 DEF Known, Live
<1>12. Homes
  BY <1>2, HomesBetween DEF PartDone, Fated
<1>13. Fated' /\ ~Unregistered' /\ ~Merges({"rows"})' /\ (\A b : ~Carried(b)') /\ (\A b : ~Aloft(b)')
  BY <1>5 DEF Fated, Unregistered, Merges, Splits, Carried, Aloft, At, GoesOn
<1>14. \A b \in Blocks : \A p : Sited(b, p)' = Sited(b, p)
  BY <1>1, <1>10 DEF Sited
<1>15. PageNames'
  BY <1>1, <1>10, <1>12 DEF Homes, PageNames, Rows
<1>16. HomeFiles'
  <2>1. ASSUME NEW p \in Pages, NEW b \in On(p) \cap Known
        PROVE  ShownAt(p, b)'
    <3>1. Sited(b, p) /\ (block[b].status = "deleted" => p \in broken)
      BY <1>12, <2>1 DEF Homes, FilesAtHome
    <3>2. Sited(b, p)'
      BY <1>11, <1>14, <2>1, <3>1
    <3>3. CASE b # Row.existing \/ fate = "same"
      BY <1>1, <1>10, <1>11, <2>1, <3>1, <3>2, <3>3 DEF ShownAt
    <3>4. CASE b = Row.existing /\ fate # "same"
      <4>1. p \in broken \/ p = task.p
        BY <1>3, <3>1, <3>4 DEF Sited
      <4> QED  BY <1>1, <1>5, <1>6, <1>8, <1>10, <1>13, <3>2, <3>4, <4>1 DEF ShownAt
    <3> QED  BY <3>3, <3>4
  <2> QED  BY <1>1, <1>11, <1>12, <2>1 DEF HomeFiles, Homes, FilesAtHome, On
<1>17. HomeBlocks'
  <2>1. ASSUME NEW b \in Live \cup {Row.existing}
        PROVE  /\ b \in On(block[b].page) \/ block[b].page \in broken
               /\ b \in On(block[b].page) => SameStatus(block[b].page, b)'
    <3>0. b \in Blocks /\ block'[b].page = block[b].page
      BY <1>3, <1>10, <1>11, <2>1
    <3>1. CASE b = Row.existing
      <4>1. block[b].page = task.p \/ block[b].page \in broken
        BY <1>3, <3>1 DEF Sited
      <4>2. CASE block[b].page \in broken
        BY <1>1, <3>0, <4>2 DEF SameStatus
      <4>3. CASE block[b].page = task.p /\ fate # "same"
        BY <1>3, <1>5, <1>6, <1>9, <1>13, <3>0, <3>1, <4>3 DEF SameStatus
      <4>4. CASE block[b].page = task.p /\ fate = "same" /\ block[b].page \notin broken
        <5>1. b \in Live
          BY <1>3, <1>12, <3>1, <4>4 DEF Homes, FilesAtHome, Live
        <5>2. StatusAt(block[b].page, b)
          BY <1>3, <1>12, <3>1, <4>4, <5>1 DEF Homes, BlocksAtHome
        <5>3. block'[b].status = block[b].status
          BY <1>10, <3>1, <4>4
        <5> QED  BY <1>1, <1>3, <3>0, <3>1, <4>4, <5>2, <5>3 DEF SameStatus, StatusAt
      <4> QED  BY <4>1, <4>2, <4>3, <4>4
    <3>2. CASE b # Row.existing
      <4>1. b \in Live /\ block'[b] = block[b]
        BY <1>10, <1>11, <2>1, <3>2
      <4> QED  BY <1>1, <1>12, <4>1 DEF Homes, BlocksAtHome, SameStatus, StatusAt
    <3> QED  BY <3>1, <3>2
  <2> QED  BY <1>1, <1>3, <1>10, <1>11, <2>1 DEF HomeBlocks, PresentAt, On
<1>18. HomeRows'
  <2>1. ASSUME NEW r \in Rows, rows[r].peer = "none", Stands(rows[r].existing)'
        PROVE  Sited(rows[r].existing, rows[r].page)'
    <3>1. Stands(rows[r].existing)
      BY <1>1, <1>3, <1>11, <2>1 DEF Stands, On
    <3>2. rows[r].existing \in Blocks
      BY <3>1 DEF Stands, Live, Known
    <3>3. Sited(rows[r].existing, rows[r].page)
      BY <1>12, <2>1, <3>1 DEF Homes, RowsAtHome
    <3> QED  BY <1>1, <1>14, <3>2, <3>3
  <2> QED  BY <1>1, <1>13, <2>1 DEF HomeRows, RowAt, Rows
<1>19. ApplyHome'
  <2>1. ReadHome'
    BY <1>1, <1>2, <1>5, SameRowsMore, ReadHomeStays DEF GoesOn
  <2>2. task'.p \in Pages /\ task'.p = Row'.page /\ Row'.existing \in On(task.p)' /\ (rows'[task'.r].page = task'.p \/ task'.p \in broken')
    BY <1>1, <1>3, <1>5, <1>6 DEF On
  <2>3. Fate' = "same" \/ block'[Row'.existing].status = Fate'
    BY <1>6, <1>9, <1>10
  <2>4. task'.at = "create"
    BY <1>5
  <2> QED  BY <2>1, <2>2, <2>3, <2>4 DEF ApplyHome, ReadHome
<1>20. StageHome'
  BY <1>5, <1>19 DEF GoesOn, StageHome, MergeHome, SplitHome, RenameHome, RunHome, Merges, Splits, Renames
<1> QED  BY <1>15, <1>16, <1>17, <1>18, <1>20 DEF HomeInv

(* The database may get a block, which its page gets next.                 *)
LEMMA FatedGoesOn ==
    ASSUME WikiInv, HomeInv, task.op = "apply", task.at = "create", UNCHANGED <<file, broken>>, MoreRows,
           \A r \in Rows' \ Rows : rows'[r].existing \in Known,
           GoesOn, task'.at = "write", task'.r = task.r, task'.p = task.p, rows'[task.r] = rows[task.r],
           \A b \in Known : b \in Known' /\ block'[b] = block[b], \A b \in Blocks : block'[b].page \in Pages,
           \A b \in Known' \ Known : b \in Live' /\ block'[b].page = task.p /\ Aloft(b)' /\ \A p \in Pages : b \notin On(p),
           Takes' => /\ block'[task'.id].page = task.p
                     /\ block'[task'.id].status = IF Does("mark_conflicted") THEN "conflicted" ELSE "current"
    PROVE  HomeInv'
<1>1. /\ task.p \in Pages /\ task.p = Row.page /\ Row.existing \in On(task.p) /\ Row.existing \in Known
      /\ rows[task.r].page = task.p \/ task.p \in broken
      /\ ~Unregistered /\ ~Merges({"rows"}) /\ \A b : ~Carried(b)
  BY RowAtHome
<1>2. Row' = Row /\ \A d : Does(d)' = Does(d)
  BY DEF Row, Does, GoesOn
<1>3. Fate' = Fate
  <2>1. IsStale(task.r)' = IsStale(task.r)
    BY DEF IsStale, IsTaxonomy
  <2> QED  BY <1>2, <2>1 DEF Fate
<1>4. Fated /\ Fated' /\ (\A b : ~Aloft(b)) /\ ~Unregistered' /\ ~Merges({"rows"})' /\ (\A b : ~Carried(b)')
  BY DEF Fated, Aloft, Merges, Splits, Unregistered, Carried, At, GoesOn
<1>5. \A p : On(p)' = On(p)
  BY DEF On
<1>6. PageNames'
  <2>1. ASSUME NEW r \in Rows'
        PROVE  rows'[r].page \in Pages /\ (rows'[r].peer # "none" => rows'[r].existing = 0 /\ rows'[r].peer \in Pages \ {rows'[r].page})
    BY <2>1 DEF HomeInv, PageNames, MoreRows, RowPlaced
  <2> QED  BY <2>1 DEF PageNames
<1>7. HomeFiles'
  <2>1. ASSUME NEW p \in Pages, NEW b \in On(p), b \in Known'
        PROVE  ShownAt(p, b)'
    <3>1. b \in Known /\ block'[b] = block[b]
      BY <2>1
    <3>2. ShownAt(p, b)
      BY <2>1, <3>1 DEF HomeInv, HomeFiles
    <3> QED  BY <1>1, <1>2, <1>4, <3>1, <3>2 DEF ShownAt, Sited
  <2> QED  BY <1>5, <2>1 DEF HomeInv, HomeFiles
<1>8. HomeBlocks'
  <2>1. ASSUME NEW b, b \in Live'
        PROVE  PresentAt(block[b].page, b)' /\ (b \in On(block[b].page)' => SameStatus(block[b].page, b)')
    <3>1. CASE b \in Known
      <4>1. b \in Live /\ block'[b] = block[b]
        BY <2>1, <3>1 DEF Live
      <4>2. PresentAt(block[b].page, b) /\ (b \in On(block[b].page) => SameStatus(block[b].page, b))
        BY <4>1 DEF HomeInv, HomeBlocks
      <4>3. PresentAt(block[b].page, b)'
        BY <1>4, <1>5, <4>1, <4>2 DEF PresentAt
      <4>4. b \in On(block[b].page)' => SameStatus(block[b].page, b)'
        BY <1>2, <1>3, <1>4, <1>5, <4>1, <4>2 DEF SameStatus
      <4> QED  BY <4>3, <4>4
    <3>2. CASE b \notin Known
      <4>1. block'[b].page = task.p /\ Aloft(b)' /\ b \notin On(task.p)'
        BY <1>1, <1>5, <2>1, <3>2 DEF Live
      <4> QED  BY <4>1 DEF PresentAt
    <3> QED  BY <3>1, <3>2
  <2> QED  BY <2>1 DEF HomeBlocks
<1>9. HomeRows'
  <2>1. ASSUME NEW r \in Rows', rows'[r].peer = "none", Stands(rows[r].existing)'
        PROVE  Sited(rows[r].existing, rows[r].page)'
    <3>1. PICK e, p : e = rows'[r].existing /\ p = rows'[r].page
      OBVIOUS
    <3>2. e \in Known
      BY <2>1, <3>1 DEF MoreRows, WikiInv, IdsInv
    <3>3. block'[e] = block[e]
      BY <3>2
    <3>4. Sited(e, p)
      <4>1. CASE r \in Rows
        <5>1. Stands(e)
          BY <1>5, <2>1, <3>1, <3>2, <3>3 DEF Stands, Live
        <5>2. RowAt(p, e)
          BY <2>1, <3>1, <4>1, <5>1 DEF HomeInv, HomeRows, MoreRows
        <5> QED  BY <1>1, <5>2 DEF RowAt
      <4>2. CASE r \notin Rows
        BY <2>1, <3>1, <4>2 DEF MoreRows, RowPlaced
      <4> QED  BY <4>1, <4>2
    <3> QED  BY <3>1, <3>3, <3>4 DEF Sited
  <2> QED  BY <1>4, <2>1 DEF HomeRows, RowAt
<1>10. ApplyHome'
  <2>1. ReadHome'
    BY ReadHomeStays DEF GoesOn
  <2>2. task'.p \in Pages /\ task'.p = Row'.page /\ Row'.existing \in On(task.p)' /\ (rows'[task'.r].page = task'.p \/ task'.p \in broken')
    BY <1>1, <1>2, <1>5
  <2>3. Fate' = "same" \/ block'[Row'.existing].status = Fate'
    <3>1. Fate = "same" \/ block[Row.existing].status = Fate
      BY <1>4 DEF HomeInv, StageHome, ApplyHome
    <3> QED  BY <1>1, <1>2, <1>3, <3>1
  <2> QED  BY <1>2, <2>1, <2>2, <2>3 DEF ApplyHome, ReadHome
<1>11. StageHome'
  BY <1>10 DEF GoesOn, StageHome, MergeHome, SplitHome, RenameHome, RunHome, Merges, Splits, Renames
<1> QED  BY <1>6, <1>7, <1>8, <1>9, <1>11 DEF HomeInv

(* The candidate is committed as a block of the page, or a row is opened on the merge. *)
LEMMA CreateAcceptedHome ==
    ASSUME WikiInv, HomeInv, CreateAccepted
    PROVE  HomeInv'
<1>1. At("apply", "create") /\ UNCHANGED file
  BY DEF CreateAccepted
<1>2. /\ task.op = "apply" /\ task.at = "create" /\ ReadInv /\ {"op", "at", "d", "read"} \subseteq DOMAIN task
  BY <1>1, ApplyBusy
<1>3. /\ {"r", "p", "id", "old"} \subseteq DOMAIN task /\ task.r \in Rows /\ IsRow(Row)
      /\ Row.candidate = rows[task.r].candidate
      /\ Row.existing \in Known /\ Row.peer = "none" /\ rows[task.r].peer = "none"
  BY <1>2, RowFacts
<1>4. /\ task.p \in Pages /\ task.p = Row.page /\ Row.existing \in On(task.p) /\ Sited(Row.existing, task.p)
  BY <1>2, RowAtHome
<1>5. /\ task.d[task.r] \in {"approved_merge", "merge"} => task.id = NextBlock /\ task.id \in Blocks
      /\ task.d[task.r] \notin {"approved_merge", "merge"} => task.id = rows[task.r].candidate.id
  BY <1>2 DEF WikiInv, RowInv
<1>6. \A b \in Blocks : block[b].page \in Pages
  BY DEF HomeInv, PageNames
<1>7. CASE Takes /\ task.id \in Known
  <2>1. UNCHANGED <<block, rows>> /\ task' = Idle /\ broken' = broken \cup {task.p}
    BY <1>7 DEF CreateAccepted, Fail, Takes, Does, Accepts
  <2>2. Fated
    BY <1>2 DEF Fated
  <2> QED  BY <1>1, <2>1, <2>2, LeftBroken
<1>8. CASE Takes /\ task.id \notin Known
  <2>1. PICK status, affected, v :
           /\ status = IF Does("mark_conflicted") THEN "conflicted" ELSE "current"
           /\ v = [page |-> task.p, key |-> Row.candidate.key, edited |-> FALSE, status |-> status]
           /\ block' = [block EXCEPT ![task.id] = v] /\ UNCHANGED <<rows, broken>>
           /\ task' = [task EXCEPT !.at = "write", !.affected = affected]
    BY <1>8 DEF CreateAccepted, Takes, Does, Accepts
  <2>2. v.page = task.p /\ v.status = status /\ status \notin {"unknown", "deleted"}
    BY <2>1
  <2>3. task.id \in Blocks /\ (task.id = NextBlock \/ task.id \in Offered)
    <3>1. CASE task.d[task.r] \in {"approved_merge", "merge"}
      BY <1>5, <3>1
    <3>2. CASE task.d[task.r] \notin {"approved_merge", "merge"}
      <4>1. rows[task.r].candidate # NoCandidate
        BY <1>3, <1>8 DEF Takes, IsStale, IsTaxonomy
      <4>2. task.id \in Blocks /\ task.id = rows[task.r].candidate.id
        BY <1>3, <1>5, <3>2, <4>1 DEF WikiInv, IdsInv
      <4>3. task.id # 0
        BY <4>2, WikiAssumption DEF Blocks
      <4> QED  BY <1>3, <4>2, <4>3 DEF Offered
    <3> QED  BY <3>1, <3>2
  <2>4. /\ block'[task.id] = v /\ \A c \in Blocks \ {task.id} : block'[c] = block[c]
        /\ Known' = Known \cup {task.id} /\ Live' = Live \cup {task.id}
    BY <2>1, <2>2, <2>3, OneBlockKnown DEF WikiInv, Shapes
  <2>5. \A p \in Pages : task.id \notin On(p)
    <3>1. task.id \notin Known \cup orphans
      BY <1>8, <2>3, NextIsNew DEF WikiInv, IdsInv
    <3> QED  BY <1>2, <3>1 DEF WikiInv, PlacesInv, Writing, At
  <2>6. /\ GoesOn /\ task'.at = "write" /\ task'.r = task.r /\ task'.id = task.id /\ task'.p = task.p
    BY <1>2, <1>3, <2>1 DEF GoesOn
  <2>7. Takes'
    BY <1>8, <2>1, <2>6 DEF Takes, IsStale, IsTaxonomy, GoesOn
  <2>8. \A b : b = task'.id => Aloft(b)'
    BY <2>6, <2>7 DEF Aloft, At, GoesOn
  <2>9. \A b \in Known : b \in Known' /\ block'[b] = block[b]
    BY <1>8, <2>4 DEF Known
  <2>10. \A b \in Known' \ Known : b \in Live' /\ block'[b].page = task.p /\ Aloft(b)' /\ \A p \in Pages : b \notin On(p)
    BY <2>2, <2>4, <2>5, <2>6, <2>8
  <2>11. \A b \in Blocks : block'[b].page \in Pages
    BY <1>4, <1>6, <2>2, <2>4
  <2>12. block'[task'.id].page = task.p /\ block'[task'.id].status = IF Does("mark_conflicted") THEN "conflicted" ELSE "current"
    BY <2>1, <2>2, <2>4, <2>6
  <2>13. MoreRows /\ (\A r \in Rows' \ Rows : rows'[r].existing \in Known) /\ rows'[task.r] = rows[task.r]
    BY <2>1, SameRowsMore DEF Rows
  <2> QED  BY <1>1, <1>2, <2>1, <2>6, <2>9, <2>10, <2>11, <2>12, <2>13, FatedGoesOn
<1>9. CASE ~Takes /\ task.d[task.r] = "merge"
  <2>1. PICK v, n : /\ v = [Row EXCEPT !.candidate.id = task.id]
                    /\ n = Cardinality(Rows) + 1
                    /\ rows' = Put(rows, n, v) /\ UNCHANGED <<block, broken>>
                    /\ task' = With([task EXCEPT !.at = "write"], [f |-> n])
    BY <1>9 DEF CreateAccepted, Takes, Does
  <2>2. v.page = task.p /\ v.existing = Row.existing /\ v.peer = "none"
    <3>1. PICK c : c = [Row.candidate EXCEPT !.id = task.id]
      OBVIOUS
    <3>2. v = [Row EXCEPT !.candidate = c]
      BY <2>1, <3>1
    <3> QED  BY <1>3, <1>4, <3>2 DEF IsRow
  <2>3. RowPlaced(v)
    BY <1>4, <2>2 DEF RowPlaced
  <2>4. n \notin Rows
    BY <2>1, NextIsNew DEF WikiInv
  <2>5. MoreRows
    BY <2>1, <2>3, <2>4, OneRowMore
  <2>6. /\ Rows' = Rows \cup {n} /\ rows'[n] = v /\ \A r \in Rows : rows'[r] = rows[r]
    BY <2>1, <2>4 DEF Put, With, Rows
  <2>7. PICK g, more : g = [task EXCEPT !.at = "write"] /\ more = [f |-> n]
    OBVIOUS
  <2>8. /\ DOMAIN g = DOMAIN task /\ g.at = "write" /\ DOMAIN more = {"f"}
        /\ \A x \in DOMAIN task \ {"at"} : g[x] = task[x]
    BY <1>2, <2>7
  <2>9. /\ DOMAIN task' = DOMAIN g \cup DOMAIN more
        /\ \A x \in DOMAIN g \ DOMAIN more : task'[x] = g[x]
    BY <2>1, <2>7 DEF With
  <2>10. task'["op"] = task["op"] /\ task'["d"] = task["d"] /\ task'["read"] = task["read"] /\ task'["r"] = task["r"]
        /\ task'["at"] = "write" /\ task'["p"] = task["p"]
    BY <1>2, <1>3, <2>8, <2>9
  <2>11. GoesOn /\ task'.at = "write" /\ task'.r = task.r /\ task'.p = task.p
    BY <1>2, <2>8, <2>9, <2>10 DEF GoesOn
  <2>12. ~Takes'
    BY <1>9, <2>11 DEF Takes, Accepts, GoesOn
  <2>13. Known' = Known
    BY <2>1 DEF Known
  <2>14. (\A r \in Rows' \ Rows : rows'[r].existing \in Known) /\ rows'[task.r] = rows[task.r]
    BY <1>3, <2>2, <2>6
  <2> QED  BY <1>1, <1>2, <1>6, <2>1, <2>5, <2>11, <2>12, <2>13, <2>14, FatedGoesOn
<1>10. CASE ~Takes /\ task.d[task.r] # "merge"
  <2>1. UNCHANGED <<block, rows, broken>> /\ Goto("write")
    BY <1>10 DEF CreateAccepted, Takes, Does
  <2>2. /\ GoesOn /\ task'.at = "write" /\ task'.r = task.r /\ task'.p = task.p
    BY <1>2, <1>3, <2>1, GotoGoesOn DEF Goto
  <2>3. ~Takes'
    BY <1>10, <2>1, <2>2 DEF Takes, IsStale, IsTaxonomy, GoesOn
  <2>4. Known' = Known
    BY <2>1 DEF Known
  <2>5. MoreRows /\ (\A r \in Rows' \ Rows : rows'[r].existing \in Known) /\ rows'[task.r] = rows[task.r]
    BY <2>1, SameRowsMore DEF Rows
  <2> QED  BY <1>1, <1>2, <1>6, <2>1, <2>2, <2>3, <2>4, <2>5, FatedGoesOn
<1> QED  BY <1>7, <1>8, <1>9, <1>10

(* What becomes of the markers of the block that a decision is about.      *)
Remarked(pending) ==
    IF IsStale(task.r) \/ Does("delete_duplicate") THEN pending
    ELSE IF Does("merge") THEN (pending \ {task.r}) \cup {task.f} ELSE pending \ {task.r}

(* A page as its block has its fate and the marker is gone.                *)
LEMMA FateOnPage ==
    ASSUME NEW f, IsPage(f), NEW h, h = WithMarker(WithFate(f))
    PROVE  /\ f.there => h.there
           /\ DOMAIN h.blocks = DOMAIN f.blocks
           /\ \A c \in DOMAIN f.blocks :
                 /\ h.blocks[c].status = IF c = Row.existing /\ Fate \notin {"same", "deleted"} THEN Fate ELSE f.blocks[c].status
                 /\ \/ IsStale(task.r) /\ Does("merge")
                    \/ h.blocks[c].pending = IF c = Row.existing THEN Remarked(f.blocks[c].pending) ELSE f.blocks[c].pending
<1>1. PICK fate, b, r, q : fate = Fate /\ b = Row.existing /\ r = task.r /\ q = task.f
  OBVIOUS
<1>2. PICK e : e = WithFate(f)
  OBVIOUS
<1>3. IsPage(e)
  BY <1>2, KeptFate DEF Kept
<1>4. /\ e.there = f.there /\ DOMAIN e.blocks = DOMAIN f.blocks
      /\ \A c \in DOMAIN f.blocks : /\ e.blocks[c].status = IF c = b /\ fate \notin {"same", "deleted"} THEN fate ELSE f.blocks[c].status
                                    /\ e.blocks[c].pending = f.blocks[c].pending
  <2>1. CASE fate \in {"same", "deleted"}
    BY <1>1, <1>2, <2>1 DEF WithFate
  <2>2. CASE fate \notin {"same", "deleted"}
    <3>1. e = set_status(f, b, fate)
      BY <1>1, <1>2, <2>2 DEF WithFate
    <3> QED  BY <2>2, <3>1, StatusOfOne
  <2> QED  BY <2>1, <2>2
<1>5. PICK g, k : g = remove_pending_marker(e, b, r) /\ k = add_pending_marker(g, b, q)
  OBVIOUS
<1>6. /\ IsPage(g) /\ g.there = e.there /\ DOMAIN g.blocks = DOMAIN e.blocks
      /\ \A c \in DOMAIN e.blocks : /\ g.blocks[c].status = e.blocks[c].status
                                    /\ g.blocks[c].pending = IF c = b THEN e.blocks[b].pending \ {r} ELSE e.blocks[c].pending
  <2>1. Repending(e, b, e.blocks[b].pending \ {r}, g)
    BY <1>3, <1>5, MarkerOfOne
  <2> QED  BY <2>1 DEF Repending
<1>7. /\ k.there = e.there /\ DOMAIN k.blocks = DOMAIN e.blocks
      /\ \A c \in DOMAIN e.blocks :
            /\ k.blocks[c].status = e.blocks[c].status
            /\ k.blocks[c].pending = IF c = b THEN (e.blocks[b].pending \ {r}) \cup {q} ELSE e.blocks[c].pending
  <2>1. Repending(g, b, g.blocks[b].pending \cup {q}, k)
    BY <1>5, <1>6, MarkerOfOne
  <2> QED  BY <1>6, <2>1 DEF Repending
<1>8. /\ h \in {e, g, k}
      /\ \/ IsStale(r) /\ Does("merge")
         \/ h = IF IsStale(r) \/ Does("delete_duplicate") THEN e ELSE IF Does("merge") THEN k ELSE g
  <2>1. CASE (IsStale(r) \/ Does("delete_duplicate")) /\ Does("merge")
    <3>1. IsStale(r) /\ ~Does("delete_duplicate")
      BY <2>1 DEF Does
    <3> QED  BY <1>1, <1>2, <1>5, <2>1, <3>1 DEF WithMarker
  <2>2. CASE (IsStale(r) \/ Does("delete_duplicate")) /\ ~Does("merge")
    BY <1>1, <1>2, <2>2 DEF WithMarker
  <2>3. CASE ~(IsStale(r) \/ Does("delete_duplicate")) /\ Does("merge")
    BY <1>1, <1>2, <1>5, <2>3 DEF WithMarker
  <2>4. CASE ~(IsStale(r) \/ Does("delete_duplicate")) /\ ~Does("merge")
    BY <1>1, <1>2, <1>5, <2>4 DEF WithMarker
  <2> QED  BY <2>1, <2>2, <2>3, <2>4
<1>9. /\ h.there = e.there /\ DOMAIN h.blocks = DOMAIN e.blocks
      /\ \A c \in DOMAIN e.blocks :
            /\ h.blocks[c].status = e.blocks[c].status
            /\ \/ IsStale(r) /\ Does("merge")
               \/ h.blocks[c].pending = IF c = b THEN Remarked(e.blocks[c].pending) ELSE e.blocks[c].pending
  <2>1. CASE IsStale(r) /\ Does("merge")
    BY <1>6, <1>7, <1>8, <2>1
  <2>2. CASE ~(IsStale(r) /\ Does("merge"))
    <3>1. CASE IsStale(r) \/ Does("delete_duplicate")
      BY <1>1, <1>8, <2>2, <3>1 DEF Remarked
    <3>2. CASE ~(IsStale(r) \/ Does("delete_duplicate")) /\ Does("merge")
      BY <1>1, <1>7, <1>8, <2>2, <3>2 DEF Remarked
    <3>3. CASE ~(IsStale(r) \/ Does("delete_duplicate")) /\ ~Does("merge")
      BY <1>1, <1>6, <1>8, <2>2, <3>3 DEF Remarked
    <3> QED  BY <3>1, <3>2, <3>3
  <2> QED  BY <2>1, <2>2
<1> QED  BY <1>1, <1>4, <1>9

(* The page that a decision writes shows what the database has by then.    *)
LEMMA DecidedPage ==
    ASSUME NEW f, IsPage(f), NEW g, g = WithCandidate(f), Does("delete_duplicate") \/ ~Takes \/ task.id \notin DOMAIN f.blocks
    PROVE  /\ f.there => g.there
           /\ Does("delete_duplicate") => DOMAIN g.blocks = DOMAIN f.blocks \ {Row.existing}
           /\ ~Does("delete_duplicate") => DOMAIN g.blocks = DOMAIN f.blocks \cup (IF Takes THEN {task.id} ELSE {})
           /\ \A c \in DOMAIN f.blocks \cap DOMAIN g.blocks :
                 g.blocks[c].status = f.blocks[c].status /\ g.blocks[c].pending = f.blocks[c].pending
           /\ Takes => /\ g.blocks[task.id].status = IF Does("mark_conflicted") THEN "conflicted" ELSE "current"
                       /\ g.blocks[task.id].pending = {}
<1>1. Does("delete_duplicate") => ~Takes
  BY DEF Does, Takes, Accepts
<1>2. CASE Does("delete_duplicate")
  <2>1. PICK e, blocks : e = Row.existing /\ blocks = [c \in DOMAIN f.blocks \ {e} |-> f.blocks[c]]
    OBVIOUS
  <2>2. g = _remove_block(f, e)
    BY <1>2, <2>1 DEF WithCandidate, Does, Takes, Accepts
  <2>3. g.blocks = blocks /\ g.there = f.there
    <3>1. PICK left : left = Restrict(f.blocks, DOMAIN f.blocks \ {e})
      OBVIOUS
    <3>2. g = [f EXCEPT !.blocks = left]
      BY <2>2, <3>1 DEF _remove_block
    <3>3. g.there = f.there
      BY <3>2 DEF IsPage
    <3> QED  BY <2>1, <2>2, <3>3, RemovedBlock
  <2> QED  BY <1>1, <1>2, <2>1, <2>3
<1>3. CASE ~Does("delete_duplicate") /\ Takes
  <2>1. PICK status : status = IF Does("mark_conflicted") THEN "conflicted" ELSE "current"
    OBVIOUS
  <2>2. PICK v : v = Drafted(Row.candidate.key, status)
    OBVIOUS
  <2>3. PICK listed : listed = {<<"row", task.r>>}
    OBVIOUS
  <2>4. PICK h \in {f, [f EXCEPT !.listed = listed]} : g = insert_block(h, task.id, v)
    BY <1>3, <2>1, <2>2, <2>3 DEF WithCandidate
  <2>5. IsPage(h) /\ h.blocks = f.blocks /\ h.there = f.there
    <3>1. IsPage([f EXCEPT !.listed = listed])
      BY KeptListed DEF Kept
    <3>2. [f EXCEPT !.listed = listed].blocks = f.blocks /\ [f EXCEPT !.listed = listed].there = f.there
      BY DEF IsPage
    <3> QED  BY <2>4, <3>1, <3>2
  <2>6. IsBlock(v) /\ v.status = status /\ v.pending = {}
    BY <2>2 DEF Drafted, IsBlock
  <2>7. /\ g.there /\ DOMAIN g.blocks = DOMAIN f.blocks \cup {task.id}
        /\ g.blocks[task.id] = v /\ \A c \in DOMAIN f.blocks \ {task.id} : g.blocks[c] = f.blocks[c]
    BY <2>4, <2>5, <2>6, OneBlockMore
  <2> QED  BY <1>3, <2>1, <2>6, <2>7
<1>4. CASE ~Does("delete_duplicate") /\ ~Takes
  BY <1>4 DEF WithCandidate
<1> QED  BY <1>2, <1>3, <1>4

(* The page is written as the decision leaves it, which is what the database has. *)
LEMMA _write_pageHome ==
    ASSUME WikiInv, HomeInv, _write_page
    PROVE  HomeInv'
<1>1. At("apply", "write") /\ UNCHANGED <<block, rows>>
  BY DEF _write_page
<1>2. /\ task.op = "apply" /\ task.at = "write" /\ ReadInv /\ {"op", "at", "d", "read"} \subseteq DOMAIN task
  BY <1>1, ApplyBusy
<1>3. Fated /\ ~Unregistered /\ ~Merges({"rows"}) /\ \A b : Aloft(b) => Takes /\ b = task.id
  BY <1>2 DEF Fated, Unregistered, Merges, Splits, Aloft, At
<1>4. CASE task' = Idle /\ UNCHANGED file
  <2>1. broken' = broken \cup {task.p}
    BY <1>2, <1>4 DEF _write_page, Fail, Idle
  <2> QED  BY <1>1, <1>3, <1>4, <2>1, LeftBroken
<1>5. CASE ~(task' = Idle /\ UNCHANGED file)
  <2>1. PICK p, e, id, f, g :
           /\ p = task.p /\ e = Row.existing /\ id = task.id
           /\ f = WithMarker(WithFate(file[p])) /\ g = WithCandidate(f)
    OBVIOUS
  <2>2. file' = [file EXCEPT ![p] = g] /\ UNCHANGED broken
    BY <1>5, <2>1 DEF _write_page, write_page, Fail
  <2>3. PICK at \in {"emit", "applied"} : \E changed : task' = [task EXCEPT !.at = at, !.changed = changed]
    BY <1>5 DEF _write_page, Fail
  <2>4. GoesOn /\ task'.at = at
    BY <1>2, <2>3 DEF GoesOn
  <2>5. /\ p \in Pages /\ p = Row.page /\ e \in On(p) /\ e \in Known
    BY <1>2, <2>1, RowAtHome
  <2>6. PICK fate : fate = Fate
    OBVIOUS
  <2>7. (fate = "deleted" <=> Does("delete_duplicate")) /\ (fate = "same" \/ block[e].status = fate)
    <3>1. fate = "same" \/ block[e].status = fate
      <4>1. Fate = "same" \/ block[Row.existing].status = Fate
        BY <1>2, <1>3 DEF HomeInv, StageHome, ApplyHome
      <4> QED  BY <2>1, <2>6, <4>1
    <3>2. fate = "deleted" <=> Does("delete_duplicate")
      BY <2>6 DEF Fate, Does
    <3> QED  BY <3>1, <3>2
  <2>8. Takes => /\ id \in Known /\ (\A y \in Pages : id \notin On(y)) /\ block[id].page = p
                 /\ block[id].status = IF Does("mark_conflicted") THEN "conflicted" ELSE "current"
    BY <1>2, <2>1 DEF WikiInv, RowInv, HomeInv, StageHome, ApplyHome
  <2>9. /\ file[p].there /\ IsPage(file[p]) /\ IsPage(f)
    <3>1. file[p].there /\ IsPage(file[p])
      BY <2>5 DEF HomeInv, HomeFiles, WikiInv, Shapes, FileShape
    <3>2. PICK w : w = WithFate(file[p])
      OBVIOUS
    <3>3. IsPage(w)
      BY <3>1, <3>2, KeptFate DEF Kept
    <3> QED  BY <2>1, <3>1, <3>2, <3>3, KeptFate DEF Kept
  <2>10. /\ f.there /\ DOMAIN f.blocks = On(p)
         /\ \A c \in On(p) : f.blocks[c].status = IF c = e /\ fate \notin {"same", "deleted"} THEN fate ELSE file[p].blocks[c].status
    BY <2>1, <2>6, <2>9, FateOnPage DEF On
  <2>11. /\ g.there
         /\ Does("delete_duplicate") => DOMAIN g.blocks = On(p) \ {e}
         /\ ~Does("delete_duplicate") => DOMAIN g.blocks = On(p) \cup (IF Takes THEN {id} ELSE {})
         /\ \A c \in On(p) \cap DOMAIN g.blocks : g.blocks[c].status = f.blocks[c].status
         /\ Takes => g.blocks[id].status = block[id].status
    BY <2>1, <2>5, <2>8, <2>9, <2>10, DecidedPage
  <2>12. Does("delete_duplicate") => ~Takes
    BY DEF Does, Takes, Accepts
  <2>13. On(p)' = DOMAIN g.blocks /\ file'[p] = g /\ \A y \in Pages \ {p} : file'[y] = file[y] /\ On(y)' = On(y)
    BY <2>2, <2>5 DEF WikiInv, Shapes, FileShape, On
  <2>14. Known' = Known /\ Live' = Live /\ Rows' = Rows /\ Live \subseteq Known
    BY <1>1 DEF Known, Live, Rows
  <2>15. FilesAtHome'
    <3>1. ASSUME NEW y \in Pages, NEW b \in Known, b \in On(y)'
          PROVE  Sited(b, y) /\ (block[b].status = "deleted" => y \in broken)
      <4>1. CASE b \in On(y)
        <5>1. ShownAt(y, b)
          BY <3>1, <4>1 DEF HomeInv, HomeFiles
        <5> QED  BY <1>3, <2>1, <2>11, <2>13, <3>1, <5>1 DEF ShownAt
      <4>2. CASE b \notin On(y)
        <5>1. y = p /\ Takes /\ b = id
          BY <2>11, <2>13, <3>1, <4>2
        <5>2. Sited(id, p) /\ block[id].status # "deleted"
          BY <2>8, <5>1 DEF Sited
        <5> QED  BY <5>1, <5>2
      <4> QED  BY <4>1, <4>2
    <3>2. \A y \in Pages : file'[y].there \/ On(y)' = {}
      BY <2>11, <2>13 DEF HomeInv, HomeFiles
    <3>3. \A b, y : Sited(b, y)' = Sited(b, y)
      BY <1>1, <2>2 DEF Sited
    <3> QED  BY <1>1, <2>2, <2>14, <3>1, <3>2, <3>3 DEF FilesAtHome
  <2>16. BlocksAtHome'
    <3>1. ASSUME NEW b \in Live, NEW y \in Pages, y = block[b].page
          PROVE  b \in On(y)' \/ y \in broken
      <4>1. PresentAt(y, b)
        BY <3>1 DEF HomeInv, HomeBlocks
      <4>2. CASE b \in On(y)
        <5>1. ~(Does("delete_duplicate") /\ b = e)
          BY <2>7, <2>8, <3>1 DEF Live, Fate, Does
        <5> QED  BY <2>11, <2>13, <3>1, <4>2, <5>1
      <4>3. CASE y = p /\ Takes /\ b = id
        <5>1. id \in DOMAIN g.blocks
          BY <2>11, <2>12, <4>3
        <5> QED  BY <2>13, <4>3, <5>1
      <4> QED  BY <1>3, <2>1, <4>1, <4>2, <4>3 DEF PresentAt
    <3>2. ASSUME NEW b \in Live, NEW y \in Pages, y = block[b].page, b \in On(y)'
          PROVE  y \in broken \/ block[b].status \in {file'[y].blocks[b].status, "needs_review"}
      <4>2. CASE y # p
        <5>1. b \in On(y) /\ file'[y] = file[y]
          BY <2>13, <3>2, <4>2
        <5>2. SameStatus(y, b)
          BY <3>2, <5>1 DEF HomeInv, HomeBlocks
        <5> QED  BY <2>1, <4>2, <5>1, <5>2 DEF SameStatus
      <4>3. CASE y = p /\ b \in On(p)
        <5>1. SameStatus(p, b) /\ b \in DOMAIN g.blocks
          BY <2>13, <3>2, <4>3 DEF HomeInv, HomeBlocks
        <5>2. g.blocks[b].status = IF b = e /\ fate \notin {"same", "deleted"} THEN fate ELSE file[p].blocks[b].status
          BY <2>10, <2>11, <4>3, <5>1
        <5>3. CASE b = e /\ fate \notin {"same", "deleted"}
          BY <2>7, <2>13, <4>3, <5>2, <5>3
        <5>4. CASE b = e /\ fate = "deleted"
          BY <2>7, <3>2, <5>4 DEF Live
        <5>5. CASE b # e \/ fate = "same"
          BY <2>1, <2>6, <2>13, <4>3, <5>1, <5>2, <5>5 DEF SameStatus
        <5> QED  BY <5>3, <5>4, <5>5
      <4>4. CASE y = p /\ b \notin On(p)
        <5>1. b \in DOMAIN g.blocks
          BY <2>13, <3>2, <4>4
        <5>2. Takes /\ b = id
          BY <2>11, <4>4, <5>1
        <5> QED  BY <2>11, <2>13, <4>4, <5>2
      <4> QED  BY <4>2, <4>3, <4>4
    <3>3. \A b \in Live : block[b].page \in Pages
      BY DEF HomeInv, PageNames, Live, Known
    <3> QED  BY <1>1, <2>2, <2>14, <3>1, <3>2, <3>3 DEF BlocksAtHome, StatusAt, On
  <2>17. RowsAtHome'
    <3>1. ASSUME NEW r \in Rows, rows[r].peer = "none", Stands(rows[r].existing)'
          PROVE  Sited(rows[r].existing, rows[r].page)
      <4>1. Stands(rows[r].existing)
        <5>1. \A b \in Known : Takes /\ b = id => b \in Live
          BY <2>8 DEF Live
        <5> QED  BY <1>1, <2>11, <2>13, <2>14, <3>1, <5>1 DEF Stands
      <4>2. RowAt(rows[r].page, rows[r].existing)
        BY <3>1, <4>1 DEF HomeInv, HomeRows
      <4> QED  BY <1>3, <4>2 DEF RowAt
    <3> QED  BY <1>1, <2>2, <2>14, <3>1 DEF RowsAtHome, Sited
  <2>18. Homes'
    BY <1>1, <2>14, <2>15, <2>16, <2>17 DEF Homes, HomeInv, PageNames
  <2>19. ReadHome'
    BY <1>1, <1>2, <2>4, SameRowsMore, ReadHomeStays DEF GoesOn
  <2>20. Unstaged'
    BY <2>4 DEF Unstaged, GoesOn
  <2> QED  BY <2>18, <2>19, <2>20, UnstagedHome, HomesAlways
<1> QED  BY <1>4, <1>5

--------------------------------------------------------------------------------
(* Taxonomy operations.                                                    *)

(* The blocks that an operation takes from a page are on no other.         *)
LEMMA CargoTaken ==
    ASSUME Homes', NEW p \in Pages, NEW q \in Pages, NEW blocks, p \in broken' => q \in broken',
           DOMAIN blocks \subseteq On(p)', \A b \in DOMAIN blocks : blocks[b].status = file'[p].blocks[b].status
    PROVE  Cargo(p, q, blocks)'
<1>1. ASSUME NEW b \in DOMAIN blocks, b \in Known'
      PROVE  /\ Sited(b, p)'
             /\ block'[b].status = "deleted" => p \in broken'
             /\ p \in broken' \/ block'[b].page # p \/ block'[b].status \in {blocks[b].status, "needs_review"}
             /\ \A y \in Pages \ {p, q} : b \in On(y)' => {y, q} \subseteq broken'
  <2>1. Sited(b, p)' /\ (block'[b].status = "deleted" => p \in broken')
    BY <1>1 DEF Homes, FilesAtHome
  <2>2. ASSUME p \notin broken', block'[b].page = p
        PROVE  block'[b].status \in {blocks[b].status, "needs_review"}
    <3>1. b \in Live' /\ b \in On(block[b].page)'
      BY <1>1, <2>1, <2>2 DEF Live
    <3>2. StatusAt(block[b].page, b)'
      BY <3>1 DEF Homes, BlocksAtHome
    <3> QED  BY <1>1, <2>2, <3>2 DEF StatusAt
  <2>3. ASSUME NEW y \in Pages \ {p, q}, b \in On(y)'
        PROVE  {y, q} \subseteq broken'
    <3>1. Sited(b, y)'
      BY <1>1, <2>3 DEF Homes, FilesAtHome
    <3> QED  BY <2>1, <2>3, <3>1 DEF Sited
  <2> QED  BY <2>1, <2>2, <2>3
<1> QED  BY <1>1 DEF Cargo

(* A taxonomy operation starts: nothing has moved.                         *)
LEMMA StartHome ==
    ASSUME WikiInv, HomeInv, NEW kind, NEW p \in Pages, NEW q \in Pages, NEW at, NEW more, Start(kind, p, q, at, more)
    PROVE  /\ Homes /\ Homes' /\ (p \in broken' => q \in broken')
           /\ \A y \in Pages : /\ On(y)' = On(y) /\ file'[y] = Marked[y] /\ DOMAIN Marked[y].blocks = On(y)
                               /\ file[y].there => Marked[y].there
<1>1. task = Idle /\ UNCHANGED rows /\ block' = MarkedRows /\ file' = Marked /\ broken' = Spread(p, q)
  BY DEF Start
<1>2. SamePages /\ SameInventory
  BY <1>1, MarkedSame, MarkedInventory DEF WikiInv, Shapes
<1>3. broken \subseteq broken' /\ (p \in broken' => q \in broken')
  BY <1>1 DEF Spread
<1>4. Homes
  BY <1>1, HomesBetween DEF PartDone, Fated, Idle
<1>5. Homes'
  BY <1>1, <1>2, <1>3, <1>4, SameRowsMore, HomesStay
<1>6. \A y \in Pages : /\ On(y)' = On(y) /\ file'[y] = Marked[y] /\ DOMAIN Marked[y].blocks = On(y)
                       /\ file[y].there => Marked[y].there
  BY <1>1, <1>2 DEF SamePages, SamePage, On
<1> QED  BY <1>3, <1>4, <1>5, <1>6

(* Blocks are taken to be merged into another page ...                     *)
LEMMA MergeStarts ==
    ASSUME Homes', {"kind", "p", "q", "blocks"} \subseteq DOMAIN task', task'.op \in {"apply", "taxonomy"},
           task'.at = "target", task'.kind = "merge", NEW p \in Pages, NEW q \in Pages, p # q,
           task'.p = p, task'.q = q, task'.blocks = file'[p].blocks, p \in broken' => q \in broken',
           task'.op = "apply" => /\ ApplyHome'
                                 /\ "r" \in DOMAIN task' /\ task'.r \in DOMAIN task'.d
                                 /\ rows'[task'.r].page = p /\ rows'[task'.r].peer = q
    PROVE  HomeInv'
<1>1. PICK blocks : blocks = task'.blocks
  OBVIOUS
<1>2. DOMAIN blocks = On(p)' /\ \A b \in DOMAIN blocks : blocks[b].status = file'[p].blocks[b].status
  BY <1>1 DEF On
<1>3. Cargo(p, q, blocks)'
  BY <1>2, CargoTaken
<1>4. Cargo(task.p, task.q, task.blocks)'
  BY <1>1, <1>3 DEF Cargo
<1>5. MergeHome'
  BY <1>1, <1>2, <1>4 DEF MergeHome, Moved, On
<1>6. SplitHome' /\ RenameHome' /\ RunHome' /\ ApplyHome' /\ ~Away'
  BY DEF SplitHome, RenameHome, RunHome, ApplyHome, Splits, Renames, Away
<1> QED  BY <1>5, <1>6, HomesAlways DEF StageHome

(* ... which the user asks for, ...                                        *)
LEMMA StartMergeHome ==
    ASSUME WikiInv, HomeInv, NEW p \in Pages, NEW q \in Pages, StartMerge(p, q), UNCHANGED late, Spend(2)
    PROVE  HomeInv'
<1>1. PICK more : more = [blocks |-> Marked[p].blocks, old |-> Marked[q]]
  OBVIOUS
<1>2. DOMAIN more = {"blocks", "old"} /\ more.blocks = Marked[p].blocks
  BY <1>1
<1>3. Start("merge", p, q, "target", more) /\ p # q
  BY <1>1 DEF StartMerge
<1>4. /\ {"op", "at", "kind", "p", "q", "blocks"} \subseteq DOMAIN task'
      /\ task'.op = "taxonomy" /\ task'.at = "target" /\ task'.kind = "merge" /\ task'.p = p /\ task'.q = q
      /\ task'.blocks = Marked[p].blocks
  BY <1>2, <1>3, StartTask
<1>5. Homes' /\ (p \in broken' => q \in broken') /\ file'[p] = Marked[p]
  BY <1>3, StartHome
<1> QED  BY <1>3, <1>4, <1>5, MergeStarts

(* ... or to be split off, ...                                             *)
LEMMA StartSplitHome ==
    ASSUME WikiInv, HomeInv, NEW p \in Pages, NEW q \in Pages, StartSplit(p, q), UNCHANGED late, Spend(2)
    PROVE  HomeInv'
<1>1. PICK moving, more : /\ moving \in SUBSET On(p)
                          /\ more = [blocks |-> Restrict(Marked[p].blocks, moving), old |-> Marked[p]]
                          /\ Start("split", p, q, "source", more)
  BY DEF StartSplit
<1>2. DOMAIN more = {"blocks", "old"} /\ more.blocks = [b \in moving |-> Marked[p].blocks[b]]
  BY <1>1 DEF Restrict
<1>3. /\ {"op", "at", "kind", "p", "q", "blocks"} \subseteq DOMAIN task'
      /\ task'.op = "taxonomy" /\ task'.at = "source" /\ task'.kind = "split" /\ task'.p = p /\ task'.q = q
      /\ task'.blocks = [b \in moving |-> Marked[p].blocks[b]]
  BY <1>1, <1>2, StartTask
<1>4. /\ Homes /\ Homes' /\ (p \in broken' => q \in broken')
      /\ On(p)' = On(p) /\ On(q)' = On(q) /\ file'[p] = Marked[p]
  BY <1>1, StartHome
<1>5. p # q /\ On(q) = {}
  <2>1. ~file[q].there /\ p # q
    BY DEF StartSplit, Active
  <2> QED  BY <1>4, <2>1 DEF Homes, FilesAtHome
<1>6. PICK blocks : blocks = task'.blocks
  OBVIOUS
<1>7. /\ DOMAIN blocks = moving /\ moving \subseteq On(p)'
      /\ \A b \in DOMAIN blocks : blocks[b].status = file'[p].blocks[b].status
  BY <1>1, <1>3, <1>4, <1>6
<1>8. Cargo(p, q, blocks)'
  BY <1>4, <1>7, CargoTaken
<1>9. Cargo(task.p, task.q, task.blocks)'
  BY <1>3, <1>6, <1>8 DEF Cargo
<1>10. SplitHome'
  BY <1>3, <1>4, <1>5, <1>6, <1>7, <1>9 DEF SplitHome, Splits, Moved, On
<1>11. MergeHome' /\ RenameHome' /\ RunHome' /\ ApplyHome' /\ ~Away'
  BY <1>3 DEF MergeHome, RenameHome, RunHome, ApplyHome, Merges, Renames, Away, Fated
<1> QED  BY <1>4, <1>10, <1>11, HomesAlways DEF StageHome

(* ... or to be under another name.                                        *)
LEMMA StartRenameHome ==
    ASSUME WikiInv, HomeInv, NEW p \in Pages, StartRename(p), UNCHANGED late, Spend(2)
    PROVE  HomeInv'
<1>1. PICK more : more = [blocks |-> NoBlocks, moved |-> Marked[p]]
  OBVIOUS
<1>2. DOMAIN more = {"blocks", "moved"} /\ more.moved = Marked[p]
  BY <1>1
<1>3. Start("rename", p, p, "redirect", more) /\ file[p].there
  BY <1>1 DEF StartRename
<1>4. /\ {"op", "at", "kind", "p", "q", "moved"} \subseteq DOMAIN task'
      /\ task'.op = "taxonomy" /\ task'.at = "redirect" /\ task'.kind = "rename" /\ task'.p = p /\ task'.q = p
      /\ task'.moved = Marked[p]
  BY <1>2, <1>3, StartTask
<1>5. Homes' /\ On(p)' = On(p) /\ file'[p] = Marked[p] /\ DOMAIN Marked[p].blocks = On(p) /\ Marked[p].there
  BY <1>3, StartHome
<1>6. PICK blocks : blocks = task'.moved.blocks
  OBVIOUS
<1>7. DOMAIN blocks = On(p)' /\ \A b \in DOMAIN blocks : blocks[b].status = file'[p].blocks[b].status
  BY <1>4, <1>5, <1>6
<1>8. Cargo(p, p, blocks)'
  BY <1>5, <1>7, CargoTaken
<1>9. Cargo(task.p, task.q, task.moved.blocks)'
  BY <1>4, <1>6, <1>8 DEF Cargo
<1>10. RenameHome'
  BY <1>4, <1>5, <1>6, <1>7, <1>9 DEF RenameHome, On
<1>11. MergeHome' /\ SplitHome' /\ RunHome' /\ ApplyHome' /\ ~Away'
  BY <1>4 DEF MergeHome, SplitHome, RunHome, ApplyHome, Merges, Renames, Splits, Away, Fated
<1> QED  BY <1>5, <1>10, <1>11, HomesAlways DEF StageHome

(* A row about two pages is applied: the one is merged into the other.     *)
LEMMA MergeRowHome ==
    ASSUME WikiInv, HomeInv, MergeRow
    PROVE  HomeInv'
<1>1. At("apply", "merge") /\ UNCHANGED <<file, block, rows>>
  BY DEF MergeRow, storeVars
<1>2. /\ task.op = "apply" /\ task.at = "merge" /\ {"op", "at", "d", "read"} \subseteq DOMAIN task /\ ReadInv
      /\ "r" \in DOMAIN task /\ task.r \in DOMAIN task.d /\ rows[task.r].peer # "none"
  BY <1>1, ApplyBusy DEF WikiInv, RowInv
<1>3. ~PartDone
  BY <1>2 DEF PartDone, Fated
<1>4. CASE task' = Idle
  <2>1. UNCHANGED broken
    BY <1>2, <1>4 DEF MergeRow, With, Idle
  <2> QED  BY <1>1, <1>3, <1>4, <2>1, LeftBroken
<1>5. CASE task' # Idle
  <2>1. PICK p, q : p = Row.page /\ q = Row.peer
    OBVIOUS
  <2>2. PICK more : /\ more = [p |-> p, q |-> q, kind |-> "merge", blocks |-> file[p].blocks, old |-> file[q]]
                    /\ task' = With([task EXCEPT !.at = "target"], more) /\ broken' = Spread(p, q)
    BY <1>5, <2>1 DEF MergeRow, Raise
  <2>3. rows[task.r].page = p /\ rows[task.r].peer = q /\ p \in Pages /\ q \in Pages /\ p # q
    <3>1. task.r \in DOMAIN task.read /\ task.r \in Rows
      BY <1>2 DEF ReadInv
    <3>2. rows[task.r].page = p /\ rows[task.r].peer = q
      BY <1>2, <2>1, <3>1 DEF ReadInv, Row, HomeInv, StageHome, ApplyHome
    <3> QED  BY <1>2, <3>1, <3>2 DEF HomeInv, PageNames
  <2>4. PICK g : g = [task EXCEPT !.at = "target"]
    OBVIOUS
  <2>5. /\ DOMAIN g = DOMAIN task /\ g.at = "target"
        /\ \A x \in DOMAIN task \ {"at"} : g[x] = task[x]
    BY <1>2, <2>4
  <2>6. /\ DOMAIN more = {"p", "q", "kind", "blocks", "old"}
        /\ more["p"] = p /\ more["q"] = q /\ more["kind"] = "merge" /\ more["blocks"] = file[p].blocks
    BY <2>2
  <2>7. /\ DOMAIN task' = DOMAIN g \cup DOMAIN more
        /\ \A x \in DOMAIN more : task'[x] = more[x]
        /\ \A x \in DOMAIN g \ DOMAIN more : task'[x] = g[x]
    BY <2>2, <2>4 DEF With
  <2>8. /\ task'["op"] = task["op"] /\ task'["d"] = task["d"] /\ task'["read"] = task["read"] /\ task'["at"] = "target"
        /\ task'["p"] = p /\ task'["q"] = q /\ task'["kind"] = "merge" /\ task'["blocks"] = file[p].blocks
        /\ task'["r"] = task["r"]
        /\ {"op", "at", "kind", "p", "q", "blocks", "d", "read", "r"} \subseteq DOMAIN task'
    BY <1>2, <2>5, <2>6, <2>7
  <2>9. broken \subseteq broken' /\ (p \in broken' => q \in broken')
    BY <2>2 DEF Spread
  <2>10. Homes'
    BY <1>1, <1>3, <2>9, HomesBetween, HomesStay, SameFilesSamePages, SameBlocksSameInventory, SameRowsMore
  <2>11. ReadHome'
    BY <1>1, <1>2, <2>8, SameRowsMore, ReadHomeStays
  <2>12. ApplyHome'
    BY <2>8, <2>11 DEF ApplyHome, ReadHome, Fated
  <2> QED  BY <1>1, <1>2, <2>3, <2>8, <2>9, <2>10, <2>12, MergeStarts
<1> QED  BY <1>4, <1>5

(* What a merge has done so far.                                           *)
LEMMA MergeSoFar ==
    ASSUME WikiInv, HomeInv, NEW at \in {"target", "redirect", "register", "rows"}, Merging(at), ~Renames
    PROVE  /\ task.op \in {"apply", "taxonomy"} /\ task.at = at /\ task.kind = "merge"
           /\ {"op", "at", "kind", "p", "q", "blocks"} \subseteq DOMAIN task
           /\ task.op = "apply" => {"d", "read", "r"} \subseteq DOMAIN task
           /\ task.p \in Pages /\ task.q \in Pages /\ task.p # task.q /\ (task.p \in broken => task.q \in broken)
  BY MergingBusy DEF HomeInv, StageHome, MergeHome, Merges

(* ... and what it has when it goes on.                                    *)
LEMMA MergeGoesOn ==
    ASSUME WikiInv, HomeInv, NEW at \in {"target", "redirect", "register"}, Merging(at), ~Renames,
           NEW next \in {"redirect", "register", "rows"}, Goto(next)
    PROVE  /\ task'.op = task.op /\ task'.at = next /\ task'.kind = "merge"
           /\ {"op", "at", "kind", "p", "q", "blocks"} \subseteq DOMAIN task'
           /\ task'.p = task.p /\ task'.q = task.q /\ task'.blocks = task.blocks
           /\ task.op = "apply" => /\ task'.d = task.d /\ task'.read = task.read /\ task'.r = task.r
                                   /\ {"d", "read", "r"} \subseteq DOMAIN task'
<1>1. /\ {"op", "at", "kind", "p", "q", "blocks"} \subseteq DOMAIN task /\ task.kind = "merge"
      /\ task.op = "apply" => {"d", "read", "r"} \subseteq DOMAIN task
  BY MergeSoFar
<1>2. /\ DOMAIN task' = DOMAIN task /\ task'.at = next /\ task'.op = task.op
      /\ \A x \in DOMAIN task \ {"at"} : task'[x] = task[x]
  BY <1>1, GotoTask, MergingBusy DEF WikiInv
<1>3. task'["p"] = task["p"] /\ task'["q"] = task["q"] /\ task'["blocks"] = task["blocks"] /\ task'["kind"] = task["kind"]
  BY <1>1, <1>2
<1>4. task.op = "apply" => task'["d"] = task["d"] /\ task'["read"] = task["read"] /\ task'["r"] = task["r"]
  BY <1>1, <1>2
<1> QED  BY <1>1, <1>2, <1>3, <1>4

(* A merge is between two parts of it.                                     *)
LEMMA MergeStage ==
    ASSUME WikiInv, HomeInv, NEW at \in {"target", "redirect", "register"}, Merging(at), ~Renames,
           NEW next \in {"redirect", "register", "rows"}, Goto(next), UNCHANGED <<rows, broken>>, MergeHome'
    PROVE  StageHome'
<1>1. /\ task'.op = task.op /\ task'.at = next /\ task'.kind = "merge" /\ task.op \in {"apply", "taxonomy"}
      /\ task.op = "apply" => task'.read = task.read
  BY MergeGoesOn, MergeSoFar
<1>2. ApplyHome'
  <2>1. task.op = "apply" => ReadHome'
    BY <1>1, SameRowsMore, ReadHomeStays
  <2> QED  BY <1>1, <2>1 DEF ApplyHome, ReadHome, Fated
<1> QED  BY <1>1, <1>2 DEF StageHome, SplitHome, RenameHome, RunHome, Splits, Renames

(* The page gets the blocks that move to it.                               *)
LEMMA WriteTargetHome ==
    ASSUME WikiInv, HomeInv, WriteTarget
    PROVE  HomeInv'
<1>1. Merging("target") /\ UNCHANGED <<block, rows>>
  BY DEF WriteTarget
<1>2. ~Renames /\ ~PartDone
  BY <1>1 DEF Merging, Renames, PartDone, Fated
<1>3. /\ task.op \in {"apply", "taxonomy"} /\ task.at = "target" /\ task.kind = "merge"
      /\ {"op", "at", "kind", "p", "q", "blocks"} \subseteq DOMAIN task
      /\ task.p \in Pages /\ task.q \in Pages /\ task.p # task.q /\ (task.p \in broken => task.q \in broken)
  BY <1>1, <1>2, MergeSoFar
<1>4. CASE task' = Idle /\ UNCHANGED file
  <2>1. broken \subseteq broken'
    BY <1>4 DEF WriteTarget, Fail
  <2> QED  BY <1>1, <1>2, <1>4, <2>1, LeftBroken
<1>5. CASE ~(task' = Idle /\ UNCHANGED file)
  <2>1. PICK p, q, blocks, f : p = task.p /\ q = task.q /\ blocks = task.blocks /\ f = file[q]
    OBVIOUS
  <2>2. PICK shown : shown = With(f.blocks, blocks)
    OBVIOUS
  <2>3. PICK g : g = [f EXCEPT !.there = TRUE, !.blocks = shown]
    OBVIOUS
  <2>4. file' = [file EXCEPT ![q] = g] /\ Goto("redirect") /\ UNCHANGED broken
    BY <1>5, <2>1, <2>2, <2>3 DEF WriteTarget, write_page, Fail
  <2>5. /\ DOMAIN shown = DOMAIN f.blocks \cup DOMAIN blocks
        /\ \A b \in DOMAIN shown : shown[b] = IF b \in DOMAIN blocks THEN blocks[b] ELSE f.blocks[b]
    BY <2>2 DEF With
  <2>6. g.there /\ g.blocks = shown
    <3>1. IsPage(f)
      BY <1>3, <2>1 DEF WikiInv, Shapes, FileShape
    <3> QED  BY <2>3, <3>1 DEF IsPage
  <2>7. file'[q] = g /\ \A y \in Pages \ {q} : file'[y] = file[y] /\ On(y)' = On(y)
    BY <1>3, <2>1, <2>4 DEF WikiInv, Shapes, FileShape, On
  <2>8. /\ On(q)' = On(q) \cup DOMAIN blocks
        /\ \A b \in On(q)' : file'[q].blocks[b] = IF b \in DOMAIN blocks THEN blocks[b] ELSE file[q].blocks[b]
    BY <2>1, <2>5, <2>6, <2>7 DEF On
  <2>9. /\ task'.op = task.op /\ task'.at = "redirect" /\ task'.kind = "merge"
        /\ {"op", "at", "kind", "p", "q", "blocks"} \subseteq DOMAIN task'
        /\ task'.p = p /\ task'.q = q /\ task'.blocks = blocks
        /\ task.op = "apply" => /\ task'.d = task.d /\ task'.read = task.read /\ task'.r = task.r
                                /\ {"d", "read", "r"} \subseteq DOMAIN task'
    BY <1>1, <1>2, <2>1, <2>4, MergeGoesOn
  <2>10. /\ Cargo(p, q, blocks) /\ On(p) = DOMAIN blocks
         /\ task.op = "apply" => task.r \in DOMAIN task.d /\ rows[task.r].page = p /\ rows[task.r].peer = q
    BY <1>2, <1>3, <2>1 DEF HomeInv, StageHome, MergeHome, Merges, Moved
  <2>11. Homes
    BY <1>2, HomesBetween
  <2>12. Known' = Known /\ Live' = Live /\ Rows' = Rows /\ Live \subseteq Known /\ Known \subseteq Blocks
    BY <1>1 DEF Known, Live, Rows
  <2>13. Unregistered' /\ Moved' = DOMAIN blocks
    BY <1>3, <2>9 DEF Unregistered, Merges, Renames, Moved
  <2>14. HomeFiles'
    <3>1. ASSUME NEW y \in Pages, NEW b \in Known, b \in On(y)'
          PROVE  ShownAt(y, b)'
      <4>1. CASE b \in On(y)
        BY <1>1, <2>4, <2>11, <3>1, <4>1 DEF Homes, FilesAtHome, ShownAt, Sited
      <4>2. CASE b \notin On(y)
        <5>1. y = q /\ b \in DOMAIN blocks
          BY <2>7, <2>8, <3>1, <4>2
        <5>2. block[b].status = "deleted" => q \in broken
          BY <2>10, <3>1, <5>1 DEF Cargo
        <5> QED  BY <1>1, <2>4, <2>9, <2>13, <5>1, <5>2 DEF ShownAt
      <4> QED  BY <4>1, <4>2
    <3>2. \A y \in Pages : file'[y].there \/ On(y)' = {}
      BY <2>6, <2>7, <2>11 DEF Homes, FilesAtHome
    <3> QED  BY <2>12, <3>1, <3>2 DEF HomeFiles
  <2>15. HomeBlocks'
    <3>1. ASSUME NEW b \in Live, NEW y \in Pages, y = block[b].page
          PROVE  b \in On(y)' \/ y \in broken
      BY <2>7, <2>8, <2>11, <3>1 DEF Homes, BlocksAtHome
    <3>2. ASSUME NEW b \in Live, NEW y \in Pages, y = block[b].page, b \in On(y)'
          PROVE  y \in broken \/ block[b].status \in {file'[y].blocks[b].status, "needs_review"}
      <4>1. CASE y = q /\ b \in DOMAIN blocks
        <5>1. Sited(b, p)
          BY <2>10, <2>12, <3>2, <4>1 DEF Cargo
        <5> QED  BY <1>3, <2>1, <3>2, <4>1, <5>1 DEF Sited
      <4>2. CASE ~(y = q /\ b \in DOMAIN blocks)
        <5>1. b \in On(y) /\ file'[y].blocks[b] = file[y].blocks[b]
          BY <2>7, <2>8, <3>2, <4>2
        <5>2. StatusAt(y, b)
          BY <2>11, <3>2, <5>1 DEF Homes, BlocksAtHome
        <5> QED  BY <5>1, <5>2 DEF StatusAt
      <4> QED  BY <4>1, <4>2
    <3>3. \A b \in Live : block[b].page \in Pages
      BY <2>12 DEF HomeInv, PageNames
    <3> QED  BY <1>1, <2>4, <2>12, <3>1, <3>2, <3>3 DEF HomeBlocks, PresentAt, SameStatus, On
  <2>16. HomeRows'
    <3>1. ASSUME NEW r \in Rows, rows[r].peer = "none", Stands(rows[r].existing)'
          PROVE  Sited(rows[r].existing, rows[r].page)
      <4>1. Stands(rows[r].existing)
        BY <1>1, <1>3, <2>1, <2>7, <2>8, <2>10, <2>12, <3>1 DEF Stands
      <4> QED  BY <2>11, <3>1, <4>1 DEF Homes, RowsAtHome
    <3>2. \A b : ~Carried(b)'
      BY <1>3, <2>9 DEF Carried, Splits, At
    <3> QED  BY <1>1, <2>4, <2>12, <3>1, <3>2 DEF HomeRows, RowAt, Sited
  <2>17. MergeHome'
    <3>1. Cargo(task.p, task.q, task.blocks)'
      BY <1>1, <2>4, <2>7, <2>9, <2>10, <2>12 DEF Cargo, Sited
    <3>2. Delivered(task.q, task.blocks)'
      BY <2>8, <2>9 DEF Delivered, On
    <3>3. On(task.p)' = Moved'
      BY <1>3, <2>1, <2>7, <2>9, <2>10, <2>13
    <3> QED  BY <1>1, <1>3, <2>1, <2>4, <2>9, <2>10, <3>1, <3>2, <3>3 DEF MergeHome
  <2>18. StageHome'
    BY <1>1, <1>2, <2>4, <2>17, MergeStage
  <2>19. PageNames'
    BY <1>1, <2>12 DEF HomeInv, PageNames
  <2> QED  BY <2>14, <2>15, <2>16, <2>18, <2>19 DEF HomeInv
<1> QED  BY <1>4, <1>5

(* The page that is merged becomes a redirect.                             *)
LEMMA StubOfMergeHome ==
    ASSUME WikiInv, HomeInv, _write_redirect_stub, ~Renames
    PROVE  HomeInv'
<1>1. /\ Merging("redirect") /\ UNCHANGED <<block, rows, broken>> /\ Goto("register")
      /\ file' = [file EXCEPT ![task.p] = Stub]
  BY DEF _write_redirect_stub, historyVars
<1>2. PICK p, q, blocks : p = task.p /\ q = task.q /\ blocks = task.blocks
  OBVIOUS
<1>3. /\ task.op \in {"apply", "taxonomy"} /\ task.at = "redirect" /\ task.kind = "merge"
      /\ p \in Pages /\ q \in Pages /\ p # q /\ (p \in broken => q \in broken)
  BY <1>1, <1>2, MergeSoFar
<1>4. /\ task'.op = task.op /\ task'.at = "register" /\ task'.kind = "merge"
      /\ {"op", "at", "kind", "p", "q", "blocks"} \subseteq DOMAIN task'
      /\ task'.p = p /\ task'.q = q /\ task'.blocks = blocks
      /\ task.op = "apply" => /\ task'.d = task.d /\ task'.read = task.read /\ task'.r = task.r
                              /\ {"d", "read", "r"} \subseteq DOMAIN task'
  BY <1>1, <1>2, MergeGoesOn
<1>5. /\ Cargo(p, q, blocks) /\ On(p) = DOMAIN blocks /\ Delivered(q, blocks)
      /\ task.op = "apply" => task.r \in DOMAIN task.d /\ rows[task.r].page = p /\ rows[task.r].peer = q
  BY <1>2, <1>3 DEF HomeInv, StageHome, MergeHome, Merges, Moved
<1>6. /\ file'[p] = Stub /\ On(p)' = {} /\ Stub.there
      /\ \A y \in Pages \ {p} : file'[y] = file[y] /\ On(y)' = On(y)
  <2>1. Stub.there
    BY DEF Stub, NoFile
  <2> QED  BY <1>1, <1>2, <1>3, <2>1, StubIsGood DEF WikiInv, Shapes, FileShape, On
<1>7. Known' = Known /\ Live' = Live /\ Rows' = Rows /\ Live \subseteq Known /\ Known \subseteq Blocks
  BY <1>1 DEF Known, Live, Rows
<1>8. /\ Unregistered /\ Unregistered' /\ ~Fated /\ ~Merges({"rows"}) /\ (\A b : ~Aloft(b) /\ ~Carried(b))
      /\ ~Merges({"rows"})' /\ (\A b : ~Carried(b)') /\ Moved' = DOMAIN blocks /\ Moved = DOMAIN blocks
      /\ \A b \in DOMAIN blocks : Aloft(b)'
  BY <1>2, <1>3, <1>4 DEF Unregistered, Fated, Merges, Renames, Splits, Aloft, Carried, At, Moved
<1>9. HomeFiles'
  <2>1. ASSUME NEW y \in Pages \ {p}, NEW b \in Known, b \in On(y)
        PROVE  ShownAt(y, b)'
    <3>1. ShownAt(y, b)
      BY <2>1 DEF HomeInv, HomeFiles
    <3> QED  BY <1>1, <1>2, <1>4, <1>8, <3>1 DEF ShownAt, Sited
  <2> QED  BY <1>3, <1>6, <1>7, <2>1 DEF HomeInv, HomeFiles
<1>10. HomeBlocks'
  <2>1. ASSUME NEW b \in Live, NEW y \in Pages, y = block[b].page
        PROVE  b \in On(y)' \/ y \in broken \/ (y = p /\ Aloft(b)')
    <3>1. PresentAt(y, b)
      BY <2>1 DEF HomeInv, HomeBlocks
    <3> QED  BY <1>5, <1>6, <1>8, <3>1 DEF PresentAt
  <2>2. ASSUME NEW b \in Live, NEW y \in Pages, y = block[b].page, b \in On(y)'
        PROVE  y \in broken \/ block[b].status \in {file'[y].blocks[b].status, "needs_review"}
    <3>1. file'[y] = file[y] /\ b \in On(y)
      BY <1>6, <2>2
    <3>2. SameStatus(y, b)
      BY <2>2, <3>1 DEF HomeInv, HomeBlocks
    <3> QED  BY <1>8, <3>1, <3>2 DEF SameStatus
  <2>3. \A b \in Live : block[b].page \in Pages
    BY <1>7 DEF HomeInv, PageNames
  <2> QED  BY <1>1, <1>4, <1>7, <2>1, <2>2, <2>3 DEF HomeBlocks, PresentAt, SameStatus, On
<1>11. HomeRows'
  <2>1. ASSUME NEW r \in Rows, rows[r].peer = "none", Stands(rows[r].existing)'
        PROVE  Sited(rows[r].existing, rows[r].page)
    <3>1. Stands(rows[r].existing)
      BY <1>1, <1>6, <1>7, <2>1 DEF Stands
    <3> QED  BY <1>8, <2>1, <3>1 DEF HomeInv, HomeRows, RowAt
  <2> QED  BY <1>1, <1>7, <1>8, <2>1 DEF HomeRows, RowAt, Sited
<1>12. MergeHome'
  <2>1. Cargo(task.p, task.q, task.blocks)'
    BY <1>1, <1>4, <1>5, <1>6, <1>7 DEF Cargo, Sited
  <2>2. Delivered(task.q, task.blocks)'
    BY <1>3, <1>4, <1>5, <1>6 DEF Delivered
  <2>3. On(task.p)' = {}
    BY <1>4, <1>6
  <2> QED  BY <1>1, <1>3, <1>4, <1>5, <2>1, <2>2, <2>3 DEF MergeHome
<1>13. StageHome'
  BY <1>1, <1>12, MergeStage
<1>14. PageNames'
  BY <1>1, <1>7 DEF HomeInv, PageNames
<1> QED  BY <1>9, <1>10, <1>11, <1>13, <1>14 DEF HomeInv

(* What a rename keeps in memory.                                          *)
LEMMA RenameSoFar ==
    ASSUME WikiInv, HomeInv, Renames
    PROVE  /\ task.op = "taxonomy" /\ task.at \in {"redirect", "register"} /\ task.kind = "rename"
           /\ {"op", "at", "kind", "p", "q", "moved"} \subseteq DOMAIN task
           /\ task.p \in Pages /\ task.q = task.p /\ task.moved.there /\ Cargo(task.p, task.p, task.moved.blocks)
           /\ On(task.p) = IF task.at = "redirect" THEN DOMAIN task.moved.blocks ELSE {}
           /\ ~Fated /\ ~Unregistered /\ ~Merges({"rows"})
           /\ \A b : (Aloft(b) \/ Carried(b)) <=> (task.at = "register" /\ b \in DOMAIN task.moved.blocks)
<1>1. task.op = "taxonomy" /\ task.at \in {"redirect", "register"} /\ task.kind = "rename"
  BY DEF Renames
<1>2. /\ {"kind", "p", "q", "moved"} \subseteq DOMAIN task /\ task.p = task.q /\ task.moved.there
      /\ Cargo(task.p, task.q, task.moved.blocks)
      /\ On(task.p) = IF task.at = "redirect" THEN DOMAIN task.moved.blocks ELSE {}
  BY DEF HomeInv, StageHome, RenameHome
<1>3. {"op", "at"} \subseteq DOMAIN task
  BY <1>1 DEF WikiInv, TaskInv, Idle
<1>4. task.p \in Pages /\ Cargo(task.p, task.p, task.moved.blocks)
  BY <1>2 DEF Cargo
<1>5. ~Fated /\ ~Unregistered /\ ~Merges({"rows"})
  BY <1>1 DEF Fated, Unregistered, Merges, Splits
<1>6. \A b : (Aloft(b) \/ Carried(b)) <=> (task.at = "register" /\ b \in DOMAIN task.moved.blocks)
  BY <1>1 DEF Aloft, Carried, Merges, Splits, At, Renames
<1> QED  BY <1>1, <1>2, <1>3, <1>4, <1>5, <1>6

(* The page that is renamed becomes a redirect.                            *)
LEMMA StubOfRenameHome ==
    ASSUME WikiInv, HomeInv, _write_redirect_stub, Renames
    PROVE  HomeInv'
<1>1. /\ task.at = "redirect" /\ UNCHANGED <<block, rows, broken>> /\ Goto("register")
      /\ file' = [file EXCEPT ![task.p] = Stub]
  BY DEF _write_redirect_stub, historyVars, Merging
<1>2. PICK p, blocks : p = task.p /\ blocks = task.moved.blocks
  OBVIOUS
<1>3. /\ task.op = "taxonomy" /\ task.kind = "rename" /\ {"op", "at", "kind", "p", "q", "moved"} \subseteq DOMAIN task
      /\ p \in Pages /\ task.q = p /\ task.moved.there /\ Cargo(p, p, blocks) /\ On(p) = DOMAIN blocks
  BY <1>1, <1>2, RenameSoFar
<1>4. /\ task'.op = "taxonomy" /\ task'.at = "register" /\ task'.kind = "rename" /\ task'.p = p /\ task'.q = p
      /\ task'.moved = task.moved /\ {"op", "at", "kind", "p", "q", "moved"} \subseteq DOMAIN task'
  <2>1. /\ DOMAIN task' = DOMAIN task /\ task'.at = "register" /\ task'.op = task.op
        /\ \A x \in DOMAIN task \ {"at"} : task'[x] = task[x]
    BY <1>1, <1>3, GotoTask DEF WikiInv, Idle
  <2>2. task'["p"] = task["p"] /\ task'["q"] = task["q"] /\ task'["moved"] = task["moved"] /\ task'["kind"] = task["kind"]
    BY <1>3, <2>1
  <2> QED  BY <1>2, <1>3, <2>1, <2>2
<1>5. /\ On(p)' = {} /\ file'[p].there /\ \A y \in Pages \ {p} : file'[y] = file[y] /\ On(y)' = On(y)
  <2>1. Stub.there
    BY DEF Stub, NoFile
  <2> QED  BY <1>1, <1>2, <1>3, <2>1, StubIsGood DEF WikiInv, Shapes, FileShape, On
<1>6. Known' = Known /\ Live' = Live /\ Rows' = Rows /\ Live \subseteq Known /\ Known \subseteq Blocks
  BY <1>1 DEF Known, Live, Rows
<1>7. Homes
  BY <1>1, <1>3, HomesBetween, RenameSoFar DEF HomeInv, HomeFiles, HomeBlocks, HomeRows, ShownAt, PresentAt, SameStatus, RowAt,
                                               Homes, FilesAtHome, BlocksAtHome, RowsAtHome, StatusAt
<1>8. (\A b \in DOMAIN blocks : Aloft(b)') /\ \A b : Carried(b)' => b \in DOMAIN blocks
  BY <1>2, <1>4 DEF Aloft, Carried, At, Splits
<1>9. HomeFiles'
  <2>1. ASSUME NEW y \in Pages \ {p}, NEW b \in Known, b \in On(y)
        PROVE  ShownAt(y, b)'
    <3>1. Sited(b, y) /\ (block[b].status = "deleted" => y \in broken)
      BY <1>7, <2>1 DEF Homes, FilesAtHome
    <3> QED  BY <1>1, <3>1 DEF ShownAt, Sited
  <2> QED  BY <1>5, <1>6, <1>7, <2>1 DEF Homes, FilesAtHome, HomeFiles
<1>10. HomeBlocks'
  <2>1. ASSUME NEW b \in Live, NEW y \in Pages, y = block[b].page
        PROVE  b \in On(y)' \/ y \in broken \/ (y = p /\ Aloft(b)')
    BY <1>3, <1>5, <1>7, <1>8, <2>1 DEF Homes, BlocksAtHome
  <2>2. ASSUME NEW b \in Live, NEW y \in Pages, y = block[b].page, b \in On(y)'
        PROVE  y \in broken \/ block[b].status \in {file'[y].blocks[b].status, "needs_review"}
    <3>1. file'[y] = file[y] /\ b \in On(y)
      BY <1>5, <2>2
    <3>2. StatusAt(y, b)
      BY <1>7, <2>2, <3>1 DEF Homes, BlocksAtHome
    <3> QED  BY <3>1, <3>2 DEF StatusAt
  <2>3. \A b \in Live : block[b].page \in Pages
    BY <1>6 DEF HomeInv, PageNames
  <2> QED  BY <1>1, <1>4, <1>6, <2>1, <2>2, <2>3 DEF HomeBlocks, PresentAt, SameStatus, On
<1>11. HomeRows'
  <2>1. ASSUME NEW r \in Rows, rows[r].peer = "none",
               Stands(rows[r].existing)' \/ (rows[r].existing \in Known /\ Carried(rows[r].existing)')
        PROVE  Sited(rows[r].existing, rows[r].page)
    <3>1. PICK e : e = rows[r].existing
      OBVIOUS
    <3>2. Stands(e)
      BY <1>1, <1>3, <1>5, <1>6, <1>8, <2>1, <3>1 DEF Stands
    <3> QED  BY <1>7, <2>1, <3>1, <3>2 DEF Homes, RowsAtHome
  <2> QED  BY <1>1, <1>6, <2>1 DEF HomeRows, RowAt, Sited
<1>12. RenameHome'
  <2>1. Cargo(task.p, task.q, task.moved.blocks)'
    BY <1>1, <1>2, <1>3, <1>4, <1>5, <1>6 DEF Cargo, Sited
  <2> QED  BY <1>3, <1>4, <1>5, <2>1 DEF RenameHome
<1>13. StageHome'
  BY <1>4, <1>12 DEF StageHome, MergeHome, SplitHome, RunHome, ApplyHome, Merges, Renames, Splits
<1>14. PageNames'
  BY <1>1, <1>6 DEF HomeInv, PageNames
<1> QED  BY <1>9, <1>10, <1>11, <1>13, <1>14 DEF HomeInv

(* The page is written under its new name.                                 *)
LEMMA RegisterRenameHome ==
    ASSUME WikiInv, HomeInv, RegisterRename
    PROVE  HomeInv'
<1>1. /\ At("taxonomy", "register") /\ task.kind = "rename" /\ UNCHANGED <<block, rows, broken>> /\ Goto("refresh")
      /\ file' = [file EXCEPT ![task.p] = task.moved]
  BY DEF RegisterRename, historyVars
<1>2. Renames /\ task.at = "register"
  BY <1>1 DEF Renames, At
<1>3. PICK p, f : p = task.p /\ f = task.moved
  OBVIOUS
<1>4. /\ task.op = "taxonomy" /\ p \in Pages /\ f.there /\ Cargo(p, p, f.blocks) /\ On(p) = {}
      /\ ~Fated /\ ~Unregistered /\ ~Merges({"rows"}) /\ \A b : (Aloft(b) \/ Carried(b)) <=> b \in DOMAIN f.blocks
  BY <1>2, <1>3, RenameSoFar
<1>5. file'[p] = f /\ On(p)' = DOMAIN f.blocks /\ \A y \in Pages \ {p} : file'[y] = file[y] /\ On(y)' = On(y)
  BY <1>1, <1>3, <1>4 DEF WikiInv, Shapes, FileShape, On
<1>6. Known' = Known /\ Live' = Live /\ Rows' = Rows /\ Live \subseteq Known /\ Known \subseteq Blocks
  BY <1>1 DEF Known, Live, Rows
<1>7. FilesAtHome'
  <2>1. ASSUME NEW y \in Pages, NEW b \in Known, b \in On(y)'
        PROVE  Sited(b, y) /\ (block[b].status = "deleted" => y \in broken)
    <3>1. CASE y = p
      BY <1>4, <1>5, <2>1, <3>1 DEF Cargo
    <3>2. CASE y # p
      <4>1. ShownAt(y, b)
        BY <1>5, <2>1, <3>2 DEF HomeInv, HomeFiles
      <4> QED  BY <1>4, <4>1 DEF ShownAt
    <3> QED  BY <3>1, <3>2
  <2> QED  BY <1>1, <1>4, <1>5, <1>6, <2>1 DEF FilesAtHome, HomeInv, HomeFiles, Sited
<1>8. BlocksAtHome'
  <2>1. ASSUME NEW b \in Live, NEW y \in Pages, y = block[b].page
        PROVE  b \in On(y)' \/ y \in broken
    <3>1. PresentAt(y, b)
      BY <2>1 DEF HomeInv, HomeBlocks
    <3> QED  BY <1>3, <1>4, <1>5, <2>1, <3>1 DEF PresentAt
  <2>2. ASSUME NEW b \in Live, NEW y \in Pages, y = block[b].page, b \in On(y)'
        PROVE  y \in broken \/ block[b].status \in {file'[y].blocks[b].status, "needs_review"}
    <3>1. CASE y = p
      BY <1>4, <1>5, <1>6, <2>2, <3>1 DEF Cargo
    <3>2. CASE y # p
      <4>1. b \in On(y) /\ file'[y] = file[y]
        BY <1>5, <2>2, <3>2
      <4>2. SameStatus(y, b)
        BY <2>2, <4>1 DEF HomeInv, HomeBlocks
      <4> QED  BY <1>4, <4>1, <4>2 DEF SameStatus
    <3> QED  BY <3>1, <3>2
  <2>3. \A b \in Live : block[b].page \in Pages
    BY <1>6 DEF HomeInv, PageNames
  <2> QED  BY <1>1, <1>6, <2>1, <2>2, <2>3 DEF BlocksAtHome, StatusAt, On
<1>9. RowsAtHome'
  <2>1. ASSUME NEW r \in Rows, rows[r].peer = "none", Stands(rows[r].existing)'
        PROVE  Sited(rows[r].existing, rows[r].page)
    <3>1. PICK e : e = rows[r].existing
      OBVIOUS
    <3>2. Stands(e) \/ (e \in Known /\ Carried(e))
      <4>1. \A b \in DOMAIN f.blocks : Carried(b)
        BY <1>1, <1>3 DEF Carried
      <4> QED  BY <1>1, <1>5, <1>6, <2>1, <3>1, <4>1 DEF Stands
    <3>3. RowAt(rows[r].page, e)
      BY <2>1, <3>1, <3>2 DEF HomeInv, HomeRows
    <3> QED  BY <1>4, <3>1, <3>3 DEF RowAt
  <2> QED  BY <1>1, <1>6, <2>1 DEF RowsAtHome, Sited
<1>10. PageNames'
  BY <1>1, <1>6 DEF HomeInv, PageNames
<1>11. Unstaged' /\ task'.op # "apply"
  <2>1. task'.op = "taxonomy" /\ task'.at = "refresh"
    BY <1>1, <1>4, GotoTask DEF WikiInv, Idle
  <2> QED  BY <2>1 DEF Unstaged
<1> QED  BY <1>7, <1>8, <1>9, <1>10, <1>11, UnstagedHome, HomesAlways DEF Homes

(* What is sited on two pages after it was carried from one to another.    *)
LEMMA CargoSited ==
    ASSUME NEW p, NEW q, NEW blocks, Cargo(p, q, blocks), NEW b \in DOMAIN blocks \cap Known, NEW x, x # p, Sited(b, x)
    PROVE  {x, q} \subseteq broken
  BY DEF Cargo, Sited

(* The blocks are committed where they have gone.                          *)
LEMMA RehomedHome ==
    ASSUME WikiInv, HomeInv, UNCHANGED <<file, broken>>, block' = [b \in Blocks |-> Rehome(b)],
           task.p # task.q, Cargo(task.p, task.q, task.blocks), Delivered(task.q, task.blocks), On(task.p) \cap Moved = {},
           ~Fated, \A b : Aloft(b) => b \in Moved
    PROVE  /\ FilesAtHome' /\ BlocksAtHome' /\ Known' = Known /\ Live' = Live
           /\ \A b \in Blocks : block'[b].page \in Pages
           /\ \A b \in Known : block'[b].page = IF b \in Moved THEN task.q ELSE block[b].page
           /\ \A b, x : b \in Known /\ Sited(b, x) => Sited(b, x)' \/ (b \in Moved /\ x = task.p /\ block'[b].page = task.q)
<1>1. PICK p, q, blocks : p = task.p /\ q = task.q /\ blocks = task.blocks
  OBVIOUS
<1>2. /\ p # q /\ Cargo(p, q, blocks) /\ Delivered(q, blocks) /\ On(p) \cap DOMAIN blocks = {} /\ Moved = DOMAIN blocks
      /\ \A b : Aloft(b) => b \in DOMAIN blocks
  BY <1>1 DEF Moved
<1>3. p \in Pages /\ q \in Pages /\ (p \in broken => q \in broken)
  BY <1>2 DEF Cargo
<1>4. ASSUME NEW b \in Blocks
      PROVE  /\ block'[b].status = block[b].status
             /\ block'[b].page = IF b \in DOMAIN blocks \cap Known THEN q ELSE block[b].page
  <2>1. block'[b] = IF b \in DOMAIN blocks \cap Known THEN [block[b] EXCEPT !.page = q] ELSE block[b]
    BY <1>1, <1>4 DEF Rehome, Moved
  <2>2. IsBlockRow(block[b])
    BY <1>4 DEF WikiInv, Shapes, BlockShape
  <2> QED  BY <2>1, <2>2 DEF IsBlockRow
<1>5. Known' = Known /\ Live' = Live /\ Live \subseteq Known /\ Known \subseteq Blocks
  BY <1>4 DEF Known, Live
<1>6. \A y : On(y)' = On(y)
  BY DEF On
<1>7. ASSUME NEW b \in Known, NEW x, Sited(b, x)
      PROVE  Sited(b, x)' \/ (b \in DOMAIN blocks /\ x = p /\ block'[b].page = q)
  <2>1. CASE b \notin DOMAIN blocks
    BY <1>4, <1>5, <1>7, <2>1 DEF Sited
  <2>2. CASE b \in DOMAIN blocks /\ x = p
    BY <1>4, <1>5, <2>2
  <2>3. CASE b \in DOMAIN blocks /\ x # p
    <3>1. {x, q} \subseteq broken
      BY <1>7, <1>2, <2>3, CargoSited
    <3> QED  BY <1>4, <1>5, <2>3, <3>1 DEF Sited
  <2> QED  BY <2>1, <2>2, <2>3
<1>8. FilesAtHome'
  <2>1. ASSUME NEW y \in Pages, NEW b \in Known, b \in On(y)
        PROVE  Sited(b, y)' /\ (block[b].status = "deleted" => y \in broken)
    <3>1. ShownAt(y, b)
      BY <2>1 DEF HomeInv, HomeFiles
    <3>2. Sited(b, y)'
      <4>1. CASE Sited(b, y)
        BY <1>7, <1>2, <2>1, <4>1
      <4>2. CASE ~Sited(b, y)
        <5>1. y = q /\ b \in DOMAIN blocks
          BY <1>1, <1>2, <3>1, <4>2 DEF ShownAt
        <5> QED  BY <1>4, <1>5, <2>1, <5>1 DEF Sited
      <4> QED  BY <4>1, <4>2
    <3> QED  BY <3>1, <3>2 DEF ShownAt
  <2> QED  BY <1>4, <1>5, <1>6, <2>1 DEF FilesAtHome, HomeInv, HomeFiles
<1>9. BlocksAtHome'
  <2>1. ASSUME NEW b \in Live, NEW y, y = block'[b].page
        PROVE  /\ y \in Pages /\ (b \in On(y) \/ y \in broken)
               /\ b \in On(y) => y \in broken \/ block[b].status \in {file[y].blocks[b].status, "needs_review"}
    <3>1. CASE b \in DOMAIN blocks
      <4>1. y = q /\ b \in On(q) /\ file[q].blocks[b].status = blocks[b].status
        BY <1>4, <1>5, <1>2, <2>1, <3>1 DEF Delivered
      <4>2. q \in broken \/ block[b].status \in {blocks[b].status, "needs_review"}
        BY <1>3, <1>5, <1>2, <2>1, <3>1 DEF Cargo, Sited
      <4> QED  BY <1>3, <4>1, <4>2
    <3>2. CASE b \notin DOMAIN blocks
      <4>1. y = block[b].page /\ y \in Pages
        BY <1>4, <1>5, <2>1, <3>2 DEF HomeInv, PageNames
      <4>2. PresentAt(y, b) /\ (b \in On(y) => SameStatus(y, b))
        BY <2>1, <4>1 DEF HomeInv, HomeBlocks
      <4> QED  BY <1>2, <3>2, <4>1, <4>2 DEF PresentAt, SameStatus
    <3> QED  BY <3>1, <3>2
  <2> QED  BY <1>4, <1>5, <1>6, <2>1 DEF BlocksAtHome, StatusAt, On
<1>10. \A b \in Blocks : block'[b].page \in Pages
  BY <1>3, <1>4 DEF HomeInv, PageNames
<1>11. \A b \in Known : block'[b].page = IF b \in DOMAIN blocks THEN q ELSE block[b].page
  BY <1>4, <1>5
<1> QED  BY <1>1, <1>5, <1>7, <1>8, <1>9, <1>10, <1>11, <1>2

(* ... of pages that are merged.                                           *)
LEMMA RegisterMergeHome ==
    ASSUME WikiInv, HomeInv, RegisterMerge
    PROVE  HomeInv'
<1>1. /\ Merging("register") /\ task.kind = "merge" /\ UNCHANGED <<file, rows, broken>> /\ Goto("rows")
      /\ block' = [b \in Blocks |-> Rehome(b)] /\ ~Renames
  BY DEF RegisterMerge, historyVars, Renames
<1>2. PICK p, q, blocks : p = task.p /\ q = task.q /\ blocks = task.blocks
  OBVIOUS
<1>3. /\ task.op \in {"apply", "taxonomy"} /\ task.at = "register"
      /\ p \in Pages /\ q \in Pages /\ p # q /\ (p \in broken => q \in broken)
  BY <1>1, <1>2, MergeSoFar
<1>4. /\ task'.op = task.op /\ task'.at = "rows" /\ task'.kind = "merge"
      /\ {"op", "at", "kind", "p", "q", "blocks"} \subseteq DOMAIN task'
      /\ task'.p = p /\ task'.q = q /\ task'.blocks = blocks
      /\ task.op = "apply" => /\ task'.d = task.d /\ task'.read = task.read /\ task'.r = task.r
                              /\ {"d", "read", "r"} \subseteq DOMAIN task'
  BY <1>1, <1>2, MergeGoesOn
<1>5. /\ Cargo(p, q, blocks) /\ On(p) = {} /\ Delivered(q, blocks)
      /\ task.op = "apply" => task.r \in DOMAIN task.d /\ rows[task.r].page = p /\ rows[task.r].peer = q
  BY <1>1, <1>2, <1>3 DEF HomeInv, StageHome, MergeHome, Merges
<1>6. ~Fated /\ ~Merges({"rows"}) /\ \A b : ~Carried(b) /\ (Aloft(b) => b \in DOMAIN blocks)
  BY <1>1, <1>2, <1>3 DEF Fated, Merges, Carried, Splits, At, Aloft, Moved
<1>7. /\ FilesAtHome' /\ BlocksAtHome' /\ Known' = Known /\ Live' = Live
      /\ \A b \in Blocks : block'[b].page \in Pages
      /\ \A b, x : b \in Known /\ Sited(b, x) => Sited(b, x)' \/ (b \in DOMAIN blocks /\ x = p /\ block'[b].page = q)
  <2>1. On(task.p) \cap Moved = {} /\ ~Fated /\ task.p # task.q /\ Moved = DOMAIN blocks /\ \A b : Aloft(b) => b \in Moved
    BY <1>2, <1>3, <1>5, <1>6 DEF Moved
  <2>2. Cargo(task.p, task.q, task.blocks) /\ Delivered(task.q, task.blocks)
    BY <1>2, <1>5
  <2> QED  BY <1>1, <1>2, <2>1, <2>2, RehomedHome
<1>8. Rows' = Rows /\ \A y : On(y)' = On(y)
  BY <1>1 DEF Rows, On
<1>9. Merges({"rows"})' /\ \A b : ~Carried(b)'
  BY <1>3, <1>4 DEF Merges, Renames, Carried, Splits, At
<1>10. HomeRows'
  <2>1. ASSUME NEW r \in Rows, rows[r].peer = "none", Stands(rows[r].existing)'
        PROVE  RowAt(rows[r].page, rows[r].existing)'
    <3>1. PICK e, x : e = rows[r].existing /\ x = rows[r].page
      OBVIOUS
    <3>2. Stands(e) /\ e \in Known
      BY <1>1, <1>7, <1>8, <2>1, <3>1 DEF Stands, Live
    <3>3. Sited(e, x)
      BY <1>6, <2>1, <3>1, <3>2 DEF HomeInv, HomeRows, RowAt
    <3>4. RowAt(x, e)'
      BY <1>4, <1>7, <1>9, <3>2, <3>3 DEF RowAt
    <3> QED  BY <1>1, <3>1, <3>4 DEF RowAt, Sited
  <2> QED  BY <1>1, <1>8, <1>9, <2>1 DEF HomeRows
<1>11. HomeFiles' /\ HomeBlocks'
  BY <1>7 DEF FilesAtHome, BlocksAtHome, HomeFiles, HomeBlocks, ShownAt, PresentAt, SameStatus, StatusAt
<1>12. MergeHome'
  BY <1>1, <1>3, <1>4, <1>5, <1>8 DEF MergeHome
<1>13. StageHome'
  BY <1>1, <1>12, MergeStage
<1>14. PageNames'
  BY <1>1, <1>7, <1>8 DEF HomeInv, PageNames
<1> QED  BY <1>10, <1>11, <1>13, <1>14 DEF HomeInv

(* Rows go with the page, those about two pages excepted.                  *)
LEMMA MoveRowsHome ==
    ASSUME WikiInv, HomeInv, MoveRows
    PROVE  HomeInv'
<1>1. Merging("rows") /\ UNCHANGED <<file, block, broken>> /\ ~Renames
  BY DEF MoveRows, historyVars, Renames, Merging
<1>2. PICK p, q : p = task.p /\ q = task.q
  OBVIOUS
<1>3. /\ task.op \in {"apply", "taxonomy"} /\ task.at = "rows"
      /\ p \in Pages /\ q \in Pages /\ p # q /\ (p \in broken => q \in broken)
  BY <1>1, <1>2, MergeSoFar
<1>4. On(p) = {}
  BY <1>1, <1>2, <1>3 DEF HomeInv, StageHome, MergeHome, Merges
<1>5. ~Fated /\ ~Unregistered /\ \A b : ~Aloft(b)
  BY <1>3 DEF Fated, Unregistered, Merges, Splits, Aloft, At
<1>6. Known' = Known /\ Live' = Live /\ Live \subseteq Known /\ Known \subseteq Blocks /\ \A y : On(y)' = On(y)
  BY <1>1 DEF Known, Live, On
<1>7. FilesAtHome
  BY <1>5 DEF HomeInv, HomeFiles, FilesAtHome, ShownAt
<1>8. BlocksAtHome
  BY <1>5 DEF HomeInv, HomeBlocks, BlocksAtHome, PresentAt, SameStatus, StatusAt
<1>9. FilesAtHome' /\ BlocksAtHome'
  BY <1>1, <1>6, <1>7, <1>8 DEF FilesAtHome, BlocksAtHome, StatusAt, Sited, On
<1>10. /\ Rows' = Rows
       /\ \A r \in Rows : /\ rows'[r].peer = rows[r].peer /\ rows'[r].existing = rows[r].existing
                          /\ rows'[r].page = IF rows[r].page = p /\ rows[r].peer = "none" THEN q ELSE rows[r].page
  <2>1. ASSUME NEW r \in Rows
        PROVE  /\ rows'[r].peer = rows[r].peer /\ rows'[r].existing = rows[r].existing
               /\ rows'[r].page = IF rows[r].page = p /\ rows[r].peer = "none" THEN q ELSE rows[r].page
    <3>1. rows'[r] = IF rows[r].page = p /\ rows[r].peer = "none" THEN [rows[r] EXCEPT !.page = q] ELSE rows[r]
      BY <1>2, <2>1 DEF MoveRows, IsTaxonomy
    <3>2. IsRow(rows[r])
      BY <2>1 DEF WikiInv, Shapes, RowShape
    <3> QED  BY <3>1, <3>2 DEF IsRow
  <2> QED  BY <2>1 DEF MoveRows, Rows
<1>11. RowsAtHome'
  <2>1. ASSUME NEW r \in Rows, rows[r].peer = "none", Stands(rows[r].existing)
        PROVE  Sited(rows[r].existing, rows'[r].page)
    <3>1. PICK e, x : e = rows[r].existing /\ x = rows[r].page
      OBVIOUS
    <3>2. RowAt(x, e)
      BY <2>1, <3>1 DEF HomeInv, HomeRows
    <3>3. CASE x # p
      BY <1>2, <1>10, <2>1, <3>1, <3>2, <3>3 DEF RowAt
    <3>4. CASE x = p
      <4>1. CASE block[e].page = q
        BY <1>10, <2>1, <3>1, <3>4, <4>1 DEF Sited
      <4>2. CASE block[e].page # q
        <5>1. Sited(e, p)
          BY <1>2, <3>2, <3>4, <4>2 DEF RowAt
        <5>2. {p, block[e].page} \subseteq broken
          <6>1. CASE e \in Live
            BY <1>4, <1>8, <5>1, <6>1 DEF BlocksAtHome, Sited
          <6>2. CASE e \notin Live
            <7>1. PICK y \in Pages : e \in On(y) /\ e \in Known
              BY <2>1, <3>1, <6>2 DEF Stands
            <7>2. Sited(e, y) /\ y # p
              BY <1>4, <1>7, <7>1 DEF FilesAtHome
            <7> QED  BY <5>1, <7>2 DEF Sited
          <6> QED  BY <6>1, <6>2
        <5> QED  BY <1>3, <1>10, <2>1, <3>1, <3>4, <5>2 DEF Sited
      <4> QED  BY <4>1, <4>2
    <3> QED  BY <3>3, <3>4
  <2> QED  BY <1>1, <1>6, <1>10, <2>1 DEF RowsAtHome, Sited, Stands
<1>12. PageNames'
  BY <1>1, <1>3, <1>10 DEF HomeInv, PageNames
<1>13. Unstaged' /\ (task'.op = "apply" => ReadHome')
  <2>1. {"op", "at"} \subseteq DOMAIN task /\ (task.op = "apply" => ReadInv /\ {"d", "read"} \subseteq DOMAIN task)
    BY <1>1, MergingBusy
  <2>2. CASE task.op = "apply"
    <3>1. PICK changed : task' = [task EXCEPT !.at = "applied", !.changed = changed]
      BY <2>2 DEF MoveRows, Ends
    <3>2. task'.op = "apply" /\ task'.at = "applied" /\ task'.read = task.read
      BY <2>1, <2>2, <3>1
    <3>3. ReadHome'
      <4>1. ReadHome /\ DOMAIN task.read \subseteq Rows
        BY <2>1, <2>2 DEF ReadInv, HomeInv, StageHome, ApplyHome, ReadHome
      <4> QED  BY <1>10, <3>2, <4>1 DEF ReadHome
    <3> QED  BY <3>2, <3>3 DEF Unstaged
  <2>3. CASE task.op = "taxonomy"
    <3>1. task'.op = "taxonomy" /\ task'.at = "refresh"
      BY <2>1, <2>3 DEF MoveRows, Ends
    <3> QED  BY <3>1 DEF Unstaged
  <2> QED  BY <1>3, <2>2, <2>3
<1> QED  BY <1>9, <1>11, <1>12, <1>13, UnstagedHome, HomesAlways DEF Homes

(* The page that is split loses the blocks, which are in memory.           *)
LEMMA WriteSourceHome ==
    ASSUME WikiInv, HomeInv, WriteSource
    PROVE  HomeInv'
<1>1. At("taxonomy", "source") /\ UNCHANGED <<block, rows>>
  BY DEF WriteSource
<1>2. task.op = "taxonomy" /\ task.at = "source" /\ task # Idle /\ ~PartDone
  BY <1>1 DEF At, Idle, PartDone, Fated
<1>3. PICK p, q, blocks : p = task.p /\ q = task.q /\ blocks = task.blocks
  OBVIOUS
<1>4. /\ {"kind", "p", "q", "blocks"} \subseteq DOMAIN task /\ p # q /\ Cargo(p, q, blocks)
      /\ DOMAIN blocks \subseteq On(p) /\ On(q) = {} /\ p \in Pages /\ q \in Pages
  BY <1>2, <1>3 DEF HomeInv, StageHome, SplitHome, Splits, Moved, Cargo
<1>5. CASE task' = Idle /\ UNCHANGED file
  <2>1. broken \subseteq broken'
    BY <1>5 DEF WriteSource, Fail
  <2> QED  BY <1>1, <1>2, <1>5, <2>1, LeftBroken
<1>6. CASE ~(task' = Idle /\ UNCHANGED file)
  <2>1. PICK f : f = file[p]
    OBVIOUS
  <2>2. PICK left : left = [b \in DOMAIN f.blocks \ DOMAIN blocks |-> f.blocks[b]]
    OBVIOUS
  <2>3. PICK g : g = [f EXCEPT !.blocks = left]
    OBVIOUS
  <2>4. file' = [file EXCEPT ![p] = g] /\ Goto("new") /\ UNCHANGED broken
    BY <1>3, <1>6, <2>1, <2>2, <2>3 DEF WriteSource, write_page, Fail, Restrict, Moved
  <2>5. g.there = f.there /\ g.blocks = left
    <3>1. IsPage(f)
      BY <1>4, <2>1 DEF WikiInv, Shapes, FileShape
    <3> QED  BY <2>3, <3>1 DEF IsPage
  <2>6. /\ file'[p] = g /\ On(p)' = On(p) \ DOMAIN blocks
        /\ \A b \in On(p)' : file'[p].blocks[b] = file[p].blocks[b]
        /\ \A y \in Pages \ {p} : file'[y] = file[y] /\ On(y)' = On(y)
    BY <1>4, <2>1, <2>2, <2>4, <2>5 DEF WikiInv, Shapes, FileShape, On
  <2>7. /\ task'.op = "taxonomy" /\ task'.at = "new" /\ task'.p = p /\ task'.q = q /\ task'.blocks = blocks
        /\ {"kind", "p", "q", "blocks"} \subseteq DOMAIN task'
    <3>1. /\ DOMAIN task' = DOMAIN task /\ task'.at = "new" /\ task'.op = task.op
          /\ \A x \in DOMAIN task \ {"at"} : task'[x] = task[x]
      BY <1>2, <2>4, GotoTask DEF WikiInv
    <3>2. task'["p"] = task["p"] /\ task'["q"] = task["q"] /\ task'["blocks"] = task["blocks"]
      BY <1>4, <3>1
    <3> QED  BY <1>2, <1>3, <1>4, <3>1, <3>2
  <2>8. Homes
    BY <1>2, HomesBetween
  <2>9. Known' = Known /\ Live' = Live /\ Rows' = Rows /\ Live \subseteq Known /\ Known \subseteq Blocks
    BY <1>1 DEF Known, Live, Rows
  <2>10. (\A b \in DOMAIN blocks : Aloft(b)') /\ (\A b : Carried(b)' => b \in DOMAIN blocks) /\ Moved' = DOMAIN blocks
    BY <2>7 DEF Aloft, Carried, At, Splits, Moved
  <2>11. HomeFiles'
    <3>1. ASSUME NEW y \in Pages, NEW b \in Known, b \in On(y)'
          PROVE  ShownAt(y, b)'
      <4>1. b \in On(y)
        BY <2>6, <3>1
      <4>2. Sited(b, y) /\ (block[b].status = "deleted" => y \in broken)
        BY <2>8, <3>1, <4>1 DEF Homes, FilesAtHome
      <4> QED  BY <1>1, <2>4, <4>2 DEF ShownAt, Sited
    <3>2. \A y \in Pages : file'[y].there \/ On(y)' = {}
      BY <1>4, <2>1, <2>5, <2>6, <2>8 DEF Homes, FilesAtHome
    <3> QED  BY <2>9, <3>1, <3>2 DEF HomeFiles
  <2>12. HomeBlocks'
    <3>1. ASSUME NEW b \in Live, NEW y \in Pages, y = block[b].page
          PROVE  b \in On(y)' \/ y \in broken \/ (y = p /\ Aloft(b)')
      BY <2>6, <2>8, <2>10, <3>1 DEF Homes, BlocksAtHome
    <3>2. ASSUME NEW b \in Live, NEW y \in Pages, y = block[b].page, b \in On(y)'
          PROVE  y \in broken \/ block[b].status \in {file'[y].blocks[b].status, "needs_review"}
      <4>1. b \in On(y) /\ file'[y].blocks[b] = file[y].blocks[b]
        BY <2>6, <3>2
      <4>2. StatusAt(y, b)
        BY <2>8, <3>2, <4>1 DEF Homes, BlocksAtHome
      <4> QED  BY <4>1, <4>2 DEF StatusAt
    <3>3. \A b \in Live : block[b].page \in Pages
      BY <2>9 DEF HomeInv, PageNames
    <3> QED  BY <1>1, <2>4, <2>7, <2>9, <3>1, <3>2, <3>3 DEF HomeBlocks, PresentAt, SameStatus, On
  <2>13. HomeRows'
    <3>1. ASSUME NEW r \in Rows, rows[r].peer = "none",
                 Stands(rows[r].existing)' \/ (rows[r].existing \in Known /\ Carried(rows[r].existing)')
          PROVE  Sited(rows[r].existing, rows[r].page)
      <4>1. PICK e : e = rows[r].existing
        OBVIOUS
      <4>2. Stands(e)
        BY <1>1, <1>4, <2>6, <2>9, <2>10, <3>1, <4>1 DEF Stands
      <4> QED  BY <2>8, <3>1, <4>1, <4>2 DEF Homes, RowsAtHome
    <3> QED  BY <1>1, <2>4, <2>9, <3>1 DEF HomeRows, RowAt, Sited
  <2>14. SplitHome'
    <3>1. Cargo(task.p, task.q, task.blocks)'
      BY <1>1, <1>4, <2>4, <2>6, <2>7, <2>9 DEF Cargo, Sited
    <3>2. On(p)' \cap DOMAIN blocks = {} /\ On(q)' = {}
      BY <1>4, <2>6
    <3> QED  BY <1>4, <2>7, <2>10, <3>1, <3>2 DEF SplitHome, Splits
  <2>15. StageHome'
    BY <2>7, <2>14 DEF StageHome, MergeHome, RenameHome, RunHome, ApplyHome, Merges, Renames
  <2>16. PageNames'
    BY <1>1, <2>9 DEF HomeInv, PageNames
  <2> QED  BY <2>11, <2>12, <2>13, <2>15, <2>16 DEF HomeInv
<1> QED  BY <1>5, <1>6

(* The new page gets the blocks.                                           *)
LEMMA WriteNewHome ==
    ASSUME WikiInv, HomeInv, WriteNew
    PROVE  HomeInv'
<1>1. At("taxonomy", "new") /\ UNCHANGED <<block, rows, broken>> /\ Goto("moves")
  BY DEF WriteNew, historyVars
<1>2. task.op = "taxonomy" /\ task.at = "new" /\ task # Idle
  BY <1>1 DEF At, Idle
<1>3. PICK p, q, blocks : p = task.p /\ q = task.q /\ blocks = task.blocks
  OBVIOUS
<1>4. /\ {"kind", "p", "q", "blocks"} \subseteq DOMAIN task /\ p # q /\ Cargo(p, q, blocks)
      /\ On(p) \cap DOMAIN blocks = {} /\ On(q) = {} /\ p \in Pages /\ q \in Pages /\ (p \in broken => q \in broken)
  BY <1>2, <1>3 DEF HomeInv, StageHome, SplitHome, Splits, Moved, Cargo
<1>5. PICK g : g = [NoFile EXCEPT !.there = TRUE, !.blocks = blocks]
  OBVIOUS
<1>6. g.there /\ g.blocks = blocks
  BY <1>5 DEF NoFile
<1>7. /\ On(q)' = DOMAIN blocks /\ file'[q] = g
      /\ \A y \in Pages \ {q} : file'[y] = file[y] /\ On(y)' = On(y)
  <2>1. file' = [file EXCEPT ![q] = g]
    BY <1>3, <1>5 DEF WriteNew
  <2> QED  BY <1>4, <1>6, <2>1 DEF WikiInv, Shapes, FileShape, On
<1>8. /\ task'.op = "taxonomy" /\ task'.at = "moves" /\ task'.p = p /\ task'.q = q /\ task'.blocks = blocks
      /\ {"kind", "p", "q", "blocks"} \subseteq DOMAIN task'
  <2>1. /\ DOMAIN task' = DOMAIN task /\ task'.at = "moves" /\ task'.op = task.op
        /\ \A x \in DOMAIN task \ {"at"} : task'[x] = task[x]
    BY <1>1, <1>2, GotoTask DEF WikiInv
  <2>2. task'["p"] = task["p"] /\ task'["q"] = task["q"] /\ task'["blocks"] = task["blocks"]
    BY <1>4, <2>1
  <2> QED  BY <1>2, <1>3, <1>4, <2>1, <2>2
<1>9. Known' = Known /\ Live' = Live /\ Rows' = Rows /\ Live \subseteq Known /\ Known \subseteq Blocks
  BY <1>1 DEF Known, Live, Rows
<1>10. /\ ~Fated /\ ~Unregistered /\ ~Merges({"rows"}) /\ \A b : (Aloft(b) \/ Carried(b)) <=> b \in DOMAIN blocks
       /\ Unregistered' /\ Moved' = DOMAIN blocks /\ \A b : (Aloft(b)' <=> b \in DOMAIN blocks) /\ ~Carried(b)'
  BY <1>2, <1>3, <1>8 DEF Fated, Unregistered, Merges, Splits, Aloft, Carried, At, Moved
<1>11. HomeFiles'
  <2>1. ASSUME NEW y \in Pages, NEW b \in Known, b \in On(y)'
        PROVE  ShownAt(y, b)'
    <3>1. CASE y = q
      <4>1. block[b].status = "deleted" => q \in broken
        BY <1>4, <1>7, <2>1, <3>1 DEF Cargo
      <4> QED  BY <1>1, <1>7, <1>8, <1>10, <2>1, <3>1, <4>1 DEF ShownAt
    <3>2. CASE y # q
      <4>1. ShownAt(y, b)
        BY <1>7, <2>1, <3>2 DEF HomeInv, HomeFiles
      <4> QED  BY <1>1, <1>10, <4>1 DEF ShownAt, Sited
    <3> QED  BY <3>1, <3>2
  <2> QED  BY <1>6, <1>7, <1>9, <2>1 DEF HomeInv, HomeFiles
<1>12. HomeBlocks'
  <2>1. ASSUME NEW b \in Live, NEW y \in Pages, y = block[b].page
        PROVE  b \in On(y)' \/ y \in broken \/ (y = p /\ Aloft(b)')
    <3>1. PresentAt(y, b)
      BY <2>1 DEF HomeInv, HomeBlocks
    <3> QED  BY <1>3, <1>4, <1>7, <1>10, <2>1, <3>1 DEF PresentAt
  <2>2. ASSUME NEW b \in Live, NEW y \in Pages, y = block[b].page, b \in On(y)'
        PROVE  y \in broken \/ block[b].status \in {file'[y].blocks[b].status, "needs_review"}
    <3>1. CASE y = q
      <4>1. Sited(b, p)
        BY <1>4, <1>7, <1>9, <2>2, <3>1 DEF Cargo
      <4> QED  BY <1>4, <2>2, <3>1, <4>1 DEF Sited
    <3>2. CASE y # q
      <4>1. b \in On(y) /\ file'[y] = file[y]
        BY <1>7, <2>2, <3>2
      <4>2. SameStatus(y, b)
        BY <2>2, <4>1 DEF HomeInv, HomeBlocks
      <4> QED  BY <1>10, <4>1, <4>2 DEF SameStatus
    <3> QED  BY <3>1, <3>2
  <2>3. \A b \in Live : block[b].page \in Pages
    BY <1>9 DEF HomeInv, PageNames
  <2> QED  BY <1>1, <1>8, <1>9, <2>1, <2>2, <2>3 DEF HomeBlocks, PresentAt, SameStatus, On
<1>13. HomeRows'
  <2>1. ASSUME NEW r \in Rows, rows[r].peer = "none", Stands(rows[r].existing)'
        PROVE  Sited(rows[r].existing, rows[r].page)
    <3>1. PICK e : e = rows[r].existing
      OBVIOUS
    <3>2. Stands(e) \/ (e \in Known /\ Carried(e))
      <4>1. \A b \in DOMAIN blocks : Carried(b)
        BY <1>2, <1>3 DEF Carried, Splits, Moved
      <4> QED  BY <1>1, <1>7, <1>9, <2>1, <3>1, <4>1 DEF Stands
    <3>3. RowAt(rows[r].page, e)
      BY <2>1, <3>1, <3>2 DEF HomeInv, HomeRows
    <3> QED  BY <1>10, <3>1, <3>3 DEF RowAt
  <2> QED  BY <1>1, <1>9, <1>10, <2>1 DEF HomeRows, RowAt, Sited
<1>14. SplitHome'
  <2>1. Cargo(task.p, task.q, task.blocks)'
    BY <1>1, <1>4, <1>7, <1>8, <1>9 DEF Cargo, Sited
  <2>2. Delivered(task.q, task.blocks)'
    BY <1>6, <1>7, <1>8 DEF Delivered
  <2>3. On(task.p)' \cap DOMAIN blocks = {}
    BY <1>4, <1>7, <1>8
  <2> QED  BY <1>4, <1>8, <1>10, <2>1, <2>2, <2>3 DEF SplitHome, Splits
<1>15. StageHome'
  BY <1>8, <1>14 DEF StageHome, MergeHome, RenameHome, RunHome, ApplyHome, Merges, Renames
<1>16. PageNames'
  BY <1>1, <1>9 DEF HomeInv, PageNames
<1> QED  BY <1>11, <1>12, <1>13, <1>15, <1>16 DEF HomeInv

(* The blocks are committed where they have gone, and their rows.          *)
LEMMA CommitMovesHome ==
    ASSUME WikiInv, HomeInv, CommitMoves
    PROVE  HomeInv'
<1>1. /\ At("taxonomy", "moves") /\ UNCHANGED <<file, broken>> /\ Goto("refresh")
      /\ block' = [b \in Blocks |-> Rehome(b)]
  BY DEF CommitMoves, historyVars
<1>2. task.op = "taxonomy" /\ task.at = "moves" /\ task # Idle
  BY <1>1 DEF At, Idle
<1>3. PICK p, q, blocks : p = task.p /\ q = task.q /\ blocks = task.blocks
  OBVIOUS
<1>4. /\ p # q /\ Cargo(p, q, blocks) /\ Delivered(q, blocks) /\ On(p) \cap DOMAIN blocks = {}
      /\ p \in Pages /\ q \in Pages /\ Moved = DOMAIN blocks
  BY <1>2, <1>3 DEF HomeInv, StageHome, SplitHome, Splits, Moved, Cargo
<1>5. ~Fated /\ ~Merges({"rows"}) /\ \A b : ~Carried(b) /\ (Aloft(b) => b \in Moved)
  BY <1>2 DEF Fated, Merges, Splits, Carried, Aloft, At
<1>6. /\ FilesAtHome' /\ BlocksAtHome' /\ Known' = Known /\ Live' = Live
      /\ \A b \in Blocks : block'[b].page \in Pages
      /\ \A b \in Known : block'[b].page = IF b \in Moved THEN q ELSE block[b].page
      /\ \A b, x : b \in Known /\ Sited(b, x) => Sited(b, x)' \/ (b \in Moved /\ x = p /\ block'[b].page = q)
  <2>1. On(task.p) \cap Moved = {} /\ ~Fated /\ task.p # task.q /\ \A b : Aloft(b) => b \in Moved
    BY <1>3, <1>4, <1>5
  <2>2. Cargo(task.p, task.q, task.blocks) /\ Delivered(task.q, task.blocks)
    BY <1>3, <1>4
  <2> QED  BY <1>1, <1>3, <2>1, <2>2, RehomedHome
<1>7. /\ Rows' = Rows
      /\ \A r \in Rows : /\ rows'[r].peer = rows[r].peer /\ rows'[r].existing = rows[r].existing
                         /\ rows'[r].page = IF rows[r].existing \in Moved THEN q ELSE rows[r].page
  <2>1. ASSUME NEW r \in Rows
        PROVE  /\ rows'[r].peer = rows[r].peer /\ rows'[r].existing = rows[r].existing
               /\ rows'[r].page = IF rows[r].existing \in Moved THEN q ELSE rows[r].page
    <3>1. rows'[r] = IF rows[r].existing \in Moved THEN [rows[r] EXCEPT !.page = q] ELSE rows[r]
      BY <1>3, <2>1 DEF CommitMoves
    <3>2. IsRow(rows[r])
      BY <2>1 DEF WikiInv, Shapes, RowShape
    <3> QED  BY <3>1, <3>2 DEF IsRow
  <2> QED  BY <2>1 DEF CommitMoves, Rows
<1>8. PageNames'
  <2>1. ASSUME NEW r \in Rows, rows[r].peer # "none"
        PROVE  rows[r].existing \notin Moved
    <3>1. rows[r].existing = 0
      BY <2>1 DEF HomeInv, PageNames
    <3>2. On(q) \subseteq Taken
      BY <1>2, <1>4 DEF WikiInv, PlacesInv, Writing, At, Taken
    <3>3. 0 \notin Taken
      BY DEF WikiInv, IdsInv, Numbered
    <3> QED  BY <1>4, <3>1, <3>2, <3>3 DEF Delivered
  <2> QED  BY <1>4, <1>6, <1>7, <2>1 DEF HomeInv, PageNames
<1>9. RowsAtHome'
  <2>1. ASSUME NEW r \in Rows, rows[r].peer = "none", Stands(rows[r].existing)'
        PROVE  Sited(rows[r].existing, rows[r].page)'
    <3>1. PICK e, x, y : e = rows[r].existing /\ x = rows[r].page /\ y = rows'[r].page
      OBVIOUS
    <3>2. Stands(e) /\ e \in Known
      BY <1>1, <1>6, <1>7, <2>1, <3>1 DEF Stands, Live, On
    <3>3. Sited(e, x)
      BY <1>5, <2>1, <3>1, <3>2 DEF HomeInv, HomeRows, RowAt
    <3>4. Sited(e, y)'
      BY <1>6, <1>7, <2>1, <3>1, <3>2, <3>3 DEF Sited
    <3> QED  BY <1>7, <2>1, <3>1, <3>4 DEF Sited
  <2> QED  BY <1>7, <2>1 DEF RowsAtHome
<1>10. Unstaged' /\ task'.op # "apply"
  <2>1. task'.op = "taxonomy" /\ task'.at = "refresh"
    BY <1>1, <1>2, GotoTask DEF WikiInv
  <2> QED  BY <2>1 DEF Unstaged
<1> QED  BY <1>6, <1>8, <1>9, <1>10, UnstagedHome, HomesAlways DEF Homes

(* What is open is listed again.                                           *)
LEMMA _refresh_derived_pagesHome ==
    ASSUME WikiInv, HomeInv, _refresh_derived_pages
    PROVE  HomeInv'
<1>1. At("taxonomy", "refresh") /\ UNCHANGED <<block, rows, broken>> /\ Goto("render")
  BY DEF _refresh_derived_pages, historyVars
<1>2. task.op = "taxonomy" /\ task.at = "refresh" /\ task # Idle /\ ~PartDone
  BY <1>1 DEF At, Idle, PartDone, Fated
<1>3. SamePages
  <2>1. ASSUME NEW p \in Pages
        PROVE  SamePage(file[p], file'[p])
    <3>1. IsPage(file[p])
      BY <2>1 DEF WikiInv, Shapes, FileShape
    <3>2. file'[p] \in {file[p], List(file[p], p)}
      BY <2>1 DEF _refresh_derived_pages
    <3> QED  BY <3>1, <3>2, SameGenerated, SameListed
  <2> QED  BY <2>1 DEF SamePages
<1>4. Unstaged' /\ task'.op # "apply"
  <2>1. task'.op = "taxonomy" /\ task'.at = "render"
    BY <1>1, <1>2, GotoTask DEF WikiInv
  <2> QED  BY <2>1 DEF Unstaged
<1> QED  BY <1>1, <1>2, <1>3, <1>4, SameBlocksSameInventory, SameRowsMore, PlainHome

--------------------------------------------------------------------------------
(* All steps.                                                              *)

(* There is one block, where it is shown.                                  *)
LEMMA InitHome ==
    ASSUME Init
    PROVE  HomeInv
<1>1. First \in Pages /\ 1 \in Blocks
  BY WikiAssumption DEF Blocks
<1>2. PICK k : block = [b \in Blocks |-> IF b = 1 THEN [page |-> First, key |-> k, status |-> "current", edited |-> FALSE] ELSE Unknown]
  BY DEF Init
<1>3. /\ Known = {1} /\ Live = {1} /\ \A b \in Blocks : block[b].page = First
      /\ block[1].page = First /\ block[1].status = "current"
  BY <1>1, <1>2 DEF Known, Live, Unknown
<1>4. PICK v : v = Drafted(block[1].key, "current")
  OBVIOUS
<1>5. PICK blocks : blocks = [b \in {1} |-> v]
  OBVIOUS
<1>6. file = [p \in Pages |-> IF p = First THEN [Stub EXCEPT !.blocks = blocks] ELSE NoFile]
  BY <1>4, <1>5 DEF Init
<1>7. /\ file[First].there /\ file[First].blocks = blocks
      /\ \A p \in Pages \ {First} : file[p].blocks = NoBlocks
  <2>1. Stub.there
    BY DEF Stub, NoFile
  <2>2. [Stub EXCEPT !.blocks = blocks] =
        [there |-> Stub.there, blocks |-> blocks, listed |-> Stub.listed, coverage |-> Stub.coverage, digest |-> Stub.digest]
    BY StubIsGood DEF IsPage
  <2>3. [Stub EXCEPT !.blocks = blocks].there /\ [Stub EXCEPT !.blocks = blocks].blocks = blocks
    BY <2>1, <2>2
  <2>4. NoFile.blocks = NoBlocks
    BY DEF NoFile
  <2> QED  BY <1>1, <1>6, <2>3, <2>4
<1>8. On(First) = {1} /\ file[First].blocks[1].status = "current" /\ \A p \in Pages \ {First} : On(p) = {}
  BY <1>4, <1>5, <1>7 DEF On, NoBlocks, Drafted
<1>9. rows = [r \in {} |-> 0] /\ task = Idle
  BY DEF Init
<1>10. Rows = {} /\ task.op = "idle"
  BY <1>9 DEF Rows, Idle
<1>11. PageNames
  BY <1>1, <1>3, <1>10 DEF PageNames
<1>12. HomeFiles
  BY <1>3, <1>7, <1>8 DEF HomeFiles, ShownAt, Sited
<1>13. HomeBlocks
  BY <1>3, <1>8 DEF HomeBlocks, PresentAt, SameStatus
<1>14. HomeRows /\ StageHome
  BY <1>10 DEF HomeRows, StageHome, MergeHome, SplitHome, RenameHome, RunHome, ApplyHome, Merges, Splits, Renames
<1> QED  BY <1>11, <1>12, <1>13, <1>14 DEF HomeInv

(* A run leaves every block in its place ...                               *)
LEMMA RunStepHome ==
    ASSUME WikiInv, HomeInv, RunStep
    PROVE  HomeInv'
<1>1. ASSUME NEW cs \in SUBSET Chunks, NEW k \in Keys, NEW p \in Pages,
             PlaceClean(cs, k, p) \/ PlaceDuplicate(cs, k, p) \/ PlaceConflict(cs, k, p)
      PROVE  HomeInv'
  BY <1>1, PlaceCleanHome, PlaceDuplicateHome, PlaceConflictHome
<1>2. ASSUME NEW p \in Pages, NEW q \in Pages, TaxonomyRow(p, q)
      PROVE  HomeInv'
  BY <1>2, TaxonomyRowHome
<1>3. CASE ReadPage \/ WriteBlock \/ WriteConflict \/ create_block
  BY <1>3, ReadPageHome, WriteBlockHome, WriteConflictHome, create_blockHome
<1>4. CASE StartRun \/ mark_placed \/ ReadMarked \/ apply_pending_conflict_marker \/ mark_conflicted_pending
  BY <1>4, StartRunHome, QuietRunHome, apply_pending_conflict_markerHome
<1>5. CASE create_stale_block_reviews \/ ListStale \/ emit_review_file \/ Render \/ CommitWiki
  BY <1>5, create_stale_block_reviewsHome, ListStaleHome, QuietRunHome, RenderHome, CommitWikiHome
<1> QED  BY <1>1, <1>2, <1>3, <1>4, <1>5 DEF RunStep

(* ... and so do decisions ...                                             *)
LEMMA ApplyStepHome ==
    ASSUME WikiInv, HomeInv, ApplyStep
    PROVE  HomeInv'
  BY StartApplyHome, LoadPageHome, TurnToPagesHome, UpdateStatusHome, CreateAcceptedHome, _write_pageHome,
     QuietDecisionHome, _mark_appliedHome, RefreshConflictsHome DEF ApplyStep

(* ... and taxonomy operations.                                            *)
LEMMA TaxonomyStepHome ==
    ASSUME WikiInv, HomeInv, TaxonomyStep, IF task = Idle THEN Spend(2) ELSE UNCHANGED spent, UNCHANGED late
    PROVE  HomeInv'
<1> DEFINE Starts == \/ \E p, q \in Pages : StartMerge(p, q) \/ StartSplit(p, q)
                     \/ \E p \in Pages : StartRename(p)
<1>1. CASE Starts
  <2>1. task = Idle
    BY <1>1 DEF StartMerge, StartSplit, StartRename, Start
  <2>2. Spend(2)
    BY <2>1
  <2> QED  BY <1>1, <2>2, StartMergeHome, StartSplitHome, StartRenameHome
<1>2. CASE MergeRow \/ WriteTarget \/ _write_redirect_stub \/ RegisterMerge \/ MoveRows \/ RegisterRename
  BY <1>2, MergeRowHome, WriteTargetHome, StubOfMergeHome, StubOfRenameHome, RegisterMergeHome, MoveRowsHome, RegisterRenameHome
<1>3. CASE WriteSource \/ WriteNew \/ CommitMoves \/ _refresh_derived_pages
  BY <1>3, WriteSourceHome, WriteNewHome, CommitMovesHome, _refresh_derived_pagesHome
<1> QED  BY <1>1, <1>2, <1>3 DEF TaxonomyStep

(* A step leaves every block in its place, or between two parts.           *)
LEMMA NextHome ==
    ASSUME WikiInv, HomeInv, [Next]_vars
    PROVE  HomeInv'
<1>1. CASE RunStep
  BY <1>1, RunStepHome
<1>2. CASE ApplyStep
  BY <1>2, ApplyStepHome
<1>3. CASE TaxonomyStep /\ (IF task = Idle THEN Spend(2) ELSE UNCHANGED spent) /\ UNCHANGED late
  BY <1>3, TaxonomyStepHome
<1>4. CASE \E p \in Pages, b \in Blocks : EditBlock(p, b)
  BY <1>4, EditBlockHome
<1>5. CASE \E b \in Blocks : flag_blocks_with_only_superseded_chunks(b)
  BY <1>5, flag_blocksHome
<1>6. CASE Kill
  BY <1>6, KillHome
<1>7. CASE UNCHANGED vars
  <2>1. UNCHANGED <<file, task, block, rows, broken>>
    BY <1>7 DEF vars, storeVars, historyVars
  <2> QED  BY <2>1, SameFilesSamePages, AsideHome
<1> QED  BY <1>1, <1>2, <1>3, <1>4, <1>5, <1>6, <1>7 DEF Next

(* Where no operation runs, a page and the rows of its blocks agree.       *)
LEMMA HomesAgree ==
    ASSUME WikiInv, HomeInv
    PROVE  InventoryAgrees
<1> SUFFICES ASSUME NEW p \in Pages, Settled(p)
             PROVE  /\ Misplaced(p) \subseteq orphans
                    /\ \A b \in BlocksOf(p) \cap On(p) : block[b].status \in {file[p].blocks[b].status, "needs_review"}
  BY DEF InventoryAgrees
<1>1. task.op = "idle" /\ p \notin broken
  BY DEF Settled, Idle
<1>2. Homes
  BY <1>1, HomesBetween DEF PartDone, Fated
<1>3. On(p) \subseteq Known \cup orphans
  BY <1>1 DEF WikiInv, PlacesInv, Writing, At
<1>4. BlocksOf(p) \subseteq On(p)
  BY <1>1, <1>2 DEF Homes, BlocksAtHome, BlocksOf
<1>5. ASSUME NEW b \in On(p) \ BlocksOf(p)
      PROVE  b \in orphans
  <2>1. CASE b \in Known
    BY <1>1, <1>2, <1>5, <2>1 DEF Homes, FilesAtHome, Sited, BlocksOf, Live
  <2> QED  BY <1>3, <1>5, <2>1
<1>6. ASSUME NEW b \in BlocksOf(p) \cap On(p)
      PROVE  block[b].status \in {file[p].blocks[b].status, "needs_review"}
  BY <1>1, <1>2, <1>6 DEF Homes, BlocksAtHome, StatusAt, BlocksOf
<1> QED  BY <1>4, <1>5, <1>6 DEF Misplaced

(* A page that no cut-off operation has left in parts shows the blocks     *)
(* that the rows of acw_blocks place there, and no others but those that a *)
(* killed run has left without a row; and a status that differs from the   *)
(* file's is "needs_review", until the next render.                        *)
THEOREM InventoryIsKept == Spec => []InventoryAgrees
<1>1. Init => WikiInv /\ HomeInv
  BY InitInv, InitHome
<1>2. WikiInv /\ HomeInv /\ [Next]_vars => (WikiInv /\ HomeInv)'
  BY NextStep, NextHome
<1>3. WikiInv /\ HomeInv => InventoryAgrees
  BY HomesAgree
<1> QED  BY <1>1, <1>2, <1>3, PTL DEF Spec
===============================================================================
