------------------------- MODULE LocalWorkspace_proofs -------------------------
(***************************************************************************)
(* What is proved of the local mode for any number of files, highlights,   *)
(* coroutines and restarts: IndexCurrent, HighlightsKept and               *)
(* NoStaleAnnotation.  A path that is not tainted has one task at a time;  *)
(* the invariant says of each of its steps how far the row has come, what  *)
(* of it is not committed, and what the watcher has still to do.           *)
(***************************************************************************)
EXTENDS LocalWorkspace, TLAPS

Statuses == {"none", "ready", "pending", "processing", "failed", "removed"}
Rows == [id : Nat, status : Statuses, text : Nat, hash : Nat, marks : SUBSET Marks, chunks : Nat, ann : SUBSET Marks]

WatchOps == {"boot", "index"}
ToolOps == {"mcp edit", "mcp create", "mcp delete"}
SlotOps == ToolOps \cup {"content", "upload", "delete", "extract"}

XStages == {"x queued", "x select", "x started", "x read", "x chunks", "x ready", "x fail", "x end"}
IndexStages == {"gone", "select", "insert", "clear", "row", "commit", "chunks", "commit chunks", "commit gone"}
Stages == XStages \cup IndexStages \cup {"next", "extract", "file", "commit row", "read", "annotate"}

WatchJobs == [op : WatchOps, at : Stages, p : Paths \cup {"none"}, id : Nat, c : Nat, todo : SUBSET Paths]
SlotJobs == [op : SlotOps, at : Stages, p : Paths, id : Nat, c : Nat]
MarkJobs == [op : MarkOps, at : Stages, p : Paths, id : Nat, c : Nat, m : Marks, marks : SUBSET Marks]

On(t, p) == Active(t) /\ task[t].p = p
MarkTask(t) == task[t].op \in MarkOps
Indexing(t) == task[t].op \in WatchOps

TaskType ==
    /\ task \in [Tasks -> {Idle} \cup WatchJobs \cup SlotJobs \cup MarkJobs]
    /\ task["watch"] \in {Idle} \cup WatchJobs
    /\ \A t \in Slots : task[t] \in {Idle} \cup SlotJobs \cup MarkJobs

StoreType ==
    /\ db \in [Paths -> Rows] /\ committed \in [Paths -> Rows]
    /\ txn \in Tasks \cup {"none", "implicit"}

FileType ==
    /\ file \in [Paths -> Nat] /\ contents \in Nat /\ ids \in Nat
    /\ events \subseteq Paths /\ recent \in [Paths -> Nat]
    /\ acked \in [Paths -> SUBSET Marks]

\* The steps of each operation, and the files it is for.
StageOK(t) ==
    LET op == task[t].op
        at == task[t].at
        p == task[t].p
    IN /\ op = "boot" => at \in IndexStages \cup {"next"} /\ (at # "next" => p \in Paths)
       /\ op = "index" => at \in IndexStages \cup XStages \cup {"next", "extract"} /\ p \in Paths
       /\ op \in MarkOps => at \in {"read", "row", "annotate", "commit"}
       /\ op \in ToolOps => at \in {"file", "row"} /\ p \in TextPaths
       /\ op = "content" => at \in {"file", "row", "commit row", "chunks", "commit"} /\ p \in TextPaths
       /\ op = "upload" => /\ at \in {"file", "insert", "clear", "row", "commit row", "chunks", "commit"}
                           /\ at \in {"chunks", "commit"} => p \in TextPaths
       /\ op = "delete" => at \in {"file", "chunks", "row", "commit"}
       /\ op = "extract" => at \in XStages \ {"x queued"}
       /\ op \in WatchOps /\ at = "chunks" => p \in TextPaths
       /\ op \in WatchOps \cup {"extract"} /\ at \in XStages \cup {"clear"} => p \in BinaryPaths

TypeOK == TaskType /\ StoreType /\ FileType /\ \A t \in Tasks : StageOK(t)

--------------------------------------------------------------------------------
\* At most one task is on a path that is not tainted.
AloneInv ==
    /\ \A p \in Paths \ tainted : \A t, u \in Tasks : On(t, p) /\ On(u, p) => t = u
    /\ ~Watched => \A t \in Slots : Active(t) => Survives(t) /\ task[t].p \in tainted

\* A transaction of a task's own is of a request for a highlight, and only what is on
\* its path is not committed.
TxnInv ==
    /\ txn = "none" => db = committed
    /\ txn \in Tasks => txn \in Slots /\ MarkTask(txn)
    /\ txn \in Tasks => \A q \in Paths \ tainted : q # task[txn].p => db[q] = committed[q]
    /\ \A t \in Slots : MarkTask(t) /\ task[t].p \notin tainted => txn = t

\* Contents are numbered as they are written.
CountInv ==
    /\ contents <= MaxContents
    /\ \A p \in Paths : /\ file[p] <= contents
                        /\ recent[p] <= contents \/ recent[p] = NotRecent
                        /\ db[p].hash <= contents /\ committed[p].hash <= contents
                        /\ db[p].text <= contents /\ committed[p].text <= contents
    /\ \A t \in Tasks : Active(t) => task[t].c <= contents
    /\ ~Watched => events = {} /\ recent = [p \in Paths |-> NotRecent]

--------------------------------------------------------------------------------
\* The steps of a task between a statement and the commit.
Dirty(t) ==
    \/ task[t].at \in {"commit", "commit row", "commit chunks", "commit gone", "x queued", "x started", "x ready",
                       "x end", "annotate"}
    \/ task[t].at = "row" /\ task[t].op \in {"upload", "delete", "index", "boot"}

\* The steps of a task at which its document is there.
HasRow(t) ==
    \/ task[t].op \in MarkOps \cup {"content", "mcp edit", "mcp delete", "extract"}
    \/ task[t].op = "delete" /\ task[t].at # "commit"
    \/ task[t].op = "upload" /\ task[t].at \in {"clear", "row", "commit row", "chunks", "commit"}
    \/ Indexing(t) /\ task[t].at \in {"clear", "row", "commit", "chunks", "commit chunks", "commit gone",
                                      "x started", "x read", "x chunks", "x ready", "x fail", "x end"}

\* The steps of a task at which the document it found, or that none, is still so.
Follows(t) == task[t].at \notin {"next", "extract"} /\ ~(task[t].op = "delete" /\ task[t].at = "commit")

\* What holds of a task and the document it is for, as each part of the invariant says.
FollowInv(t) ==
    /\ Follows(t) => Mine(t)
    /\ HasRow(t) => task[t].id # 0
    /\ task[t].op = "mcp create" => task[t].id = 0
    /\ task[t].at = "insert" => task[t].id = 0

\* What is left of the confirmed highlights when t has done its work.
Confirmed(t) == IF task[t].op = "upsert" THEN acked[task[t].p] \cup {task[t].m} ELSE acked[task[t].p] \ {task[t].m}
Annotating(t) == MarkTask(t) /\ task[t].at = "annotate"
Marked(t) == MarkTask(t) /\ task[t].at \in {"annotate", "commit"}

MarkInv(t) ==
    /\ MarkTask(t) /\ task[t].at \in {"row", "annotate", "commit"} => Confirmed(t) \subseteq task[t].marks
    /\ Marked(t) => db[task[t].p].marks = task[t].marks
    /\ task[t].op = "upload" /\ task[t].at = "row" => db[task[t].p].ann = {}

\* Something that was read of a file is not newer than the file.
NotNewer(c, p) == file[p] = 0 \/ c <= file[p]

\* How far a task has come with its document, whatever becomes of the file meanwhile.
StepInv(t) ==
    LET p == task[t].p
        at == task[t].at
        c == task[t].c
    IN /\ at \notin {"next", "extract", "x queued", "x select", "x started", "x read", "x fail", "x end"} => NotNewer(c, p)
       /\ Indexing(t) /\ at \in {"select", "insert", "clear", "row", "commit", "chunks", "commit chunks"} => c # 0
       /\ Indexing(t) /\ at \in {"gone", "commit gone"} => file[p] = 0 \/ db[p].hash # file[p]
       /\ task[t].op = "upload" /\ at # "file" => c # 0
       /\ task[t].op \in {"content", "mcp edit"} /\ at # "file" => c # 0 /\ db[p].hash < c
       /\ at = "x queued" \/ (Indexing(t) /\ at = "x select") => db[p].id = 0 \/ db[p].status = "pending"
       /\ ((Indexing(t) /\ at = "commit") \/ (task[t].op = "upload" /\ at = "commit row")) /\ p \in BinaryPaths
             => db[p].status = "pending"
       /\ task[t].op = "extract" /\ at = "x select" => db[p].status \in {"pending", "processing"}
       /\ at \in {"x started", "x read", "x chunks", "x ready", "x fail"} => db[p].status = "processing"
       /\ at \in {"x chunks", "x ready"} => c # 0 /\ db[p].hash <= c
       /\ at = "x ready" => db[p].chunks = c

Indexed(p) == db[p].text = file[p] /\ db[p].chunks = file[p]

\* ... and when the file is as the task found or left it.
StepClaim(t) ==
    LET p == task[t].p
        at == task[t].at
        c == task[t].c
    IN /\ Indexing(t) /\ at \in {"gone", "commit gone"} => file[p] = 0
       /\ Indexing(t) /\ at = "commit gone" => db[p].status = "removed"
       /\ Indexing(t) /\ at \in {"select", "insert", "clear", "row", "commit", "chunks", "commit chunks"} => c = file[p]
       /\ task[t].op \in {"content", "upload"} /\ at # "file" => c = file[p]
       /\ task[t].op \in WatchOps \cup {"content", "upload"} /\ at \in {"commit", "chunks", "commit row"} /\ p \in TextPaths
             => db[p].text = c
       /\ Indexing(t) /\ at = "commit chunks" => Indexed(p)
       /\ task[t].op \in {"content", "upload"} /\ at = "commit" => Indexed(p)
       /\ task[t].op = "delete" /\ at # "file" => file[p] = 0
       /\ task[t].op = "delete" /\ at = "commit" => db[p].id = 0
       /\ at \in {"x queued", "x select"} => (db[p].id = 0 <=> file[p] = 0)
       /\ at \in {"x started", "x read", "x chunks", "x ready", "x fail", "x end"} => file[p] # 0
       /\ at \in {"x chunks", "x ready"} => c = file[p]
       /\ at = "x end" => db[p].status = "failed" \/ Indexed(p)
       /\ Survives(t) => at = "file"

--------------------------------------------------------------------------------
\* What a row says of the file it is of.
RowOfFile(r, p) ==
    /\ NotNewer(r.hash, p) /\ NotNewer(r.text, p)
    /\ p \in TextPaths /\ r.hash # 0 /\ r.hash = file[p] => r.text = file[p]
    /\ p \in BinaryPaths /\ r.status = "ready" /\ r.chunks # 0 => r.chunks = r.text /\ r.hash <= r.text
    /\ p \in BinaryPaths /\ r.status = "removed" => file[p] = 0 \/ r.hash # file[p]
    /\ p \in BinaryPaths /\ r.id # 0 => r.status # "none"

\* No change of the file is left that the watcher, or the scan, will come to.
NothingToSee(p) ==
    /\ p \notin events \/ recent[p] = file[p]
    /\ ~Watched => p \notin task["watch"].todo

\* The watcher extracts documents and will come to that of p.
Queued(p) ==
    /\ task["watch"].op = "index" /\ task["watch"].at \in XStages \cup {"extract"}
    /\ p \in task["watch"].todo

\* The task that is at it, or the scan, will have the document extracted.
WillExtract(p) ==
    \/ task["watch"].op = "boot"
    \/ task["watch"].op = "index" /\ task["watch"].at = "next" /\ task["watch"].p = p
    \/ Queued(p)

Settled(p) ==
    IF file[p] = 0 THEN db[p].id = 0 \/ db[p].status = "removed" \/ task["watch"].op = "boot"
    ELSE \/ Indexed(p)
         \/ p \in BinaryPaths /\ db[p].status = "failed"
         \/ p \in BinaryPaths /\ db[p].status \in {"pending", "processing"} /\ WillExtract(p)

\* Between requests, and while a highlight is changed, the index is settled.
Working(t) == ~MarkTask(t) /\ task[t].at \notin {"next", "extract"}

\* What holds of a path whatever its task does.
StillInv(p) ==
    /\ db[p].id = 0 => db[p] = NoRow
    /\ committed[p].id = 0 => committed[p] = NoRow
    /\ acked[p] \subseteq committed[p].marks
    /\ committed[p].ann \subseteq committed[p].marks
    /\ RowOfFile(db[p], p) /\ RowOfFile(committed[p], p)
    /\ Queued(p) => p \in BinaryPaths /\ db[p].status # "removed"

TaskInv(t) == FollowInv(t) /\ MarkInv(t) /\ StepInv(t)

PathInv(p) ==
    /\ StillInv(p)
    /\ (\A t \in Tasks : On(t, p) => ~Dirty(t)) => db[p] = committed[p]
    /\ (\A t \in Tasks : On(t, p) => ~Annotating(t)) => db[p].ann \subseteq db[p].marks
    /\ (\A t \in Tasks : On(t, p) => ~Marked(t)) => acked[p] \subseteq db[p].marks
    /\ \A t \in Tasks : On(t, p) => TaskInv(t)
    /\ NothingToSee(p) =>
          /\ (\A t \in Tasks : On(t, p) => ~Working(t)) => Settled(p)
          /\ \A t \in Tasks : On(t, p) => StepClaim(t)

\* The same of a path on which nobody but t can be.
JobInv(t, p) ==
    /\ StillInv(p)
    /\ ~(On(t, p) /\ Dirty(t)) => db[p] = committed[p]
    /\ ~(On(t, p) /\ Annotating(t)) => db[p].ann \subseteq db[p].marks
    /\ ~(On(t, p) /\ Marked(t)) => acked[p] \subseteq db[p].marks
    /\ On(t, p) => TaskInv(t)
    /\ NothingToSee(p) =>
          /\ ~(On(t, p) /\ Working(t)) => Settled(p)
          /\ On(t, p) => StepClaim(t)

\* Only binary files are extracted.
QueueInv == \A q \in Paths : Queued(q) => q \in BinaryPaths

Inv ==
    /\ TypeOK /\ AloneInv /\ TxnInv /\ CountInv /\ QueueInv
    /\ \A p \in Paths \ tainted : PathInv(p)

--------------------------------------------------------------------------------
(* The fields of a task that is at work. *)
LEMMA TaskFields ==
    ASSUME TypeOK, NEW t \in Tasks, Active(t)
    PROVE  /\ task[t].at \in Stages /\ task[t].id \in Nat /\ task[t].c \in Nat
           /\ task[t].p \in Paths \cup {"none"}
           /\ t \in Slots => task[t].p \in Paths /\ task[t].op \in SlotOps \cup MarkOps
           /\ t = "watch" => task[t].op \in WatchOps /\ task[t].todo \subseteq Paths
           /\ MarkTask(t) => t \in Slots /\ task[t].m \in Marks /\ task[t].marks \subseteq Marks
<1>1. CASE t \in Slots
  <2>1. t # "watch"
    BY <1>1, LocalAssumption
  <2>2. task[t] \in SlotJobs \cup MarkJobs
    BY <1>1 DEF TypeOK, TaskType, Active, Idle
  <2>3. CASE task[t] \in SlotJobs
    BY <1>1, <2>1, <2>3 DEF SlotJobs, SlotOps, ToolOps, MarkTask, MarkOps
  <2>4. CASE task[t] \in MarkJobs
    BY <1>1, <2>1, <2>4 DEF MarkJobs, MarkTask, MarkOps
  <2> QED
    BY <2>2, <2>3, <2>4
<1>2. CASE t = "watch"
  <2>1. task[t] \in WatchJobs
    BY <1>2 DEF TypeOK, TaskType, Active, Idle
  <2>2. t \notin Slots
    BY <1>2, LocalAssumption
  <2> QED
    BY <1>2, <2>1, <2>2 DEF WatchJobs, WatchOps, MarkTask, MarkOps
<1> QED
  BY <1>1, <1>2 DEF Tasks

(* Goto changes where a task is, and nothing else of it. *)
LEMMA Going ==
    ASSUME TypeOK, NEW t \in Tasks, Active(t), NEW at \in Stages, Goto(t, at)
    PROVE  /\ TaskType'
           /\ \A u \in Tasks \ {t} : task'[u] = task[u]
           /\ task'[t].op = task[t].op /\ task'[t].p = task[t].p /\ task'[t].id = task[t].id
           /\ task'[t].c = task[t].c /\ task'[t].at = at
           /\ t = "watch" => task'[t].todo = task[t].todo
           /\ MarkTask(t) => task'[t].m = task[t].m /\ task'[t].marks = task[t].marks
<1>1. TaskType
  BY DEF TypeOK
<1>2. task' = [task EXCEPT ![t] = [task[t] EXCEPT !.at = at]]
  BY DEF Goto
<1>3. \A u \in Tasks \ {t} : task'[u] = task[u]
  BY <1>1, <1>2 DEF TaskType
<1>4. task'[t] = [task[t] EXCEPT !.at = at]
  BY <1>1, <1>2 DEF TaskType
<1>5. CASE task[t] \in WatchJobs
  <2>1. task'[t] \in WatchJobs /\ ~MarkTask(t)
    BY <1>4, <1>5 DEF WatchJobs, MarkTask, WatchOps, MarkOps
  <2>2. t \notin Slots
    BY <1>5, TaskFields DEF WatchJobs, WatchOps, SlotOps, ToolOps, MarkOps
  <2> QED
    BY <1>1, <1>2, <1>3, <1>4, <1>5, <2>1, <2>2, LocalAssumption DEF TaskType, Tasks, WatchJobs
<1>6. CASE task[t] \in SlotJobs
  <2>1. task'[t] \in SlotJobs /\ ~MarkTask(t)
    BY <1>4, <1>6 DEF SlotJobs, MarkTask, SlotOps, ToolOps, MarkOps
  <2>2. t \in Slots
    BY <1>6, TaskFields DEF Tasks, SlotJobs, WatchOps, SlotOps, ToolOps
  <2> QED
    BY <1>1, <1>2, <1>3, <1>4, <1>6, <2>1, <2>2, LocalAssumption DEF TaskType, Tasks, SlotJobs
<1>7. CASE task[t] \in MarkJobs
  <2>1. task'[t] \in MarkJobs
    BY <1>4, <1>7 DEF MarkJobs, MarkOps
  <2>2. t \in Slots
    BY <1>1, <1>7 DEF TaskType, Tasks, WatchJobs, MarkJobs, Idle, WatchOps, MarkOps
  <2> QED
    BY <1>1, <1>2, <1>3, <1>4, <1>7, <2>1, <2>2, LocalAssumption DEF TaskType, Tasks, MarkJobs
<1> QED
  BY <1>1, <1>5, <1>6, <1>7 DEF TaskType, Active, Idle

(* A task that is done is idle. *)
LEMMA Ending ==
    ASSUME TypeOK, NEW t \in Tasks, Done(t)
    PROVE  /\ TaskType'
           /\ \A u \in Tasks \ {t} : task'[u] = task[u]
           /\ task'[t] = Idle /\ ~Active(t)'
    BY LocalAssumption DEF TypeOK, TaskType, Tasks, Done, Active, Idle

(* The watcher goes on as w. *)
LEMMA Watching ==
    ASSUME TypeOK, NEW w, w \in {Idle} \cup WatchJobs, SetWatch(w)
    PROVE  /\ TaskType'
           /\ \A u \in Tasks \ {"watch"} : task'[u] = task[u]
           /\ task'["watch"] = w
    BY LocalAssumption DEF TypeOK, TaskType, Tasks, SetWatch

(* A coroutine becomes another task. *)
LEMMA Becoming ==
    ASSUME TypeOK, NEW t \in Slots, NEW j \in {Idle} \cup SlotJobs \cup MarkJobs, task' = [task EXCEPT ![t] = j]
    PROVE  /\ TaskType'
           /\ \A u \in Tasks \ {t} : task'[u] = task[u]
           /\ task'[t] = j
    BY LocalAssumption DEF TypeOK, TaskType, Tasks

--------------------------------------------------------------------------------
(* A task that does not move keeps what the invariant says of it, when the file, the *)
(* row and the confirmed highlights of its path stay as they are.                    *)
LEMMA TaskKept ==
    ASSUME NEW u \in Tasks, NEW q \in Paths, On(u, q), task'[u] = task[u],
           file'[q] = file[q], db'[q] = db[q], acked'[q] = acked[q]
    PROVE  /\ On(u, q)' /\ Dirty(u)' = Dirty(u) /\ Annotating(u)' = Annotating(u) /\ Marked(u)' = Marked(u)
           /\ Working(u)' = Working(u) /\ MarkTask(u)' = MarkTask(u)
           /\ TaskInv(u) => TaskInv(u)'
           /\ StepClaim(u) => StepClaim(u)'
<1>1. task[u].p = q /\ task'[u].p = q
  BY DEF On
<1>2. /\ On(u, q)' /\ Dirty(u)' = Dirty(u) /\ Annotating(u)' = Annotating(u) /\ Marked(u)' = Marked(u)
      /\ Working(u)' = Working(u) /\ MarkTask(u)' = MarkTask(u) /\ Indexing(u)' = Indexing(u)
      /\ Follows(u)' = Follows(u) /\ HasRow(u)' = HasRow(u) /\ Mine(u)' = Mine(u) /\ Survives(u)' = Survives(u)
      /\ Indexed(q)' = Indexed(q) /\ Confirmed(u)' = Confirmed(u)
  BY <1>1 DEF On, Active, Dirty, Annotating, Marked, Working, MarkTask, Indexing, Follows, HasRow, Mine, Survives,
              Indexed, Confirmed
<1>3. FollowInv(u) => FollowInv(u)'
  BY <1>2 DEF FollowInv
<1>4. MarkInv(u) => MarkInv(u)'
  BY <1>1, <1>2 DEF MarkInv
<1>5. \A c : NotNewer(c, q)' = NotNewer(c, q)
  BY DEF NotNewer
<1>6. StepInv(u) => StepInv(u)'
  BY <1>1, <1>2, <1>5 DEF StepInv
<1>7. StepClaim(u) => StepClaim(u)'
  BY <1>1, <1>2 DEF StepClaim
<1> QED
  BY <1>2, <1>3, <1>4, <1>6, <1>7 DEF TaskInv

(* A path is as it was when the step is none of its tasks', and what the watcher has *)
(* to do for it is not less than before.                                             *)
LEMMA Frame ==
    ASSUME NEW q \in Paths, PathInv(q),
           file'[q] = file[q], acked'[q] = acked[q], db'[q] = db[q],
           committed'[q] = committed[q] \/ (committed'[q] = db[q] /\ \A u \in Tasks : On(u, q) => ~MarkTask(u)),
           \A u \in Tasks : On(u, q)' => On(u, q) /\ task'[u] = task[u],
           \A u \in Tasks : On(u, q) /\ ~On(u, q)' => task[u].at \in {"next", "extract"} /\ ~MarkTask(u),
           Queued(q)' => q \in BinaryPaths /\ db[q].status # "removed",
           NothingToSee(q)' => \/ NothingToSee(q) /\ (Settled(q) => Settled(q)')
                               \/ Settled(q)' /\ \A u \in Tasks : ~On(u, q)'
    PROVE  PathInv(q)'
<1>1. \A u \in Tasks : On(u, q)' =>
         /\ On(u, q) /\ Dirty(u)' = Dirty(u) /\ Annotating(u)' = Annotating(u) /\ Marked(u)' = Marked(u)
         /\ Working(u)' = Working(u)
         /\ TaskInv(u) => TaskInv(u)'
         /\ StepClaim(u) => StepClaim(u)'
  BY TaskKept
<1>2. \A u \in Tasks : On(u, q) /\ ~On(u, q)' => ~Dirty(u) /\ ~Annotating(u) /\ ~Marked(u) /\ ~Working(u)
  BY DEF Dirty, Annotating, Marked, Working
<1>3. (\A u \in Tasks : On(u, q)' => ~Dirty(u)') => db'[q] = committed'[q]
  BY <1>1, <1>2 DEF PathInv
<1>4. (\A u \in Tasks : On(u, q)' => ~Annotating(u)') => db'[q].ann \subseteq db'[q].marks
  BY <1>1, <1>2 DEF PathInv
<1>5. (\A u \in Tasks : On(u, q)' => ~Marked(u)') => acked'[q] \subseteq db'[q].marks
  BY <1>1, <1>2 DEF PathInv
<1>6. \A u \in Tasks : On(u, q)' => TaskInv(u)'
  BY <1>1 DEF PathInv
<1>7. NothingToSee(q)' => /\ (\A u \in Tasks : On(u, q)' => ~Working(u)') => Settled(q)'
                          /\ \A u \in Tasks : On(u, q)' => StepClaim(u)'
  BY <1>1, <1>2 DEF PathInv
<1>8. \A r : RowOfFile(r, q)' = RowOfFile(r, q)
  BY DEF RowOfFile, NotNewer
<1>9. /\ committed'[q].id = 0 => committed'[q] = NoRow
      /\ acked'[q] \subseteq committed'[q].marks
      /\ committed'[q].ann \subseteq committed'[q].marks
      /\ RowOfFile(committed[q], q)'
  <2>1. CASE committed'[q] = committed[q]
    BY <1>8, <2>1 DEF PathInv, StillInv, RowOfFile, NotNewer
  <2>2. CASE committed'[q] = db[q] /\ \A u \in Tasks : On(u, q) => ~MarkTask(u)
    BY <1>8, <2>2 DEF PathInv, StillInv, Annotating, Marked, RowOfFile, NotNewer
  <2> QED
    BY <2>1, <2>2
<1>10. StillInv(q)'
  <2>1. RowOfFile(db[q], q)'
    BY <1>8 DEF PathInv, StillInv, RowOfFile, NotNewer
  <2> QED
    BY <1>9, <2>1 DEF PathInv, StillInv, NoRow
<1> QED
  BY <1>3, <1>4, <1>5, <1>6, <1>7, <1>10 DEF PathInv

(* What is known of a path on which only t can be. *)
LEMMA OnlyOne ==
    ASSUME NEW t \in Tasks, NEW p \in Paths, PathInv(p), \A u \in Tasks : On(u, p) => u = t
    PROVE  JobInv(t, p)
    BY DEF PathInv, JobInv

(* ... and, after a step, what is to be shown of it. *)
LEMMA OnlyOneAfter ==
    ASSUME NEW t \in Tasks, NEW p \in Paths, JobInv(t, p)', \A u \in Tasks : On(u, p)' => u = t
    PROVE  PathInv(p)'
    BY DEF PathInv, JobInv

--------------------------------------------------------------------------------
(* What a step of a task on its path does to the index. *)
Writes(t) ==
    /\ \A q \in Paths \ {task[t].p} : db'[q] = db[q]
    /\ committed' = committed
    /\ txn' = IF txn = "none" THEN "implicit" ELSE txn
    /\ Intrudes(t, task[t].p) \subseteq tainted'
    /\ MarkTask(t)' = MarkTask(t)

Commits(t) == Commit(t) /\ ~MarkTask(t)'
RollsBack(t) == Rollback(t) /\ ~MarkTask(t)'
Leaves(t) == UNCHANGED <<db, committed, txn>> /\ MarkTask(t)' = MarkTask(t)
Fails(t) == FailOpen(t) /\ ~MarkTask(t) /\ ~MarkTask(t)'
Transacts(t) ==
    /\ ~MarkTask(t) /\ ~MarkTask(t)' /\ txn = "none" /\ txn' = txn /\ committed' = db'
    /\ \A q \in Paths \ {task[t].p} : db'[q] = db[q]

\* What the watcher has to do for other paths stays.
OthersWait(t) ==
    /\ Watched' = Watched
    /\ ~Watched => task'["watch"].todo = task["watch"].todo
    /\ \A q \in Paths : Queued(q)' => Queued(q)
    /\ \A q \in Paths \ {task[t].p} : WillExtract(q) => WillExtract(q)'

\* A step of t that stays on its path and leaves the others alone.
Acts(t) ==
    /\ Active(t) /\ task[t].p \in Paths
    /\ \A u \in Tasks \ {t} : task'[u] = task[u]
    /\ Active(t)' => task'[t].p = task[t].p /\ (Survives(t) => Survives(t)')
    /\ \A q \in Paths \ {task[t].p} : /\ file'[q] = file[q] /\ recent'[q] = recent[q] /\ acked'[q] = acked[q]
                                      /\ q \in events' <=> q \in events
    /\ tainted \subseteq tainted'
    /\ Writes(t) \/ Commits(t) \/ RollsBack(t) \/ Leaves(t) \/ Fails(t) \/ Transacts(t)
    /\ OthersWait(t)

(* Two tasks still do not share a path that is not tainted. *)
LEMMA ActsAlone ==
    ASSUME Inv, NEW t \in Tasks, Acts(t)
    PROVE  AloneInv'
<1>1. \A u \in Tasks, p \in Paths : On(u, p)' => On(u, p)
  BY DEF Acts, On, Active
<1>2. ASSUME ~Watched' PROVE \A u \in Slots : Active(u)' => Survives(u)' /\ task'[u].p \in tainted'
  BY <1>2 DEF Inv, AloneInv, Acts, OthersWait, Active, Survives, Tasks
<1> QED
  BY <1>1, <1>2 DEF Inv, AloneInv, Acts

(* A transaction stays that of a request for a highlight, or is over. *)
LEMMA ActsTxn ==
    ASSUME Inv, NEW t \in Tasks, Acts(t)
    PROVE  TxnInv'
<1> DEFINE p == task[t].p
<1>1. "none" \notin Tasks /\ "implicit" \notin Tasks
  BY LocalAssumption DEF Tasks
<1>2. /\ TxnInv /\ tainted \subseteq tainted' /\ p \in Paths /\ Active(t)
      /\ \A u \in Tasks \ {t} : task'[u] = task[u] /\ MarkTask(u)' = MarkTask(u)
      /\ Active(t)' => task'[t].p = p
      /\ \A u \in Tasks : MarkTask(u) => Active(u)
  BY DEF Inv, Acts, MarkTask, MarkOps, Active
<1>3. \A u \in Tasks : MarkTask(u)' => Active(u)'
  BY DEF MarkTask, MarkOps, Active
<1>4. \A u \in Slots : MarkTask(u)' /\ task'[u].p \notin tainted' /\ MarkTask(u) => txn = u
  BY <1>2, <1>3 DEF TxnInv, Tasks
<1>5. CASE Writes(t)
  <2>1. txn' \in Tasks => txn' = txn
    BY <1>1, <1>5 DEF Writes
  <2>2. txn \in Tasks \ {t} => p \in tainted' /\ task[txn].p \in tainted'
    BY <1>2, <1>5 DEF Writes, Intrudes, TxnInv
  <2>3. \A u \in Slots : MarkTask(u)' /\ task'[u].p \notin tainted' => txn' = u
    BY <1>1, <1>2, <1>4, <1>5 DEF Writes, Tasks
  <2>4. txn' \in Tasks => \A q \in Paths \ tainted' : q # task'[txn'].p => db'[q] = committed'[q]
    BY <1>2, <1>3, <1>5, <2>1, <2>2 DEF Writes, TxnInv
  <2> QED
    BY <1>1, <1>2, <1>5, <2>1, <2>3, <2>4 DEF Writes, TxnInv
<1>6. CASE Commits(t)
  <2>1. \A u \in Slots : ~(MarkTask(u)' /\ task'[u].p \notin tainted')
    BY <1>2, <1>4, <1>6 DEF Commits, Commit, Intrudes, Tasks
  <2> QED
    BY <1>1, <1>6, <2>1 DEF Commits, Commit, TxnInv
<1>7. CASE RollsBack(t)
  <2>1. \A u \in Slots : ~(MarkTask(u)' /\ task'[u].p \notin tainted')
    BY <1>2, <1>4, <1>7 DEF RollsBack, Rollback, Tasks
  <2> QED
    BY <1>1, <1>7, <2>1 DEF RollsBack, Rollback, TxnInv
<1>8. CASE Leaves(t)
  BY <1>2, <1>3, <1>4, <1>8 DEF Leaves, TxnInv, Tasks
<1>9. CASE Fails(t)
  BY <1>1, <1>2, <1>3, <1>4, <1>9 DEF Fails, FailOpen, TxnInv, Tasks
<1>10. CASE Transacts(t)
  BY <1>1, <1>2, <1>4, <1>10 DEF Transacts, TxnInv, Tasks
<1> QED
  BY <1>5, <1>6, <1>7, <1>8, <1>9, <1>10 DEF Acts

(* The other paths that are not tainted are as they were. *)
LEMMA ActsOthers ==
    ASSUME Inv, NEW t \in Tasks, Acts(t), NEW q \in Paths \ tainted', q # task[t].p
    PROVE  PathInv(q)'
<1> DEFINE p == task[t].p
<1>1. /\ PathInv(q) /\ TxnInv /\ q \notin tainted /\ p \in Paths /\ Active(t)
      /\ file'[q] = file[q] /\ recent'[q] = recent[q] /\ acked'[q] = acked[q] /\ (q \in events' <=> q \in events)
  BY DEF Inv, Acts
<1>2. "none" \notin Tasks /\ "implicit" \notin Tasks
  BY LocalAssumption DEF Tasks
<1>3. \A u \in Tasks : On(u, q)' <=> On(u, q) /\ task'[u] = task[u]
  BY <1>1 DEF Acts, On, Active
<1>4. \A u \in Tasks : On(u, q) => On(u, q)'
  BY <1>1 DEF Acts, On, Active
<1>5. \A u \in Tasks : On(u, q) /\ MarkTask(u) => u \in Slots /\ u # t /\ txn = u
  BY <1>1, TaskFields DEF On, TxnInv, Inv
<1>6. db'[q] = db[q] /\ (committed'[q] = committed[q] \/ (committed'[q] = db[q] /\ \A u \in Tasks : On(u, q) => ~MarkTask(u)))
  <2>1. CASE Writes(t) \/ Leaves(t) \/ Fails(t)
    BY <1>1, <2>1 DEF Writes, Leaves, Fails, FailOpen
  <2>2. CASE Commits(t)
    <3>1. \A u \in Tasks : On(u, q) => ~MarkTask(u)
      BY <1>1, <1>5, <2>2 DEF Commits, Commit, Intrudes, On, Tasks
    <3> QED
      BY <1>1, <2>2, <3>1 DEF Commits, Commit
  <2>3. CASE RollsBack(t)
    <3>1. CASE txn = t
      BY <1>1, <2>3, <3>1 DEF RollsBack, Rollback, TxnInv
    <3>2. CASE txn # t
      <4>1. \A u \in Tasks : ~On(u, q)
        BY <1>1, <2>3, <3>2 DEF RollsBack, Rollback, On
      <4> QED
        BY <1>1, <2>3, <4>1 DEF RollsBack, Rollback, PathInv
    <3> QED
      BY <3>1, <3>2
  <2>4. CASE Transacts(t)
    BY <1>1, <1>2, <1>5, <2>4 DEF Transacts, Tasks
  <2> QED
    BY <2>1, <2>2, <2>3, <2>4 DEF Acts
<1>7. Queued(q)' => q \in BinaryPaths /\ db[q].status # "removed"
  BY <1>1 DEF Acts, OthersWait, PathInv, StillInv
<1>8. NothingToSee(q)' => NothingToSee(q)
  BY <1>1 DEF Acts, OthersWait, NothingToSee
<1>9. Settled(q) => Settled(q)'
  BY <1>1, <1>6 DEF Acts, OthersWait, Settled, Indexed, WillExtract, Watched
<1> QED
  BY <1>1, <1>3, <1>4, <1>6, <1>7, <1>8, <1>9, Frame

(* What is left to show of such a step: the types, the numbers, and its own path. *)
LEMMA ActsStep ==
    ASSUME Inv, NEW t \in Tasks, Acts(t), TypeOK', CountInv',
           \A p \in Paths \ tainted' : p = task[t].p => JobInv(t, p)'
    PROVE  Inv'
<1>1. AloneInv' /\ TxnInv'
  BY ActsAlone, ActsTxn
<1>2. ASSUME NEW q \in Paths \ tainted' PROVE PathInv(q)'
  <2>1. CASE q # task[t].p
    BY <2>1, ActsOthers
  <2>2. CASE q = task[t].p
    <3>1. On(t, q) /\ q \notin tainted /\ \A u \in Tasks : On(u, q)' => On(u, q)
      BY <2>2 DEF Acts, On, Active
    <3>2. \A u \in Tasks : On(u, q)' => u = t
      BY <3>1 DEF Inv, AloneInv
    <3> QED
      BY <2>2, <3>2, OnlyOneAfter
  <2> QED
    BY <2>1, <2>2
<1>3. QueueInv'
  BY DEF Inv, QueueInv, Acts, OthersWait
<1> QED
  BY <1>1, <1>2, <1>3 DEF Inv

(* What is known of the path of a task, before it takes a step, unless it is tainted. *)
LEMMA OwnPath ==
    ASSUME Inv, NEW t \in Tasks, Active(t), NEW p \in Paths \ tainted, task[t].p = p
    PROVE  /\ JobInv(t, p) /\ On(t, p)
           /\ \A u \in Tasks : On(u, p) => u = t
           /\ MarkTask(t) => txn = t
<1>1. On(t, p) /\ \A u \in Tasks : On(u, p) => u = t
  BY DEF Inv, AloneInv, On
<1>2. MarkTask(t) => txn = t
  BY TaskFields DEF Inv, TxnInv
<1> QED
  BY <1>1, <1>2, OnlyOne DEF Inv

--------------------------------------------------------------------------------
(* The numbers stay in their bounds when those of the path of the step do. *)
LEMMA ActsCount ==
    ASSUME Inv, NEW t \in Tasks, Acts(t), NEW p \in Paths, task[t].p = p, TypeOK',
           contents <= contents', contents' <= MaxContents,
           file'[p] <= contents', recent'[p] <= contents' \/ recent'[p] = NotRecent,
           db'[p].hash <= contents', db'[p].text <= contents',
           Active(t)' => task'[t].c <= contents',
           ~Watched => events' = events /\ recent' = recent
    PROVE  CountInv'
<1>1. CountInv /\ TypeOK /\ MaxContents \in Nat
  BY LocalAssumption DEF Inv
<1>2. \A r \in Rows : r.hash \in Nat /\ r.text \in Nat
  BY DEF Rows
<1>3. ASSUME NEW q \in Paths
      PROVE  /\ file'[q] <= contents'
             /\ recent'[q] <= contents' \/ recent'[q] = NotRecent
             /\ db'[q].hash <= contents' /\ db'[q].text <= contents'
             /\ committed'[q].hash <= contents' /\ committed'[q].text <= contents'
  <2>1. /\ file[q] \in Nat /\ recent[q] \in Nat /\ contents \in Nat /\ contents' \in Nat
        /\ db[q] \in Rows /\ committed[q] \in Rows
    BY <1>1 DEF TypeOK, FileType, StoreType
  <2>2. /\ db[q].hash <= contents' /\ db[q].text <= contents'
        /\ committed[q].hash <= contents' /\ committed[q].text <= contents'
        /\ file[q] <= contents' /\ (recent[q] <= contents' \/ recent[q] = NotRecent)
    BY <1>1, <1>2, <2>1 DEF CountInv
  <2>3. /\ db'[q] = db[q] \/ db'[q] = committed[q] \/ q = p
        /\ committed'[q] = committed[q] \/ committed'[q] = db[q] \/ committed'[q] = db'[q]
    BY DEF Acts, Writes, Commits, Commit, RollsBack, Rollback, Leaves, Fails, FailOpen, Transacts
  <2> QED
    BY <2>2, <2>3 DEF Acts
<1>4. ASSUME NEW u \in Tasks, Active(u)' PROVE task'[u].c <= contents'
  <2>1. CASE u # t
    BY <1>1, <1>4, <2>1, TaskFields DEF Acts, CountInv, Active, TypeOK, FileType
  <2> QED
    BY <1>4, <2>1
<1>5. ~Watched' => events' = {} /\ recent' = [q \in Paths |-> NotRecent]
  BY <1>1 DEF CountInv, Acts, OthersWait
<1> QED
  BY <1>3, <1>4, <1>5 DEF CountInv

(* Execute writes one row. *)
LEMMA Executing ==
    ASSUME TypeOK, NEW t \in Tasks, NEW p \in Paths, NEW row \in Rows, Execute(t, p, row)
    PROVE  /\ StoreType' /\ db'[p] = row /\ \A q \in Paths \ {p} : db'[q] = db[q]
           /\ committed' = committed /\ tainted \subseteq tainted' /\ Intrudes(t, p) \subseteq tainted'
           /\ txn' = IF txn = "none" THEN "implicit" ELSE txn
    BY DEF TypeOK, StoreType, Execute

\* Where a task may go without leaving the extraction, or taking it up.
SamePhase(t, at) ==
    task[t].op = "index" => (task[t].at \in XStages \cup {"extract"} <=> at \in XStages \cup {"extract"})

(* To go on at the same document changes nothing for the others. *)
LEMMA GoingWait ==
    ASSUME TypeOK, NEW t \in Tasks, Active(t), NEW at \in Stages, Goto(t, at), SamePhase(t, at)
    PROVE  OthersWait(t)
<1>1. CASE t = "watch"
  BY <1>1, Going DEF OthersWait, Watched, Queued, WillExtract, SamePhase
<1>2. CASE t # "watch"
  <2>1. task'["watch"] = task["watch"]
    BY <1>2, Going DEF Tasks
  <2> QED
    BY <2>1 DEF OthersWait, Watched, Queued, WillExtract
<1> QED
  BY <1>1, <1>2

(* Nor does the end of a coroutine. *)
LEMMA EndingWait ==
    ASSUME TypeOK, NEW t \in Slots, \A u \in Tasks \ {t} : task'[u] = task[u]
    PROVE  OthersWait(t)
<1>1. task'["watch"] = task["watch"]
  BY LocalAssumption DEF Tasks
<1> QED
  BY <1>1 DEF OthersWait, Watched, Queued, WillExtract

(* The steps of the tasks that do not move. *)
LEMMA OtherStages ==
    ASSUME TypeOK, NEW t \in Tasks, \A u \in Tasks \ {t} : task'[u] = task[u], StageOK(t)'
    PROVE  \A u \in Tasks : StageOK(u)'
    BY DEF TypeOK, StageOK

\* A step of t at its document that leaves the files alone.
Steps(t, p) ==
    /\ Active(t) /\ task[t].p = p
    /\ TaskType' /\ StageOK(t)' /\ \A u \in Tasks \ {t} : task'[u] = task[u]
    /\ Active(t)' => task'[t].p = p /\ (Survives(t) => Survives(t)') /\ task'[t].c <= contents
    /\ OthersWait(t)
    /\ UNCHANGED <<file, contents, recent, events>> /\ ids' \in Nat
    /\ acked' \in [Paths -> SUBSET Marks] /\ \A q \in Paths \ {p} : acked'[q] = acked[q]

(* What is known of a task and its document. *)
LEMMA Before ==
    ASSUME Inv, NEW t \in Tasks, Active(t), NEW p \in Paths, task[t].p = p
    PROVE  /\ TypeOK /\ StageOK(t)
           /\ task[t].id \in Nat /\ task[t].c \in Nat /\ task[t].c <= contents
           /\ db[p] \in Rows /\ committed[p] \in Rows /\ file[p] \in Nat
           /\ db[p].hash <= contents /\ db[p].text <= contents
           /\ ~(p \in TextPaths /\ p \in BinaryPaths)
           /\ p \notin tainted => /\ JobInv(t, p) /\ On(t, p) /\ StillInv(p)
                                  /\ FollowInv(t) /\ MarkInv(t) /\ StepInv(t)
                                  /\ NothingToSee(p) => StepClaim(t)
<1>1. TypeOK /\ StageOK(t)
  BY DEF Inv, TypeOK
<1>2. p \notin tainted => JobInv(t, p) /\ On(t, p)
  BY OwnPath
<1> QED
  BY <1>1, <1>2, TaskFields, LocalAssumption DEF Inv, CountInv, TypeOK, StoreType, FileType, JobInv, TaskInv

(* What is to be seen of a file does not change when the files are left alone. *)
LEMMA StepsSee ==
    ASSUME NEW t \in Tasks, NEW p, Steps(t, p)
    PROVE  NothingToSee(p)' = NothingToSee(p)
    BY DEF Steps, OthersWait, NothingToSee

(* A step with its statement, commit or rollback. *)
LEMMA StepsAct ==
    ASSUME Inv, NEW t \in Tasks, NEW p \in Paths, Steps(t, p), StoreType', tainted \subseteq tainted',
           Writes(t) \/ Commits(t) \/ RollsBack(t) \/ Leaves(t) \/ Fails(t) \/ Transacts(t),
           db'[p].hash <= contents, db'[p].text <= contents, p \notin tainted' => JobInv(t, p)'
    PROVE  Inv'
<1>1. TypeOK'
  BY OtherStages DEF Inv, TypeOK, Steps, FileType
<1>2. Acts(t)
  BY DEF Acts, Steps
<1>3. CountInv'
  <2>1. contents' = contents /\ contents \in Nat /\ contents <= MaxContents /\ file'[p] <= contents
        /\ (recent'[p] <= contents \/ recent'[p] = NotRecent)
    BY DEF Inv, CountInv, Steps, TypeOK, FileType
  <2> QED
    BY <1>1, <1>2, <2>1, ActsCount DEF Steps
<1> QED
  BY <1>1, <1>2, <1>3, ActsStep DEF Steps

(* A statement of t, and what has to be known of the row that it writes. *)
LEMMA Statement ==
    ASSUME Inv, NEW t \in Tasks, NEW p \in Paths, Steps(t, p), NEW row \in Rows, Execute(t, p, row),
           Active(t)', MarkTask(t)' = MarkTask(t), row.hash <= contents, row.text <= contents,
           p \notin tainted' =>
              /\ row.id = 0 => row = NoRow
              /\ RowOfFile(row, p)
              /\ Queued(p)' => p \in BinaryPaths /\ row.status # "removed"
              /\ acked'[p] \subseteq acked[p]
              /\ row.ann \subseteq row.marks \/ Annotating(t)'
              /\ acked'[p] \subseteq row.marks \/ Marked(t)'
              /\ Dirty(t)' /\ TaskInv(t)'
              /\ NothingToSee(p) => StepClaim(t)' /\ (Working(t)' \/ Settled(p)')
    PROVE  Inv'
<1>1. /\ StoreType' /\ db'[p] = row /\ committed' = committed /\ tainted \subseteq tainted' /\ Writes(t)
  BY Executing DEF Inv, Steps, Writes
<1>2. ASSUME p \notin tainted' PROVE JobInv(t, p)'
  <2>1. StillInv(p)
    BY <1>1, <1>2, Before DEF Steps
  <2>2. On(t, p)'
    BY DEF Steps, On
  <2>3. RowOfFile(db[p], p)' /\ RowOfFile(committed[p], p)'
    BY <1>1, <1>2, <2>1 DEF StillInv, RowOfFile, NotNewer, Steps
  <2>4. StillInv(p)'
    BY <1>1, <1>2, <2>1, <2>3 DEF StillInv, NoRow
  <2>5. NothingToSee(p)' = NothingToSee(p)
    BY StepsSee
  <2> QED
    BY <1>1, <1>2, <2>2, <2>4, <2>5 DEF JobInv
<1> QED
  BY <1>1, <1>2, StepsAct

(* A commit of t, by which it may also end. *)
LEMMA Committing ==
    ASSUME Inv, NEW t \in Tasks, NEW p \in Paths, Steps(t, p), Commit(t), ~MarkTask(t)',
           p \notin tainted' =>
              /\ Queued(p)' => Queued(p)
              /\ acked'[p] \subseteq db[p].marks /\ db[p].ann \subseteq db[p].marks
              /\ Active(t)' => TaskInv(t)'
              /\ NothingToSee(p) => /\ Active(t)' => StepClaim(t)'
                                    /\ Settled(p)' \/ (Active(t)' /\ Working(t)')
    PROVE  Inv'
<1>1. /\ StoreType' /\ db' = db /\ committed' = db /\ tainted \subseteq tainted' /\ Commits(t) /\ task[t].p = p
  BY DEF Inv, TypeOK, StoreType, Commits, Commit, Steps
<1>2. ASSUME p \notin tainted' PROVE JobInv(t, p)'
  <2>1. StillInv(p)
    BY <1>1, <1>2, Before DEF Steps
  <2>2. On(t, p)' <=> Active(t)'
    BY DEF Steps, On
  <2>3. RowOfFile(db[p], p)' /\ RowOfFile(committed[p], p)'
    BY <1>1, <2>1 DEF StillInv, RowOfFile, NotNewer, Steps
  <2>4. StillInv(p)'
    BY <1>1, <1>2, <2>1, <2>3 DEF StillInv, NoRow
  <2>5. NothingToSee(p)' = NothingToSee(p)
    BY StepsSee
  <2> QED
    BY <1>1, <1>2, <2>2, <2>4, <2>5 DEF JobInv
<1>3. db'[p].hash <= contents /\ db'[p].text <= contents
  BY <1>1, Before DEF Steps
<1> QED
  BY <1>1, <1>2, <1>3, StepsAct

(* A step of t that neither writes nor commits. *)
LEMMA Quiet ==
    ASSUME Inv, NEW t \in Tasks, NEW p \in Paths, Steps(t, p), NoStatement, MarkTask(t)' = MarkTask(t),
           acked' = acked,
           p \notin tainted =>
              /\ Queued(p)' => Queued(p)
              /\ db[p] = committed[p] \/ (Active(t)' /\ Dirty(t)')
              /\ Annotating(t)' = Annotating(t) /\ Marked(t)' = Marked(t)
              /\ Active(t)' => TaskInv(t)'
              /\ NothingToSee(p) => /\ Active(t)' => StepClaim(t)'
                                    /\ Settled(p)' \/ (Active(t)' /\ Working(t)')
    PROVE  Inv'
<1>1. /\ StoreType' /\ db' = db /\ committed' = committed /\ tainted' = tainted /\ Leaves(t) /\ task[t].p = p
  BY DEF Inv, TypeOK, StoreType, Leaves, NoStatement, Steps
<1>2. ASSUME p \notin tainted' PROVE JobInv(t, p)'
  <2>1. StillInv(p) /\ JobInv(t, p) /\ On(t, p)
    BY <1>1, <1>2, Before DEF Steps
  <2>2. On(t, p)' <=> Active(t)'
    BY DEF Steps, On
  <2>3. RowOfFile(db[p], p)' /\ RowOfFile(committed[p], p)'
    BY <1>1, <2>1 DEF StillInv, RowOfFile, NotNewer, Steps
  <2>4. StillInv(p)'
    BY <1>1, <1>2, <2>1, <2>3 DEF StillInv, NoRow
  <2>5. NothingToSee(p)' = NothingToSee(p)
    BY StepsSee
  <2>6. Marked(t)' => Active(t)'
    BY DEF Marked, MarkTask, MarkOps, Active
  <2>7. Annotating(t)' => Active(t)'
    BY DEF Annotating, MarkTask, MarkOps, Active
  <2> QED
    BY <1>1, <1>2, <2>1, <2>2, <2>4, <2>5, <2>6, <2>7 DEF JobInv
<1>3. db'[p].hash <= contents /\ db'[p].text <= contents
  BY <1>1, Before DEF Steps
<1> QED
  BY <1>1, <1>2, <1>3, StepsAct

(* A step of t at a document that is tainted. *)
LEMMA Spoiled ==
    ASSUME Inv, NEW t \in Tasks, NEW p \in Paths, Steps(t, p), FailOpen(t), ~MarkTask(t), ~MarkTask(t)', p \in tainted
    PROVE  Inv'
<1>1. StoreType' /\ db' = db /\ tainted' = tainted /\ Fails(t)
  BY DEF Inv, TypeOK, StoreType, Fails, FailOpen
<1>2. db'[p].hash <= contents /\ db'[p].text <= contents
  BY <1>1, Before DEF Steps
<1> QED
  BY <1>1, <1>2, StepsAct

(* To go on at the same document is such a step. *)
LEMMA GoesOn ==
    ASSUME Inv, NEW t \in Tasks, Active(t), NEW p \in Paths, task[t].p = p, NEW at \in Stages, Goto(t, at),
           SamePhase(t, at), StageOK(t)',
           UNCHANGED <<file, contents, ids, recent, events>>,
           acked' \in [Paths -> SUBSET Marks], \A q \in Paths \ {p} : acked'[q] = acked[q]
    PROVE  /\ Steps(t, p) /\ On(t, p)' /\ Active(t)' /\ MarkTask(t)' = MarkTask(t)
           /\ task'[t].op = task[t].op /\ task'[t].p = p /\ task'[t].id = task[t].id
           /\ task'[t].c = task[t].c /\ task'[t].at = at
           /\ t \in Slots => task'["watch"] = task["watch"]
           /\ t = "watch" => task'["watch"].todo = task["watch"].todo
           /\ MarkTask(t) => task'[t].m = task[t].m /\ task'[t].marks = task[t].marks
           /\ Queued(p)' = Queued(p) /\ file'[p] = file[p]
<1>1. TypeOK
  BY DEF Inv
<1>2. t \in Slots => task'["watch"] = task["watch"]
  BY <1>1, Going, LocalAssumption DEF Tasks
<1>3. /\ task'[t].op = task[t].op /\ task'[t].p = p /\ task'[t].c = task[t].c /\ task'[t].at = at
      /\ Active(t)' /\ On(t, p)' /\ MarkTask(t)' = MarkTask(t) /\ Survives(t)' = Survives(t)
  <2>1. task'[t].op = task[t].op /\ task'[t].p = p /\ task'[t].c = task[t].c /\ task'[t].at = at
    BY <1>1, Going
  <2> QED
    BY <2>1 DEF Active, On, MarkTask, Survives
<1>4. task[t].c <= contents /\ ids' \in Nat
  BY <1>1 DEF Inv, CountInv, TypeOK, FileType
<1>5. Queued(p)' = Queued(p)
  <2>1. CASE t \in Slots
    BY <1>2, <2>1 DEF Queued
  <2>2. CASE t = "watch"
    BY <1>1, <1>3, <2>2, Going DEF Queued, SamePhase
  <2> QED
    BY <2>1, <2>2 DEF Tasks
<1> QED
  BY <1>1, <1>2, <1>3, <1>4, <1>5, Going, GoingWait DEF Steps

(* To end is one, too. *)
LEMMA Ends ==
    ASSUME Inv, NEW t \in Slots, Active(t), NEW p \in Paths, task[t].p = p, Done(t),
           UNCHANGED <<file, contents, ids, recent, events>>,
           acked' \in [Paths -> SUBSET Marks], \A q \in Paths \ {p} : acked'[q] = acked[q]
    PROVE  /\ Steps(t, p) /\ ~Active(t)' /\ ~MarkTask(t)' /\ task'["watch"] = task["watch"]
           /\ Queued(p)' = Queued(p) /\ file'[p] = file[p] /\ t \in Tasks
<1>1. TypeOK /\ t \in Tasks
  BY DEF Inv, Tasks
<1>2. task'[t].op = "idle" /\ ~Active(t)' /\ task'["watch"] = task["watch"]
  BY <1>1, Ending, LocalAssumption DEF Tasks, Idle
<1>3. StageOK(t)' /\ ~MarkTask(t)'
  BY <1>2 DEF StageOK, WatchOps, MarkOps, ToolOps, MarkTask
<1>4. ids' \in Nat
  BY <1>1 DEF TypeOK, FileType
<1> QED
  BY <1>1, <1>2, <1>3, <1>4, Ending, EndingWait DEF Steps, Queued

--------------------------------------------------------------------------------
(* The requests that write documents. *)

(* The row of a content that was written. *)
LEMMA ContentRowStep ==
    ASSUME Inv, NEW t \in Slots, ContentRow(t)
    PROVE  Inv'
<1>1. /\ t \in Tasks /\ Active(t) /\ task[t].op = "content" /\ task[t].at = "row" /\ TypeOK
  BY DEF Inv, ContentRow, Is, Active, Tasks
<1>2. PICK p \in Paths : p = task[t].p
  BY <1>1, TaskFields
<1>3. PICK at \in Stages : at = "commit row"
  BY DEF Stages, IndexStages, XStages
<1>4. PICK row : row = IF Mine(t) THEN [db[p] EXCEPT !.text = task[t].c] ELSE db[p]
  OBVIOUS
<1>5. /\ task[t].id \in Nat /\ task[t].c \in Nat /\ task[t].c <= contents /\ db[p] \in Rows /\ file[p] \in Nat
      /\ db[p].hash <= contents /\ db[p].text <= contents /\ ~(p \in TextPaths /\ p \in BinaryPaths) /\ p \in TextPaths /\ p \notin BinaryPaths
  BY <1>1, <1>2, Before DEF StageOK
<1>6. row \in Rows /\ row.hash <= contents /\ row.text <= contents /\ Execute(t, p, row)
  BY <1>1, <1>2, <1>4, <1>5 DEF Rows, ContentRow, Row
<1>7. Goto(t, at) /\ UNCHANGED <<file, contents, ids, recent, events>> /\ acked' = acked
  BY <1>1, <1>2, <1>3 DEF ContentRow, fileVars, noteVars
<1>8. StageOK(t)' /\ SamePhase(t, at)
  BY <1>1, <1>2, <1>3, <1>5, <1>7, Going DEF StageOK, MarkOps, ToolOps, WatchOps, SamePhase
<1>9. /\ Steps(t, p) /\ On(t, p)' /\ Active(t)' /\ MarkTask(t)' = MarkTask(t)
      /\ task'[t].op = task[t].op /\ task'[t].p = p /\ task'[t].id = task[t].id
      /\ task'[t].c = task[t].c /\ task'[t].at = at /\ Queued(p)' = Queued(p) /\ file'[p] = file[p]
  BY <1>1, <1>2, <1>7, <1>8, GoesOn DEF TypeOK, FileType
<1>10. ASSUME p \notin tainted, p \notin tainted'
       PROVE  /\ row.id = 0 => row = NoRow
              /\ RowOfFile(row, p)
              /\ Queued(p)' => p \in BinaryPaths /\ row.status # "removed"
              /\ acked'[p] \subseteq acked[p]
              /\ row.ann \subseteq row.marks \/ Annotating(t)'
              /\ acked'[p] \subseteq row.marks \/ Marked(t)'
              /\ Dirty(t)' /\ TaskInv(t)'
              /\ NothingToSee(p) => StepClaim(t)' /\ (Working(t)' \/ Settled(p)')
  <2>1. /\ StillInv(p) /\ FollowInv(t) /\ MarkInv(t) /\ StepInv(t) /\ JobInv(t, p) /\ (NothingToSee(p) => StepClaim(t))
    BY <1>1, <1>2, <1>10, Before
  <2>2. db[p].id = task[t].id /\ task[t].id # 0
    BY <1>1, <1>2, <2>1 DEF FollowInv, Follows, HasRow, Mine
  <2>3. /\ row.id = db[p].id /\ row.status = db[p].status /\ row.text = task[t].c /\ row.hash = db[p].hash
        /\ row.chunks = db[p].chunks /\ row.marks = db[p].marks /\ row.ann = db[p].ann
        /\ row.hash \in Nat /\ db'[p] = row
    <3>1. Mine(t)
      BY <1>2, <2>2 DEF Mine
    <3>2. db'[p] = row
      BY <1>1, <1>6, Executing
    <3> QED
      BY <1>4, <1>5, <3>1, <3>2 DEF Rows
  <2>4. /\ ~Indexing(t)' /\ ~Survives(t)' /\ Dirty(t)' /\ Working(t)' /\ ~MarkTask(t)' /\ ~MarkTask(t) /\ ~Annotating(t) /\ ~Marked(t)
        /\ task'[t].op = "content" /\ task'[t].at = "commit row"
    BY <1>1, <1>3, <1>9 DEF MarkTask, MarkOps, Indexing, WatchOps, Survives, Dirty, Working, Annotating, Marked
  <2>5. NotNewer(task[t].c, p) /\ task[t].c # 0 /\ row.hash < task[t].c
    BY <1>1, <1>2, <1>5, <2>1, <2>3 DEF StepInv, StillInv, NotNewer
  <2>6. RowOfFile(row, p)
    BY <1>5, <2>1, <2>3, <2>5 DEF StillInv, RowOfFile, NotNewer
  <2>7. TaskInv(t)'
    <3>1. FollowInv(t)'
      BY <1>9, <2>2, <2>3, <2>4 DEF FollowInv, Mine, Follows, HasRow
    <3>2. MarkInv(t)'
      BY <1>9, <2>3, <2>4 DEF MarkInv, Marked
    <3>3. StepInv(t)'
      BY <1>9, <2>3, <2>4, <2>5 DEF StepInv, NotNewer
    <3> QED
      BY <3>1, <3>2, <3>3 DEF TaskInv
  <2>8. NothingToSee(p) => StepClaim(t)'
    BY <1>1, <1>2, <1>5, <1>9, <2>1, <2>3, <2>4, <2>5 DEF StepClaim, Indexed
  <2> QED
    BY <1>5, <1>7, <1>9, <2>1, <2>2, <2>3, <2>4, <2>5, <2>6, <2>7, <2>8 DEF JobInv, StillInv
<1>11. tainted \subseteq tainted'
  BY <1>6 DEF Execute
<1> QED
  BY <1>1, <1>6, <1>9, <1>10, <1>11, Statement

(* The chunks of a content. *)
LEMMA ContentChunksStep ==
    ASSUME Inv, NEW t \in Slots, StoreChunks(t), Is(t, "content", "chunks"), Mine(t)
    PROVE  Inv'
<1>1. /\ t \in Tasks /\ Active(t) /\ task[t].op = "content" /\ task[t].at = "chunks" /\ TypeOK
  BY DEF Inv, StoreChunks, Is, Active, Tasks
<1>2. PICK p \in Paths : p = task[t].p
  BY <1>1, TaskFields
<1>3. PICK at \in Stages : at = "commit"
  BY DEF Stages, IndexStages, XStages
<1>4. PICK row : row = [db[p] EXCEPT !.chunks = task[t].c, !.ann = {}]
  OBVIOUS
<1>5. /\ task[t].id \in Nat /\ task[t].c \in Nat /\ task[t].c <= contents /\ db[p] \in Rows /\ file[p] \in Nat
      /\ db[p].hash <= contents /\ db[p].text <= contents /\ ~(p \in TextPaths /\ p \in BinaryPaths) /\ p \in TextPaths /\ p \notin BinaryPaths
  BY <1>1, <1>2, Before DEF StageOK
<1>6. row \in Rows /\ row.hash <= contents /\ row.text <= contents /\ Execute(t, p, row)
  BY <1>1, <1>2, <1>4, <1>5 DEF Rows, StoreChunks, Row
<1>7. Goto(t, at) /\ UNCHANGED <<file, contents, ids, recent, events>> /\ acked' = acked
  BY <1>1, <1>2, <1>3 DEF StoreChunks, fileVars, noteVars
<1>8. StageOK(t)' /\ SamePhase(t, at)
  BY <1>1, <1>2, <1>3, <1>5, <1>7, Going DEF StageOK, MarkOps, ToolOps, WatchOps, SamePhase
<1>9. /\ Steps(t, p) /\ On(t, p)' /\ Active(t)' /\ MarkTask(t)' = MarkTask(t)
      /\ task'[t].op = task[t].op /\ task'[t].p = p /\ task'[t].id = task[t].id
      /\ task'[t].c = task[t].c /\ task'[t].at = at /\ Queued(p)' = Queued(p) /\ file'[p] = file[p]
  BY <1>1, <1>2, <1>7, <1>8, GoesOn DEF TypeOK, FileType
<1>10. ASSUME p \notin tainted, p \notin tainted'
       PROVE  /\ row.id = 0 => row = NoRow
              /\ RowOfFile(row, p)
              /\ Queued(p)' => p \in BinaryPaths /\ row.status # "removed"
              /\ acked'[p] \subseteq acked[p]
              /\ row.ann \subseteq row.marks \/ Annotating(t)'
              /\ acked'[p] \subseteq row.marks \/ Marked(t)'
              /\ Dirty(t)' /\ TaskInv(t)'
              /\ NothingToSee(p) => StepClaim(t)' /\ (Working(t)' \/ Settled(p)')
  <2>1. /\ StillInv(p) /\ FollowInv(t) /\ MarkInv(t) /\ StepInv(t) /\ JobInv(t, p) /\ (NothingToSee(p) => StepClaim(t))
    BY <1>1, <1>2, <1>10, Before
  <2>2. db[p].id = task[t].id /\ task[t].id # 0
    BY <1>1, <1>2, <2>1 DEF FollowInv, Follows, HasRow, Mine
  <2>3. /\ row.id = db[p].id /\ row.status = db[p].status /\ row.text = db[p].text /\ row.hash = db[p].hash
        /\ row.chunks = task[t].c /\ row.marks = db[p].marks /\ row.ann = {}
        /\ row.hash \in Nat /\ db'[p] = row
    <3>1. Mine(t)
      BY <1>2, <2>2 DEF Mine
    <3>2. db'[p] = row
      BY <1>1, <1>6, Executing
    <3> QED
      BY <1>4, <1>5, <3>1, <3>2 DEF Rows
  <2>4. /\ ~Indexing(t)' /\ ~Survives(t)' /\ Dirty(t)' /\ Working(t)' /\ ~MarkTask(t)' /\ ~MarkTask(t) /\ ~Annotating(t) /\ ~Marked(t)
        /\ task'[t].op = "content" /\ task'[t].at = "commit"
    BY <1>1, <1>3, <1>9 DEF MarkTask, MarkOps, Indexing, WatchOps, Survives, Dirty, Working, Annotating, Marked
  <2>5. NotNewer(task[t].c, p) /\ task[t].c # 0 /\ row.hash < task[t].c
    BY <1>1, <1>2, <1>5, <2>1, <2>3 DEF StepInv, StillInv, NotNewer
  <2>6. RowOfFile(row, p)
    BY <1>5, <2>1, <2>3, <2>5 DEF StillInv, RowOfFile, NotNewer
  <2>7. TaskInv(t)'
    <3>1. FollowInv(t)'
      BY <1>9, <2>2, <2>3, <2>4 DEF FollowInv, Mine, Follows, HasRow
    <3>2. MarkInv(t)'
      BY <1>9, <2>3, <2>4 DEF MarkInv, Marked
    <3>3. StepInv(t)'
      BY <1>9, <2>3, <2>4, <2>5 DEF StepInv, NotNewer
    <3> QED
      BY <3>1, <3>2, <3>3 DEF TaskInv
  <2>8. NothingToSee(p) => StepClaim(t)'
    BY <1>1, <1>2, <1>5, <1>9, <2>1, <2>3, <2>4, <2>5 DEF StepClaim, Indexed
  <2> QED
    BY <1>5, <1>7, <1>9, <2>1, <2>2, <2>3, <2>4, <2>5, <2>6, <2>7, <2>8 DEF JobInv, StillInv
<1>11. tainted \subseteq tainted'
  BY <1>6 DEF Execute
<1> QED
  BY <1>1, <1>6, <1>9, <1>10, <1>11, Statement

(* The chunks of an upload. *)
LEMMA UploadChunksStep ==
    ASSUME Inv, NEW t \in Slots, StoreChunks(t), Is(t, "upload", "chunks"), Mine(t)
    PROVE  Inv'
<1>1. /\ t \in Tasks /\ Active(t) /\ task[t].op = "upload" /\ task[t].at = "chunks" /\ TypeOK
  BY DEF Inv, StoreChunks, Is, Active, Tasks
<1>2. PICK p \in Paths : p = task[t].p
  BY <1>1, TaskFields
<1>3. PICK at \in Stages : at = "commit"
  BY DEF Stages, IndexStages, XStages
<1>4. PICK row : row = [db[p] EXCEPT !.chunks = task[t].c, !.ann = {}]
  OBVIOUS
<1>5. /\ task[t].id \in Nat /\ task[t].c \in Nat /\ task[t].c <= contents /\ db[p] \in Rows /\ file[p] \in Nat
      /\ db[p].hash <= contents /\ db[p].text <= contents /\ ~(p \in TextPaths /\ p \in BinaryPaths) /\ p \in TextPaths /\ p \notin BinaryPaths
  BY <1>1, <1>2, Before DEF StageOK
<1>6. row \in Rows /\ row.hash <= contents /\ row.text <= contents /\ Execute(t, p, row)
  BY <1>1, <1>2, <1>4, <1>5 DEF Rows, StoreChunks, Row
<1>7. Goto(t, at) /\ UNCHANGED <<file, contents, ids, recent, events>> /\ acked' = acked
  BY <1>1, <1>2, <1>3 DEF StoreChunks, fileVars, noteVars
<1>8. StageOK(t)' /\ SamePhase(t, at)
  BY <1>1, <1>2, <1>3, <1>5, <1>7, Going DEF StageOK, MarkOps, ToolOps, WatchOps, SamePhase
<1>9. /\ Steps(t, p) /\ On(t, p)' /\ Active(t)' /\ MarkTask(t)' = MarkTask(t)
      /\ task'[t].op = task[t].op /\ task'[t].p = p /\ task'[t].id = task[t].id
      /\ task'[t].c = task[t].c /\ task'[t].at = at /\ Queued(p)' = Queued(p) /\ file'[p] = file[p]
  BY <1>1, <1>2, <1>7, <1>8, GoesOn DEF TypeOK, FileType
<1>10. ASSUME p \notin tainted, p \notin tainted'
       PROVE  /\ row.id = 0 => row = NoRow
              /\ RowOfFile(row, p)
              /\ Queued(p)' => p \in BinaryPaths /\ row.status # "removed"
              /\ acked'[p] \subseteq acked[p]
              /\ row.ann \subseteq row.marks \/ Annotating(t)'
              /\ acked'[p] \subseteq row.marks \/ Marked(t)'
              /\ Dirty(t)' /\ TaskInv(t)'
              /\ NothingToSee(p) => StepClaim(t)' /\ (Working(t)' \/ Settled(p)')
  <2>1. /\ StillInv(p) /\ FollowInv(t) /\ MarkInv(t) /\ StepInv(t) /\ JobInv(t, p) /\ (NothingToSee(p) => StepClaim(t))
    BY <1>1, <1>2, <1>10, Before
  <2>2. db[p].id = task[t].id /\ task[t].id # 0
    BY <1>1, <1>2, <2>1 DEF FollowInv, Follows, HasRow, Mine
  <2>3. /\ row.id = db[p].id /\ row.status = db[p].status /\ row.text = db[p].text /\ row.hash = db[p].hash
        /\ row.chunks = task[t].c /\ row.marks = db[p].marks /\ row.ann = {}
        /\ row.hash \in Nat /\ db'[p] = row
    <3>1. Mine(t)
      BY <1>2, <2>2 DEF Mine
    <3>2. db'[p] = row
      BY <1>1, <1>6, Executing
    <3> QED
      BY <1>4, <1>5, <3>1, <3>2 DEF Rows
  <2>4. /\ ~Indexing(t)' /\ ~Survives(t)' /\ Dirty(t)' /\ Working(t)' /\ ~MarkTask(t)' /\ ~MarkTask(t) /\ ~Annotating(t) /\ ~Marked(t)
        /\ task'[t].op = "upload" /\ task'[t].at = "commit"
    BY <1>1, <1>3, <1>9 DEF MarkTask, MarkOps, Indexing, WatchOps, Survives, Dirty, Working, Annotating, Marked
  <2>5. NotNewer(task[t].c, p) /\ task[t].c # 0
    BY <1>1, <1>2, <1>5, <2>1, <2>3 DEF StepInv, StillInv, NotNewer
  <2>6. RowOfFile(row, p)
    BY <1>5, <2>1, <2>3, <2>5 DEF StillInv, RowOfFile, NotNewer
  <2>7. TaskInv(t)'
    <3>1. FollowInv(t)'
      BY <1>9, <2>2, <2>3, <2>4 DEF FollowInv, Mine, Follows, HasRow
    <3>2. MarkInv(t)'
      BY <1>9, <2>3, <2>4 DEF MarkInv, Marked
    <3>3. StepInv(t)'
      BY <1>9, <2>3, <2>4, <2>5 DEF StepInv, NotNewer
    <3> QED
      BY <3>1, <3>2, <3>3 DEF TaskInv
  <2>8. NothingToSee(p) => StepClaim(t)'
    BY <1>1, <1>2, <1>5, <1>9, <2>1, <2>3, <2>4, <2>5 DEF StepClaim, Indexed
  <2> QED
    BY <1>5, <1>7, <1>9, <2>1, <2>2, <2>3, <2>4, <2>5, <2>6, <2>7, <2>8 DEF JobInv, StillInv
<1>11. tainted \subseteq tainted'
  BY <1>6 DEF Execute
<1> QED
  BY <1>1, <1>6, <1>9, <1>10, <1>11, Statement

(* What was extracted of a file that is replaced is cleared. *)
LEMMA ClearUploadStep ==
    ASSUME Inv, NEW t \in Slots, _clear_extracted_state(t)
    PROVE  Inv'
<1>1. /\ t \in Tasks /\ Active(t) /\ task[t].op = "upload" /\ task[t].at = "clear" /\ TypeOK
  BY DEF Inv, _clear_extracted_state, Is, Active, Tasks
<1>2. PICK p \in Paths : p = task[t].p
  BY <1>1, TaskFields
<1>3. PICK at \in Stages : at = "row"
  BY DEF Stages, IndexStages, XStages
<1>4. PICK row : row = IF Mine(t) THEN [db[p] EXCEPT !.chunks = 0, !.ann = {}] ELSE db[p]
  OBVIOUS
<1>5. /\ task[t].id \in Nat /\ task[t].c \in Nat /\ task[t].c <= contents /\ db[p] \in Rows /\ file[p] \in Nat
      /\ db[p].hash <= contents /\ db[p].text <= contents /\ ~(p \in TextPaths /\ p \in BinaryPaths)
  BY <1>1, <1>2, Before DEF StageOK
<1>6. row \in Rows /\ row.hash <= contents /\ row.text <= contents /\ Execute(t, p, row)
  BY <1>1, <1>2, <1>4, <1>5 DEF Rows, _clear_extracted_state, Row
<1>7. Goto(t, at) /\ UNCHANGED <<file, contents, ids, recent, events>> /\ acked' = acked
  BY <1>1, <1>2, <1>3 DEF _clear_extracted_state, fileVars, noteVars
<1>8. StageOK(t)' /\ SamePhase(t, at)
  BY <1>1, <1>2, <1>3, <1>5, <1>7, Going DEF StageOK, MarkOps, ToolOps, WatchOps, SamePhase
<1>9. /\ Steps(t, p) /\ On(t, p)' /\ Active(t)' /\ MarkTask(t)' = MarkTask(t)
      /\ task'[t].op = task[t].op /\ task'[t].p = p /\ task'[t].id = task[t].id
      /\ task'[t].c = task[t].c /\ task'[t].at = at /\ Queued(p)' = Queued(p) /\ file'[p] = file[p]
  BY <1>1, <1>2, <1>7, <1>8, GoesOn DEF TypeOK, FileType
<1>10. ASSUME p \notin tainted, p \notin tainted'
       PROVE  /\ row.id = 0 => row = NoRow
              /\ RowOfFile(row, p)
              /\ Queued(p)' => p \in BinaryPaths /\ row.status # "removed"
              /\ acked'[p] \subseteq acked[p]
              /\ row.ann \subseteq row.marks \/ Annotating(t)'
              /\ acked'[p] \subseteq row.marks \/ Marked(t)'
              /\ Dirty(t)' /\ TaskInv(t)'
              /\ NothingToSee(p) => StepClaim(t)' /\ (Working(t)' \/ Settled(p)')
  <2>1. /\ StillInv(p) /\ FollowInv(t) /\ MarkInv(t) /\ StepInv(t) /\ JobInv(t, p) /\ (NothingToSee(p) => StepClaim(t))
    BY <1>1, <1>2, <1>10, Before
  <2>2. db[p].id = task[t].id /\ task[t].id # 0
    BY <1>1, <1>2, <2>1 DEF FollowInv, Follows, HasRow, Mine
  <2>3. /\ row.id = db[p].id /\ row.status = db[p].status /\ row.text = db[p].text /\ row.hash = db[p].hash
        /\ row.chunks = 0 /\ row.marks = db[p].marks /\ row.ann = {}
        /\ row.hash \in Nat /\ db'[p] = row
    <3>1. Mine(t)
      BY <1>2, <2>2 DEF Mine
    <3>2. db'[p] = row
      BY <1>1, <1>6, Executing
    <3> QED
      BY <1>4, <1>5, <3>1, <3>2 DEF Rows
  <2>4. /\ ~Indexing(t)' /\ ~Survives(t)' /\ Dirty(t)' /\ Working(t)' /\ ~MarkTask(t)' /\ ~MarkTask(t) /\ ~Annotating(t) /\ ~Marked(t)
        /\ task'[t].op = "upload" /\ task'[t].at = "row"
    BY <1>1, <1>3, <1>9 DEF MarkTask, MarkOps, Indexing, WatchOps, Survives, Dirty, Working, Annotating, Marked
  <2>5. NotNewer(task[t].c, p) /\ task[t].c # 0
    BY <1>1, <1>2, <1>5, <2>1, <2>3 DEF StepInv, StillInv, NotNewer
  <2>6. RowOfFile(row, p)
    BY <1>5, <2>1, <2>3, <2>5 DEF StillInv, RowOfFile, NotNewer
  <2>7. TaskInv(t)'
    <3>1. FollowInv(t)'
      BY <1>9, <2>2, <2>3, <2>4 DEF FollowInv, Mine, Follows, HasRow
    <3>2. MarkInv(t)'
      BY <1>9, <2>3, <2>4 DEF MarkInv, Marked
    <3>3. StepInv(t)'
      BY <1>9, <2>3, <2>4, <2>5 DEF StepInv, NotNewer
    <3> QED
      BY <3>1, <3>2, <3>3 DEF TaskInv
  <2>8. NothingToSee(p) => StepClaim(t)'
    BY <1>1, <1>2, <1>5, <1>9, <2>1, <2>3, <2>4, <2>5 DEF StepClaim, Indexed
  <2> QED
    BY <1>5, <1>7, <1>9, <2>1, <2>2, <2>3, <2>4, <2>5, <2>6, <2>7, <2>8 DEF JobInv, StillInv
<1>11. tainted \subseteq tainted'
  BY <1>6 DEF Execute
<1> QED
  BY <1>1, <1>6, <1>9, <1>10, <1>11, Statement

(* The row of a file that is replaced. *)
LEMMA ReplaceRowStep ==
    ASSUME Inv, NEW t \in Slots, ReplaceRow(t)
    PROVE  Inv'
<1>1. /\ t \in Tasks /\ Active(t) /\ task[t].op = "upload" /\ task[t].at = "row" /\ TypeOK
  BY DEF Inv, ReplaceRow, Is, Active, Tasks
<1>2. PICK p \in Paths : p = task[t].p
  BY <1>1, TaskFields
<1>3. PICK at \in Stages : at = "commit row"
  BY DEF Stages, IndexStages, XStages
<1>4. PICK row : row = IF Mine(t) THEN [db[p] EXCEPT !.status = StatusOf(p), !.hash = task[t].c, !.marks = {},
                                                   !.text = IF p \in TextPaths THEN task[t].c ELSE 0] ELSE db[p]
  OBVIOUS
<1>5. /\ task[t].id \in Nat /\ task[t].c \in Nat /\ task[t].c <= contents /\ db[p] \in Rows /\ file[p] \in Nat
      /\ db[p].hash <= contents /\ db[p].text <= contents /\ ~(p \in TextPaths /\ p \in BinaryPaths)
  BY <1>1, <1>2, Before DEF StageOK
<1>6. row \in Rows /\ row.hash <= contents /\ row.text <= contents /\ Execute(t, p, row)
  <2>1. PICK st \in Statuses : st = StatusOf(p)
    BY DEF StatusOf, Statuses
  <2>2. PICK x \in Nat : x = (IF p \in TextPaths THEN task[t].c ELSE 0) /\ x <= contents
    BY <1>1, <1>5 DEF TypeOK, FileType
  <2>3. row = IF Mine(t) THEN [db[p] EXCEPT !.status = st, !.hash = task[t].c, !.marks = {}, !.text = x] ELSE db[p]
    BY <1>4, <2>1, <2>2
  <2>4. row \in Rows /\ row.hash <= contents /\ row.text <= contents
    BY <1>5, <2>2, <2>3 DEF Rows
  <2> QED
    BY <1>2, <1>4, <2>4 DEF ReplaceRow, Row
<1>7. Goto(t, at) /\ UNCHANGED <<file, contents, ids, recent, events>>
      /\ acked' = IF Mine(t) THEN [acked EXCEPT ![p] = {}] ELSE acked
  BY <1>1, <1>2, <1>3 DEF ReplaceRow, fileVars, noteVars
<1>8. StageOK(t)' /\ SamePhase(t, at)
  BY <1>1, <1>2, <1>3, <1>5, <1>7, Going DEF StageOK, MarkOps, ToolOps, WatchOps, SamePhase
<1>9. /\ Steps(t, p) /\ On(t, p)' /\ Active(t)' /\ MarkTask(t)' = MarkTask(t)
      /\ task'[t].op = task[t].op /\ task'[t].p = p /\ task'[t].id = task[t].id
      /\ task'[t].c = task[t].c /\ task'[t].at = at /\ Queued(p)' = Queued(p) /\ file'[p] = file[p]
  BY <1>1, <1>2, <1>7, <1>8, GoesOn DEF TypeOK, FileType
<1>10. ASSUME p \notin tainted, p \notin tainted'
       PROVE  /\ row.id = 0 => row = NoRow
              /\ RowOfFile(row, p)
              /\ Queued(p)' => p \in BinaryPaths /\ row.status # "removed"
              /\ acked'[p] \subseteq acked[p]
              /\ row.ann \subseteq row.marks \/ Annotating(t)'
              /\ acked'[p] \subseteq row.marks \/ Marked(t)'
              /\ Dirty(t)' /\ TaskInv(t)'
              /\ NothingToSee(p) => StepClaim(t)' /\ (Working(t)' \/ Settled(p)')
  <2>1. /\ StillInv(p) /\ FollowInv(t) /\ MarkInv(t) /\ StepInv(t) /\ JobInv(t, p) /\ (NothingToSee(p) => StepClaim(t))
    BY <1>1, <1>2, <1>10, Before
  <2>2. db[p].id = task[t].id /\ task[t].id # 0
    BY <1>1, <1>2, <2>1 DEF FollowInv, Follows, HasRow, Mine
  <2>3. /\ row.id = db[p].id /\ row.status = StatusOf(p) /\ row.hash = task[t].c
        /\ row.text = (IF p \in TextPaths THEN task[t].c ELSE 0)
        /\ row.chunks = db[p].chunks /\ row.marks = {} /\ row.ann = db[p].ann /\ Mine(t)
        /\ row.hash \in Nat /\ db'[p] = row
    <3>1. Mine(t)
      BY <1>2, <2>2 DEF Mine
    <3>2. db'[p] = row
      BY <1>1, <1>6, Executing
    <3> QED
      BY <1>4, <1>5, <3>1, <3>2 DEF Rows
  <2>4. /\ ~Indexing(t)' /\ ~Survives(t)' /\ Dirty(t)' /\ Working(t)' /\ ~MarkTask(t)' /\ ~MarkTask(t) /\ ~Annotating(t) /\ ~Marked(t)
        /\ task'[t].op = "upload" /\ task'[t].at = "commit row"
    BY <1>1, <1>3, <1>9 DEF MarkTask, MarkOps, Indexing, WatchOps, Survives, Dirty, Working, Annotating, Marked
  <2>5. NotNewer(task[t].c, p) /\ task[t].c # 0 /\ db[p].ann = {} /\ (p \in TextPaths \/ p \in BinaryPaths)
    BY <1>1, <1>2, <1>5, <2>1, <2>3 DEF StepInv, StillInv, NotNewer, MarkInv, Paths
  <2>6. RowOfFile(row, p)
    BY <1>5, <2>1, <2>3, <2>5 DEF StillInv, RowOfFile, NotNewer, StatusOf
  <2>7. TaskInv(t)'
    <3>1. FollowInv(t)'
      BY <1>9, <2>2, <2>3, <2>4 DEF FollowInv, Mine, Follows, HasRow
    <3>2. MarkInv(t)'
      BY <1>9, <2>3, <2>4 DEF MarkInv, Marked
    <3>3. StepInv(t)'
      BY <1>5, <1>9, <2>3, <2>4, <2>5 DEF StepInv, NotNewer, StatusOf
    <3> QED
      BY <3>1, <3>2, <3>3 DEF TaskInv
  <2>8. NothingToSee(p) => StepClaim(t)'
    BY <1>1, <1>2, <1>5, <1>9, <2>1, <2>3, <2>4, <2>5 DEF StepClaim, Indexed, StatusOf
  <2> QED
    BY <1>1, <1>5, <1>7, <1>9, <2>1, <2>2, <2>3, <2>4, <2>5, <2>6, <2>7, <2>8 DEF JobInv, StillInv, StatusOf, FileType, TypeOK
<1>11. tainted \subseteq tainted'
  BY <1>6 DEF Execute
<1> QED
  BY <1>1, <1>6, <1>9, <1>10, <1>11, Statement

(* The chunks of a document that is deleted. *)
LEMMA DeleteChunksStep ==
    ASSUME Inv, NEW t \in Slots, archive(t, "chunks")
    PROVE  Inv'
<1>1. /\ t \in Tasks /\ Active(t) /\ task[t].op = "delete" /\ task[t].at = "chunks" /\ TypeOK
  BY DEF Inv, archive, Is, Active, Tasks
<1>2. PICK p \in Paths : p = task[t].p
  BY <1>1, TaskFields
<1>3. PICK at \in Stages : at = "row"
  BY DEF Stages, IndexStages, XStages
<1>4. PICK row : row = IF ~Mine(t) THEN db[p] ELSE [db[p] EXCEPT !.chunks = 0, !.ann = {}]
  OBVIOUS
<1>5. /\ task[t].id \in Nat /\ task[t].c \in Nat /\ task[t].c <= contents /\ db[p] \in Rows /\ file[p] \in Nat
      /\ db[p].hash <= contents /\ db[p].text <= contents /\ ~(p \in TextPaths /\ p \in BinaryPaths)
  BY <1>1, <1>2, Before DEF StageOK
<1>6. row \in Rows /\ row.hash <= contents /\ row.text <= contents /\ Execute(t, p, row)
  BY <1>1, <1>2, <1>4, <1>5 DEF Rows, archive, Row, Deleted, NoRow, Statuses
<1>7. Goto(t, at) /\ UNCHANGED <<file, contents, ids, recent, events>> /\ acked' = acked
  BY <1>1, <1>2, <1>3 DEF archive, fileVars, noteVars
<1>8. StageOK(t)' /\ SamePhase(t, at)
  BY <1>1, <1>2, <1>3, <1>5, <1>7, Going DEF StageOK, MarkOps, ToolOps, WatchOps, SamePhase
<1>9. /\ Steps(t, p) /\ On(t, p)' /\ Active(t)' /\ MarkTask(t)' = MarkTask(t)
      /\ task'[t].op = task[t].op /\ task'[t].p = p /\ task'[t].id = task[t].id
      /\ task'[t].c = task[t].c /\ task'[t].at = at /\ Queued(p)' = Queued(p) /\ file'[p] = file[p]
  BY <1>1, <1>2, <1>7, <1>8, GoesOn DEF TypeOK, FileType
<1>10. ASSUME p \notin tainted, p \notin tainted'
       PROVE  /\ row.id = 0 => row = NoRow
              /\ RowOfFile(row, p)
              /\ Queued(p)' => p \in BinaryPaths /\ row.status # "removed"
              /\ acked'[p] \subseteq acked[p]
              /\ row.ann \subseteq row.marks \/ Annotating(t)'
              /\ acked'[p] \subseteq row.marks \/ Marked(t)'
              /\ Dirty(t)' /\ TaskInv(t)'
              /\ NothingToSee(p) => StepClaim(t)' /\ (Working(t)' \/ Settled(p)')
  <2>1. /\ StillInv(p) /\ FollowInv(t) /\ MarkInv(t) /\ StepInv(t) /\ JobInv(t, p) /\ (NothingToSee(p) => StepClaim(t))
    BY <1>1, <1>2, <1>10, Before
  <2>2. db[p].id = task[t].id /\ task[t].id # 0
    BY <1>1, <1>2, <2>1 DEF FollowInv, Follows, HasRow, Mine
  <2>3. /\ row.id = db[p].id /\ row.status = db[p].status /\ row.text = db[p].text /\ row.hash = db[p].hash
        /\ row.chunks = 0 /\ row.marks = db[p].marks /\ row.ann = {}
        /\ row.hash \in Nat /\ db'[p] = row
    <3>1. Mine(t)
      BY <1>2, <2>2 DEF Mine
    <3>2. db'[p] = row
      BY <1>1, <1>6, Executing
    <3> QED
      BY <1>4, <1>5, <3>1, <3>2 DEF Rows
  <2>4. /\ ~Indexing(t)' /\ ~Survives(t)' /\ Dirty(t)' /\ Working(t)' /\ ~MarkTask(t)' /\ ~MarkTask(t) /\ ~Annotating(t) /\ ~Marked(t)
        /\ task'[t].op = "delete" /\ task'[t].at = "row"
    BY <1>1, <1>3, <1>9 DEF MarkTask, MarkOps, Indexing, WatchOps, Survives, Dirty, Working, Annotating, Marked
  <2>5. NotNewer(task[t].c, p)
    BY <1>1, <1>2, <1>5, <2>1, <2>3 DEF StepInv, StillInv, NotNewer
  <2>6. RowOfFile(row, p)
    BY <1>5, <2>1, <2>3, <2>5 DEF StillInv, RowOfFile, NotNewer
  <2>7. TaskInv(t)'
    <3>1. FollowInv(t)'
      BY <1>9, <2>2, <2>3, <2>4 DEF FollowInv, Mine, Follows, HasRow
    <3>2. MarkInv(t)'
      BY <1>9, <2>3, <2>4 DEF MarkInv, Marked
    <3>3. StepInv(t)'
      BY <1>9, <2>3, <2>4, <2>5 DEF StepInv, NotNewer
    <3> QED
      BY <3>1, <3>2, <3>3 DEF TaskInv
  <2>8. NothingToSee(p) => StepClaim(t)'
    BY <1>1, <1>2, <1>5, <1>9, <2>1, <2>3, <2>4, <2>5 DEF StepClaim, Indexed, WatchOps
  <2> QED
    BY <1>5, <1>7, <1>9, <2>1, <2>2, <2>3, <2>4, <2>5, <2>6, <2>7, <2>8 DEF JobInv, StillInv
<1>11. tainted \subseteq tainted'
  BY <1>6 DEF Execute
<1> QED
  BY <1>1, <1>6, <1>9, <1>10, <1>11, Statement

(* The row of a document that is deleted. *)
LEMMA DeleteRowStep ==
    ASSUME Inv, NEW t \in Slots, archive(t, "row")
    PROVE  Inv'
<1>1. /\ t \in Tasks /\ Active(t) /\ task[t].op = "delete" /\ task[t].at = "row" /\ TypeOK
  BY DEF Inv, archive, Is, Active, Tasks
<1>2. PICK p \in Paths : p = task[t].p
  BY <1>1, TaskFields
<1>3. PICK at \in Stages : at = "commit"
  BY DEF Stages, IndexStages, XStages
<1>4. PICK row : row = IF ~Mine(t) THEN db[p] ELSE NoRow
  OBVIOUS
<1>5. /\ task[t].id \in Nat /\ task[t].c \in Nat /\ task[t].c <= contents /\ db[p] \in Rows /\ file[p] \in Nat
      /\ db[p].hash <= contents /\ db[p].text <= contents /\ ~(p \in TextPaths /\ p \in BinaryPaths)
  BY <1>1, <1>2, Before DEF StageOK
<1>6. row \in Rows /\ row.hash <= contents /\ row.text <= contents /\ Execute(t, p, row)
  <2>1. NoRow \in Rows /\ contents \in Nat /\ NoRow.hash = 0 /\ NoRow.text = 0
    BY <1>1 DEF Rows, NoRow, Statuses, TypeOK, FileType
  <2>2. row \in Rows /\ row.hash <= contents /\ row.text <= contents
    BY <1>4, <1>5, <2>1
  <2> QED
    BY <1>1, <1>2, <1>4, <2>2 DEF archive, Row, Deleted
<1>7. Goto(t, at) /\ UNCHANGED <<file, contents, ids, recent, events>>
      /\ acked' = IF Mine(t) THEN [acked EXCEPT ![p] = {}] ELSE acked
  BY <1>1, <1>2, <1>3 DEF archive, fileVars, noteVars
<1>8. StageOK(t)' /\ SamePhase(t, at)
  BY <1>1, <1>2, <1>3, <1>5, <1>7, Going DEF StageOK, MarkOps, ToolOps, WatchOps, SamePhase
<1>9. /\ Steps(t, p) /\ On(t, p)' /\ Active(t)' /\ MarkTask(t)' = MarkTask(t)
      /\ task'[t].op = task[t].op /\ task'[t].p = p /\ task'[t].id = task[t].id
      /\ task'[t].c = task[t].c /\ task'[t].at = at /\ Queued(p)' = Queued(p) /\ file'[p] = file[p]
  BY <1>1, <1>2, <1>7, <1>8, GoesOn DEF TypeOK, FileType
<1>10. ASSUME p \notin tainted, p \notin tainted'
       PROVE  /\ row.id = 0 => row = NoRow
              /\ RowOfFile(row, p)
              /\ Queued(p)' => p \in BinaryPaths /\ row.status # "removed"
              /\ acked'[p] \subseteq acked[p]
              /\ row.ann \subseteq row.marks \/ Annotating(t)'
              /\ acked'[p] \subseteq row.marks \/ Marked(t)'
              /\ Dirty(t)' /\ TaskInv(t)'
              /\ NothingToSee(p) => StepClaim(t)' /\ (Working(t)' \/ Settled(p)')
  <2>1. /\ StillInv(p) /\ FollowInv(t) /\ MarkInv(t) /\ StepInv(t) /\ JobInv(t, p) /\ (NothingToSee(p) => StepClaim(t))
    BY <1>1, <1>2, <1>10, Before
  <2>2. db[p].id = task[t].id /\ task[t].id # 0
    BY <1>1, <1>2, <2>1 DEF FollowInv, Follows, HasRow, Mine
  <2>3. /\ row = NoRow /\ row.id = 0 /\ row.status = "none" /\ row.text = 0 /\ row.hash = 0
        /\ row.chunks = 0 /\ row.marks = {} /\ row.ann = {} /\ Mine(t)
        /\ row.hash \in Nat /\ db'[p] = row
    <3>1. Mine(t)
      BY <1>2, <2>2 DEF Mine
    <3>2. db'[p] = row
      BY <1>1, <1>6, Executing
    <3> QED
      BY <1>4, <1>5, <3>1, <3>2 DEF Rows, NoRow
  <2>4. /\ ~Indexing(t)' /\ ~Survives(t)' /\ Dirty(t)' /\ Working(t)' /\ ~MarkTask(t)' /\ ~MarkTask(t) /\ ~Annotating(t) /\ ~Marked(t)
        /\ task'[t].op = "delete" /\ task'[t].at = "commit"
    BY <1>1, <1>3, <1>9 DEF MarkTask, MarkOps, Indexing, WatchOps, Survives, Dirty, Working, Annotating, Marked
  <2>5. NotNewer(task[t].c, p)
    BY <1>1, <1>2, <1>5, <2>1, <2>3 DEF StepInv, StillInv, NotNewer
  <2>6. RowOfFile(row, p)
    BY <1>5, <2>1, <2>3, <2>5 DEF StillInv, RowOfFile, NotNewer
  <2>7. TaskInv(t)'
    <3>1. FollowInv(t)'
      BY <1>9, <2>2, <2>3, <2>4 DEF FollowInv, Mine, Follows, HasRow
    <3>2. MarkInv(t)'
      BY <1>9, <2>3, <2>4 DEF MarkInv, Marked
    <3>3. StepInv(t)'
      BY <1>9, <2>3, <2>4, <2>5 DEF StepInv, NotNewer
    <3> QED
      BY <3>1, <3>2, <3>3 DEF TaskInv
  <2>8. NothingToSee(p) => StepClaim(t)'
    BY <1>1, <1>2, <1>5, <1>9, <2>1, <2>3, <2>4, <2>5 DEF StepClaim, Indexed, WatchOps
  <2> QED
    BY <1>1, <1>5, <1>7, <1>9, <2>1, <2>2, <2>3, <2>4, <2>5, <2>6, <2>7, <2>8 DEF JobInv, StillInv, TypeOK, FileType
<1>11. tainted \subseteq tainted'
  BY <1>6 DEF Execute
<1> QED
  BY <1>1, <1>6, <1>9, <1>10, <1>11, Statement

(* The task of a coroutine. *)
LEMMA SlotTask ==
    ASSUME TypeOK, NEW t \in Slots, Active(t)
    PROVE  IF MarkTask(t) THEN task[t] \in MarkJobs ELSE task[t] \in SlotJobs
<1>1. task[t] \in SlotJobs \cup MarkJobs
  BY DEF TypeOK, TaskType, Active, Idle
<1> QED
  BY <1>1 DEF SlotJobs, MarkJobs, MarkTask, MarkOps, SlotOps, ToolOps

(* A coroutine goes on as the record j, at the same document. *)
LEMMA GoesOnAs ==
    ASSUME Inv, NEW t \in Slots, Active(t), NEW p \in Paths, task[t].p = p,
           NEW j \in SlotJobs \cup MarkJobs, task' = [task EXCEPT ![t] = j], j.p = p, j.c <= contents,
           Survives(t) => j.op \in ToolOps,
           StageOK(t)',
           UNCHANGED <<file, contents, recent, events>>, ids' \in Nat,
           acked' \in [Paths -> SUBSET Marks], \A q \in Paths \ {p} : acked'[q] = acked[q]
    PROVE  /\ Steps(t, p) /\ On(t, p)' /\ Active(t)' /\ task'[t] = j /\ task'["watch"] = task["watch"]
           /\ Queued(p)' = Queued(p) /\ file'[p] = file[p] /\ t \in Tasks
<1>1. TypeOK /\ t \in Tasks
  BY DEF Inv, Tasks
<1>2. /\ task'[t] = j /\ task'["watch"] = task["watch"] /\ TaskType'
      /\ \A u \in Tasks \ {t} : task'[u] = task[u]
  BY <1>1, Becoming, LocalAssumption DEF Tasks
<1>3. Active(t)' /\ On(t, p)' /\ (Survives(t) => Survives(t)')
  BY <1>2 DEF SlotJobs, MarkJobs, SlotOps, ToolOps, MarkOps, Active, On, Survives
<1> QED
  BY <1>1, <1>2, <1>3, EndingWait DEF Steps, Queued

(* What is settled depends on the watcher, the file and the row only. *)
LEMMA SettledKept ==
    ASSUME NEW p \in Paths, task'["watch"] = task["watch"], file'[p] = file[p],
           db'[p].id = db[p].id, db'[p].status = db[p].status, db'[p].text = db[p].text, db'[p].chunks = db[p].chunks
    PROVE  Settled(p)' = Settled(p)
    BY DEF Settled, Indexed, WillExtract, Queued

(* The chunks of a document that is gone. *)
LEMMA NoChunksStep ==
    ASSUME Inv, NEW t \in Slots, StoreChunks(t), ~Mine(t)
    PROVE  Inv'
<1>1. /\ t \in Tasks /\ Active(t) /\ TypeOK /\ task[t].op \in {"content", "upload"} /\ task[t].at = "chunks"
      /\ FailOpen(t) /\ Done(t) /\ UNCHANGED <<file, contents, ids, recent, events>> /\ acked' = acked
  BY DEF Inv, StoreChunks, Is, Active, Tasks, fileVars, noteVars
<1>2. PICK p \in Paths : p = task[t].p
  BY <1>1, TaskFields
<1>3. acked' \in [Paths -> SUBSET Marks]
  BY <1>1 DEF TypeOK, FileType
<1>4. Steps(t, p) /\ ~MarkTask(t)'
  BY <1>1, <1>2, <1>3, Ends
<1>5. p \in tainted
  <2>1. Follows(t)
    BY <1>1 DEF Follows
  <2> QED
    BY <1>1, <1>2, <2>1, Before DEF FollowInv
<1>6. ~MarkTask(t)
  BY <1>1 DEF MarkTask, MarkOps
<1> QED
  BY <1>1, <1>4, <1>5, <1>6, Spoiled

(* The chunks of a content or of an upload. *)
LEMMA StoreChunksStep ==
    ASSUME Inv, NEW t \in Slots, StoreChunks(t)
    PROVE  Inv'
    BY NoChunksStep, ContentChunksStep, UploadChunksStep DEF StoreChunks

(* The end of a request. *)
LEMMA EndRequestStep ==
    ASSUME Inv, NEW t \in Slots, EndRequest(t)
    PROVE  Inv'
<1>1. /\ t \in Tasks /\ Active(t) /\ TypeOK /\ task[t].op \in {"content", "upload", "delete"} /\ task[t].at = "commit"
      /\ Commit(t) /\ Done(t) /\ UNCHANGED <<file, contents, ids, recent, events>> /\ acked' = acked
  BY DEF Inv, EndRequest, Is, Active, Tasks, fileVars, noteVars
<1>2. PICK p \in Paths : p = task[t].p
  BY <1>1, TaskFields
<1>3. acked' \in [Paths -> SUBSET Marks]
  BY <1>1 DEF TypeOK, FileType
<1>4. Steps(t, p) /\ ~Active(t)' /\ ~MarkTask(t)' /\ Queued(p)' = Queued(p) /\ task'["watch"] = task["watch"]
  BY <1>1, <1>2, <1>3, Ends
<1>5. ~MarkTask(t) /\ ~Annotating(t) /\ ~Marked(t)
  BY <1>1 DEF MarkTask, MarkOps, Annotating, Marked
<1>6. ASSUME p \notin tainted
      PROVE  /\ acked'[p] \subseteq db[p].marks /\ db[p].ann \subseteq db[p].marks
             /\ NothingToSee(p) => Settled(p)'
  <2>1. JobInv(t, p) /\ StepInv(t) /\ (NothingToSee(p) => StepClaim(t))
    BY <1>1, <1>2, <1>6, Before
  <2>2. NothingToSee(p) => Settled(p)
    BY <1>1, <1>2, <2>1 DEF StepClaim, StepInv, Settled, Indexed
  <2>3. Settled(p)' = Settled(p)
    BY <1>1, <1>4, SettledKept DEF Commit
  <2> QED
    BY <1>1, <1>5, <2>1, <2>2, <2>3 DEF JobInv
<1>7. tainted \subseteq tainted'
  BY <1>1 DEF Commit
<1> QED
  BY <1>1, <1>4, <1>6, <1>7, Committing

(* The document is committed before its chunks, or before it is extracted. *)
LEMMA CommitDocumentStep ==
    ASSUME Inv, NEW t \in Slots, CommitDocument(t)
    PROVE  Inv'
<1>1. /\ t \in Tasks /\ Active(t) /\ TypeOK /\ task[t].op \in {"content", "upload"} /\ task[t].at = "commit row"
      /\ Commit(t) /\ UNCHANGED <<file, contents, ids, recent, events>> /\ acked' = acked
  BY DEF Inv, CommitDocument, Is, Active, Tasks, fileVars, noteVars
<1>2. PICK p \in Paths : p = task[t].p
  BY <1>1, TaskFields
<1>3. acked' \in [Paths -> SUBSET Marks] /\ ids' \in Nat /\ StageOK(t) /\ task[t].c <= contents
  BY <1>1 DEF TypeOK, FileType, Inv, CountInv
<1>4. task[t] \in SlotJobs
  <2>1. ~MarkTask(t)
    BY <1>1 DEF MarkTask, MarkOps
  <2> QED
    BY <1>1, <2>1, SlotTask
<1>5. PICK op \in SlotOps : op = IF p \in BinaryPaths THEN "extract" ELSE task[t].op
  BY <1>1 DEF SlotOps
<1>6. PICK at \in Stages : at = IF p \in BinaryPaths THEN "x select" ELSE "chunks"
  BY DEF Stages, XStages, IndexStages
<1>7. PICK j \in SlotJobs : j = [task[t] EXCEPT !.op = op, !.at = at]
  BY <1>4 DEF SlotJobs
<1>8. /\ j.op = op /\ j.at = at /\ j.p = p /\ j.c = task[t].c /\ j.id = task[t].id
      /\ task' = [task EXCEPT ![t] = j]
  BY <1>1, <1>2, <1>4, <1>5, <1>6, <1>7 DEF SlotJobs, CommitDocument, TypeOK, TaskType
<1>9. task'[t] = j
  BY <1>1, <1>7, <1>8, Becoming
<1>10. StageOK(t)' /\ ~Survives(t)
  <2>1. p \notin BinaryPaths => p \in TextPaths
    BY DEF Paths
  <2> QED
    BY <1>1, <1>2, <1>3, <1>5, <1>6, <1>8, <1>9, <2>1, LocalAssumption DEF StageOK, WatchOps, MarkOps, ToolOps, XStages, Survives
<1>11. /\ Steps(t, p) /\ Active(t)' /\ Queued(p)' = Queued(p) /\ task'["watch"] = task["watch"]
       /\ file'[p] = file[p] /\ task'[t].p = p
  BY <1>1, <1>2, <1>3, <1>7, <1>8, <1>9, <1>10, GoesOnAs
<1>12. /\ ~MarkTask(t) /\ ~Annotating(t) /\ ~Marked(t) /\ ~MarkTask(t)' /\ Working(t)' /\ ~Indexing(t)' /\ ~Survives(t)'
       /\ p \in BinaryPaths => task'[t].op = "extract" /\ task'[t].at = "x select"
       /\ p \notin BinaryPaths => task'[t].op = task[t].op /\ task'[t].at = "chunks"
       /\ task'[t].c = task[t].c /\ task'[t].id = task[t].id /\ db' = db
  BY <1>1, <1>5, <1>6, <1>8, <1>9
     DEF MarkTask, MarkOps, Annotating, Marked, Working, Indexing, WatchOps, Survives, Commit
<1>13. ASSUME p \notin tainted
       PROVE  /\ acked'[p] \subseteq db[p].marks /\ db[p].ann \subseteq db[p].marks
              /\ TaskInv(t)'
              /\ NothingToSee(p) => StepClaim(t)'
  <2>1. JobInv(t, p) /\ FollowInv(t) /\ MarkInv(t) /\ StepInv(t) /\ (NothingToSee(p) => StepClaim(t))
    BY <1>1, <1>2, <1>13, Before
  <2>2. db[p].id = task[t].id /\ task[t].id # 0
    BY <1>1, <1>2, <2>1 DEF FollowInv, Follows, HasRow, Mine
  <2>3. FollowInv(t)'
    BY <1>1, <1>11, <1>12, <2>2 DEF FollowInv, Mine, Follows, HasRow
  <2>4. MarkInv(t)'
    BY <1>1, <1>11, <1>12 DEF MarkInv, Marked
  <2>5. StepInv(t)'
    <3>1. p \in BinaryPaths => task[t].op = "upload"
      BY <1>1, <1>2, <1>3, LocalAssumption DEF StageOK
    <3> QED
      BY <1>1, <1>2, <1>11, <1>12, <2>1, <3>1 DEF StepInv, NotNewer
  <2>6. NothingToSee(p) => StepClaim(t)'
    BY <1>1, <1>2, <1>3, <1>11, <1>12, <2>1, <2>2, LocalAssumption DEF StepClaim, StepInv, Indexed, WatchOps, Paths
  <2> QED
    BY <1>1, <1>12, <2>1, <2>3, <2>4, <2>5, <2>6 DEF JobInv, TaskInv
<1>14. tainted \subseteq tainted'
  BY <1>1 DEF Commit
<1> QED
  BY <1>1, <1>11, <1>12, <1>13, <1>14, Committing

(* The row of an upload to a new path. *)
LEMMA InsertUploadStep ==
    ASSUME Inv, NEW t \in Slots, InsertUpload(t)
    PROVE  Inv'
<1>1. /\ t \in Tasks /\ Active(t) /\ TypeOK /\ task[t].op = "upload" /\ task[t].at = "insert"
      /\ UNCHANGED <<file, contents, recent, events>>
  BY DEF Inv, InsertUpload, Is, Active, Tasks, fileVars
<1>2. PICK p \in Paths : p = task[t].p
  BY <1>1, TaskFields
<1>3. /\ StageOK(t) /\ task[t].c \in Nat /\ task[t].c <= contents /\ ids \in Nat /\ contents \in Nat /\ file[p] \in Nat
      /\ ~(p \in TextPaths /\ p \in BinaryPaths) /\ (p \in TextPaths \/ p \in BinaryPaths)
      /\ acked \in [Paths -> SUBSET Marks]
  BY <1>1, <1>2, Before DEF TypeOK, FileType, Paths
<1>4. p \notin tainted => FollowInv(t) /\ StillInv(p) /\ db[p] = NoRow
  BY <1>1, <1>2, Before DEF FollowInv, Follows, Mine, StillInv
<1>5. CASE db[p].id # 0
  <2>1. FailOpen(t) /\ Done(t) /\ UNCHANGED ids /\ acked' = acked /\ p \in tainted
    BY <1>2, <1>4, <1>5 DEF InsertUpload, NoRow
  <2>2. Steps(t, p) /\ ~MarkTask(t)' /\ ~MarkTask(t)
    BY <1>1, <1>2, <1>3, <2>1, Ends DEF MarkTask, MarkOps
  <2> QED
    BY <1>1, <2>1, <2>2, Spoiled
<1>6. CASE db[p].id = 0
  <2>1. PICK new \in Nat : new = ids + 1 /\ new # 0
    BY <1>3
  <2>2. PICK st \in Statuses : st = StatusOf(p)
    BY DEF StatusOf, Statuses
  <2>3. PICK x \in Nat : x = (IF p \in TextPaths THEN task[t].c ELSE 0) /\ x <= contents
    BY <1>3
  <2>4. PICK row \in Rows : row = [NoRow EXCEPT !.id = new, !.status = st, !.hash = task[t].c, !.text = x]
    BY <1>3 DEF NoRow, Rows
  <2>5. /\ row.id = new /\ row.status = st /\ row.hash = task[t].c /\ row.text = x /\ row.marks = {}
        /\ row.chunks = 0 /\ row.ann = {}
    BY <2>4 DEF NoRow
  <2>6. PICK at \in Stages : at = "commit row"
    BY DEF Stages, XStages, IndexStages
  <2>7. task[t] \in SlotJobs
    BY <1>1, SlotTask DEF MarkTask, MarkOps
  <2>8. PICK j \in SlotJobs : j = [task[t] EXCEPT !.id = new, !.at = at]
    BY <2>7 DEF SlotJobs
  <2>9. /\ j.op = "upload" /\ j.at = at /\ j.p = p /\ j.c = task[t].c /\ j.id = new
    BY <1>1, <1>2, <2>7, <2>8 DEF SlotJobs
  <2>10. /\ ids' = new /\ Execute(t, p, row) /\ task' = [task EXCEPT ![t] = j]
         /\ acked' = [acked EXCEPT ![p] = {}]
    BY <1>2, <1>6, <2>1, <2>2, <2>3, <2>4, <2>6, <2>7, <2>8 DEF InsertUpload
  <2>11. task'[t] = j
    BY <1>1, <2>8, <2>10, Becoming
  <2>12. StageOK(t)' /\ ~Survives(t)
    BY <1>1, <2>6, <2>9, <2>11 DEF StageOK, WatchOps, MarkOps, ToolOps, XStages, Survives
  <2>13. acked' \in [Paths -> SUBSET Marks] /\ acked'[p] = {} /\ \A q \in Paths \ {p} : acked'[q] = acked[q]
    BY <1>3, <2>10
  <2>14. /\ Steps(t, p) /\ Active(t)' /\ Queued(p)' = Queued(p) /\ task'["watch"] = task["watch"]
         /\ file'[p] = file[p] /\ task'[t].p = p
    BY <1>1, <1>2, <1>3, <2>1, <2>8, <2>9, <2>10, <2>11, <2>12, <2>13, GoesOnAs
  <2>15. /\ ~MarkTask(t) /\ ~MarkTask(t)' /\ Working(t)' /\ Dirty(t)' /\ ~Indexing(t)' /\ ~Survives(t)'
         /\ task'[t].op = "upload" /\ task'[t].at = "commit row" /\ task'[t].c = task[t].c /\ task'[t].id = new
    BY <1>1, <2>6, <2>9, <2>11 DEF MarkTask, MarkOps, Working, Dirty, Indexing, WatchOps, Survives
  <2>16. db'[p] = row /\ row.hash <= contents /\ row.text <= contents
    BY <1>1, <1>3, <2>3, <2>5, <2>10, Executing
  <2>17. MarkTask(t)' = MarkTask(t)
    BY <1>1, <2>15 DEF MarkTask
  <2>18. ASSUME p \notin tainted
         PROVE  /\ RowOfFile(row, p) /\ TaskInv(t)'
                /\ Queued(p)' => p \in BinaryPaths /\ row.status # "removed"
                /\ NothingToSee(p) => StepClaim(t)'
    <3>1. FollowInv(t) /\ StillInv(p) /\ StepInv(t) /\ (NothingToSee(p) => StepClaim(t))
      BY <1>1, <1>2, <2>18, Before
    <3>2. task[t].c # 0 /\ NotNewer(task[t].c, p)
      BY <1>1, <1>2, <3>1 DEF StepInv
    <3>3. RowOfFile(row, p)
      BY <1>3, <2>1, <2>2, <2>3, <2>5, <3>2 DEF RowOfFile, NotNewer, StatusOf
    <3>4. FollowInv(t)'
      BY <2>1, <2>5, <2>14, <2>15, <2>16 DEF FollowInv, Mine, Follows, HasRow
    <3>5. MarkInv(t)'
      BY <2>14, <2>15 DEF MarkInv, Marked
    <3>6. StepInv(t)'
      BY <1>3, <2>2, <2>5, <2>14, <2>15, <2>16, <3>2 DEF StepInv, NotNewer, StatusOf
    <3>7. NothingToSee(p) => StepClaim(t)'
      BY <1>1, <1>2, <1>3, <2>3, <2>5, <2>14, <2>15, <2>16, <3>1 DEF StepClaim, Indexed, WatchOps
    <3> QED
      BY <2>2, <2>5, <2>14, <3>1, <3>3, <3>4, <3>5, <3>6, <3>7 DEF TaskInv, StillInv, StatusOf
  <2>19. tainted \subseteq tainted'
    BY <2>10 DEF Execute
  <2>20. ASSUME p \notin tainted'
         PROVE  /\ row.id # 0 /\ acked'[p] \subseteq acked[p] /\ row.ann \subseteq row.marks /\ acked'[p] \subseteq row.marks
                /\ RowOfFile(row, p) /\ TaskInv(t)'
                /\ Queued(p)' => p \in BinaryPaths /\ row.status # "removed"
                /\ NothingToSee(p) => StepClaim(t)'
    BY <2>1, <2>5, <2>13, <2>18, <2>19, <2>20
  <2> QED
    BY <1>1, <2>10, <2>14, <2>15, <2>16, <2>17, <2>19, <2>20, Statement
<1> QED
  BY <1>5, <1>6

--------------------------------------------------------------------------------
(* The requests for highlights. *)

(* The highlights are read. *)
LEMMA ReadHighlightsStep ==
    ASSUME Inv, NEW t \in Slots, ReadHighlights(t)
    PROVE  Inv'
<1>1. /\ t \in Tasks /\ Active(t) /\ TypeOK /\ MarkTask(t) /\ task[t].at = "read" /\ NoStatement
      /\ UNCHANGED <<file, contents, ids, recent, events>> /\ acked' = acked
  BY DEF Inv, ReadHighlights, Active, Tasks, MarkTask, MarkOps, fileVars, noteVars
<1>2. PICK p \in Paths : p = task[t].p
  BY <1>1, TaskFields
<1>3. /\ StageOK(t) /\ task[t].c <= contents /\ ids' \in Nat /\ db[p] \in Rows /\ task[t].m \in Marks
      /\ acked' \in [Paths -> SUBSET Marks]
  BY <1>1, <1>2, Before, TaskFields DEF TypeOK, FileType
<1>4. PICK after \in SUBSET Marks : after = After(t)
  BY <1>2, <1>3 DEF After, Row, Rows
<1>5. PICK at \in Stages : at = "row"
  BY DEF Stages, XStages, IndexStages
<1>6. task[t] \in MarkJobs
  BY <1>1, SlotTask
<1>7. PICK j \in MarkJobs : j = [task[t] EXCEPT !.marks = after, !.at = at]
  BY <1>6 DEF MarkJobs
<1>8. /\ j.op = task[t].op /\ j.at = at /\ j.p = p /\ j.c = task[t].c /\ j.id = task[t].id /\ j.m = task[t].m /\ j.marks = after
      /\ task' = [task EXCEPT ![t] = j]
  BY <1>2, <1>4, <1>5, <1>6, <1>7 DEF MarkJobs, ReadHighlights
<1>9. task'[t] = j
  BY <1>1, <1>7, <1>8, Becoming
<1>10. StageOK(t)' /\ ~Survives(t)
  BY <1>1, <1>5, <1>8, <1>9 DEF StageOK, WatchOps, MarkTask, MarkOps, ToolOps, Survives
<1>11. /\ Steps(t, p) /\ Active(t)' /\ Queued(p)' = Queued(p) /\ task'["watch"] = task["watch"]
       /\ file'[p] = file[p] /\ task'[t].p = p
  BY <1>1, <1>2, <1>3, <1>7, <1>8, <1>9, <1>10, GoesOnAs
<1>12. /\ task'[t].at = "row" /\ task'[t].c = task[t].c /\ task'[t].id = task[t].id /\ task'[t].m = task[t].m
       /\ task'[t].op = task[t].op /\ task'[t].op \in MarkOps /\ task'[t].marks = After(t) /\ db' = db
       /\ MarkTask(t)' /\ ~Annotating(t) /\ ~Marked(t) /\ ~Annotating(t)' /\ ~Marked(t)' /\ ~Working(t) /\ ~Dirty(t)
  BY <1>1, <1>4, <1>5, <1>8, <1>9 DEF MarkTask, MarkOps, Annotating, Marked, Working, Dirty, NoStatement
<1>13. ASSUME p \notin tainted
       PROVE  /\ db[p] = committed[p] /\ TaskInv(t)'
              /\ NothingToSee(p) => StepClaim(t)' /\ Settled(p)'
  <2>1. JobInv(t, p) /\ FollowInv(t) /\ StepInv(t)
    BY <1>1, <1>2, <1>13, Before
  <2>2. db[p] = committed[p] /\ acked[p] \subseteq db[p].marks /\ (NothingToSee(p) => Settled(p))
    BY <1>12, <2>1 DEF JobInv
  <2>3. FollowInv(t)'
    BY <1>1, <1>2, <1>11, <1>12, <2>1 DEF FollowInv, Mine, Follows, HasRow, MarkOps
  <2>4. MarkInv(t)'
    BY <1>1, <1>2, <1>11, <1>12, <2>2 DEF MarkInv, Marked, Confirmed, After, Row, MarkOps
  <2>5. StepInv(t)'
    BY <1>1, <1>2, <1>11, <1>12, <2>1 DEF StepInv, NotNewer, MarkOps, Indexing, WatchOps
  <2>6. StepClaim(t)'
    BY <1>11, <1>12 DEF StepClaim, MarkOps, Indexing, WatchOps, Survives
  <2>7. Settled(p)' = Settled(p)
    BY <1>11, <1>12, SettledKept
  <2> QED
    BY <2>2, <2>3, <2>4, <2>5, <2>6, <2>7 DEF TaskInv
<1>14. MarkTask(t)' = MarkTask(t) /\ Annotating(t)' = Annotating(t) /\ Marked(t)' = Marked(t)
  BY <1>12 DEF MarkTask, Annotating, Marked
<1> QED
  BY <1>1, <1>11, <1>12, <1>13, <1>14, Quiet

(* A transaction that is rolled back, with the request. *)
LEMMA RollingBack ==
    ASSUME Inv, NEW t \in Slots, Active(t), NEW p \in Paths, task[t].p = p, MarkTask(t), Rollback(t), Done(t),
           UNCHANGED <<file, contents, ids, recent, events, acked>>,
           p \notin tainted => task[t].at = "read"
    PROVE  Inv'
<1>1. TypeOK /\ acked' \in [Paths -> SUBSET Marks] /\ t \in Tasks
  BY DEF Inv, TypeOK, FileType, Tasks
<1>2. Steps(t, p) /\ ~Active(t)' /\ ~MarkTask(t)' /\ Queued(p)' = Queued(p) /\ task'["watch"] = task["watch"] /\ file'[p] = file[p]
  BY <1>1, Ends
<1>3. StoreType' /\ db' = committed /\ committed' = committed /\ tainted \subseteq tainted' /\ RollsBack(t)
  BY <1>1, <1>2 DEF TypeOK, StoreType, Rollback, RollsBack
<1>4. db'[p].hash <= contents /\ db'[p].text <= contents
  BY <1>3 DEF Inv, CountInv
<1>5. ASSUME p \notin tainted' PROVE JobInv(t, p)'
  <2>1. JobInv(t, p) /\ StillInv(p) /\ p \notin tainted
    BY <1>1, <1>3, <1>5, Before
  <2>2. ~Dirty(t) /\ ~Working(t) /\ ~On(t, p)'
    BY <1>2, <1>3, <1>5 DEF Dirty, Working, MarkTask, MarkOps, On
  <2>3. db[p] = committed[p] /\ (NothingToSee(p) => Settled(p))
    BY <2>1, <2>2 DEF JobInv
  <2>4. db'[p] = db[p] /\ committed'[p] = db[p] /\ acked'[p] = acked[p]
    BY <1>3, <2>3
  <2>5. Settled(p)' = Settled(p) /\ NothingToSee(p)' = NothingToSee(p)
    BY <1>1, <1>2, <2>4, SettledKept, StepsSee
  <2>6. RowOfFile(db[p], p)' /\ RowOfFile(committed[p], p)'
    BY <1>2, <2>1, <2>4 DEF StillInv, RowOfFile, NotNewer
  <2>7. StillInv(p)'
    BY <1>2, <2>1, <2>3, <2>4, <2>6 DEF StillInv, NoRow
  <2> QED
    BY <2>1, <2>2, <2>3, <2>4, <2>5, <2>7 DEF JobInv, StillInv
<1> QED
  BY <1>1, <1>2, <1>3, <1>4, <1>5, StepsAct

(* A highlight that is refused. *)
LEMMA RefuseHighlightStep ==
    ASSUME Inv, NEW t \in Slots, RefuseHighlight(t)
    PROVE  Inv'
<1>1. /\ Active(t) /\ TypeOK /\ MarkTask(t) /\ task[t].at = "read" /\ t \in Tasks
  BY DEF Inv, RefuseHighlight, Active, MarkTask, MarkOps, Tasks
<1>2. PICK p \in Paths : p = task[t].p
  BY <1>1, TaskFields
<1> QED
  BY <1>1, <1>2, RollingBack DEF RefuseHighlight, fileVars, noteVars

(* The highlights of the row are written. *)
LEMMA WriteHighlightsStep ==
    ASSUME Inv, NEW t \in Slots, WriteHighlights(t)
    PROVE  Inv'
<1>1. /\ t \in Tasks /\ Active(t) /\ TypeOK /\ MarkTask(t) /\ task[t].at = "row" /\ task[t].op \in MarkOps
      /\ UNCHANGED <<file, contents, ids, recent, events, acked>>
  BY DEF Inv, WriteHighlights, Active, Tasks, MarkTask, MarkOps, fileVars, noteVars
<1>2. PICK p \in Paths : p = task[t].p
  BY <1>1, TaskFields
<1>3. CASE ~Mine(t)
  <2>1. Follows(t)
    BY <1>1 DEF Follows, MarkOps
  <2>2. p \in tainted
    BY <1>1, <1>2, <1>3, <2>1, Before DEF FollowInv
  <2> QED
    BY <1>1, <1>2, <1>3, <2>2, RollingBack DEF WriteHighlights
<1>4. CASE Mine(t)
  <2>1. PICK at \in Stages : at = "annotate"
    BY DEF Stages
  <2>2. /\ StageOK(t) /\ db[p] \in Rows /\ task[t].marks \subseteq Marks /\ acked' \in [Paths -> SUBSET Marks]
        /\ db[p].hash <= contents /\ db[p].text <= contents
    BY <1>1, <1>2, Before, TaskFields DEF TypeOK, FileType
  <2>3. PICK row \in Rows : row = [db[p] EXCEPT !.marks = task[t].marks]
    BY <2>2 DEF Rows
  <2>4. /\ row.id = db[p].id /\ row.status = db[p].status /\ row.text = db[p].text /\ row.hash = db[p].hash
        /\ row.chunks = db[p].chunks /\ row.marks = task[t].marks /\ row.ann = db[p].ann
    BY <2>2, <2>3 DEF Rows
  <2>5. Execute(t, p, row) /\ Goto(t, at)
    BY <1>2, <1>4, <2>1, <2>3 DEF WriteHighlights, Row
  <2>6. StageOK(t)' /\ SamePhase(t, at)
    BY <1>1, <2>1, <2>2, <2>5, Going DEF StageOK, MarkOps, ToolOps, WatchOps, SamePhase
  <2>7. /\ Steps(t, p) /\ Active(t)' /\ MarkTask(t)' = MarkTask(t)
        /\ task'[t].op = task[t].op /\ task'[t].p = p /\ task'[t].id = task[t].id
        /\ task'[t].c = task[t].c /\ task'[t].at = at
        /\ task'["watch"] = task["watch"]
        /\ task'[t].m = task[t].m /\ task'[t].marks = task[t].marks
        /\ Queued(p)' = Queued(p) /\ file'[p] = file[p]
    BY <1>1, <1>2, <2>1, <2>2, <2>5, <2>6, GoesOn
  <2>8. db'[p] = row /\ acked'[p] = acked[p]
    BY <1>1, <2>3, <2>5, Executing
  <2>9. Annotating(t)' /\ Marked(t)' /\ Dirty(t)' /\ ~Working(t) /\ task'[t].at = "annotate" /\ task'[t].op \in MarkOps
    BY <1>1, <2>1, <2>7 DEF Annotating, Marked, Dirty, Working, MarkTask
  <2>10. ASSUME p \notin tainted
         PROVE  /\ row.id = 0 => row = NoRow
                /\ RowOfFile(row, p)
                /\ Queued(p)' => p \in BinaryPaths /\ row.status # "removed"
                /\ TaskInv(t)'
                /\ NothingToSee(p) => StepClaim(t)' /\ Settled(p)'
    <3>1. JobInv(t, p) /\ FollowInv(t) /\ StepInv(t) /\ MarkInv(t) /\ StillInv(p)
      BY <1>1, <1>2, <2>10, Before
    <3>2. row.id # 0 /\ db[p].id = task[t].id
      BY <1>1, <1>2, <1>4, <2>4, <3>1 DEF FollowInv, HasRow, Mine
    <3>3. RowOfFile(row, p)
      BY <2>4, <3>1 DEF StillInv, RowOfFile
    <3>4. FollowInv(t)'
      BY <1>1, <2>4, <2>7, <2>8, <2>9, <3>2 DEF FollowInv, Mine, Follows, HasRow, MarkOps
    <3>5. MarkInv(t)'
      BY <1>1, <1>2, <2>4, <2>7, <2>8, <2>9, <3>1 DEF MarkInv, Marked, Confirmed, MarkOps
    <3>6. StepInv(t)'
      BY <1>1, <1>2, <2>7, <2>9, <3>1 DEF StepInv, NotNewer, MarkOps, Indexing, WatchOps
    <3>7. StepClaim(t)'
      BY <2>9 DEF StepClaim, MarkOps, Indexing, WatchOps, Survives
    <3>8. NothingToSee(p) => Settled(p)'
      BY <2>4, <2>7, <2>8, <2>9, <3>1, SettledKept DEF JobInv
    <3> QED
      BY <2>4, <2>7, <3>1, <3>2, <3>3, <3>4, <3>5, <3>6, <3>7, <3>8 DEF TaskInv, StillInv
  <2>11. tainted \subseteq tainted'
    BY <2>5 DEF Execute
  <2> QED
    BY <1>1, <2>2, <2>3, <2>4, <2>5, <2>7, <2>8, <2>9, <2>10, <2>11, Statement
<1> QED
  BY <1>3, <1>4

(* The annotations of the chunks are written. *)
LEMMA AnnotateStep ==
    ASSUME Inv, NEW t \in Slots, Annotate(t)
    PROVE  Inv'
<1>1. /\ t \in Tasks /\ Active(t) /\ TypeOK /\ MarkTask(t) /\ task[t].at = "annotate" /\ task[t].op \in MarkOps
      /\ UNCHANGED <<file, contents, ids, recent, events, acked>>
  BY DEF Inv, Annotate, Active, Tasks, MarkTask, MarkOps, fileVars, noteVars
<1>2. PICK p \in Paths : p = task[t].p
  BY <1>1, TaskFields
<1>3. PICK at \in Stages : at = "commit"
  BY DEF Stages, IndexStages
<1>4. /\ StageOK(t) /\ db[p] \in Rows /\ task[t].marks \subseteq Marks /\ acked' \in [Paths -> SUBSET Marks]
      /\ db[p].hash <= contents /\ db[p].text <= contents
  BY <1>1, <1>2, Before, TaskFields DEF TypeOK, FileType
<1>5. PICK ann \in SUBSET Marks : ann = _recompute_chunks_for_doc(Row(t), task[t].marks)
  BY <1>4 DEF _recompute_chunks_for_doc
<1>6. PICK row \in Rows : row = IF Mine(t) THEN [db[p] EXCEPT !.ann = ann] ELSE db[p]
  BY <1>4 DEF Rows
<1>7. Mine(t) => /\ row.id = db[p].id /\ row.status = db[p].status /\ row.text = db[p].text /\ row.hash = db[p].hash
                 /\ row.chunks = db[p].chunks /\ row.marks = db[p].marks /\ row.ann = ann
  BY <1>4, <1>6 DEF Rows
<1>8. row.hash <= contents /\ row.text <= contents
  BY <1>4, <1>6, <1>7
<1>9. Execute(t, p, row) /\ Goto(t, at)
  BY <1>2, <1>3, <1>5, <1>6 DEF Annotate, Row
<1>10. StageOK(t)' /\ SamePhase(t, at)
  BY <1>1, <1>3, <1>4, <1>9, Going DEF StageOK, MarkOps, ToolOps, WatchOps, SamePhase
<1>11. /\ Steps(t, p) /\ Active(t)' /\ MarkTask(t)' = MarkTask(t)
       /\ task'[t].op = task[t].op /\ task'[t].p = p /\ task'[t].id = task[t].id
       /\ task'[t].c = task[t].c /\ task'[t].at = at
       /\ task'["watch"] = task["watch"]
       /\ task'[t].m = task[t].m /\ task'[t].marks = task[t].marks
       /\ Queued(p)' = Queued(p) /\ file'[p] = file[p]
  BY <1>1, <1>2, <1>4, <1>9, <1>10, GoesOn
<1>12. db'[p] = row /\ acked'[p] = acked[p]
  BY <1>1, <1>6, <1>9, Executing
<1>13. /\ Marked(t)' /\ Dirty(t)' /\ ~Working(t) /\ Marked(t) /\ task'[t].at = "commit" /\ task'[t].op \in MarkOps
       /\ MarkTask(t)'
  BY <1>1, <1>3, <1>11 DEF Marked, Dirty, Working, MarkTask
<1>14. ASSUME p \notin tainted
       PROVE  /\ row.id = 0 => row = NoRow
              /\ row.ann \subseteq row.marks
              /\ RowOfFile(row, p)
              /\ Queued(p)' => p \in BinaryPaths /\ row.status # "removed"
              /\ TaskInv(t)'
              /\ NothingToSee(p) => StepClaim(t)' /\ Settled(p)'
  <2>1. JobInv(t, p) /\ FollowInv(t) /\ StepInv(t) /\ MarkInv(t) /\ StillInv(p)
    BY <1>1, <1>2, <1>14, Before
  <2>2. Mine(t) /\ row.id # 0 /\ db[p].id = task[t].id
    BY <1>1, <1>2, <1>7, <2>1 DEF FollowInv, HasRow, Mine, Follows, MarkOps
  <2>3. row.ann \subseteq row.marks /\ row.marks = task[t].marks
    BY <1>1, <1>2, <1>5, <1>7, <1>13, <2>1, <2>2 DEF MarkInv, _recompute_chunks_for_doc
  <2>4. RowOfFile(row, p)
    BY <1>7, <2>1, <2>2 DEF StillInv, RowOfFile
  <2>5. FollowInv(t)'
    BY <1>1, <1>7, <1>11, <1>12, <1>13, <2>2 DEF FollowInv, Mine, Follows, HasRow, MarkOps
  <2>6. MarkInv(t)'
    BY <1>1, <1>2, <1>11, <1>12, <1>13, <2>1, <2>3 DEF MarkInv, Marked, Confirmed, MarkOps
  <2>7. StepInv(t)'
    BY <1>1, <1>2, <1>11, <1>13, <2>1 DEF StepInv, NotNewer, MarkOps, Indexing, WatchOps
  <2>8. StepClaim(t)'
    BY <1>13 DEF StepClaim, MarkOps, Indexing, WatchOps, Survives
  <2>9. NothingToSee(p) => Settled(p)'
    BY <1>7, <1>11, <1>12, <1>13, <2>1, <2>2, SettledKept DEF JobInv
  <2> QED
    BY <1>7, <1>11, <2>1, <2>2, <2>3, <2>4, <2>5, <2>6, <2>7, <2>8, <2>9 DEF TaskInv, StillInv
<1>15. tainted \subseteq tainted'
  BY <1>9 DEF Execute
<1> QED
  BY <1>1, <1>6, <1>8, <1>9, <1>11, <1>12, <1>13, <1>14, <1>15, Statement

(* A highlight is committed, and confirmed. *)
LEMMA CommitHighlightsStep ==
    ASSUME Inv, NEW t \in Slots, CommitHighlights(t)
    PROVE  Inv'
<1>1. /\ t \in Tasks /\ Active(t) /\ TypeOK /\ MarkTask(t) /\ task[t].at = "commit" /\ task[t].op \in MarkOps
      /\ Commit(t) /\ Done(t) /\ UNCHANGED <<file, contents, ids, recent, events>>
  BY DEF Inv, CommitHighlights, Active, Tasks, MarkTask, MarkOps, fileVars
<1>2. PICK p \in Paths : p = task[t].p
  BY <1>1, TaskFields
<1>3. acked \in [Paths -> SUBSET Marks] /\ task[t].m \in Marks
  BY <1>1, TaskFields DEF TypeOK, FileType
<1>4. acked' = IF ~Mine(t) THEN acked ELSE [acked EXCEPT ![p] = Confirmed(t)]
  BY <1>2, <1>3 DEF CommitHighlights, Confirmed
<1>5. Confirmed(t) \subseteq Marks
  BY <1>2, <1>3 DEF Confirmed
<1>6. /\ acked' \in [Paths -> SUBSET Marks] /\ \A q \in Paths \ {p} : acked'[q] = acked[q]
      /\ Mine(t) => acked'[p] = Confirmed(t)
  BY <1>3, <1>4, <1>5
<1>7. Steps(t, p) /\ ~Active(t)' /\ ~MarkTask(t)' /\ Queued(p)' = Queued(p) /\ task'["watch"] = task["watch"] /\ file'[p] = file[p]
  BY <1>1, <1>2, <1>6, Ends
<1>8. ~Annotating(t) /\ Marked(t) /\ ~Working(t)
  BY <1>1 DEF Annotating, Marked, Working
<1>9. ASSUME p \notin tainted
      PROVE  /\ acked'[p] \subseteq db[p].marks /\ db[p].ann \subseteq db[p].marks
             /\ NothingToSee(p) => Settled(p)'
  <2>1. JobInv(t, p) /\ FollowInv(t) /\ MarkInv(t)
    BY <1>1, <1>2, <1>9, Before
  <2>2. Mine(t)
    BY <1>1, <2>1 DEF FollowInv, Follows, MarkOps
  <2>3. acked'[p] \subseteq db[p].marks
    BY <1>1, <1>2, <1>6, <1>8, <2>1, <2>2 DEF MarkInv
  <2>4. Settled(p)' = Settled(p)
    BY <1>1, <1>7, SettledKept DEF Commit
  <2> QED
    BY <1>8, <2>1, <2>3, <2>4 DEF JobInv
<1>10. tainted \subseteq tainted'
  BY <1>1 DEF Commit
<1> QED
  BY <1>1, <1>7, <1>9, <1>10, Committing

--------------------------------------------------------------------------------
(* What a request or a tool does to the files. *)

(* A task writes its file, or removes it. *)
LEMMA Rewriting ==
    ASSUME Inv, NEW t \in Slots, Active(t), ~MarkTask(t), NEW p \in Paths, task[t].p = p, task[t].at = "file",
           NEW c \in {0, New}, c = 0 \/ MayWrite,
           file' = [file EXCEPT ![p] = c], contents' = IF c = 0 THEN contents ELSE c, Tell(p),
           recent' = recent \/ (Watched /\ recent' = [recent EXCEPT ![p] = c]),
           NEW j \in SlotJobs, task' = [task EXCEPT ![t] = j], j.p = p, j.c <= contents', j.at # "file",
           Survives(t) => j.op \in ToolOps,
           StageOK(t)',
           UNCHANGED <<db, committed, txn, ids, acked>>, tainted \subseteq tainted',
           p \notin tainted' => TaskInv(t)' /\ (NothingToSee(p)' => StepClaim(t)')
    PROVE  Inv'
<1>1. TypeOK /\ t \in Tasks /\ CountInv
  BY DEF Inv, Tasks
<1>2. /\ task'[t] = j /\ task'["watch"] = task["watch"] /\ TaskType'
      /\ \A u \in Tasks \ {t} : task'[u] = task[u]
  BY <1>1, Becoming, LocalAssumption DEF Tasks
<1>3. /\ Active(t)' /\ On(t, p)' /\ (Survives(t) => Survives(t)') /\ ~MarkTask(t)' /\ ~Marked(t)' /\ ~Annotating(t)'
      /\ ~Marked(t) /\ ~Annotating(t) /\ ~Dirty(t)
  BY <1>2 DEF SlotJobs, SlotOps, ToolOps, MarkOps, Active, On, Survives, MarkTask, Marked, Annotating, Dirty
<1>4. /\ contents \in Nat /\ contents' \in Nat /\ contents <= contents' /\ c \in Nat /\ c <= contents' /\ contents' <= MaxContents
      /\ c = 0 \/ contents < c
  BY <1>1, LocalAssumption DEF New, MayWrite, TypeOK, FileType, CountInv
<1>5. /\ file' \in [Paths -> Nat] /\ file'[p] = c /\ \A q \in Paths \ {p} : file'[q] = file[q]
      /\ recent' \in [Paths -> Nat] /\ recent'[p] \in {recent[p], c} /\ \A q \in Paths \ {p} : recent'[q] = recent[q]
      /\ events' \subseteq Paths /\ \A q \in Paths \ {p} : q \in events' <=> q \in events
  BY <1>1, <1>4 DEF TypeOK, FileType, Tell
<1>6. TypeOK'
  <2>1. FileType' /\ StoreType'
    BY <1>1, <1>4, <1>5 DEF TypeOK, FileType, StoreType
  <2> QED
    BY <1>1, <1>2, <2>1, OtherStages DEF TypeOK
<1>7. Acts(t)
  <2>1. MarkTask(t)' = MarkTask(t)
    BY <1>3 DEF MarkTask
  <2>2. OthersWait(t)
    BY <1>1, <1>2, EndingWait
  <2> QED
    BY <1>1, <1>2, <1>3, <1>5, <2>1, <2>2 DEF Acts, Leaves
<1>8. CountInv'
  <2>1. /\ file[p] <= contents /\ recent[p] \in Nat /\ (recent[p] <= contents \/ recent[p] = NotRecent)
        /\ db[p].hash <= contents /\ db[p].text <= contents /\ db[p].hash \in Nat /\ db[p].text \in Nat
    BY <1>1 DEF CountInv, TypeOK, FileType, StoreType, Rows
  <2>2. ~Watched => events' = events /\ recent' = recent
    BY DEF Tell
  <2>3. Active(t)' => task'[t].c <= contents'
    BY <1>2
  <2> QED
    BY <1>1, <1>4, <1>5, <1>6, <1>7, <2>1, <2>2, <2>3, ActsCount
<1>9. ASSUME p \notin tainted' PROVE JobInv(t, p)'
  <2>1. JobInv(t, p) /\ StillInv(p) /\ p \notin tainted
    BY <1>1, <1>9, Before
  <2>2. /\ db[p].hash \in Nat /\ db[p].text \in Nat /\ committed[p].hash \in Nat /\ committed[p].text \in Nat
        /\ db[p].hash <= contents /\ db[p].text <= contents /\ committed[p].hash <= contents /\ committed[p].text <= contents
    BY <1>1 DEF CountInv, TypeOK, StoreType, Rows
  <2>3. RowOfFile(db[p], p)' /\ RowOfFile(committed[p], p)'
    BY <1>4, <1>5, <2>1, <2>2 DEF StillInv, RowOfFile, NotNewer
  <2>4. Queued(p)' = Queued(p)
    BY <1>2 DEF Queued
  <2>5. StillInv(p)'
    BY <2>1, <2>3, <2>4 DEF StillInv, NoRow
  <2>6. Working(t)'
    BY <1>2, <1>3 DEF Working, StageOK, SlotJobs, SlotOps, ToolOps, XStages
  <2> QED
    BY <1>3, <1>9, <2>1, <2>5, <2>6 DEF JobInv
<1>10. \A q \in Paths \ tainted' : q = task[t].p => JobInv(t, q)'
  BY <1>9
<1> QED
  BY <1>1, <1>6, <1>7, <1>8, <1>10, ActsStep

(* The file of a content is written. *)
LEMMA WriteContentStep ==
    ASSUME Inv, NEW t \in Slots, WriteContent(t)
    PROVE  Inv'
<1>1. /\ t \in Tasks /\ Active(t) /\ TypeOK /\ task[t].op = "content" /\ task[t].at = "file" /\ MayWrite
      /\ UNCHANGED <<db, committed, txn, tainted, ids, acked>>
  BY DEF Inv, WriteContent, Is, Active, Tasks, NoStatement
<1>2. PICK p \in Paths : p = task[t].p
  BY <1>1, TaskFields
<1>3. AppWrites(p, New) /\ StageOK(t) /\ ~MarkTask(t) /\ ~Survives(t) /\ p \in TextPaths
  BY <1>1, <1>2 DEF WriteContent, TypeOK, MarkTask, MarkOps, Survives, StageOK
<1>4. Watched
  BY <1>1, <1>3 DEF Inv, AloneInv
<1>5. PICK c \in {0, New} : c = New
  OBVIOUS
<1>6. /\ c \in Nat /\ c # 0 /\ contents' = c /\ contents < c
      /\ file' = [file EXCEPT ![p] = c] /\ Tell(p) /\ recent' = [recent EXCEPT ![p] = c]
  BY <1>1, <1>3, <1>5 DEF AppWrites, New, TypeOK, FileType
<1>7. PICK at \in Stages : at = "row"
  BY DEF Stages, XStages, IndexStages
<1>8. task[t] \in SlotJobs
  BY <1>1, <1>3, SlotTask
<1>9. PICK j \in SlotJobs : j = [task[t] EXCEPT !.c = c, !.at = at]
  BY <1>6, <1>8 DEF SlotJobs
<1>10. /\ j.op = "content" /\ j.at = at /\ j.p = p /\ j.c = c /\ j.id = task[t].id
       /\ task' = [task EXCEPT ![t] = j]
  BY <1>1, <1>2, <1>5, <1>7, <1>8, <1>9 DEF SlotJobs, WriteContent
<1>11. task'[t] = j /\ file'[p] = c
  BY <1>1, <1>6, <1>9, <1>10, Becoming DEF TypeOK, FileType
<1>12. StageOK(t)' /\ at # "file"
  BY <1>1, <1>2, <1>3, <1>7, <1>10, <1>11 DEF StageOK, WatchOps, MarkOps, ToolOps, XStages
<1>13. ASSUME p \notin tainted PROVE TaskInv(t)' /\ StepClaim(t)'
  <2>1. FollowInv(t) /\ db[p].hash \in Nat /\ db[p].hash <= contents /\ contents \in Nat
    BY <1>1, <1>2, <1>13, Before DEF Rows, TypeOK, FileType
  <2>2. db[p].id = task[t].id /\ task[t].id # 0
    BY <1>1, <1>2, <2>1 DEF FollowInv, Follows, HasRow, Mine
  <2>3. /\ task'[t].op = "content" /\ task'[t].p = p /\ task'[t].c = c /\ task'[t].id = task[t].id /\ task'[t].at = at
        /\ ~Indexing(t)' /\ ~MarkTask(t)' /\ ~Survives(t)' /\ db'[p] = db[p] /\ file'[p] = c
    BY <1>1, <1>10, <1>11 DEF Indexing, WatchOps, MarkTask, MarkOps, Survives
  <2>4. FollowInv(t)'
    BY <1>7, <2>2, <2>3 DEF FollowInv, Mine, Follows, HasRow
  <2>5. MarkInv(t)'
    BY <1>7, <2>3 DEF MarkInv, Marked
  <2>6. StepInv(t)'
    BY <1>6, <1>7, <2>1, <2>3 DEF StepInv, NotNewer
  <2>7. StepClaim(t)'
    BY <1>6, <1>7, <2>3 DEF StepClaim, WatchOps
  <2> QED
    BY <2>4, <2>5, <2>6, <2>7 DEF TaskInv
<1>14. j.c <= contents' /\ (c = 0 \/ MayWrite)
  BY <1>1, <1>6, <1>10
<1>15. contents' = IF c = 0 THEN contents ELSE c
  BY <1>6
<1> QED
  BY <1>1, <1>2, <1>3, <1>4, <1>6, <1>9, <1>10, <1>12, <1>13, <1>14, <1>15, Rewriting

(* The file of an upload is written. *)
LEMMA WriteUploadStep ==
    ASSUME Inv, NEW t \in Slots, WriteUpload(t)
    PROVE  Inv'
<1>1. /\ t \in Tasks /\ Active(t) /\ TypeOK /\ task[t].op = "upload" /\ task[t].at = "file" /\ MayWrite
      /\ UNCHANGED <<db, committed, txn, tainted, ids, acked>>
  BY DEF Inv, WriteUpload, Is, Active, Tasks, NoStatement
<1>2. PICK p \in Paths : p = task[t].p
  BY <1>1, TaskFields
<1>3. AppWrites(p, New) /\ StageOK(t) /\ ~MarkTask(t) /\ ~Survives(t)
  BY <1>1, <1>2 DEF WriteUpload, TypeOK, MarkTask, MarkOps, Survives
<1>4. Watched
  BY <1>1, <1>3 DEF Inv, AloneInv
<1>5. PICK c \in {0, New} : c = New
  OBVIOUS
<1>6. /\ c \in Nat /\ c # 0 /\ contents' = c /\ contents < c
      /\ file' = [file EXCEPT ![p] = c] /\ Tell(p) /\ recent' = [recent EXCEPT ![p] = c]
  BY <1>1, <1>3, <1>5 DEF AppWrites, New, TypeOK, FileType
<1>7. PICK at \in Stages : at = IF task[t].id = 0 THEN "insert" ELSE "clear"
  BY DEF Stages, XStages, IndexStages
<1>8. task[t] \in SlotJobs
  BY <1>1, <1>3, SlotTask
<1>9. PICK j \in SlotJobs : j = [task[t] EXCEPT !.c = c, !.at = at]
  BY <1>6, <1>8 DEF SlotJobs
<1>10. /\ j.op = "upload" /\ j.at = at /\ j.p = p /\ j.c = c /\ j.id = task[t].id
       /\ task' = [task EXCEPT ![t] = j]
  BY <1>1, <1>2, <1>5, <1>7, <1>8, <1>9 DEF SlotJobs, WriteUpload
<1>11. task'[t] = j /\ file'[p] = c
  BY <1>1, <1>6, <1>9, <1>10, Becoming DEF TypeOK, FileType
<1>12. StageOK(t)' /\ at # "file"
  BY <1>1, <1>2, <1>3, <1>7, <1>10, <1>11 DEF StageOK, WatchOps, MarkOps, ToolOps, XStages
<1>13. ASSUME p \notin tainted PROVE TaskInv(t)' /\ StepClaim(t)'
  <2>1. FollowInv(t) /\ db[p].hash \in Nat /\ db[p].hash <= contents /\ contents \in Nat
    BY <1>1, <1>2, <1>13, Before DEF Rows, TypeOK, FileType
  <2>2. db[p].id = task[t].id
    BY <1>1, <1>2, <2>1 DEF FollowInv, Follows, HasRow, Mine
  <2>3. /\ task'[t].op = "upload" /\ task'[t].p = p /\ task'[t].c = c /\ task'[t].id = task[t].id /\ task'[t].at = at
        /\ ~Indexing(t)' /\ ~MarkTask(t)' /\ ~Survives(t)' /\ db'[p] = db[p] /\ file'[p] = c
    BY <1>1, <1>10, <1>11 DEF Indexing, WatchOps, MarkTask, MarkOps, Survives
  <2>4. FollowInv(t)'
    <3>1. (at = "insert" /\ task[t].id = 0) \/ (at = "clear" /\ task[t].id # 0)
      BY <1>7
    <3> QED
      BY <2>2, <2>3, <3>1 DEF FollowInv, Mine, Follows, HasRow, MarkOps
  <2>5. MarkInv(t)'
    BY <1>7, <2>3 DEF MarkInv, Marked
  <2>6. StepInv(t)'
    BY <1>6, <1>7, <2>1, <2>3 DEF StepInv, NotNewer
  <2>7. StepClaim(t)'
    BY <1>6, <1>7, <2>3 DEF StepClaim, WatchOps
  <2> QED
    BY <2>4, <2>5, <2>6, <2>7 DEF TaskInv
<1>14. j.c <= contents' /\ (c = 0 \/ MayWrite)
  BY <1>1, <1>6, <1>10
<1>15. contents' = IF c = 0 THEN contents ELSE c
  BY <1>6
<1> QED
  BY <1>1, <1>2, <1>3, <1>4, <1>6, <1>9, <1>10, <1>12, <1>13, <1>14, <1>15, Rewriting

(* The file of a document that is deleted is removed, if it is there. *)
LEMMA UnlinkStep ==
    ASSUME Inv, NEW t \in Slots, Unlink(t)
    PROVE  Inv'
<1>1. /\ t \in Tasks /\ Active(t) /\ TypeOK /\ task[t].op = "delete" /\ task[t].at = "file" /\ NoStatement
      /\ UNCHANGED <<db, committed, txn, tainted, ids, acked>>
  BY DEF Inv, Unlink, Is, Active, Tasks, NoStatement
<1>2. PICK p \in Paths : p = task[t].p
  BY <1>1, TaskFields
<1>3. /\ StageOK(t) /\ ~MarkTask(t) /\ ~Survives(t) /\ task[t].c <= contents /\ file[p] \in Nat
      /\ acked' \in [Paths -> SUBSET Marks]
  BY <1>1, <1>2, Before DEF TypeOK, FileType, MarkTask, MarkOps, Survives
<1>4. Watched
  BY <1>1, <1>3 DEF Inv, AloneInv
<1>5. PICK at \in Stages : at = "chunks"
  BY DEF Stages, XStages, IndexStages
<1>6. Goto(t, at)
  BY <1>5 DEF Unlink
<1>7. StageOK(t)' /\ SamePhase(t, at)
  BY <1>1, <1>3, <1>5, <1>6, Going DEF StageOK, MarkOps, ToolOps, WatchOps, XStages, SamePhase
<1>8. /\ task'[t].op = "delete" /\ task'[t].p = p /\ task'[t].c = task[t].c /\ task'[t].id = task[t].id
      /\ task'[t].at = "chunks" /\ db' = db
      /\ ~Indexing(t)' /\ ~MarkTask(t)' /\ ~Survives(t)' /\ Working(t)' /\ ~Dirty(t) /\ Active(t)'
      /\ MarkTask(t)' = MarkTask(t)
  <2>1. /\ task'[t].op = "delete" /\ task'[t].p = p /\ task'[t].c = task[t].c /\ task'[t].id = task[t].id
        /\ task'[t].at = "chunks"
    BY <1>1, <1>2, <1>5, <1>6, Going
  <2> QED
    BY <1>1, <1>3, <2>1 DEF Indexing, WatchOps, MarkTask, MarkOps, Survives, Working, Dirty, Active
<1>9. ASSUME p \notin tainted, file'[p] = 0 PROVE TaskInv(t)' /\ StepClaim(t)'
  <2>1. FollowInv(t)
    BY <1>1, <1>2, <1>9, Before
  <2>2. db[p].id = task[t].id /\ task[t].id # 0
    BY <1>1, <1>2, <2>1 DEF FollowInv, Follows, HasRow, Mine
  <2>3. FollowInv(t)'
    BY <1>8, <2>2 DEF FollowInv, Mine, Follows, HasRow
  <2>4. MarkInv(t)'
    BY <1>8 DEF MarkInv, Marked
  <2>5. StepInv(t)'
    BY <1>8, <1>9 DEF StepInv, NotNewer
  <2>6. StepClaim(t)'
    BY <1>8, <1>9 DEF StepClaim, WatchOps
  <2> QED
    BY <2>3, <2>4, <2>5, <2>6 DEF TaskInv
<1>10. CASE file[p] = 0
  <2>1. UNCHANGED <<file, contents, recent, events>>
    BY <1>2, <1>10 DEF Unlink, fileVars
  <2>2. Steps(t, p) /\ Queued(p)' = Queued(p)
    BY <1>1, <1>2, <1>3, <1>6, <1>7, <2>1, GoesOn
  <2>3. ~Annotating(t) /\ ~Annotating(t)' /\ ~Marked(t) /\ ~Marked(t)'
    BY <1>3, <1>8 DEF Annotating, Marked
  <2>4. p \notin tainted => db[p] = committed[p]
    BY <1>1, <1>2, <1>8, Before DEF JobInv
  <2>5. Annotating(t)' = Annotating(t) /\ Marked(t)' = Marked(t)
    BY <1>3, <1>8 DEF Annotating, Marked
  <2> QED
    BY <1>1, <1>8, <1>9, <1>10, <2>1, <2>2, <2>4, <2>5, Quiet
<1>11. CASE file[p] # 0
  <2>1. AppWrites(p, 0)
    BY <1>2, <1>11 DEF Unlink
  <2>2. PICK c \in {0, New} : c = 0
    OBVIOUS
  <2>3. /\ file' = [file EXCEPT ![p] = c] /\ contents' = contents /\ Tell(p) /\ recent' = [recent EXCEPT ![p] = c]
    BY <2>1, <2>2 DEF AppWrites
  <2>4. task[t] \in SlotJobs
    BY <1>1, <1>3, SlotTask
  <2>5. PICK j \in SlotJobs : j = [task[t] EXCEPT !.at = at]
    BY <2>4 DEF SlotJobs
  <2>6. /\ j.op = task[t].op /\ j.at = at /\ j.p = p /\ j.c = task[t].c
        /\ task' = [task EXCEPT ![t] = j]
    BY <1>1, <1>2, <1>6, <2>4, <2>5 DEF SlotJobs, Goto
  <2>7. file'[p] = 0
    BY <1>1, <2>2, <2>3 DEF TypeOK, FileType
  <2>8. contents' = (IF c = 0 THEN contents ELSE c) /\ j.c <= contents' /\ j.at # "file"
    BY <1>3, <1>5, <2>2, <2>3, <2>6
  <2> QED
    BY <1>1, <1>2, <1>3, <1>4, <1>7, <1>9, <2>2, <2>3, <2>5, <2>6, <2>7, <2>8, Rewriting
<1> QED
  BY <1>10, <1>11

--------------------------------------------------------------------------------
(* The tools of the MCP server. *)

(* The file of a document that a tool makes, changes or removes. *)
LEMMA ToolFileStep ==
    ASSUME Inv, NEW t \in Slots, ToolFile(t)
    PROVE  Inv'
<1>1. /\ t \in Tasks /\ Active(t) /\ TypeOK /\ Survives(t) /\ task[t].at = "file" /\ MayWrite
      /\ UNCHANGED <<db, committed, txn, ids, recent, acked>>
  BY DEF Inv, ToolFile, Active, Survives, Tasks, noteVars
<1>2. PICK p \in Paths : p = task[t].p
  BY <1>1, TaskFields
<1>3. PICK c \in Nat : c = IF task[t].op = "mcp delete" THEN 0 ELSE New
  <2>1. New \in Nat
    BY <1>1 DEF TypeOK, FileType, New
  <2> QED
    BY <2>1
<1>4. /\ file' = [file EXCEPT ![p] = c] /\ contents' = IF c = 0 THEN contents ELSE c
      /\ Tell(p) /\ tainted' = tainted \cup Unseen(p, c)
  BY <1>2, <1>3 DEF ToolFile
<1>5. c <= contents' /\ (c = 0 \/ contents < c) /\ contents \in Nat /\ StageOK(t) /\ contents < New
  <2>1. contents \in Nat /\ StageOK(t) /\ New = contents + 1
    BY <1>1 DEF TypeOK, FileType, New
  <2>2. c = 0 \/ c = New
    BY <1>3
  <2>3. contents' = IF c = 0 THEN contents ELSE c
    BY <1>4
  <2> QED
    BY <2>1, <2>2, <2>3
<1>6. PICK at \in Stages : at = "row"
  BY DEF Stages, IndexStages
<1>7. task[t] \in SlotJobs /\ ~MarkTask(t)
  BY <1>1, SlotTask DEF Survives, MarkTask, MarkOps
<1>8. PICK j \in SlotJobs : j = [task[t] EXCEPT !.c = c, !.at = at]
  BY <1>5, <1>7 DEF SlotJobs
<1>9. /\ j.op = task[t].op /\ j.at = at /\ j.p = p /\ j.c = c /\ j.id = task[t].id
      /\ task' = [task EXCEPT ![t] = j] /\ (Survives(t) => j.op \in ToolOps)
  BY <1>1, <1>2, <1>3, <1>6, <1>7, <1>8 DEF SlotJobs, ToolFile, Survives, ToolOps
<1>10. task'[t] = j /\ file'[p] = c
  BY <1>1, <1>4, <1>5, <1>8, <1>9, Becoming DEF TypeOK, FileType
<1>11. StageOK(t)' /\ at # "file"
  BY <1>1, <1>2, <1>5, <1>6, <1>9, <1>10 DEF StageOK, WatchOps, MarkOps, ToolOps, XStages
<1>12. ASSUME p \notin tainted' PROVE TaskInv(t)' /\ ~NothingToSee(p)'
  <2>1. FollowInv(t) /\ db[p].hash \in Nat /\ db[p].hash <= contents
    BY <1>1, <1>2, <1>4, <1>12, Before DEF Rows, TypeOK, FileType
  <2>2. /\ task'[t].op = task[t].op /\ task'[t].p = p /\ task'[t].c = c /\ task'[t].id = task[t].id /\ task'[t].at = "row"
        /\ ~Indexing(t)' /\ ~MarkTask(t)' /\ db'[p] = db[p] /\ file'[p] = c
    BY <1>1, <1>6, <1>9, <1>10 DEF Indexing, WatchOps, MarkTask, MarkOps, Survives
  <2>3. FollowInv(t)'
    BY <1>1, <1>2, <2>1, <2>2 DEF FollowInv, Mine, Follows, HasRow, Survives, MarkOps
  <2>4. MarkInv(t)'
    BY <1>1, <2>2 DEF MarkInv, Marked, Survives
  <2>5. StepInv(t)'
    <3>1. ASSUME task[t].op = "mcp edit" PROVE c # 0 /\ db[p].hash < c
      <4>1. c = New
        BY <1>3, <3>1
      <4> QED
        BY <1>5, <2>1, <4>1
    <3>2. NotNewer(c, p)'
      BY <2>2 DEF NotNewer
    <3> QED
      BY <1>1, <2>2, <3>1, <3>2 DEF StepInv, Survives
  <2>6. Watched /\ c # recent[p]
    <3>1. Watched
      BY <1>1, <1>2, <1>4, <1>12 DEF Inv, AloneInv
    <3> QED
      BY <1>4, <1>12, <3>1 DEF Unseen
  <2>7. ~NothingToSee(p)'
    BY <1>1, <1>4, <2>2, <2>6 DEF NothingToSee, Tell
  <2> QED
    BY <2>3, <2>4, <2>5, <2>7 DEF TaskInv
<1>13. j.c <= contents' /\ tainted \subseteq tainted' /\ c \in {0, New}
  BY <1>3, <1>4, <1>5, <1>9
<1> QED
  BY <1>1, <1>2, <1>4, <1>7, <1>8, <1>9, <1>11, <1>12, <1>13, Rewriting

(* A tool that finds the database locked. *)
LEMMA ToolLockedStep ==
    ASSUME Inv, NEW t \in Slots, ToolLocked(t)
    PROVE  Inv'
<1>1. /\ t \in Tasks /\ Active(t) /\ TypeOK /\ Survives(t) /\ task[t].at = "row" /\ Done(t) /\ NoStatement
      /\ UNCHANGED <<file, contents, ids, recent, events, acked>>
  BY DEF Inv, ToolLocked, Active, Survives, Tasks, fileVars, noteVars
<1>2. PICK p \in Paths : p = task[t].p
  BY <1>1, TaskFields
<1>3. acked' \in [Paths -> SUBSET Marks]
  BY <1>1 DEF TypeOK, FileType
<1>4. Steps(t, p) /\ ~Active(t)' /\ ~MarkTask(t)' /\ Queued(p)' = Queued(p)
  BY <1>1, <1>2, <1>3, Ends
<1>5. ~MarkTask(t) /\ ~Dirty(t)
  BY <1>1 DEF MarkTask, MarkOps, Survives, Dirty
<1>6. MarkTask(t)' = MarkTask(t) /\ Annotating(t)' = Annotating(t) /\ Marked(t)' = Marked(t)
  BY <1>4, <1>5 DEF MarkTask, Annotating, Marked
<1>7. p \notin tainted => db[p] = committed[p] /\ ~NothingToSee(p)
  BY <1>1, <1>2, <1>5, Before DEF JobInv, StepClaim
<1> QED
  BY <1>1, <1>4, <1>6, <1>7, Quiet

(* The transaction of a tool. *)
LEMMA ToolTransactionStep ==
    ASSUME Inv, NEW t \in Slots, ToolTransaction(t)
    PROVE  Inv'
<1>1. /\ t \in Tasks /\ Active(t) /\ TypeOK /\ Survives(t) /\ task[t].at = "row" /\ Done(t) /\ txn = "none"
      /\ UNCHANGED <<txn, tainted, file, contents, recent, events>>
  BY DEF Inv, ToolTransaction, Active, Survives, Tasks, fileVars
<1>2. PICK p \in Paths : p = task[t].p
  BY <1>1, TaskFields
<1>3. /\ StageOK(t) /\ task[t].c \in Nat /\ task[t].c <= contents /\ contents \in Nat /\ ids \in Nat /\ db[p] \in Rows
      /\ db[p].hash <= contents /\ db[p].text <= contents /\ p \in TextPaths /\ p \notin BinaryPaths
      /\ acked \in [Paths -> SUBSET Marks] /\ db \in [Paths -> Rows] /\ db = committed
      /\ p \notin tainted => StillInv(p) /\ FollowInv(t) /\ StepInv(t) /\ JobInv(t, p) /\ ~NothingToSee(p)
  <2>1. StageOK(t) /\ p \in TextPaths
    BY <1>1, <1>2, Before DEF StageOK, Survives, ToolOps
  <2>2. p \notin tainted => StepClaim(t) \/ ~NothingToSee(p)
    BY <1>1, <1>2, Before
  <2> QED
    BY <1>1, <1>2, <2>1, <2>2, Before DEF TypeOK, FileType, StoreType, Inv, TxnInv, StepClaim
<1>4. PICK row : row =
        CASE task[t].op = "mcp edit" /\ Mine(t) -> [db[p] EXCEPT !.text = task[t].c, !.chunks = task[t].c, !.ann = {}]
          [] task[t].op = "mcp delete" /\ Mine(t) -> Deleted
          [] task[t].op = "mcp create" /\ db[p].id = 0 /\ ids < MaxIds ->
               [NoRow EXCEPT !.id = ids + 1, !.status = "ready", !.text = task[t].c, !.chunks = task[t].c]
          [] OTHER -> db[p]
  OBVIOUS
<1>5. /\ db' = [db EXCEPT ![p] = row] /\ committed' = db' /\ ids' = IF row.id > ids THEN ids + 1 ELSE ids
      /\ acked' = IF row.id # db[p].id THEN [acked EXCEPT ![p] = {}] ELSE acked
  BY <1>2, <1>4 DEF ToolTransaction
<1>6. /\ row \in Rows /\ row.hash <= contents /\ row.text <= contents
      /\ p \notin tainted => /\ row.id = 0 => row = NoRow
                             /\ RowOfFile(row, p)
                             /\ row.ann \subseteq row.marks
                             /\ row.id = db[p].id => row.marks = db[p].marks
  <2>1. NoRow \in Rows /\ NoRow.hash = 0 /\ NoRow.text = 0 /\ NoRow.id = 0 /\ NoRow.ann = {}
    BY DEF NoRow, Rows, Statuses
  <2>2. CASE task[t].op = "mcp edit" /\ Mine(t)
    <3>1. row = [db[p] EXCEPT !.text = task[t].c, !.chunks = task[t].c, !.ann = {}]
      BY <1>4, <2>2
    <3>2. /\ row \in Rows /\ row.id = db[p].id /\ row.hash = db[p].hash /\ row.text = task[t].c /\ row.chunks = task[t].c
          /\ row.ann = {} /\ row.marks = db[p].marks /\ row.status = db[p].status /\ row.hash \in Nat
      BY <1>3, <3>1 DEF Rows
    <3>3. p \notin tainted => row.id # 0 /\ NotNewer(task[t].c, p) /\ task[t].c # 0 /\ row.hash < task[t].c
      BY <1>1, <1>2, <1>3, <2>2, <3>2 DEF FollowInv, HasRow, StepInv, Mine
    <3>4. p \notin tainted => RowOfFile(row, p)
      <4>1. file[p] \in Nat
        BY <1>1 DEF TypeOK, FileType
      <4> QED
        BY <1>3, <3>2, <3>3, <4>1 DEF RowOfFile, NotNewer
    <3> QED
      BY <1>3, <3>2, <3>3, <3>4
  <2>3. CASE task[t].op = "mcp delete" /\ Mine(t)
    <3>1. row = NoRow
      BY <1>4, <2>3 DEF Deleted
    <3>2. p \notin tainted => db[p].id # 0
      BY <1>2, <1>3, <2>3 DEF FollowInv, HasRow, Mine
    <3>3. RowOfFile(NoRow, p)
      BY <1>1, <1>3 DEF RowOfFile, NotNewer, NoRow, TypeOK, FileType
    <3> QED
      BY <1>3, <2>1, <3>1, <3>2, <3>3
  <2>4. CASE task[t].op = "mcp create" /\ db[p].id = 0 /\ ids < MaxIds
    <3>1. row = [NoRow EXCEPT !.id = ids + 1, !.status = "ready", !.text = task[t].c, !.chunks = task[t].c]
      BY <1>4, <2>4
    <3>2. PICK new \in Nat : new = ids + 1 /\ new # 0
      BY <1>3
    <3>3. PICK st \in Statuses : st = "ready"
      BY DEF Statuses
    <3>4. row = [NoRow EXCEPT !.id = new, !.status = st, !.text = task[t].c, !.chunks = task[t].c]
      BY <3>1, <3>2, <3>3
    <3>5. /\ row \in Rows /\ row.id = new /\ row.hash = 0 /\ row.text = task[t].c /\ row.ann = {} /\ row.status = st
      BY <1>3, <3>4 DEF Rows, NoRow
    <3>6. p \notin tainted => NotNewer(task[t].c, p)
      BY <1>1, <1>2, <1>3 DEF StepInv, Survives
    <3>7. p \notin tainted => RowOfFile(row, p)
      BY <1>1, <1>3, <3>5, <3>6, <3>3 DEF RowOfFile, NotNewer, TypeOK, FileType
    <3>8. row.id # 0 /\ row.id # db[p].id
      BY <2>4, <3>2, <3>5
    <3> QED
      BY <1>3, <3>5, <3>7, <3>8
  <2>5. CASE row = db[p]
    <3>1. p \notin tainted => db[p].ann \subseteq db[p].marks
      BY <1>1, <1>3 DEF JobInv, Annotating, MarkTask, MarkOps, Survives
    <3> QED
      BY <1>3, <2>5, <3>1 DEF StillInv
  <2> QED
    BY <1>4, <2>2, <2>3, <2>4, <2>5
<1>7. /\ db'[p] = row /\ committed'[p] = row /\ \A q \in Paths \ {p} : db'[q] = db[q]
      /\ acked' \in [Paths -> SUBSET Marks] /\ \A q \in Paths \ {p} : acked'[q] = acked[q]
      /\ acked'[p] \subseteq acked[p] /\ (row.id # db[p].id => acked'[p] = {})
  BY <1>3, <1>5
<1>8. StoreType' /\ ids' \in Nat
  <2>1. row.id \in Nat
    BY <1>6 DEF Rows
  <2>2. db' \in [Paths -> Rows]
    BY <1>3, <1>5, <1>6
  <2> QED
    BY <1>1, <1>3, <1>5, <2>1, <2>2 DEF StoreType, TypeOK
<1>9. UNCHANGED <<contents, file, recent, events>>
  BY <1>1
<1>10. TaskType' /\ (\A u \in Tasks \ {t} : task'[u] = task[u]) /\ ~Active(t)' /\ task'[t] = Idle
  BY <1>1, Ending
<1>11. StageOK(t)' /\ ~MarkTask(t)' /\ ~MarkTask(t) /\ ~Marked(t) /\ task'["watch"] = task["watch"]
  <2>1. task'[t].op = "idle"
    BY <1>10 DEF Idle
  <2>2. StageOK(t)' /\ ~MarkTask(t)'
    BY <2>1 DEF StageOK, WatchOps, MarkOps, ToolOps, MarkTask
  <2>3. ~MarkTask(t) /\ ~Marked(t)
    BY <1>1 DEF Survives, MarkTask, Marked, MarkOps
  <2>4. task'["watch"] = task["watch"]
    BY <1>1, <1>10, LocalAssumption DEF Tasks
  <2> QED
    BY <2>2, <2>3, <2>4
<1>12. Steps(t, p)
  BY <1>1, <1>2, <1>7, <1>8, <1>9, <1>10, <1>11, EndingWait DEF Steps
<1>13. Transacts(t)
  BY <1>1, <1>2, <1>5, <1>7, <1>11 DEF Transacts
<1>14. ASSUME p \notin tainted' PROVE JobInv(t, p)'
  <2>1. p \notin tainted /\ ~NothingToSee(p)' /\ ~On(t, p)'
    BY <1>1, <1>3, <1>10, <1>12, <1>14, StepsSee DEF On
  <2>2. acked'[p] \subseteq row.marks
    BY <1>3, <1>6, <1>7, <1>11, <2>1 DEF JobInv
  <2>3. RowOfFile(row, p)' /\ RowOfFile(committed[p], p)'
    BY <1>6, <1>7, <1>9, <2>1 DEF RowOfFile, NotNewer
  <2>4. Queued(p)' => Queued(p)
    BY <1>11 DEF Queued
  <2>5. RowOfFile(db[p], p)'
    BY <1>7, <2>3 DEF RowOfFile, NotNewer
  <2>6. StillInv(p)'
    BY <1>3, <1>6, <1>7, <2>1, <2>2, <2>3, <2>4, <2>5 DEF StillInv, NoRow
  <2> QED
    BY <1>6, <1>7, <2>1, <2>2, <2>6 DEF JobInv
<1>15. db'[p].hash <= contents /\ db'[p].text <= contents
  BY <1>6, <1>7
<1> QED
  BY <1>1, <1>8, <1>12, <1>13, <1>14, <1>15, StepsAct

--------------------------------------------------------------------------------
(* The starts of requests and tools. *)

\* The jobs for a document that is there, and for one that is not.
ForRow == MarkOps \cup {"content", "mcp edit", "mcp delete", "delete"}
ForNoRow == {"mcp create"}

(* A coroutine takes up the job j at a document. *)
LEMMA Starting ==
    ASSUME Inv, NEW t \in Slots, ~Active(t), NEW p \in Paths,
           NEW j \in SlotJobs \cup MarkJobs, task' = [task EXCEPT ![t] = j], j.p = p, j.c = 0,
           (j.op \in SlotOps \ {"extract"} /\ j.at = "file") \/ (j.op \in MarkOps /\ j.at = "read"),
           j.op \in ToolOps \cup {"content"} => p \in TextPaths,
           Watched \/ (j.op \in ToolOps /\ p \in tainted'),
           (txn' = txn /\ j.op \notin MarkOps) \/ (j.op \in MarkOps /\ txn = "none" /\ txn' = t),
           UNCHANGED <<file, db, committed, contents, ids, recent, events, acked>>, tainted \subseteq tainted',
           p \notin tainted' => \A u \in OthersOn(t, p) : MarkTask(u) /\ j.op \in MarkOps,
           db[p] = committed[p] =>
              /\ j.id = db[p].id
              /\ j.op \in ForRow => j.id # 0
              /\ j.op \in ForNoRow => j.id = 0
    PROVE  Inv'
<1>1. TypeOK /\ t \in Tasks /\ CountInv /\ TxnInv /\ AloneInv
  BY DEF Inv, Tasks
<1>2. /\ task'[t] = j /\ task'["watch"] = task["watch"] /\ TaskType'
      /\ \A u \in Tasks \ {t} : task'[u] = task[u]
  <2>1. j \in {Idle} \cup SlotJobs \cup MarkJobs
    OBVIOUS
  <2>2. task'[t] = j /\ TaskType' /\ \A u \in Tasks \ {t} : task'[u] = task[u]
    BY <1>1, <2>1, Becoming
  <2> QED
    BY <2>2, LocalAssumption DEF Tasks
<1>3. /\ \A u \in Tasks \ {t} : (Active(u)' <=> Active(u)) /\ (MarkTask(u)' <=> MarkTask(u)) /\ (Survives(u)' <=> Survives(u))
      /\ \A u \in Tasks \ {t}, q \in Paths : On(u, q)' <=> On(u, q)
      /\ \A q \in Paths : ~On(t, q) /\ (On(t, q)' => q = p)
      /\ Watched' <=> Watched
      /\ MarkTask(t)' <=> j.op \in MarkOps
  BY <1>1, <1>2 DEF Active, MarkTask, Survives, On, Watched
<1>4. TypeOK'
  <2>1. StageOK(t)'
    BY <1>2 DEF StageOK, SlotOps, ToolOps, WatchOps, MarkOps, XStages
  <2>2. StoreType' /\ FileType'
    BY <1>1 DEF TypeOK, StoreType, FileType
  <2> QED
    BY <1>1, <1>2, <2>1, <2>2, OtherStages DEF TypeOK
<1>5. CountInv'
  <2>1. contents \in Nat
    BY <1>1 DEF TypeOK, FileType
  <2>2. \A u \in Tasks : Active(u)' => task'[u].c <= contents
    <3>1. ASSUME NEW u \in Tasks, Active(u)', u # t PROVE task'[u].c <= contents
      BY <1>1, <1>2, <1>3, <3>1 DEF CountInv
    <3>2. task'[t].c <= contents
      BY <1>2, <2>1
    <3> QED
      BY <3>1, <3>2
  <2> QED
    BY <1>1, <1>3, <2>2 DEF CountInv
<1>6. ASSUME p \notin tainted', NEW u \in Tasks \ {t} PROVE ~On(u, p)
  <2>1. CASE MarkTask(u) /\ j.op \in MarkOps /\ On(u, p)
    <3>1. u \in Slots /\ task[u].p \notin tainted
      BY <1>1, <1>6, <2>1, TaskFields DEF On
    <3> QED
      BY <1>1, <2>1, <3>1, LocalAssumption DEF TxnInv, MarkOps
  <2> QED
    BY <1>6, <2>1 DEF OthersOn, On
<1>7. AloneInv'
  <2>1. ASSUME NEW q \in Paths \ tainted', NEW u \in Tasks, NEW v \in Tasks, On(u, q)', On(v, q)' PROVE u = v
    <3>1. CASE q = p
      BY <1>3, <1>6, <2>1, <3>1
    <3>2. CASE q # p
      <4>1. u # t /\ v # t /\ On(u, q) /\ On(v, q) /\ q \notin tainted
        BY <1>3, <2>1, <3>2
      <4> QED
        BY <1>1, <4>1 DEF AloneInv
    <3> QED
      BY <3>1, <3>2
  <2>2. ASSUME ~Watched', NEW u \in Slots, Active(u)' PROVE Survives(u)' /\ task'[u].p \in tainted'
    <3>1. CASE u = t
      BY <1>2, <1>3, <2>2, <3>1 DEF Survives, ToolOps
    <3>2. CASE u # t
      BY <1>1, <1>2, <1>3, <2>2, <3>2 DEF AloneInv, Tasks
    <3> QED
      BY <3>1, <3>2
  <2> QED
    BY <2>1, <2>2 DEF AloneInv
<1>8. TxnInv'
  <2>1. "none" \notin Tasks
    BY LocalAssumption DEF Tasks
  <2>2. CASE txn' = txn /\ j.op \notin MarkOps
    <3>1. ~MarkTask(t) /\ ~MarkTask(t)'
      BY <1>3, <2>2 DEF MarkTask, MarkOps, Active
    <3>2. \A u \in Slots : MarkTask(u)' => MarkTask(u) /\ task'[u] = task[u]
      BY <1>2, <1>3, <3>1 DEF Tasks
    <3>3. txn \in Tasks => txn \in Slots /\ MarkTask(txn)' /\ task'[txn] = task[txn]
      BY <1>1, <1>2, <1>3, <3>1 DEF TxnInv
    <3> QED
      BY <1>1, <2>2, <3>2, <3>3 DEF TxnInv
  <2>3. CASE j.op \in MarkOps /\ txn = "none" /\ txn' = t
    BY <1>1, <1>2, <1>3, <2>1, <2>3 DEF TxnInv, Tasks
  <2> QED
    BY <2>2, <2>3
<1>9. ASSUME NEW q \in Paths \ tainted', q # p PROVE PathInv(q)'
  <2>1. PathInv(q) /\ q \notin tainted
    BY DEF Inv
  <2>2. \A u \in Tasks : (On(u, q)' => On(u, q) /\ task'[u] = task[u]) /\ (On(u, q) => On(u, q)')
    BY <1>2, <1>3, <1>9
  <2>3. Queued(q)' = Queued(q) /\ NothingToSee(q)' = NothingToSee(q) /\ Settled(q)' = Settled(q)
    BY <1>2, SettledKept DEF Queued, NothingToSee, Watched
  <2>4. Queued(q)' => q \in BinaryPaths /\ db[q].status # "removed"
    BY <2>1, <2>3 DEF PathInv, StillInv
  <2> QED
    BY <1>9, <2>1, <2>2, <2>3, <2>4, Frame
<1>10. ASSUME p \notin tainted' PROVE PathInv(p)'
  <2>1. PathInv(p) /\ p \notin tainted /\ \A u \in Tasks : ~On(u, p)
    BY <1>3, <1>6, <1>10 DEF Inv
  <2>2. /\ StillInv(p) /\ db[p] = committed[p] /\ db[p].ann \subseteq db[p].marks /\ acked[p] \subseteq db[p].marks
        /\ NothingToSee(p) => Settled(p)
    BY <2>1 DEF PathInv
  <2>3. Queued(p)' = Queued(p) /\ NothingToSee(p)' = NothingToSee(p) /\ Settled(p)' = Settled(p)
    BY <1>2, SettledKept DEF Queued, NothingToSee, Watched
  <2>4. RowOfFile(db[p], p)' /\ RowOfFile(committed[p], p)'
    BY <2>2 DEF StillInv, RowOfFile, NotNewer
  <2>5. StillInv(p)'
    BY <2>2, <2>3, <2>4 DEF StillInv, NoRow
  <2>6. /\ task'[t].p = p /\ task'[t].c = 0 /\ task'[t].id = db[p].id /\ db' = db /\ On(t, p)'
        /\ (task'[t].op \in SlotOps \ {"extract"} /\ task'[t].at = "file") \/ (task'[t].op \in MarkOps /\ task'[t].at = "read")
        /\ task'[t].op \in ForRow => task'[t].id # 0
        /\ task'[t].op \in ForNoRow => task'[t].id = 0
    BY <1>2, <2>2 DEF On, Active, SlotOps, ToolOps, MarkOps
  <2>7. FollowInv(t)'
    BY <2>6 DEF FollowInv, Mine, Follows, HasRow, Indexing, WatchOps, SlotOps, ToolOps, MarkOps, ForRow, ForNoRow
  <2>8. MarkInv(t)'
    BY <2>6 DEF MarkInv, Marked, MarkTask, MarkOps, SlotOps, ToolOps
  <2>9. StepInv(t)'
    <3>1. NotNewer(0, p)'
      <4>1. file'[p] = file[p] /\ file[p] \in Nat
        BY <1>1 DEF TypeOK, FileType
      <4> QED
        BY <4>1, 0 <= file[p] DEF NotNewer
    <3> QED
      BY <2>6, <3>1 DEF StepInv, Indexing, WatchOps, SlotOps, ToolOps, MarkOps
  <2>10. StepClaim(t)'
    BY <2>6 DEF StepClaim, Indexing, WatchOps, SlotOps, ToolOps, MarkOps, Survives
  <2>11. /\ \A u \in Tasks : On(u, p)' => u = t
         /\ ~Dirty(t)' /\ ~Annotating(t)' /\ ~Marked(t)'
    BY <1>3, <2>1, <2>6 DEF Dirty, Annotating, Marked, MarkTask, MarkOps, SlotOps, ToolOps
  <2>12. JobInv(t, p)'
    BY <2>2, <2>3, <2>5, <2>6, <2>7, <2>8, <2>9, <2>10, <2>11 DEF JobInv, TaskInv
  <2> QED
    BY <1>1, <2>11, <2>12, OnlyOneAfter
<1>11. QueueInv'
  BY <1>2 DEF Inv, QueueInv, Queued
<1> QED
  BY <1>4, <1>5, <1>7, <1>8, <1>9, <1>10, <1>11 DEF Inv

(* Each of the starts. *)
LEMMA StartsStep ==
    ASSUME Inv, NEW t \in Slots, NEW p \in Paths, Starts(t, p)
    PROVE  Inv'
<1>1. TypeOK /\ db[p] \in Rows /\ committed[p] \in Rows
  BY DEF Inv, TypeOK, StoreType
<1>2. PICK at \in Stages : at = "file"
  BY DEF Stages
<1>3. ASSUME NEW op \in SlotOps, NEW id \in Nat
      PROVE  /\ Job(op, p, id, at) \in SlotJobs
             /\ Job(op, p, id, at).op = op /\ Job(op, p, id, at).p = p /\ Job(op, p, id, at).c = 0
             /\ Job(op, p, id, at).id = id /\ Job(op, p, id, at).at = at
  BY DEF Job, SlotJobs
<1>4. \A op : p \notin tainted \cup Overlap(t, op, p) => \A u \in OthersOn(t, p) : MarkTask(u) /\ op \in MarkOps
  BY DEF Overlap, MarkTask
<1>5. ASSUME NEW op \in {"content", "upload", "delete"}, Begin(t, Job(op, p, db[p].id, at)),
             UNCHANGED <<storeVars, events, noteVars>>, op = "content" => p \in TextPaths,
             op \in {"content", "delete"} => db[p].id # 0
      PROVE  Inv'
  <2>1. Job(op, p, db[p].id, at).op = op /\ Job(op, p, db[p].id, at).p = p
    BY DEF Job
  <2>2. /\ ~Active(t) /\ Watched /\ task' = [task EXCEPT ![t] = Job(op, p, db[p].id, at)]
        /\ tainted' = tainted \cup Overlap(t, op, p)
    BY <1>5, <2>1 DEF Begin
  <2>3. PICK i \in Nat : i = db[p].id
    BY <1>1 DEF Rows
  <2>4. op \in SlotOps \ {"extract"}
    BY DEF SlotOps
  <2>5. PICK j \in SlotJobs : /\ task' = [task EXCEPT ![t] = j] /\ j.p = p /\ j.c = 0 /\ j.op = op /\ j.id = i
                              /\ j.at = at
    <3>1. PICK j \in SlotJobs : j = Job(op, p, i, at)
      BY <1>3, <2>3, <2>4
    <3>2. j.p = p /\ j.c = 0 /\ j.op = op /\ j.id = i /\ j.at = at
      BY <1>3, <2>3, <2>4, <3>1
    <3>3. task' = [task EXCEPT ![t] = j]
      BY <2>2, <2>3, <3>1
    <3> QED
      BY <3>2, <3>3
  <2>6. /\ (j.op \in SlotOps \ {"extract"} /\ j.at = "file") /\ j.op \notin MarkOps
        /\ j.op \in ToolOps \cup {"content"} => p \in TextPaths
        /\ j.op \in ForRow => j.id # 0
        /\ j.op \notin ForNoRow /\ j.id = db[p].id
    BY <1>2, <1>5, <2>3, <2>4, <2>5 DEF MarkOps, ToolOps, ForRow, ForNoRow
  <2>7. p \notin tainted' => \A u \in OthersOn(t, p) : MarkTask(u) /\ j.op \in MarkOps
    BY <1>4, <2>2, <2>5
  <2> QED
    BY <1>5, <2>2, <2>5, <2>6, <2>7, Starting DEF storeVars, noteVars
<1>6. ASSUME NEW op \in ToolOps, p \in TextPaths, BeginTool(t, op, p) PROVE Inv'
  <2>1. task' = [task EXCEPT ![t] = Job(op, p, committed[p].id, at)]
    BY <1>2, <1>6 DEF BeginTool
  <2>2. PICK i \in Nat : i = committed[p].id
    BY <1>1 DEF Rows
  <2>3. op \in SlotOps \ {"extract"} /\ op \in ToolOps /\ op \notin MarkOps
    BY DEF SlotOps, ToolOps, MarkOps
  <2>4. PICK j \in SlotJobs : /\ task' = [task EXCEPT ![t] = j] /\ j.p = p /\ j.c = 0 /\ j.op = op /\ j.id = i
                              /\ j.at = at
    <3>1. op \in SlotOps
      BY <2>3
    <3>2. PICK j \in SlotJobs : j = Job(op, p, i, at)
      BY <1>3, <3>1
    <3>3. j.p = p /\ j.c = 0 /\ j.op = op /\ j.id = i /\ j.at = at
      BY <1>3, <2>2, <3>1, <3>2
    <3>4. task' = [task EXCEPT ![t] = j]
      BY <2>1, <2>2, <3>2
    <3> QED
      BY <3>3, <3>4
  <2>5. /\ (j.op \in SlotOps \ {"extract"} /\ j.at = "file") /\ j.op \notin MarkOps /\ j.op \in ToolOps
        /\ op = "mcp create" \/ i # 0
        /\ op # "mcp create" \/ i = 0
    BY <1>2, <1>6, <2>2, <2>3, <2>4 DEF BeginTool
  <2>6. j.op \in ForRow => j.id # 0
    BY <2>4, <2>5 DEF ForRow, MarkOps
  <2>7. j.op \in ForNoRow => j.id = 0
    BY <2>4, <2>5 DEF ForNoRow
  <2>8. /\ tainted' = tainted \cup IF Watched THEN Overlap(t, op, p) ELSE {p}
        /\ ~Active(t) /\ UNCHANGED <<file, db, committed, txn, contents, ids, recent, events, acked>>
    BY <1>6 DEF BeginTool, noteVars
  <2>9. /\ Watched \/ p \in tainted'
        /\ p \notin tainted' => \A u \in OthersOn(t, p) : MarkTask(u) /\ j.op \in MarkOps
    BY <1>4, <2>4, <2>8
  <2> QED
    BY <1>6, <2>2, <2>4, <2>5, <2>6, <2>7, <2>8, <2>9, Starting
<1>7. ASSUME NEW op \in MarkOps, NEW m \in Marks, BeginHighlight(t, op, p, m) PROVE Inv'
  <2>1. PICK rd \in Stages : rd = "read"
    BY DEF Stages
  <2>2. PICK i \in Nat : i = db[p].id
    BY <1>1 DEF Rows
  <2>3. PICK j \in MarkJobs : j = [op |-> op, p |-> p, id |-> i, c |-> 0, at |-> rd, m |-> m, marks |-> {}]
    BY DEF MarkJobs
  <2>4. j.op = op /\ j.p = p /\ j.c = 0 /\ j.at = rd /\ j.id = i
    BY <2>3
  <2>5. /\ ~Active(t) /\ Watched /\ task' = [task EXCEPT ![t] = j] /\ tainted' = tainted \cup Overlap(t, op, p)
        /\ i # 0 /\ txn = "none" /\ txn' = t
        /\ UNCHANGED <<file, db, committed, contents, ids, recent, events, acked>>
    BY <1>7, <2>1, <2>2, <2>3 DEF BeginHighlight, Begin, BeginImmediate, noteVars
  <2>6. /\ j.op \in MarkOps /\ j.at = "read" /\ j.op \notin ToolOps \cup ForNoRow \cup {"content"}
        /\ j.id = db[p].id /\ j.id # 0
    BY <2>1, <2>2, <2>4, <2>5 DEF MarkOps, ToolOps, ForNoRow
  <2>7. p \notin tainted' => \A u \in OthersOn(t, p) : MarkTask(u) /\ j.op \in MarkOps
    BY <1>4, <2>4, <2>5
  <2> QED
    BY <2>3, <2>4, <2>5, <2>6, <2>7, Starting
<1>8. CASE "content" \in Ops /\ update_content(t, p)
  <2>1. PICK op \in {"content", "upload", "delete"} : op = "content"
    OBVIOUS
  <2> QED
    BY <1>2, <1>5, <1>8, <2>1 DEF update_content
<1>9. CASE "upload" \in Ops /\ upload_file(t, p)
  <2>1. PICK op \in {"content", "upload", "delete"} : op = "upload"
    OBVIOUS
  <2> QED
    BY <1>2, <1>5, <1>9, <2>1 DEF upload_file
<1>10. CASE "delete" \in Ops /\ delete(t, p)
  <2>1. PICK op \in {"content", "upload", "delete"} : op = "delete"
    OBVIOUS
  <2> QED
    BY <1>2, <1>5, <1>10, <2>1 DEF delete
<1> QED
  BY <1>6, <1>7, <1>8, <1>9, <1>10 DEF Starts, ToolOps

--------------------------------------------------------------------------------
(* The extraction of a document, by the watcher or by a coroutine. *)

(* What is extracted is a binary file. *)
LEMMA ExtractionPath ==
    ASSUME TypeOK, NEW t \in Tasks, Active(t), task[t].op \in {"index", "extract"}, task[t].at \in XStages
    PROVE  task[t].p \in BinaryPaths /\ task[t].p \in Paths /\ task[t].p \notin TextPaths
<1>1. StageOK(t)
  BY DEF TypeOK
<1>2. task[t].p \in BinaryPaths
  BY <1>1 DEF StageOK, WatchOps
<1> QED
  BY <1>2, LocalAssumption DEF Paths

(* A document whose file is gone fails. *)
LEMMA ProcessMissingStep ==
    ASSUME Inv, NEW t \in Tasks, process_document(t), Mine(t), Row(t).status \in {"pending", "processing"}, file[task[t].p] = 0
    PROVE  Inv'
<1>1. /\ t \in Tasks /\ Active(t) /\ task[t].op \in {"index", "extract"} /\ task[t].at = "x select" /\ task[t].at \in XStages /\ TypeOK
  BY DEF Inv, process_document, Is, Active, Tasks, Extracts, XStages
<1>2. PICK p \in Paths : p = task[t].p
  BY <1>1, ExtractionPath
<1>3. PICK at \in Stages : at = "x end"
  BY DEF Stages, IndexStages, XStages
<1>4. PICK row : row = [db[p] EXCEPT !.status = "failed"]
  OBVIOUS
<1>5. /\ task[t].id \in Nat /\ task[t].c \in Nat /\ task[t].c <= contents /\ db[p] \in Rows /\ file[p] \in Nat
      /\ db[p].hash <= contents /\ db[p].text <= contents /\ ~(p \in TextPaths /\ p \in BinaryPaths) /\ p \in BinaryPaths /\ p \notin TextPaths
  BY <1>1, <1>2, ExtractionPath, Before DEF StageOK, XStages
<1>6. row \in Rows /\ row.hash <= contents /\ row.text <= contents /\ Execute(t, p, row)
  BY <1>1, <1>2, <1>4, <1>5 DEF Rows, process_document, Row, Statuses
<1>7. Goto(t, at) /\ UNCHANGED <<file, contents, ids, recent, events>> /\ acked' = acked
  BY <1>1, <1>2, <1>3 DEF process_document, fileVars, noteVars
<1>8. StageOK(t)' /\ SamePhase(t, at)
  BY <1>1, <1>2, <1>3, <1>5, <1>7, Going DEF StageOK, MarkOps, ToolOps, WatchOps, SamePhase, XStages
<1>9. /\ Steps(t, p) /\ On(t, p)' /\ Active(t)' /\ MarkTask(t)' = MarkTask(t)
      /\ task'[t].op = task[t].op /\ task'[t].p = p /\ task'[t].id = task[t].id
      /\ task'[t].c = task[t].c /\ task'[t].at = at /\ Queued(p)' = Queued(p) /\ file'[p] = file[p]
  BY <1>1, <1>2, <1>7, <1>8, GoesOn DEF TypeOK, FileType
<1>10. ASSUME p \notin tainted, p \notin tainted'
       PROVE  /\ row.id = 0 => row = NoRow
              /\ RowOfFile(row, p)
              /\ Queued(p)' => p \in BinaryPaths /\ row.status # "removed"
              /\ acked'[p] \subseteq acked[p]
              /\ row.ann \subseteq row.marks \/ Annotating(t)'
              /\ acked'[p] \subseteq row.marks \/ Marked(t)'
              /\ Dirty(t)' /\ TaskInv(t)'
              /\ NothingToSee(p) => StepClaim(t)' /\ (Working(t)' \/ Settled(p)')
  <2>1. /\ StillInv(p) /\ FollowInv(t) /\ MarkInv(t) /\ StepInv(t) /\ JobInv(t, p) /\ (NothingToSee(p) => StepClaim(t))
    BY <1>1, <1>2, <1>10, Before
  <2>2. db[p].id = task[t].id /\ task[t].id # 0
    <3>1. db[p].status \in {"pending", "processing"}
      BY <1>2 DEF Row
    <3>2. NoRow.status = "none"
      BY DEF NoRow
    <3>3. db[p].id # 0
      BY <2>1, <3>1, <3>2 DEF StillInv
    <3> QED
      BY <1>2, <3>3 DEF Mine
  <2>3. /\ row.id = db[p].id /\ row.status = "failed" /\ row.text = db[p].text /\ row.hash = db[p].hash
        /\ row.chunks = db[p].chunks /\ row.marks = db[p].marks /\ row.ann = db[p].ann
        /\ row.hash \in Nat /\ db'[p] = row
    <3>1. Mine(t)
      BY <1>2, <2>2 DEF Mine
    <3>2. db'[p] = row
      BY <1>1, <1>6, Executing
    <3> QED
      BY <1>4, <1>5, <3>1, <3>2 DEF Rows
  <2>4. /\ ~Survives(t)' /\ Dirty(t)' /\ Working(t)' /\ ~MarkTask(t)' /\ ~MarkTask(t) /\ ~Annotating(t) /\ ~Marked(t)
        /\ task'[t].op \in {"index", "extract"} /\ task'[t].at = "x end"
    BY <1>1, <1>3, <1>9 DEF MarkTask, MarkOps, Indexing, WatchOps, Survives, Dirty, Working, Annotating, Marked
  <2>5. file[p] = 0 /\ db[p].status \in {"pending", "processing"}
    BY <1>1, <1>2, <1>5, <2>1, <2>3 DEF StepInv, StillInv, NotNewer, Row
  <2>6. RowOfFile(row, p)
    BY <1>5, <2>1, <2>3, <2>5 DEF StillInv, RowOfFile, NotNewer
  <2>7. TaskInv(t)'
    <3>1. FollowInv(t)'
      BY <1>9, <2>2, <2>3, <2>4 DEF FollowInv, Mine, Follows, HasRow
    <3>2. MarkInv(t)'
      BY <1>9, <2>3, <2>4 DEF MarkInv, Marked
    <3>3. StepInv(t)'
      BY <1>9, <2>3, <2>4, <2>5 DEF StepInv, NotNewer
    <3> QED
      BY <3>1, <3>2, <3>3 DEF TaskInv
  <2>8. NothingToSee(p) => StepClaim(t)'
    BY <1>1, <1>2, <1>5, <1>9, <2>1, <2>3, <2>4, <2>5, <2>2 DEF StepClaim, Indexed
  <2> QED
    BY <1>5, <1>7, <1>9, <2>1, <2>2, <2>3, <2>4, <2>5, <2>6, <2>7, <2>8 DEF JobInv, StillInv, NoRow
<1>11. tainted \subseteq tainted'
  BY <1>6 DEF Execute
<1> QED
  BY <1>1, <1>6, <1>9, <1>10, <1>11, Statement

(* A document is marked as being processed. *)
LEMMA ProcessStartStep ==
    ASSUME Inv, NEW t \in Tasks, process_document(t), Mine(t), Row(t).status \in {"pending", "processing"}, file[task[t].p] # 0
    PROVE  Inv'
<1>1. /\ t \in Tasks /\ Active(t) /\ task[t].op \in {"index", "extract"} /\ task[t].at = "x select" /\ task[t].at \in XStages /\ TypeOK
  BY DEF Inv, process_document, Is, Active, Tasks, Extracts, XStages
<1>2. PICK p \in Paths : p = task[t].p
  BY <1>1, ExtractionPath
<1>3. PICK at \in Stages : at = "x started"
  BY DEF Stages, IndexStages, XStages
<1>4. PICK row : row = [db[p] EXCEPT !.status = "processing"]
  OBVIOUS
<1>5. /\ task[t].id \in Nat /\ task[t].c \in Nat /\ task[t].c <= contents /\ db[p] \in Rows /\ file[p] \in Nat
      /\ db[p].hash <= contents /\ db[p].text <= contents /\ ~(p \in TextPaths /\ p \in BinaryPaths) /\ p \in BinaryPaths /\ p \notin TextPaths
  BY <1>1, <1>2, ExtractionPath, Before DEF StageOK, XStages
<1>6. row \in Rows /\ row.hash <= contents /\ row.text <= contents /\ Execute(t, p, row)
  BY <1>1, <1>2, <1>4, <1>5 DEF Rows, process_document, Row, Statuses
<1>7. Goto(t, at) /\ UNCHANGED <<file, contents, ids, recent, events>> /\ acked' = acked
  BY <1>1, <1>2, <1>3 DEF process_document, fileVars, noteVars
<1>8. StageOK(t)' /\ SamePhase(t, at)
  BY <1>1, <1>2, <1>3, <1>5, <1>7, Going DEF StageOK, MarkOps, ToolOps, WatchOps, SamePhase, XStages
<1>9. /\ Steps(t, p) /\ On(t, p)' /\ Active(t)' /\ MarkTask(t)' = MarkTask(t)
      /\ task'[t].op = task[t].op /\ task'[t].p = p /\ task'[t].id = task[t].id
      /\ task'[t].c = task[t].c /\ task'[t].at = at /\ Queued(p)' = Queued(p) /\ file'[p] = file[p]
  BY <1>1, <1>2, <1>7, <1>8, GoesOn DEF TypeOK, FileType
<1>10. ASSUME p \notin tainted, p \notin tainted'
       PROVE  /\ row.id = 0 => row = NoRow
              /\ RowOfFile(row, p)
              /\ Queued(p)' => p \in BinaryPaths /\ row.status # "removed"
              /\ acked'[p] \subseteq acked[p]
              /\ row.ann \subseteq row.marks \/ Annotating(t)'
              /\ acked'[p] \subseteq row.marks \/ Marked(t)'
              /\ Dirty(t)' /\ TaskInv(t)'
              /\ NothingToSee(p) => StepClaim(t)' /\ (Working(t)' \/ Settled(p)')
  <2>1. /\ StillInv(p) /\ FollowInv(t) /\ MarkInv(t) /\ StepInv(t) /\ JobInv(t, p) /\ (NothingToSee(p) => StepClaim(t))
    BY <1>1, <1>2, <1>10, Before
  <2>2. db[p].id = task[t].id /\ task[t].id # 0
    <3>1. db[p].status \in {"pending", "processing"}
      BY <1>2 DEF Row
    <3>2. NoRow.status = "none"
      BY DEF NoRow
    <3>3. db[p].id # 0
      BY <2>1, <3>1, <3>2 DEF StillInv
    <3> QED
      BY <1>2, <3>3 DEF Mine
  <2>3. /\ row.id = db[p].id /\ row.status = "processing" /\ row.text = db[p].text /\ row.hash = db[p].hash
        /\ row.chunks = db[p].chunks /\ row.marks = db[p].marks /\ row.ann = db[p].ann
        /\ row.hash \in Nat /\ db'[p] = row
    <3>1. Mine(t)
      BY <1>2, <2>2 DEF Mine
    <3>2. db'[p] = row
      BY <1>1, <1>6, Executing
    <3> QED
      BY <1>4, <1>5, <3>1, <3>2 DEF Rows
  <2>4. /\ ~Survives(t)' /\ Dirty(t)' /\ Working(t)' /\ ~MarkTask(t)' /\ ~MarkTask(t) /\ ~Annotating(t) /\ ~Marked(t)
        /\ task'[t].op \in {"index", "extract"} /\ task'[t].at = "x started"
    BY <1>1, <1>3, <1>9 DEF MarkTask, MarkOps, Indexing, WatchOps, Survives, Dirty, Working, Annotating, Marked
  <2>5. file[p] # 0 /\ db[p].status \in {"pending", "processing"}
    BY <1>1, <1>2, <1>5, <2>1, <2>3 DEF StepInv, StillInv, NotNewer, Row
  <2>6. RowOfFile(row, p)
    BY <1>5, <2>1, <2>3, <2>5 DEF StillInv, RowOfFile, NotNewer
  <2>7. TaskInv(t)'
    <3>1. FollowInv(t)'
      BY <1>9, <2>2, <2>3, <2>4 DEF FollowInv, Mine, Follows, HasRow
    <3>2. MarkInv(t)'
      BY <1>9, <2>3, <2>4 DEF MarkInv, Marked
    <3>3. StepInv(t)'
      BY <1>9, <2>3, <2>4, <2>5 DEF StepInv, NotNewer
    <3> QED
      BY <3>1, <3>2, <3>3 DEF TaskInv
  <2>8. NothingToSee(p) => StepClaim(t)'
    BY <1>1, <1>2, <1>5, <1>9, <2>1, <2>3, <2>4, <2>5, <2>2 DEF StepClaim, Indexed
  <2> QED
    BY <1>5, <1>7, <1>9, <2>1, <2>2, <2>3, <2>4, <2>5, <2>6, <2>7, <2>8 DEF JobInv, StillInv, NoRow
<1>11. tainted \subseteq tainted'
  BY <1>6 DEF Execute
<1> QED
  BY <1>1, <1>6, <1>9, <1>10, <1>11, Statement

(* The pages of a document are stored. *)
LEMMA StorePagesStep ==
    ASSUME Inv, NEW t \in Tasks, _store_page_contents(t), Mine(t)
    PROVE  Inv'
<1>1. /\ t \in Tasks /\ Active(t) /\ task[t].op \in {"index", "extract"} /\ task[t].at = "x chunks" /\ task[t].at \in XStages /\ TypeOK
  BY DEF Inv, _store_page_contents, Is, Active, Tasks, Extracts, XStages
<1>2. PICK p \in Paths : p = task[t].p
  BY <1>1, ExtractionPath
<1>3. PICK at \in Stages : at = "x ready"
  BY DEF Stages, IndexStages, XStages
<1>4. PICK row : row = [db[p] EXCEPT !.chunks = task[t].c, !.ann = {}]
  OBVIOUS
<1>5. /\ task[t].id \in Nat /\ task[t].c \in Nat /\ task[t].c <= contents /\ db[p] \in Rows /\ file[p] \in Nat
      /\ db[p].hash <= contents /\ db[p].text <= contents /\ ~(p \in TextPaths /\ p \in BinaryPaths) /\ p \in BinaryPaths /\ p \notin TextPaths
  BY <1>1, <1>2, ExtractionPath, Before DEF StageOK, XStages
<1>6. row \in Rows /\ row.hash <= contents /\ row.text <= contents /\ Execute(t, p, row)
  BY <1>1, <1>2, <1>4, <1>5 DEF Rows, _store_page_contents, Row
<1>7. Goto(t, at) /\ UNCHANGED <<file, contents, ids, recent, events>> /\ acked' = acked
  BY <1>1, <1>2, <1>3 DEF _store_page_contents, fileVars, noteVars
<1>8. StageOK(t)' /\ SamePhase(t, at)
  BY <1>1, <1>2, <1>3, <1>5, <1>7, Going DEF StageOK, MarkOps, ToolOps, WatchOps, SamePhase, XStages
<1>9. /\ Steps(t, p) /\ On(t, p)' /\ Active(t)' /\ MarkTask(t)' = MarkTask(t)
      /\ task'[t].op = task[t].op /\ task'[t].p = p /\ task'[t].id = task[t].id
      /\ task'[t].c = task[t].c /\ task'[t].at = at /\ Queued(p)' = Queued(p) /\ file'[p] = file[p]
  BY <1>1, <1>2, <1>7, <1>8, GoesOn DEF TypeOK, FileType
<1>10. ASSUME p \notin tainted, p \notin tainted'
       PROVE  /\ row.id = 0 => row = NoRow
              /\ RowOfFile(row, p)
              /\ Queued(p)' => p \in BinaryPaths /\ row.status # "removed"
              /\ acked'[p] \subseteq acked[p]
              /\ row.ann \subseteq row.marks \/ Annotating(t)'
              /\ acked'[p] \subseteq row.marks \/ Marked(t)'
              /\ Dirty(t)' /\ TaskInv(t)'
              /\ NothingToSee(p) => StepClaim(t)' /\ (Working(t)' \/ Settled(p)')
  <2>1. /\ StillInv(p) /\ FollowInv(t) /\ MarkInv(t) /\ StepInv(t) /\ JobInv(t, p) /\ (NothingToSee(p) => StepClaim(t))
    BY <1>1, <1>2, <1>10, Before
  <2>2. db[p].id = task[t].id /\ task[t].id # 0
    BY <1>1, <1>2, <2>1 DEF FollowInv, Follows, HasRow, Mine, MarkOps, Indexing, WatchOps
  <2>3. /\ row.id = db[p].id /\ row.status = db[p].status /\ row.text = db[p].text /\ row.hash = db[p].hash
        /\ row.chunks = task[t].c /\ row.marks = db[p].marks /\ row.ann = {}
        /\ row.hash \in Nat /\ db'[p] = row
    <3>1. Mine(t)
      BY <1>2, <2>2 DEF Mine
    <3>2. db'[p] = row
      BY <1>1, <1>6, Executing
    <3> QED
      BY <1>4, <1>5, <3>1, <3>2 DEF Rows
  <2>4. /\ ~Survives(t)' /\ Dirty(t)' /\ Working(t)' /\ ~MarkTask(t)' /\ ~MarkTask(t) /\ ~Annotating(t) /\ ~Marked(t)
        /\ task'[t].op \in {"index", "extract"} /\ task'[t].at = "x ready"
    BY <1>1, <1>3, <1>9 DEF MarkTask, MarkOps, Indexing, WatchOps, Survives, Dirty, Working, Annotating, Marked
  <2>5. NotNewer(task[t].c, p) /\ task[t].c # 0 /\ row.status = "processing" /\ row.hash <= task[t].c
    BY <1>1, <1>2, <1>5, <2>1, <2>3 DEF StepInv, StillInv, NotNewer
  <2>6. RowOfFile(row, p)
    BY <1>5, <2>1, <2>3, <2>5 DEF StillInv, RowOfFile, NotNewer
  <2>7. TaskInv(t)'
    <3>1. FollowInv(t)'
      BY <1>9, <2>2, <2>3, <2>4 DEF FollowInv, Mine, Follows, HasRow
    <3>2. MarkInv(t)'
      BY <1>9, <2>3, <2>4 DEF MarkInv, Marked
    <3>3. StepInv(t)'
      BY <1>9, <2>3, <2>4, <2>5 DEF StepInv, NotNewer
    <3> QED
      BY <3>1, <3>2, <3>3 DEF TaskInv
  <2>8. NothingToSee(p) => StepClaim(t)'
    BY <1>1, <1>2, <1>5, <1>9, <2>1, <2>3, <2>4, <2>5 DEF StepClaim, Indexed
  <2> QED
    BY <1>5, <1>7, <1>9, <2>1, <2>2, <2>3, <2>4, <2>5, <2>6, <2>7, <2>8 DEF JobInv, StillInv
<1>11. tainted \subseteq tainted'
  BY <1>6 DEF Execute
<1> QED
  BY <1>1, <1>6, <1>9, <1>10, <1>11, Statement

(* A document that is extracted is ready. *)
LEMMA ReadyStep ==
    ASSUME Inv, NEW t \in Tasks, SetStatus(t, "x ready", [Row(t) EXCEPT !.status = "ready", !.text = task[t].c])
    PROVE  Inv'
<1>1. /\ t \in Tasks /\ Active(t) /\ task[t].op \in {"index", "extract"} /\ task[t].at = "x ready" /\ task[t].at \in XStages /\ TypeOK
  BY DEF Inv, SetStatus, Is, Active, Tasks, Extracts, XStages
<1>2. PICK p \in Paths : p = task[t].p
  BY <1>1, ExtractionPath
<1>3. PICK at \in Stages : at = "x end"
  BY DEF Stages, IndexStages, XStages
<1>4. PICK row : row = IF Mine(t) THEN [db[p] EXCEPT !.status = "ready", !.text = task[t].c] ELSE db[p]
  OBVIOUS
<1>5. /\ task[t].id \in Nat /\ task[t].c \in Nat /\ task[t].c <= contents /\ db[p] \in Rows /\ file[p] \in Nat
      /\ db[p].hash <= contents /\ db[p].text <= contents /\ ~(p \in TextPaths /\ p \in BinaryPaths) /\ p \in BinaryPaths /\ p \notin TextPaths
  BY <1>1, <1>2, ExtractionPath, Before DEF StageOK, XStages
<1>6. row \in Rows /\ row.hash <= contents /\ row.text <= contents /\ Execute(t, p, row)
  BY <1>1, <1>2, <1>4, <1>5 DEF Rows, SetStatus, Row, Statuses
<1>7. Goto(t, at) /\ UNCHANGED <<file, contents, ids, recent, events>> /\ acked' = acked
  BY <1>1, <1>2, <1>3 DEF SetStatus, fileVars, noteVars
<1>8. StageOK(t)' /\ SamePhase(t, at)
  BY <1>1, <1>2, <1>3, <1>5, <1>7, Going DEF StageOK, MarkOps, ToolOps, WatchOps, SamePhase, XStages
<1>9. /\ Steps(t, p) /\ On(t, p)' /\ Active(t)' /\ MarkTask(t)' = MarkTask(t)
      /\ task'[t].op = task[t].op /\ task'[t].p = p /\ task'[t].id = task[t].id
      /\ task'[t].c = task[t].c /\ task'[t].at = at /\ Queued(p)' = Queued(p) /\ file'[p] = file[p]
  BY <1>1, <1>2, <1>7, <1>8, GoesOn DEF TypeOK, FileType
<1>10. ASSUME p \notin tainted, p \notin tainted'
       PROVE  /\ row.id = 0 => row = NoRow
              /\ RowOfFile(row, p)
              /\ Queued(p)' => p \in BinaryPaths /\ row.status # "removed"
              /\ acked'[p] \subseteq acked[p]
              /\ row.ann \subseteq row.marks \/ Annotating(t)'
              /\ acked'[p] \subseteq row.marks \/ Marked(t)'
              /\ Dirty(t)' /\ TaskInv(t)'
              /\ NothingToSee(p) => StepClaim(t)' /\ (Working(t)' \/ Settled(p)')
  <2>1. /\ StillInv(p) /\ FollowInv(t) /\ MarkInv(t) /\ StepInv(t) /\ JobInv(t, p) /\ (NothingToSee(p) => StepClaim(t))
    BY <1>1, <1>2, <1>10, Before
  <2>2. db[p].id = task[t].id /\ task[t].id # 0
    BY <1>1, <1>2, <2>1 DEF FollowInv, Follows, HasRow, Mine, MarkOps, Indexing, WatchOps
  <2>3. /\ row.id = db[p].id /\ row.status = "ready" /\ row.text = task[t].c /\ row.hash = db[p].hash
        /\ row.chunks = db[p].chunks /\ row.marks = db[p].marks /\ row.ann = db[p].ann
        /\ row.hash \in Nat /\ db'[p] = row
    <3>1. Mine(t)
      BY <1>2, <2>2 DEF Mine
    <3>2. db'[p] = row
      BY <1>1, <1>6, Executing
    <3> QED
      BY <1>4, <1>5, <3>1, <3>2 DEF Rows
  <2>4. /\ ~Survives(t)' /\ Dirty(t)' /\ Working(t)' /\ ~MarkTask(t)' /\ ~MarkTask(t) /\ ~Annotating(t) /\ ~Marked(t)
        /\ task'[t].op \in {"index", "extract"} /\ task'[t].at = "x end"
    BY <1>1, <1>3, <1>9 DEF MarkTask, MarkOps, Indexing, WatchOps, Survives, Dirty, Working, Annotating, Marked
  <2>5. NotNewer(task[t].c, p) /\ task[t].c # 0 /\ row.chunks = task[t].c /\ row.hash <= task[t].c
    BY <1>1, <1>2, <1>5, <2>1, <2>3 DEF StepInv, StillInv, NotNewer
  <2>6. RowOfFile(row, p)
    BY <1>5, <2>1, <2>3, <2>5 DEF StillInv, RowOfFile, NotNewer
  <2>7. TaskInv(t)'
    <3>1. FollowInv(t)'
      BY <1>9, <2>2, <2>3, <2>4 DEF FollowInv, Mine, Follows, HasRow
    <3>2. MarkInv(t)'
      BY <1>9, <2>3, <2>4 DEF MarkInv, Marked
    <3>3. StepInv(t)'
      BY <1>9, <2>3, <2>4, <2>5 DEF StepInv, NotNewer
    <3> QED
      BY <3>1, <3>2, <3>3 DEF TaskInv
  <2>8. NothingToSee(p) => StepClaim(t)'
    BY <1>1, <1>2, <1>5, <1>9, <2>1, <2>3, <2>4, <2>5 DEF StepClaim, Indexed
  <2> QED
    BY <1>5, <1>7, <1>9, <2>1, <2>2, <2>3, <2>4, <2>5, <2>6, <2>7, <2>8 DEF JobInv, StillInv
<1>11. tainted \subseteq tainted'
  BY <1>6 DEF Execute
<1> QED
  BY <1>1, <1>6, <1>9, <1>10, <1>11, Statement

(* A document that is not extracted has failed. *)
LEMMA FailStep ==
    ASSUME Inv, NEW t \in Tasks, SetStatus(t, "x fail", [Row(t) EXCEPT !.status = "failed"])
    PROVE  Inv'
<1>1. /\ t \in Tasks /\ Active(t) /\ task[t].op \in {"index", "extract"} /\ task[t].at = "x fail" /\ task[t].at \in XStages /\ TypeOK
  BY DEF Inv, SetStatus, Is, Active, Tasks, Extracts, XStages
<1>2. PICK p \in Paths : p = task[t].p
  BY <1>1, ExtractionPath
<1>3. PICK at \in Stages : at = "x end"
  BY DEF Stages, IndexStages, XStages
<1>4. PICK row : row = IF Mine(t) THEN [db[p] EXCEPT !.status = "failed"] ELSE db[p]
  OBVIOUS
<1>5. /\ task[t].id \in Nat /\ task[t].c \in Nat /\ task[t].c <= contents /\ db[p] \in Rows /\ file[p] \in Nat
      /\ db[p].hash <= contents /\ db[p].text <= contents /\ ~(p \in TextPaths /\ p \in BinaryPaths) /\ p \in BinaryPaths /\ p \notin TextPaths
  BY <1>1, <1>2, ExtractionPath, Before DEF StageOK, XStages
<1>6. row \in Rows /\ row.hash <= contents /\ row.text <= contents /\ Execute(t, p, row)
  BY <1>1, <1>2, <1>4, <1>5 DEF Rows, SetStatus, Row, Statuses
<1>7. Goto(t, at) /\ UNCHANGED <<file, contents, ids, recent, events>> /\ acked' = acked
  BY <1>1, <1>2, <1>3 DEF SetStatus, fileVars, noteVars
<1>8. StageOK(t)' /\ SamePhase(t, at)
  BY <1>1, <1>2, <1>3, <1>5, <1>7, Going DEF StageOK, MarkOps, ToolOps, WatchOps, SamePhase, XStages
<1>9. /\ Steps(t, p) /\ On(t, p)' /\ Active(t)' /\ MarkTask(t)' = MarkTask(t)
      /\ task'[t].op = task[t].op /\ task'[t].p = p /\ task'[t].id = task[t].id
      /\ task'[t].c = task[t].c /\ task'[t].at = at /\ Queued(p)' = Queued(p) /\ file'[p] = file[p]
  BY <1>1, <1>2, <1>7, <1>8, GoesOn DEF TypeOK, FileType
<1>10. ASSUME p \notin tainted, p \notin tainted'
       PROVE  /\ row.id = 0 => row = NoRow
              /\ RowOfFile(row, p)
              /\ Queued(p)' => p \in BinaryPaths /\ row.status # "removed"
              /\ acked'[p] \subseteq acked[p]
              /\ row.ann \subseteq row.marks \/ Annotating(t)'
              /\ acked'[p] \subseteq row.marks \/ Marked(t)'
              /\ Dirty(t)' /\ TaskInv(t)'
              /\ NothingToSee(p) => StepClaim(t)' /\ (Working(t)' \/ Settled(p)')
  <2>1. /\ StillInv(p) /\ FollowInv(t) /\ MarkInv(t) /\ StepInv(t) /\ JobInv(t, p) /\ (NothingToSee(p) => StepClaim(t))
    BY <1>1, <1>2, <1>10, Before
  <2>2. db[p].id = task[t].id /\ task[t].id # 0
    BY <1>1, <1>2, <2>1 DEF FollowInv, Follows, HasRow, Mine, MarkOps, Indexing, WatchOps
  <2>3. /\ row.id = db[p].id /\ row.status = "failed" /\ row.text = db[p].text /\ row.hash = db[p].hash
        /\ row.chunks = db[p].chunks /\ row.marks = db[p].marks /\ row.ann = db[p].ann
        /\ row.hash \in Nat /\ db'[p] = row
    <3>1. Mine(t)
      BY <1>2, <2>2 DEF Mine
    <3>2. db'[p] = row
      BY <1>1, <1>6, Executing
    <3> QED
      BY <1>4, <1>5, <3>1, <3>2 DEF Rows
  <2>4. /\ ~Survives(t)' /\ Dirty(t)' /\ Working(t)' /\ ~MarkTask(t)' /\ ~MarkTask(t) /\ ~Annotating(t) /\ ~Marked(t)
        /\ task'[t].op \in {"index", "extract"} /\ task'[t].at = "x end"
    BY <1>1, <1>3, <1>9 DEF MarkTask, MarkOps, Indexing, WatchOps, Survives, Dirty, Working, Annotating, Marked
  <2>5. TRUE
    BY <1>1, <1>2, <1>5, <2>1, <2>3 DEF StepInv, StillInv, NotNewer
  <2>6. RowOfFile(row, p)
    BY <1>5, <2>1, <2>3, <2>5 DEF StillInv, RowOfFile, NotNewer
  <2>7. TaskInv(t)'
    <3>1. FollowInv(t)'
      BY <1>9, <2>2, <2>3, <2>4 DEF FollowInv, Mine, Follows, HasRow
    <3>2. MarkInv(t)'
      BY <1>9, <2>3, <2>4 DEF MarkInv, Marked
    <3>3. StepInv(t)'
      BY <1>9, <2>3, <2>4, <2>5 DEF StepInv, NotNewer
    <3> QED
      BY <3>1, <3>2, <3>3 DEF TaskInv
  <2>8. NothingToSee(p) => StepClaim(t)'
    BY <1>1, <1>2, <1>5, <1>9, <2>1, <2>3, <2>4, <2>5 DEF StepClaim, Indexed
  <2> QED
    BY <1>5, <1>7, <1>9, <2>1, <2>2, <2>3, <2>4, <2>5, <2>6, <2>7, <2>8 DEF JobInv, StillInv
<1>11. tainted \subseteq tainted'
  BY <1>6 DEF Execute
<1> QED
  BY <1>1, <1>6, <1>9, <1>10, <1>11, Statement

(* The watcher goes on as the record w, at the same document. *)
LEMMA WatchGoesOnAs ==
    ASSUME Inv, NEW t \in Tasks, t = "watch", Active(t), NEW p \in Paths, task[t].p = p,
           NEW w \in WatchJobs, SetWatch(w), w.p = p, w.op = task[t].op, w.todo = task[t].todo, w.c <= contents,
           SamePhase(t, w.at), StageOK(t)',
           UNCHANGED <<file, contents, recent, events>>, ids' \in Nat, acked' = acked
    PROVE  /\ Steps(t, p) /\ On(t, p)' /\ Active(t)' /\ task'[t] = w /\ MarkTask(t)' = MarkTask(t)
           /\ Queued(p)' = Queued(p) /\ file'[p] = file[p]
<1>1. TypeOK /\ acked' \in [Paths -> SUBSET Marks]
  BY DEF Inv, TypeOK, FileType
<1>2. TaskType' /\ task'[t] = w /\ \A u \in Tasks \ {t} : task'[u] = task[u]
  BY <1>1, Watching
<1>3. Active(t)' /\ On(t, p)' /\ MarkTask(t)' = MarkTask(t) /\ Survives(t)' = Survives(t) /\ Watched' = Watched
  BY <1>2 DEF Active, On, MarkTask, Survives, Watched
<1>4. \A q : (Queued(q)' = Queued(q)) /\ (q # p => WillExtract(q)' = WillExtract(q))
  BY <1>2, <1>3 DEF Queued, WillExtract, SamePhase
<1>5. OthersWait(t)
  BY <1>2, <1>3, <1>4 DEF OthersWait
<1> QED
  BY <1>1, <1>2, <1>3, <1>4, <1>5 DEF Steps

(* The end of an extraction. *)
LEMMA ExtractionEnds ==
    ASSUME Inv, NEW t \in Tasks, Extracts(t), NEW p \in Paths, task[t].p = p, task[t].at \in XStages, ExtractionOver(t),
           UNCHANGED <<file, contents, ids, recent, events, acked>>
    PROVE  /\ Steps(t, p) /\ Queued(p)' = Queued(p) /\ file'[p] = file[p]
           /\ ~MarkTask(t) /\ ~MarkTask(t)' /\ MarkTask(t)' = MarkTask(t)
           /\ Annotating(t)' = Annotating(t) /\ Marked(t)' = Marked(t)
           /\ Active(t)' => TaskInv(t)' /\ StepClaim(t)'
<1>1. TypeOK /\ Active(t) /\ acked' \in [Paths -> SUBSET Marks] /\ task[t].op \in {"index", "extract"}
  BY DEF Inv, TypeOK, FileType, Extracts
<1>2. ~MarkTask(t) /\ ~Marked(t) /\ ~Annotating(t)
  BY <1>1 DEF MarkTask, MarkOps, Marked, Annotating
<1>3. CASE t = "watch"
  <2>1. task[t].op = "index"
    BY <1>1, <1>3, TaskFields DEF WatchOps
  <2>2. PICK at \in Stages : at = "extract"
    BY DEF Stages
  <2>3. Goto(t, at)
    BY <1>3, <2>2 DEF ExtractionOver
  <2>4. StageOK(t) /\ task[t].p \in BinaryPaths
    BY <1>1, ExtractionPath DEF TypeOK
  <2>5. StageOK(t)' /\ SamePhase(t, at)
    BY <1>1, <2>1, <2>2, <2>3, <2>4, Going DEF StageOK, MarkOps, ToolOps, WatchOps, SamePhase, XStages
  <2>6. /\ Steps(t, p) /\ Queued(p)' = Queued(p) /\ file'[p] = file[p] /\ MarkTask(t)' = MarkTask(t)
        /\ task'[t].op = task[t].op /\ task'[t].at = at
    BY <1>1, <2>2, <2>3, <2>5, GoesOn
  <2>7. task'[t].op = "index" /\ task'[t].at = "extract"
    BY <2>1, <2>2, <2>6
  <2>8. ~MarkTask(t)' /\ ~Marked(t)' /\ ~Annotating(t)' /\ ~Survives(t)' /\ ~Follows(t)' /\ ~HasRow(t)'
    BY <2>7 DEF MarkTask, MarkOps, Marked, Annotating, Survives, Follows, HasRow
  <2>9. TaskInv(t)' /\ StepClaim(t)'
    <3>1. FollowInv(t)'
      BY <2>7, <2>8 DEF FollowInv
    <3>2. MarkInv(t)'
      BY <2>7, <2>8 DEF MarkInv
    <3>3. StepInv(t)'
      BY <2>7 DEF StepInv
    <3>4. StepClaim(t)'
      BY <2>7, <2>8 DEF StepClaim
    <3> QED
      BY <3>1, <3>2, <3>3, <3>4 DEF TaskInv
  <2>10. Annotating(t)' = Annotating(t) /\ Marked(t)' = Marked(t)
    BY <1>2, <2>7 DEF Annotating, Marked, MarkTask, MarkOps
  <2> QED
    BY <1>2, <2>6, <2>8, <2>9, <2>10
<1>4. CASE t # "watch"
  <2>1. t \in Slots /\ Done(t)
    BY <1>4 DEF Tasks, ExtractionOver
  <2>2. Steps(t, p) /\ ~Active(t)' /\ ~MarkTask(t)' /\ Queued(p)' = Queued(p) /\ file'[p] = file[p]
    BY <1>1, <2>1, Ends
  <2>3. MarkTask(t)' = MarkTask(t) /\ Annotating(t)' = Annotating(t) /\ Marked(t)' = Marked(t)
    BY <1>2, <2>2 DEF MarkTask, Annotating, Marked
  <2> QED
    BY <1>2, <2>2, <2>3
<1> QED
  BY <1>3, <1>4

(* The step of an extraction from one stage to the next. *)
LEMMA ExtractionGoes ==
    ASSUME Inv, NEW t \in Tasks, Extracts(t), NEW p \in Paths, task[t].p = p, task[t].at \in XStages,
           NEW at \in XStages \ {"x queued"}, Goto(t, at),
           UNCHANGED <<file, contents, ids, recent, events, acked>>
    PROVE  /\ Steps(t, p) /\ Queued(p)' = Queued(p) /\ file'[p] = file[p]
           /\ ~MarkTask(t) /\ ~MarkTask(t)' /\ MarkTask(t)' = MarkTask(t)
           /\ Annotating(t)' = Annotating(t) /\ Marked(t)' = Marked(t) /\ ~Marked(t) /\ ~Annotating(t)
           /\ Active(t)' /\ Working(t)' /\ ~Survives(t)' /\ Indexing(t)' = Indexing(t)
           /\ task'[t].op \in {"index", "extract"} /\ task'[t].p = p /\ task'[t].id = task[t].id
           /\ task'[t].c = task[t].c /\ task'[t].at = at /\ task'[t].op = task[t].op
<1>1. /\ TypeOK /\ Active(t) /\ acked' \in [Paths -> SUBSET Marks] /\ task[t].op \in {"index", "extract"}
      /\ at \in Stages /\ StageOK(t) /\ p \in BinaryPaths
  BY ExtractionPath DEF Inv, TypeOK, FileType, Extracts, Stages
<1>2. StageOK(t)' /\ SamePhase(t, at)
  <2>1. task'[t].op = task[t].op /\ task'[t].at = at /\ task'[t].p = p
    BY <1>1, Going
  <2> QED
    BY <1>1, <2>1 DEF StageOK, MarkOps, ToolOps, WatchOps, SamePhase, XStages
<1>3. /\ Steps(t, p) /\ Queued(p)' = Queued(p) /\ file'[p] = file[p] /\ MarkTask(t)' = MarkTask(t) /\ Active(t)'
      /\ task'[t].op = task[t].op /\ task'[t].p = p /\ task'[t].id = task[t].id /\ task'[t].c = task[t].c /\ task'[t].at = at
  BY <1>1, <1>2, GoesOn
<1>4. /\ ~MarkTask(t) /\ ~Marked(t) /\ ~Annotating(t) /\ ~MarkTask(t)' /\ Working(t)' /\ ~Survives(t)'
      /\ Indexing(t)' = Indexing(t) /\ Annotating(t)' = Annotating(t) /\ Marked(t)' = Marked(t)
  BY <1>1, <1>3 DEF MarkTask, MarkOps, Marked, Annotating, Working, Survives, Indexing, XStages
<1> QED
  BY <1>1, <1>3, <1>4

(* That a document waits is committed. *)
LEMMA CommitQueuedStep ==
    ASSUME Inv, NEW t \in Tasks, CommitStep(t, "x queued", "x select")
    PROVE  Inv'
<1>1. /\ Extracts(t) /\ task[t].at = "x queued" /\ task[t].at \in XStages /\ Commit(t)
      /\ UNCHANGED <<file, contents, ids, recent, events, acked>>
  BY DEF CommitStep, XStages, fileVars, noteVars
<1>2. TypeOK /\ Active(t) /\ task[t].op \in {"index", "extract"}
  BY <1>1 DEF Inv, Extracts
<1>3. PICK p \in Paths : p = task[t].p
  BY <1>1, <1>2, ExtractionPath
<1>4. PICK at \in XStages \ {"x queued"} : at = "x select"
  BY DEF XStages
<1>5. Goto(t, at)
  BY <1>4 DEF CommitStep
<1>6. /\ Steps(t, p) /\ Queued(p)' = Queued(p) /\ file'[p] = file[p] /\ ~Annotating(t) /\ ~Marked(t)
      /\ ~MarkTask(t)' /\ Active(t)' /\ Working(t)' /\ ~Survives(t)' /\ Indexing(t)' = Indexing(t)
      /\ task'[t].p = p /\ task'[t].id = task[t].id /\ task'[t].c = task[t].c /\ task'[t].op = task[t].op
      /\ task'[t].at = at
  BY <1>1, <1>3, <1>5, ExtractionGoes
<1>7. db' = db /\ task'[t].at = "x select" /\ tainted \subseteq tainted'
  BY <1>1, <1>4, <1>6 DEF Commit
<1>8. ASSUME p \notin tainted
      PROVE  /\ acked'[p] \subseteq db[p].marks /\ db[p].ann \subseteq db[p].marks
             /\ TaskInv(t)' /\ (NothingToSee(p) => StepClaim(t)')
  <2>1. JobInv(t, p) /\ FollowInv(t) /\ StepInv(t) /\ (NothingToSee(p) => StepClaim(t)) /\ StageOK(t)
    BY <1>2, <1>3, <1>8, Before
  <2>2. FollowInv(t)'
    <3>1. Mine(t)
      BY <1>1, <2>1 DEF FollowInv, Follows
    <3>2. HasRow(t)' => HasRow(t)
      BY <1>1, <1>2, <1>6, <1>7, <2>1 DEF HasRow, StageOK
    <3> QED
      BY <1>2, <1>3, <1>6, <1>7, <2>1, <3>1, <3>2 DEF FollowInv, Mine
  <2>3. MarkInv(t)'
    BY <1>2, <1>6 DEF MarkInv, Marked
  <2>4. StepInv(t)'
    BY <1>1, <1>2, <1>3, <1>6, <1>7, <2>1 DEF StepInv, StageOK, NotNewer
  <2>5. NothingToSee(p) => StepClaim(t)'
    BY <1>1, <1>2, <1>3, <1>6, <1>7, <2>1 DEF StepClaim, Indexed
  <2> QED
    BY <1>1, <1>6, <2>1, <2>2, <2>3, <2>4, <2>5 DEF JobInv, TaskInv
<1> QED
  BY <1>1, <1>6, <1>7, <1>8, Committing

(* That a document is processed is committed. *)
LEMMA CommitStartedStep ==
    ASSUME Inv, NEW t \in Tasks, CommitStep(t, "x started", "x read")
    PROVE  Inv'
<1>1. /\ Extracts(t) /\ task[t].at = "x started" /\ task[t].at \in XStages /\ Commit(t)
      /\ UNCHANGED <<file, contents, ids, recent, events, acked>>
  BY DEF CommitStep, XStages, fileVars, noteVars
<1>2. TypeOK /\ Active(t) /\ task[t].op \in {"index", "extract"}
  BY <1>1 DEF Inv, Extracts
<1>3. PICK p \in Paths : p = task[t].p
  BY <1>1, <1>2, ExtractionPath
<1>4. PICK at \in XStages \ {"x queued"} : at = "x read"
  BY DEF XStages
<1>5. Goto(t, at)
  BY <1>4 DEF CommitStep
<1>6. /\ Steps(t, p) /\ Queued(p)' = Queued(p) /\ file'[p] = file[p] /\ ~Annotating(t) /\ ~Marked(t)
      /\ ~MarkTask(t)' /\ Active(t)' /\ Working(t)' /\ ~Survives(t)' /\ Indexing(t)' = Indexing(t)
      /\ task'[t].p = p /\ task'[t].id = task[t].id /\ task'[t].c = task[t].c /\ task'[t].op = task[t].op
      /\ task'[t].at = at
  BY <1>1, <1>3, <1>5, ExtractionGoes
<1>7. db' = db /\ task'[t].at = "x read" /\ tainted \subseteq tainted'
  BY <1>1, <1>4, <1>6 DEF Commit
<1>8. ASSUME p \notin tainted
      PROVE  /\ acked'[p] \subseteq db[p].marks /\ db[p].ann \subseteq db[p].marks
             /\ TaskInv(t)' /\ (NothingToSee(p) => StepClaim(t)')
  <2>1. JobInv(t, p) /\ FollowInv(t) /\ StepInv(t) /\ (NothingToSee(p) => StepClaim(t)) /\ StageOK(t)
    BY <1>2, <1>3, <1>8, Before
  <2>2. FollowInv(t)'
    <3>1. Mine(t)
      BY <1>1, <2>1 DEF FollowInv, Follows
    <3>2. HasRow(t)' => HasRow(t)
      BY <1>1, <1>2, <1>6, <1>7, <2>1 DEF HasRow, StageOK
    <3> QED
      BY <1>2, <1>3, <1>6, <1>7, <2>1, <3>1, <3>2 DEF FollowInv, Mine
  <2>3. MarkInv(t)'
    BY <1>2, <1>6 DEF MarkInv, Marked
  <2>4. StepInv(t)'
    BY <1>1, <1>2, <1>3, <1>6, <1>7, <2>1 DEF StepInv, StageOK, NotNewer
  <2>5. NothingToSee(p) => StepClaim(t)'
    BY <1>1, <1>2, <1>3, <1>6, <1>7, <2>1 DEF StepClaim, Indexed
  <2> QED
    BY <1>1, <1>6, <2>1, <2>2, <2>3, <2>4, <2>5 DEF JobInv, TaskInv
<1> QED
  BY <1>1, <1>6, <1>7, <1>8, Committing

(* What is as the file is not newer than it. *)
LEMMA AsNew ==
    ASSUME NEW p, NEW c \in Nat, file'[p] = c
    PROVE  NotNewer(c, p)'
    BY DEF NotNewer

(* The watcher at work. *)
LEMMA WatchTask ==
    ASSUME TypeOK, NEW t \in Tasks, t = "watch", Active(t)
    PROVE  task[t] \in WatchJobs
    BY DEF TypeOK, TaskType, Active, Idle

(* The end of an extraction is committed. *)
LEMMA EndExtractionStep ==
    ASSUME Inv, NEW t \in Tasks, EndExtraction(t)
    PROVE  Inv'
<1>1. /\ Extracts(t) /\ task[t].at = "x end" /\ task[t].at \in XStages /\ Commit(t) /\ ExtractionOver(t)
      /\ UNCHANGED <<file, contents, ids, recent, events, acked>>
  BY DEF EndExtraction, XStages, fileVars, noteVars
<1>2. TypeOK /\ Active(t) /\ task[t].op \in {"index", "extract"}
  BY <1>1 DEF Inv, Extracts
<1>3. PICK p \in Paths : p = task[t].p
  BY <1>1, <1>2, ExtractionPath
<1>4. /\ Steps(t, p) /\ Queued(p)' = Queued(p) /\ file'[p] = file[p] /\ ~MarkTask(t) /\ ~MarkTask(t)'
      /\ Active(t)' => TaskInv(t)' /\ StepClaim(t)'
  BY <1>1, <1>3, ExtractionEnds
<1>5. db' = db /\ tainted \subseteq tainted' /\ p \in BinaryPaths
  BY <1>1, <1>2, <1>3, ExtractionPath DEF Commit
<1>6. ASSUME p \notin tainted
      PROVE  /\ acked'[p] \subseteq db[p].marks /\ db[p].ann \subseteq db[p].marks
             /\ NothingToSee(p) => Settled(p)'
  <2>1. JobInv(t, p) /\ (NothingToSee(p) => StepClaim(t))
    BY <1>2, <1>3, <1>6, Before
  <2>2. NothingToSee(p) => file[p] # 0 /\ (db[p].status = "failed" \/ Indexed(p))
    BY <1>1, <1>3, <2>1 DEF StepClaim
  <2>3. NothingToSee(p) => Settled(p)'
    BY <1>4, <1>5, <2>2 DEF Settled, Indexed
  <2> QED
    BY <1>1, <1>4, <2>1, <2>3 DEF JobInv, Annotating, Marked
<1> QED
  BY <1>1, <1>4, <1>5, <1>6, Committing

(* A document that is gone, or has been extracted, is left alone. *)
LEMMA ProcessNothingStep ==
    ASSUME Inv, NEW t \in Tasks, process_document(t), ~Mine(t) \/ Row(t).status \notin {"pending", "processing"}
    PROVE  Inv'
<1>1. /\ Extracts(t) /\ task[t].at = "x select" /\ task[t].at \in XStages /\ NoStatement /\ ExtractionOver(t)
      /\ UNCHANGED <<file, contents, ids, recent, events, acked>>
  BY DEF process_document, XStages, fileVars, noteVars
<1>2. TypeOK /\ Active(t) /\ task[t].op \in {"index", "extract"}
  BY <1>1 DEF Inv, Extracts
<1>3. PICK p \in Paths : p = task[t].p
  BY <1>1, <1>2, ExtractionPath
<1>4. /\ Steps(t, p) /\ Queued(p)' = Queued(p) /\ file'[p] = file[p]
      /\ MarkTask(t)' = MarkTask(t) /\ Annotating(t)' = Annotating(t) /\ Marked(t)' = Marked(t)
      /\ Active(t)' => TaskInv(t)' /\ StepClaim(t)'
  BY <1>1, <1>3, ExtractionEnds
<1>5. db' = db
  BY <1>1 DEF NoStatement
<1>6. ASSUME p \notin tainted
      PROVE  db[p] = committed[p] /\ (NothingToSee(p) => Settled(p)')
  <2>1. JobInv(t, p) /\ FollowInv(t) /\ StepInv(t) /\ (NothingToSee(p) => StepClaim(t))
    BY <1>2, <1>3, <1>6, Before
  <2>2. ~Dirty(t)
    BY <1>1 DEF Dirty
  <2>3. Mine(t) /\ db[p].status \notin {"pending", "processing"}
    BY <1>1, <1>3, <2>1 DEF FollowInv, Follows, Row
  <2>4. db[p].id = 0
    BY <1>1, <1>2, <1>3, <2>1, <2>3 DEF StepInv, Indexing, WatchOps
  <2>5. NothingToSee(p) => file[p] = 0
    BY <1>1, <1>3, <2>1, <2>4 DEF StepClaim
  <2> QED
    BY <1>4, <1>5, <2>1, <2>2, <2>4, <2>5 DEF JobInv, Settled
<1> QED
  BY <1>1, <1>4, <1>6, Quiet

(* The pages of a document that is gone are not stored. *)
LEMMA StoreNothingStep ==
    ASSUME Inv, NEW t \in Tasks, _store_page_contents(t), ~Mine(t)
    PROVE  Inv'
<1>1. /\ Extracts(t) /\ task[t].at = "x chunks" /\ task[t].at \in XStages /\ FailOpen(t)
      /\ UNCHANGED <<file, contents, ids, recent, events, acked>>
  BY DEF _store_page_contents, XStages, fileVars, noteVars
<1>2. TypeOK /\ Active(t) /\ task[t].op \in {"index", "extract"}
  BY <1>1 DEF Inv, Extracts
<1>3. PICK p \in Paths : p = task[t].p
  BY <1>1, <1>2, ExtractionPath
<1>4. PICK at \in XStages \ {"x queued"} : at = "x fail"
  BY DEF XStages
<1>5. Goto(t, at)
  BY <1>4 DEF _store_page_contents
<1>6. Steps(t, p) /\ ~MarkTask(t) /\ ~MarkTask(t)'
  BY <1>1, <1>3, <1>5, ExtractionGoes
<1>7. p \in tainted
  BY <1>1, <1>2, <1>3, Before DEF FollowInv, Follows
<1> QED
  BY <1>1, <1>6, <1>7, Spoiled

(* A file that cannot be read. *)
LEMMA NotReadStep ==
    ASSUME Inv, NEW t \in Tasks, _process_file(t), Goto(t, "x fail")
    PROVE  Inv'
<1>1. /\ Extracts(t) /\ task[t].at = "x read" /\ task[t].at \in XStages /\ NoStatement
      /\ UNCHANGED <<file, contents, ids, recent, events, acked>>
  BY DEF _process_file, XStages, fileVars, noteVars
<1>2. TypeOK /\ Active(t) /\ task[t].op \in {"index", "extract"}
  BY <1>1 DEF Inv, Extracts
<1>3. PICK p \in Paths : p = task[t].p
  BY <1>1, <1>2, ExtractionPath
<1>4. PICK at \in XStages \ {"x queued"} : at = "x fail"
  BY DEF XStages
<1>5. Goto(t, at)
  BY <1>4
<1>6. /\ Steps(t, p) /\ Queued(p)' = Queued(p) /\ file'[p] = file[p]
      /\ MarkTask(t)' = MarkTask(t) /\ Annotating(t)' = Annotating(t) /\ Marked(t)' = Marked(t)
      /\ ~MarkTask(t)' /\ Active(t)' /\ Working(t)' /\ ~Survives(t)' /\ Indexing(t)' = Indexing(t)
      /\ task'[t].p = p /\ task'[t].id = task[t].id /\ task'[t].c = task[t].c /\ task'[t].op = task[t].op
      /\ task'[t].at = at
  BY <1>1, <1>3, <1>5, ExtractionGoes
<1>7. db' = db /\ task'[t].at = "x fail"
  BY <1>1, <1>4, <1>6 DEF NoStatement
<1>8. ASSUME p \notin tainted
      PROVE  db[p] = committed[p] /\ TaskInv(t)' /\ (NothingToSee(p) => StepClaim(t)')
  <2>1. JobInv(t, p) /\ FollowInv(t) /\ StepInv(t) /\ (NothingToSee(p) => StepClaim(t))
    BY <1>2, <1>3, <1>8, Before
  <2>2. ~Dirty(t)
    BY <1>1 DEF Dirty
  <2>3. FollowInv(t)'
    <3>1. Mine(t) /\ task[t].id # 0
      BY <1>1, <1>2, <2>1 DEF FollowInv, Follows, HasRow, Indexing, WatchOps
    <3> QED
      BY <1>2, <1>3, <1>6, <1>7, <3>1 DEF FollowInv, Mine
  <2>4. MarkInv(t)'
    BY <1>2, <1>6 DEF MarkInv, Marked
  <2>5. StepInv(t)'
    BY <1>1, <1>2, <1>3, <1>6, <1>7, <2>1 DEF StepInv
  <2>6. NothingToSee(p) => StepClaim(t)'
    BY <1>1, <1>2, <1>3, <1>6, <1>7, <2>1 DEF StepClaim
  <2> QED
    BY <2>1, <2>2, <2>3, <2>4, <2>5, <2>6 DEF JobInv, TaskInv
<1> QED
  BY <1>1, <1>6, <1>8, Quiet

(* A file that is read. *)
LEMMA ReadStep ==
    ASSUME Inv, NEW t \in Tasks, _process_file(t), file[task[t].p] # 0,
           task' = [task EXCEPT ![t].c = file[task[t].p], ![t].at = "x chunks"]
    PROVE  Inv'
<1>1. /\ Extracts(t) /\ task[t].at = "x read" /\ task[t].at \in XStages /\ NoStatement
      /\ UNCHANGED <<file, contents, ids, recent, events, acked>>
  BY DEF _process_file, XStages, fileVars, noteVars
<1>2. TypeOK /\ Active(t) /\ task[t].op \in {"index", "extract"}
  BY <1>1 DEF Inv, Extracts
<1>3. PICK p \in Paths : p = task[t].p
  BY <1>1, <1>2, ExtractionPath
<1>4. PICK at \in Stages : at = "x chunks"
  BY DEF Stages, XStages
<1>5. PICK c \in Nat : c = file[p] /\ c # 0 /\ c <= contents
  BY <1>2, <1>3 DEF TypeOK, FileType, Inv, CountInv
<1>6. /\ task' = [task EXCEPT ![t] = [task[t] EXCEPT !.c = c, !.at = at]]
      /\ p \in BinaryPaths /\ StageOK(t) /\ acked' \in [Paths -> SUBSET Marks] /\ ids' \in Nat
  BY <1>1, <1>2, <1>3, <1>4, <1>5, ExtractionPath DEF TypeOK, TaskType, FileType
<1>7. /\ Steps(t, p) /\ Active(t)' /\ Queued(p)' = Queued(p) /\ file'[p] = file[p]
      /\ task'[t].op = task[t].op /\ task'[t].at = at /\ task'[t].p = p /\ task'[t].id = task[t].id /\ task'[t].c = c
  <2>1. CASE t = "watch"
    <3>1. task[t] \in WatchJobs
      BY <1>2, <2>1, WatchTask
    <3>2. PICK w \in WatchJobs : w = [task[t] EXCEPT !.c = c, !.at = at]
      BY <3>1 DEF WatchJobs
    <3>3. w.op = task[t].op /\ w.at = at /\ w.p = p /\ w.id = task[t].id /\ w.c = c /\ w.todo = task[t].todo
      BY <1>3, <3>1, <3>2 DEF WatchJobs
    <3>4. SetWatch(w)
      BY <1>6, <2>1, <3>2 DEF SetWatch
    <3>5. task'[t] = w
      BY <1>2, <2>1, <3>2, <3>4, Watching
    <3>6. StageOK(t)' /\ SamePhase(t, w.at)
      BY <1>1, <1>2, <1>3, <1>4, <1>6, <3>3, <3>5 DEF StageOK, MarkOps, ToolOps, WatchOps, SamePhase, XStages
    <3>7. /\ UNCHANGED <<file, contents, recent, events>> /\ ids' \in Nat /\ acked' = acked
          /\ Active(t) /\ task[t].p = p
      BY <1>1, <1>2, <1>3, <1>6
    <3>8. Steps(t, p) /\ Active(t)' /\ task'[t] = w /\ Queued(p)' = Queued(p) /\ file'[p] = file[p]
      BY <1>5, <2>1, <3>2, <3>3, <3>4, <3>6, <3>7, WatchGoesOnAs
    <3> QED
      BY <3>3, <3>8
  <2>2. CASE t # "watch"
    <3>1. t \in Slots
      BY <2>2 DEF Tasks
    <3>2. ~MarkTask(t) /\ ~Survives(t) /\ task[t].op = "extract"
      BY <1>2, <3>1, TaskFields DEF MarkTask, MarkOps, Survives, SlotOps, ToolOps
    <3>3. task[t] \in SlotJobs
      BY <1>2, <3>1, <3>2, SlotTask
    <3>4. PICK j \in SlotJobs : j = [task[t] EXCEPT !.c = c, !.at = at]
      BY <3>3 DEF SlotJobs
    <3>5. j.op = task[t].op /\ j.at = at /\ j.p = p /\ j.id = task[t].id /\ j.c = c
      BY <1>3, <3>3, <3>4 DEF SlotJobs
    <3>6. task' = [task EXCEPT ![t] = j]
      BY <1>6, <3>4
    <3>7. task'[t] = j
      BY <1>2, <3>1, <3>4, <3>6, Becoming
    <3>8. StageOK(t)'
      BY <1>3, <1>4, <1>6, <3>2, <3>5, <3>7 DEF StageOK, MarkOps, ToolOps, WatchOps, XStages
    <3> QED
      BY <1>1, <1>2, <1>3, <1>5, <1>6, <3>1, <3>2, <3>4, <3>5, <3>6, <3>7, <3>8, GoesOnAs
  <2> QED
    BY <2>1, <2>2
<1>8. /\ db' = db /\ task'[t].at = "x chunks" /\ ~MarkTask(t) /\ ~MarkTask(t)' /\ Working(t)' /\ ~Survives(t)'
      /\ MarkTask(t)' = MarkTask(t) /\ Annotating(t)' = Annotating(t) /\ Marked(t)' = Marked(t)
      /\ Indexing(t)' = Indexing(t)
  BY <1>1, <1>2, <1>4, <1>7
     DEF NoStatement, MarkTask, MarkOps, Working, Survives, Annotating, Marked, Indexing, WatchOps
<1>9. ASSUME p \notin tainted
      PROVE  db[p] = committed[p] /\ TaskInv(t)' /\ (NothingToSee(p) => StepClaim(t)')
  <2>1. JobInv(t, p) /\ FollowInv(t) /\ StepInv(t) /\ StillInv(p)
    BY <1>2, <1>3, <1>9, Before
  <2>2. ~Dirty(t)
    BY <1>1 DEF Dirty
  <2>3. FollowInv(t)'
    <3>1. Mine(t) /\ task[t].id # 0
      BY <1>1, <1>2, <2>1 DEF FollowInv, Follows, HasRow, Indexing, WatchOps
    <3> QED
      BY <1>2, <1>3, <1>7, <1>8, <3>1 DEF FollowInv, Mine
  <2>4. MarkInv(t)'
    BY <1>2, <1>7, <1>8 DEF MarkInv, Marked
  <2>5. StepInv(t)'
    <3>1. db[p].hash <= c
      BY <1>5, <2>1 DEF StillInv, RowOfFile, NotNewer
    <3>2. NotNewer(c, p)'
      <4>1. file'[p] = c
        BY <1>5, <1>7
      <4> QED
        BY <4>1, AsNew
    <3>3. db[p].status = "processing"
      BY <1>1, <1>3, <2>1 DEF StepInv
    <3> QED
      BY <1>2, <1>5, <1>7, <1>8, <3>1, <3>2, <3>3 DEF StepInv
  <2>6. StepClaim(t)'
    BY <1>2, <1>5, <1>7, <1>8 DEF StepClaim
  <2> QED
    BY <2>1, <2>2, <2>3, <2>4, <2>5, <2>6 DEF JobInv, TaskInv
<1> QED
  BY <1>1, <1>7, <1>8, <1>9, Quiet

(* The steps of an extraction. *)
LEMMA ExtractionSteps ==
    ASSUME Inv, NEW t \in Tasks, ExtractionStep(t)
    PROVE  Inv'
<1>1. CASE process_document(t)
  <2>1. CASE ~Mine(t) \/ Row(t).status \notin {"pending", "processing"}
    BY <1>1, <2>1, ProcessNothingStep
  <2>2. CASE Mine(t) /\ Row(t).status \in {"pending", "processing"}
    BY <1>1, <2>2, ProcessMissingStep, ProcessStartStep
  <2> QED
    BY <2>1, <2>2
<1>2. CASE _process_file(t)
  BY <1>2, NotReadStep, ReadStep DEF _process_file
<1>3. CASE _store_page_contents(t)
  BY <1>3, StorePagesStep, StoreNothingStep
<1> QED
  BY <1>1, <1>2, <1>3, CommitQueuedStep, CommitStartedStep, ReadyStep, FailStep, EndExtractionStep DEF ExtractionStep

--------------------------------------------------------------------------------
(* The indexing of a file by the watcher, or by the scan at startup. *)

(* The watcher is at a file. *)
LEMMA WatchPath ==
    ASSUME TypeOK, NEW t \in Tasks, t = "watch", Active(t), task[t].at # "next"
    PROVE  /\ task[t].p \in Paths /\ task[t].op \in WatchOps /\ ~MarkTask(t) /\ ~Survives(t) /\ Indexing(t)
           /\ StageOK(t)
<1>1. task[t].op \in WatchOps /\ StageOK(t)
  BY TaskFields DEF TypeOK
<1> QED
  BY <1>1 DEF StageOK, WatchOps, MarkTask, MarkOps, Survives, Indexing

(* The pages and chunks of a binary file that changed are removed. *)
LEMMA ClearRowsStep ==
    ASSUME Inv, NEW t \in Tasks, _clear_extracted_rows, t = "watch"
    PROVE  Inv'
<1>1. /\ t \in Tasks /\ Active(t) /\ task[t].op \in WatchOps /\ task[t].at = "clear" /\ task[t].at # "next" /\ TypeOK
  BY TaskFields DEF Inv, TypeOK, _clear_extracted_rows, Is, Active, Tasks, WatchOps, Watch
<1>2. PICK p \in Paths : p = task[t].p
  BY <1>1, WatchPath
<1>3. PICK at \in Stages : at = "row"
  BY DEF Stages, IndexStages, XStages
<1>4. PICK row : row = IF Mine(t) THEN [db[p] EXCEPT !.chunks = 0, !.ann = {}] ELSE db[p]
  OBVIOUS
<1>5. /\ task[t].id \in Nat /\ task[t].c \in Nat /\ task[t].c <= contents /\ db[p] \in Rows /\ file[p] \in Nat
      /\ db[p].hash <= contents /\ db[p].text <= contents /\ ~(p \in TextPaths /\ p \in BinaryPaths) /\ p \in BinaryPaths /\ p \notin TextPaths
  BY <1>1, <1>2, Before DEF StageOK, WatchOps, XStages, IndexStages
<1>6. row \in Rows /\ row.hash <= contents /\ row.text <= contents /\ Execute(t, p, row)
  BY <1>1, <1>2, <1>4, <1>5 DEF Rows, _clear_extracted_rows, Watch, Row
<1>7. Goto(t, at) /\ UNCHANGED <<file, contents, ids, recent, events>> /\ acked' = acked
  BY <1>1, <1>2, <1>3 DEF _clear_extracted_rows, Watch, fileVars, noteVars
<1>8. StageOK(t)' /\ SamePhase(t, at)
  BY <1>1, <1>2, <1>3, <1>5, <1>7, Going DEF StageOK, MarkOps, ToolOps, WatchOps, SamePhase, WatchOps, XStages, IndexStages
<1>9. /\ Steps(t, p) /\ On(t, p)' /\ Active(t)' /\ MarkTask(t)' = MarkTask(t)
      /\ task'[t].op = task[t].op /\ task'[t].p = p /\ task'[t].id = task[t].id
      /\ task'[t].c = task[t].c /\ task'[t].at = at /\ Queued(p)' = Queued(p) /\ file'[p] = file[p]
  BY <1>1, <1>2, <1>7, <1>8, GoesOn DEF TypeOK, FileType
<1>10. ASSUME p \notin tainted, p \notin tainted'
       PROVE  /\ row.id = 0 => row = NoRow
              /\ RowOfFile(row, p)
              /\ Queued(p)' => p \in BinaryPaths /\ row.status # "removed"
              /\ acked'[p] \subseteq acked[p]
              /\ row.ann \subseteq row.marks \/ Annotating(t)'
              /\ acked'[p] \subseteq row.marks \/ Marked(t)'
              /\ Dirty(t)' /\ TaskInv(t)'
              /\ NothingToSee(p) => StepClaim(t)' /\ (Working(t)' \/ Settled(p)')
  <2>1. /\ StillInv(p) /\ FollowInv(t) /\ MarkInv(t) /\ StepInv(t) /\ JobInv(t, p) /\ (NothingToSee(p) => StepClaim(t))
    BY <1>1, <1>2, <1>10, Before
  <2>2. db[p].id = task[t].id /\ task[t].id # 0
    BY <1>1, <1>2, <2>1 DEF FollowInv, Follows, HasRow, Mine, Indexing, WatchOps
  <2>3. /\ row.id = db[p].id /\ row.status = db[p].status /\ row.text = db[p].text /\ row.hash = db[p].hash
        /\ row.chunks = 0 /\ row.marks = db[p].marks /\ row.ann = {}
        /\ row.hash \in Nat /\ db'[p] = row
    <3>1. Mine(t)
      BY <1>2, <2>2 DEF Mine
    <3>2. db'[p] = row
      BY <1>1, <1>6, Executing
    <3> QED
      BY <1>4, <1>5, <3>1, <3>2 DEF Rows
  <2>4. /\ Indexing(t)' /\ ~Survives(t)' /\ Dirty(t)' /\ Working(t)' /\ ~MarkTask(t)' /\ ~MarkTask(t) /\ ~Annotating(t) /\ ~Marked(t)
        /\ task'[t].op \in {"boot", "index"} /\ task'[t].at = "row"
    BY <1>1, <1>3, <1>9 DEF MarkTask, MarkOps, Indexing, WatchOps, Survives, Dirty, Working, Annotating, Marked
  <2>5. NotNewer(task[t].c, p) /\ task[t].c # 0
    BY <1>1, <1>2, <1>5, <2>1, <2>3 DEF StepInv, StillInv, NotNewer, Indexing
  <2>6. RowOfFile(row, p)
    BY <1>5, <2>1, <2>3, <2>5 DEF StillInv, RowOfFile, NotNewer
  <2>7. TaskInv(t)'
    <3>1. FollowInv(t)'
      BY <1>9, <2>2, <2>3, <2>4 DEF FollowInv, Mine, Follows, HasRow
    <3>2. MarkInv(t)'
      BY <1>9, <2>3, <2>4 DEF MarkInv, Marked
    <3>3. StepInv(t)'
      BY <1>9, <2>3, <2>4, <2>5 DEF StepInv, NotNewer
    <3> QED
      BY <3>1, <3>2, <3>3 DEF TaskInv
  <2>8. NothingToSee(p) => StepClaim(t)'
    BY <1>1, <1>2, <1>5, <1>9, <2>1, <2>3, <2>4, <2>5 DEF StepClaim, Indexed, WatchOps, Indexing
  <2> QED
    BY <1>5, <1>7, <1>9, <2>1, <2>2, <2>3, <2>4, <2>5, <2>6, <2>7, <2>8 DEF JobInv, StillInv
<1>11. tainted \subseteq tainted'
  BY <1>6 DEF Execute
<1> QED
  BY <1>1, <1>6, <1>9, <1>10, <1>11, Statement

(* The row of a file that changed. *)
LEMMA UpdateRowStep ==
    ASSUME Inv, NEW t \in Tasks, UpdateRow, t = "watch"
    PROVE  Inv'
<1>1. /\ t \in Tasks /\ Active(t) /\ task[t].op \in WatchOps /\ task[t].at = "row" /\ task[t].at # "next" /\ TypeOK
  BY TaskFields DEF Inv, TypeOK, UpdateRow, Is, Active, Tasks, WatchOps, Watch
<1>2. PICK p \in Paths : p = task[t].p
  BY <1>1, WatchPath
<1>3. PICK at \in Stages : at = "commit"
  BY DEF Stages, IndexStages, XStages
<1>4. PICK row : row = IF Mine(t) THEN [db[p] EXCEPT !.status = StatusOf(p), !.hash = task[t].c, !.text = IF p \in TextPaths THEN task[t].c ELSE 0] ELSE db[p]
  OBVIOUS
<1>5. /\ task[t].id \in Nat /\ task[t].c \in Nat /\ task[t].c <= contents /\ db[p] \in Rows /\ file[p] \in Nat
      /\ db[p].hash <= contents /\ db[p].text <= contents /\ ~(p \in TextPaths /\ p \in BinaryPaths)
  BY <1>1, <1>2, Before DEF StageOK, WatchOps, XStages, IndexStages
<1>6. row \in Rows /\ row.hash <= contents /\ row.text <= contents /\ Execute(t, p, row)
  <2>1. StatusOf(p) \in Statuses
    BY DEF StatusOf, Statuses
  <2>2. PICK tx \in Nat : tx = (IF p \in TextPaths THEN task[t].c ELSE 0) /\ tx <= contents
    BY <1>1, <1>5 DEF TypeOK, FileType
  <2>3. row = IF Mine(t) THEN [db[p] EXCEPT !.status = StatusOf(p), !.hash = task[t].c, !.text = tx] ELSE db[p]
    BY <1>4, <2>2
  <2>4. row \in Rows /\ row.hash <= contents /\ row.text <= contents
    BY <1>5, <2>1, <2>2, <2>3 DEF Rows
  <2>5. Execute(t, p, row)
    BY <1>1, <1>2, <1>4 DEF UpdateRow, Watch, Watch
  <2> QED
    BY <2>4, <2>5
<1>7. Goto(t, at) /\ UNCHANGED <<file, contents, ids, recent, events>> /\ acked' = acked
  BY <1>1, <1>2, <1>3 DEF UpdateRow, Watch, fileVars, noteVars
<1>8. StageOK(t)' /\ SamePhase(t, at)
  BY <1>1, <1>2, <1>3, <1>5, <1>7, Going DEF StageOK, MarkOps, ToolOps, WatchOps, SamePhase, WatchOps, XStages, IndexStages
<1>9. /\ Steps(t, p) /\ On(t, p)' /\ Active(t)' /\ MarkTask(t)' = MarkTask(t)
      /\ task'[t].op = task[t].op /\ task'[t].p = p /\ task'[t].id = task[t].id
      /\ task'[t].c = task[t].c /\ task'[t].at = at /\ Queued(p)' = Queued(p) /\ file'[p] = file[p]
  BY <1>1, <1>2, <1>7, <1>8, GoesOn DEF TypeOK, FileType
<1>10. ASSUME p \notin tainted, p \notin tainted'
       PROVE  /\ row.id = 0 => row = NoRow
              /\ RowOfFile(row, p)
              /\ Queued(p)' => p \in BinaryPaths /\ row.status # "removed"
              /\ acked'[p] \subseteq acked[p]
              /\ row.ann \subseteq row.marks \/ Annotating(t)'
              /\ acked'[p] \subseteq row.marks \/ Marked(t)'
              /\ Dirty(t)' /\ TaskInv(t)'
              /\ NothingToSee(p) => StepClaim(t)' /\ (Working(t)' \/ Settled(p)')
  <2>1. /\ StillInv(p) /\ FollowInv(t) /\ MarkInv(t) /\ StepInv(t) /\ JobInv(t, p) /\ (NothingToSee(p) => StepClaim(t))
    BY <1>1, <1>2, <1>10, Before
  <2>2. db[p].id = task[t].id /\ task[t].id # 0
    BY <1>1, <1>2, <2>1 DEF FollowInv, Follows, HasRow, Mine, Indexing, WatchOps
  <2>3. /\ row.id = db[p].id /\ row.status = StatusOf(p) /\ row.text = (IF p \in TextPaths THEN task[t].c ELSE 0) /\ row.hash = task[t].c
        /\ row.chunks = db[p].chunks /\ row.marks = db[p].marks /\ row.ann = db[p].ann
        /\ row.hash \in Nat /\ db'[p] = row
    <3>1. Mine(t)
      BY <1>2, <2>2 DEF Mine
    <3>2. db'[p] = row
      BY <1>1, <1>6, Executing
    <3> QED
      BY <1>4, <1>5, <3>1, <3>2 DEF Rows, Statuses, StatusOf
  <2>4. /\ Indexing(t)' /\ ~Survives(t)' /\ Dirty(t)' /\ Working(t)' /\ ~MarkTask(t)' /\ ~MarkTask(t) /\ ~Annotating(t) /\ ~Marked(t)
        /\ task'[t].op \in {"boot", "index"} /\ task'[t].at = "commit"
    BY <1>1, <1>3, <1>9 DEF MarkTask, MarkOps, Indexing, WatchOps, Survives, Dirty, Working, Annotating, Marked
  <2>5. /\ NotNewer(task[t].c, p) /\ task[t].c # 0 /\ (p \in BinaryPaths => row.status = "pending") /\ row.text \in {0, task[t].c}
        /\ (p \in TextPaths => row.text = task[t].c)/\ (p \in BinaryPaths => row.text = 0)/\ row.status # "removed" /\ row.status # "none"
    BY <1>1, <1>2, <1>5, <2>1, <2>3 DEF StepInv, StillInv, NotNewer, Indexing, StatusOf
  <2>6. RowOfFile(row, p)
    BY <1>5, <2>1, <2>3, <2>5 DEF StillInv, RowOfFile, NotNewer
  <2>7. TaskInv(t)'
    <3>1. FollowInv(t)'
      BY <1>9, <2>2, <2>3, <2>4 DEF FollowInv, Mine, Follows, HasRow
    <3>2. MarkInv(t)'
      BY <1>9, <2>3, <2>4 DEF MarkInv, Marked
    <3>3. StepInv(t)'
      BY <1>9, <2>3, <2>4, <2>5 DEF StepInv, NotNewer
    <3> QED
      BY <3>1, <3>2, <3>3 DEF TaskInv
  <2>8. NothingToSee(p) => StepClaim(t)'
    BY <1>1, <1>2, <1>5, <1>9, <2>1, <2>3, <2>4, <2>5 DEF StepClaim, Indexed, WatchOps, Indexing
  <2> QED
    BY <1>5, <1>7, <1>9, <2>1, <2>2, <2>3, <2>4, <2>5, <2>6, <2>7, <2>8 DEF JobInv, StillInv
<1>11. tainted \subseteq tainted'
  BY <1>6 DEF Execute
<1> QED
  BY <1>1, <1>6, <1>9, <1>10, <1>11, Statement

(* The chunks of a text. *)
LEMMA IndexChunksStep ==
    ASSUME Inv, NEW t \in Tasks, IndexChunks, Mine("watch"), t = "watch"
    PROVE  Inv'
<1>1. /\ t \in Tasks /\ Active(t) /\ task[t].op \in WatchOps /\ task[t].at = "chunks" /\ task[t].at # "next" /\ TypeOK
  BY TaskFields DEF Inv, TypeOK, IndexChunks, Is, Active, Tasks, WatchOps, Watch
<1>2. PICK p \in Paths : p = task[t].p
  BY <1>1, WatchPath
<1>3. PICK at \in Stages : at = "commit chunks"
  BY DEF Stages, IndexStages, XStages
<1>4. PICK row : row = [db[p] EXCEPT !.chunks = task[t].c, !.ann = {}]
  OBVIOUS
<1>5. /\ task[t].id \in Nat /\ task[t].c \in Nat /\ task[t].c <= contents /\ db[p] \in Rows /\ file[p] \in Nat
      /\ db[p].hash <= contents /\ db[p].text <= contents /\ ~(p \in TextPaths /\ p \in BinaryPaths) /\ p \in TextPaths /\ p \notin BinaryPaths
  BY <1>1, <1>2, Before DEF StageOK, WatchOps, XStages, IndexStages
<1>6. row \in Rows /\ row.hash <= contents /\ row.text <= contents /\ Execute(t, p, row)
  BY <1>1, <1>2, <1>4, <1>5 DEF Rows, IndexChunks, Watch, Row
<1>7. Goto(t, at) /\ UNCHANGED <<file, contents, ids, recent, events>> /\ acked' = acked
  BY <1>1, <1>2, <1>3 DEF IndexChunks, Watch, fileVars, noteVars
<1>8. StageOK(t)' /\ SamePhase(t, at)
  BY <1>1, <1>2, <1>3, <1>5, <1>7, Going DEF StageOK, MarkOps, ToolOps, WatchOps, SamePhase, WatchOps, XStages, IndexStages
<1>9. /\ Steps(t, p) /\ On(t, p)' /\ Active(t)' /\ MarkTask(t)' = MarkTask(t)
      /\ task'[t].op = task[t].op /\ task'[t].p = p /\ task'[t].id = task[t].id
      /\ task'[t].c = task[t].c /\ task'[t].at = at /\ Queued(p)' = Queued(p) /\ file'[p] = file[p]
  BY <1>1, <1>2, <1>7, <1>8, GoesOn DEF TypeOK, FileType
<1>10. ASSUME p \notin tainted, p \notin tainted'
       PROVE  /\ row.id = 0 => row = NoRow
              /\ RowOfFile(row, p)
              /\ Queued(p)' => p \in BinaryPaths /\ row.status # "removed"
              /\ acked'[p] \subseteq acked[p]
              /\ row.ann \subseteq row.marks \/ Annotating(t)'
              /\ acked'[p] \subseteq row.marks \/ Marked(t)'
              /\ Dirty(t)' /\ TaskInv(t)'
              /\ NothingToSee(p) => StepClaim(t)' /\ (Working(t)' \/ Settled(p)')
  <2>1. /\ StillInv(p) /\ FollowInv(t) /\ MarkInv(t) /\ StepInv(t) /\ JobInv(t, p) /\ (NothingToSee(p) => StepClaim(t))
    BY <1>1, <1>2, <1>10, Before
  <2>2. db[p].id = task[t].id /\ task[t].id # 0
    BY <1>1, <1>2, <2>1 DEF FollowInv, Follows, HasRow, Mine, Indexing, WatchOps
  <2>3. /\ row.id = db[p].id /\ row.status = db[p].status /\ row.text = db[p].text /\ row.hash = db[p].hash
        /\ row.chunks = task[t].c /\ row.marks = db[p].marks /\ row.ann = {}
        /\ row.hash \in Nat /\ db'[p] = row
    <3>1. Mine(t)
      BY <1>2, <2>2 DEF Mine
    <3>2. db'[p] = row
      BY <1>1, <1>6, Executing
    <3> QED
      BY <1>4, <1>5, <3>1, <3>2 DEF Rows
  <2>4. /\ Indexing(t)' /\ ~Survives(t)' /\ Dirty(t)' /\ Working(t)' /\ ~MarkTask(t)' /\ ~MarkTask(t) /\ ~Annotating(t) /\ ~Marked(t)
        /\ task'[t].op \in {"boot", "index"} /\ task'[t].at = "commit chunks"
    BY <1>1, <1>3, <1>9 DEF MarkTask, MarkOps, Indexing, WatchOps, Survives, Dirty, Working, Annotating, Marked
  <2>5. NotNewer(task[t].c, p) /\ task[t].c # 0
    BY <1>1, <1>2, <1>5, <2>1, <2>3 DEF StepInv, StillInv, NotNewer, Indexing
  <2>6. RowOfFile(row, p)
    BY <1>5, <2>1, <2>3, <2>5 DEF StillInv, RowOfFile, NotNewer
  <2>7. TaskInv(t)'
    <3>1. FollowInv(t)'
      BY <1>9, <2>2, <2>3, <2>4 DEF FollowInv, Mine, Follows, HasRow
    <3>2. MarkInv(t)'
      BY <1>9, <2>3, <2>4 DEF MarkInv, Marked
    <3>3. StepInv(t)'
      BY <1>9, <2>3, <2>4, <2>5 DEF StepInv, NotNewer
    <3> QED
      BY <3>1, <3>2, <3>3 DEF TaskInv
  <2>8. NothingToSee(p) => StepClaim(t)'
    BY <1>1, <1>2, <1>5, <1>9, <2>1, <2>3, <2>4, <2>5 DEF StepClaim, Indexed, WatchOps, Indexing
  <2> QED
    BY <1>5, <1>7, <1>9, <2>1, <2>2, <2>3, <2>4, <2>5, <2>6, <2>7, <2>8 DEF JobInv, StillInv
<1>11. tainted \subseteq tainted'
  BY <1>6 DEF Execute
<1> QED
  BY <1>1, <1>6, <1>9, <1>10, <1>11, Statement

(* The row of a file that is gone. *)
LEMMA MarkDeletedStep ==
    ASSUME Inv, NEW t \in Tasks, mark_source_deleted, ~(Watch.id = 0 \/ ~Mine("watch")), t = "watch"
    PROVE  Inv'
<1>1. /\ t \in Tasks /\ Active(t) /\ task[t].op \in WatchOps /\ task[t].at = "gone" /\ task[t].at # "next" /\ TypeOK
  BY TaskFields DEF Inv, TypeOK, mark_source_deleted, Is, Active, Tasks, WatchOps, Watch
<1>2. PICK p \in Paths : p = task[t].p
  BY <1>1, WatchPath
<1>3. PICK at \in Stages : at = "commit gone"
  BY DEF Stages, IndexStages, XStages
<1>4. PICK row : row = [db[p] EXCEPT !.status = "removed"]
  OBVIOUS
<1>5. /\ task[t].id \in Nat /\ task[t].c \in Nat /\ task[t].c <= contents /\ db[p] \in Rows /\ file[p] \in Nat
      /\ db[p].hash <= contents /\ db[p].text <= contents /\ ~(p \in TextPaths /\ p \in BinaryPaths)
  BY <1>1, <1>2, Before DEF StageOK, WatchOps, XStages, IndexStages
<1>6. row \in Rows /\ row.hash <= contents /\ row.text <= contents /\ Execute(t, p, row)
  BY <1>1, <1>2, <1>4, <1>5 DEF Rows, mark_source_deleted, Watch, Row, Statuses
<1>7. Goto(t, at) /\ UNCHANGED <<file, contents, ids, recent, events>> /\ acked' = acked
  BY <1>1, <1>2, <1>3 DEF mark_source_deleted, Watch, fileVars, noteVars
<1>8. StageOK(t)' /\ SamePhase(t, at)
  BY <1>1, <1>2, <1>3, <1>5, <1>7, Going DEF StageOK, MarkOps, ToolOps, WatchOps, SamePhase, WatchOps, XStages, IndexStages
<1>9. /\ Steps(t, p) /\ On(t, p)' /\ Active(t)' /\ MarkTask(t)' = MarkTask(t)
      /\ task'[t].op = task[t].op /\ task'[t].p = p /\ task'[t].id = task[t].id
      /\ task'[t].c = task[t].c /\ task'[t].at = at /\ Queued(p)' = Queued(p) /\ file'[p] = file[p]
  BY <1>1, <1>2, <1>7, <1>8, GoesOn DEF TypeOK, FileType
<1>10. ASSUME p \notin tainted, p \notin tainted'
       PROVE  /\ row.id = 0 => row = NoRow
              /\ RowOfFile(row, p)
              /\ Queued(p)' => p \in BinaryPaths /\ row.status # "removed"
              /\ acked'[p] \subseteq acked[p]
              /\ row.ann \subseteq row.marks \/ Annotating(t)'
              /\ acked'[p] \subseteq row.marks \/ Marked(t)'
              /\ Dirty(t)' /\ TaskInv(t)'
              /\ NothingToSee(p) => StepClaim(t)' /\ (Working(t)' \/ Settled(p)')
  <2>1. /\ StillInv(p) /\ FollowInv(t) /\ MarkInv(t) /\ StepInv(t) /\ JobInv(t, p) /\ (NothingToSee(p) => StepClaim(t))
    BY <1>1, <1>2, <1>10, Before
  <2>2. db[p].id = task[t].id /\ task[t].id # 0
    BY <1>1, <1>2 DEF Watch, Mine
  <2>3. /\ row.id = db[p].id /\ row.status = "removed" /\ row.text = db[p].text /\ row.hash = db[p].hash
        /\ row.chunks = db[p].chunks /\ row.marks = db[p].marks /\ row.ann = db[p].ann
        /\ row.hash \in Nat /\ db'[p] = row
    <3>1. Mine(t)
      BY <1>2, <2>2 DEF Mine
    <3>2. db'[p] = row
      BY <1>1, <1>6, Executing
    <3> QED
      BY <1>4, <1>5, <3>1, <3>2 DEF Rows
  <2>4. /\ Indexing(t)' /\ ~Survives(t)' /\ Dirty(t)' /\ Working(t)' /\ ~MarkTask(t)' /\ ~MarkTask(t) /\ ~Annotating(t) /\ ~Marked(t)
        /\ task'[t].op \in {"boot", "index"} /\ task'[t].at = "commit gone"
    BY <1>1, <1>3, <1>9 DEF MarkTask, MarkOps, Indexing, WatchOps, Survives, Dirty, Working, Annotating, Marked
  <2>5. (file[p] = 0 \/ db[p].hash # file[p]) /\ ~Queued(p) /\ NotNewer(task[t].c, p)
    BY <1>1, <1>2, <1>5, <2>1, <2>3 DEF StepInv, StillInv, NotNewer, Indexing, Queued, XStages
  <2>6. RowOfFile(row, p)
    BY <1>5, <2>1, <2>3, <2>5 DEF StillInv, RowOfFile, NotNewer
  <2>7. TaskInv(t)'
    <3>1. FollowInv(t)'
      BY <1>9, <2>2, <2>3, <2>4 DEF FollowInv, Mine, Follows, HasRow
    <3>2. MarkInv(t)'
      BY <1>9, <2>3, <2>4 DEF MarkInv, Marked
    <3>3. StepInv(t)'
      BY <1>9, <2>3, <2>4, <2>5 DEF StepInv, NotNewer
    <3> QED
      BY <3>1, <3>2, <3>3 DEF TaskInv
  <2>8. NothingToSee(p) => StepClaim(t)'
    BY <1>1, <1>2, <1>5, <1>9, <2>1, <2>3, <2>4, <2>5 DEF StepClaim, Indexed, WatchOps, Indexing
  <2> QED
    BY <1>5, <1>7, <1>9, <2>1, <2>2, <2>3, <2>4, <2>5, <2>6, <2>7, <2>8 DEF JobInv, StillInv
<1>11. tainted \subseteq tainted'
  BY <1>6 DEF Execute
<1> QED
  BY <1>1, <1>6, <1>9, <1>10, <1>11, Statement

(* A step of the indexing from one stage to the next. *)
LEMMA WatchGoes ==
    ASSUME Inv, NEW t \in Tasks, t = "watch", Active(t), NEW p \in Paths, task[t].p = p, task[t].at \in IndexStages,
           NEW at \in IndexStages \cup {"next"}, Goto(t, at),
           at = "chunks" => p \in TextPaths, at = "clear" => p \in BinaryPaths,
           UNCHANGED <<file, contents, ids, recent, events, acked>>
    PROVE  /\ Steps(t, p) /\ Queued(p)' = Queued(p) /\ ~Queued(p) /\ file'[p] = file[p]
           /\ ~MarkTask(t) /\ ~MarkTask(t)' /\ MarkTask(t)' = MarkTask(t)
           /\ Annotating(t)' = Annotating(t) /\ Marked(t)' = Marked(t) /\ ~Marked(t) /\ ~Annotating(t)
           /\ Active(t)' /\ ~Survives(t)' /\ Indexing(t) /\ Indexing(t)'
           /\ task[t].op \in {"index", "boot"} /\ task'[t].op = task[t].op /\ task'[t].p = p
           /\ task'[t].id = task[t].id /\ task'[t].c = task[t].c /\ task'[t].at = at
<1>1. TypeOK /\ acked' \in [Paths -> SUBSET Marks] /\ StageOK(t) /\ task[t].op \in {"index", "boot"} /\ at \in Stages
  BY TaskFields DEF Inv, TypeOK, FileType, WatchOps, Stages
<1>2. StageOK(t)' /\ SamePhase(t, at)
  <2>1. task'[t].op = task[t].op /\ task'[t].at = at /\ task'[t].p = p
    BY <1>1, Going
  <2> QED
    BY <1>1, <2>1 DEF StageOK, MarkOps, ToolOps, WatchOps, SamePhase, XStages, IndexStages
<1>3. /\ Steps(t, p) /\ Queued(p)' = Queued(p) /\ file'[p] = file[p] /\ MarkTask(t)' = MarkTask(t) /\ Active(t)'
      /\ task'[t].op = task[t].op /\ task'[t].p = p /\ task'[t].id = task[t].id /\ task'[t].c = task[t].c /\ task'[t].at = at
  BY <1>1, <1>2, GoesOn
<1>4. /\ ~MarkTask(t) /\ ~Marked(t) /\ ~Annotating(t) /\ ~MarkTask(t)' /\ ~Survives(t)'
      /\ Indexing(t) /\ Indexing(t)' /\ Annotating(t)' = Annotating(t) /\ Marked(t)' = Marked(t)
  BY <1>1, <1>3 DEF MarkTask, MarkOps, Marked, Annotating, Survives, Indexing, WatchOps
<1>5. ~Queued(p)
  BY <1>1 DEF Queued, XStages, IndexStages
<1> QED
  BY <1>1, <1>3, <1>4, <1>5

(* The watcher has come to the end of a file. *)
LEMMA WatchRests ==
    ASSUME NEW t \in Tasks, task'[t].op \in {"index", "boot"}, task'[t].at \in {"next", "extract"}
    PROVE  TaskInv(t)' /\ StepClaim(t)'
<1>1. ~Follows(t)' /\ ~HasRow(t)' /\ ~MarkTask(t)' /\ ~Marked(t)' /\ ~Survives(t)'
  BY DEF Follows, HasRow, MarkTask, MarkOps, Marked, Survives
<1>2. FollowInv(t)'
  BY <1>1 DEF FollowInv
<1>3. MarkInv(t)'
  BY <1>1 DEF MarkInv
<1>4. StepInv(t)'
  BY DEF StepInv
<1>5. StepClaim(t)'
  BY <1>1 DEF StepClaim
<1> QED
  BY <1>2, <1>3, <1>4, <1>5 DEF TaskInv

(* The row of a file is committed. *)
LEMMA CommitRowStep ==
    ASSUME Inv, NEW t \in Tasks, t = "watch", CommitRow
    PROVE  Inv'
<1>1. /\ Active(t) /\ task[t].at = "commit" /\ task[t].at \in IndexStages /\ task[t].at # "next" /\ Commit(t)
      /\ UNCHANGED <<file, contents, ids, recent, events, acked>>
  BY DEF CommitRow, Watch, IndexStages, fileVars, noteVars
<1>2. TypeOK
  BY DEF Inv
<1>3. PICK p \in Paths : p = task[t].p
  BY <1>1, <1>2, WatchPath
<1>4. PICK at \in IndexStages \cup {"next"} : at = (IF p \in TextPaths THEN "chunks" ELSE "next")
  BY DEF IndexStages
<1>5. Goto(t, at)
  BY <1>3, <1>4 DEF CommitRow, Watch
<1>6. /\ Steps(t, p) /\ Queued(p)' = Queued(p) /\ file'[p] = file[p] /\ ~Annotating(t) /\ ~Marked(t)
      /\ ~MarkTask(t)' /\ Active(t)' /\ ~Survives(t)' /\ Indexing(t) /\ Indexing(t)'
      /\ task'[t].p = p /\ task'[t].id = task[t].id /\ task'[t].c = task[t].c /\ task'[t].op = task[t].op
      /\ task'[t].at = at /\ task[t].op \in {"index", "boot"}
  BY <1>1, <1>3, <1>4, <1>5, WatchGoes
<1>7. db' = db /\ tainted \subseteq tainted'
  BY <1>1 DEF Commit
<1>8. ASSUME p \notin tainted
      PROVE  /\ acked'[p] \subseteq db[p].marks /\ db[p].ann \subseteq db[p].marks
             /\ TaskInv(t)' /\ (NothingToSee(p) => StepClaim(t)' /\ (Settled(p)' \/ Working(t)'))
  <2>1. JobInv(t, p) /\ FollowInv(t) /\ StepInv(t) /\ (NothingToSee(p) => StepClaim(t))
    BY <1>1, <1>3, <1>8, Before
  <2>2. task[t].c # 0 /\ NotNewer(task[t].c, p) /\ Mine(t) /\ task[t].id # 0
        /\ (p \in BinaryPaths => db[p].status = "pending")
    BY <1>1, <1>3, <1>6, <2>1 DEF StepInv, FollowInv, Follows, HasRow
  <2>3. NothingToSee(p) => task[t].c = file[p] /\ (p \in TextPaths => db[p].text = task[t].c)
    BY <1>1, <1>3, <1>6, <2>1 DEF StepClaim, WatchOps
  <2>4. CASE p \in TextPaths
    <3>1. task'[t].at = "chunks"
      BY <1>4, <1>6, <2>4
    <3>2. Working(t)'
      BY <1>6, <3>1 DEF Working
    <3>3. FollowInv(t)'
      BY <1>3, <1>6, <1>7, <2>2, <3>1 DEF FollowInv, Mine
    <3>4. MarkInv(t)'
      BY <1>6, <3>1 DEF MarkInv, Marked
    <3>5. StepInv(t)'
      BY <1>6, <2>2, <3>1 DEF StepInv, NotNewer
    <3>6. NothingToSee(p) => StepClaim(t)'
      BY <1>6, <1>7, <2>3, <3>1 DEF StepClaim
    <3> QED
      BY <1>1, <1>6, <2>1, <3>2, <3>3, <3>4, <3>5, <3>6 DEF JobInv, TaskInv
  <2>5. CASE p \notin TextPaths
    <3>1. task'[t].at = "next" /\ p \in BinaryPaths
      BY <1>4, <1>6, <2>5 DEF Paths
    <3>2. WillExtract(p)'
      BY <1>6, <3>1 DEF WillExtract
    <3>3. NothingToSee(p) => Settled(p)'
      BY <1>6, <1>7, <2>2, <2>3, <3>1, <3>2 DEF Settled
    <3>4. TaskInv(t)' /\ StepClaim(t)'
      <4>1. task'[t].op \in {"index", "boot"}
        BY <1>6
      <4> QED
        BY <3>1, <4>1, WatchRests
    <3> QED
      BY <1>1, <1>6, <2>1, <3>3, <3>4 DEF JobInv
  <2> QED
    BY <2>4, <2>5
<1> QED
  BY <1>1, <1>6, <1>7, <1>8, Committing

(* The chunks of a file, or that it is gone, are committed. *)
LEMMA CommitChunksStep ==
    ASSUME Inv, NEW t \in Tasks, t = "watch", CommitChunks
    PROVE  Inv'
<1>1. /\ Active(t) /\ task[t].at \in {"commit chunks", "commit gone"} /\ task[t].at \in IndexStages /\ task[t].at # "next"
      /\ Commit(t) /\ UNCHANGED <<file, contents, ids, recent, events, acked>>
  BY DEF CommitChunks, Watch, IndexStages, fileVars, noteVars
<1>2. TypeOK
  BY DEF Inv
<1>3. PICK p \in Paths : p = task[t].p
  BY <1>1, <1>2, WatchPath
<1>4. PICK at \in IndexStages \cup {"next"} : at = "next"
  OBVIOUS
<1>5. Goto(t, at) /\ at # "chunks" /\ at # "clear"
  BY <1>4 DEF CommitChunks
<1>6. /\ Steps(t, p) /\ Queued(p)' = Queued(p) /\ file'[p] = file[p] /\ ~Annotating(t) /\ ~Marked(t)
      /\ ~MarkTask(t)' /\ Active(t)' /\ Indexing(t)
      /\ task'[t].p = p /\ task'[t].op = task[t].op /\ task'[t].at = at /\ task[t].op \in {"index", "boot"}
  BY <1>1, <1>3, <1>5, WatchGoes
<1>7. db' = db /\ tainted \subseteq tainted'
  BY <1>1 DEF Commit
<1>8. TaskInv(t)' /\ StepClaim(t)'
  <2>1. task'[t].op \in {"index", "boot"} /\ task'[t].at = "next"
    BY <1>4, <1>6
  <2> QED
    BY <2>1, WatchRests
<1>9. ASSUME p \notin tainted
      PROVE  /\ acked'[p] \subseteq db[p].marks /\ db[p].ann \subseteq db[p].marks
             /\ NothingToSee(p) => Settled(p)'
  <2>1. JobInv(t, p) /\ StepInv(t) /\ (NothingToSee(p) => StepClaim(t))
    BY <1>1, <1>3, <1>9, Before
  <2>2. NothingToSee(p) => (file[p] = 0 /\ db[p].status = "removed") \/ (file[p] # 0 /\ Indexed(p))
    BY <1>1, <1>3, <1>6, <2>1 DEF StepClaim, StepInv
  <2>3. NothingToSee(p) => Settled(p)'
    BY <1>6, <1>7, <2>2 DEF Settled, Indexed
  <2> QED
    BY <1>1, <1>6, <2>1, <2>3 DEF JobInv
<1> QED
  BY <1>1, <1>6, <1>7, <1>8, <1>9, Committing

(* A file that is gone and has no row. *)
LEMMA MarkNothingStep ==
    ASSUME Inv, NEW t \in Tasks, t = "watch", mark_source_deleted, Watch.id = 0 \/ ~Mine("watch")
    PROVE  Inv'
<1>1. /\ Active(t) /\ task[t].at = "gone" /\ task[t].at \in IndexStages /\ task[t].at # "next"
      /\ NoStatement /\ UNCHANGED <<file, contents, ids, recent, events, acked>>
  BY DEF mark_source_deleted, Watch, IndexStages, fileVars, noteVars
<1>2. TypeOK
  BY DEF Inv
<1>3. PICK p \in Paths : p = task[t].p
  BY <1>1, <1>2, WatchPath
<1>4. PICK at \in IndexStages \cup {"next"} : at = "next"
  OBVIOUS
<1>5. Goto(t, at) /\ at # "chunks" /\ at # "clear"
  BY <1>4 DEF mark_source_deleted
<1>6. /\ Steps(t, p) /\ Queued(p)' = Queued(p) /\ file'[p] = file[p]
      /\ MarkTask(t)' = MarkTask(t) /\ Annotating(t)' = Annotating(t) /\ Marked(t)' = Marked(t) /\ Active(t)' /\ Indexing(t)
      /\ task'[t].p = p /\ task'[t].op = task[t].op /\ task'[t].at = at /\ task[t].op \in {"index", "boot"}
  BY <1>1, <1>3, <1>5, WatchGoes
<1>7. db' = db
  BY <1>1 DEF NoStatement
<1>8. TaskInv(t)' /\ StepClaim(t)'
  <2>1. task'[t].op \in {"index", "boot"} /\ task'[t].at = "next"
    BY <1>4, <1>6
  <2> QED
    BY <2>1, WatchRests
<1>9. ASSUME p \notin tainted
      PROVE  db[p] = committed[p] /\ (NothingToSee(p) => Settled(p)')
  <2>1. JobInv(t, p) /\ FollowInv(t) /\ (NothingToSee(p) => StepClaim(t))
    BY <1>1, <1>3, <1>9, Before
  <2>2. ~Dirty(t) /\ db[p].id = 0
    BY <1>1, <1>3, <2>1 DEF Dirty, FollowInv, Follows, Mine, Watch
  <2>3. NothingToSee(p) => file[p] = 0
    BY <1>1, <1>3, <1>6, <2>1 DEF StepClaim
  <2> QED
    BY <1>6, <1>7, <2>1, <2>2, <2>3 DEF JobInv, Settled
<1> QED
  BY <1>1, <1>6, <1>8, <1>9, Quiet

(* The row of a file is looked up. *)
LEMMA SelectStep ==
    ASSUME Inv, NEW t \in Tasks, t = "watch", Select
    PROVE  Inv'
<1>1. /\ Active(t) /\ task[t].at = "select" /\ task[t].at # "next" /\ NoStatement
      /\ UNCHANGED <<file, contents, ids, recent, events, acked>>
      /\ SetWatch([task[t] EXCEPT !.id = db[task[t].p].id, !.at = Choice(task[t].p, db[task[t].p], task[t].c)])
  BY DEF Select, Watch, fileVars, noteVars
<1>2. TypeOK
  BY DEF Inv
<1>3. PICK p \in Paths : p = task[t].p
  BY <1>1, <1>2, WatchPath
<1>4. /\ StageOK(t) /\ task[t].op \in {"index", "boot"} /\ task[t].c \in Nat /\ task[t].c <= contents /\ db[p] \in Rows /\ ids' \in Nat
      /\ ~(p \in TextPaths /\ p \in BinaryPaths) /\ (p \in TextPaths \/ p \in BinaryPaths) /\ file[p] \in Nat
  BY <1>1, <1>2, <1>3, Before, TaskFields DEF WatchOps, TypeOK, FileType, Paths
<1>5. PICK at \in {"insert", "next", "chunks", "clear", "row"} : at = Choice(p, db[p], task[t].c)
  <2>1. Choice(p, db[p], task[t].c) \in {"insert", "next", "chunks", "clear", "row"}
    BY <1>4 DEF Choice, ReindexUnchanged
  <2> QED
    BY <2>1
<1>6. /\ at = "insert" <=> db[p].id = 0
      /\ at = "chunks" => p \in TextPaths /\ db[p].hash = task[t].c
      /\ at = "clear" => p \in BinaryPaths
      /\ at = "next" => p \in BinaryPaths /\ db[p].hash = task[t].c /\ (db[p].status # "ready" \/ db[p].chunks # 0)
  BY <1>4, <1>5 DEF Choice, ReindexUnchanged
<1>7. task[t] \in WatchJobs
  BY <1>1, <1>2, WatchTask
<1>8. PICK w \in WatchJobs : w = [task[t] EXCEPT !.id = db[p].id, !.at = at]
  BY <1>4, <1>5, <1>7 DEF WatchJobs, Stages, IndexStages, Rows
<1>9. /\ w.op = task[t].op /\ w.at = at /\ w.p = p /\ w.id = db[p].id /\ w.c = task[t].c /\ w.todo = task[t].todo
  BY <1>3, <1>7, <1>8 DEF WatchJobs
<1>10. SetWatch(w)
  BY <1>1, <1>3, <1>5, <1>8
<1>11. task'[t] = w
  BY <1>1, <1>2, <1>8, <1>10, Watching
<1>12. StageOK(t)' /\ SamePhase(t, w.at)
  BY <1>1, <1>4, <1>5, <1>6, <1>9, <1>11 DEF StageOK, MarkOps, ToolOps, WatchOps, SamePhase, XStages, IndexStages
<1>13. Steps(t, p) /\ Active(t)' /\ Queued(p)' = Queued(p) /\ file'[p] = file[p]
  <2>1. /\ UNCHANGED <<file, contents, recent, events>> /\ ids' \in Nat /\ acked' = acked
        /\ Active(t) /\ task[t].p = p /\ w.c <= contents
    BY <1>1, <1>3, <1>4, <1>9
  <2> QED
    BY <1>8, <1>9, <1>10, <1>12, <2>1, WatchGoesOnAs
<1>14. /\ db' = db /\ ~MarkTask(t) /\ ~MarkTask(t)' /\ ~Survives(t)' /\ Indexing(t) /\ Indexing(t)' /\ ~Marked(t) /\ ~Marked(t)'
       /\ Annotating(t)' = Annotating(t) /\ Marked(t)' = Marked(t) /\ MarkTask(t)' = MarkTask(t)
       /\ task'[t].op \in {"index", "boot"} /\ task'[t].op = task[t].op /\ task'[t].at = at /\ task'[t].p = p
       /\ task'[t].c = task[t].c /\ task'[t].id = db[p].id
  BY <1>1, <1>4, <1>9, <1>11
     DEF NoStatement, MarkTask, MarkOps, Survives, Annotating, Marked, Indexing, WatchOps
<1>15. ASSUME p \notin tainted
       PROVE  /\ db[p] = committed[p] /\ TaskInv(t)'
              /\ NothingToSee(p) => StepClaim(t)' /\ (Settled(p)' \/ Working(t)')
  <2>1. JobInv(t, p) /\ FollowInv(t) /\ StepInv(t) /\ StillInv(p) /\ (NothingToSee(p) => StepClaim(t))
    BY <1>1, <1>3, <1>15, Before
  <2>2. ~Dirty(t)
    BY <1>1 DEF Dirty
  <2>3. task[t].c # 0 /\ NotNewer(task[t].c, p) /\ (NothingToSee(p) => task[t].c = file[p])
    BY <1>1, <1>3, <1>14, <2>1 DEF StepInv, StepClaim
  <2>4. FollowInv(t)'
    BY <1>4, <1>5, <1>6, <1>14 DEF FollowInv, Mine, HasRow, MarkOps
  <2>5. MarkInv(t)'
    BY <1>4, <1>14 DEF MarkInv
  <2>6. StepInv(t)'
    BY <1>4, <1>5, <1>13, <1>14, <2>3 DEF StepInv, NotNewer
  <2>7. at = "chunks" /\ NothingToSee(p) => db[p].text = task[t].c
    BY <1>6, <2>1, <2>3 DEF StillInv, RowOfFile
  <2>8. NothingToSee(p) => StepClaim(t)'
    BY <1>4, <1>5, <1>13, <1>14, <2>3, <2>7 DEF StepClaim
  <2>9. CASE at = "next"
    <3>1. WillExtract(p)'
      BY <1>1, <1>14, <2>9 DEF WillExtract
    <3>2. /\ p \in BinaryPaths /\ db[p].hash = task[t].c /\ db[p].id # 0 /\ db[p].status # "none"
          /\ db[p].status # "ready" \/ db[p].chunks # 0
      BY <1>6, <2>1, <2>9 DEF StillInv, RowOfFile
    <3>3. ASSUME NothingToSee(p) PROVE Settled(p)'
      <4>1. file[p] = db[p].hash /\ file[p] # 0
        BY <2>3, <3>2, <3>3
      <4>2. CASE db[p].status = "ready"
        <5>1. db[p].chunks = db[p].text /\ db[p].hash <= db[p].text /\ NotNewer(db[p].text, p) /\ db[p].hash \in Nat /\ db[p].text \in Nat
          BY <1>4, <2>1, <3>2, <4>2 DEF StillInv, RowOfFile, Rows
        <5>2. Indexed(p)
          BY <4>1, <5>1 DEF Indexed, NotNewer
        <5> QED
          BY <1>13, <1>14, <4>1, <5>2 DEF Settled, Indexed
      <4>3. CASE db[p].status # "ready"
        <5>1. db[p].status \in {"pending", "processing", "failed"}
          BY <1>4, <2>1, <3>2, <4>1, <4>3 DEF StillInv, RowOfFile, Rows, Statuses
        <5> QED
          BY <1>13, <1>14, <3>1, <3>2, <4>1, <5>1 DEF Settled
      <4> QED
        BY <4>2, <4>3
    <3> QED
      BY <2>1, <2>2, <2>4, <2>5, <2>6, <2>8, <3>3 DEF JobInv, TaskInv
  <2>10. CASE at # "next"
    <3>1. Working(t)'
      BY <1>5, <1>14, <2>10 DEF Working
    <3> QED
      BY <2>1, <2>2, <2>4, <2>5, <2>6, <2>8, <3>1 DEF JobInv, TaskInv
  <2> QED
    BY <2>9, <2>10
<1> QED
  BY <1>1, <1>13, <1>14, <1>15, Quiet

(* The process ends, or its startup does: what is not committed is lost, and the scan *)
(* comes to every file.                                                               *)
LEMMA Rebooted ==
    ASSUME Inv, db' = committed, committed' = committed, txn' = "none",
           task'["watch"] = Boot, task' \in [Tasks -> {Idle} \cup WatchJobs \cup SlotJobs \cup MarkJobs],
           \A t \in Slots : task'[t] = Idle \/ (task'[t] = task[t] /\ (Active(t) => Survives(t) /\ task[t].p \in tainted')),
           tainted \subseteq tainted', events' = {}, recent' = [p \in Paths |-> NotRecent],
           UNCHANGED <<file, contents, ids, acked>>
    PROVE  Inv'
<1>1. TypeOK /\ CountInv /\ \A p \in Paths : "none" # p
  BY LocalAssumption DEF Inv, Paths
<1>2. Boot \in WatchJobs /\ Boot.op = "boot" /\ Boot.at = "next" /\ Boot.p = "none" /\ Boot.c = 0 /\ Boot.todo = {p \in Paths : file[p] # 0}
  BY DEF Boot, WatchJobs, WatchOps, Stages
<1>3. \A t \in Slots : Active(t)' => task'[t] = task[t] /\ Active(t) /\ Survives(t) /\ Survives(t)' /\ task'[t].p \in tainted'
  <2>1. ASSUME NEW t \in Slots, Active(t)'
        PROVE  task'[t] = task[t] /\ Active(t) /\ Survives(t) /\ Survives(t)' /\ task'[t].p \in tainted'
    <3>1. task'[t] # Idle
      BY <2>1 DEF Active, Idle
    <3>2. task'[t] = task[t] /\ (Active(t) => Survives(t) /\ task[t].p \in tainted')
      BY <3>1
    <3>3. Active(t)
      BY <2>1, <3>2 DEF Active
    <3> QED
      BY <3>2, <3>3 DEF Survives
  <2> QED
    BY <2>1
<1>4. ~Watched' /\ "watch" \in Tasks
  BY <1>2 DEF Watched, Tasks
<1>5. ASSUME NEW q \in Paths \ tainted', NEW t \in Tasks PROVE ~On(t, q)'
  <2>1. CASE t = "watch"
    BY <1>1, <1>2, <2>1 DEF On
  <2>2. CASE t \in Slots
    BY <1>3, <1>5, <2>2 DEF On
  <2> QED
    BY <2>1, <2>2 DEF Tasks
<1>6. TypeOK'
  <2>1. TaskType'
    BY <1>1, <1>2 DEF TypeOK, TaskType
  <2>2. ASSUME NEW t \in Tasks PROVE StageOK(t)'
    <3>1. CASE t = "watch"
      BY <1>2, <3>1 DEF StageOK, WatchOps, MarkOps, ToolOps, XStages
    <3>2. CASE t \in Slots /\ task'[t] = task[t]
      BY <1>1, <3>2 DEF TypeOK, StageOK
    <3>3. CASE t \in Slots /\ task'[t] = Idle
      BY <3>3 DEF StageOK, WatchOps, MarkOps, ToolOps, Idle
    <3> QED
      BY <3>1, <3>2, <3>3 DEF Tasks
  <2>3. NotRecent \in Nat
    BY LocalAssumption DEF NotRecent
  <2>4. StoreType' /\ FileType'
    BY <1>1, <2>3 DEF TypeOK, StoreType, FileType
  <2> QED
    BY <2>1, <2>2, <2>4 DEF TypeOK
<1>7. AloneInv'
  BY <1>3, <1>5 DEF AloneInv
<1>8. TxnInv'
  <2>1. "none" \notin Tasks
    BY LocalAssumption DEF Tasks
  <2>2. \A t \in Slots : ~MarkTask(t)'
    BY <1>3 DEF MarkTask, MarkOps, Active, Survives
  <2> QED
    BY <2>1, <2>2 DEF TxnInv
<1>9. CountInv'
  <2>1. contents \in Nat
    BY <1>1 DEF TypeOK, FileType
  <2>2. ASSUME NEW t \in Tasks, Active(t)' PROVE task'[t].c <= contents
    <3>1. CASE t = "watch"
      BY <1>2, <2>1, <3>1
    <3>2. CASE t \in Slots
      BY <1>1, <1>3, <2>2, <3>2 DEF CountInv
    <3> QED
      BY <3>1, <3>2 DEF Tasks
  <2> QED
    BY <1>1, <2>2 DEF CountInv
<1>10. ASSUME NEW q \in Paths \ tainted' PROVE PathInv(q)'
  <2>1. StillInv(q)
    BY <1>10 DEF Inv, PathInv
  <2>2. ~Queued(q)'
    BY <1>2 DEF Queued
  <2>3. RowOfFile(committed[q], q)'
    BY <2>1 DEF StillInv, RowOfFile, NotNewer
  <2>4. StillInv(q)'
    BY <2>1, <2>2, <2>3 DEF StillInv, NoRow
  <2>5. NothingToSee(q)' => Settled(q)'
    BY <1>2, <1>4, <1>10 DEF NothingToSee, Settled
  <2>6. db'[q] = committed'[q] /\ db'[q].ann \subseteq db'[q].marks /\ acked'[q] \subseteq db'[q].marks
    BY <2>1 DEF StillInv
  <2> QED
    BY <1>5, <1>10, <2>4, <2>5, <2>6 DEF PathInv
<1>11. QueueInv'
  BY <1>2 DEF QueueInv, Queued
<1> QED
  BY <1>6, <1>7, <1>8, <1>9, <1>10, <1>11 DEF Inv

(* An exception in the watcher, or in the startup, at a document that is tainted. *)
LEMMA RaiseStep ==
    ASSUME Inv, NEW t \in Tasks, t = "watch", Active(t), NEW p \in Paths, task[t].p = p, task[t].at \in IndexStages,
           p \in tainted, Raise, UNCHANGED <<file, contents, ids, recent, events, acked>>
    PROVE  Inv'
<1>1. /\ TypeOK /\ acked' \in [Paths -> SUBSET Marks] /\ ids' \in Nat /\ task[t].op \in {"index", "boot"} /\ t \notin Slots
  BY TaskFields, LocalAssumption DEF Inv, TypeOK, FileType, WatchOps
<1>2. CASE task[t].op = "index"
  <2>1. FailOpen(t) /\ Done(t)
    BY <1>2 DEF Raise, Watch
  <2>2. task'[t] = Idle /\ ~Active(t)' /\ TaskType' /\ \A u \in Tasks \ {t} : task'[u] = task[u]
    BY <1>1, <2>1, Ending
  <2>3. StageOK(t)' /\ ~MarkTask(t)' /\ ~MarkTask(t)
    BY <1>2, <2>2 DEF StageOK, WatchOps, MarkOps, ToolOps, MarkTask, Idle
  <2>4. /\ \A q \in Paths : ~Queued(q)'
        /\ \A q \in Paths \ {p} : ~WillExtract(q)
    <3>1. task["watch"].at \notin XStages \cup {"extract", "next"}
      BY DEF XStages, IndexStages
    <3>2. task["watch"].op = "index" /\ task'["watch"].op = "idle"
      BY <1>2, <2>2 DEF Idle
    <3> QED
      BY <3>1, <3>2 DEF Queued, WillExtract
  <2>5. Watched /\ Watched'
    BY <1>2, <2>2 DEF Watched, Idle
  <2>6. OthersWait(t)
    BY <2>4, <2>5 DEF OthersWait
  <2>7. Steps(t, p)
    BY <1>1, <2>2, <2>3, <2>6 DEF Steps
  <2> QED
    BY <2>1, <2>3, <2>7, Spoiled
<1>3. CASE task[t].op = "boot"
  <2>1. db' = committed /\ txn' = "none" /\ SetWatch(Boot) /\ UNCHANGED <<committed, tainted>>
    BY <1>3 DEF Raise, Watch
  <2>2. ~Watched
    BY <1>3 DEF Watched
  <2>3. Boot \in WatchJobs
    BY DEF Boot, WatchJobs, WatchOps, Stages
  <2>4. TaskType' /\ task'["watch"] = Boot /\ \A u \in Tasks \ {"watch"} : task'[u] = task[u]
    BY <1>1, <2>1, <2>3, Watching
  <2>5. \A u \in Slots : task'[u] = task[u] /\ (Active(u) => Survives(u) /\ task[u].p \in tainted')
    <3>1. \A u \in Slots : Active(u) => Survives(u) /\ task[u].p \in tainted'
      BY <2>1, <2>2 DEF Inv, AloneInv
    <3> QED
      BY <2>4, <3>1, LocalAssumption DEF Tasks
  <2>6. events' = {} /\ recent' = [q \in Paths |-> NotRecent]
    BY <2>2 DEF Inv, CountInv
  <2>7. task' \in [Tasks -> {Idle} \cup WatchJobs \cup SlotJobs \cup MarkJobs]
    BY <2>4 DEF TaskType
  <2> QED
    BY <2>1, <2>4, <2>5, <2>6, <2>7, Rebooted
<1> QED
  BY <1>1, <1>2, <1>3

(* The row of a new file. *)
LEMMA InsertRowStep ==
    ASSUME Inv, NEW t \in Tasks, t = "watch", InsertRow
    PROVE  Inv'
<1>1. /\ Active(t) /\ TypeOK /\ task[t].at = "insert" /\ task[t].at # "next" /\ task[t].at \in IndexStages
      /\ UNCHANGED <<file, contents, recent, events, acked>>
  BY DEF Inv, InsertRow, Watch, fileVars, noteVars, IndexStages
<1>2. PICK p \in Paths : p = task[t].p
  BY <1>1, WatchPath
<1>3. /\ StageOK(t) /\ task[t].c \in Nat /\ task[t].c <= contents /\ ids \in Nat /\ contents \in Nat /\ file[p] \in Nat
      /\ ~(p \in TextPaths /\ p \in BinaryPaths) /\ (p \in TextPaths \/ p \in BinaryPaths)
      /\ task[t].op \in {"index", "boot"}
  BY <1>1, <1>2, Before, TaskFields DEF TypeOK, FileType, Paths, WatchOps
<1>4. p \notin tainted => FollowInv(t) /\ StillInv(p) /\ db[p] = NoRow
  BY <1>1, <1>2, Before DEF FollowInv, Follows, Mine, StillInv
<1>5. CASE db[p].id # 0
  <2>1. Raise /\ UNCHANGED <<file, contents, ids, recent, events, acked>> /\ p \in tainted
    BY <1>1, <1>2, <1>4, <1>5 DEF InsertRow, Watch, NoRow
  <2> QED
    BY <1>1, <1>2, <2>1, RaiseStep
<1>6. CASE db[p].id = 0
  <2>1. PICK new \in Nat : new = ids + 1 /\ new # 0
    BY <1>3
  <2>2. PICK st \in Statuses : st = StatusOf(p)
    BY DEF StatusOf, Statuses
  <2>3. PICK x \in Nat : x = (IF p \in TextPaths THEN task[t].c ELSE 0) /\ x <= contents
    BY <1>3
  <2>4. PICK row \in Rows : row = [NoRow EXCEPT !.id = new, !.status = st, !.hash = task[t].c, !.text = x]
    BY <1>3 DEF NoRow, Rows
  <2>5. /\ row.id = new /\ row.status = st /\ row.hash = task[t].c /\ row.text = x /\ row.marks = {}
        /\ row.chunks = 0 /\ row.ann = {}
    BY <2>4 DEF NoRow
  <2>6. PICK at \in Stages : at = "commit"
    BY DEF Stages, XStages, IndexStages
  <2>7. task[t] \in WatchJobs
    BY <1>1, WatchTask
  <2>8. PICK w \in WatchJobs : w = [task[t] EXCEPT !.id = new, !.at = at]
    BY <2>7 DEF WatchJobs
  <2>9. /\ w.op = task[t].op /\ w.at = at /\ w.p = p /\ w.c = task[t].c /\ w.id = new /\ w.todo = task[t].todo
    BY <1>1, <1>2, <2>7, <2>8 DEF WatchJobs
  <2>10. /\ ids' = new /\ Execute(t, p, row) /\ SetWatch(w)
    BY <1>2, <1>6, <2>1, <2>2, <2>3, <2>4, <2>6, <2>8 DEF InsertRow, Watch
  <2>11. task'[t] = w
    BY <1>1, <2>8, <2>10, Watching
  <2>12. StageOK(t)' /\ SamePhase(t, w.at)
    BY <1>1, <1>3, <2>6, <2>9, <2>11 DEF StageOK, WatchOps, MarkOps, ToolOps, XStages, IndexStages, SamePhase
  <2>13. Steps(t, p) /\ Active(t)' /\ Queued(p)' = Queued(p) /\ file'[p] = file[p]
    <3>1. /\ UNCHANGED <<file, contents, recent, events>> /\ ids' \in Nat /\ acked' = acked
          /\ Active(t) /\ task[t].p = p /\ w.c <= contents
      BY <1>1, <1>2, <1>3, <2>1, <2>9, <2>10
    <3> QED
      BY <2>8, <2>9, <2>10, <2>12, <3>1, WatchGoesOnAs
  <2>14. /\ ~MarkTask(t) /\ ~MarkTask(t)' /\ Working(t)' /\ Dirty(t)' /\ Indexing(t) /\ Indexing(t)' /\ ~Survives(t)' /\ ~Marked(t)
         /\ task'[t].op \in {"index", "boot"} /\ task'[t].at = "commit" /\ task'[t].c = task[t].c /\ task'[t].id = new
         /\ task'[t].p = p
    BY <1>3, <2>6, <2>9, <2>11 DEF MarkTask, MarkOps, Marked, Working, Dirty, Indexing, WatchOps, Survives
  <2>15. db'[p] = row /\ row.hash <= contents /\ row.text <= contents
    BY <1>1, <1>3, <2>3, <2>5, <2>10, Executing
  <2>16. MarkTask(t)' = MarkTask(t)
    BY <2>14 DEF MarkTask
  <2>17. tainted \subseteq tainted'
    BY <2>10 DEF Execute
  <2>18. ASSUME p \notin tainted'
         PROVE  /\ row.id # 0 /\ acked'[p] \subseteq acked[p] /\ row.ann \subseteq row.marks /\ acked'[p] \subseteq row.marks
                /\ RowOfFile(row, p) /\ TaskInv(t)'
                /\ Queued(p)' => p \in BinaryPaths /\ row.status # "removed"
                /\ NothingToSee(p) => StepClaim(t)'
    <3>1. FollowInv(t) /\ StillInv(p) /\ StepInv(t) /\ (NothingToSee(p) => StepClaim(t)) /\ JobInv(t, p) /\ db[p] = NoRow
      BY <1>1, <1>2, <1>4, <2>17, <2>18, Before
    <3>2. task[t].c # 0 /\ NotNewer(task[t].c, p)
      BY <1>1, <1>2, <2>14, <3>1 DEF StepInv
    <3>3. RowOfFile(row, p)
      BY <1>3, <2>1, <2>2, <2>3, <2>5, <3>2 DEF RowOfFile, NotNewer, StatusOf
    <3>4. FollowInv(t)'
      BY <2>1, <2>5, <2>14, <2>15 DEF FollowInv, Mine
    <3>5. MarkInv(t)'
      BY <2>14 DEF MarkInv, Marked
    <3>6. StepInv(t)'
      BY <1>3, <2>2, <2>5, <2>13, <2>14, <2>15, <3>2 DEF StepInv, NotNewer, StatusOf
    <3>7. NothingToSee(p) => task[t].c = file[p]
      BY <1>1, <1>2, <2>14, <3>1 DEF StepClaim
    <3>8. NothingToSee(p) => StepClaim(t)'
      BY <1>3, <2>3, <2>5, <2>13, <2>14, <2>15, <3>7 DEF StepClaim
    <3>9. acked'[p] \subseteq {}
      BY <1>1, <2>14, <3>1 DEF JobInv, NoRow
    <3> QED
      BY <1>1, <2>1, <2>2, <2>5, <2>13, <3>1, <3>3, <3>4, <3>5, <3>6, <3>8, <3>9 DEF TaskInv, StillInv, StatusOf
  <2> QED
    BY <2>10, <2>13, <2>14, <2>15, <2>16, <2>17, <2>18, Statement
<1> QED
  BY <1>5, <1>6

(* The chunks of a text whose document is gone. *)
LEMMA IndexNothingStep ==
    ASSUME Inv, NEW t \in Tasks, t = "watch", IndexChunks, ~Mine("watch")
    PROVE  Inv'
<1>1. /\ Active(t) /\ TypeOK /\ task[t].at = "chunks" /\ task[t].at # "next" /\ task[t].at \in IndexStages
      /\ Raise /\ UNCHANGED <<file, contents, ids, recent, events, acked>>
  BY DEF Inv, IndexChunks, Watch, fileVars, noteVars, IndexStages
<1>2. PICK p \in Paths : p = task[t].p
  BY <1>1, WatchPath
<1>3. p \in tainted
  BY <1>1, <1>2, Before DEF FollowInv, Follows
<1> QED
  BY <1>1, <1>2, <1>3, RaiseStep

--------------------------------------------------------------------------------
(* From one file to the next. *)

(* A path on which only the watcher is, after the end of its work there, and on which *)
(* nobody was at work.                                                                *)
LEMMA RestingAfter ==
    ASSUME NEW q \in Paths, PathInv(q),
           file'[q] = file[q], acked'[q] = acked[q], db'[q] = db[q], committed'[q] = committed[q],
           \A u \in Tasks : On(u, q) => task[u].at \in {"next", "extract"} /\ ~MarkTask(u),
           \A u \in Tasks : On(u, q)' => task'[u].op \in {"index", "boot"} /\ task'[u].at \in {"next", "extract"},
           Queued(q)' => q \in BinaryPaths /\ db[q].status # "removed",
           NothingToSee(q)' => Settled(q)'
    PROVE  PathInv(q)'
<1>1. \A u \in Tasks : On(u, q) => ~Dirty(u) /\ ~Annotating(u) /\ ~Marked(u)
  BY DEF Dirty, Annotating, Marked
<1>2. \A u \in Tasks : On(u, q)' => TaskInv(u)' /\ StepClaim(u)'
  BY WatchRests
<1>3. StillInv(q) /\ db[q] = committed[q] /\ db[q].ann \subseteq db[q].marks /\ acked[q] \subseteq db[q].marks
  BY <1>1 DEF PathInv
<1>4. RowOfFile(db[q], q)'
  BY <1>3 DEF StillInv, RowOfFile, NotNewer
<1>5. StillInv(q)'
  BY <1>3, <1>4 DEF StillInv, NoRow
<1> QED
  BY <1>2, <1>3, <1>5 DEF PathInv

(* A path that the watcher comes to, and on which nobody was at work. *)
LEMMA Opened ==
    ASSUME NEW q \in Paths, PathInv(q), file[q] \in Nat,
           file'[q] = file[q], acked'[q] = acked[q], db'[q] = db[q], committed'[q] = committed[q],
           \A u \in Tasks : On(u, q) => task[u].at \in {"next", "extract"} /\ ~MarkTask(u),
           \A u \in Tasks : On(u, q)' => u = "watch",
           NEW op \in {"index", "boot"}, NEW todo, task'["watch"] = Open(op, q, todo)
    PROVE  PathInv(q)'
<1>1. \A u \in Tasks : On(u, q) => ~Dirty(u) /\ ~Annotating(u) /\ ~Marked(u)
  BY DEF Dirty, Annotating, Marked
<1>2. StillInv(q) /\ db[q] = committed[q] /\ db[q].ann \subseteq db[q].marks /\ acked[q] \subseteq db[q].marks
  BY <1>1 DEF PathInv
<1>3. PICK t \in Tasks : t = "watch"
  BY DEF Tasks
<1>4. /\ task'[t].op = op /\ task'[t].p = q /\ task'[t].id = db[q].id /\ task'[t].c = file[q]
      /\ (file[q] = 0 /\ task'[t].at = "gone") \/ (file[q] # 0 /\ task'[t].at = "select")
  BY <1>3 DEF Open
<1>5. /\ ~MarkTask(t)' /\ ~Marked(t)' /\ ~Annotating(t)' /\ ~Dirty(t)' /\ Working(t)' /\ ~HasRow(t)' /\ ~Survives(t)'
      /\ On(t, q)' /\ ~Queued(q)'
  BY <1>3, <1>4 DEF MarkTask, MarkOps, Marked, Annotating, Dirty, Working, HasRow, Survives, On, Active, Queued, XStages, Indexing
<1>6. FollowInv(t)'
  BY <1>4, <1>5 DEF FollowInv, Mine
<1>7. MarkInv(t)'
  BY <1>4, <1>5 DEF MarkInv
<1>8. NotNewer(file[q], q)'
  BY AsNew
<1>9. StepInv(t)'
  BY <1>4, <1>5, <1>8 DEF StepInv
<1>10. StepClaim(t)'
  BY <1>4, <1>5 DEF StepClaim
<1>11. RowOfFile(db[q], q)'
  BY <1>2 DEF StillInv, RowOfFile, NotNewer
<1>12. StillInv(q)'
  BY <1>2, <1>5, <1>11 DEF StillInv, NoRow
<1> QED
  BY <1>2, <1>3, <1>5, <1>6, <1>7, <1>9, <1>10, <1>12 DEF PathInv, TaskInv

(* A step by which the watcher becomes w, and nothing is written. *)
LEMMA WatchMoves ==
    ASSUME Inv, NEW w \in {Idle} \cup WatchJobs, SetWatch(w), StageOK("watch")',
           UNCHANGED <<db, committed, txn, file, contents, ids, recent, acked>>,
           tainted \subseteq tainted', events' \subseteq events,
           w # Idle => w.c <= contents /\ (w.p \notin tainted' => OthersOn("watch", w.p) = {}),
           w # Idle /\ w.op = "boot" => ~Watched,
           w # Idle /\ w.op = "index" => w.todo \subseteq BinaryPaths,
           \A q \in Paths \ tainted' : PathInv(q)'
    PROVE  Inv'
<1>1. TypeOK /\ CountInv /\ TxnInv /\ AloneInv /\ "watch" \in Tasks
  BY DEF Inv, Tasks
<1>2. TaskType' /\ task'["watch"] = w /\ \A u \in Tasks \ {"watch"} : task'[u] = task[u]
  BY <1>1, Watching
<1>3. \A u \in Tasks \ {"watch"} : /\ task'[u] = task[u] /\ (Active(u)' <=> Active(u)) /\ (Survives(u)' <=> Survives(u))
                                   /\ (MarkTask(u)' <=> MarkTask(u))
                                   /\ \A q : On(u, q)' <=> On(u, q)
  BY <1>2 DEF Active, Survives, MarkTask, On
<1>4. ~Watched' => ~Watched
  BY <1>2 DEF Watched, Idle
<1>5. TypeOK'
  <2>1. StoreType' /\ FileType'
    BY <1>1 DEF TypeOK, StoreType, FileType
  <2> QED
    BY <1>1, <1>2, <2>1, OtherStages DEF TypeOK
<1>6. AloneInv'
  <2>1. ASSUME NEW q \in Paths \ tainted', NEW u \in Tasks, u # "watch", On(u, q)', On("watch", q)' PROVE FALSE
    <3>1. w # Idle /\ w.p = q
      BY <1>2, <2>1 DEF On, Active, Idle
    <3>2. On(u, q)
      BY <1>3, <2>1
    <3> QED
      BY <2>1, <3>1, <3>2 DEF OthersOn, On
  <2>2. \A q \in Paths \ tainted' : \A u, v \in Tasks : On(u, q)' /\ On(v, q)' => u = v
    BY <1>1, <1>3, <2>1 DEF AloneInv
  <2>3. ~Watched' => \A u \in Slots : Active(u)' => Survives(u)' /\ task'[u].p \in tainted'
    BY <1>1, <1>3, <1>4, LocalAssumption DEF AloneInv, Tasks
  <2> QED
    BY <2>2, <2>3 DEF AloneInv
<1>7. TxnInv'
  <2>1. \A u \in Slots : u # "watch"
    BY LocalAssumption
  <2> QED
    BY <1>1, <1>3, <2>1 DEF TxnInv, Tasks
<1>8. CountInv'
  <2>1. ~Watched' => events' = {} /\ recent' = [p \in Paths |-> NotRecent]
    BY <1>1, <1>4 DEF CountInv
  <2>2. ASSUME NEW u \in Tasks, Active(u)' PROVE task'[u].c <= contents
    <3>1. CASE u = "watch"
      BY <1>2, <2>2, <3>1 DEF Active, Idle
    <3>2. CASE u # "watch"
      BY <1>1, <1>3, <2>2, <3>2 DEF CountInv
    <3> QED
      BY <3>1, <3>2
  <2> QED
    BY <1>1, <2>1, <2>2 DEF CountInv
<1>9. QueueInv'
  BY <1>2 DEF QueueInv, Queued, Idle
<1> QED
  BY <1>5, <1>6, <1>7, <1>8, <1>9 DEF Inv

(* During the startup nobody else is at a path that is not tainted. *)
LEMMA BootAlone ==
    ASSUME Inv, ~Watched
    PROVE  /\ \A q \in Paths \ tainted, u \in Tasks : On(u, q) => u = "watch"
           /\ \A q : q \notin tainted => OthersOn("watch", q) = {}
<1>1. \A u \in Slots : Active(u) => task[u].p \in tainted
  BY DEF Inv, AloneInv
<1> QED
  BY <1>1 DEF On, OthersOn, Tasks

(* The scan goes on with w. *)
LEMMA BootMoves ==
    ASSUME Inv, Is("watch", "boot", "next"), NEW w \in WatchJobs, SetWatch(w), StageOK("watch")', w.op = "boot",
           w.c <= contents, NoStatement, UNCHANGED <<file, contents, ids, recent, events, acked>>,
           w.at = "next" \/ w = Open("boot", w.p, w.todo),
           \A q \in Paths : q \notin w.todo => q \notin Watch.todo \/ file[q] = 0 \/ (w.p = q /\ w.at # "next")
    PROVE  Inv'
<1>1. TypeOK /\ ~Watched /\ "watch" \in Tasks /\ ~MarkTask("watch") /\ Active("watch") /\ db' = db /\ committed' = committed /\ tainted' = tainted
  BY DEF Inv, Is, Watched, Tasks, MarkTask, MarkOps, Active, NoStatement
<1>2. /\ \A q \in Paths \ tainted, u \in Tasks : On(u, q) => u = "watch"
      /\ \A q : q \notin tainted => OthersOn("watch", q) = {}
  BY <1>1, BootAlone
<1>3. task'["watch"] = w /\ \A u \in Tasks \ {"watch"} : task'[u] = task[u]
  BY <1>1, Watching
<1>4. ASSUME NEW q \in Paths \ tainted PROVE PathInv(q)'
  <2>1. PathInv(q) /\ file[q] \in Nat
    BY <1>1, <1>4 DEF Inv, TypeOK, FileType
  <2>2. \A u \in Tasks : On(u, q) => task[u].at \in {"next", "extract"} /\ ~MarkTask(u)
    BY <1>1, <1>2, <1>4 DEF Is
  <2>3. \A u \in Tasks : On(u, q)' => u = "watch"
    BY <1>2, <1>3, <1>4 DEF On, Active
  <2>4. CASE w.p = q /\ w.at # "next"
    <3>1. task'["watch"] = Open("boot", q, w.todo)
      BY <1>3, <2>4
    <3> QED
      BY <1>1, <2>1, <2>2, <2>3, <3>1, Opened
  <2>5. CASE ~(w.p = q /\ w.at # "next")
    <3>1. \A u \in Tasks : On(u, q)' => task'[u].op \in {"index", "boot"} /\ task'[u].at \in {"next", "extract"}
      BY <1>3, <2>3, <2>5 DEF On
    <3>2. ~Queued(q)'
      BY <1>3 DEF Queued
    <3>3. \A u \in Tasks : On(u, q) => ~Working(u)
      BY <2>2 DEF Working
    <3>4. NothingToSee(q)' => Settled(q)'
      <4>1. CASE file[q] = 0
        BY <1>3, <4>1 DEF Settled
      <4>2. CASE q \in w.todo
        BY <1>3, <4>2 DEF NothingToSee, Watched
      <4>3. CASE q \notin Watch.todo
        <5>1. NothingToSee(q)' => NothingToSee(q)
          BY <4>3 DEF NothingToSee, Watch
        <5>2. NothingToSee(q) => Settled(q)
          BY <2>1, <3>3 DEF PathInv
        <5>3. Settled(q) => Settled(q)'
          BY <1>1, <1>3 DEF Settled, Indexed, WillExtract, Is
        <5> QED
          BY <5>1, <5>2, <5>3
      <4> QED
        BY <2>5, <4>1, <4>2, <4>3
    <3> QED
      BY <1>1, <2>1, <2>2, <3>1, <3>2, <3>4, RestingAfter
  <2> QED
    BY <2>4, <2>5
<1>5. /\ UNCHANGED <<db, committed, txn, file, contents, ids, recent, acked>> /\ events' \subseteq events /\ w \in {Idle} \cup WatchJobs
      /\ w.op # "index"
  BY DEF NoStatement
<1> QED
  BY <1>1, <1>2, <1>4, <1>5, WatchMoves

(* What the watcher opens. *)
LEMMA Opening ==
    ASSUME TypeOK, CountInv, NEW q \in Paths, NEW op \in {"index", "boot"}, NEW todo \in SUBSET Paths, NEW w, w = Open(op, q, todo)
    PROVE  /\ w \in WatchJobs /\ w.op = op /\ w.p = q /\ w.c = file[q] /\ w.c <= contents /\ w.todo = todo
           /\ w.at \in {"gone", "select"} /\ w.at # "next" /\ w # Idle
           /\ SetWatch(w) => StageOK("watch")'
<1>1. file[q] \in Nat /\ file[q] <= contents /\ db[q].id \in Nat
  BY DEF TypeOK, FileType, StoreType, CountInv, Rows
<1>2. /\ w.op = op /\ w.p = q /\ w.c = file[q] /\ w.todo = todo /\ w.at \in {"gone", "select"}
  BY DEF Open
<1>3. w \in WatchJobs
  BY <1>1 DEF Open, WatchJobs, WatchOps, Stages, IndexStages
<1>4. w # Idle
  BY <1>2 DEF Idle
<1>5. SetWatch(w) => StageOK("watch")'
  <2>1. SUFFICES ASSUME SetWatch(w) PROVE StageOK("watch")'
    OBVIOUS
  <2>2. task'["watch"] = w
    BY <1>3, <2>1, Watching
  <2> QED
    BY <1>2, <2>2 DEF StageOK, WatchOps, MarkOps, ToolOps, XStages, IndexStages
<1> QED
  BY <1>1, <1>2, <1>3, <1>4, <1>5

(* The scan comes to a file. *)
LEMMA ScanStep ==
    ASSUME Inv, scan_workspace
    PROVE  Inv'
<1>1. /\ Is("watch", "boot", "next") /\ NoStatement /\ UNCHANGED <<file, contents, ids, recent, events, acked>>
      /\ TypeOK /\ CountInv
  BY DEF Inv, scan_workspace, fileVars, noteVars
<1>2. PICK t \in Tasks : t = "watch"
  BY DEF Tasks
<1>3. Active(t) /\ task[t] \in WatchJobs /\ task[t].c <= contents /\ task[t].todo \subseteq Paths
  <2>1. Active(t)
    BY <1>1, <1>2 DEF Is, Active
  <2> QED
    BY <1>1, <1>2, <2>1, WatchTask, TaskFields DEF CountInv
<1>4. PICK p \in Watch.todo : SetWatch(IF file[p] = 0 THEN [Watch EXCEPT !.todo = @ \ {p}] ELSE Open("boot", p, Watch.todo \ {p}))
  BY DEF scan_workspace
<1>5. CASE file[p] = 0
  <2>1. PICK w \in WatchJobs : w = [task[t] EXCEPT !.todo = @ \ {p}]
    BY <1>3 DEF WatchJobs
  <2>2. w.op = "boot" /\ w.at = "next" /\ w.p = task[t].p /\ w.c = task[t].c /\ w.todo = Watch.todo \ {p}
    BY <1>1, <1>2, <1>3, <2>1 DEF Is, WatchJobs, Watch
  <2>3. SetWatch(w)
    BY <1>2, <1>4, <1>5, <2>1 DEF Watch
  <2>4. StageOK("watch")'
    <3>1. task'["watch"] = w
      BY <1>1, <2>3, Watching
    <3> QED
      BY <2>2, <3>1 DEF StageOK, WatchOps, MarkOps, ToolOps, XStages, IndexStages
  <2>5. \A q \in Paths : q \notin w.todo => q \notin Watch.todo \/ file[q] = 0
    BY <1>5, <2>2
  <2> QED
    BY <1>1, <1>3, <2>2, <2>3, <2>4, <2>5, BootMoves
<1>6. CASE file[p] # 0
  <2>1. p \in Paths /\ Watch.todo \ {p} \in SUBSET Paths
    BY <1>2, <1>3, <1>4 DEF Watch
  <2>2. PICK todo \in SUBSET Paths : todo = Watch.todo \ {p}
    BY <2>1
  <2>3. PICK w : w = Open("boot", p, todo)
    OBVIOUS
  <2>4. SetWatch(w)
    BY <1>4, <1>6, <2>2, <2>3
  <2>5. /\ w \in WatchJobs /\ w.op = "boot" /\ w.p = p /\ w.c <= contents /\ w.todo = todo /\ w.at # "next" /\ StageOK("watch")'
    BY <1>1, <2>1, <2>3, <2>4, Opening
  <2>6. \A q \in Paths : q \notin w.todo => q \notin Watch.todo \/ (w.p = q /\ w.at # "next")
    BY <2>2, <2>5
  <2>7. w = Open("boot", w.p, w.todo)
    BY <2>3, <2>5
  <2> QED
    BY <1>1, <2>4, <2>5, <2>6, <2>7, BootMoves
<1> QED
  BY <1>5, <1>6

(* ... and then to the documents whose file is gone. *)
LEMMA ScanMissingStep ==
    ASSUME Inv, ScanMissing
    PROVE  Inv'
<1>1. /\ Is("watch", "boot", "next") /\ NoStatement /\ UNCHANGED <<file, contents, ids, recent, events, acked>>
      /\ TypeOK /\ CountInv /\ Watch.todo = {}
  BY DEF Inv, ScanMissing, fileVars, noteVars
<1>2. PICK p \in Paths : SetWatch(Open("boot", p, {}))
  BY DEF ScanMissing, Missing
<1>3. PICK todo \in SUBSET Paths : todo = {}
  OBVIOUS
<1>4. PICK w : w = Open("boot", p, todo)
  OBVIOUS
<1>5. SetWatch(w)
  BY <1>2, <1>3, <1>4
<1>6. /\ w \in WatchJobs /\ w.op = "boot" /\ w.p = p /\ w.c <= contents /\ w.todo = todo /\ w.at # "next" /\ StageOK("watch")'
  BY <1>1, <1>4, <1>5, Opening
<1>7. w = Open("boot", w.p, w.todo)
  BY <1>4, <1>6
<1>8. \A q \in Paths : q \notin w.todo => q \notin Watch.todo
  BY <1>1
<1> QED
  BY <1>1, <1>5, <1>6, <1>7, <1>8, BootMoves

(* An event after the cooldown. *)
LEMMA ApplyStep ==
    ASSUME Inv, NEW p \in Paths, _apply_watched_change(p)
    PROVE  Inv'
<1>1. /\ ~Active("watch") /\ events' = events \ {p} /\ tainted \subseteq tainted' /\ TypeOK /\ CountInv /\ "watch" \in Tasks
      /\ UNCHANGED <<db, committed, txn, file, contents, ids, recent, acked>>
      /\ (p \notin tainted' => OthersOn("watch", p) = {})
  BY DEF Inv, _apply_watched_change, fileVars, noteVars, Tasks
<1>2. PICK todo \in SUBSET Paths : todo = {}
  OBVIOUS
<1>3. PICK w : w = Open("index", p, todo)
  OBVIOUS
<1>4. SetWatch(w)
  BY <1>2, <1>3 DEF _apply_watched_change
<1>5. /\ w \in WatchJobs /\ w.op = "index" /\ w.p = p /\ w.c <= contents /\ w.todo = todo /\ w.at # "next" /\ StageOK("watch")' /\ w # Idle
      /\ w.at \in {"gone", "select"}
  BY <1>1, <1>3, <1>4, Opening
<1>6. task'["watch"] = w /\ \A u \in Tasks \ {"watch"} : task'[u] = task[u]
  BY <1>1, <1>4, <1>5, Watching
<1>7. Watched /\ Watched' /\ task["watch"].op = "idle"
  BY <1>1, <1>5, <1>6 DEF Watched, Active
<1>8. ASSUME NEW q \in Paths \ tainted' PROVE PathInv(q)'
  <2>1. PathInv(q) /\ file[q] \in Nat
    BY <1>1, <1>8 DEF Inv, TypeOK, FileType
  <2>2. ~Queued(q) /\ ~Queued(q)' /\ ~WillExtract(q)
    BY <1>5, <1>6, <1>7 DEF Queued, WillExtract, XStages
  <2>3. CASE q = p
    <3>1. \A u \in Tasks : ~On(u, q)
      BY <1>1, <1>8, <2>3 DEF OthersOn, On
    <3>2. \A u \in Tasks : On(u, q)' => u = "watch"
      BY <1>6, <3>1 DEF On, Active
    <3>3. task'["watch"] = Open("index", q, todo)
      BY <1>3, <1>6, <2>3
    <3> QED
      BY <1>1, <2>1, <3>1, <3>2, <3>3, Opened
  <2>4. CASE q # p
    <3>1. \A u \in Tasks : On(u, q)' => On(u, q) /\ task'[u] = task[u]
      BY <1>5, <1>6, <2>4 DEF On, Active
    <3>2. \A u \in Tasks : On(u, q) => On(u, q)'
      BY <1>1, <1>6 DEF On, Active
    <3>3. NothingToSee(q)' => NothingToSee(q)
      BY <1>1, <1>7, <2>4 DEF NothingToSee
    <3>4. Settled(q) => Settled(q)'
      BY <1>1, <1>7, <2>2 DEF Settled, Indexed
    <3> QED
      BY <1>1, <2>1, <2>2, <3>1, <3>2, <3>3, <3>4, Frame
  <2> QED
    BY <2>3, <2>4
<1>9. w.todo \subseteq BinaryPaths
  BY <1>2, <1>5
<1> QED
  BY <1>1, <1>4, <1>5, <1>8, <1>9, WatchMoves

(* The watcher takes up the documents that are to be extracted. *)
LEMMA PendingStep ==
    ASSUME Inv, extract_pending_sources
    PROVE  Inv'
<1>1. /\ Is("watch", "index", "next") /\ NoStatement /\ UNCHANGED <<file, contents, ids, recent, events, acked>>
      /\ TypeOK /\ CountInv
  BY DEF Inv, extract_pending_sources, fileVars, noteVars
<1>2. PICK t \in Tasks : t = "watch"
  BY DEF Tasks
<1>3. Active(t) /\ task[t] \in WatchJobs /\ task[t].c <= contents /\ task[t].p \in Paths /\ task[t].op = "index" /\ task[t].at = "next"
  <2>1. Active(t) /\ StageOK(t)
    BY <1>1, <1>2 DEF Is, Active, TypeOK
  <2> QED
    BY <1>1, <1>2, <2>1, WatchTask DEF CountInv, StageOK, Is
<1>4. PICK retried \in SUBSET Failed : SetWatch([Watch EXCEPT !.at = "extract", !.todo = Waiting \cup retried])
  BY DEF extract_pending_sources
<1>5. PICK todo \in SUBSET Paths : todo = Waiting \cup retried /\ todo \subseteq BinaryPaths
  BY DEF Waiting, Failed, Paths
<1>6. PICK w \in WatchJobs : w = [task[t] EXCEPT !.at = "extract", !.todo = todo]
  BY <1>3 DEF WatchJobs, Stages
<1>7. w.op = "index" /\ w.at = "extract" /\ w.p = task[t].p /\ w.c = task[t].c /\ w.todo = todo /\ w # Idle
  BY <1>3, <1>6 DEF WatchJobs, Idle
<1>8. SetWatch(w)
  BY <1>2, <1>4, <1>5, <1>6 DEF Watch
<1>9. task'[t] = w /\ \A u \in Tasks \ {t} : task'[u] = task[u]
  BY <1>1, <1>2, <1>8, Watching
<1>10. StageOK(t)'
  BY <1>3, <1>7, <1>9 DEF StageOK, WatchOps, MarkOps, ToolOps, XStages, IndexStages
<1>11. Watched /\ Watched' /\ db' = db /\ committed' = committed /\ tainted' = tainted
  BY <1>1, <1>2, <1>3, <1>7, <1>9 DEF Watched, NoStatement
<1>12. ASSUME NEW q \in Paths \ tainted PROVE PathInv(q)'
  <2>1. PathInv(q)
    BY <1>12 DEF Inv
  <2>2. Queued(q)' <=> q \in todo
    BY <1>2, <1>7, <1>9 DEF Queued
  <2>3. Queued(q)' => q \in BinaryPaths /\ db[q].status # "removed"
    BY <1>5, <2>2 DEF Waiting, Failed
  <2>4. q \in BinaryPaths /\ db[q].status \in {"pending", "processing"} => WillExtract(q)'
    BY <1>5, <2>2 DEF Waiting, WillExtract
  <2>5. Settled(q) => Settled(q)'
    BY <1>1, <1>2, <1>3, <1>11, <2>4 DEF Settled, Indexed
  <2>6. NothingToSee(q)' => NothingToSee(q)
    BY <1>1, <1>11 DEF NothingToSee
  <2>7. CASE q = task[t].p
    <3>1. On(t, q) /\ \A u \in Tasks : On(u, q) => u = t
      BY <1>3, <1>12, <2>7, OwnPath
    <3>2. \A u \in Tasks : On(u, q) => task[u].at \in {"next", "extract"} /\ ~MarkTask(u) /\ ~Working(u)
      BY <1>3, <3>1 DEF MarkTask, MarkOps, Working
    <3>3. \A u \in Tasks : On(u, q)' => u = t
      BY <1>9, <3>1 DEF On, Active
    <3>4. \A u \in Tasks : On(u, q)' => task'[u].op \in {"index", "boot"} /\ task'[u].at \in {"next", "extract"}
      BY <1>7, <1>9, <3>3
    <3>5. NothingToSee(q) => Settled(q)
      BY <2>1, <3>2 DEF PathInv
    <3> QED
      BY <1>1, <1>11, <2>1, <2>3, <2>5, <2>6, <3>2, <3>4, <3>5, RestingAfter
  <2>8. CASE q # task[t].p
    <3>1. \A u \in Tasks : On(u, q)' => On(u, q) /\ task'[u] = task[u]
      BY <1>7, <1>9, <2>8 DEF On, Active
    <3>2. \A u \in Tasks : On(u, q) => On(u, q)'
      BY <1>9, <2>8 DEF On, Active
    <3> QED
      BY <1>1, <1>11, <2>1, <2>3, <2>5, <2>6, <3>1, <3>2, Frame
  <2> QED
    BY <2>7, <2>8
<1>13. w.p \notin tainted => OthersOn("watch", w.p) = {}
  <2>1. ASSUME w.p \notin tainted, NEW u \in OthersOn("watch", w.p) PROVE FALSE
    BY <1>2, <1>3, <1>7, <2>1, OwnPath DEF OthersOn, On
  <2> QED
    BY <2>1
<1>14. /\ UNCHANGED <<db, committed, txn, file, contents, ids, recent, acked>> /\ tainted \subseteq tainted' /\ events' \subseteq events
       /\ w \in {Idle} \cup WatchJobs
  BY <1>1 DEF NoStatement
<1> QED
  BY <1>1, <1>2, <1>3, <1>5, <1>7, <1>8, <1>10, <1>11, <1>12, <1>13, <1>14, WatchMoves

(* No document is left to be extracted. *)
LEMMA ExtractedStep ==
    ASSUME Inv, ExtractNext, Watch.todo = {}
    PROVE  Inv'
<1>1. /\ Is("watch", "index", "extract") /\ NoStatement /\ UNCHANGED <<file, contents, ids, recent, events, acked>>
      /\ TypeOK /\ CountInv /\ Done("watch")
  BY DEF Inv, ExtractNext, fileVars, noteVars
<1>2. PICK t \in Tasks : t = "watch"
  BY DEF Tasks
<1>3. task'[t] = Idle /\ ~Active(t)' /\ SetWatch(Idle) /\ \A u \in Tasks \ {t} : task'[u] = task[u]
  BY <1>1, <1>2, Ending DEF Done, SetWatch
<1>4. Watched /\ Watched' /\ StageOK("watch")' /\ db' = db /\ committed' = committed /\ tainted' = tainted
  BY <1>1, <1>2, <1>3 DEF Watched, NoStatement, Is, StageOK, Idle, WatchOps, MarkOps, ToolOps
<1>5. ASSUME NEW q \in Paths \ tainted PROVE PathInv(q)'
  <2>1. PathInv(q)
    BY <1>5 DEF Inv
  <2>2. ~Queued(q) /\ ~Queued(q)' /\ ~WillExtract(q)
    BY <1>1, <1>2, <1>3 DEF Queued, WillExtract, Is, Idle, Watch
  <2>3. Settled(q) => Settled(q)'
    BY <1>1, <1>4, <2>2 DEF Settled, Indexed, Is
  <2>4. NothingToSee(q)' => NothingToSee(q)
    BY <1>1, <1>4 DEF NothingToSee
  <2>5. \A u \in Tasks : On(u, q)' => On(u, q) /\ task'[u] = task[u]
    BY <1>3 DEF On, Active
  <2>6. \A u \in Tasks : On(u, q) /\ ~On(u, q)' => u = t
    BY <1>3 DEF On, Active
  <2>7. task[t].at \in {"next", "extract"} /\ ~MarkTask(t)
    BY <1>1, <1>2 DEF Is, MarkTask, MarkOps
  <2> QED
    BY <1>1, <1>4, <2>1, <2>2, <2>3, <2>4, <2>5, <2>6, <2>7, Frame
<1>6. /\ UNCHANGED <<db, committed, txn, file, contents, ids, recent, acked>> /\ tainted \subseteq tainted' /\ events' \subseteq events
  BY <1>1 DEF NoStatement
<1> QED
  BY <1>3, <1>4, <1>5, <1>6, WatchMoves

(* The next document is to be extracted. *)
LEMMA ExtractNextStep ==
    ASSUME Inv, ExtractNext, Watch.todo # {}
    PROVE  Inv'
<1>1. /\ Is("watch", "index", "extract") /\ UNCHANGED <<file, contents, ids, recent, events, acked, committed>>
      /\ TypeOK /\ CountInv /\ TxnInv /\ AloneInv
  BY DEF Inv, ExtractNext, fileVars, noteVars
<1>2. PICK t \in Tasks : t = "watch"
  BY DEF Tasks
<1>3. /\ Active(t) /\ task[t] \in WatchJobs /\ task[t].c <= contents /\ task[t].todo \subseteq Paths
      /\ task[t].op = "index" /\ task[t].at = "extract" /\ ~MarkTask(t)
  <2>1. Active(t)
    BY <1>1, <1>2 DEF Is, Active
  <2> QED
    BY <1>1, <1>2, <2>1, WatchTask, TaskFields DEF CountInv, Is, MarkTask, MarkOps
<1>4. PICK p \in Watch.todo :
        /\ db' = [db EXCEPT ![p].status = IF db[p].id = 0 THEN @ ELSE "pending"]
        /\ txn' = IF txn = "none" THEN "implicit" ELSE txn
        /\ tainted' = tainted \cup Intrudes("watch", p) \cup IF OthersOn("watch", p) = {} THEN {} ELSE {p}
        /\ SetWatch([Watch EXCEPT !.p = p, !.id = db[p].id, !.todo = @ \ {p}, !.at = "x queued"])
  BY DEF ExtractNext
<1>5. p \in Paths /\ db[p] \in Rows /\ committed[p] \in Rows /\ db[p].id \in Nat
  BY <1>1, <1>2, <1>3, <1>4 DEF Watch, TypeOK, StoreType, Rows
<1>6. PICK w \in WatchJobs : w = [task[t] EXCEPT !.p = p, !.id = db[p].id, !.todo = @ \ {p}, !.at = "x queued"]
  BY <1>3, <1>5 DEF WatchJobs, Stages, XStages
<1>7. /\ w.op = "index" /\ w.at = "x queued" /\ w.p = p /\ w.c = task[t].c /\ w.id = db[p].id /\ w.todo = task[t].todo \ {p}
  BY <1>3, <1>6 DEF WatchJobs
<1>8. SetWatch(w)
  BY <1>2, <1>4, <1>6 DEF Watch
<1>9. TaskType' /\ task'[t] = w /\ \A u \in Tasks \ {t} : task'[u] = task[u]
  BY <1>1, <1>2, <1>8, Watching
<1>10. /\ db'[p] \in Rows /\ db'[p].id = db[p].id /\ db'[p].text = db[p].text /\ db'[p].hash = db[p].hash
       /\ db'[p].marks = db[p].marks /\ db'[p].chunks = db[p].chunks /\ db'[p].ann = db[p].ann
       /\ db'[p].status = IF db[p].id = 0 THEN db[p].status ELSE "pending"
       /\ \A q \in Paths \ {p} : db'[q] = db[q]
       /\ StoreType'
  <2>1. PICK row : row = [db[p] EXCEPT !.status = IF db[p].id = 0 THEN @ ELSE "pending"]
    OBVIOUS
  <2>2. row \in Rows
    BY <1>5, <2>1 DEF Rows, Statuses
  <2>3. db' = [db EXCEPT ![p] = row]
    BY <1>4, <2>1
  <2>4. db'[p] = row /\ \A q \in Paths \ {p} : db'[q] = db[q]
    BY <1>1, <1>5, <2>3 DEF TypeOK, StoreType
  <2>5. /\ row.id = db[p].id /\ row.text = db[p].text /\ row.hash = db[p].hash
        /\ row.marks = db[p].marks /\ row.chunks = db[p].chunks /\ row.ann = db[p].ann
        /\ row.status = IF db[p].id = 0 THEN db[p].status ELSE "pending"
    BY <1>5, <2>1 DEF Rows
  <2>6. StoreType'
    BY <1>1, <1>4, <2>2, <2>3 DEF TypeOK, StoreType
  <2> QED
    BY <2>2, <2>4, <2>5, <2>6
<1>11. Queued(p)
  BY <1>2, <1>3, <1>4 DEF Queued, Watch
<1>12. Watched /\ Watched' /\ tainted \subseteq tainted' /\ ~MarkTask(t)'
  BY <1>1, <1>2, <1>4, <1>7, <1>9 DEF Watched, Is, MarkTask, MarkOps
<1>13. \A u \in Tasks \ {t} : (Active(u)' <=> Active(u)) /\ (MarkTask(u)' <=> MarkTask(u)) /\ \A q : On(u, q)' <=> On(u, q)
  BY <1>9 DEF Active, MarkTask, On
<1>14. p \notin tainted' => /\ p \notin tainted /\ \A u \in Tasks \ {t} : ~On(u, p)
                            /\ \A u \in Tasks \ {t} : ~On(u, p)'
  BY <1>2, <1>4, <1>13 DEF OthersOn, On
<1>15. p \in BinaryPaths /\ StageOK(t) /\ p \notin TextPaths
  BY <1>1, <1>5, <1>11, LocalAssumption DEF Inv, QueueInv, TypeOK
<1>16. TypeOK'
  <2>1. StageOK(t)'
    BY <1>7, <1>9, <1>5, <1>15 DEF StageOK, WatchOps, MarkOps, ToolOps, XStages
  <2> QED
    BY <1>1, <1>9, <1>10, <2>1, OtherStages DEF TypeOK, FileType
<1>17. AloneInv'
  <2>1. ASSUME NEW q \in Paths \ tainted', NEW u \in Tasks \ {t} PROVE ~(On(u, q)' /\ On(t, q)')
    <3>1. On(t, q)' => q = p
      BY <1>7, <1>9 DEF On
    <3> QED
      BY <1>14, <2>1, <3>1
  <2>2. \A q \in Paths \ tainted' : \A u, v \in Tasks \ {t} : On(u, q)' /\ On(v, q)' => u = v
    BY <1>1, <1>12, <1>13 DEF AloneInv
  <2> QED
    BY <1>12, <2>1, <2>2 DEF AloneInv
<1>18. TxnInv'
  <2>1. "none" \notin Tasks /\ "implicit" \notin Tasks /\ t \notin Slots
    BY <1>2, LocalAssumption DEF Tasks
  <2>2. txn' \in Tasks => txn' = txn /\ txn # t /\ p \in tainted'
    BY <1>1, <1>2, <1>4, <2>1 DEF TxnInv, Intrudes
  <2>3. txn' = "none" => FALSE
    BY <1>4
  <2>4. \A u \in Slots : u \in Tasks \ {t} /\ task'[u] = task[u] /\ (MarkTask(u)' <=> MarkTask(u))
    BY <1>9, <1>13, <2>1 DEF Tasks
  <2>5. \A u \in Slots : MarkTask(u)' /\ task'[u].p \notin tainted' => txn' = u
    BY <1>1, <1>4, <1>12, <2>1, <2>4 DEF TxnInv, Tasks
  <2>6. ASSUME NEW u \in Tasks, txn' = u
        PROVE  u \in Slots /\ \A q \in Paths \ tainted' : q # task'[u].p => db'[q] = committed'[q]
    <3>1. txn = u /\ u # t /\ p \in tainted'
      BY <2>2, <2>6
    <3>2. u \in Slots /\ \A q \in Paths \ tainted : q # task[u].p => db[q] = committed[q]
      BY <1>1, <3>1 DEF TxnInv
    <3>3. task'[u] = task[u]
      BY <1>9, <3>1
    <3> QED
      BY <1>1, <1>10, <1>12, <3>1, <3>2, <3>3
  <2>7. txn' \in Tasks => MarkTask(txn)'
    BY <1>1, <2>2, <2>4 DEF TxnInv
  <2> QED
    BY <1>1, <1>10, <1>12, <2>2, <2>3, <2>4, <2>5, <2>6, <2>7 DEF TxnInv
<1>19. CountInv'
  <2>1. ASSUME NEW u \in Tasks, Active(u)' PROVE task'[u].c <= contents
    <3>1. CASE u = t
      BY <1>3, <1>7, <1>9, <3>1
    <3>2. CASE u # t
      BY <1>1, <1>9, <1>13, <2>1, <3>2 DEF CountInv
    <3> QED
      BY <3>1, <3>2
  <2>2. \A q \in Paths : db'[q].hash = db[q].hash /\ db'[q].text = db[q].text
    BY <1>10
  <2> QED
    BY <1>1, <1>12, <2>1, <2>2 DEF CountInv
<1>20. QueueInv'
  <2>1. \A q \in Paths : Queued(q)' => Queued(q)
    BY <1>2, <1>3, <1>7, <1>9 DEF Queued
  <2> QED
    BY <2>1 DEF Inv, QueueInv
<1>21. ASSUME NEW q \in Paths \ tainted', q # p PROVE PathInv(q)'
  <2>1. PathInv(q) /\ q \notin tainted
    BY <1>12, <1>21 DEF Inv
  <2>2. Queued(q)' <=> Queued(q)
    BY <1>2, <1>3, <1>7, <1>9, <1>21 DEF Queued, XStages
  <2>3. Settled(q) => Settled(q)'
    <3>1. WillExtract(q) => WillExtract(q)'
      BY <1>2, <1>3, <2>2 DEF WillExtract
    <3>2. db'[q] = db[q] /\ file'[q] = file[q] /\ task["watch"].op = "index"
      BY <1>1, <1>2, <1>3, <1>10, <1>21
    <3> QED
      BY <3>1, <3>2 DEF Settled, Indexed
  <2>4. NothingToSee(q)' => NothingToSee(q)
    BY <1>1, <1>12 DEF NothingToSee
  <2>5. \A u \in Tasks : On(u, q)' => On(u, q) /\ task'[u] = task[u]
    BY <1>7, <1>9, <1>13, <1>21 DEF On
  <2>6. \A u \in Tasks : On(u, q) /\ ~On(u, q)' => u = t
    BY <1>13
  <2> QED
    BY <1>1, <1>3, <1>10, <1>21, <2>1, <2>2, <2>3, <2>4, <2>5, <2>6, Frame DEF PathInv, StillInv
<1>22. ASSUME p \notin tainted' PROVE PathInv(p)'
  <2>1. PathInv(p) /\ StillInv(p) /\ RowOfFile(db[p], p)
    BY <1>5, <1>14, <1>22 DEF Inv, PathInv, StillInv
  <2>2. \A u \in Tasks : On(u, p) => ~Dirty(u) /\ ~Annotating(u) /\ ~Marked(u) /\ ~Working(u)
    BY <1>3, <1>14, <1>22 DEF Dirty, Annotating, Marked, Working
  <2>3. /\ db[p] = committed[p] /\ db[p].ann \subseteq db[p].marks /\ acked[p] \subseteq db[p].marks
        /\ NothingToSee(p) => Settled(p)
    BY <2>1, <2>2 DEF PathInv
  <2>4. /\ task'[t].op = "index" /\ task'[t].at = "x queued" /\ task'[t].p = p /\ task'[t].id = db[p].id
        /\ On(t, p)' /\ Dirty(t)' /\ Working(t)' /\ ~MarkTask(t)' /\ ~Marked(t)' /\ ~HasRow(t)' /\ ~Survives(t)'
    BY <1>7, <1>9 DEF On, Active, Dirty, Working, MarkTask, MarkOps, Marked, HasRow, Survives, Indexing
  <2>5. FollowInv(t)'
    BY <1>10, <2>4 DEF FollowInv, Mine
  <2>6. MarkInv(t)'
    BY <2>4 DEF MarkInv
  <2>7. StepInv(t)'
    BY <1>10, <2>4 DEF StepInv
  <2>8. NothingToSee(p)' => NothingToSee(p)
    BY <1>1, <1>12 DEF NothingToSee
  <2>9. db[p].id = 0 => db[p].text = 0 /\ db[p].status = "none"
    BY <2>1 DEF StillInv, NoRow
  <2>10. NothingToSee(p) => (db[p].id = 0 <=> file[p] = 0)
    BY <1>2, <1>3, <1>11, <2>1, <2>3, <2>9 DEF Settled, Indexed, StillInv
  <2>11. NothingToSee(p)' => StepClaim(t)'
    BY <1>1, <1>10, <2>4, <2>8, <2>10 DEF StepClaim
  <2>12. ~Queued(p)'
    BY <1>2, <1>7, <1>9 DEF Queued
  <2>13. RowOfFile(db[p], p)' /\ RowOfFile(committed[p], p)'
    <3>1. \A r : RowOfFile(r, p)' = RowOfFile(r, p)
      BY <1>1 DEF RowOfFile, NotNewer
    <3>2. RowOfFile(db'[p], p)
      BY <1>10, <1>15, <2>1 DEF RowOfFile
    <3> QED
      BY <1>1, <2>1, <3>1, <3>2 DEF StillInv, RowOfFile, NotNewer
  <2>14. db[p].id = 0 => db'[p] = NoRow
    <3>1. db[p].id = 0 => db'[p] = db[p]
      BY <1>5, <1>10 DEF Rows
    <3> QED
      BY <2>1, <3>1 DEF StillInv
  <2>15. StillInv(p)'
    BY <1>1, <1>10, <2>1, <2>3, <2>12, <2>13, <2>14 DEF StillInv, NoRow
  <2>16. \A u \in Tasks : On(u, p)' => u = t
    BY <1>14, <1>22
  <2>17. JobInv(t, p)'
    BY <1>1, <1>10, <2>3, <2>4, <2>5, <2>6, <2>7, <2>11, <2>15 DEF JobInv, TaskInv
  <2> QED
    BY <1>5, <2>16, <2>17, OnlyOneAfter
<1> QED
  BY <1>16, <1>17, <1>18, <1>19, <1>20, <1>21, <1>22 DEF Inv

--------------------------------------------------------------------------------
(* The user, the events and the restarts. *)

(* A path is as it was when no task takes a step and its file stays. *)
LEMMA UnmovedPath ==
    ASSUME Inv, NEW q \in Paths \ tainted, UNCHANGED <<task, db, committed, acked>>, file'[q] = file[q],
           NothingToSee(q)' => NothingToSee(q)
    PROVE  PathInv(q)'
<1>1. PathInv(q)
  BY DEF Inv
<1>2. \A u \in Tasks : (On(u, q)' <=> On(u, q)) /\ task'[u] = task[u]
  BY DEF On, Active
<1>3. Queued(q)' => q \in BinaryPaths /\ db[q].status # "removed"
  BY <1>1 DEF PathInv, StillInv, Queued
<1>4. Settled(q) => Settled(q)'
  BY DEF Settled, Indexed, WillExtract, Queued
<1> QED
  BY <1>1, <1>2, <1>3, <1>4, Frame

(* What is left to show when no task takes a step. *)
LEMMA Unmoved ==
    ASSUME Inv, UNCHANGED <<task, db, committed, txn>>, FileType', CountInv', tainted \subseteq tainted',
           \A q \in Paths \ tainted' : PathInv(q)'
    PROVE  Inv'
<1>1. TypeOK'
  BY DEF Inv, TypeOK, TaskType, StoreType, StageOK
<1>2. AloneInv'
  <2>1. \A u \in Tasks : /\ \A q \in Paths : On(u, q)' <=> On(u, q)
                         /\ Active(u)' <=> Active(u)
                         /\ Survives(u)' <=> Survives(u)
                         /\ task'[u] = task[u]
    BY DEF On, Active, Survives
  <2>2. Watched' <=> Watched
    BY DEF Watched
  <2>3. AloneInv
    BY DEF Inv
  <2>4. \A q \in Paths \ tainted' : \A u, v \in Tasks : On(u, q)' /\ On(v, q)' => u = v
    BY <2>1, <2>3 DEF AloneInv
  <2>5. ~Watched' => \A u \in Slots : Active(u)' => Survives(u)' /\ task'[u].p \in tainted'
    BY <2>1, <2>2, <2>3 DEF AloneInv, Tasks
  <2> QED
    BY <2>4, <2>5 DEF AloneInv
<1>3. TxnInv'
  BY DEF Inv, TxnInv, MarkTask
<1>4. QueueInv'
  BY DEF Inv, QueueInv, Queued
<1> QED
  BY <1>1, <1>2, <1>3, <1>4 DEF Inv

(* What is not newer than the last content is not newer than the next, or than none. *)
LEMMA Older ==
    ASSUME NEW q, NEW c \in Nat, NEW k \in Nat, NEW x \in Nat, x <= k, c = 0 \/ k < c, file'[q] = c
    PROVE  NotNewer(x, q)' /\ (c = 0 \/ x # c)
    BY DEF NotNewer

(* A row that was of a file is of the file with a new content. *)
LEMMA OlderRow ==
    ASSUME NEW q, NEW r \in Rows, NEW c \in Nat, NEW k \in Nat, r.hash <= k, r.text <= k, c = 0 \/ k < c, file'[q] = c,
           RowOfFile(r, q)
    PROVE  /\ NotNewer(r.hash, q)' /\ NotNewer(r.text, q)'
           /\ q \in TextPaths /\ r.hash # 0 /\ r.hash = file'[q] => r.text = file'[q]
           /\ q \in BinaryPaths /\ r.status = "ready" /\ r.chunks # 0 => r.chunks = r.text /\ r.hash <= r.text
           /\ q \in BinaryPaths /\ r.status = "removed" => file'[q] = 0 \/ r.hash # file'[q]
           /\ q \in BinaryPaths /\ r.id # 0 => r.status # "none"
<1>1. r.hash \in Nat /\ r.text \in Nat
  BY DEF Rows
<1>2. NotNewer(r.hash, q)' /\ (c = 0 \/ r.hash # c)
  BY <1>1, Older
<1>3. NotNewer(r.text, q)'
  BY <1>1, Older
<1> QED
  BY <1>2, <1>3 DEF RowOfFile

(* The user edits or removes a file: what was read of it before is older. *)
LEMMA EditFileStep ==
    ASSUME Inv, NEW p \in Paths, EditFile(p)
    PROVE  Inv'
<1>1. /\ TypeOK /\ CountInv /\ contents < MaxContents /\ UNCHANGED <<task, db, committed, txn, ids, recent, acked>>
      /\ events' = IF Watched THEN events \cup {p} ELSE events
  BY DEF Inv, EditFile, MayWrite, Tell, noteVars
<1>2. PICK c \in Nat : /\ c = 0 \/ c = contents + 1
                       /\ file' = [file EXCEPT ![p] = c]
                       /\ contents' = IF c = 0 THEN contents ELSE c
                       /\ tainted' = tainted \cup Unseen(p, c)
  <2>1. contents \in Nat
    BY <1>1 DEF TypeOK, FileType
  <2>2. New = contents + 1 /\ New \in Nat
    BY <2>1 DEF New
  <2>3. PICK c \in {0, New} : /\ file' = [file EXCEPT ![p] = c]
                              /\ contents' = IF c = 0 THEN contents ELSE c
                              /\ tainted' = tainted \cup Unseen(p, c)
    BY DEF EditFile
  <2>4. c \in Nat /\ (c = 0 \/ c = contents + 1)
    BY <2>2
  <2> QED
    BY <2>3, <2>4
<1>3. /\ contents \in Nat /\ contents' \in Nat /\ contents <= contents' /\ contents' <= MaxContents
      /\ c <= contents' /\ (c = 0 \/ contents < c)
  BY <1>1, <1>2, LocalAssumption DEF TypeOK, FileType
<1>4. /\ file' \in [Paths -> Nat] /\ file'[p] = c /\ \A q \in Paths \ {p} : file'[q] = file[q]
      /\ tainted \subseteq tainted'
  BY <1>1, <1>2, <1>3 DEF TypeOK, FileType
<1>5. FileType'
  BY <1>1, <1>3, <1>4 DEF TypeOK, FileType
<1>6. CountInv'
  <2>1. \A q \in Paths : /\ file[q] \in Nat /\ recent[q] \in Nat
                         /\ db[q].hash \in Nat /\ db[q].text \in Nat /\ committed[q].hash \in Nat /\ committed[q].text \in Nat
    BY <1>1 DEF TypeOK, FileType, StoreType, Rows
  <2>2. ASSUME NEW q \in Paths
        PROVE  /\ file'[q] <= contents' /\ (recent'[q] <= contents' \/ recent'[q] = NotRecent)
               /\ db'[q].hash <= contents' /\ committed'[q].hash <= contents'
               /\ db'[q].text <= contents' /\ committed'[q].text <= contents'
    <3>1. /\ file[q] <= contents /\ (recent[q] <= contents \/ recent[q] = NotRecent)
          /\ db[q].hash <= contents /\ committed[q].hash <= contents
          /\ db[q].text <= contents /\ committed[q].text <= contents
      BY <1>1 DEF CountInv
    <3> QED
      BY <1>1, <1>3, <1>4, <2>1, <3>1
  <2>3. ASSUME NEW u \in Tasks, Active(u)' PROVE task'[u].c <= contents'
    <3>1. Active(u) /\ task'[u].c = task[u].c
      BY <1>1, <2>3 DEF Active
    <3>2. task[u].c \in Nat /\ task[u].c <= contents
      BY <1>1, <3>1, TaskFields DEF CountInv
    <3> QED
      BY <1>3, <3>1, <3>2
  <2>4. ~Watched' => events' = {} /\ recent' = [q \in Paths |-> NotRecent]
    BY <1>1 DEF CountInv, Watched
  <2> QED
    BY <1>3, <2>2, <2>3, <2>4 DEF CountInv
<1>7. ASSUME NEW q \in Paths \ tainted' PROVE PathInv(q)'
  <2>1. PathInv(q) /\ q \notin tainted
    BY <1>4, <1>7 DEF Inv
  <2>2. CASE q # p
    <3>1. NothingToSee(q)' => NothingToSee(q)
      BY <1>1, <1>4, <2>2 DEF NothingToSee, Watched
    <3> QED
      BY <1>1, <1>4, <2>1, <2>2, <3>1, UnmovedPath
  <2>3. CASE q = p
    <3>1. ~NothingToSee(q)'
      BY <1>1, <1>2, <1>4, <1>7, <2>3 DEF Unseen, NothingToSee, Watched
    <3>2. /\ db[q].hash \in Nat /\ db[q].hash <= contents /\ db[q].text \in Nat /\ db[q].text <= contents
          /\ committed[q].hash \in Nat /\ committed[q].hash <= contents /\ committed[q].text \in Nat /\ committed[q].text <= contents
          /\ file'[q] = c
      BY <1>1, <1>4, <2>3 DEF TypeOK, StoreType, Rows, CountInv
    <3>3. RowOfFile(db[q], q)' /\ RowOfFile(committed[q], q)'
      <4>1. /\ db[q] \in Rows /\ committed[q] \in Rows /\ RowOfFile(db[q], q) /\ RowOfFile(committed[q], q)
            /\ db'[q] = db[q] /\ committed'[q] = committed[q]
        BY <1>1, <2>1 DEF TypeOK, StoreType, PathInv, StillInv
      <4>2. \A r \in Rows : r.hash <= contents /\ r.text <= contents /\ RowOfFile(r, q) => RowOfFile(r, q)'
        BY <1>3, <3>2, OlderRow DEF RowOfFile
      <4>3. PICK r \in Rows, s \in Rows : r = db[q] /\ s = committed[q]
        BY <4>1
      <4>4. RowOfFile(r, q)' /\ RowOfFile(s, q)'
        BY <3>2, <4>1, <4>2, <4>3
      <4> QED
        BY <4>1, <4>3, <4>4
    <3>4. StillInv(q)'
      BY <1>1, <2>1, <3>3 DEF PathInv, StillInv, NoRow, Queued
    <3>5. ASSUME NEW u \in Tasks, On(u, q)' PROVE TaskInv(u)'
      <4>1. On(u, q) /\ task'[u] = task[u] /\ TaskInv(u) /\ task[u].p = q
        BY <1>1, <2>1, <3>5 DEF On, Active, PathInv
      <4>2. task[u].c \in Nat /\ task[u].c <= contents
        BY <1>1, <4>1, TaskFields DEF On, CountInv
      <4>3. NotNewer(task[u].c, q)' /\ (c = 0 \/ db[q].hash # c)
        <5>1. PICK x \in Nat : x = task[u].c
          BY <4>2
        <5>2. PICK y \in Nat : y = db[q].hash
          BY <3>2
        <5>3. NotNewer(x, q)'
          BY <1>3, <3>2, <4>2, <5>1, Older
        <5>4. c = 0 \/ y # c
          BY <1>3, <3>2, <5>2
        <5>5. NotNewer(task[u].c, q)'
          BY <4>1, <5>1, <5>3
        <5> QED
          BY <5>2, <5>4, <5>5
      <4>4. FollowInv(u)'
        BY <1>1, <4>1 DEF TaskInv, FollowInv, Follows, Mine, HasRow, Indexing
      <4>5. MarkInv(u)'
        BY <1>1, <4>1 DEF TaskInv, MarkInv, MarkTask, Marked, Confirmed
      <4>6. StepInv(u)'
        BY <1>1, <3>2, <4>1, <4>3 DEF TaskInv, StepInv, Indexing
      <4> QED
        BY <4>4, <4>5, <4>6 DEF TaskInv
    <3>6. \A u \in Tasks : /\ On(u, q)' <=> On(u, q)
                           /\ Dirty(u)' <=> Dirty(u)
                           /\ Annotating(u)' <=> Annotating(u)
                           /\ Marked(u)' <=> Marked(u)
      BY <1>1 DEF On, Active, Dirty, Annotating, Marked, MarkTask
    <3> QED
      BY <1>1, <2>1, <3>1, <3>4, <3>5, <3>6 DEF PathInv
  <2> QED
    BY <2>2, <2>3
<1> QED
  BY <1>1, <1>4, <1>5, <1>6, <1>7, Unmoved

(* The cooldown of a path is over. *)
LEMMA CooldownStep ==
    ASSUME Inv, NEW p \in Paths, Cooldown(p)
    PROVE  Inv'
<1>1. /\ TypeOK /\ CountInv /\ recent' = [recent EXCEPT ![p] = NotRecent]
      /\ UNCHANGED <<file, db, committed, txn, contents, ids, task, events, acked, tainted>>
  BY DEF Inv, Cooldown, storeVars
<1>2. contents \in Nat /\ contents <= MaxContents /\ NotRecent \in Nat /\ contents < NotRecent
  BY <1>1, LocalAssumption DEF TypeOK, FileType, CountInv, NotRecent
<1>3. recent' \in [Paths -> Nat] /\ recent'[p] = NotRecent /\ \A q \in Paths \ {p} : recent'[q] = recent[q]
  BY <1>1, <1>2 DEF TypeOK, FileType
<1>4. FileType'
  BY <1>1, <1>3 DEF TypeOK, FileType
<1>5. CountInv'
  <2>1. ~Watched' => recent' = [q \in Paths |-> NotRecent]
    BY <1>1 DEF CountInv, Watched
  <2>2. \A q \in Paths : recent'[q] <= contents \/ recent'[q] = NotRecent
    BY <1>1, <1>3 DEF CountInv
  <2> QED
    BY <1>1, <2>1, <2>2 DEF CountInv, Active, Watched
<1>6. ASSUME NEW q \in Paths \ tainted PROVE PathInv(q)'
  <2>1. file[q] # NotRecent
    BY <1>1, <1>2 DEF CountInv, TypeOK, FileType
  <2>2. NothingToSee(q)' => NothingToSee(q)
    BY <1>1, <1>3, <2>1 DEF NothingToSee, Watched
  <2> QED
    BY <1>1, <2>2, UnmovedPath
<1> QED
  BY <1>1, <1>4, <1>5, <1>6, Unmoved

(* An event of the app's own write is dropped. *)
LEMMA DropStep ==
    ASSUME Inv, NEW p \in Paths, Drop(p)
    PROVE  Inv'
<1>1. /\ TypeOK /\ CountInv /\ events' = events \ {p} /\ Watched
      /\ tainted \subseteq tainted' /\ (p \notin tainted' => file[p] = recent[p])
      /\ UNCHANGED <<file, db, committed, txn, contents, ids, task, recent, acked>>
  BY DEF Inv, Drop, fileVars, noteVars
<1>2. FileType'
  BY <1>1 DEF TypeOK, FileType
<1>3. CountInv'
  BY <1>1 DEF CountInv, Active, Watched
<1>4. ASSUME NEW q \in Paths \ tainted' PROVE PathInv(q)'
  <2>1. NothingToSee(q)' => NothingToSee(q)
    BY <1>1, <1>4 DEF NothingToSee, Watched
  <2> QED
    BY <1>1, <1>4, <2>1, UnmovedPath
<1> QED
  BY <1>1, <1>2, <1>3, <1>4, Unmoved

(* The process ends, and another starts. *)
LEMMA RestartStep ==
    ASSUME Inv, Restart
    PROVE  Inv'
<1>1. /\ TypeOK /\ db' = committed /\ txn' = "none" /\ events' = {} /\ recent' = [p \in Paths |-> NotRecent]
      /\ UNCHANGED <<committed, file, contents, ids, acked>>
      /\ task' = [t \in Tasks |-> IF t = "watch" THEN Boot ELSE IF Survives(t) THEN task[t] ELSE Idle]
      /\ tainted' = tainted \cup {task[t].p : t \in {t \in Slots : Survives(t)}}
  BY DEF Inv, Restart, fileVars
<1>2. Boot \in WatchJobs
  BY DEF Boot, WatchJobs, WatchOps, Stages
<1>3. task' \in [Tasks -> {Idle} \cup WatchJobs \cup SlotJobs \cup MarkJobs]
  BY <1>1, <1>2 DEF TypeOK, TaskType
<1>4. task'["watch"] = Boot
  BY <1>1 DEF Tasks
<1>5. ASSUME NEW t \in Slots
      PROVE  task'[t] = Idle \/ (task'[t] = task[t] /\ (Active(t) => Survives(t) /\ task[t].p \in tainted'))
  <2>1. t \in Tasks /\ t # "watch"
    BY LocalAssumption DEF Tasks
  <2>2. CASE Survives(t)
    BY <1>1, <2>1, <2>2
  <2>3. CASE ~Survives(t)
    BY <1>1, <2>1, <2>3
  <2> QED
    BY <2>2, <2>3
<1> QED
  BY <1>1, <1>3, <1>4, <1>5, Rebooted

--------------------------------------------------------------------------------
(* The end of the startup: a coroutine for each document that waits. *)
LEMMA ServeStep ==
    ASSUME Inv, Serve
    PROVE  Inv'
<1>1. /\ TypeOK /\ CountInv /\ TxnInv /\ AloneInv /\ ~Watched /\ Missing = {}
      /\ task["watch"].op = "boot" /\ task["watch"].at = "next" /\ task["watch"].todo = {}
      /\ UNCHANGED <<db, committed, txn, tainted, ids, file, contents, events, recent, acked>>
  BY DEF Inv, Serve, Is, Watched, Watch, NoStatement, fileVars, noteVars
<1>2. PICK slot \in [Waiting -> {s \in Slots : ~Active(s)}] :
         /\ \A p, q \in Waiting : slot[p] = slot[q] => p = q
         /\ task' = [t \in Tasks |->
                       IF t = "watch" THEN Idle
                       ELSE IF \E p \in Waiting : slot[p] = t
                       THEN LET p == CHOOSE p \in Waiting : slot[p] = t
                            IN Job("extract", p, db[p].id, "x select")
                       ELSE task[t]]
  BY DEF Serve, RecoveredAtStartup
<1>3. /\ \A q \in Paths \ tainted, u \in Tasks : On(u, q) => u = "watch"
      /\ \A t \in Slots : Active(t) => Survives(t) /\ task[t].p \in tainted
  BY <1>1, BootAlone DEF AloneInv
<1>4. task'["watch"] = Idle /\ Watched' /\ ~Active("watch")'
  BY <1>2 DEF Tasks, Watched, Idle, Active
<1>5. ASSUME NEW q \in Waiting
      PROVE  slot[q] \in Slots /\ ~Active(slot[q]) /\ task'[slot[q]] = Job("extract", q, db[q].id, "x select")
  <2>1. slot[q] \in Slots /\ ~Active(slot[q]) /\ slot[q] \in Tasks /\ slot[q] # "watch"
    BY <1>2, LocalAssumption DEF Tasks
  <2>2. (CHOOSE p \in Waiting : slot[p] = slot[q]) = q
    BY <1>2
  <2> QED
    BY <1>2, <2>1, <2>2
<1>6. \A t \in Slots : (\A q \in Waiting : slot[q] # t) => task'[t] = task[t]
  BY <1>2, LocalAssumption DEF Tasks
<1>7. ASSUME NEW t \in Slots
      PROVE  \/ task'[t] = task[t]
             \/ \E q \in Waiting : t = slot[q] /\ task'[t] = Job("extract", q, db[q].id, "x select")
  BY <1>5, <1>6
<1>8. ASSUME NEW q \in Waiting
      PROVE  /\ q \in Paths /\ q \in BinaryPaths /\ db[q].id \in Nat /\ db[q].status \in {"pending", "processing"}
             /\ Job("extract", q, db[q].id, "x select") \in SlotJobs
  <2>1. q \in Paths /\ q \in BinaryPaths /\ db[q].id \in Nat /\ db[q].status \in {"pending", "processing"}
    BY <1>1 DEF Waiting, Paths, TypeOK, StoreType, Rows
  <2> QED
    BY <2>1 DEF Job, SlotJobs, SlotOps, Stages, XStages
<1>9. ASSUME NEW t \in Slots, NEW q \in Waiting, t = slot[q]
      PROVE  /\ task'[t].op = "extract" /\ task'[t].p = q /\ task'[t].id = db[q].id /\ task'[t].c = 0 /\ task'[t].at = "x select"
             /\ Active(t)' /\ ~MarkTask(t)' /\ ~Survives(t)' /\ ~Indexing(t)' /\ StageOK(t)'
  <2>1. /\ task'[t].op = "extract" /\ task'[t].p = q /\ task'[t].id = db[q].id /\ task'[t].c = 0 /\ task'[t].at = "x select"
    <3>1. task'[t] = Job("extract", q, db[q].id, "x select")
      BY <1>5, <1>9
    <3>2. PICK at : at = "x select"
      OBVIOUS
    <3>3. task'[t] = Job("extract", q, db[q].id, at)
      BY <3>1, <3>2
    <3>4. task'[t].op = "extract" /\ task'[t].p = q /\ task'[t].id = db[q].id /\ task'[t].c = 0 /\ task'[t].at = at
      BY <3>3 DEF Job
    <3> QED
      BY <3>2, <3>4
  <2>2. Active(t)' /\ ~MarkTask(t)' /\ ~Survives(t)' /\ ~Indexing(t)'
    BY <2>1 DEF Active, MarkTask, MarkOps, Survives, Indexing, WatchOps
  <2>3. StageOK(t)'
    BY <1>8, <2>1 DEF StageOK, MarkOps, ToolOps, WatchOps, XStages
  <2> QED
    BY <2>1, <2>2, <2>3
<1>10. ASSUME NEW t \in Slots, Active(t)', NEW q \in Paths \ tainted, task'[t].p = q
       PROVE  q \in Waiting /\ t = slot[q]
  <2>1. CASE task'[t] = task[t]
    BY <1>3, <1>10, <2>1 DEF Active
  <2>2. CASE \E r \in Waiting : t = slot[r]
    BY <1>9, <1>10, <2>2
  <2> QED
    BY <1>7, <2>1, <2>2
<1>11. TypeOK'
  <2>1. ASSUME NEW t \in Slots PROVE task'[t] \in {Idle} \cup SlotJobs \cup MarkJobs
    BY <1>1, <1>7, <1>8 DEF TypeOK, TaskType
  <2>2. TaskType'
    BY <1>2, <1>4, <2>1 DEF TaskType, Tasks
  <2>3. ASSUME NEW t \in Tasks PROVE StageOK(t)'
    <3>1. CASE t = "watch"
      <4>1. task'[t] = Idle
        BY <1>4, <3>1
      <4> QED
        BY <4>1 DEF StageOK, WatchOps, MarkOps, ToolOps, Idle
    <3>2. CASE t \in Slots /\ task'[t] = task[t]
      BY <1>1, <3>2 DEF TypeOK, StageOK
    <3>3. CASE t \in Slots /\ \E q \in Waiting : t = slot[q]
      BY <1>9, <3>3
    <3> QED
      BY <1>7, <3>1, <3>2, <3>3 DEF Tasks
  <2>4. StoreType' /\ FileType'
    BY <1>1 DEF TypeOK, StoreType, FileType
  <2> QED
    BY <2>2, <2>3, <2>4 DEF TypeOK
<1>12. AloneInv'
  <2>1. \A q \in Paths \ tainted' : \A t, u \in Tasks : On(t, q)' /\ On(u, q)' => t = u
    BY <1>1, <1>4, <1>10 DEF On, Tasks
  <2> QED
    BY <1>4, <2>1 DEF AloneInv
<1>13. \A t \in Slots : ~MarkTask(t)
  BY <1>3 DEF MarkTask, MarkOps, Active, Survives
<1>14. \A t \in Slots : ~MarkTask(t)'
  <2>1. ASSUME NEW t \in Slots, task'[t] = task[t] PROVE ~MarkTask(t)'
    BY <1>13, <2>1 DEF MarkTask
  <2> QED
    BY <1>7, <1>9, <2>1
<1>15. TxnInv'
  BY <1>1, <1>13, <1>14 DEF TxnInv
<1>16. CountInv'
  <2>1. contents \in Nat
    BY <1>1 DEF TypeOK, FileType
  <2>2. ASSUME NEW t \in Tasks, Active(t)' PROVE task'[t].c <= contents
    <3>1. CASE t \in Slots /\ task'[t] = task[t]
      BY <1>1, <2>2, <3>1 DEF CountInv, Active
    <3>2. CASE t \in Slots /\ task'[t].c = 0
      BY <2>1, <3>2
    <3> QED
      BY <1>4, <1>7, <1>9, <2>2, <3>1, <3>2 DEF Tasks
  <2> QED
    BY <1>1, <1>4, <2>2 DEF CountInv
<1>17. QueueInv'
  BY <1>4 DEF QueueInv, Queued, Idle
<1>18. ASSUME NEW q \in Paths \ tainted PROVE PathInv(q)'
  <2>1. /\ PathInv(q) /\ ~Queued(q)'
        /\ \A u \in Tasks : On(u, q) => u = "watch" /\ task[u].at = "next" /\ ~MarkTask(u) /\ ~Working(u)
        /\ NothingToSee(q)' => NothingToSee(q)
    BY <1>1, <1>3, <1>4, <1>18 DEF Inv, Queued, Idle, MarkTask, MarkOps, Working, NothingToSee
  <2>2. CASE q \in Waiting
    <3>1. PICK t \in Slots : t = slot[q] /\ t \in Tasks /\ t # "watch"
      BY <1>5, <2>2, LocalAssumption DEF Tasks
    <3>2. /\ task'[t].op = "extract" /\ task'[t].p = q /\ task'[t].id = db[q].id /\ task'[t].c = 0 /\ task'[t].at = "x select"
          /\ Active(t)' /\ ~MarkTask(t)' /\ ~Survives(t)' /\ ~Indexing(t)'
      BY <1>9, <2>2, <3>1
    <3>3. \A u \in Tasks : On(u, q)' <=> u = t
      BY <1>4, <1>10, <1>18, <3>1, <3>2 DEF On, Tasks
    <3>4. ~Dirty(t)' /\ ~Annotating(t)' /\ ~Marked(t)' /\ Working(t)'
      BY <3>2 DEF Dirty, Annotating, Marked, Working
    <3>5. \A u \in Tasks : On(u, q) => ~Dirty(u) /\ ~Annotating(u) /\ ~Marked(u)
      BY <2>1 DEF Dirty, Annotating, Marked
    <3>6. StillInv(q) /\ db[q] = committed[q] /\ db[q].ann \subseteq db[q].marks /\ acked[q] \subseteq db[q].marks
      BY <2>1, <3>5 DEF PathInv
    <3>7. db[q].status \in {"pending", "processing"} /\ db[q].id # 0 /\ file[q] # 0
      <4>1. db[q].status \in {"pending", "processing"}
        BY <1>8, <2>2
      <4>2. db[q].id # 0
        BY <3>6, <4>1 DEF StillInv, NoRow
      <4> QED
        BY <1>1, <4>1, <4>2 DEF Missing
    <3>8. RowOfFile(db[q], q)'
      BY <1>1, <3>6 DEF StillInv, RowOfFile, NotNewer
    <3>9. StillInv(q)'
      BY <1>1, <2>1, <3>6, <3>8 DEF StillInv, NoRow
    <3>10. FollowInv(t)'
      BY <1>1, <3>2, <3>7 DEF FollowInv, Mine
    <3>11. MarkInv(t)'
      BY <3>2, <3>4 DEF MarkInv
    <3>12. StepInv(t)'
      BY <1>1, <3>2, <3>7 DEF StepInv
    <3>13. StepClaim(t)'
      BY <1>1, <3>2, <3>7 DEF StepClaim, WatchOps
    <3>14. \A u \in Tasks : On(u, q)' => TaskInv(u)' /\ StepClaim(u)'
      BY <3>3, <3>10, <3>11, <3>12, <3>13 DEF TaskInv
    <3>15. db'[q] = committed'[q] /\ db'[q].ann \subseteq db'[q].marks /\ acked'[q] \subseteq db'[q].marks
      BY <1>1, <3>6
    <3>16. On(t, q)' /\ ~(\A u \in Tasks : On(u, q)' => ~Working(u)')
      BY <3>1, <3>3, <3>4
    <3> QED
      BY <3>9, <3>14, <3>15, <3>16 DEF PathInv
  <2>3. CASE q \notin Waiting
    <3>1. \A u \in Tasks : ~On(u, q)'
      BY <1>4, <1>10, <1>18, <2>3 DEF On, Tasks
    <3>2. NothingToSee(q)' => Settled(q)
      BY <2>1 DEF PathInv
    <3>3. NothingToSee(q)' => Settled(q)'
      BY <1>1, <2>3, <3>2 DEF Settled, Indexed, Missing, Waiting
    <3> QED
      BY <1>1, <2>1, <3>1, <3>3, RestingAfter
  <2> QED
    BY <2>2, <2>3
<1> QED
  BY <1>1, <1>11, <1>12, <1>15, <1>16, <1>17, <1>18 DEF Inv
--------------------------------------------------------------------------------
(* Every step. *)

(* A request, or a tool, that is at work. *)
LEMMA RequestSteps ==
    ASSUME Inv, NEW t \in Slots, RequestStep(t)
    PROVE  Inv'
<1>1. CASE WriteContent(t) \/ ContentRow(t) \/ StoreChunks(t)
  BY <1>1, WriteContentStep, ContentRowStep, StoreChunksStep
<1>2. CASE WriteUpload(t) \/ InsertUpload(t) \/ _clear_extracted_state(t) \/ ReplaceRow(t) \/ CommitDocument(t)
  BY <1>2, WriteUploadStep, InsertUploadStep, ClearUploadStep, ReplaceRowStep, CommitDocumentStep
<1>3. CASE Unlink(t) \/ archive(t, "chunks") \/ archive(t, "row") \/ EndRequest(t)
  BY <1>3, UnlinkStep, DeleteChunksStep, DeleteRowStep, EndRequestStep
<1>4. CASE ReadHighlights(t) \/ RefuseHighlight(t) \/ WriteHighlights(t) \/ Annotate(t) \/ CommitHighlights(t)
  BY <1>4, ReadHighlightsStep, RefuseHighlightStep, WriteHighlightsStep, AnnotateStep, CommitHighlightsStep
<1>5. CASE ToolFile(t) \/ ToolTransaction(t) \/ ToolLocked(t)
  BY <1>5, ToolFileStep, ToolTransactionStep, ToolLockedStep
<1> QED
  BY <1>1, <1>2, <1>3, <1>4, <1>5 DEF RequestStep

(* The watcher and the startup. *)
LEMMA IndexSteps ==
    ASSUME Inv, IndexStep
    PROVE  Inv'
<1>1. PICK t \in Tasks : t = "watch"
  BY DEF Tasks
<1>2. CASE Select \/ InsertRow \/ _clear_extracted_rows \/ UpdateRow \/ CommitRow
  BY <1>1, <1>2, SelectStep, InsertRowStep, ClearRowsStep, UpdateRowStep, CommitRowStep
<1>3. CASE IndexChunks
  BY <1>1, <1>3, IndexChunksStep, IndexNothingStep
<1>4. CASE mark_source_deleted
  BY <1>1, <1>4, MarkDeletedStep, MarkNothingStep
<1>5. CASE CommitChunks
  BY <1>1, <1>5, CommitChunksStep
<1>6. CASE extract_pending_sources \/ ExtractNext
  BY <1>6, PendingStep, ExtractedStep, ExtractNextStep
<1>7. CASE scan_workspace \/ ScanMissing \/ Serve
  BY <1>7, ScanStep, ScanMissingStep, ServeStep
<1> QED
  BY <1>2, <1>3, <1>4, <1>5, <1>6, <1>7 DEF IndexStep

(* A step that changes nothing. *)
LEMMA Stuttering ==
    ASSUME Inv, UNCHANGED vars
    PROVE  Inv'
<1>1. UNCHANGED <<file, db, committed, txn, contents, ids, task, events, recent, acked, tainted>>
  BY DEF vars, storeVars
<1>2. FileType' /\ CountInv'
  BY <1>1 DEF Inv, TypeOK, FileType, CountInv, Active, Watched
<1>3. ASSUME NEW q \in Paths \ tainted PROVE PathInv(q)'
  <2>1. NothingToSee(q)' => NothingToSee(q)
    BY <1>1 DEF NothingToSee, Watched
  <2> QED
    BY <1>1, <2>1, UnmovedPath
<1> QED
  BY <1>1, <1>2, <1>3, Unmoved

(* The invariant is inductive. *)
LEMMA Inductive ==
    ASSUME Inv, [Next]_vars
    PROVE  Inv'
<1>1. CASE \E p \in Paths : EditFile(p) \/ Cooldown(p) \/ Drop(p) \/ _apply_watched_change(p)
  BY <1>1, EditFileStep, CooldownStep, DropStep, ApplyStep
<1>2. CASE \E t \in Slots, p \in Paths : Starts(t, p)
  BY <1>2, StartsStep
<1>3. CASE \E t \in Slots : RequestStep(t)
  BY <1>3, RequestSteps
<1>4. CASE \E t \in Tasks : ExtractionStep(t)
  BY <1>4, ExtractionSteps
<1>5. CASE IndexStep
  BY <1>5, IndexSteps
<1>6. CASE Restart
  BY <1>6, RestartStep
<1>7. CASE UNCHANGED vars
  BY <1>7, Stuttering
<1> QED
  BY <1>1, <1>2, <1>3, <1>4, <1>5, <1>6, <1>7 DEF Next

(* The first process finds an empty workspace, and serves. *)
LEMMA Initial ==
    ASSUME Init
    PROVE  Inv
<1>1. /\ file = [p \in Paths |-> 0] /\ db = [p \in Paths |-> NoRow] /\ committed = [p \in Paths |-> NoRow]
      /\ txn = "none" /\ contents = 0 /\ ids = 0 /\ events = {} /\ recent = [p \in Paths |-> NotRecent]
      /\ acked = [p \in Paths |-> {}] /\ tainted = {} /\ task = [t \in Tasks |-> Idle]
  BY DEF Init, StoreInit
<1>2. MaxContents \in Nat /\ NotRecent \in Nat /\ "none" \notin Tasks /\ "watch" \in Tasks
  BY LocalAssumption DEF NotRecent, Tasks
<1>3. NoRow \in Rows /\ NoRow.id = 0 /\ NoRow.status = "none" /\ NoRow.hash = 0 /\ NoRow.text = 0 /\ NoRow.chunks = 0
      /\ NoRow.marks = {} /\ NoRow.ann = {}
  BY DEF NoRow, Rows, Statuses
<1>4. \A t \in Tasks : ~Active(t) /\ ~MarkTask(t) /\ StageOK(t)
  <2>1. ASSUME NEW t \in Tasks PROVE ~Active(t) /\ ~MarkTask(t) /\ StageOK(t)
    <3>1. task[t] = Idle
      BY <1>1
    <3> QED
      BY <3>1 DEF Active, MarkTask, StageOK, WatchOps, MarkOps, ToolOps, Idle
  <2> QED
    BY <2>1
<1>5. TypeOK
  <2>1. TaskType
    BY <1>1, <1>2 DEF TaskType, Tasks
  <2>2. StoreType
    BY <1>1, <1>3 DEF StoreType
  <2>3. FileType
    BY <1>1, <1>2 DEF FileType
  <2> QED
    BY <1>4, <2>1, <2>2, <2>3 DEF TypeOK
<1>6. Watched
  BY <1>1, <1>2 DEF Watched, Idle
<1>7. AloneInv
  BY <1>4, <1>6 DEF AloneInv, On
<1>8. TxnInv
  BY <1>1, <1>2, <1>4 DEF TxnInv, Tasks
<1>9. CountInv
  BY <1>1, <1>2, <1>3, <1>4, <1>6 DEF CountInv
<1>10. \A q \in Paths : ~Queued(q)
  BY <1>1, <1>2 DEF Queued, Idle
<1>11. ASSUME NEW q \in Paths PROVE PathInv(q)
  <2>1. /\ db[q] = NoRow /\ committed[q] = NoRow /\ acked[q] = {} /\ file[q] = 0
        /\ \A t \in Tasks : ~On(t, q)
    BY <1>1, <1>4 DEF On
  <2>2. RowOfFile(db[q], q) /\ RowOfFile(committed[q], q)
    BY <1>3, <2>1 DEF RowOfFile, NotNewer
  <2>3. StillInv(q)
    BY <1>3, <1>10, <2>1, <2>2 DEF StillInv
  <2>4. Settled(q)
    BY <1>3, <2>1 DEF Settled
  <2> QED
    BY <1>3, <2>1, <2>3, <2>4 DEF PathInv
<1> QED
  BY <1>5, <1>7, <1>8, <1>9, <1>10, <1>11 DEF Inv, QueueInv

(* The invariant is one of the specification. *)
LEMMA Invariance == Spec => []Inv
<1>1. Init => Inv
  BY Initial
<1>2. Inv /\ [Next]_vars => Inv'
  BY Inductive
<1> QED
  BY <1>1, <1>2, PTL DEF Spec

--------------------------------------------------------------------------------
(* For any files, requests, tools, restarts and interleavings of them (the MCP server *)
(* in a process of its own): when nothing is at work on a file and the watcher has    *)
(* nothing of it left to see, the index has its text and chunks of that text, or the  *)
(* extraction of it failed; unless tasks overlapped on it, or a change of it was one  *)
(* the watcher is not told of.                                                        *)
THEOREM IndexStaysCurrent == Spec => []IndexCurrent
<1>1. Inv => IndexCurrent
  <2> SUFFICES ASSUME Inv, NEW p \in Paths \ tainted, AtRest(p)
               PROVE  IF file[p] = 0 THEN db[p].id = 0 \/ db[p].status = "removed"
                      ELSE \/ db[p].text = file[p] /\ db[p].chunks = file[p]
                           \/ p \in BinaryPaths /\ db[p].status = "failed"
    BY DEF IndexCurrent
  <2>1. PathInv(p) /\ Watched /\ p \notin events /\ \A t \in Tasks : ~On(t, p)
    BY DEF Inv, AtRest, On
  <2>2. NothingToSee(p)
    BY <2>1 DEF NothingToSee
  <2>3. Settled(p)
    BY <2>1, <2>2 DEF PathInv
  <2>4. task["watch"].op # "boot" /\ ~Active("watch")
    BY <2>1 DEF Watched, AtRest, Tasks
  <2>5. ~WillExtract(p)
    BY <2>4 DEF WillExtract, Queued, Active
  <2> QED
    BY <2>3, <2>4, <2>5 DEF Settled, Indexed
<1> QED
  BY <1>1, Invariance, PTL

(* A highlight that a response confirmed stays in the database until it is removed or  *)
(* the file is replaced, whatever requests, rollbacks and restarts come between: what  *)
(* BEGIN IMMEDIATE is for.                                                             *)
THEOREM HighlightsAreKept == Spec => []HighlightsKept
<1>1. Inv => HighlightsKept
  BY DEF Inv, PathInv, StillInv, HighlightsKept
<1> QED
  BY <1>1, Invariance, PTL

(* No chunk that another process may read has the text of a highlight that is not in  *)
(* the row: the row and the chunks of a highlight are written in one transaction.     *)
THEOREM AnnotationsAreCurrent == Spec => []NoStaleAnnotation
<1>1. Inv => NoStaleAnnotation
  BY DEF Inv, PathInv, StillInv, NoStaleAnnotation
<1> QED
  BY <1>1, Invariance, PTL
===============================================================================
