------------------------------- MODULE LocalStore -------------------------------
(***************************************************************************)
(* What the local mode of the API keeps: the files of the workspace and    *)
(* the SQLite index of them (infra/db/sqlite.py).  All coroutines of the   *)
(* process share ONE connection and give way at every statement, so a      *)
(* transaction is not of a coroutine: whoever commits, commits what all of *)
(* them have written, and whoever rolls back, takes it from all of them.   *)
(*                                                                         *)
(* A document is named by its path; "id" tells a row from one that is made *)
(* again.  Contents are numbers, each used by one write; 0 is no content.  *)
(* Pages and chunks of a document are one component, written as a whole.   *)
(***************************************************************************)
EXTENDS Naturals, FiniteSets

CONSTANTS
    TextPaths,    \* files whose text is the content
    BinaryPaths,  \* files that are extracted
    Marks,        \* highlights
    Slots,        \* coroutines and MCP calls at a time, besides the watcher
    MaxContents,  \* bound on writes of files
    MaxIds        \* bound on the documents made

ASSUME LocalAssumption ==
    /\ TextPaths \cap BinaryPaths = {}
    /\ "none" \notin TextPaths \cup BinaryPaths
    /\ Slots \cap {"watch", "none", "implicit"} = {}
    /\ MaxContents \in Nat

Paths == TextPaths \cup BinaryPaths
Tasks == Slots \cup {"watch"}

VARIABLES
    file,       \* the content of each file
    db,         \* documents and document_chunks, as the connection sees them
    committed,  \* ... and as another connection, or the next process, does
    txn,        \* "none", "implicit", or the task that began the transaction
    task,       \* what each coroutine is doing
    contents,   \* contents used
    ids,        \* ids used
    events,     \* paths the watcher is told of
    recent,     \* _recently_written: what the app wrote to a path, NotRecent after the cooldown
    acked,      \* history: highlights of each path a response confirmed
    tainted     \* history: paths on which tasks overlapped, or whose change was not seen

storeVars == <<file, db, committed, txn, contents, ids>>

NoRow == [id |-> 0, status |-> "none", text |-> 0, hash |-> 0, marks |-> {}, chunks |-> 0, ann |-> {}]
NotRecent == MaxContents + 1
Idle == [op |-> "idle"]
Job(op, p, id, at) == [op |-> op, p |-> p, id |-> id, c |-> 0, at |-> at]

Active(t) == task[t].op # "idle"
Is(t, op, at) == task[t].op = op /\ task[t].at = at
Goto(t, at) == task' = [task EXCEPT ![t].at = at]
Done(t) == task' = [task EXCEPT ![t] = Idle]
OthersOn(t, p) == {u \in Tasks \ {t} : Active(u) /\ task[u].p = p}

\* A statement of t on p while another task has a transaction of its own.
Intrudes(t, p) == IF txn \in Tasks \ {t} THEN {p} \cup IF Active(txn) THEN {task[txn].p} ELSE {} ELSE {}

\* A statement with WHERE id = ?, which may find no row.
Execute(t, p, row) ==
    /\ db' = [db EXCEPT ![p] = row]
    /\ txn' = IF txn = "none" THEN "implicit" ELSE txn
    /\ tainted' = tainted \cup Intrudes(t, p)
    /\ UNCHANGED committed

Commit(t) ==
    /\ committed' = db
    /\ txn' = "none"
    /\ tainted' = tainted \cup Intrudes(t, task[t].p)
    /\ UNCHANGED db

Rollback(t) ==
    /\ db' = committed
    /\ txn' = "none"
    /\ tainted' = tainted \cup IF txn = t THEN {} ELSE {task[u].p : u \in {u \in Tasks : Active(u)}}
    /\ UNCHANGED committed

\* An exception leaves the transaction open.
FailOpen(t) ==
    /\ txn' = IF txn = "none" THEN "implicit" ELSE txn
    /\ UNCHANGED <<db, committed, tainted>>

NoStatement == UNCHANGED <<db, committed, txn, tainted>>

\* BEGIN IMMEDIATE raises inside a transaction.
BeginAnyway(t) == UNCHANGED txn
BeginImmediate(t) == txn = "none" /\ txn' = t

Mine(t) == db[task[t].p].id = task[t].id

--------------------------------------------------------------------------------
Watched == task["watch"].op # "boot"

\* The watcher is told of a change of a file, but for one during the startup: that is
\* seen when its scan has not come to the file yet.  A removal in the cooldown of one
\* by the app is taken for it.
Tell(p) == events' = IF Watched THEN events \cup {p} ELSE events
Unseen(p, c) == IF (Watched \/ p \in task["watch"].todo) /\ c # recent[p] THEN {} ELSE {p}

\* The app writes c, or removes the file (c = 0).
AppWrites(p, c) ==
    /\ file' = [file EXCEPT ![p] = c]
    /\ recent' = [recent EXCEPT ![p] = c]
    /\ contents' = IF c = 0 THEN contents ELSE c
    /\ Tell(p)

StoreInit ==
    /\ file = [p \in Paths |-> 0] /\ db = [p \in Paths |-> NoRow] /\ committed = db
    /\ txn = "none" /\ contents = 0 /\ ids = 0 /\ events = {}
    /\ recent = [p \in Paths |-> NotRecent]
    /\ acked = [p \in Paths |-> {}] /\ tainted = {}
================================================================================
