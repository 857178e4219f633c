---------------------------- MODULE WorkspaceLock ----------------------------
(***************************************************************************)
(* The workspace lock (core/lock.py) as the file operations it is made of. *)
(* A process is its pid.  Commands try once and fail fast; the server's    *)
(* tasks poll.                                                             *)
(***************************************************************************)
CONSTANTS
    Procs,      \* pids
    Pollers,    \* the processes that try again after a failure
    Foreign,    \* processes that nobody else may send a signal to
    NoFile, Empty, Garbled    \* no lock file; its text is empty, or not JSON

ASSUME LockAssumption ==
    /\ Pollers \subseteq Procs /\ Foreign \subseteq Procs
    /\ {NoFile, Empty, Garbled} \cap Procs = {}
    /\ NoFile # Empty /\ NoFile # Garbled /\ Empty # Garbled

VARIABLES
    file,       \* the lock file: absent, or the pid it names, if any
    open,       \* the processes with a descriptor open on the file in place
    pc,         \* where each process is
    seen,       \* what each process has read from the file
    raced       \* history: a take-over met another process at the lock

vars == <<file, open, pc, seen, raced>>

Text == Procs \cup {NoFile, Empty, Garbled}
Steps == {"dead", "idle", "create", "read", "check", "steal", "opened", "held", "unlink"}

(* The processes that have the lock or have made up their mind to take it. *)
AtLock(p) == pc[p] \in {"opened", "held", "unlink"}

Goto(p, step) == pc' = [pc EXCEPT ![p] = step]

Init ==
    /\ file = NoFile /\ open = {}
    /\ pc = [p \in Procs |-> "dead"]
    /\ seen = [p \in Procs |-> NoFile]
    /\ raced = FALSE

(* A process starts, with a pid that the lock file does not name, or an    *)
(* idle one wants the lock.                                                *)
Enter(p) ==
    /\ pc[p] = "idle" \/ (pc[p] = "dead" /\ file # p)
    /\ Goto(p, "create")
    /\ UNCHANGED <<file, open, seen, raced>>

(* Mutant: os.open without O_EXCL.                                         *)
CreateAnyway(p) ==
    /\ pc[p] = "create"
    /\ file' = Empty /\ open' = open \cup {p}
    /\ Goto(p, "opened")
    /\ UNCHANGED <<seen, raced>>

(* os.open with O_EXCL: the file is there, and empty.                      *)
Create(p) ==
    /\ pc[p] = "create" /\ file = NoFile
    /\ file' = Empty /\ open' = {p}
    /\ Goto(p, "opened")
    /\ UNCHANGED <<seen, raced>>

(* FileExistsError.                                                        *)
FindLocked(p) ==
    /\ pc[p] = "create" /\ file # NoFile
    /\ Goto(p, "read")
    /\ UNCHANGED <<file, open, seen, raced>>

(* A file that is gone meanwhile reads like one without a pid.             *)
_read_lock(p) ==
    /\ pc[p] = "read"
    /\ seen' = [seen EXCEPT ![p] = file]
    /\ Goto(p, "check")
    /\ UNCHANGED <<file, open, raced>>

(* Mutant: only a pid can be stale.                                        *)
StalePid(p, text) ==
    text \in Procs /\ text # p /\ (pc[text] = "dead" \/ text \in Foreign)

(* No pid, or one that os.kill raises an OSError for; PermissionError is   *)
(* an OSError too.                                                         *)
_is_stale(p, text) ==
    text \in Procs => text # p /\ (pc[text] = "dead" \/ text \in Foreign)

Check(p) ==
    /\ pc[p] = "check"
    /\ Goto(p, IF _is_stale(p, seen[p]) THEN "steal" ELSE "idle")
    /\ seen' = [seen EXCEPT ![p] = NoFile]
    /\ UNCHANGED <<file, open, raced>>

(* write_text truncates whatever is there now, or creates the file.        *)
Steal(p) ==
    /\ pc[p] = "steal"
    /\ file' = Empty /\ open' = open \cup {p}
    /\ raced' = (raced \/ \E q \in Procs \ {p} : AtLock(q))
    /\ Goto(p, "opened")
    /\ UNCHANGED seen

(* The payload goes to the start of the file that was opened, which may    *)
(* not be in place any longer or hold a text already, longer or shorter.   *)
Write(p) ==
    /\ pc[p] = "opened"
    /\ file' \in IF p \notin open THEN {file}
                 ELSE IF file = Empty THEN {p} ELSE {p, Garbled}
    /\ open' = open \ {p}
    /\ Goto(p, "held")
    /\ UNCHANGED <<seen, raced>>

(* Mutant: no release when the work has raised.                            *)
LeaveAtOnce(p) ==
    /\ pc[p] = "held"
    /\ \E step \in {"unlink", "idle"} : Goto(p, step)
    /\ UNCHANGED <<file, open, seen, raced>>

(* __exit__ reads the file and unlinks it in a later step.                 *)
Leave(p) ==
    /\ pc[p] = "held"
    /\ Goto(p, IF file = p THEN "unlink" ELSE "idle")
    /\ UNCHANGED <<file, open, seen, raced>>

Unlink(p) ==
    /\ pc[p] = "unlink"
    /\ file' = NoFile /\ open' = {}
    /\ Goto(p, "idle")
    /\ UNCHANGED <<seen, raced>>

(* A process ends, or is killed, anywhere.                                 *)
Kill(p) ==
    /\ pc[p] # "dead"
    /\ Goto(p, "dead")
    /\ open' = open \ {p}
    /\ seen' = [seen EXCEPT ![p] = NoFile]
    /\ UNCHANGED <<file, raced>>

Step(p) ==
    \/ Create(p) \/ FindLocked(p) \/ _read_lock(p) \/ Check(p)
    \/ Steal(p) \/ Write(p) \/ Leave(p) \/ Unlink(p)

Next == \E p \in Procs : Enter(p) \/ Step(p) \/ Kill(p)

Spec == Init /\ [][Next]_vars

(* A process that has started goes on, and a poller tries again.           *)
FairSpec ==
    /\ Spec
    /\ \A p \in Procs : WF_vars(Step(p))
    /\ \A p \in Pollers : WF_vars(pc[p] = "idle" /\ Enter(p))

-----------------------------------------------------------------------------
LockTypeOK ==
    /\ file \in Text /\ open \subseteq Procs
    /\ pc \in [Procs -> Steps] /\ seen \in [Procs -> Text]
    /\ raced \in BOOLEAN

(* Creation, release and the recovery from kills are safe: unless a take-  *)
(* over met a live process at the lock, one process at a time has it.      *)
Excludes == ~raced => \A p, q \in Procs : AtLock(p) /\ AtLock(q) => p = q

(* A process is refused the lock only for one that is really in it: a file *)
(* that names a live process names one that will release it, whatever      *)
(* take-overs, kills and half-written files came before.                   *)
RefusedForAHolder ==
    \A p \in Procs : file = p /\ pc[p] # "dead" => pc[p] \in {"held", "unlink"}

(* A polling task gets the lock in the end, once the others stop using it, *)
(* also after kills in the middle of taking or releasing it.               *)
PollersGetIn ==
    \A p \in Pollers :
        <>[](\A q \in Procs \ {p} : pc[q] \in {"idle", "dead"})
            => []<>(pc[p] \in {"held", "dead"})
=============================================================================
