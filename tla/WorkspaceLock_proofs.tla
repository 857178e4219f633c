------------------------ MODULE WorkspaceLock_proofs ------------------------
(***************************************************************************)
(* What the lock guarantees for any number of processes.  Exclusion rests  *)
(* on the file being there while a process is at the lock, so that nobody  *)
(* else can create it; the only other way in is a take-over.               *)
(***************************************************************************)
EXTENDS WorkspaceLock, TLAPS

FileStays == ~raced => \A p \in Procs : AtLock(p) => file # NoFile

LockInv == LockTypeOK /\ Excludes /\ FileStays /\ RefusedForAHolder

(* The lock's variables keep their types.                                  *)
LEMMA LockTypeStep == LockTypeOK /\ [Next]_vars => LockTypeOK'
<1>1. SUFFICES ASSUME LockTypeOK, [Next]_vars PROVE LockTypeOK'
  OBVIOUS
<1> USE DEF LockTypeOK, Text, Steps, Goto
<1>2. ASSUME NEW p \in Procs, Enter(p) PROVE LockTypeOK'
  BY <1>1, <1>2 DEF Enter
<1>3. ASSUME NEW p \in Procs, Step(p) PROVE LockTypeOK'
  <2>1. CASE Create(p) \/ FindLocked(p)
    BY <1>1, <2>1 DEF Create, FindLocked
  <2>2. CASE _read_lock(p) \/ Check(p)
    BY <1>1, <2>2 DEF _read_lock, Check
  <2>3. CASE Steal(p) \/ Write(p)
    BY <1>1, <2>3 DEF Steal, Write
  <2>4. CASE Leave(p) \/ Unlink(p)
    BY <1>1, <2>4 DEF Leave, Unlink
  <2> QED  BY <1>3, <2>1, <2>2, <2>3, <2>4 DEF Step
<1>4. ASSUME NEW p \in Procs, Kill(p) PROVE LockTypeOK'
  BY <1>1, <1>4 DEF Kill
<1>5. CASE UNCHANGED vars
  BY <1>1, <1>5 DEF vars
<1> QED  BY <1>1, <1>2, <1>3, <1>4, <1>5 DEF Next

(* Every step keeps the lock exclusive, the file in place under its        *)
(* holder, and live pids in it those of processes that will release it.    *)
LEMMA LockInvStep == LockInv /\ [Next]_vars => LockInv'
<1>1. SUFFICES ASSUME LockInv, [Next]_vars PROVE LockInv'
  OBVIOUS
<1>2. LockTypeOK /\ LockTypeOK'
  BY <1>1, LockTypeStep DEF LockInv
<1> USE LockAssumption DEF Excludes, FileStays, RefusedForAHolder, AtLock, Goto
<1>3. pc \in [Procs -> Steps] /\ Excludes /\ FileStays /\ RefusedForAHolder
  BY <1>1 DEF LockInv, LockTypeOK
<1>4. ASSUME NEW p \in Procs, Enter(p) PROVE (Excludes /\ FileStays /\ RefusedForAHolder)'
  BY <1>3, <1>4 DEF Enter
<1>5. ASSUME NEW p \in Procs, Step(p) PROVE (Excludes /\ FileStays /\ RefusedForAHolder)'
  <2>1. CASE Create(p)
    BY <1>3, <2>1 DEF Create
  <2>2. CASE FindLocked(p)
    BY <1>3, <2>2 DEF FindLocked
  <2>3. CASE _read_lock(p)
    BY <1>3, <2>3 DEF _read_lock
  <2>4. CASE Check(p)
    BY <1>3, <2>4 DEF Check
  <2>5. CASE Steal(p)
    BY <1>3, <2>5 DEF Steal
  <2>6. CASE Write(p)
    BY <1>3, <2>6 DEF Write
  <2>7. CASE Leave(p)
    BY <1>3, <2>7 DEF Leave
  <2>8. CASE Unlink(p)
    BY <1>3, <2>8 DEF Unlink
  <2> QED  BY <1>5, <2>1, <2>2, <2>3, <2>4, <2>5, <2>6, <2>7, <2>8 DEF Step
<1>6. ASSUME NEW p \in Procs, Kill(p) PROVE (Excludes /\ FileStays /\ RefusedForAHolder)'
  BY <1>3, <1>6 DEF Kill
<1>7. ASSUME UNCHANGED vars PROVE (Excludes /\ FileStays /\ RefusedForAHolder)'
  BY <1>3, <1>7 DEF vars
<1>8. (Excludes /\ FileStays /\ RefusedForAHolder)'
  BY <1>1, <1>4, <1>5, <1>6, <1>7 DEF Next
<1> QED  BY <1>2, <1>8 DEF LockInv

(* The strengthened invariant holds in every state. *)
LEMMA LockInvAlways == Spec => []LockInv
<1>1. Init => LockInv
  BY LockAssumption DEF Init, LockInv, LockTypeOK, Text, Steps, Excludes, FileStays,
                        RefusedForAHolder, AtLock
<1> QED  BY <1>1, LockInvStep, PTL DEF Spec

(* Unless a take-over met a live process at the lock, one process at a     *)
(* time has it, however many create, release and die (core/lock.py).       *)
THEOREM LockExcludes == Spec => []Excludes
<1>1. LockInv => Excludes
  BY DEF LockInv
<1> QED  BY <1>1, LockInvAlways, PTL

(* A process is refused only for one that is in the lock, so that fail     *)
(* fast means that somebody really works (core/lock.py, __enter__).        *)
THEOREM RefusalsAreJust == Spec => []RefusedForAHolder
<1>1. LockInv => RefusedForAHolder
  BY DEF LockInv
<1> QED  BY <1>1, LockInvAlways, PTL
=============================================================================
