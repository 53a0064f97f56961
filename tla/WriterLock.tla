----------------------------- MODULE WriterLock -----------------------------
(***************************************************************************)
(* SingleWriterLock (storage/filesystem.py): the lock file that keeps a    *)
(* second FlatFileStorageBackend away from a chain directory.  acquire     *)
(* looks at the file, reads the process id in it, asks the system whether  *)
(* that process lives, unlinks a stale file and renames its own file into  *)
(* place: five steps that other processes can come between.  Definitions   *)
(* that the block store of the same backend has too bear Lock in their     *)
(* names, so that StorageProofs can extend both modules.                   *)
(***************************************************************************)
EXTENDS Integers, FiniteSets

CONSTANTS
    Procs,     \* process ids; none is reused
    NoOne,     \* no lock file
    Overlap    \* may two processes be inside acquire at the same time?

ASSUME LockAssumption ==
    /\ NoOne \notin Procs
    /\ Overlap \in BOOLEAN

VARIABLES
    lock,   \* the process id in the lock file
    alive,  \* the processes os.kill(pid, 0) finds
    lockPc      \* where each process stands

lockVars == <<lock, alive, lockPc>>

Acquiring == {"check", "read", "unlink", "replace"}
PcValues == {"out", "writer"} \cup Acquiring

LockInit ==
    /\ lock = NoOne
    /\ alive = Procs
    /\ lockPc = [p \in Procs |-> "out"]

Goto(p, next) == lockPc' = [lockPc EXCEPT ![p] = next]

(* acquire is called. *)
Start(p) ==
    /\ lockPc[p] = "out"
    /\ Overlap \/ \A q \in Procs : lockPc[q] \notin Acquiring
    /\ Goto(p, "check")
    /\ UNCHANGED <<lock, alive>>

(* lock_path.exists() *)
Check(p) ==
    /\ lockPc[p] = "check"
    /\ Goto(p, IF lock = NoOne THEN "replace" ELSE "read")
    /\ UNCHANGED <<lock, alive>>

(* Mutants: every lock file is taken for a stale one; for a held one. *)
ReadPidAnyStale(p) ==
    /\ lockPc[p] = "read"
    /\ Goto(p, IF lock = NoOne THEN "out" ELSE "unlink")
    /\ UNCHANGED <<lock, alive>>

ReadPidAllHeld(p) ==
    /\ lockPc[p] = "read"
    /\ Goto(p, "out")
    /\ UNCHANGED <<lock, alive>>

(* read_text and _pid_alive: acquire raises if the file is gone by now or  *)
(* if its process lives.                                                   *)
ReadPid(p) ==
    /\ lockPc[p] = "read"
    /\ Goto(p, IF lock = NoOne \/ lock \in alive THEN "out" ELSE "unlink")
    /\ UNCHANGED <<lock, alive>>

(* safe_unlink of the file found stale. *)
UnlinkStale(p) ==
    /\ lockPc[p] = "unlink"
    /\ lock' = NoOne
    /\ Goto(p, "replace")
    /\ UNCHANGED alive

(* os.replace of the file with this process's id over whatever is there. *)
Replace(p) ==
    /\ lockPc[p] = "replace"
    /\ lock' = p
    /\ Goto(p, "writer")
    /\ UNCHANGED alive

(* release unlinks the lock file, whoever it names. *)
Release(p) ==
    /\ lockPc[p] = "writer"
    /\ lock' = NoOne
    /\ Goto(p, "out")
    /\ UNCHANGED alive

(* Mutant: a crash handler of any process removes the lock file. *)
DieUnlinks(p) ==
    /\ alive' = alive \ {p}
    /\ lock' = NoOne
    /\ Goto(p, "out")

(* The process dies and leaves the lock file as it is. *)
Die(p) ==
    /\ alive' = alive \ {p}
    /\ Goto(p, "out")
    /\ UNCHANGED lock

Step(p) ==
    \/ Start(p) \/ Check(p) \/ ReadPid(p) \/ UnlinkStale(p) \/ Replace(p)
    \/ Release(p) \/ Die(p)

LockNext == \E p \in alive : Step(p)

LockSpec == LockInit /\ [][LockNext]_lockVars

(* Fairness: a process inside acquire keeps running until it is done.       *)
LockLiveSpec ==
    /\ LockSpec
    /\ \A p \in Procs :
          WF_lockVars(p \in alive /\ (Check(p) \/ ReadPid(p) \/ UnlinkStale(p) \/ Replace(p)))

-----------------------------------------------------------------------------
LockTypeOK ==
    /\ lock \in Procs \cup {NoOne}
    /\ alive \subseteq Procs
    /\ lockPc \in [Procs -> PcValues]

Writers == {p \in Procs : lockPc[p] = "writer"}

(* At most one process at a time believes it may write the chain           *)
(* directory, across releases, crashes and the take-over of stale locks.   *)
SingleWriter == \A p, q \in Writers : p = q

(* While somebody writes, the lock file names that process, so the next    *)
(* acquire finds a live process in it and raises.                          *)
LockNamesWriter == \A p \in Writers : lock = p

(* A lock file left by a dead process does not stay for ever if some       *)
(* living process keeps asking for the lock.                               *)
StaleLockTakenOver ==
    \A p \in Procs :
        (p \in alive /\ lockPc[p] = "check" /\ lock # NoOne /\ lock \notin alive)
            ~> (lock = p \/ lock \in alive \/ lock = NoOne \/ p \notin alive)
=============================================================================
