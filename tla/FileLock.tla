------------------------------ MODULE FileLock ------------------------------
(***************************************************************************)
(* takeLock and its release (data-lock.ts) over posixLockFile              *)
(* (platform/posix-file-lock.ts), one system call a step: the file is      *)
(* created and deleted by path, the kernel lock is on the inode that was   *)
(* opened, and a restorer closes its handle while its PID record goes on   *)
(* protecting the directory.                                               *)
(*                                                                         *)
(* A process is one run: one that died does not come back, and a record    *)
(* that names it is stale (startKey decides that alone on Linux).          *)
(***************************************************************************)
EXTENDS FiniteSets

CONSTANTS Procs, Inodes

VARIABLES
  path,     \* the inode core.lock names, as a set: none or one
  flock,    \* who holds the kernel lock of an inode
  named,    \* the process the record in an inode names, none or one
  native,   \* whether that record says osLock
  pc, ino,  \* each process: where it stands, the inode it opened
  kept      \* restorers that closed their handle and left their record

vars == <<path, flock, named, native, pc, ino, kept>>

Locking == {"locked", "judge", "write", "written", "held", "unlinked"}
Opened  == {"opened"} \cup Locking
Admitted == {"write", "written", "held"}

TypeOK ==
  /\ path \in SUBSET Inodes
  /\ flock \in [Inodes -> SUBSET Procs]
  /\ named \in [Inodes -> SUBSET Procs] /\ native \in [Inodes -> BOOLEAN]
  /\ pc \in [Procs -> {"idle", "dead"} \cup Opened]
  /\ ino \in [Procs -> Inodes]
  /\ kept \in SUBSET Procs

Init ==
  /\ path = {}
  /\ flock = [i \in Inodes |-> {}]
  /\ named = [i \in Inodes |-> {}] /\ native = [i \in Inodes |-> FALSE]
  /\ pc = [p \in Procs |-> "idle"]
  /\ ino \in [Procs -> Inodes]
  /\ kept = {}

Goto(p, l)   == pc' = [pc EXCEPT ![p] = l]
StillAt(p)   == path = {ino[p]}
Unlocked(p)  == [flock EXCEPT ![ino[p]] = @ \ {p}]
Free(i)      == i \notin path /\ \A q \in Procs : pc[q] \in Opened => ino[q] # i

-----------------------------------------------------------------------------
(* openSync(file, 'a'): the inode at the path, or a new empty one.         *)
Open(p) ==
  /\ pc[p] = "idle"
  /\ \E i \in Inodes :
       /\ ino' = [ino EXCEPT ![p] = i]
       /\ \/ i \in path /\ UNCHANGED <<path, named, native>>
          \/ /\ path = {} /\ Free(i)
             /\ path' = {i}
             /\ named' = [named EXCEPT ![i] = {}]
             /\ native' = [native EXCEPT ![i] = FALSE]
  /\ Goto(p, "opened")
  /\ UNCHANGED <<flock, kept>>

(* flock(LOCK_EX | LOCK_NB): taken, or busy and the handle is closed.      *)
Flock(p) ==
  /\ pc[p] = "opened"
  /\ IF flock[ino[p]] = {}
     THEN flock' = [flock EXCEPT ![ino[p]] = {p}] /\ Goto(p, "locked")
     ELSE Goto(p, "idle") /\ UNCHANGED flock
  /\ UNCHANGED <<path, named, native, ino, kept>>

(* The previous holder deleted the file as it let go: try again.           *)
CheckPath(p) ==
  /\ pc[p] = "locked"
  /\ IF StillAt(p) THEN Goto(p, "judge") /\ UNCHANGED flock
                   ELSE Goto(p, "idle") /\ flock' = Unlocked(p)
  /\ UNCHANGED <<path, named, native, ino, kept>>

(* A live process named by a record without osLock keeps the directory.    *)
Guarded(p) == \E q \in Procs \ {p} : \E i \in path :
                 q \in named[i] /\ ~native[i] /\ pc[q] # "dead"
Judge(p) ==
  /\ pc[p] = "judge"
  /\ IF Guarded(p) THEN Goto(p, "idle") /\ flock' = Unlocked(p)
                   ELSE Goto(p, "write") /\ UNCHANGED flock
  /\ UNCHANGED <<path, named, native, ino, kept>>

(* Through the held handle, as a core (osLock) or a restorer (PID only).   *)
Write(p) ==
  /\ pc[p] = "write"
  /\ named' = [named EXCEPT ![ino[p]] = {p}]
  /\ \E os \in BOOLEAN : native' = [native EXCEPT ![ino[p]] = os]
  /\ Goto(p, "written")
  /\ UNCHANGED <<path, flock, ino, kept>>

(* The disk is full: the lock is let go, with the record truncated or not; *)
(* a restorer that gets its own lock again gives up.                       *)
WriteFails(p) ==
  /\ pc[p] = "write"
  /\ named' \in {named, [named EXCEPT ![ino[p]] = {}]}
  /\ flock' = Unlocked(p) /\ kept' = kept \ {p}
  /\ Goto(p, "idle")
  /\ UNCHANGED <<path, native, ino>>

Enter(p) ==
  /\ pc[p] = "written"
  /\ IF StillAt(p)
     THEN Goto(p, "held") /\ kept' = kept \ {p} /\ UNCHANGED flock
     ELSE Goto(p, "idle") /\ flock' = Unlocked(p) /\ UNCHANGED kept
  /\ UNCHANGED <<path, named, native, ino>>

(* drop: the file is deleted while still locked, then the handle closed.   *)
Unlink(p) ==
  /\ pc[p] = "held"
  /\ path' = IF StillAt(p) THEN {} ELSE path
  /\ Goto(p, "unlinked")
  /\ UNCHANGED <<flock, named, native, ino, kept>>

Close(p) ==
  /\ pc[p] = "unlinked"
  /\ flock' = Unlocked(p) /\ Goto(p, "idle")
  /\ UNCHANGED <<path, named, native, ino, kept>>

(* releaseOwnLock(directory, true): only a restorer, whose record is PID   *)
(* only since it was written.                                              *)
KeepRecord(p) ==
  /\ pc[p] = "held" /\ ~native[ino[p]]
  /\ flock' = Unlocked(p) /\ kept' = kept \cup {p}
  /\ Goto(p, "idle")
  /\ UNCHANGED <<path, named, native, ino>>

(* The kernel closes the handles of a process that dies.                   *)
Die(p) ==
  /\ pc[p] # "dead"
  /\ Goto(p, "dead")
  /\ flock' = IF pc[p] \in Locking THEN Unlocked(p) ELSE flock
  /\ kept' = kept \ {p}
  /\ UNCHANGED <<path, named, native, ino>>

Step(p) ==
  \/ Open(p) \/ Flock(p) \/ CheckPath(p) \/ Judge(p) \/ Write(p) \/ WriteFails(p)
  \/ Enter(p) \/ Unlink(p) \/ Close(p) \/ KeepRecord(p) \/ Die(p)

Next == \E p \in Procs : Step(p)
Spec == Init /\ [][Next]_vars

-----------------------------------------------------------------------------
Holders == {p \in Procs : pc[p] = "held" \/ p \in kept}

(* No two processes are ever told that the directory is theirs, wherever   *)
(* creations, deletions, deaths and closed handles fall.                   *)
Exclusive == \A p, q \in Holders : p = q

(* takeLock over flock implements the lock the rest of the core counts on. *)
L == INSTANCE DataLock WITH holders <- Holders
ImplementsLock == L!Spec

-----------------------------------------------------------------------------
(* What makes Exclusive inductive.                                         *)

(* The kernel lock has one holder, which has the inode open.               *)
OneFlock ==
  /\ \A i \in Inodes, p, q \in Procs : p \in flock[i] /\ q \in flock[i] => p = q
  /\ \A i \in Inodes, p \in Procs : p \in flock[i] <=> pc[p] \in Locking /\ ino[p] = i

(* Past the first check, the path names the locked inode until its holder  *)
(* deletes the file.                                                       *)
PathStays ==
  \A p \in Procs : pc[p] \in {"judge"} \cup Admitted => path = {ino[p]}

(* The record says who holds it.                                           *)
RecordTells == \A p \in Procs : pc[p] \in {"written", "held"} => named[ino[p]] = {p}

(* A closed restorer's record stands at the path and keeps others out.     *)
RecordGuards ==
  \A p \in kept :
    /\ pc[p] \notin {"dead", "held"}
    /\ \E i \in Inodes : path = {i} /\ named[i] = {p} /\ (native[i] => pc[p] = "written")
    /\ \A q \in Procs \ {p} : pc[q] \notin Admitted

IInv == TypeOK /\ OneFlock /\ PathStays /\ RecordTells /\ RecordGuards
=============================================================================
