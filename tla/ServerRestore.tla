--------------------------- MODULE ServerRestore ---------------------------
(***************************************************************************)
(* A server update's rollback: the job that installs a release and puts    *)
(* the previous one back (server-update/apply.ts), the restore of the data *)
(* snapshot (server-update/restore.ts), and the cores that start on the    *)
(* data directory while either is under way or was cut off.                *)
(*                                                                         *)
(* A directory keeps its identity under every name it takes: "live" is the *)
(* data of before the update, "copy" its snapshot, "fresh" a directory a   *)
(* start made because nothing stood at the path.  A step is one call that  *)
(* another process or a power cut can come between.                        *)
(*                                                                         *)
(* A filesystem keeps its renames in order, a flush of a directory makes   *)
(* those before it durable, and a power cut keeps any prefix of the rest;  *)
(* of two filesystems each keeps its own.  Nothing flushes the copy of the *)
(* data, the backup it lies in or the directories of the installations.    *)
(***************************************************************************)
EXTENDS Naturals, Functions

CONSTANTS
  Hands,       \* cores started by hand on the same data directory
  Disks,       \* the backup on the filesystem of the data, or on another; one
               \* for the data that cannot flush a directory is "deaf"
  Acts,        \* the disturbances of this instance
  MaxEvents    \* how many of them a behaviour has

None == "none"

ASSUME HandsAreOthers == {"job", "svc", None} \cap Hands = {}
ASSUME DisksAreKnown  == Disks \subseteq {"one", "two", "one deaf", "two deaf"}

Cores == {"svc"} \cup Hands
Procs == {"job"} \cup Cores
Dirs  == {"live", "copy", "fresh"}
Insts == {"before", "away", "new", "off", "back"}

VARIABLES
  names,    \* what the disk names: the directories, the snapshot, the record,
            \* and where the two installations lie
  kept,     \* the namings a power cut may leave
  mark,     \* server-update-restored in the copy, its entry flushed or not
  taken,    \* history: what power cuts took that nothing had flushed
  locks,    \* core.lock of each directory: kernel lock, PID record, file
  maint,    \* who holds <data>.maintenance.lock
  across,   \* the backup lies on another filesystem than the data
  flushes,  \* the filesystem of the data flushes directories
  rolling,  \* the operation's rolling-back file
  pc, noted, tries, \* each process, the inode its start noted, its tries
  life,     \* the job's process: the worker, or the recovery after it
  orig,     \* the service's process is the one that admitted the update
  enabled,  \* the service manager keeps the service running
  version,  \* the version the service's process runs
  touched,  \* the directories the new version ran on
  torn,     \* the snapshot was copied under a running core
  events

disk  == <<names, kept, mark, taken>>
guard == <<locks, maint>>
procs == <<pc, noted, tries>>
job   == <<across, flushes, rolling, life, torn>>
unit  == <<orig, enabled, version, touched>>
serverVars  == <<disk, guard, procs, job, unit, events>>

ServerTypeOK ==
  /\ names \in [data : Dirs \cup {None}, restored : {"copy", None}, failed : Dirs \cup {None},
                stores : Dirs, snapshot : {None, "partial", "whole"}, record : BOOLEAN, inst : Insts]
  /\ names \in kept /\ taken \subseteq {"name", "contents", "install"}
  /\ mark \in {"absent", "soft", "hard"}
  /\ locks \in [Dirs -> [flock : Procs \cup {None}, pid : Procs \cup {None}, file : BOOLEAN]]
  /\ maint \in Procs \cup {None}
  /\ noted \in [Cores -> Dirs \cup {None}] /\ tries \in [Cores -> 0..3]
  /\ events \in [Acts -> Nat]
  /\ life \in {"worker", "recovery"} /\ version \in {"old", "new"}
  /\ touched \subseteq Dirs /\ {across, flushes, rolling, orig, enabled, torn} \subseteq BOOLEAN

ServerInit ==
  /\ names = [data |-> "live", restored |-> None, failed |-> None, stores |-> "live",
              snapshot |-> None, record |-> FALSE, inst |-> "before"]
  /\ kept = {names} /\ mark = "absent" /\ taken = {}
  /\ locks = [d \in Dirs |-> [flock |-> IF d = "live" THEN "svc" ELSE None, pid |-> None, file |-> d = "live"]]
  /\ maint = None
  /\ \E d \in Disks : across = (d \in {"two", "two deaf"}) /\ flushes = (d \in {"one", "two"})
  /\ rolling = FALSE /\ life = "worker" /\ torn = FALSE
  /\ pc = [p \in Procs |-> CASE p = "job" -> "stop" [] p = "svc" -> "run" [] OTHER -> "off"]
  /\ noted = [p \in Cores |-> None] /\ tries = [p \in Cores |-> 0]
  /\ orig = TRUE /\ enabled = TRUE /\ version = "old" /\ touched = {}
  /\ events = [a \in Acts |-> 0]

-----------------------------------------------------------------------------
(* The disk and the locks.                                                 *)

inst == names.inst

(* What n adds to the namings a cut may leave: with the backup on another  *)
(* filesystem, any earlier naming of the one goes with any of the other.   *)
Mix(d, b) == [d EXCEPT !.snapshot = b.snapshot, !.inst = b.inst]
Newly(n)  == IF across THEN {Mix(n, k) : k \in kept} \cup {Mix(k, n) : k \in kept} ELSE {n}
Hard(n)   == IF across THEN {Mix(n, k) : k \in kept} ELSE {n}
Name(n)    == names' = n /\ kept' = kept \cup Newly(n)
(* With the directory of the data flushed after it, where that does a      *)
(* thing: one that cannot be flushed passes for one that was.              *)
Durably(n) == names' = n /\ kept' = IF flushes THEN Hard(n) ELSE kept \cup Newly(n)
Goto(p, l)  == pc' = [pc EXCEPT ![p] = l]
RootThere   == inst \in {"before", "new", "back"}
Installed   == inst \in {"new", "off", "back"}

(* The faulty forms of this module are each the code with one thing left   *)
(* out.  Here: the mark of a finished swap is never looked at.             *)
RestoredByNone(d) == FALSE
RestoredBy(d) == d = "copy" /\ mark # "absent"

(* takeLock: a directory is free for p while no live process holds its     *)
(* kernel lock and no other live process is named by a PID record.  One    *)
(* lock is one step here; FileLock has the steps inside it.                *)
Free(p, d)  == d # None => (locks[d].flock = None /\ locks[d].pid \in {None, p})
Holding(p)  == {d \in Dirs : locks[d].flock = p}
Locked(p, d, record) ==
  [locks EXCEPT ![d] = [flock |-> p, pid |-> IF record THEN p ELSE None, file |-> TRUE]]
(* The file is removed only while the path still names its directory.      *)
LetGo(p) ==
  [d \in Dirs |-> IF locks[d].flock = p
                  THEN [flock |-> None, pid |-> None, file |-> names.data # d]
                  ELSE locks[d]]
(* A process that is gone holds nothing, and the record it left is stale.  *)
Dead(ps) ==
  [d \in Dirs |-> [flock |-> IF locks[d].flock \in ps THEN None ELSE locks[d].flock,
                   pid   |-> IF locks[d].pid \in ps THEN None ELSE locks[d].pid,
                   file  |-> locks[d].file]]
MaintDead(ps) == IF maint \in ps THEN None ELSE maint

\* Where a process that ended is: the worker's recovery follows it.
Gone(p) == IF p # "job" THEN "off" ELSE IF life = "worker" THEN "recover" ELSE "over"

Before == {"stop", "backup", "copy", "away", "install", "start", "health"}

(* What an error in p does: the worker rolls back, the recovery follows it, *)
(* a core refuses to start.  A process that ends lets go of what it holds.  *)
Fails(p) ==
  /\ IF p = "job" /\ pc[p] \in Before
     THEN Goto(p, "rbStop") /\ UNCHANGED <<guard, life>>
     ELSE /\ locks' = [d \in Dirs |-> [Dead({p})[d] EXCEPT !.file = @ /\ locks[d].flock # p]]
          /\ maint' = MaintDead({p})
          /\ life' = IF p = "job" THEN "recovery" ELSE life
          /\ Goto(p, Gone(p))
  /\ UNCHANGED <<disk, noted, tries, across, flushes, rolling, torn, unit>>
Throw(p) == Fails(p) /\ UNCHANGED events

-----------------------------------------------------------------------------
(* A core opening the data directory.                                      *)

Opens(p) ==
  /\ pc' = [pc EXCEPT ![p] = "run"]
  /\ touched' = IF p = "svc" /\ version = "new" THEN touched \cup {names.data} ELSE touched

(* openDataDir: three looks at most, then the maintenance lock.            *)
Look(p) ==
  /\ pc[p] = "look"
  /\ Goto(p, IF names.record \/ tries[p] = 3 THEN "maint" ELSE "prepare")
  /\ UNCHANGED <<disk, guard, noted, tries, job, unit, events>>

Prepare(p) ==
  /\ pc[p] \in {"prepare", "mprepare"}
  /\ IF names.data = None
     THEN Name([names EXCEPT !.data = "fresh"]) /\ locks' = [locks EXCEPT !["fresh"].file = FALSE]
     ELSE UNCHANGED <<names, kept, locks>>
  /\ Goto(p, IF pc[p] = "prepare" THEN "note" ELSE "mlock")
  /\ UNCHANGED <<mark, taken, maint, noted, tries, job, unit, events>>

Note(p) ==
  /\ pc[p] = "note"
  /\ IF names.data = None THEN Throw(p)
     ELSE /\ noted' = [noted EXCEPT ![p] = names.data]
          /\ Goto(p, "lock")
          /\ UNCHANGED <<disk, guard, tries, job, unit, events>>

LockData(p) ==
  /\ pc[p] \in {"lock", "mlock"}
  /\ IF names.data # None /\ Free(p, names.data)
     THEN /\ locks' = Locked(p, names.data, FALSE)
          /\ IF pc[p] = "lock" THEN Goto(p, "recheck") /\ UNCHANGED <<maint, touched>>
                               ELSE Opens(p) /\ maint' = None
          /\ UNCHANGED <<disk, noted, tries, job, orig, enabled, version, events>>
     ELSE Throw(p)

(* A start that locked a directory admits itself only when no rollback was *)
(* recorded meanwhile and the directory is the one it noted.               *)
RecheckNothing(p) ==
  /\ pc[p] = "recheck"
  /\ Goto(p, "stat")
  /\ UNCHANGED <<disk, guard, noted, tries, job, unit, events>>

Recheck(p) ==
  /\ pc[p] = "recheck"
  /\ IF names.record
     THEN /\ locks' = LetGo(p) /\ Goto(p, "look")
          /\ tries' = [tries EXCEPT ![p] = @ + 1]
     ELSE Goto(p, "stat") /\ UNCHANGED <<locks, tries>>
  /\ UNCHANGED <<disk, maint, noted, job, unit, events>>

Stat(p) ==
  /\ pc[p] = "stat"
  /\ IF names.data = noted[p]
     THEN /\ Opens(p)
          /\ UNCHANGED <<disk, guard, noted, tries, job, orig, enabled, version, events>>
     ELSE IF names.data = None THEN Throw(p)
     ELSE /\ locks' = LetGo(p) /\ Goto(p, "look")
          /\ tries' = [tries EXCEPT ![p] = @ + 1]
          /\ UNCHANGED <<disk, maint, noted, job, unit, events>>

Maintain(p) ==
  /\ pc[p] = "maint"
  /\ IF maint # None THEN Throw(p)
     ELSE /\ maint' = p /\ Goto(p, "read")
          /\ UNCHANGED <<disk, locks, noted, tries, job, unit, events>>

ReadRecord(p) ==
  /\ pc[p] = "read"
  /\ Goto(p, IF names.record THEN "take" ELSE "mprepare")
  /\ UNCHANGED <<disk, guard, noted, tries, job, unit, events>>

-----------------------------------------------------------------------------
(* restoreRecorded and swapRestored, by a starting core or the job.        *)

Take(p) ==
  /\ pc[p] = "take"
  /\ IF Free(p, names.data)
     THEN /\ locks' = IF names.data = None THEN locks ELSE Locked(p, names.data, TRUE)
          /\ Goto(p, "check")
          /\ UNCHANGED <<disk, maint, noted, tries, job, unit, events>>
     ELSE Throw(p)

Check(p) ==
  /\ pc[p] = "check"
  /\ IF RestoredBy(names.data) \/ names.restored # None \/ names.snapshot = "whole"
     THEN /\ Goto(p, IF RestoredBy(names.data) THEN "forget"
                     ELSE IF names.restored # None THEN "mark" ELSE "move")
          /\ UNCHANGED <<disk, guard, noted, tries, job, unit, events>>
     ELSE Throw(p)

MoveTree(p) ==
  /\ pc[p] = "move"
  /\ Name([names EXCEPT !.restored = "copy", !.snapshot = IF across THEN @ ELSE "partial"])
  /\ mark' = IF across THEN "absent" ELSE mark
  /\ Goto(p, "mark")
  /\ UNCHANGED <<taken, guard, noted, tries, job, unit, events>>

Mark(p) ==
  /\ pc[p] = "mark"
  /\ mark' = IF mark = "hard" THEN "hard" ELSE "soft"
  /\ Goto(p, "flush")
  /\ UNCHANGED <<names, kept, taken, guard, noted, tries, job, unit, events>>

(* The mark is on disk before the swap can be, where a directory can be    *)
(* flushed: one that answers EINVAL or ENOTSUP passes.                     *)
FlushNothing(p) ==
  /\ pc[p] = "flush"
  /\ Goto(p, "seal")
  /\ UNCHANGED <<disk, guard, noted, tries, job, unit, events>>

Flush(p) ==
  /\ pc[p] = "flush"
  /\ mark' = IF flushes THEN "hard" ELSE mark
  /\ Goto(p, "seal")
  /\ UNCHANGED <<names, kept, taken, guard, noted, tries, job, unit, events>>

(* Both directories keep a PID record while their handles are closed.      *)
Sealed(p) ==
  [d \in Dirs |-> IF d = names.restored \/ locks[d].flock = p
                  THEN [flock |-> None, pid |-> p, file |-> TRUE] ELSE locks[d]]
Seal(p) ==
  /\ pc[p] = "seal"
  /\ locks' = Sealed(p)
  /\ Goto(p, IF names.data = None THEN "swap" ELSE "stores")
  /\ UNCHANGED <<disk, maint, noted, tries, job, unit, events>>

MoveStores(p) ==
  /\ pc[p] = "stores"
  /\ IF names.stores = names.data THEN Name([names EXCEPT !.stores = names.restored])
                                  ELSE UNCHANGED <<names, kept>>
  /\ Goto(p, "aside")
  /\ UNCHANGED <<mark, taken, guard, noted, tries, job, unit, events>>

Aside(p) ==
  /\ pc[p] = "aside"
  /\ Name([names EXCEPT !.data = None, !.failed = IF @ = None THEN names.data ELSE @])
  /\ Goto(p, "swap")
  /\ UNCHANGED <<mark, taken, guard, noted, tries, job, unit, events>>

(* The kernel lets a directory take the place of an empty one only.        *)
SwapFits == names.data = None \/ (names.data = "fresh" /\ ~locks["fresh"].file)
Swap(p) ==
  /\ pc[p] = "swap"
  /\ IF SwapFits
     THEN /\ Durably([names EXCEPT !.data = names.restored, !.restored = None])
          /\ Goto(p, "relock")
          /\ UNCHANGED <<mark, taken, guard, noted, tries, job, unit, events>>
     ELSE Throw(p)

Relock(p) ==
  /\ pc[p] = "relock"
  /\ IF Free(p, names.data)
     THEN /\ locks' = Locked(p, names.data, FALSE)
          /\ Goto(p, "forget")
          /\ UNCHANGED <<disk, maint, noted, tries, job, unit, events>>
     ELSE Throw(p)

Forget(p) ==
  /\ pc[p] = "forget"
  /\ Durably([names EXCEPT !.record = FALSE, !.restored = None])
  /\ Goto(p, "discard")
  /\ IF p = "job" THEN locks' = LetGo(p) /\ maint' = None ELSE UNCHANGED guard
  /\ UNCHANGED <<mark, taken, noted, tries, job, unit, events>>

Discard(p) ==
  /\ pc[p] = "discard"
  /\ Name([names EXCEPT !.snapshot = IF @ = "whole" THEN "partial" ELSE @])
  /\ IF p = "job" THEN Goto(p, "rbStart") /\ UNCHANGED <<maint, touched>>
                  ELSE Opens(p) /\ maint' = None
  /\ UNCHANGED <<mark, taken, locks, noted, tries, job, orig, enabled, version, events>>

Restore(p) ==
  \/ Take(p) \/ Check(p) \/ MoveTree(p) \/ Mark(p) \/ Flush(p) \/ Seal(p) \/ MoveStores(p)
  \/ Aside(p) \/ Swap(p) \/ Relock(p) \/ Forget(p) \/ Discard(p)

Start(p) ==
  \/ Look(p) \/ Prepare(p) \/ Note(p) \/ LockData(p) \/ Recheck(p) \/ Stat(p)
  \/ Maintain(p) \/ ReadRecord(p) \/ Restore(p)

-----------------------------------------------------------------------------
(* The job: applyServerUpdate, rollBack, recoverServerUpdate.              *)

(* The service manager stops the unit and waits until its process is gone. *)
ServiceDown ==
  /\ locks' = [d \in Dirs |-> [Dead({"svc"})[d] EXCEPT !.file = @ /\ locks[d].flock # "svc"]]
  /\ maint' = MaintDead({"svc"})
  /\ enabled' = FALSE /\ orig' = FALSE

At(l) == pc["job"] = l
Then(l) == Goto("job", l) /\ UNCHANGED <<noted, tries>>

StopService ==
  /\ At("stop")
  /\ IF pc["svc"] = "off" \/ orig
     THEN /\ ServiceDown
          /\ pc' = [pc EXCEPT !["job"] = "backup", !["svc"] = "off"]
          /\ UNCHANGED <<disk, noted, tries, job, version, touched, events>>
     ELSE Throw("job")

MakeBackup ==
  /\ At("backup")
  /\ Name([names EXCEPT !.snapshot = "partial"])
  /\ Then("copy")
  /\ UNCHANGED <<mark, taken, guard, job, unit, events>>

(* Neither what is copied nor the name it takes is flushed.                *)
CopyData ==
  /\ At("copy")
  /\ Name([names EXCEPT !.snapshot = "whole"])
  /\ torn' = (\E p \in Cores : pc[p] = "run")
  /\ Then("away")
  /\ UNCHANGED <<mark, taken, guard, across, flushes, rolling, life, unit, events>>

MoveAway ==
  /\ At("away")
  /\ Name([names EXCEPT !.inst = "away"]) /\ Then("install")
  /\ UNCHANGED <<mark, taken, guard, job, unit, events>>

Install ==
  /\ At("install")
  /\ Name([names EXCEPT !.inst = "new"]) /\ Then("start")
  /\ UNCHANGED <<mark, taken, guard, job, unit, events>>

StartNew ==
  /\ At("start")
  /\ enabled' = TRUE /\ Then("health")
  /\ UNCHANGED <<disk, guard, job, orig, version, touched, events>>

Healthy ==
  /\ pc["job"] \in {"health", "rhealth"}
  /\ pc["svc"] = "run" /\ version = "new"
  /\ Then("over")
  /\ UNCHANGED <<disk, guard, job, unit, events>>

Unhealthy ==
  /\ pc["job"] \in {"health", "rhealth"}
  /\ Then("rbStop")
  /\ UNCHANGED <<disk, guard, job, unit, events>>

Recover ==
  /\ At("recover")
  /\ IF inst = "new" /\ ~rolling THEN enabled' = TRUE /\ Then("rhealth")
                                 ELSE Then("rbStop") /\ UNCHANGED enabled
  /\ UNCHANGED <<disk, guard, job, orig, version, touched, events>>

(* The file is written first: a new version rejected once is never kept.   *)
RollBack ==
  /\ At("rbStop")
  /\ rolling' = TRUE
  /\ IF Installed \/ names.snapshot # None \/ (pc["svc"] # "off" /\ orig)
     THEN ServiceDown /\ pc' = [pc EXCEPT !["job"] = "rbAway", !["svc"] = "off"]
     ELSE Goto("job", "rbAway") /\ UNCHANGED <<guard, enabled, orig>>
  /\ UNCHANGED <<disk, noted, tries, across, flushes, life, torn, version, touched, events>>

MoveFailed ==
  /\ At("rbAway")
  /\ IF inst = "new" THEN Name([names EXCEPT !.inst = "off"]) ELSE UNCHANGED <<names, kept>>
  /\ Then("rbRecord")
  /\ UNCHANGED <<mark, taken, guard, job, unit, events>>

(* On record before the previous version can start on that data.           *)
RecordNothing ==
  /\ At("rbRecord")
  /\ Then("rbBack")
  /\ UNCHANGED <<disk, guard, job, unit, events>>

RecordRestore ==
  /\ At("rbRecord")
  /\ IF Installed /\ names.snapshot = "whole" /\ maint # None THEN Throw("job")
     ELSE /\ IF Installed /\ names.snapshot = "whole"
             THEN Durably([names EXCEPT !.record = TRUE]) ELSE UNCHANGED <<names, kept>>
          /\ Then("rbBack")
          /\ UNCHANGED <<mark, taken, guard, job, unit, events>>

MoveBack ==
  /\ At("rbBack")
  /\ IF inst \in {"off", "away"} THEN Name([names EXCEPT !.inst = IF inst = "off" THEN "back" ELSE "before"])
                              ELSE UNCHANGED <<names, kept>>
  /\ Then(IF Installed THEN "rbRestore" ELSE "rbStart")
  /\ UNCHANGED <<mark, taken, guard, job, unit, events>>

RestoreSnapshot ==
  /\ At("rbRestore")
  /\ IF maint # None THEN Throw("job")
     ELSE /\ maint' = "job" /\ Then("rbRead")
          /\ UNCHANGED <<disk, locks, job, unit, events>>

(* A record in place stays as it is.                                       *)
NothingToRestore == ~names.record /\ (RestoredBy(names.data) \/ names.snapshot # "whole")
Republish ==
  /\ At("rbRead")
  /\ IF NothingToRestore
     THEN maint' = None /\ Then("discard") /\ UNCHANGED <<names, kept>>
     ELSE /\ IF names.record THEN UNCHANGED <<names, kept>> ELSE Durably([names EXCEPT !.record = TRUE])
          /\ Then("take") /\ UNCHANGED maint
  /\ UNCHANGED <<mark, taken, locks, job, unit, events>>

(* The backup left empty goes, and the service starts.                     *)
StartOld ==
  /\ At("rbStart")
  /\ Name([names EXCEPT !.snapshot = IF @ = "partial" THEN None ELSE @])
  /\ enabled' = TRUE /\ Then("finish")
  /\ UNCHANGED <<mark, taken, guard, job, orig, version, touched, events>>

JobEnds ==
  /\ At("finish")
  /\ Then("over")
  /\ UNCHANGED <<disk, guard, job, unit, events>>

Job ==
  \/ StopService \/ MakeBackup \/ CopyData \/ MoveAway \/ Install \/ StartNew \/ Healthy \/ Unhealthy
  \/ Recover \/ RollBack \/ MoveFailed \/ RecordRestore \/ MoveBack \/ RestoreSnapshot \/ Republish
  \/ StartOld \/ JobEnds \/ Restore("job")

-----------------------------------------------------------------------------
(* The service manager, the hand, and what goes wrong.                     *)

Boot(p) ==
  /\ pc[p] = "off" /\ (p = "svc" => RootThere)
  /\ Goto(p, "look")
  /\ tries' = [tries EXCEPT ![p] = 0] /\ noted' = [noted EXCEPT ![p] = None]
  /\ version' = IF p # "svc" THEN version ELSE IF inst = "new" THEN "new" ELSE "old"
  /\ UNCHANGED <<disk, guard, job, orig, enabled, touched>>

ServiceStarts == enabled /\ Boot("svc") /\ UNCHANGED events

(* The core that admitted the update ends by itself, and is not restarted. *)
AdmittedExits ==
  /\ orig /\ pc["svc"] = "run"
  /\ ServiceDown /\ Goto("svc", "off")
  /\ UNCHANGED <<disk, noted, tries, job, version, touched, events>>

Happens(a) ==
  /\ a \in Acts
  /\ FoldFunction(+, 0, events) < MaxEvents
  /\ events' = [events EXCEPT ![a] = @ + 1]

(* Any core of the machine may be started by hand on the same directory.   *)
HandStarts(p) == Happens("hand") /\ Boot(p)

HandStops(p) ==
  /\ pc[p] = "run"
  /\ locks' = LetGo(p) /\ Goto(p, "off")
  /\ UNCHANGED <<disk, maint, noted, tries, job, unit, events>>

(* The owner starts the service while the job keeps it stopped.            *)
OwnerStarts ==
  /\ Happens("owner") /\ ~enabled /\ enabled' = TRUE
  /\ UNCHANGED <<disk, guard, procs, job, orig, version, touched>>

(* RestoreMoves and UpdateDisk: a rename, a copy or a flush that throws.   *)
DiskFails(p) ==
  /\ pc[p] \in {"move", "flush", "stores", "aside", "swap", "copy"}
  /\ Happens("fault") /\ Fails(p)

Kill(p) ==
  /\ Happens("kill")
  /\ pc[p] \notin {"off", "over"}
  /\ locks' = Dead({p}) /\ maint' = MaintDead({p})
  /\ life' = IF p = "job" THEN "recovery" ELSE life
  /\ orig' = (orig /\ p # "svc")
  /\ Goto(p, Gone(p))
  /\ UNCHANGED <<disk, noted, tries, across, flushes, rolling, torn, enabled, version, touched>>

(* What a cut takes: the name of the snapshot, the update of the           *)
(* installation as a whole; and contents of the copy, at any time.         *)
Takes ==
  (IF names.snapshot = "whole" /\ names'.snapshot # "whole" THEN {"name"} ELSE {})
    \cup (IF names.inst # "before" /\ names'.inst = "before" THEN {"install"} ELSE {})
CopyThere == names.snapshot = "whole" \/ names.restored = "copy" \/ names.data = "copy"

(* Everything dies, each filesystem keeps any prefix of what was not       *)
(* flushed, and the service starts at boot.  Where the data's cannot be    *)
(* flushed the swap comes without a guarantee (docs/server.md), and the    *)
(* behaviour is followed no further.                                       *)
Adrift == pc["svc"] = "over"
PowerCut ==
  /\ ~Adrift /\ Happens("cut")
  /\ \E n \in kept : names' = n /\ kept' = {n}
  /\ mark' \in IF mark = "soft" THEN {"absent", "hard"} ELSE {mark}
  /\ \E c \in SUBSET (IF CopyThere THEN {"contents"} ELSE {}) : taken' = taken \cup c \cup Takes
  /\ locks' = Dead(Procs) /\ maint' = None
  /\ pc' = [p \in Procs |-> IF p = "job" \/ ~flushes THEN "over" ELSE "off"]
  /\ enabled' = TRUE /\ orig' = FALSE
  /\ noted' = [p \in Cores |-> None] /\ tries' = [p \in Cores |-> 0]
  /\ UNCHANGED <<job, version, touched>>

CoreStep(p) == Start(p)
Disturbed ==
  \/ OwnerStarts \/ PowerCut
  \/ \E p \in Hands : HandStarts(p)
  \/ \E p \in Procs : DiskFails(p) \/ Kill(p)

ServerNext ==
  \/ Job \/ ServiceStarts \/ AdmittedExits \/ Disturbed
  \/ \E p \in Cores : CoreStep(p)
  \/ \E p \in Hands : HandStops(p)

ServerSpec ==
  /\ ServerInit /\ [][ServerNext]_serverVars
  /\ WF_serverVars(Job) /\ WF_serverVars(ServiceStarts)
  /\ \A p \in Cores : WF_serverVars(CoreStep(p))

-----------------------------------------------------------------------------
Serves(p) == pc[p] = "run"
Times(A) == FoldFunctionOnSet(+, 0, events, A \cap Acts)

(* A core that has opened the data directory holds it alone, on the        *)
(* directory that stands at the path, with the stores the snapshot left    *)
(* out: no swap under a core, no core on an empty directory made meanwhile.*)
RunsInPlace ==
  \A p \in Cores : Serves(p) =>
    /\ names.data # "fresh" /\ Holding(p) = {names.data}
    /\ names.stores = names.data
    /\ \A q \in Cores \ {p} : ~Serves(q)

(* While a rollback is on record the previous data can be put back: as the *)
(* snapshot, as the restored copy, or in place and marked, whatever a      *)
(* power cut took of the last steps.  Not so once a cut took the name of   *)
(* the snapshot, which nothing flushes, or where the filesystem of the     *)
(* data cannot be flushed (docs/server.md); and a copy whose contents a    *)
(* cut tore is put back as it is (NeverTorn).                              *)
Previous == names.snapshot = "whole" \/ names.restored = "copy" \/ RestoredBy(names.data)
Restorable == names.record => Previous \/ "name" \in taken \/ Adrift

(* The service's previous version never runs on data the new one opened    *)
(* (rollBack: "the previous core would open data the new one migrated").   *)
(* It can once the owner starts the service inside the rollback: the       *)
(* rejected version, still installed, then finishes the restore itself and *)
(* runs on the data just put back.  It also can after a power cut that     *)
(* takes the update of the installation back, and leaves the data that the *)
(* new version ran on.                                                     *)
OpensOld == Serves("svc") /\ version = "old" => names.data \notin touched
OwnerActed == "owner" \in Acts /\ events["owner"] > 0
OldOpensOld == OwnerActed \/ "install" \in taken \/ OpensOld

(* However the update goes, with one process killed or one move failed,    *)
(* and by any power cut that leaves an installation and the copy, on a     *)
(* filesystem that can be flushed, the service runs again and keeps        *)
(* running, unless a core started by hand is in the way.                   *)
(* An owner's start inside the rollback counts as one failure: it can make *)
(* the restore refuse, once.                                               *)
Excused  == Times({"hand"}) > 0 \/ Times({"kill", "fault", "owner"}) > 1
Robbed   == Adrift \/ taken \cap {"name", "contents"} # {}
ServiceReturns == <>[]Serves("svc") \/ <>[](~RootThere) \/ <>Excused \/ <>Robbed

(* What docs/server.md says of a power cut during a rollback: the service  *)
(* starts the previous version at boot.  Not so between the two renames of *)
(* the installation.                                                       *)
BootHasRoot == names.record /\ pc["job"] = "over" => RootThere

(* applyServerUpdate: "It takes the name `data` once complete, so a copy    *)
(* cut short is never mistaken for a snapshot".  A power cut can tear it   *)
(* under that name, since its contents were never flushed, and the restore *)
(* on record goes by the name.                                             *)
NeverTorn == names.record /\ names.snapshot = "whole" => "contents" \notin taken

(* rollBack: "Its restore is on record before the previous version can     *)
(* boot on that data, so a start at boot finishes it".  Not when the record *)
(* was flushed and the name of the snapshot, on another filesystem, lost.  *)
BootFinishes == names.record /\ flushes => Previous

(* applyServerUpdate: "Never copy a live SQLite directory".  The copy is   *)
(* taken without the data lock, so a core started by hand may be running.  *)
QuietCopy == names.snapshot = "whole" => ~torn
=============================================================================
