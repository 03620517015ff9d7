--------------------------- MODULE TurnLifecycle ---------------------------
(***************************************************************************)
(* The life of a turn in the core, across restarts of the core.            *)
(*                                                                         *)
(* A turn is admitted on a thread and queued in one commit (threads.ts),   *)
(* started by the scheduler when nothing holds it (scheduler.ts), run and  *)
(* settled by its runner (turn-runner.ts, turn-settlement.ts), stopped by  *)
(* the user, by an archive or by a shutdown, handed to the next core by a  *)
(* restart handoff (handoff.ts), and closed, held or put back in line by   *)
(* the recovery of the next core (recovery.ts).                            *)
(*                                                                         *)
(* The core is one event loop: an action is what runs between two awaits,  *)
(* split again where a crash between two journal commits shows.  The       *)
(* synchronous loop of the scheduler over its queue is the variable        *)
(* `pump': while it is not empty only the loop, or a crash, takes a step.  *)
(* Threads are conversations of their own: sub-threads, whose turns        *)
(* delegation and workflows carry over a restart, are not modelled here.   *)
(***************************************************************************)
EXTENDS Naturals, FiniteSets

CONSTANTS
  Threads,
  Turns,       \* the turns that may ever be admitted, in order of admission
  Home,        \* the thread each of them is admitted on
  Kinds,       \* the kinds of turn that are admitted
  Archivable,  \* the threads the user may archive
  Gateable,    \* the threads whose account or agent may change
  NoTurn

AllKinds == {"prompt", "outbox", "wake", "background", "resume"}

ASSUME TurnsAssumption == Turns \subseteq Nat /\ NoTurn \notin Turns
ASSUME HomeAssumption  == Home \in [Turns -> Threads]
ASSUME KindsAssumption == Kinds \subseteq AllKinds
ASSUME UseAssumption   == Archivable \subseteq Threads /\ Gateable \subseteq Threads

VARIABLES
  \* The journal: it survives the core.
  status,      \* the status of each turn's row
  kind,        \* its execution: a prompt typed by the user, one of the composer's
               \* outbox (frozenSelection), a wake, ...
  held,        \* rows with a queueHold
  rest,        \* the stored status of each thread
  archived,    \* archived threads
  rec,         \* the restart-handoff setting: what each entry says its turn was
  origin,      \* the cut turn a continuation answers for (turn_requests)
  \* Memory of the running core.
  core,        \* where the core is in its own life
  handing,     \* a restart handoff of this core has begun
  resumed,     \* handoff.resume ran in this core
  todo,        \* the rows or entries a synchronous loop still has to visit
  queue,       \* the scheduler's queue
  queueHold,   \* entries of the queue that carry a hold
  pump,        \* entries the scheduler is looking at now
  running,     \* the turn each thread's slot of the scheduler holds
  phase,       \* how far its runner is
  result,      \* what its turn came to, between its last attempt and its settlement
  stopReq,     \* threads whose running turn was asked to stop
  gated,       \* threads whose account or agent is being changed
  pending,     \* turns a restart handoff waits for
  asked,       \* those it has asked to stop
  \* History, read by properties only.
  userStop     \* what the user's Stop met, per turn

journal == <<status, kind, held, rest, archived, rec, origin>>
loop    == <<core, handing, resumed, todo>>
sched   == <<queue, queueHold, pump, running>>
runner  == <<phase, result, stopReq>>
handoff == <<pending, asked>>
vars == <<journal, loop, sched, runner, gated, handoff, userStop>>

Closed == {"done", "stopped", "error"}
Active == {"queued", "running", "waiting"}

-----------------------------------------------------------------------------
(* The journal.                                                            *)

TurnsOf(th) == {t \in Turns : Home[t] = th}
Open(t)     == status[t] \in {"queued", "running"}

\* The row the next admission on th writes.
Fresh(th) == {t \in TurnsOf(th) : status[t] = "none" /\
                \A u \in TurnsOf(th) : u < t => status[u] # "none"}

LastTurn(th) == {t \in TurnsOf(th) : status[t] # "none" /\
                   \A u \in TurnsOf(th) : u > t => status[u] = "none"}

\* Faulty form of Resting: the thread takes the status of its turn.
RestingAsTurn(s) == s

\* lifecycle.ts: where a thread rests once its last turn closed.
Resting(s) == IF s = "error" THEN "error" ELSE "idle"

\* finishTurn: the row closes, and the thread rests unless another turn owns it.
FinishTurn(t, s) ==
  /\ status' = [status EXCEPT ![t] = s]
  /\ rest' = IF \E u \in TurnsOf(Home[t]) \ {t} : Open(u) THEN rest
             ELSE [rest EXCEPT ![Home[t]] = Resting(s)]

\* Faulty form of MarkQueuedStopped: only the row is written.
MarkQueuedStoppedRowOnly(t) ==
  status' = [status EXCEPT ![t] = "stopped"] /\ held' = held \ {t} /\ UNCHANGED rest

\* markQueuedStopped: a turn that never started closes, with its hold.
MarkQueuedStopped(t) ==
  /\ FinishTurn(t, "stopped")
  /\ held' = held \ {t}

-----------------------------------------------------------------------------
(* The restart handoff's record.                                           *)

\* Faulty form of Continued: no request names the continuation of a cut turn.
ContinuedForgets(t) == FALSE

\* turn_requests: a continuation was admitted for the cut turn t.
Continued(t) == \E u \in Turns : origin[u] = t

\* The entry of t stands for turn u: t's continuation once that is admitted.
StandsFor(t, u) ==
  /\ rec[t] # "no"
  /\ IF rec[t] = "running" /\ Continued(t) THEN origin[u] = t ELSE u = t

\* inheritedTurns().get(u)
InheritedQueued(u) ==
  \E t \in Turns : StandsFor(t, u) /\ (rec[t] = "queued" \/ t # u)
InheritedRunning(u) == StandsFor(u, u) /\ rec[u] = "running"

Resumable(t, was) ==
  /\ Home[t] \notin archived
  /\ \/ kind[t] \in {"prompt", "outbox", "resume"}
     \/ kind[t] = "background" /\ was = "running"

\* Faulty form of Forget: Stop leaves the record alone.
ForgetNothing(th) == rec' = rec

\* forget: every entry of the thread goes.
Forget(th) == rec' = [t \in Turns |-> IF Home[t] = th THEN "no" ELSE rec[t]]

\* The entries a started turn leaves behind: all but the ones that stand for it.
WithoutStarted(t) == [u \in Turns |-> IF StandsFor(u, t) THEN "no" ELSE rec[u]]

-----------------------------------------------------------------------------
(* The scheduler.                                                          *)

Stopping == core \in {"handoff", "stopping", "draining", "drained"}
\* Timers, sockets and promises run: no synchronous loop is under way.
Free   == core \in {"up", "handoff", "stopping", "drained"} /\ pump = {}
FreeUp == core = "up" /\ pump = {}

\* A pump over the given entries begins, unless the core is stopping.
Pump(entries) == pump' = IF Stopping THEN {} ELSE entries

\* Faulty form of Waits: a hold does not hold.
WaitsUnheld(t) == Home[t] \in gated \/ running[Home[t]] # NoTurn

\* waitReason: what keeps an entry in the queue.
Waits(t) ==
  \/ t \in queueHold
  \/ Home[t] \in gated
  \/ running[Home[t]] # NoTurn

Enqueue(t, hold) ==
  /\ queue' = queue \union {t}
  /\ queueHold' = IF hold THEN queueHold \union {t} ELSE queueHold \ {t}
  /\ Pump({t})

Dequeue(ts) ==
  /\ queue' = queue \ ts
  /\ queueHold' = queueHold \ ts

\* stopRunning: heard while the runner prepares or runs an attempt. Open cards go.
CanStop(th)   == phase[th] \in {"preparing", "attempt"}
Uncarded(ths) == [th \in Threads |->
                    IF th \in ths /\ rest[th] = "waiting" THEN "running" ELSE rest[th]]
\* Faulty form of StopRunning: a stop during the preparation is lost.
StopRunningAttempt(ths) ==
  LET heard == {th \in ths : phase[th] = "attempt"}
  IN  stopReq' = stopReq \union heard /\ rest' = Uncarded(heard)

StopRunning(ths) ==
  LET heard == {th \in ths : CanStop(th)}
  IN  /\ stopReq' = stopReq \union heard
      /\ rest' = Uncarded(heard)

\* scheduler.stop: the running turn if the slot is taken, else a queued turn.
SchedulerStop(th) ==
  \/ /\ running[th] # NoTurn
     /\ StopRunning({th})
     /\ UNCHANGED <<status, held, queue, queueHold>>
  \/ /\ running[th] = NoTurn
     /\ \E t \in queue :
          /\ Home[t] = th
          /\ MarkQueuedStopped(t)
          /\ Dequeue({t})
     /\ UNCHANGED stopReq
  \/ /\ running[th] = NoTurn
     /\ \A t \in queue : Home[t] # th
     /\ UNCHANGED <<status, held, rest, queue, queueHold, stopReq>>

-----------------------------------------------------------------------------
Init ==
  /\ status = [t \in Turns |-> "none"]
  /\ kind = [t \in Turns |-> "prompt"]
  /\ held = {}
  /\ rest = [th \in Threads |-> "idle"]
  /\ archived = {}
  /\ rec = [t \in Turns |-> "no"]
  /\ origin = [t \in Turns |-> NoTurn]
  /\ core = "up" /\ handing = FALSE /\ resumed = TRUE /\ todo = {}
  /\ queue = {} /\ queueHold = {} /\ pump = {}
  /\ running = [th \in Threads |-> NoTurn]
  /\ phase = [th \in Threads |-> "none"]
  /\ result = [th \in Threads |-> "none"]
  /\ stopReq = {} /\ gated = {} /\ pending = {} /\ asked = {}
  /\ userStop = [t \in Turns |-> "no"]

-----------------------------------------------------------------------------
(* Admission: threads.startTurn.                                           *)

\* Faulty form of Busy: only a live agent makes a thread busy.
BusyHandle(th) == phase[th] = "attempt"

\* isBusy: a turn of the thread is open, or the runner still holds its agent.
Busy(th) == rest[th] \in Active \/ phase[th] = "attempt"

\* One commit: the turn row, the thread's status and the request it answers.
AdmitTurn(t, k, cut) ==
  /\ status' = [status EXCEPT ![t] = "queued"]
  /\ kind' = [kind EXCEPT ![t] = k]
  /\ origin' = [origin EXCEPT ![t] = cut]
  /\ rest' = [rest EXCEPT ![Home[t]] = "queued"]

\* A user's prompt, a flushed outbox input, a wake or an automatic resume.
Admit(th, k) ==
  /\ FreeUp
  /\ th \notin archived
  /\ ~Busy(th)
  /\ \E t \in Fresh(th) : AdmitTurn(t, k, NoTurn) /\ Enqueue(t, FALSE)
  /\ UNCHANGED <<held, archived, rec, loop, running, runner, gated, handoff, userStop>>

-----------------------------------------------------------------------------
(* The scheduler's loop over its queue, and the synchronous start of a turn. *)

PumpSkips(t) ==
  /\ t \in pump /\ Waits(t)
  /\ pump' = pump \ {t}
  /\ UNCHANGED <<journal, loop, queue, queueHold, running, runner, gated, handoff, userStop>>

\* The entry leaves the queue for the slot of its thread.
TakeSlot(t) ==
  /\ t \in pump /\ ~Waits(t)
  /\ pump' = pump \ {t}
  /\ Dequeue({t})
  /\ running' = [running EXCEPT ![Home[t]] = t]
  /\ stopReq' = stopReq \ {Home[t]}

\* The running state commits; `turn.started' consumes the entries it answers.
StartTurn(t) ==
  /\ TakeSlot(t)
  /\ status' = [status EXCEPT ![t] = "running"]
  /\ rest' = [rest EXCEPT ![Home[t]] = "running"]
  /\ rec' = IF handing THEN rec ELSE WithoutStarted(t)
  /\ phase' = [phase EXCEPT ![Home[t]] = "preparing"]
  /\ UNCHANGED <<kind, held, archived, origin, loop, result, gated, handoff, userStop>>

\* prepareWake refuses: the letters cannot cross, the wake stops before it ran.
StartRefused(t) ==
  /\ kind[t] = "wake"
  /\ TakeSlot(t)
  /\ MarkQueuedStopped(t)
  /\ phase' = [phase EXCEPT ![Home[t]] = "after"]
  /\ UNCHANGED <<kind, archived, rec, origin, loop, result, gated, handoff, userStop>>

\* The running state does not commit: the turn fails without having started.
StartFails(t) ==
  /\ TakeSlot(t)
  /\ phase' = [phase EXCEPT ![Home[t]] = "unstarted"]
  /\ result' = [result EXCEPT ![Home[t]] = "error"]
  /\ UNCHANGED <<journal, loop, gated, handoff, userStop>>

-----------------------------------------------------------------------------
(* The runner.                                                             *)

\* Preparation is over: a driver attempt begins.
Attach(th) ==
  /\ Free
  /\ phase[th] = "preparing" /\ th \notin stopReq
  /\ phase' = [phase EXCEPT ![th] = "attempt"]
  /\ UNCHANGED <<journal, loop, sched, result, stopReq, gated, handoff, userStop>>

\* attempts.close, with what the turn came to.
Closes(th, r) ==
  /\ phase' = [phase EXCEPT ![th] = "closing"]
  /\ result' = [result EXCEPT ![th] = r]
  /\ stopReq' = stopReq \ {th}

PreparationEnds(th) ==
  /\ Free
  /\ phase[th] = "preparing"
  /\ Closes(th, IF th \in stopReq THEN "stopped" ELSE "error")
  /\ UNCHANGED <<journal, loop, sched, gated, handoff, userStop>>

\* The last attempt ended. A stop asked of it decides over what the driver says;
\* a driver may also report `stopped' with no stop asked of it.
Outcomes(th) == IF th \in stopReq THEN {"stopped"} ELSE Closed

AttemptEnds(th) ==
  /\ Free
  /\ phase[th] = "attempt"
  /\ \E r \in Outcomes(th) : Closes(th, r)
  /\ UNCHANGED <<journal, loop, sched, gated, handoff, userStop>>

CardOpens(th) ==
  /\ Free
  /\ phase[th] = "attempt" /\ rest[th] = "running" /\ th \notin stopReq
  /\ rest' = [rest EXCEPT ![th] = "waiting"]
  /\ UNCHANGED <<status, kind, held, archived, rec, origin, loop, sched, runner, gated, handoff, userStop>>

CardAnswered(th) ==
  /\ Free
  /\ phase[th] = "attempt" /\ rest[th] = "waiting"
  /\ rest' = [rest EXCEPT ![th] = "running"]
  /\ UNCHANGED <<status, kind, held, archived, rec, origin, loop, sched, runner, gated, handoff, userStop>>

\* ownsTurn: the row is still as this runner left it.
OwnsTurn(th) == status[running[th]] = IF phase[th] = "unstarted" THEN "queued" ELSE "running"

\* `turn.finished', as the handoff hears it.
HandoffHears(t, s) ==
  /\ rec' = IF handing /\ s # "stopped" THEN [rec EXCEPT ![t] = "no"] ELSE rec
  /\ pending' = pending \ {t}

SettlementOver(th) ==
  /\ phase' = [phase EXCEPT ![th] = "after"]
  /\ result' = [result EXCEPT ![th] = "none"]

\* settleTurn: a failed commit is tried again, so it changes nothing here.
Settle(th) ==
  /\ Free
  /\ phase[th] \in {"closing", "unstarted"}
  /\ SettlementOver(th)
  /\ IF OwnsTurn(th)
     THEN FinishTurn(running[th], result[th]) /\ HandoffHears(running[th], result[th])
     ELSE UNCHANGED <<status, rest, rec, pending>>
  /\ UNCHANGED <<kind, held, archived, origin, loop, sched, stopReq, gated, asked, userStop>>

\* Faulty form of Abandon: a settlement that fails once is given up.
AbandonAnyTime(th) ==
  /\ Free
  /\ phase[th] \in {"closing", "unstarted"}
  /\ SettlementOver(th)
  /\ UNCHANGED <<journal, loop, sched, stopReq, gated, handoff, userStop>>

\* Its commit failed and the core stops: the row is left to the next core.
Abandon(th) ==
  /\ Free /\ Stopping
  /\ phase[th] \in {"closing", "unstarted"}
  /\ SettlementOver(th)
  /\ UNCHANGED <<journal, loop, sched, stopReq, gated, handoff, userStop>>

\* Faulty form of Finalize: the freed slot looks at nothing.
FinalizeNoPump(th) ==
  /\ Free
  /\ phase[th] = "after"
  /\ phase' = [phase EXCEPT ![th] = "none"]
  /\ running' = [running EXCEPT ![th] = NoTurn]
  /\ UNCHANGED <<journal, loop, queue, queueHold, pump, result, stopReq, gated, handoff, userStop>>

\* What follows the turn (a move, the answer to the thread that spawned it) is
\* done: the slot is free and the whole queue is looked at again.
Finalize(th) ==
  /\ Free
  /\ phase[th] = "after"
  /\ phase' = [phase EXCEPT ![th] = "none"]
  /\ running' = [running EXCEPT ![th] = NoTurn]
  /\ Pump(queue)
  /\ UNCHANGED <<journal, loop, queue, queueHold, result, stopReq, gated, handoff, userStop>>

-----------------------------------------------------------------------------
(* The user, and what holds a thread's turns.                              *)

\* What Stop meets: an entry it removes, or an open turn its slot lets it reach.
Reached(t) == running[Home[t]] = NoTurn \/ (running[Home[t]] = t /\ CanStop(Home[t]))

StopMarks(th) ==
  [t \in Turns |->
     IF Home[t] # th \/ userStop[t] = "forgotten" THEN userStop[t]
     ELSE IF rec[t] # "no" /\ (handing \/ ~Open(t)) THEN "forgotten"
     ELSE IF Open(t) /\ Reached(t) THEN "asked"
     ELSE userStop[t]]

\* stopTurn. A listener of an admission event may call it while resume loops.
Stop(th) ==
  /\ Free \/ (core = "resuming" /\ pump = {})
  /\ Forget(th)
  /\ SchedulerStop(th)
  /\ userStop' = StopMarks(th)
  /\ UNCHANGED <<kind, archived, origin, loop, pump, running, phase, result, gated, handoff>>

\* archive(threadId, true), and what it puts away.
Archive(th) ==
  /\ Free
  /\ th \in Archivable
  /\ archived' = archived \union {th}
  /\ SchedulerStop(th)
  /\ userStop' = [t \in Turns |-> IF Home[t] = th /\ Open(t) /\ userStop[t] = "no"
                                 THEN "archived" ELSE userStop[t]]
  /\ UNCHANGED <<kind, rec, origin, loop, pump, running, phase, result, gated, handoff>>

Unarchive(th) ==
  /\ Free
  /\ th \in archived
  /\ archived' = archived \ {th}
  /\ UNCHANGED <<status, kind, held, rest, rec, origin, loop, sched, runner, gated, handoff, userStop>>

\* turns.recover, resume: the hold goes and the entry is looked at again.
ResumeHeld(t) ==
  /\ FreeUp
  /\ status[t] = "queued" /\ t \in held
  /\ Home[t] \notin archived
  /\ kind[t] \in {"prompt", "outbox"}
  /\ held' = held \ {t}
  /\ Enqueue(t, FALSE)
  /\ userStop' = [userStop EXCEPT ![t] = "no"]
  /\ UNCHANGED <<status, kind, rest, archived, rec, origin, loop, running, runner, gated, handoff>>

\* turns.recover, discard: through the scheduler, which has every held row of a
\* conversation in its queue, so that the fallback of the code finds nothing to do.
DiscardHeld(t) ==
  /\ FreeUp
  /\ status[t] = "queued" /\ t \in held
  /\ SchedulerStop(Home[t])
  /\ UNCHANGED <<kind, archived, rec, origin, loop, pump, running, phase, result, gated, handoff, userStop>>

\* An agent update or a login change holds the thread's turns, then lets go.
Gate(th) ==
  /\ FreeUp
  /\ th \in Gateable \ gated
  /\ gated' = gated \union {th}
  /\ UNCHANGED <<journal, loop, sched, runner, handoff, userStop>>

Lift(th) ==
  /\ Free
  /\ th \in gated
  /\ gated' = gated \ {th}
  /\ Pump(queue)
  /\ UNCHANGED <<journal, loop, queue, queueHold, running, runner, handoff, userStop>>

-----------------------------------------------------------------------------
(* The restart handoff of the stopping core.                               *)

Occupied == {running[th] : th \in Threads} \ {NoTurn}

\* Faulty form of Recorded: only the waiting turns are handed over.
RecordedQueued(t) ==
  IF t \in queue \ queueHold /\ Resumable(t, "queued") THEN "queued" ELSE "no"

\* What begin writes of turn t.
Recorded(t) ==
  IF t \in Occupied /\ Resumable(t, "running") THEN "running"
  ELSE IF t \in queue \ queueHold /\ Resumable(t, "queued") THEN "queued"
  ELSE "no"

\* Its own entries, and the inherited ones none of them replaces, in one save.
BeginHandoff ==
  /\ FreeUp
  /\ core' = "handoff" /\ handing' = TRUE
  /\ pending' = Occupied
  /\ rec' = [t \in Turns |->
               IF Recorded(t) # "no" THEN Recorded(t)
               ELSE IF \E u \in Turns : StandsFor(t, u) /\ Recorded(u) # "no" THEN "no"
               ELSE rec[t]]
  /\ UNCHANGED <<status, kind, held, rest, archived, origin, resumed, todo, sched, runner, gated, asked, userStop>>

\* Between two tool calls, or past the grace: each turn is asked once.
HandoffStop(t) ==
  /\ core = "handoff" /\ Free
  /\ t \in pending \ asked
  /\ asked' = asked \union {t}
  /\ StopRunning({Home[t]})
  /\ UNCHANGED <<status, kind, held, archived, rec, origin, loop, sched, phase, result, gated, pending, userStop>>

LeaveFor(next) ==
  /\ core' = next
  /\ UNCHANGED <<journal, handing, resumed, todo, sched, runner, gated, userStop>>

\* Every turn it waited for ended: the core shuts down.
HandoffEnds ==
  /\ core = "handoff" /\ Free
  /\ pending = {}
  /\ asked' = {}
  /\ LeaveFor("stopping") /\ UNCHANGED pending

\* Faulty form of HandoffBackstop: the handoff waits for its turns alone.
NoBackstop == FALSE

\* A stop the runner could not settle does not hold the restart: nothing waits
\* for these turns, or stops them, on the handoff's account any more.
HandoffBackstop ==
  /\ core = "handoff" /\ Free
  /\ pending # {}
  /\ pending' = {} /\ asked' = {}
  /\ LeaveFor("stopping")

\* core.shutdown, a signal: a stop on purpose, which hands nothing over.
Shutdown == FreeUp /\ LeaveFor("stopping") /\ UNCHANGED handoff

-----------------------------------------------------------------------------
(* scheduler.drain, and the end of the process.                            *)

Drain == core = "stopping" /\ Free /\ LeaveFor("draining") /\ UNCHANGED handoff

\* Faulty form of KeepsQueued: this core's handoff is not asked.
KeepsQueuedHeld(t) == t \in queueHold \/ kind[t] = "outbox"

\* A queued row stays for the next core if the user holds it, the composer's
\* outbox owns it, or a handoff carries it.
KeepsQueued(t) == t \in queueHold \/ kind[t] = "outbox" \/ InheritedQueued(t)

DrainEntry(t) ==
  /\ core = "draining" /\ t \in queue
  /\ Dequeue({t})
  /\ IF KeepsQueued(t) THEN UNCHANGED <<status, rest, held>> ELSE MarkQueuedStopped(t)
  /\ UNCHANGED <<kind, archived, rec, origin, loop, pump, running, runner, gated, handoff, userStop>>

DrainStop ==
  /\ core = "draining" /\ queue = {}
  /\ core' = "drained"
  /\ StopRunning(Threads)
  /\ UNCHANGED <<status, kind, held, archived, rec, origin, handing, resumed, todo, sched, phase, result, gated, handoff, userStop>>

\* The memory of the core goes; the journal is all that stays.
Dies ==
  /\ core' = "down" /\ handing' = FALSE /\ resumed' = FALSE /\ todo' = {}
  /\ queue' = {} /\ queueHold' = {} /\ pump' = {}
  /\ running' = [th \in Threads |-> NoTurn]
  /\ phase' = [th \in Threads |-> "none"]
  /\ result' = [th \in Threads |-> "none"]
  /\ stopReq' = {} /\ gated' = {} /\ pending' = {} /\ asked' = {}
  /\ UNCHANGED <<journal, userStop>>

\* Every turn settled, or the drain gave up on one after its timeout.
Exit == core = "drained" /\ pump = {} /\ Dies

Crash == core # "down" /\ Dies

-----------------------------------------------------------------------------
(* The next core: recovery before it listens, then handoff.resume.         *)

\* A record past its hour is dropped whole.
Boot(fresh) ==
  /\ core = "down"
  /\ core' = "recovering"
  /\ todo' = {t \in Turns : Open(t)}
  /\ rec' = IF fresh THEN rec ELSE [t \in Turns |-> "no"]
  /\ UNCHANGED <<status, kind, held, rest, archived, origin, handing, resumed, sched, runner, gated, handoff, userStop>>

\* Faulty form of Requeues: a row the record does not name is left for it too.
RequeuesUnrecorded(t) == status[t] = "queued" /\ t \notin held /\ Resumable(t, "queued")

\* requeues: a row the handoff puts back in line once the server listens.
Requeues(t) ==
  status[t] = "queued" /\ t \notin held /\ InheritedQueued(t) /\ Resumable(t, "queued")

\* A prompt that cannot have reached an agent waits for its user.
Holds(t) ==
  status[t] = "queued" /\ kind[t] \in {"prompt", "outbox"} /\ Home[t] \notin archived

RecoverTurn(t) ==
  /\ core = "recovering" /\ pump = {} /\ t \in todo
  /\ todo' = todo \ {t}
  /\ \/ /\ Requeues(t)
        /\ UNCHANGED <<status, held, rest, queue, queueHold, pump>>
     \/ /\ ~Requeues(t) /\ Holds(t)
        /\ held' = held \union {t}
        /\ rest' = [rest EXCEPT ![Home[t]] = "queued"]
        /\ Enqueue(t, TRUE)
        /\ UNCHANGED status
     \/ /\ ~Requeues(t) /\ ~Holds(t)
        /\ FinishTurn(t, IF status[t] = "running" /\ InheritedRunning(t) THEN "stopped" ELSE "error")
        /\ UNCHANGED <<held, queue, queueHold, pump>>
  /\ UNCHANGED <<kind, archived, rec, origin, core, handing, resumed, running, runner, gated, handoff, userStop>>

\* settleStatus, for every thread whose status says a turn is under way while none is.
SettledRest ==
  [th \in Threads |->
     IF rest[th] \in Active /\ \A t \in TurnsOf(th) : ~Open(t)
     THEN IF \E t \in LastTurn(th) : status[t] = "error" THEN "error" ELSE "idle"
     ELSE rest[th]]

Recovered ==
  /\ core = "recovering" /\ pump = {} /\ todo = {}
  /\ core' = "up"
  /\ rest' = SettledRest
  /\ UNCHANGED <<status, kind, held, archived, rec, origin, handing, resumed, todo, sched, runner, gated, handoff, userStop>>

\* The server listens and every provider answered.
BeginResume ==
  /\ FreeUp /\ ~resumed
  /\ core' = "resuming" /\ resumed' = TRUE
  /\ todo' = {t \in Turns : rec[t] # "no"}
  /\ UNCHANGED <<journal, handing, sched, runner, gated, handoff, userStop>>

Visit(t) == core = "resuming" /\ pump = {} /\ t \in todo /\ todo' = todo \ {t}

Consume(t) == rec' = [rec EXCEPT ![t] = "no"]

EntryResumable(t, u) == Resumable(u, IF t = u THEN rec[t] ELSE "queued")
CutRunning(t, u)     == t = u /\ rec[t] = "running" /\ status[t] = "stopped"

\* A Stop took the entry meanwhile, or the scheduler has its turn already.
SkipEntry(t) ==
  /\ Visit(t)
  /\ \/ rec[t] = "no"
     \/ \E u \in queue \union Occupied :
          StandsFor(t, u) /\ EntryResumable(t, u) /\ status[u] = "queued"
  /\ UNCHANGED <<journal, core, handing, resumed, sched, runner, gated, handoff, userStop>>

\* Its thread may not resume, or nothing is left to resume.
ConsumeEntry(t) ==
  /\ Visit(t)
  /\ \E u \in Turns :
       /\ StandsFor(t, u)
       /\ ~EntryResumable(t, u) \/ (status[u] # "queued" /\ ~CutRunning(t, u))
  /\ Consume(t)
  /\ UNCHANGED <<status, kind, held, rest, archived, origin, core, handing, resumed, sched, runner, gated, handoff, userStop>>

\* A queued turn, or a continuation an earlier core admitted, goes back in line.
RequeueEntry(t) ==
  /\ Visit(t)
  /\ \E u \in Turns :
       /\ StandsFor(t, u) /\ EntryResumable(t, u)
       /\ status[u] = "queued" /\ u \notin queue \union Occupied
       /\ Enqueue(u, u \in held)
  /\ UNCHANGED <<journal, core, handing, resumed, running, runner, gated, handoff, userStop>>

\* A cut turn gets its continuation.
ContinueEntry(t) ==
  /\ Visit(t)
  /\ StandsFor(t, t) /\ EntryResumable(t, t) /\ CutRunning(t, t)
  /\ ~Busy(Home[t])
  /\ \E c \in Fresh(Home[t]) : AdmitTurn(c, "resume", t) /\ Enqueue(c, FALSE)
  /\ UNCHANGED <<held, archived, rec, core, handing, resumed, running, runner, gated, handoff, userStop>>

\* Its admission is refused: the thread is busy, or its agent cannot run. The entry stays.
ContinuationRefused(t) ==
  /\ Visit(t)
  /\ StandsFor(t, t) /\ EntryResumable(t, t) /\ CutRunning(t, t)
  /\ UNCHANGED <<journal, core, handing, resumed, sched, runner, gated, handoff, userStop>>

ResumeDone ==
  /\ core = "resuming" /\ pump = {} /\ todo = {}
  /\ LeaveFor("up") /\ UNCHANGED handoff

-----------------------------------------------------------------------------
SchedulerStep == \E t \in Turns : PumpSkips(t) \/ StartTurn(t) \/ StartRefused(t) \/ StartFails(t)

RunnerStep(th) ==
  \/ Attach(th) \/ PreparationEnds(th) \/ AttemptEnds(th)
  \/ CardOpens(th) \/ CardAnswered(th)
  \/ Settle(th) \/ Abandon(th) \/ Finalize(th)

UserStep ==
  \/ \E th \in Threads :
       \/ \E k \in Kinds : Admit(th, k)
       \/ Stop(th) \/ Archive(th) \/ Unarchive(th) \/ Gate(th) \/ Lift(th)
  \/ \E t \in Turns : ResumeHeld(t) \/ DiscardHeld(t)

ShutdownStep ==
  \/ BeginHandoff \/ HandoffEnds \/ HandoffBackstop \/ Shutdown
  \/ Drain \/ DrainStop \/ Exit \/ Crash
  \/ \E t \in Turns : HandoffStop(t) \/ DrainEntry(t)

RecoveryLoop == Recovered \/ \E t \in Turns : RecoverTurn(t)

ResumeLoop ==
  \/ ResumeDone
  \/ \E t \in Turns :
       \/ SkipEntry(t) \/ ConsumeEntry(t) \/ RequeueEntry(t)
       \/ ContinueEntry(t) \/ ContinuationRefused(t)

StartupStep ==
  \/ \E fresh \in BOOLEAN : Boot(fresh)
  \/ RecoveryLoop \/ BeginResume \/ ResumeLoop

Next ==
  \/ SchedulerStep
  \/ \E th \in Threads : RunnerStep(th)
  \/ UserStep
  \/ ShutdownStep
  \/ StartupStep

Spec == Init /\ [][Next]_vars

(* The event loop always runs its synchronous loops to their end, and the    *)
(* promises of a turn settle: a stopped attempt by the stop deadline, which  *)
(* kills the agent and then settles the turn itself; a failed settlement by  *)
(* its retries.  An agent nobody stops, a user and the start of a next core  *)
(* are owed no fairness.                                                     *)
Fairness ==
  /\ WF_vars(SchedulerStep) /\ WF_vars(RecoveryLoop) /\ WF_vars(ResumeLoop)
  /\ \A th \in Threads :
       /\ WF_vars(PreparationEnds(th))
       /\ WF_vars(th \in stopReq /\ AttemptEnds(th))
       /\ WF_vars(Settle(th))
       /\ WF_vars(Finalize(th))
  /\ WF_vars(\E t \in Turns : HandoffStop(t))
  /\ WF_vars(HandoffEnds \/ HandoffBackstop)
  /\ WF_vars(Drain \/ DrainStop \/ Exit \/ \E t \in Turns : DrainEntry(t))

FairSpec == Spec /\ Fairness

-----------------------------------------------------------------------------
(* Invariants.                                                             *)

TypeOK ==
  /\ status \in [Turns -> {"none", "queued", "running"} \union Closed]
  /\ kind \in [Turns -> AllKinds]
  /\ held \subseteq Turns
  /\ rest \in [Threads -> Active \union {"idle", "error"}]
  /\ archived \subseteq Threads
  /\ rec \in [Turns -> {"no", "running", "queued"}]
  /\ origin \in [Turns -> Turns \union {NoTurn}]
  /\ core \in {"up", "resuming", "handoff", "stopping", "draining", "drained", "down", "recovering"}
  /\ handing \in BOOLEAN /\ resumed \in BOOLEAN
  /\ todo \subseteq Turns
  /\ queue \subseteq Turns /\ queueHold \subseteq queue /\ pump \subseteq Turns
  /\ running \in [Threads -> Turns \union {NoTurn}]
  /\ phase \in [Threads -> {"none", "preparing", "attempt", "closing", "unstarted", "after"}]
  /\ result \in [Threads -> Closed \union {"none"}]
  /\ stopReq \subseteq Threads /\ gated \subseteq Threads
  /\ pending \subseteq Turns /\ asked \subseteq Turns
  /\ userStop \in [Turns -> {"no", "asked", "archived", "forgotten"}]

\* A thread never has two turns under way, whoever admitted them and however
\* many cores they crossed (isBusy refuses the second).
OneOpenTurn ==
  \A t, u \in Turns : Open(t) /\ Open(u) /\ Home[t] = Home[u] => t = u

\* The stored status of a thread is the one its turns give, in every state a
\* crash can leave (lifecycle.ts: the only writer of a thread's status).
StatusFollowsTurns ==
  \A th \in Threads :
    /\ rest[th] = "queued" <=> \E t \in TurnsOf(th) : status[t] = "queued"
    /\ rest[th] \in {"running", "waiting"} <=> \E t \in TurnsOf(th) : status[t] = "running"

\* Once a core is up, each row that says `running' has a runner that will settle it.
RunningHasRunner ==
  core \in {"up", "resuming"} =>
    \A t \in Turns : status[t] = "running" =>
      running[Home[t]] = t /\ phase[Home[t]] \in {"preparing", "attempt", "closing"}

\* No entry is left in the queue by a pump that nobody ran: while the event loop
\* of a core that is up is idle, every queued entry still has a reason to wait.
NoMissedPump == FreeUp => \A t \in queue : Waits(t)

\* A queued row waits in the scheduler, or for handoff.resume, unless a Stop or
\* an archive came before handoff.resume put it there.
QueuedHasCarrier ==
  FreeUp => \A t \in Turns : status[t] = "queued" =>
    \/ t \in queue \union Occupied
    \/ ~resumed /\ InheritedQueued(t)
    \/ userStop[t] # "no"

\* While a core hands over, each turn it runs or cut is in the record, so that a
\* kill at any moment of the wait still hands it over.  A row that is closed
\* counts where no thread is archived: an archive gives it up, and a thread that
\* is brought back is not put into the record again.
HandoffCarries ==
  handing => \A t \in Occupied :
    /\ status[t] = "running" \/ (status[t] = "stopped" /\ Home[t] \notin Archivable)
    /\ Resumable(t, "running") /\ userStop[t] = "no"
    => rec[t] = "running"

\* A cut turn gets one continuation, however many cores die while admitting it.
OneContinuation ==
  \A c, d \in Turns : origin[c] # NoTurn /\ origin[c] = origin[d] => c = d

(* The invariant the safety properties above rest on (TurnLifecycle_proofs). *)

\* A queue entry is a queued row that no slot holds; a row the journal holds is
\* never queued without its hold.
QueuedRows ==
  /\ \A t \in queue :
       status[t] = "queued" /\ running[Home[t]] # t /\ (t \in held => t \in queueHold)
  /\ pump \subseteq queue
  /\ core = "draining" => pump = {}

\* A slot is taken while its runner is under way, by a turn of its own thread
\* that was admitted and is not held.
SlotRows ==
  \A th \in Threads :
    /\ running[th] = NoTurn <=> phase[th] = "none"
    /\ running[th] # NoTurn =>
         Home[running[th]] = th /\ status[running[th]] # "none" /\ running[th] \notin held

\* Only admitted rows are held, and a turn about to settle has its result.
HeldRows == \A t \in held : status[t] # "none"
Results  == \A th \in Threads : phase[th] \in {"closing", "unstarted"} => result[th] \in Closed

\* Nothing runs while no core is up, and a row recovery has yet to see is open.
NothingRuns ==
  /\ core \in {"down", "recovering"} =>
       running = [th \in Threads |-> NoTurn] /\ queue \subseteq queueHold
  /\ core = "recovering" => \A t \in todo : Open(t) /\ t \notin queue
  /\ core = "down" => queue = {}

\* An entry the pump will not look at waits.
PumpOwed == ~Stopping => \A t \in queue \ pump : Waits(t)

\* Recovery still has each row a dead core left running to visit.
RunnersKnown ==
  /\ RunningHasRunner
  /\ core = "recovering" => \A t \in Turns : status[t] = "running" => t \in todo

\* A turn does not continue itself.
Continuations == OneContinuation /\ \A t \in Turns : origin[t] # t

IInv ==
  /\ TypeOK
  /\ OneOpenTurn /\ StatusFollowsTurns
  /\ QueuedRows /\ SlotRows /\ HeldRows /\ Results /\ NothingRuns

(* What the theorems about the handoff's record rest on beside IInv.       *)

\* A core that hands over is stopping, and one that has not listened yet has
\* resumed nothing.
LoopRows ==
  /\ handing => core \notin {"up", "resuming", "recovering", "down"} /\ pump = {}
  /\ core \in {"down", "recovering"} => ~resumed

\* Entries and continuations name admitted turns; an entry that waits is one
\* handoff.resume may put back in line; a turn continues one of its thread.
RecordRows ==
  \A t \in Turns :
    /\ rec[t] # "no" \/ origin[t] # NoTurn => status[t] # "none"
    /\ rec[t] = "queued" => kind[t] \in {"prompt", "outbox", "resume"}
    /\ origin[t] # NoTurn => kind[t] = "resume" /\ Home[origin[t]] = Home[t]

\* An archive met each open turn of its thread.
ArchivedRows ==
  /\ archived \subseteq Archivable
  /\ \A t \in Turns : Open(t) /\ Home[t] \in archived => userStop[t] # "no"

\* A handoff carries the prompts that wait as well as the turns that run.
HandoffRows ==
  /\ handing => \A t \in Occupied :
       /\ Open(t) \/ (status[t] = "stopped" /\ Home[t] \notin Archivable)
       /\ Resumable(t, "running") /\ userStop[t] = "no"
       => rec[t] = "running"
  /\ handing => \A t \in queue \ queueHold :
       kind[t] \in {"prompt", "outbox"} /\ Home[t] \notin archived /\ userStop[t] = "no"
         => rec[t] = "queued"

\* Entry e brings the queued row t back in line: its own, or its cut turn's.
BringsBack(e, t) ==
  \/ e = t /\ rec[e] = "queued"
  \/ e # t /\ rec[e] = "running" /\ origin[t] = e

\* What has the queued row t, or will put it in the queue.
Brought(t) ==
  \/ t \in queue
  \/ running[Home[t]] = t /\ phase[Home[t]] = "unstarted"
  \/ core = "recovering" /\ t \in todo
  \/ /\ running[Home[t]] = NoTurn
     /\ \/ core # "resuming" /\ ~resumed /\ \E e \in Turns : BringsBack(e, t)
        \/ core = "resuming" /\ \E e \in todo : BringsBack(e, t)

\* QueuedHasCarrier, from the boot of a core on.
CarrierRows ==
  core \in {"recovering", "up", "resuming"} =>
    \A t \in Turns : status[t] = "queued" /\ userStop[t] = "no" => Brought(t)

Carried ==
  Continuations /\ LoopRows /\ RecordRows /\ ArchivedRows /\ HandoffRows /\ CarrierRows

(* What keeps a turn whose entry the user's Stop removed out of the record. *)

\* A start that does not commit settles as an error.
FailedStarts == \A th \in Threads : phase[th] = "unstarted" => result[th] = "error"

\* What is continued was cut; an entry of a core that is up names no turn of it
\* but one whose start failed.
EntryRows ==
  \A t \in Turns :
    /\ origin[t] # NoTurn => status[origin[t]] = "stopped"
    /\ rec[t] # "no" =>
         /\ kind[t] # "wake"
         /\ core \in {"up", "resuming"} /\ t \in Occupied =>
              \/ phase[Home[t]] = "unstarted" /\ status[t] = "queued"
              \/ status[t] = "error"

\* A forgotten turn is in the record again only after its agent ended it; while
\* it is open and its user has not been asked, nothing brings it back.
ForgottenRows ==
  \A t \in Turns : userStop[t] = "forgotten" =>
    /\ status[t] # "none"
    /\ rec[t] = "running" => status[t] \in {"done", "error"}
    /\ core \in {"up", "resuming"} /\ t \in Occupied => status[t] \in {"done", "error"}
    /\ Open(t) /\ t \notin held =>
         /\ core \notin {"up", "resuming"}
         /\ core = "recovering" => t \in todo
         /\ \A e \in Turns : ~BringsBack(e, t)

Forgotten == FailedStarts /\ EntryRows /\ ForgottenRows

(* Action properties.                                                      *)

\* A prompt a restart held never reaches an agent while it is held: only
\* turns.recover (the user, or the composer for an outbox input) lets it go.
HeldWaitsForUser ==
  [][\A t \in held : status[t] = "queued" => status'[t] # "running"]_vars

\* A turn whose entry the user's Stop removed is never continued.
ForgottenStaysStopped ==
  [][\A c \in Turns : origin[c] = NoTurn /\ origin'[c] # NoTurn
       => userStop[origin'[c]] # "forgotten"]_vars

\* A prompt in the queue is closed unrun only by its user (a Stop, a discard, an
\* archive), by a start that failed, or by a shutdown that hands nothing over:
\* never by a restart handoff, and never by a crash.
AcceptedPromptSurvives ==
  [][\A t \in Turns :
       /\ kind[t] \in {"prompt", "outbox"} /\ status[t] = "queued"
       /\ status'[t] \in Closed
       => \/ userStop'[t] # "no" \/ t \in held \/ Home[t] \in archived
          \/ phase[Home[t]] = "unstarted"
          \/ core = "draining" /\ ~handing]_vars

\* Over all restarts, the rows are the ledger TurnLedger promises.
Ledger == INSTANCE TurnLedger WITH
  stage <- [t \in Turns |-> IF status[t] \in Closed THEN "closed" ELSE status[t]]

ImplementsLedger == Ledger!Spec

(* Liveness, under FairSpec.                                               *)

\* A Stop the runner accepted ends the turn, whatever its agent does.
StopEndsTurn ==
  \A t \in Turns : userStop[t] \in {"asked", "forgotten"} /\ status[t] = "running"
                     ~> status[t] \in Closed \/ Stopping \/ core = "down"

\* A restart handoff never waits for ever.
HandoffReachesExit == core = "handoff" ~> core = "down"

(* What a comment, a test or a doc says, and the code does not do.         *)

\* handoff.ts:102: `The user stopped the thread himself: that turn is his to send again.'
UserStopIsFinal ==
  \A c \in Turns : origin[c] # NoTurn => userStop[origin[c]] \notin {"asked", "forgotten"}

\* lifecycle.ts:10: `queued' while a turn waits in the scheduler.
QueuedIsScheduled ==
  FreeUp /\ resumed => \A th \in Threads : rest[th] = "queued" =>
    \E t \in queue \union Occupied : Home[t] = th

\* scheduler.test.ts:79: `archiving a queued thread stops its turn'.
ArchivedNeverStarts ==
  [][\A t \in Turns : status[t] = "queued" /\ status'[t] = "running"
       => Home[t] \notin archived]_vars

\* handoff.ts:50: `Running turns still to end before this core may exit.'
PendingStillRuns == core = "handoff" => \A t \in pending : status[t] \notin Closed
=============================================================================
