# boite in TLA+

A verification development of the core of boite: the process that runs
agent conversations, keeps them in a journal, and survives crashes, updates and
restarts. It holds TLA+ modules translated from the source, TLC configurations
that model-check them on small instances, and theorems about them whose proofs
TLAPS checks.

All paths below are under `src/packages/core/src/` unless they start with
`docs/` (`src/docs/`).

- [How to run it](#how-to-run-it)
- [The system](#the-system)
- [The modules](#the-modules)
- [The runs](#the-runs)
- [Bounds](#bounds)
- [Fairness](#fairness)
- [What is proved](#what-is-proved)
- [What is only model-checked](#what-is-only-model-checked)
- [Where the code and its documents disagree](#where-the-code-and-its-documents-disagree)
- [What is not modelled](#what-is-not-modelled)
- [Plan](#plan)

## How to run it

The runs of `PROJECT.json`:

    tlc -config Lifecycle.cfg     MCTurnLifecycle     # also RestartChain, TwoThreads
    tlc -config Attempts.cfg      TurnAttempts
    tlc -config Updates.cfg       AgentUpdates
    tlc -config Resumes.cfg       PlannedResumes
    tlc -config Outbox.cfg        MCComposerOutbox
    tlc -config LiveInput.cfg     LiveInput
    tlc -config AgentLetters.cfg  AgentLetters
    tlc -config Workflows.cfg     MCWorkflowRuns
    tlc -config GroupRoster.cfg   GroupRoster
    tlc -config ServerRestore.cfg ServerRestore

and two kinds that are run by hand beside them: `FileLock.cfg` of `FileLock`, which
passes, and each configuration of [Where the code and its documents
disagree](#where-the-code-and-its-documents-disagree), which fails.

    tlapm TurnLifecycle_proofs.tla
    tlapm Prompts_proofs.tla
    tlapm Updates_proofs.tla
    tlapm PlannedResumes_proofs.tla
    tlapm LiveInput_proofs.tla
    tlapm AgentLetters_proofs.tla
    tlapm WorkflowRuns_proofs.tla
    tlapm GroupRoster_proofs.tla

`PROJECT.json` lists the components, the runs with the properties they check,
a mutant of the model that breaks each property, the lines each definition
stands for, the hazards and the theorems.

## The system

boite is a client/server program. The *core* (TypeScript on Bun) owns
conversations (*threads*), runs agent programs for them, and stores everything
in a SQLite journal. Clients (desktop shell, web, Android) hold a WebSocket to
it. The core is one event loop: what makes it hard is not threads of execution
but *awaits*. Between two of them a user stops a turn, an account moves, the
core begins to hand over to its successor, or the process dies.

A **turn** is one prompt and the agent's work on it. Its path:

    startTurn        scheduler         TurnRunner           TurnAttempts          settlement
    (threads.ts) --> (scheduler.ts) -> (turn-runner.ts) --> (turn-attempts.ts) -> (turn-settlement.ts)
      commit: row      one slot per      prepares, runs       attempts of the       commit: row
      `queued'         thread                                 agent, one by one     closed
                                                                  ^
    recovery.ts, handoff.ts: the row over a restart               | pause
                                                       HarnessUpdates (providers/updates.ts)

### Components with the core logic

For each: its state, its operations, whom it talks to, what is hard about it,
and what makes it correct.

**Turn lifecycle** (`scheduler.ts`, `threads/turn-runner.ts`,
`threads/turn-settlement.ts`, `threads/lifecycle.ts`, `threads/recovery.ts`,
`threads/handoff.ts`; `startTurn`, `stopTurn`, `archive` of `threads.ts`; the
shutdown of `core.ts`). *State*: in the journal, the turn rows (status,
execution, hold), the thread rows (status, archived), the `restart-handoff`
setting and the requests that name a continuation; in memory, the scheduler's
queue, holds and slots, the runner's handles, the handoff's pending turns.
*Operations*: admit, enqueue, pump, start, attach, settle, finalize, stop,
archive, recover or discard a held prompt, begin and end a handoff, drain, exit;
at the start, close or hold what the last core left, listen, resume.
*Hard*: two journals of truth (row and memory) that a crash separates at any
commit; the slot of a thread outlives its turn's row, since moves and spawns are
awaited in between; a handoff overlaps Stops and settlements; recovery runs in
two parts with requests admitted between them.
*Correct when*: a thread has one open turn at most; the stored status is the one
its rows give; a running row has a runner; a queued row has somebody who will
start it; a prompt is lost to nothing but its user; a cut turn is continued
exactly once; a Stop is final.

**Attempt loop** (`threads/turn-attempts.ts`, `threads/live-permissions.ts`).
*State*: the handle, `#stopRequested`, the two retry marks, the stop deadline,
`#pauseWanted`/`#pausing`, the mode and its setter's queue. *Operations*: begin,
end in seven ways, wait, pause, stop, force, change of mode. *Hard*: five reasons
to stop a live agent share one handle and one deadline; each of the loop's awaits
can be met by each of the others; agents ignore stops. *Correct when*: Stop
decides the outcome and ends the turn; stops the core sends for its own reasons
are never seen by the user; the agent works in the mode the user picked.

**Agent updates** (`providers/updates.ts`, `providers/update-background.ts`,
`threads/focus.ts`). *State*: a drain per provider with phase, force, two timers
and a promise; the entry shown to clients; the warm processes. *Operations*: ask,
force, advance, postpone, release, run, settle. *Hard*: it waits for the turns,
turns wait for it, and a tool call of a third turn may wait for a paused one; it
is told of ends by events and looks on the next tick. *Correct when*: the program
is replaced only while no process of it runs; every paused turn goes on; an
update neither waits for nothing nor for ever.

**Deferred answers, cards, steering** (`threads/deferred.ts`, `threads/cards.ts`,
`threads/user-steering.ts`, `threads/stopped-input.ts`). *State*: answers
kept as settings per thread, receipts of steered messages
(`steer:pending`/`steer:accepted` in `turn_requests`). *Operations*: answer,
defer, steer into a running turn, take with the next turn, flush at its end.
*Hard*: an answer is in two places while a driver may or may not have accepted
it, four paths race for it, a steer's outcome may come after its turn ended and
another began, and the next prompt repeats the user messages of stopped turns, answers
among them. *Correct when*: each answer is delivered once unless the call that
carried it failed, and repeated only until a prompt got done; none is lost, and none waits
for a turn that nobody will open.

**Composer outbox** (`composer.ts`). *State*: records replicated with clients
under versions, the queued prompts in them. *Operations*: put, pump, reserve,
launch, complete, hold. *Hard*: two devices edit the queue while the core empties it; a lost answer is asked
again; what reached an agent is told by two journals, read again by the next core.
*Correct when*: a queued prompt reaches an agent once, whatever is put again; none is
lost by a merge; one that was dropped stays out; the queue never waits for a missed
wake.

**Automatic continuation** (`threads/auto-continue.ts`, `threads/resume.ts`,
`threads/limit-resume.ts`, keepalive, compaction). *State*: planned resumes in
the journal with timers. *Operations*: plan, fire, claim, cancel. *Hard*: a timer
that fires makes three commits, between which the core may die; the planner of limits
and that of crashes look at the same turn, and the handoff at both. *Correct when*:
a turn is continued by one of recovery, handoff and plans, never after a Stop, and no
plan waits for a timer nobody set.

**Moves and accounts** (`threads/move.ts`, `threads/account-fallback.ts`).
*State*: a waiting move per thread. *Operations*: request, apply at a turn's end,
cancel. *Correct when*: a queued turn follows its thread.

**Coordination** (`coordination.ts`, `coordination-peer.ts`). *State*: letters,
in and out, with statuses, per thread and per peer core. *Operations*: send,
receive, wake, wait, retry, expire. *Hard*: delivery between cores is at least
once; four ways lead to the agent; each may be cut off by a death between its claim and
its outcome. *Correct when*: what an agent asks to send is read at most once; nothing
crosses a pause or an expiry; a letter that may be read is not forgotten; the sender
learns what became of it.

**Workflows** (`workflows.ts`, `workflows/`). *State*: runs in the journal, with the
status of each step and of each of its executions; the threads of the steps and their
turns. *Operations*: start, advance, open, launch, settle, adopt a turn, correct an
answer, pause, resume, retry, stop, hand the summary over, resume after a restart.
*Hard*: the run is moved by events of other components' turns, which owners start, stop
and prompt for themselves; each of a dozen ends owes it an advance; two pauses (the
run's, the team's) and a handoff hold it at different places. *Correct when*: a step that
reads running has something that will answer; a stop reaches all the run has out; the
result gets to the conversation; no run is left with nothing that moves it.

**Delegation** (`delegation.ts`, `delegation/`). *State*: members, budgets and mail of a
team. *Operations*: spawn, send, deliver, submit. *Correct when*: a child's end wakes its
parent once.

**Group of cores** (`group.ts`, `group/roster.ts`). *State*: a roster of
machines and devices with epochs and revisions. *Operations*: publish, merge,
admit, remove, leave. *Hard*: every member changes its own copy; a removal and an
admission cross; the removed machine is told only by those that removed it. *Correct
when*: a removed machine stays out until it is admitted anew, nobody writes itself in,
and every removal is learned in the end.

**Journal and stream buffer** (`journal.ts`, `journal/stream-buffer.ts`).
*State*: tables; open messages with their unwritten parts. *Operations*: append,
flush, persist, close. *Correct when*: what a reader of the rows sees never lags
beyond its bound, nor loses a part already shown.

**Protocol** (`ws-client.ts`, `server/frame-queue.ts`, `server/connection.ts`).
*State*: pending requests, queue of frames with a limit. *Operations*: send,
coalesce, drop, reconnect. *Correct when*: a client that stays sees the last
state of everything.

**Server update, data-directory lock** (`server-update.ts`, `server-update/`,
`data-lock.ts`). *State*: staged files and a journal of the switch; a lock file
with pid, time and start key. *Correct when*: one version is runnable after a
crash at any step; the previous version never opens data the new one migrated; the
data of before can be put back as long as a rollback is on record; two cores never hold
a directory, nor one that moves under them. *Hard*: a rename, a flush and a start of
the service manager are steps another process, or a power cut, comes between.

The components without a protocol of their own (drivers, providers and their
installs, process registry, accounts, plugins, terminals, browser, worktrees,
pull requests, secrets, pairing, speech, telemetry, command-line tools, user
interface, shells, Android) are in `PROJECT.json`, each with the reason it is
left out.

## The modules

| Module | What it models | Proofs |
| --- | --- | --- |
| `TurnLedger` | what the turns table promises, whoever writes it | |
| `TurnLifecycle` | the turns of all threads over any number of cores | `TurnLifecycle_proofs` |
| `MCTurnLifecycle` | its small instances | |
| `TurnRun` | what `TurnLifecycle` takes for granted of the runner of one turn | |
| `TurnAttempts` | the attempt loop of one turn | `Prompts_proofs` |
| `AgentUpdates` | the update of one provider's program under its turns | `Updates_proofs` |
| `PlannedResumes` | the resumes the core plans by itself for one conversation | `PlannedResumes_proofs` |
| `ComposerOutbox` | the queue of prompts of one conversation, on its devices and in the core | `Prompts_proofs` |
| `MCComposerOutbox` | its small instances | |
| `LiveInput` | answers and notices on their four ways to a running agent | `LiveInput_proofs` |
| `AgentLetters` | letters between two agents on two machines | `AgentLetters_proofs` |
| `WorkflowRuns` | one workflow run, its steps' turns and the conversation it reports to | `WorkflowRuns_proofs` |
| `MCWorkflowRuns` | its small instance | |
| `Rosters` | the roster of a group as a value: merge, removal, who is known | `GroupRoster_proofs` |
| `GroupRoster` | the machines of a group that exchange their rosters | `GroupRoster_proofs` |
| `ServerRestore` | a server update's rollback, and the cores that start meanwhile | `Updates_proofs` |
| `DataLock` | one core per data directory, as one atomic step | |
| `FileLock` | the same over a file, `flock` and a PID record, one system call a step | `Updates_proofs` |

How they compose:

- `TurnLifecycle` implements `TurnLedger` by the mapping `Ledger`: a row's
  status, with the three closed ones taken together.
- `TurnLifecycle` abstracts the work of a turn to phases `preparing`, `attempt`,
  `closing`. `TurnRun` states that abstraction on its own, and `TurnAttempts`
  implements it by the mapping `Run`, for turns that run without a shared-access
  capability. The other turns are excluded for a reason: see *stop_untold* below.
- `AgentUpdates` and `TurnAttempts` are two sides of one pause. `TurnAttempts`
  has everything that may happen to the paused turn and takes the update as an
  environment (`update` moves through pause, idle, run, none in any order the
  updater allows). `AgentUpdates` has several turns, each with only the states a
  pause tells apart, and everything that happens to the update.
- `PlannedResumes`, `ComposerOutbox`, `LiveInput` and `AgentLetters` each take one
  client of the turn: what opens one, or speaks into one. Each has the turn of
  `TurnLifecycle` cut down to the points its component looks at (queued, running,
  the row closed, the slot free), and everything its component does around them.
- `WorkflowRuns` takes many turns at once, each cut down to queued and running, and the
  core's life to what a run sees of it: it serves, hands over, is gone, is back and
  recovers, listens. That recovery closes every open row, and that a handoff drops what
  is queued, is what `TurnLifecycle` has in detail.
- `GroupRoster` is the exchange over `Rosters`, which holds the merge and its rules as
  operators.
- `FileLock` implements `DataLock` by the mapping `holders <- Holders`. `ServerRestore`
  counts on it: its cores take the lock of a directory in one step, by inode, as
  `FileLock` shows they may.

### TurnLifecycle

Variables in three groups, as in the code:

| Group | Variables | Code |
| --- | --- | --- |
| journal, survives a crash | `status`, `kind`, `held`, `rest`, `archived`, `rec`, `origin` | turn rows (status, execution, queueHold), thread rows, the `restart-handoff` setting, `turn_requests` of continuations |
| memory of the core | `core`, `handing`, `resumed`, `queue`, `queueHold`, `running`, `phase`, `result`, `stopReq`, `gated`, `pending`, `asked` | `Core.stopping`, `Scheduler.#queue`, `#running`, the runner's handles, `#stopRequested`, `Handoff.#pending` |
| control of synchronous loops | `pump`, `todo` | the scheduler's walk over its queue; recovery's and resume's walks over rows |

and one history variable, `userStop`: what the user's Stop or archive reached.

An action is what runs between two awaits. Where two journal commits lie in one
such stretch it is split, since a crash may fall between them. The scheduler's
pump is a loop without awaits over a queue it changes: `pump` holds the entries
it has yet to look at, and while it is not empty no action but the loop's own,
or `Crash`, is enabled. So the order in which entries are visited is
arbitrary, which is more than the code does, and nothing else is interleaved.

The core's life is `core`: `recovering -> up -> resuming -> up -> handoff |
stopping -> draining -> drained -> down -> recovering`. `Boot(fresh)` starts the
next core, with a `restart-handoff` record that is fresh enough to be used, or not.

### TurnAttempts

One call of `TurnAttempts.run`. `at` is the await the loop is in: `opening` (the
preparation before it), `live` (an attempt), `gap` (the capability is being
renewed between two attempts), `waiting` (for capacity), `paused` (for an
update), `closed`. The end of an attempt and the start of the next are one
action, `AttemptEnds(r)`, where only microtasks lie between; its disjuncts are
the branches of the loop in the order the code tests them, each guarded by
the negation of the ones before. `setter` and `protected` are drawn in `Init`
from the constants `Setters` and `Protections`: whether the driver can change the
mode of a live agent, and whether the thread runs under a capability.

Two places where the model is coarser than the code: in the opening, a mode
change before the first renewal makes no second renewal in the code and may make
one here; and the retry delay of the capacity wait is any time at all.

The turn ends, so `Next` has the stuttering action `Over`, enabled once the turn
is closed. With it the deadlock check stays on, and finds a loop that is stuck
anywhere else.

### AgentUpdates

The threads of one provider; `turn` keeps of an attempt only what a pause depends
on. `Advance` is `#advance`, as part of each step that calls it. A drain is
numbered by the order of asking; `cur` is the one in `#drains`; `phase`, `forced`,
`limit`, `bound` and `updater` are fields of drains, so that a superseded drain and
its updater live on, as they do in the code. `adv` is the timer of `#advanceAll`:
an end of a turn or of background work sets it, and the update looks on the next
tick. A promise that resolves is followed by microtasks only, so the turns it lets
go on do so in the action that resolves it, after the code that ran on
synchronously: `Advance` takes them as `went`.

### PlannedResumes

`entry` is the thread's row in the `resumes` setting, with the plan in it; `timer` the
plan's timer, which a crash forgets and the next core's start arms anew. A firing timer
writes the journal three times in one synchronous call (the plan is marked, the turn is
admitted, the row is settled): `FireStep` is one write each, `firing` says how far it
came, and only a death falls between. `after` is the turn whose end is committed and whose
runner has yet to finish: in that gap the planner reads the end, another turn cannot
start, and the core may die. A handoff is here as far as it meets plans: what it
records, in `rec`, and what `resume` makes of it, entry by entry.

### ComposerOutbox

The two halves of one protocol. A device's `local` copy is what it shows, `known` what it
last heard; a save is one compare-and-set by the core, and the answer may be lost.
`pc` is where the core's pump stands between its awaits: looking, asking an agent's
models, starting, waiting for the driver's answer to a steer. A death at any of them
leaves what the two journals say, `delivery` and `receipt`, and `StartUp` reads them
again. A revision is only compared for equality, so it is a flag: the copy is current,
or it is not.

`gone` follows a removal: the user took the input off a device, then the core kept a put
that no longer holds it (`dropped`). `Without` is the code's `filter`, written out as a
recursive function, which the prover can unfold where it knows nothing of `SelectSeq`.

### LiveInput

`steer` is the one steer that is out (`runner.steering`), `flush` the loop that empties
the held answers and notices, `after` the work behind a turn's end; the turn has a native
handle or none, and the handle may be in doubt after a call that failed. `told` and
`noted` count how often a text was delivered to the agent and entered the transcript.

The next prompt of the user also repeats the messages of stopped turns
(`threads/stopped-input.ts`), and an answer recorded in such a turn, or under a queued
one that was stopped, is one of them. `script` is the transcript as that walk reads it:
the answers in the messages of the open prompt (`own`), those of stopped turns in front of
them (`earlier`), and those recorded after them for an earlier stopped turn, by a steer
that came back late (`later`); a turn that gets done cuts the walk (`Closed`,
`SteeredMessage`). What a prompt finds is its `repeats`, and `settled` remembers what was
recorded under, or repeated to, a prompt that got done. An answer held by a queued turn that
is stopped is therefore told by the next prompt, which also repeats the message: the docs
want the repeat (`docs/context.md`, "even if Stop landed while queued"), so `OnceEach`
counts deliveries and, of repeats, states when they are over.

### AgentLetters

One letter has two copies, `out` and `in`. The sender's is a repetition of the
recipient's, fetched by exchanges that may be lost, doubled or late; the recipient's is
moved by its four ways to the agent: the output of a command that waits, a tool
boundary, a steer, a turn of its own. The core's texts of an uncertain letter (`Queued
for provider delivery`, `Awaiting provider turn`, ...) decide what may still be done with
it, so each is a status here, with `adrift` for the ones whose carrier is gone.

### WorkflowRuns

`run` is the record as SQLite has it: the status, `node` and `st` (the status of each step
and each execution), `why` (the reason an execution was held back or cut), `made` (it has a
thread), `fix` and `tried` (a correction waits; one was made), `told` (failures the
conversation knows of), `delivered` and `held` (the summary). `turn`, `own`, `rest` are
what the threads of the steps do: an open turn, an open turn that is its user's and not the
run's, background work a checkpoint waits on. `root` is the conversation's turn.

`#advance` is one synchronous function, so nothing but a death comes between its parts;
`stage` says which is next: `step` (what the run's status allows), `open` (steps whose
dependencies ended, one by one, since a skip opens more), `launch` (one execution
at a time, in order), `settle` (the run's own end), `handed` and `told` (the
conversation's turn is open and the record is yet to say so). `stopping` lies between the
two writes of `#stop`. All other actions need `Quiet`. A launch that is saved and its turn
are one action, as is a row that closes and the handler of its event: the code has
both in one synchronous stretch, and a death between them is not told from one after. A
kill is taken where it makes a difference: between loops, between launches, and
after a message to the conversation, which a death then sends twice.

`Closes` is the end of a turn with all the run makes of it: done, failed, stopped, cut by a
handoff, or answered in the wrong shape and corrected once. `TurnStarts` has the run take
a turn its owner started. `Boot` is the constructor, `Recover` the closing of rows the
last core left (its events reach the run before the server listens), `ServerUp` is
`resumeAfterRestart`. `timers` holds what waits on a 0 ms timer or on a worktree that
settles; `asks` that a control has yet to ask the steps whose background work completed.

`Deliver` and `Tell` may be refused for any reason `startTurn` has: the team's pause and the
stopping core (`RootRefused`), or one of the conversation's own (`refuse`: its account, its
provider, its checkout, a budget), after which nothing is set: the next turn of the
conversation, or the team's next resume, looks again. A kill may fall between the two writes of
`#stop` as between any others.

Three variables are history, and only properties read them. `lapsed`: a summary an
earlier core did not hand over waits for the next turn of the conversation. `refused`: the
last try to hand it over met a reason of the conversation's own, and it has had no turn
since. `torn`: executions that rested between turns when the core died inside `#stop`,
and still read running; it shrinks as they get a turn that ends, or another stop.

### Rosters and GroupRoster

`Rosters` has the value alone: an entry per machine with epoch, signer, revision, a mark of
removal; `Merge`, `Known` (who is reachable by signatures from the founder) and
`Readable`, translated from `group/roster.ts`. `GroupRoster` has the machines: each changes its
copy, offers it in rounds, merges what it receives, keeps the result if it is readable,
answers with what it then holds, and forgets the group when it finds itself removed. The
rounds of `mergeCores`, which let machines in that were signed for by machines let in before,
are `Rounds`; the code also looks at those it took earlier in the same round, which ends
in the same set.

### ServerRestore

`names` says which directory each path names and where the two installations lie, `kept`
which namings a power cut may leave; `mark` is the mark in the restored copy. A filesystem
keeps its renames in order: a flush of a directory makes those before it durable, and a cut
keeps any prefix of the rest. The backup may lie on another filesystem than the data
(`across`), and then any prefix of the one goes with any of the other (`Newly`, `Hard`).
The code flushes the record, the mark and the swap, and so does `Durably`; it flushes
neither the copy of the data, nor its name `data`, nor the installations
(`apply.ts:233-238`), which are plain `Name`s here: a cut can lose the name of the
snapshot and any part of the moves of the installations, and can tear the contents of the
copy. `taken` remembers which of the three a cut took. A filesystem whose directories
cannot be flushed passes for one that was (`restore.ts:79`; `flushes` is FALSE): there
`Flush` and `Durably` make nothing durable, and after a cut the behaviour is followed no
further (`Adrift`), since `docs/server.md:282` promises nothing then.
A directory keeps its identity under every name. Processes are the job (worker or, once
that died, the recovery), the service's core and cores started by hand; each takes one
system call at a time between which the others act. The names of its specification begin
with `Server` (`ServerSpec`), since it is proved about beside `AgentUpdates`.

### FileLock and DataLock

`path` is the inode `core.lock` names, `flock` who has the kernel lock of an inode,
`named` the process its record names. A restorer closes its handle and leaves the record
(`kept`), so that a directory is protected by a lock of one kind or the other.

## The runs

Runs that pass:

| Run | Question |
| --- | --- |
| `lifecycle` | One thread, two turns of every kind, archive, account gate, crashes and handoffs anywhere. Do the rows, the stored status, the queue, the slots and the runners stay in step (`StatusFollowsTurns`, `RunningHasRunner`, `NoMissedPump`, `QueuedHasCarrier`), and does an accepted prompt survive what is not its user's doing (`AcceptedPromptSurvives`)? |
| `restart_chain` | Three turns on one thread, so that a cut turn, its continuation and one more meet a chain of cores that die while they resume. Is the cut turn continued once (`OneContinuation`), and is the whole a ledger (`ImplementsLedger`)? |
| `two_threads` | Two threads, with a background turn, under fairness. Does the record of a handoff hold every turn it must carry, at every moment of the wait (`HandoffCarries`), and does a handoff reach the exit (`HandoffReachesExit`)? |
| `attempts` | One turn, with and without a live setter, with and without a capability: does a Stop decide (`StopDecides`) and end it (`StopEndsRun`); does the mode follow the user (`ModeFollows`); is the loop the runner `TurnLifecycle` takes for granted (`ImplementsRun`)? |
| `updates` | Two threads, two updates, by hand and automatic, the second also over an unsettled first, with both limits, a thread that moves away and one that is looked at: does the update wait only for what exists (`NoMissedAdvance`), and does each paused turn go on (`PausedGoesOn`, `NoneLeftPaused`)? |
| `resumes` | One conversation over two cores, with limits, errors, lost background work, pings, a handoff, and a death after any write. Is a turn resumed once, by plan or handoff (`ResumedOnce`), does what was cancelled stay so (`CancelledStaysCancelled`), and is every plan acted on or dropped (`PlanResolves`)? |
| `outbox` | Two devices with an input each, one sent directly first. Does an input reach an agent at most once (`HandedOnce`), is none lost in a merge (`NothingIsLost`), does no queue that may go sleep (`QueueMoves`)? |
| `input` | Two answers and a notice over three turns, with one failed call, foreign steer, new attempt, wake, rewind, archiving or death. Is each delivered and shown once, and repeated only until a prompt got done (`OnceEach`), is none lost, even if its turn is stopped before it starts (`NoneLost`), does an answer held at a turn's end go out (`AnswersMove`)? |
| `letters` | One request, possibly given twice, with any two of: new settings on either side, a stop, a user's message, a declined steer, a wake that cannot start, a death of either core. Is it read at most once (`ReadOnce`), does none cross late or against a pause (`HeldBack`), is none forgotten (`NoneForgotten`), and does its sender hear of it (`FateTold`)? |
| `workflows` | A run of two steps, the first a fan-out of two in worktrees, the second of a shape that may be corrected, over three cores and any three of: pauses of run and team, a stop, a retry, a stop of one step or a prompt to it, a turn of the conversation, a checkpoint, a launch or a summary that is refused, a handoff, a crash, inside a stop too. Does a running step have something that answers (`StepWorks`), is the result on its way to the conversation or held back on record (`ResultsCarried`), does a stop reach every turn (`StopReaches`), and is the run never left with nothing that moves it (`RunEnds`)? |
| `group` | Three machines, one of them possibly removed unknown to the rest, and any two things owners or the network do. Does a removal stand (`RemovalStands`), does nobody write itself in (`Grounded`), and is every removal learned in the end (`RemovalsSettle`)? |
| `server_restore` | One update to its end or its rollback, with a core started by hand and any two of: a power cut, a kill, a failed move, a start by the owner. Does no core run beside another or on a directory that moves (`RunsInPlace`), can the previous data be put back while the rollback is on record (`Restorable`), does the previous version open only its own data (`OldOpensOld`), and does the service come back (`ServiceReturns`)? |

`FileLock.cfg` (three processes and three inodes, 1.3 million states) checks what
`Updates_proofs` proves of it, its invariant `IInv` included, and is run by hand.

Each module has a type invariant (`TypeOK`; `ServerTypeOK`, `QueueTypeOK`; that of
`WorkflowRuns` stands beside its proofs), which is a theorem where the module is proved
about. Defined, true, and not in the listed runs, some
since a theorem or a stronger property covers them: `NoAttemptAfterStop`, `OwnStopsHidden`,
`ModeTakesHold` (`TurnAttempts`); `ReleasedFirst`, `BackgroundKept`, `BackgroundIsBounded`,
`NoneJoinsUpdater` (`AgentUpdates`); `HeldWaitsForUser`, `StopEndsTurn`,
`ForgottenStaysStopped` (`TurnLifecycle`); `PurposeStays`, `RowIsBounded`
(`PlannedResumes`); `DroppedStaysOut`, `ReviewedFirst`
(`ComposerOutbox`); `NoticeKept` (`LiveInput`);
`DeliveredRead` (`AgentLetters`); `HoldsItself` (`GroupRoster`). Each holds on the
instance of its module's run.

`CHECK_DEADLOCK FALSE` is set where the system really stops: a bounded set of turns,
events or cores is used up, and what remains is idle. The runs of `TurnAttempts` and
`AgentUpdates` keep the check on.

Some properties are stated with the exceptions the code has, and the exceptions
are what the configurations of the table of disagreements show: `QueuedHasCarrier`
excepts rows a Stop met before `handoff.resume` (`StoppedResumes.cfg`, 3rd), `StopEndsRun` turns
with a capability (`StopUntold.cfg`), `NoneJoinsUpdater` the turns a postponed update lets
go (`UpdaterMeetsTurn.cfg`), `NoneLeftPaused` and `PausedGoesOn` turns whose update was
replaced before it had settled (`OrphanedPause.cfg`),
`HandedOnce` inputs another was put ahead of while they were handed over
(`Overtaken.cfg`), `OnceEach` texts whose call failed (`AnswerStranded.cfg`), `AnswersMove`
steers of others that outlive their turn (`AnswerStranded.cfg`), `NoneForgotten` threads
a prompt held by a restart keeps (`LetterAsleep.cfg`), `RemovalsSettle` members that
cannot keep the merge (`GroupRefused.cfg`), `OldOpensOld` a start by the owner inside the
rollback and a cut that takes the unflushed update of the installation back, `Restorable` a
cut that takes the unflushed name of the snapshot, `ServiceReturns` a cut that leaves no
installation or takes name or contents of the snapshot (all `BootWithoutRoot.cfg`), the
latter two also any cut on a filesystem that cannot flush a directory, `StepWorks`
and `RunEnds` steps between turns that a kill inside a stop left running (`torn`;
`WorkflowGrace.cfg`, 4th), `ResultsCarried` a summary the conversation refused, until its
next turn, and one an earlier core left (neither has anything that looks again before).

## Bounds

| Constant | Value | Why it is enough |
| --- | --- | --- |
| `Threads`, `Turns`, `Home` | 1 thread with 2 or 3 turns, 2 threads with 1 each | A thread's rules involve its open turn, the one before (whose slot may still be taken) and, for a chain of restarts, the continuation: three. Threads meet only in the scheduler's walk, `todo`, and the handoff's pending set: two are enough to have one done and one not. |
| `Kinds` | all, or `{prompt, background}`, or `{prompt}` | every kind whose rules differ is in `lifecycle`; the longer runs use those that matter to their question. `resume` is admitted by handoffs, never by users. |
| crashes, restarts, handoffs | unbounded | the state space is finite without a bound on them. |
| `Modes` | 2, `MaxChanges` 2 | away from a mode and back while the first change is on its way is the shortest history in which the order of changes matters. |
| `Tries` | 1 | both sides of the limit: a try is left, none is. The code has more; the guard is `tries < Tries`, and the theorems hold for every number. |
| `MaxUpdates` | 2 | one update and one asked for while the first settles. |
| threads of `AgentUpdates` | 2 | one that is paused and one that is not; a tool call of one that waits for the other. |
| `PlannedResumes` | `MaxStreak` 1, `MaxTurns` 3, `MaxWindow` 2, `MaxCores` 2, `MaxActs` 1 | both sides of the last delay; a cut turn, its resume and one that comes between; a window a plan waits for and the one after; a core that dies and one that stays. |
| `ComposerOutbox` | two devices, an input each, `MaxEvents` 1 | a merge needs two devices, an order two inputs. Every step of the pump is met by every kind of event; with one device and three events the safety properties, and the inductive invariant they are proved with, hold on 1.7 million states. |
| `LiveInput` | two answers, a notice, `MaxTurns` 3, `MaxEvents` 1 | an answer that is out, one held behind it, and a turn before, during and after. Three turns are what a repeat needs: the one that is stopped, the one it is repeated to, and the one it must not be repeated to again. With two events the invariants hold on 5.8 million states. |
| `AgentLetters` | one request, `MaxCalls` 2, `MaxEvents` 2 | a repeated call needs two; the letters meet only in being claimed together. With one call and three events the properties hold on 1.2 million states. `ReadOnce` and `HeldBack` are proved for all. |
| `WorkflowRuns` | 2 steps, 3 executions, `Limit` 2, `MaxActs` 3, `MaxCores` 3 | a step with two executions, so that one may fail, be held back or be retried beside the other, and a step that waits for it; both at the limit and below it; a handoff, a crash, and one disturbance between. With `MaxActs` 5 and the seven kinds of disturbance that matter to them (`rest`, `stop`, `retry`, `crash`, `sendstep`, `refuse`, `stopstep`) the three safety properties hold on 1.1 million states; all are proved for any bounds. |
| `GroupRoster` | 3 machines, 1 device, 2 events, one round of offers a machine | a change, a member that has heard and one that has not. With four machines and none removed at the start, 600 thousand states. |
| `ServerRestore` | 1 core by hand, `MaxEvents` 2, `Disks` `{"one", "two", "two deaf"}` | a disturbance, and one of the repair, on one filesystem, on two, and on two of which that of the data cannot flush; 870 thousand states. `"one deaf"` differs only after the cut, where nothing is said. All safety properties are proved for any bounds and all four. |

`Gateable = {}` in `two_threads`: a gate that is closed and opened for ever is the
user's doing and would starve a queued turn. `Limited`, `Movable`, `Viewable`
switch an environment on; `updates` has all of them.

## Fairness

Liveness is checked under `FairSpec` of each module, which assumes what the
event loop gives and nothing of agents and users:

- `TurnLifecycle`: the synchronous loops run to their end; the preparation of a
  turn ends (its processes are killed on a Stop); an attempt ends *if a Stop was
  asked of it*, because of the deadline that `TurnAttempts` models and `StopEndsRun`
  shows; a settlement commits, by its retries; a handoff's timers fire; the drain goes
  on. An attempt nobody stops may run for ever.
- `TurnAttempts`: the preparation of a turn ends, as its processes are killed by a
  Stop, and so does the renewal of a capability, which waits for no more than the exit
  of processes, five seconds at most (`procs.ts:648`); the two timers of `STOP_DEADLINE`
  fire; a setter's answer comes or its time limit passes (`SetterAnswers` has both
  outcomes, so the weak fairness may be met by refusals alone). No driver has to
  answer a stop, end an attempt, or take a mode.
- `AgentUpdates`: its tick and both limits fire, and an updater ends, each of its runs
  having a time limit. No turn has to reach a tool boundary, and none has to end.
- `PlannedResumes`: timers fire, a core that is down is started, the work behind a turn's
  end ends, a usage window passes, a core that is stopping dies, a cache ping ends. An
  agent's turn may run for ever.
- `ComposerOutbox`: the pump's own steps, the turns it started and the start of the next
  core. Devices owe nothing, and may stay away.
- `LiveInput`: the core's steps, the outcome of a call to the driver, and the end of a
  turn: held input cannot move while an agent works on and takes none.
- `AgentLetters`: the relay's tick and the recipient's own steps; `LinkHolds` says that
  exchanges of a letter are answered now and then, as long as there are any. A steer is
  answered, in one of its three ways.
- `WorkflowRuns`: the loop goes on; a queued turn that may start does, and background
  work ends in one of its three ways; a core's grace ends, what starts the next core does,
  it recovers and listens. That the turn of a step ends if it may is strong fairness, and
  an assumption on agents (`RunEnds` says that the *run* does not get lost, not that its
  agents finish): strong, since the run's own steps come in between, and a turn that rests
  and is woken is a new one. Lifting a pause and ending the conversation's turn are owed
  by nobody.
- `GroupRoster`: rounds of offers recur while a member has others, a leave is finished by
  its timer, and what is on the wire is handled or lost (losses are bounded).
- `ServerRestore`: the job goes on, the service manager starts what it wants running, each
  core's start goes on. Owners, hand-started cores and kills owe nothing.

All but three are weak fairness: the ends of a workflow's turns, as said, and `LinkHolds`
and the rounds, which are stated as what recurs, since the bounds of the instance would
disable what the code repeats for ever. For the weak ones: each of these actions stays enabled until it is taken or its reason is
gone, so no strong fairness is needed.

## What is proved

TLAPS checks the following for every value of the constants: any set of threads and
turns, of modes, any number of tries, updates and crashes. The only
assumptions are the ones the modules name (turns are natural numbers other than
`NoTurn`, each has a thread, flags are Booleans, bounds are natural numbers).

`TurnLifecycle_proofs`:

| Theorem | Statement |
| --- | --- |
| `TypeCorrect` | `Spec => []TypeOK` |
| `Inductive` | `Spec => []IInv` |
| `NeverTwoTurns` | `Spec => []OneOpenTurn` |
| `StatusCorrect` | `Spec => []StatusFollowsTurns` |
| `EveryRunServed` | `Spec => []RunningHasRunner` |
| `NoEntryForgotten` | `Spec => []NoMissedPump` |
| `ContinuedOnce` | `Spec => []OneContinuation` |
| `QueuedCarried` | `Spec => []QueuedHasCarrier` |
| `HandedOver` | `Spec => []HandoffCarries` |
| `PromptSurvives` | `Spec => AcceptedPromptSurvives` |
| `HeldNeverRuns` | `Spec => HeldWaitsForUser` |
| `ForgottenStays` | `Spec => ForgottenStaysStopped` |
| `LedgerRefined` | `Spec => ImplementsLedger` |

The stored status of a thread is written next to the row it follows, by deltas, and
is right only because the thread has one open turn: `StatusFollowsTurns` is not
inductive without `OneOpenTurn`, nor is that without `StatusFollowsTurns`, since
`startTurn` refuses a second turn by looking at the stored status, and the slot.
`IInv` is their conjunction with what ties memory to rows: `QueuedRows` (an entry
of the queue is a queued row no slot holds), `SlotRows` (a slot is taken exactly
while its runner is under way, by an admitted turn of that thread that is not
held), `Results` (a turn about to settle has its result) and `NothingRuns`
(while no core is up the slots are empty, and recovery still has each open row
to visit). The proof that a step preserves it goes once through the
actions to show that each is one of four kinds of step on the rows (`RowStep`:
accept, begin, end, none), which serves `OneOpenTurn`, `LedgerRefined` and
`HeldNeverRuns` together, and once more for what memory holds. `NoMissedPump`,
`RunningHasRunner` and `OneContinuation` need strengthenings of their own, on top of
`IInv`: `PumpOwed` (an entry the pump will not look at has a reason to wait),
`RunnersKnown` (recovery still has each row a dead core left running) and
`Continuations`.

What survives a handoff rests on one more, `Carried`. The event loop is accounted for
first (`LoopRows`: a core that hands over is past its pump and its resume); the record's
entries name admitted turns (`RecordRows`), and an archive met each open turn of its thread
(`ArchivedRows`). Then `HandoffRows` says that what runs *and* what waits is in the record
as long as the core hands over, and `CarrierRows`, from the boot of a core on, that a queued
row no Stop met is in the queue, about to be started, still before recovery, or what an
entry of the record will put back in line (`Brought`). `HandoffRows` excepts closed rows of threads that may be
archived: the archive takes the entry out of the record, and a thread brought
back while the core still waits is not put in again. `PromptSurvives` needs it where a
drain closes what waits: the drain of a handoff spares what the record keeps.

`ForgottenStays` says that a Stop which takes a turn's entry out of the record is final,
over any number of cores. What could bring the entry back is the next handoff, which records
the turns that hold a slot, a turn that is over and not yet finalized among them. `Forgotten`
rules it out in three parts: `FailedStarts` (a start that did not commit settles as an
error), `EntryRows` (what was continued stays stopped, and in a core that is up an entry
names no turn that holds a slot but one whose start failed: every other start took its
entries along) and `ForgottenRows` (a forgotten turn that is open is held, or
is on its way to the next core with nothing in the record to put it back in line, so that
the recovery holds or closes it; one that holds a slot ended by its agent, and is not
continued). The mark goes only with `turns.recover`, where the user himself sends the prompt
again. The invariant was checked first on the instance of `RestartChain.cfg` (404 thousand
states), where leaving the record alone (`ForgetNothing`) breaks the property.

`Prompts_proofs`, of `TurnAttempts`, for any modes, tries and numbers of mode changes and updates:

| Theorem | Statement |
| --- | --- |
| `TypeCorrect` | `Spec => []TypeOK` |
| `Inductive` | `Spec => []IInv` |
| `StopHonoured` | `Spec => []StopDecides` |
| `ModeFollowed` | `Spec => []ModeFollows` |
| `NoneAfterStop` | `Spec => NoAttemptAfterStop` |
| `OwnStopsSilent` | `Spec => OwnStopsHidden` |
| `RunRefined` | `Spec => ImplementsRun` |

`IInv` has four parts. `Decided`: an accepted Stop stays in `#stopRequested` until
the turn closes (`StopKept`), the two waits are never entered with a Stop pending
(`Places`), and `StopDecides`. `QueueEnds`: of the changes queued for the setter,
the *last* is the mode the user picked; `ModeFollows` alone is not inductive, since
the answer to an older change would leave the queue empty with the wrong mode.
`Reasons`: an agent told to stop was told so by the user, for a pause, or for another
mode, and the mark of that reason is still there; this is what `OwnStopsHidden`
rests on. `TypeOK`: the two lemmas on sequences need it. Both proofs classify
steps first: what going round the loop may do (`GoRoundPlaces`, `GoesOnPlaces`,
`LoopStarts`), then what each action is in those terms; `RunRefined` goes through
`RunnerStep`, the six things a step of the loop can be for a runner.

`Updates_proofs`, of `AgentUpdates`, for any threads, providers' turns and number of updates:

| Theorem | Statement |
| --- | --- |
| `TypeCorrect` | `Spec => []TypeOK` |
| `Inductive` | `Spec => []IInv` |
| `NoneForgotten` | `Spec => []NoMissedAdvance` |
| `NoneJoins` | `Spec => NoneJoinsUpdater` |
| `NoPauseOrphaned` | `Spec => []NoneLeftPaused` |

`IInv` adds to `TypeOK` that drains come into being one by one (`Fresh`), that an updater
that runs is the current drain's (`OneUpdater`), and what the phase of the current drain
tells (`PhaseTells`). Each step is one of four kinds (`StepKinds`): it leaves the drains
alone, it looks (`#advance`), an update is asked for, or an updater ends. A paused turn
waits on the update under way, or on one that another took the place of before it had
settled (the history variable `replaced`): the theorem says that this is the only way a
turn is left behind, and `OrphanedPause.cfg` that the way exists (`EachGoesOn`, which is
what `docs/agent-updates.md` says of every paused turn, fails there).

`AgentLetters_proofs`, for any requests, number of calls and disturbances:

| Theorem | Statement |
| --- | --- |
| `TypeCorrect` | `Spec => []TypeOK` |
| `Inductive` | `Spec => []IInv` |
| `OncePerRequest` | `Spec => []ReadOnce` |
| `DeliveredIsRead` | `Spec => []DeliveredRead` |
| `CrossingAllowed` | `Spec => HeldBack` |

`ReadOnce` has two halves. A request makes one letter, by the second look at the
letters that `send` takes after its awaits (`OneMade`); and a letter's status tells how
often it was shown (`Reads`), which needs that nobody hears of a letter that was not made
(`Sent`) and that the sender and its exchanges only repeat the recipient (`Tells`). The
proof goes through three frames: steps of the sender leave the recipient's copies alone
(`MailKeeps`), an arrival makes at most one, and the steps of the recipient move letters
along a small set of ways (`Moves`, `MovesKeep`). `CrossingAllowed` follows from the two
places that ask before they claim (`Crossing`, `Staying`).

`WorkflowRuns_proofs`, for any plan, limit, set of disturbances, and number of them and of
cores:

| Theorem | Statement |
| --- | --- |
| `TypeCorrect` | `Spec => []TypeOK` |
| `Inductive` | `Spec => []IInv` |
| `StopReachesAll` | `Spec => []StopReaches` |
| `RunningWorks` | `Spec => []StepWorks` |
| `ResultsCarriedAlways` | `Spec => []ResultsCarried` |

None of the properties is inductive. `StopReaches` looks at turns and `run.status`, while what
makes it true is the record of executions: every open turn is the user's, told to stop, left
to recovery, or its execution reads running (`Accounted`), and in a run that is over none
does but those a kill inside a stop left so (`OverIsOver`), which is what `torn`
counts (`TornWorks`: it counts none that reads anything else). `StepWorks` needs that background work belongs to an execution that reads
running and has no turn (`RestTells`), that such an execution has one or the other
(`Carried`), and that completed work nobody asks about waits for a pause or for a control
about to ask (`DueTells`, which follows the gap between a resume and its `AskWoken`). The
operators on the record come first, each with what it keeps (`SettledKeeps`, `AdoptedKeeps`,
`RetriedKeeps`, ...); then four frames serve most actions: `LoopKeeps` (a step of `#advance`),
`ClosesKeeps` (a turn ends), `WokenKeeps` (work is asked about), `IdleKeeps` (between turns).
`ResultsCarried` has a strengthening of its own, `ResultUnderWay`, which holds inside the
loop and before a core listens too, where the property says nothing.

`PlannedResumes_proofs`, for any bounds on turns, cores, windows and disturbances, any kinds
of turn and outcome, with handoffs and without:

| Theorem | Statement |
| --- | --- |
| `TypeCorrect` | `Spec => []TypeOK` |
| `Inductive` | `Spec => []IInv` |
| `Once` | `Spec => []ResumedOnce` |
| `CancelledStays` | `Spec => CancelledStaysCancelled` |
| `Deliberate` | `Spec => []PurposeStays` |
| `RowBounded` | `Spec => []RowIsBounded` |

A resume is sent by a plan or by the handoff, and either looks at something other than
the rows: a row of a setting, a mark, the end in hand, what recovery closed, the record
of the handoff. `Sound` says what each of these tells of the rows. The two senders keep out of each
other's way because the handoff continues only what was stopped, and a plan only what was
not (`Continuations`, `RecRows`, `PlanRows`). A plan is sent while its turn is the last
(`MarkRows`, which needs `EndRows` and `BootRows` for how a plan comes to be made), so that a resume
of it, which would come later, cannot be there yet; the handoff looks for a resume itself. And what was cancelled is
over, in no record, and planned by nobody while it is the last turn (`CancelRows`).
`RowsGrow` then says that a step adds one row at most, and only for a turn none
continues and nobody cancelled; both properties follow from it.

Two more invariants stand on `IInv`. `PurposeRows` says of a turn that a core stopped on
purpose left: nothing has it at hand, its row is closed by the next core at the latest,
and the note (`onPurpose`) lasts until that core has read it. `RowCounts` compares the row of
resumes as it happened with the one the journal counts, which a resume enters when it
settles: a resume that waits for its start is ahead of the first (`ToStart`), one that was
sent and not settled ahead of the second (`ToCount`), and the first row is never the longer
but for the resumes that a death kept from being counted (`past.lost`). The proofs found
what the run's two cores are too few to show, and what the code means to do. Work that a
later core's death cuts goes on under the latest turn, even one that a core stopped on
purpose left failed (`threads/auto-continue.ts:124`), so `PurposeStays` speaks of the time before such a death.
And a core that gives up on a resume the handoff kept in line ends its row while the
resume is still to come, which then is one more.

`GroupRoster_proofs`, for any machines, of which any finite set are members at the start,
any devices, any changes by owners, exchanges, losses and deaths:

| Theorem | Statement |
| --- | --- |
| `TypeCorrect` | `Spec => []TypeOK` |
| `Inductive` | `Spec => []IInv` |
| `HoldsItselfAlways` | `Spec => []HoldsItself` |
| `RemovalStandsAlways` | `Spec => RemovalStands` |
| `GroundedAlways` | `Spec => Grounded` |

Most of it is what a merge makes of two rosters, whatever they are. The rounds of
`mergeCores` are a recursive function: `RoundsAre` shows that it is what its definition says,
by least numbers (`Least`, `Agree`), `RoundsGrow` that a round keeps what the one before
took, and `AcceptedAre` that what is taken starts from what was counted: of any set of machines
let in, one that was taken in the earliest round was signed for by a machine outside the set. `MergeIs`,
`MergeStands` and `MergeVouches` follow. Then, for each change a member makes to its own
copy, that the copy follows from the one before (`Follows`): it is a roster, one the member
can hold (`Settled`), nothing in it went back (`Stands`), and who is new was vouched for
(`Vouches`). A step leaves each machine's copy kept, cleared, changed so, or entered
(`Moves`). `IInv` needs `Welcomes` beside `HoldsItself`: a machine that
comes in takes the roster of its host whole, without a merge, so what holds of
copies must hold of welcomes under way. Nothing but types is needed of the other messages: a
merge is kept only when it is `Readable` and the member is in it, and then the member
writes its own entry anew.

`LiveInput_proofs`, for any answers, notices, number of turns and events:

| Theorem | Statement |
| --- | --- |
| `TypeCorrect` | `Spec => []TypeOK` |
| `Inductive` | `Spec => []IInv` |
| `Once` | `Spec => []OnceEach` |
| `NothingLost` | `Spec => []NoneLost` |
| `NoticesKept` | `Spec => NoticeKept` |

An answer passes through five places that deliver it (asked, held, consumed by a prompt,
carried by a queued turn, steered), and stays held when a call fails. `Apart` says that
it is in one of them at most, and held once, but for a steer that is out; `Channel` that
the handle and the steer that is out belong to the turn that runs; `Fresh` that what is in one of
the places was not told, unless its call failed, and was not shown before it may be. These three
(`Waits`) count the deliveries. The repeats are the other half, `Recalls`: what of
the transcript nobody was told yet is on its way in the queued prompt or is what the open
prompt repeats (`Transcript`), and a steer of an answer that comes back after its prompt
got done cuts off nothing untold (`UserSteer`). Without them neither `NoneLost` nor the end of
the repeats in `OnceEach` is inductive. The removals from the held sequence are `RemoveFirst` in the
model, which the library's facts about sequences reach.

`Prompts_proofs`, of `ComposerOutbox`, for any devices, inputs, authors and number of
events:

| Theorem | Statement |
| --- | --- |
| `OutboxTypeCorrect` | `QueueSpec => []QueueTypeOK` |
| `OutboxInductive` | `QueueSpec => []OutboxInv` |
| `HandedOnceAlways` | `QueueSpec => []HandedOnce` |
| `NothingLostAlways` | `QueueSpec => []NothingIsLost` |
| `DroppedAlways` | `QueueSpec => DroppedStaysOut` |
| `ReviewedFirstAlways` | `QueueSpec => ReviewedFirst` |

`HandedOnce` looks at a count; what keeps it at one is spread over the copies, the record
and two journals. `Marked`: an input that reached an agent has a receipt of its start or a
delivery that is not `none`. So the pump must never go with one that is marked, and it looks
at the head only. That the inputs behind a head that may go are unmarked is `Goable`, the heart of
the argument: in a queue that is not paused, what stands before a marked input is marked
too, unless an input was put ahead of it while it was handed over (`overtaken`). It holds because
no device changes the order of what the core has: `Ordered` says that a copy lists
the inputs of the record it last saw in that record's order and puts nothing between two of
them, and every merge gives that again (`MergeReconciles`). A request sent from a device is
the other way to an agent: what it may have started, every copy shows as asked for (`Begun`,
`Late`), so that it goes alone, and is looked up first. `Placed` and `Submitting` say what
the pump holds at each of its awaits, and what a core that dies there leaves behind.
`NothingIsLost` rests on `Lacks`: what a copy lacks of the record it saw was removed, and
what the record lost since then was removed or handed over. `DroppedAlways` adds
`DropInv`: a dropped input stands only in copies of older records, and a merge
keeps nothing of the base that the core no longer has. `ReviewedFirstAlways` is what
`docs/machines.md` claims of an unconfirmed hand-over, for an input nothing was put ahead of:
it adds `Unconfirmed`, that the receipt of such an input stays pending, so that no request
still under way starts it.

The lemmas on queues come first: what `Without` leaves (`SiftedWhole`, by least numbers,
since no induction is at hand), what two queues joined, a prefix or a marked entry keep of
order, distinctness and requests. Then one lemma for each kind of step, each with the five parts of
`OutboxInv`.

`Updates_proofs`, of `FileLock`, which it instantiates as `Lock`, for any processes and
inodes:

| Theorem | Statement |
| --- | --- |
| `LockTypeCorrect` | `Lock!Spec => []Lock!TypeOK` |
| `LockInductive` | `Lock!Spec => []Lock!IInv` |
| `ExclusiveHolds` | `Lock!Spec => []Lock!Exclusive` |
| `LockImplements` | `Lock!Spec => Lock!ImplementsLock` |

The kernel lock excludes on an inode, the holders must be excluded on a path: the
invariant says that past the second look the path stays with its inode until the holder
deletes it (`PathStays`), that a record names who holds (`RecordTells`), and that a
record left by a restorer keeps everyone else out (`RecordGuards`).

`Updates_proofs`, of `ServerRestore`, for any cores started by hand and any number of
kills, faults, power cuts and starts by the owner:

| Theorem | Statement |
| --- | --- |
| `ServerTypeCorrect` | `ServerSpec => []ServerTypeOK` |
| `RunsInPlaceAlways` | `ServerSpec => []RunsInPlace` |
| `RestorableAlways` | `ServerSpec => []Restorable` |
| `OldOpensOldAlways` | `ServerSpec => []OldOpensOld` |

None of the three is near inductive: what protects a core that runs is spread over the
record, the maintenance lock, the lock of each directory and where every process is. The
invariant `SwitchInv` says it of each. The disk: where directories can be flushed, every
naming a power cut may leave is `Plausible`, and all agree whether a rollback is on record
and whether the copy is in place (`CutTells`); that is what `Seal` after `Flush` and the
durable writes are for. With a record there is something to restore from, or a cut took it
(`Held`): on one filesystem of every naming a cut may leave, on two of the present one, since
the record may outlive the name of the snapshot there. A cut on a filesystem that cannot be
flushed leads out of the invariant, to `Over`, where nothing takes a step; what is proved
is that `SwitchInv \/ Over` is inductive (`SwitchAlways`). A
directory is locked at its path only (`LockPlaces`), since the restorer moves what it holds
itself, behind a PID record. Of one process, `Process` tells how far its restore is
(`Restoring`), which locks it has (`Locks`), and for a start, that what it noted and locked
is what it will run on (`Opening`): a start that noted the copy sees the copy ever after,
and one that noted the old directory is found out by its second look, or kept from it by
the lock it holds. The argument is of rely and guarantee: `Frame` says what a step of one
process leaves true for the others, `Others` that their part of the invariant then stays,
and each action is shown to keep to it and to re-establish its own part.

`OldOpensOld` needs more (`VersionInv`): where the installations lie at each point of the
job, that a new or rejected one is never without a snapshot, a record or the copy in place
(`InstTells`), and that the service stays down while the job moves anything
(`ServiceTells`). A cut can leave any part of the moves of the installations: none of them
(the exception), all, or so many that the new version or no version stands at the path, and
then the old one never starts again (`NeverOld`). A start by the owner breaks
`ServiceTells`, and the theorem says no more then, as the table of disagreements shows.

## What is only model-checked

- `UncertainStaysHeld` of `ComposerOutbox`, which the code does not keep (see below);
  what it does keep, `ReviewedFirst`, is a theorem.
- Liveness under fairness, which needs `ENABLED`: `StopEndsTurn`, `HandoffReachesExit`,
  `StopEndsRun`, `ModeTakesHold`, `PausedGoesOn`, `BackgroundIsBounded`, `PlanResolves`,
  `QueueMoves`, `AnswersMove`, `NoneForgotten`, `FateTold`, `RunEnds`, `RemovalsSettle`,
  `ServiceReturns`.
- `RECURSIVE` operators and induction over data are out of the prover's reach too; no
  module that is proved about needs either.

## Where the code and its documents disagree

Met while modelling, each reproduced by TLC, run by hand with the module named. Where one
configuration serves several properties, the second and further ones stand in comments at
its end, with what to put in place of the first.

| Configuration | Module, property | What happens |
| --- | --- | --- |
| `StoppedResumes.cfg` | `MCTurnLifecycle`, `UserStopIsFinal` | A handoff begins between the user's Stop and the settlement of the turn. `begin()` records it as running (`threads/handoff.ts:128`), and the next core continues a turn the user stopped. |
| `StoppedResumes.cfg` (3rd) | `MCTurnLifecycle`, `QueuedIsScheduled` | A Stop after the server listens and before `handoff.resume`, on a queued turn of the last core: the entry goes, nothing closes the row, and the thread refuses every turn until the next restart. |
| `StoppedResumes.cfg` (4th) | `MCTurnLifecycle`, `ArchivedNeverStarts` | While a finished turn still holds its slot (`threads/turn-runner.ts:201-203`), an archive stops it and not the turn queued behind it, which then starts on the archived thread. |
| `StopUntold.cfg` | `TurnAttempts`, `EveryStopEndsRun` | After a restart for a mode, the ended attempt's handle stays while the capability is renewed. A Stop is accepted on it; the next attempt starts and is never told. |
| `OrphanedPause.cfg` | `AgentUpdates`, `EachGoesOn` | An updater that leaves the version unmoved sets its entry to failed and then awaits; an update asked for meanwhile takes its place, and the first one's paused turns are never let go. |
| `UpdaterMeetsTurn.cfg` | `AgentUpdates`, `UpdaterAlone` | The pause limit passes before the tick that would have seen the last unpaused turn end: the updater starts in the same tick that lets the paused turns go on. |
| `MovedPause.cfg` | `AgentUpdates`, `PausedReleased` | The turns an update counts are found by their execution's provider, the processes it releases by the thread's present one. A paused turn of a thread moved meanwhile keeps its process under the updater. |
| `StoppedResumes.cfg` (2nd) | `MCTurnLifecycle`, `PendingStillRuns` | A handoff that begins after `turn.finished` and before the slot is free puts that turn into `#pending` (`threads/handoff.ts:128`; line 50 says "still to end"), and waits for the backstop timer. |
| `StopMissed.cfg` | `TurnAttempts`, `StopIsHeard` | While the capability is renewed after the preparation, a capacity wait or a pause there is no handle, and `stopRunning` answers false (`threads/turn-attempts.ts:550`). `docs/architecture.md:310` has Stop accepted from the start of turn setup. |
| `StopMissed.cfg` (2nd) | `TurnAttempts`, `PausedWasAsked` | An attempt that was stopped for a pause and reports a lost session or a capacity refusal leaves its mark in `#pausing`; a later attempt that is stopped by its agent is held as paused (`threads/turn-attempts.ts:327`; line 67 says the set holds turns whose driver was stopped to pause them). |
| `UpdaterMeetsTurn.cfg` (2nd) | `AgentUpdates`, `NoPauseAfterLimit` | `cancelPause` (`threads/turn-attempts.ts:452`) leaves the pause stops that already went out; `docs/agent-updates.md:192` says that past the limit no turn is paused again. |
| `WarmedUnder.cfg` | `AgentUpdates`, `AllReleased` | `focus.ts:183` prepares the agent of a conversation somebody looks at without a look at `updates.holds`: a process is started under the updater. |
| `StoppedCrash.cfg` | `PlannedResumes`, `StoppedStaysStopped` | The core dies between a Stop and the settlement of the turn. The next core finds the row running, calls it a crash and plans a resume (`threads/auto-continue.ts:93`); `docs/restart-handoff.md:99` has nothing resume a turn the user stopped. |
| `ToldUnplanned.cfg` | `PlannedResumes`, `ToldIsPlanned` | Recovery closes a cut turn with "Boite resumes it" (`threads/recovery.ts:15`). A second death before the plan is made leaves the row closed, and the third core sees no crash to plan for. |
| `ToldUnplanned.cfg` (2nd) | `PlannedResumes`, `InARow` | A core dies after it sent a resume and before it settled the row: the plan is dropped, the resume is not counted (`threads/resume.ts:252`), and the thread resumes once more than `docs/architecture.md:346` has it at most. |
| `LateContinuation.cfg` | `PlannedResumes`, `ContinuesLast` | The user goes on in the conversation after the next core listens and before `handoff.resume`; the continuation of the cut turn then comes after the newer one. |
| `Overtaken.cfg` | `MCComposerOutbox`, `UncertainStaysHeld` | A prompt that reached the agent unconfirmed is held, `docs/machines.md` has it never tried again. With another input put ahead of it while it is handed over, and a death then, the next core delivers both. |
| `AnswerStranded.cfg` | `LiveInput`, `AnswersResume` | A steer of another owner is out when the turn ends, and comes back after it: the flush found the channel taken, and nothing flushes the held answers again (`docs/context.md`: they resume when that delivery finishes). |
| `AnswerStranded.cfg` (2nd) | `LiveInput`, `NotReplayed` | A steer whose call failed is held for the next prompt, though the agent may have it; `drivers/types.ts` calls it an uncertain dispatch that is not replayed. |
| `AnswerStranded.cfg` (3rd) | `LiveInput`, `ToldIsNoted` | An answer given while a turn is queued goes to the agent in that turn's prompt, and the transcript never shows it (`docs/context.md:312`). |
| `RejectedAgain.cfg` | `AgentLetters`, `RejectedStays` | Coordination turned off while an exchange is out rejects the letter; the failed exchange writes `queued` over it (`coordination.ts:801`; the test at `coordination.test.ts:237` has pending messages rejected). |
| `LetterAsleep.cfg` | `AgentLetters`, `LetterWakes` | A prompt a restart held keeps its thread busy, so that a letter that came with it wakes nobody until the user returns (`docs/coordination.md:51`). |
| `LetterAsleep.cfg` (2nd) | `AgentLetters`, `NoneWaitsOff` | A letter whose wake is cancelled after its thread turned coordination off goes back to waiting, and is not rejected. |
| `LetterAsleep.cfg` (3rd) | `AgentLetters`, `ExpiredUnread` | The sender marks a letter expired with "Message expired before delivery" (`coordination.ts:760`) that the agent has read, since the answer did not come. |
| `WorkflowGrace.cfg` | `MCWorkflowRuns`, `HandoffFailsNone` | A step that ends by itself while the core waits for its turns to stop advances the run, and what is ready is launched into a core that takes no turns: the refusal fails the step and with it the run (`workflows.ts:553`: nothing new launches while the core stops; `docs/workflows.md:212` has the run stay running). |
| `WorkflowGrace.cfg` (2nd) | `MCWorkflowRuns`, `OwnerStopStands` | A step its owner stopped ends after a handoff began, and reads as cut by it: the next core runs it again (`docs/workflows.md:220` has the run fail with it). |
| `WorkflowGrace.cfg` (3rd) | `MCWorkflowRuns`, `RetryRuns` | A retry right after a stop finds the stopped turn still closing, and the launch into its thread is refused: the step fails again at once (`docs/workflows.md:204`). |
| `WorkflowGrace.cfg` (4th) | `MCWorkflowRuns`, `EveryStepWorks` | A kill between the record of a stop and that of its steps leaves a stopped run with a step that reads running and rested between turns; a retry of the others takes it for at work, and waits for nothing (`workflows.ts:78`: an interrupted step waits on its own thread, so a resume runs it again). |
| `GroupRefused.cfg` | `GroupRoster`, `NoneRefused` | A machine removed unknown to itself lets a fourth in, which lets a device in. The founder does not count the fourth, and refuses every roster that lists the device, whole (`docs/groups.md`: one round trip leaves both equal). |
| `GoneLate.cfg` | `GroupRoster`, `LeavesForCause` | The answer `gone` to an offer of an earlier membership arrives after the machine came back, and it forgets the group. |
| `GoneLate.cfg` (2nd) | `GroupRoster`, `LeavesForCause` | The six-second timer of a leave (`group.ts:870`) ends a membership that began after it. |
| `HomeReturns.cfg` | `GroupRoster`, `HomeGoneForGood` | A member lets a machine back in before it heard that this one had left: the new epoch takes the place of the removal, and the machine is the default it was (`group/roster.ts:389`). |
| `BootWithoutRoot.cfg` | `ServerRestore`, `BootHasRoot` | A power cut between the two renames of the installation (`server-update/apply.ts:170`, `237`) leaves nothing at the path the service starts from; `docs/server.md:255` has the previous version start at boot. |
| `BootWithoutRoot.cfg` (2nd) | `ServerRestore`, `NeverTorn` | A power cut tears the contents of a snapshot that has its name already, since nothing flushed them, and the record puts it back by its name (`server-update/apply.ts:230`: a copy cut short is never mistaken for a snapshot). |
| `BootWithoutRoot.cfg` (3rd) | `ServerRestore`, `BootFinishes` | With the backup on another filesystem, a power cut keeps the flushed record and loses the unflushed name of the snapshot: no start can finish the restore (`server-update/apply.ts:172`: on record before, so a start at boot finishes it). |
| `BootWithoutRoot.cfg` (4th) | `ServerRestore`, `OpensOld` | A power cut takes both renames of the installation back and leaves the data: the previous version opens what the new one ran on. |
| `BootWithoutRoot.cfg` (5th) | `ServerRestore`, `OpensOld` | The owner starts the service inside the rollback: the rejected version, still installed, finishes the restore itself and migrates the data just put back, which the previous version then opens. |
| `BootWithoutRoot.cfg` (6th) | `ServerRestore`, `QuietCopy` | The snapshot is copied without the data lock (`server-update/apply.ts:229`: never copy a live SQLite directory), so under a core started by hand. |

## What is not modelled

Within the modelled components:

- `TurnLifecycle`: sub-threads, whose turns delegation and workflows carry over a
  restart; deletion of threads; the keepalive and compaction operations, other than as
  background turns; the failed tries of a settlement, of which only the last
  counts; the archive's row commit and its putting away of drafts and
  sessions are one action; message contents.
- `TurnAttempts`: planned resumes, quotas and the messages written at each end;
  live changes of effort and speed. `pausing` marks that outlive their attempt
  are modelled here and not in `AgentUpdates`.
- `AgentUpdates`: version checks, skips, the managed, npm and apt installs, resumes
  planned for work the update cut, and the end of the core during an update (which
  `TurnAttempts` has).
- `PlannedResumes`: when the keepalive pings and the automatic compactions; several
  threads, whose plans are independent.
- `ComposerOutbox`: the launch of a draft, attachments, private records, activity commands
  and steers typed at a running turn without the queue.
- `LiveInput`: how a card is drawn, checked and settled; the wakes held while a persistent
  agent is paused. A death loses the answers held in memory, by design; a queued prompt
  that the handoff holds counts as given up with them. Of what repeats earlier messages,
  only the stopped ones' is here: a fresh session reads the whole conversation instead
  (`carrier`), and a session swapped by a compaction its tail. Native commands, which
  neither carry nor end a repeat, are left out.
- `AgentLetters`: letters within one machine (both copies are one update), contacts and
  their mail gate, bots and residents, mailboxes and gateways, discovery and lookups, the
  bridge through a client, and the thirty days a letter is kept.
- `WorkflowRuns`: several runs, which meet only in the conversation they report to; plans
  that are extended, templates, conditions and inputs (what opening a step finds is
  any of `Openings`); steps on other machines or on shared compute; archived
  conversations; who may lift whose pause; an update that holds a step's agent;
  usage; the second try a persistent agent's thread gets once its pause or its budget admits
  it (`whenAdmitted`: a refusal here leaves nothing that looks, which is the worse
  case); a refusal of the prompt that asks a step whose work completed.
  A launch whose refusal advances the run again from inside `#advance`
  is taken as one loop.
- `GroupRoster`: tickets and sessions of devices, origins, addresses, sealing, Magic DNS,
  the replicated settings. `#acked` and `SyncBackoff` only delay offers; an invitation that
  expires is one nobody comes with; the limits on the number of machines are not reached.
- `ServerRestore`: the choice, download, verification and admission of a release, the check
  of space, the pruning of backups, results shown to clients, Windows; what follows a power cut on a filesystem that cannot
  flush a directory; a flush of the record's directory that fails otherwise, which the code
  passes over in silence (`restore.ts:79`, not `required`). It assumes that a filesystem
  keeps its renames in order, and that a process is judged alive exactly.
- `FileLock`: cores older than this lock (a gap the code names), the count of three
  attempts, the Windows lock.

SQLite commits are taken as atomic and durable. Drivers and agents are external:
nothing is assumed of them.

The other components of the inventory are not modelled; `PROJECT.json` has the reason
for each, and the plan says which would come next.

## Plan

Written: everything above. What would come next, in this order:

1. Delegation (`delegation.ts`): the wait of a parent for its children, budgets, and mail
   that is answered once.
2. `StreamBuffer` (`journal/stream-buffer.ts`) and `FrameQueue`
   (`server/frame-queue.ts`): each small, with a limit and an order.
3. Contacts (`contacts/`): mail to another person's core; much of `AgentLetters` would
   serve.

Theorems to come: every safety property the runs check is proved; what a new module
brings comes with it.
