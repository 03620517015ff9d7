---------------------------- MODULE TurnAttempts ----------------------------
(***************************************************************************)
(* One visible turn as TurnAttempts.run drives it: native attempts of the  *)
(* agent, one after the other, until one closes the turn.                  *)
(*                                                                         *)
(* An attempt is followed by another when the agent lost its session, when *)
(* the model was at capacity (after a wait), when the agent's program is   *)
(* updated (after a pause between two tool calls), and when a permission   *)
(* mode the agent cannot take live asks for a new process                  *)
(* (live-permissions.ts).  Stop, the deadline of a stop the agent ignores, *)
(* the user's mode changes, a restart handoff and the end of the core meet *)
(* the loop at each of its awaits.                                         *)
(*                                                                         *)
(* The end of an attempt and the start of the next are one step: only      *)
(* microtasks lie between, unless the turn runs under a shared-access      *)
(* capability that must be renewed first (`gap').                          *)
(***************************************************************************)
EXTENDS Naturals, Sequences

CONSTANTS
  Modes,       \* permission modes
  FirstMode,   \* the mode of the thread as the turn starts
  Setters,     \* whether the driver can change the mode of a live agent
  Protections, \* whether the thread runs under a shared-access capability
  Tries,       \* capacity tries of a turn (CAPACITY_RETRY)
  MaxChanges,  \* bound: mode changes by the user
  MaxUpdates   \* bound: agent updates asked for

ASSUME ModeAssumption  == FirstMode \in Modes
ASSUME FlagAssumption  == Setters \subseteq BOOLEAN /\ Protections \subseteq BOOLEAN
ASSUME BoundAssumption == Tries \in Nat /\ MaxChanges \in Nat /\ MaxUpdates \in Nat

VARIABLES
  setter,      \* the driver of this turn has a setPermissionMode
  protected,   \* its thread runs under a shared-access capability
  at,          \* where the loop is
  outcome,     \* what the turn came to
  stopReq,     \* #stopRequested
  handle,      \* handles.get(thread): none, the live attempt's, an ended one's
  attempt,     \* attempts started
  retried,     \* retriedLostSession
  tries,       \* capacityTries
  deadline,    \* the stop deadline of the live attempt
  told,        \* the live attempt's driver was told to stop
  busy,        \* what its agent is in: a tool call, a card, neither
  pauseWanted, \* #pauseWanted
  tick,        \* the timer of #toolBoundary is set
  pausing,     \* #pausing
  pauseStop,   \* the live attempt was stopped to pause it
  mode,        \* LivePermissions.mode
  applied,     \* the mode the agent of the attempt runs on
  setting,     \* changes on their way through the setter
  restarting,  \* LivePermissions.restarting
  stale,       \* the capability no longer fits the thread
  update,      \* the agent's update: none, or the phase of its drain
  handing,     \* a restart handoff is under way
  stopping,    \* the core is stopping
  changes, updates, \* counters for the two bounds
  accepted,    \* history: a Stop was accepted
  missed       \* history: a Stop was refused while the turn ran

given   == <<setter, protected>>
loop    == <<at, outcome, stopReq, handle, attempt, retried, tries>>
driver  == <<deadline, told, busy>>
pause   == <<pauseWanted, tick, pausing, pauseStop>>
perms   == <<mode, applied, setting, restarting, stale>>
around  == <<update, handing, stopping, changes, updates, given>>
history == <<accepted, missed>>
vars == <<loop, driver, pause, perms, around, history>>

-----------------------------------------------------------------------------
Init ==
  /\ setter \in Setters /\ protected \in Protections
  /\ at = "opening" /\ outcome = "none" /\ stopReq = FALSE /\ handle = "none"
  /\ attempt = 0 /\ retried = FALSE /\ tries = 0
  /\ deadline = "none" /\ told = FALSE /\ busy = "no"
  /\ pauseWanted = FALSE /\ tick = FALSE /\ pausing = FALSE /\ pauseStop = FALSE
  /\ mode = FirstMode /\ applied = FirstMode /\ setting = <<>> /\ restarting = FALSE
  /\ stale = FALSE
  /\ update = "none" /\ handing = FALSE /\ stopping = FALSE /\ changes = 0 /\ updates = 0
  /\ accepted = FALSE /\ missed = FALSE

-----------------------------------------------------------------------------
(* Closing the turn, and the start of an attempt.                          *)

\* attempts.close: every control of the turn goes.
Close(r) ==
  /\ at' = "closed" /\ outcome' = r
  /\ stopReq' = FALSE /\ handle' = "none" /\ deadline' = "none"
  /\ told' = FALSE /\ busy' = "no"
  /\ pauseWanted' = FALSE /\ tick' = FALSE /\ pausing' = FALSE /\ pauseStop' = FALSE
  /\ setting' = <<>> /\ restarting' = FALSE
  /\ UNCHANGED <<attempt, mode, applied, stale>>

\* A pause asked for before stands, unless its update was postponed.
WantsPause == update' = "pause" \/ (pauseWanted /\ update' # "idle")

\* Faulty form of Begin: the mode is read before the preparation yields.
BeginEarlyMode ==
  /\ at' = "live" /\ handle' = "live" /\ attempt' = attempt + 1
  /\ deadline' = "none" /\ told' = FALSE /\ busy' = "no"
  /\ applied' = applied /\ setting' = <<>> /\ restarting' = FALSE
  /\ pauseWanted' = WantsPause /\ tick' = FALSE /\ pauseStop' = FALSE
  /\ UNCHANGED <<outcome, stopReq, mode, stale>>

\* The driver starts an attempt, on the mode of this moment.
Begin ==
  /\ at' = "live" /\ handle' = "live" /\ attempt' = attempt + 1
  /\ deadline' = "none" /\ told' = FALSE /\ busy' = "no"
  /\ applied' = mode /\ setting' = <<>> /\ restarting' = FALSE
  /\ pauseWanted' = WantsPause /\ tick' = FALSE /\ pauseStop' = FALSE
  /\ UNCHANGED <<outcome, stopReq, mode, stale>>

\* The capability is opened again: nothing of the turn is live meanwhile.
Renew(h) ==
  /\ at' = "gap" /\ handle' = h /\ stale' = FALSE
  /\ deadline' = "none" /\ told' = FALSE /\ busy' = "no"
  /\ tick' = (tick /\ h = "past") /\ pauseStop' = FALSE
  /\ setting' = <<>>
  /\ UNCHANGED <<outcome, stopReq, attempt, pauseWanted, mode, applied, restarting>>

\* The head of the loop: h is the handle the last attempt left, p a pause still
\* taken. Contexts, accounts and drivers may throw, and the turn fails.
GoRound(h, p) ==
  \/ protected /\ stale /\ Renew(h) /\ pausing' = p
  \/ ~(protected /\ stale) /\ Begin /\ pausing' = p
  \/ Close("error")

\* run: the preparation before the loop ended, failed, or was stopped.
OpeningEnds ==
  /\ at = "opening"
  /\ UNCHANGED <<retried, tries, around, history>>
  /\ \/ stopReq /\ Close("stopped")
     \/ ~stopReq /\ GoRound("none", pausing)

\* The renewed capability no longer fits once the mode moved again.
GapEnds ==
  /\ at = "gap"
  /\ UNCHANGED <<retried, tries, around, history>>
  /\ \/ ~stale /\ Begin /\ UNCHANGED pausing
     \/ Close("error")

-----------------------------------------------------------------------------
(* The end of an attempt.  r: what the driver reports, `lost' and          *)
(* `capacity' being errors with a reason.                                  *)

Reports == {"done", "stopped", "error", "lost", "capacity"}
Status(r) == IF r \in {"lost", "capacity"} THEN "error" ELSE r

\* A lost session is dropped for a fresh one once.
Fresh(r) == r = "lost" /\ ~retried
\* The agent died of the restart, or so it may be: a refusal stays a failure.
Cut(r) == handing /\ r \in {"error", "lost"}
\* Faulty form of Retries: the number of tries is not bounded.
RetriesForever(r) == r = "capacity" /\ ~stopping
Retries(r) == r = "capacity" /\ tries < Tries /\ ~stopping

\* A wait of the turn is over: a stopping core ends the turn instead.
GoesOn ==
  \/ stopping' /\ Close("stopped")
  \/ ~stopping' /\ GoRound("none", FALSE)

\* Nothing of the turn is live; its handle and its tool calls are forgotten.
Parks(where) ==
  /\ at' = where /\ handle' = "none" /\ deadline' = "none" /\ told' = FALSE /\ busy' = "no"
  /\ tick' = FALSE /\ pauseStop' = FALSE /\ setting' = <<>>
  /\ UNCHANGED <<outcome, stopReq, attempt, pauseWanted, mode, applied, restarting>>

\* Faulty form of StopsTurn: the driver's word decides over the user's Stop.
StopsTurnOnWord(r) == Cut(r) \/ (stopReq /\ r = "stopped")
\* A stop was asked of the turn, by the user or by the restart.
StopsTurn(r) == Cut(r) \/ stopReq

AttemptStopped(r) ==
  /\ StopsTurn(r)
  /\ Close("stopped")
  /\ UNCHANGED <<retried, tries>>

AttemptLost(r) ==
  /\ ~StopsTurn(r) /\ Fresh(r)
  /\ GoRound("past", pausing)
  /\ retried' = TRUE /\ UNCHANGED tries

AttemptRefused(r) ==
  /\ ~StopsTurn(r) /\ ~Fresh(r) /\ Retries(r)
  /\ Parks("waiting")
  /\ tries' = tries + 1 /\ UNCHANGED <<retried, pausing, stale>>

\* Stopped between two tool calls for an update; with the update gone already
\* the turn goes on at once.
AttemptPaused(r) ==
  /\ ~StopsTurn(r) /\ ~Fresh(r) /\ ~Retries(r)
  /\ pausing /\ r = "stopped"
  /\ \/ update # "none" /\ Parks("paused") /\ pausing' = FALSE /\ UNCHANGED stale
     \/ update = "none" /\ GoesOn
  /\ UNCHANGED <<retried, tries>>

\* The mode asked for another process.
AttemptReplaced(r) ==
  /\ ~StopsTurn(r) /\ ~Fresh(r) /\ ~Retries(r)
  /\ ~(pausing /\ r = "stopped")
  /\ restarting /\ r # "done"
  /\ GoRound("past", FALSE)
  /\ UNCHANGED <<retried, tries>>

AttemptCloses(r) ==
  /\ ~StopsTurn(r) /\ ~Fresh(r) /\ ~Retries(r)
  /\ ~(pausing /\ r = "stopped")
  /\ ~restarting \/ r = "done"
  /\ Close(Status(r))
  /\ UNCHANGED <<retried, tries>>

AttemptEnds(r) ==
  /\ at = "live"
  /\ UNCHANGED <<around, history>>
  /\ \/ AttemptStopped(r) \/ AttemptLost(r) \/ AttemptRefused(r)
     \/ AttemptPaused(r) \/ AttemptReplaced(r) \/ AttemptCloses(r)

-----------------------------------------------------------------------------
(* The stop of a live attempt, and its deadline.                           *)

\* Faulty form of Tell: no deadline follows.
TellUnarmed ==
  /\ told' = TRUE
  /\ busy' = IF busy = "card" THEN "no" ELSE busy
  /\ deadline' = deadline

\* The driver is told, the cards it is parked on go, the deadline is armed once.
Tell ==
  /\ told' = TRUE
  /\ busy' = IF busy = "card" THEN "no" ELSE busy
  /\ deadline' = IF deadline = "none" THEN "armed" ELSE deadline

\* STOP_DEADLINE.ms passed: the processes of the thread are ended.
DeadlineKills ==
  /\ at = "live" /\ deadline = "armed"
  /\ deadline' = "killed"
  /\ UNCHANGED <<loop, told, busy, pause, perms, around, history>>

\* Past forceMs more the core settles the attempt itself.
DeadlineForces == deadline = "killed" /\ AttemptEnds("stopped")

\* stopRunning.
Stop ==
  \/ /\ at \in {"waiting", "paused"}
     /\ Close("stopped") /\ accepted' = TRUE
     /\ UNCHANGED <<retried, tries, around, missed>>
  \/ /\ at = "live"
     /\ stopReq' = TRUE /\ pauseWanted' = FALSE /\ Tell /\ accepted' = TRUE
     /\ UNCHANGED <<at, outcome, handle, attempt, retried, tries, tick, pausing, pauseStop, perms, around, missed>>
  \/ /\ at = "opening"
     /\ stopReq' = TRUE /\ pauseWanted' = FALSE /\ accepted' = TRUE
     /\ UNCHANGED <<at, outcome, handle, attempt, retried, tries, driver, tick, pausing, pauseStop, perms, around, missed>>
  \/ /\ at = "gap"
     /\ pauseWanted' = FALSE
     /\ IF handle = "none" THEN missed' = TRUE /\ UNCHANGED <<stopReq, accepted>>
        ELSE stopReq' = TRUE /\ accepted' = TRUE /\ UNCHANGED missed
     /\ UNCHANGED <<at, outcome, handle, attempt, retried, tries, driver, tick, pausing, pauseStop, perms, around>>

-----------------------------------------------------------------------------
(* The waits.                                                              *)

\* #waitToRetry: the delay passed, or the user gave the retry up.
WaitOver ==
  /\ at = "waiting"
  /\ UNCHANGED <<retried, tries, around, history>>
  /\ \/ stopping /\ Close("stopped")
     \/ ~stopping /\ GoRound("none", pausing)

CancelRetry ==
  /\ at = "waiting"
  /\ Close(IF stopping THEN "stopped" ELSE "error")
  /\ UNCHANGED <<retried, tries, around, history>>

\* What the pause waits for resolved.
PauseOver == at = "paused" /\ GoesOn /\ UNCHANGED <<retried, tries>>
NoPause   == at # "paused" /\ UNCHANGED <<loop, driver, pause, perms>>

-----------------------------------------------------------------------------
(* The pause for an agent update.                                          *)

\* #toolBoundary: with no tool call open the pause is tried on the next tick.
ToolBoundary(wanted) ==
  /\ tick' = (tick \/ (wanted /\ busy' # "tool" /\ update' = "pause" /\ handle # "none"))
  /\ pauseWanted' = (wanted /\ (busy' = "tool" \/ update' = "pause"))

\* The pause goes out only if nothing opened since, and the attempt is the same.
PauseTick ==
  /\ tick
  /\ tick' = FALSE
  /\ IF pauseWanted /\ busy = "no"
     THEN /\ pauseWanted' = FALSE /\ pausing' = TRUE
          /\ IF at = "live" THEN pauseStop' = TRUE /\ Tell ELSE UNCHANGED <<pauseStop, driver>>
     ELSE UNCHANGED <<pauseWanted, pausing, pauseStop, driver>>
  /\ UNCHANGED <<loop, perms, around, history>>

\* requestPause of the update that begins; a pause already taken counts for it.
UpdateAsked ==
  /\ update = "none" /\ updates < MaxUpdates /\ ~stopping
  /\ update' = "pause" /\ updates' = updates + 1
  /\ IF handle # "none" /\ ~pausing
     THEN UNCHANGED busy /\ ToolBoundary(TRUE)
     ELSE UNCHANGED <<pauseWanted, tick, busy>>
  /\ UNCHANGED <<loop, deadline, told, pausing, pauseStop, perms, handing, stopping, changes, history, given>>

\* The updater starts once this turn is not in its way, and releases the agent.
UpdateRuns ==
  /\ update \in {"pause", "idle"} /\ at \in {"paused", "closed"}
  /\ update' = "run"
  /\ stale' = (stale \/ (protected /\ at = "paused"))
  /\ UNCHANGED <<loop, driver, pause, mode, applied, setting, restarting, handing, stopping, changes, updates, history, given>>

\* Faulty form of UpdatePostponed: pauses whose stop went out are forgotten too.
UpdatePostponedAll ==
  /\ update = "pause"
  /\ update' = "idle"
  /\ UNCHANGED <<handing, stopping, changes, updates, history, given>>
  /\ \/ PauseOver
     \/ /\ at # "paused" /\ pauseWanted' = FALSE /\ pausing' = FALSE
        /\ UNCHANGED <<loop, driver, tick, pauseStop, perms>>

\* The pause limit: the pause is withdrawn where it was not taken yet.
UpdatePostponed ==
  /\ update = "pause"
  /\ update' = "idle"
  /\ UNCHANGED <<handing, stopping, changes, updates, history, given>>
  /\ \/ PauseOver
     \/ /\ at # "paused" /\ pauseWanted' = FALSE
        /\ UNCHANGED <<loop, driver, tick, pausing, pauseStop, perms>>

UpdateEnds ==
  /\ update = "run"
  /\ update' = "none"
  /\ UNCHANGED <<handing, stopping, changes, updates, history, given>>
  /\ PauseOver \/ NoPause

-----------------------------------------------------------------------------
(* The permission mode.                                                    *)

\* LivePermissions.replace: another process takes over, unless one does already.
Replace == restarting' = TRUE /\ setting' = <<>> /\ Tell

\* LivePermissions.change.
ChangeMode(m) ==
  /\ at # "closed" /\ m # mode /\ changes < MaxChanges
  /\ changes' = changes + 1
  /\ mode' = m
  /\ stale' = (stale \/ protected)
  /\ IF at # "live" \/ restarting THEN UNCHANGED <<setting, restarting, driver>>
     ELSE IF setter THEN setting' = Append(setting, m) /\ UNCHANGED <<restarting, driver>>
     ELSE Replace
  /\ UNCHANGED <<loop, pause, applied, update, handing, stopping, updates, history, given>>

\* Faulty form of SetterAnswers: a refused change is dropped.
SetterAnswersOnce ==
  /\ at = "live" /\ setting # <<>>
  /\ \/ applied' = Head(setting) /\ setting' = Tail(setting) /\ UNCHANGED <<restarting, driver>>
     \/ setting' = Tail(setting) /\ UNCHANGED <<restarting, applied, driver>>
  /\ UNCHANGED <<loop, pause, mode, stale, around, history>>

\* The agent took the change, or refused it, or did not answer in time.
SetterAnswers ==
  /\ at = "live" /\ setting # <<>>
  /\ \/ applied' = Head(setting) /\ setting' = Tail(setting) /\ UNCHANGED <<restarting, driver>>
     \/ Replace /\ UNCHANGED applied
  /\ UNCHANGED <<loop, pause, mode, stale, around, history>>

-----------------------------------------------------------------------------
(* The agent at work, and the core around the turn.                        *)

ToolStarts ==
  /\ at = "live" /\ busy = "no"
  /\ busy' = "tool"
  /\ UNCHANGED <<loop, deadline, told, pause, perms, around, history>>

ToolEnds ==
  /\ at = "live" /\ busy = "tool"
  /\ busy' = "no" /\ update' = update
  /\ ToolBoundary(pauseWanted)
  /\ UNCHANGED <<loop, deadline, told, pausing, pauseStop, perms, handing, stopping, changes, updates, history, given>>

Card ==
  /\ at = "live"
  /\ \/ busy = "no" /\ ~told /\ busy' = "card"
     \/ busy = "card" /\ busy' = "no"
  /\ UNCHANGED <<loop, deadline, told, pause, perms, around, history>>

HandoffBegins ==
  /\ ~handing /\ at # "closed"
  /\ handing' = TRUE
  /\ UNCHANGED <<loop, driver, pause, perms, update, stopping, changes, updates, history, given>>

\* The core stops, and closes its agent updates: no pause waits for one longer.
CoreStops ==
  /\ ~stopping /\ at # "closed"
  /\ stopping' = TRUE /\ update' = "none"
  /\ UNCHANGED <<handing, changes, updates, history, given>>
  /\ PauseOver \/ NoPause

Over == at = "closed" /\ UNCHANGED vars

Next ==
  \/ OpeningEnds \/ GapEnds \/ \E r \in Reports : AttemptEnds(r)
  \/ Stop \/ DeadlineKills \/ DeadlineForces
  \/ WaitOver \/ CancelRetry
  \/ PauseTick \/ UpdateAsked \/ UpdateRuns \/ UpdatePostponed \/ UpdateEnds
  \/ \E m \in Modes : ChangeMode(m)
  \/ SetterAnswers
  \/ ToolStarts \/ ToolEnds \/ Card
  \/ HandoffBegins \/ CoreStops \/ Over

Spec == Init /\ [][Next]_vars

(* The event loop runs what is ready and its timers expire; the preparation *)
(* of a turn ends, as its processes are killed by a Stop, and so does the   *)
(* renewal of a capability.  Nothing is assumed of the agent: no driver has *)
(* to answer a stop, to end an attempt or to take a mode.                   *)
Fairness ==
  /\ WF_vars(OpeningEnds) /\ WF_vars(GapEnds)
  /\ WF_vars(DeadlineKills) /\ WF_vars(DeadlineForces)
  /\ WF_vars(SetterAnswers)

FairSpec == Spec /\ Fairness

-----------------------------------------------------------------------------
(* Properties.                                                             *)

\* The type of every variable.
TypeOK ==
  /\ setter \in BOOLEAN /\ protected \in BOOLEAN
  /\ at \in {"opening", "gap", "live", "waiting", "paused", "closed"}
  /\ outcome \in {"none", "done", "stopped", "error"}
  /\ stopReq \in BOOLEAN /\ handle \in {"none", "live", "past"}
  /\ attempt \in Nat /\ retried \in BOOLEAN /\ tries \in 0..Tries
  /\ deadline \in {"none", "armed", "killed"} /\ told \in BOOLEAN
  /\ busy \in {"no", "tool", "card"}
  /\ pauseWanted \in BOOLEAN /\ tick \in BOOLEAN /\ pausing \in BOOLEAN /\ pauseStop \in BOOLEAN
  /\ mode \in Modes /\ applied \in Modes /\ setting \in Seq(Modes) /\ restarting \in BOOLEAN
  /\ stale \in BOOLEAN
  /\ update \in {"none", "pause", "idle", "run"} /\ handing \in BOOLEAN /\ stopping \in BOOLEAN
  /\ changes \in 0..MaxChanges /\ updates \in 0..MaxUpdates
  /\ accepted \in BOOLEAN /\ missed \in BOOLEAN

\* A turn whose Stop was accepted closes as stopped, whatever its driver reports
\* and whichever retry, wait, pause or restart of the loop the Stop met. Only the
\* renewal of a capability may fail it instead.
StopDecides ==
  at = "closed" /\ accepted => outcome = "stopped" \/ (protected /\ outcome = "error")

\* No attempt starts once a Stop was accepted: not for a lost session, not for a
\* mode, not after a wait (turn-attempts.ts `#stopRequested'), the wait for a
\* capability excepted.
NoAttemptAfterStop == [][stopReq /\ at # "gap" => attempt' = attempt]_vars

\* The agent works on the mode the user picked last, unless the change is on its
\* way: through the setter, or through the restart of the attempt.
ModeFollows == at = "live" /\ applied # mode => restarting \/ setting # <<>>

\* A stop the core itself sent, to pause the turn or to restart it on another
\* mode, never surfaces as a stopped turn.
OwnStopsHidden ==
  [][at = "live" /\ told /\ ~stopReq /\ ~handing /\ ~stopping => outcome' # "stopped"]_vars

\* An accepted Stop closes the turn even if the agent ignores it (STOP_DEADLINE),
\* unless the loop waits for a capability.
StopEndsRun == (accepted /\ ~protected) ~> at = "closed"

\* `past ms + forceMs it settles the turn itself' (turn-attempts.ts): any turn.
EveryStopEndsRun == accepted ~> at = "closed"

\* A mode the user picks reaches the running agent, or the attempt ends: neither
\* a setter nor a driver that never answers leaves it on the old permissions.
ModeTakesHold == (at = "live" /\ applied # mode) ~> (at # "live" \/ applied = mode)

\* `Turns whose driver was stopped to pause them' (turn-attempts.ts): a turn is
\* held for an update only if this attempt was stopped for it.
PausedWasAsked == [][at = "live" /\ at' = "paused" => pauseStop]_vars

\* `Stop is accepted from the start of turn setup' (architecture.md) until the
\* turn closes.
StopIsHeard == ~missed

\* The loop of a turn that needs no capability is a runner as TurnLifecycle
\* takes it; any other one is left out.
Run == INSTANCE TurnRun WITH
  phase <- IF protected \/ at = "opening" THEN "preparing"
           ELSE IF at = "closed" THEN "closing" ELSE "attempt",
  stopReq <- stopReq /\ ~protected,
  result <- IF protected THEN "none" ELSE outcome

\* Each step of the loop is a step of the runner TurnLifecycle assumes.
ImplementsRun == Run!Spec

=============================================================================
