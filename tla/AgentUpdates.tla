---------------------------- MODULE AgentUpdates ----------------------------
(***************************************************************************)
(* The update of one agent's program while its turns run (HarnessUpdates,  *)
(* providers/updates.ts): the running turns pause between two tool calls   *)
(* (turn-attempts.ts), work left in the background holds an automatic      *)
(* update (update-background.ts), the updater runs once nothing unpaused   *)
(* is left, and the paused turns go on.                                    *)
(*                                                                         *)
(* The threads are those of one provider.  Of an attempt only what a pause *)
(* depends on is kept; TurnAttempts has its other sides.  A promise that   *)
(* resolves is followed by microtasks only: the turns it lets go on do so  *)
(* in the step that resolved it, after the code that ran on synchronously. *)
(***************************************************************************)
EXTENDS Naturals, FiniteSets

CONSTANTS
  Threads,
  MaxUpdates,  \* bound: updates asked for
  Limited,     \* the pause limit may pass
  Movable,     \* threads the user may switch to another agent while they work
  Viewable     \* threads a client may look at, which warms their agent

ASSUME UseAssumption == Movable \subseteq Threads /\ Viewable \subseteq Threads
ASSUME BoundAssumption == MaxUpdates \in Nat /\ Limited \in BOOLEAN

VARIABLES
  turn,     \* what each thread's turn is at
  wanted,   \* #pauseWanted
  ticks,    \* threads whose pause is tried on the next tick
  waitsOn,  \* the drain whose promise a paused turn took
  bg,       \* threads whose agent runs work in the background
  proc,     \* threads with a live agent of this provider
  moved,    \* threads switched to another agent
  cur,      \* #drains.get(provider): a drain, or 0
  asked,    \* drains made
  phase,    \* phase of each drain
  forced,   \* drains that background work no longer holds
  limit,    \* drains whose pause limit runs
  bound,    \* drains whose background limit runs
  updater,  \* each drain's #runUpdate
  entry,    \* #entries.get(provider).state
  adv,      \* the timer of #advanceAll is set
  replaced  \* history: drains another one took the place of before they settled

turns  == <<turn, wanted, ticks, waitsOn, bg, proc, moved>>
drains == <<cur, asked, phase, forced, limit, bound, updater, replaced>>
vars == <<turns, drains, entry, adv>>

Drains == 1..MaxUpdates

-----------------------------------------------------------------------------
Init ==
  /\ turn = [th \in Threads |-> "idle"]
  /\ wanted = {} /\ ticks = {} /\ waitsOn = [th \in Threads |-> 0]
  /\ bg = {} /\ proc = {} /\ moved = {}
  /\ cur = 0 /\ asked = 0
  /\ phase = [d \in Drains |-> "none"] /\ forced = {} /\ limit = {} /\ bound = {}
  /\ updater = [d \in Drains |-> "no"]
  /\ entry = "idle" /\ adv = FALSE /\ replaced = {}

-----------------------------------------------------------------------------
(* What the code reads.                                                    *)

Attached == {"between", "tool", "pausing"}   \* the runner has a handle
Running(now) == {th \in Threads : now[th] # "idle"}
Paused(now)  == {th \in Threads : now[th] = "paused"}

\* wantsPause, holds.
WantsPause == cur # 0 /\ phase[cur] = "pause"
Holds      == cur # 0 /\ phase[cur] = "run"

\* backgroundHolders: agents at rest, or paused, whose work still runs.
Holders(now, work) == {th \in work \ moved : now[th] \in {"idle", "paused"}}

\* Faulty form of WaitingFor: a paused turn's background work does not count.
WaitingForRest(now, work, f) ==
  (Running(now) \ Paused(now)) \union (IF f THEN {} ELSE Holders(now, work) \ Paused(now))

\* What the updater waits for.
WaitingFor(now, work, f) ==
  (Running(now) \ Paused(now)) \union (IF f THEN {} ELSE Holders(now, work))

-----------------------------------------------------------------------------
(* #advance, as part of the step that calls it.                            *)

\* requestPause of each running turn with a handle, and its tool boundary.
Asks(now) == {th \in Running(now) : now[th] \in Attached \ {"pausing"}}
Ready(now) == {th \in Asks(now) : now[th] = "between"}

\* Faulty form of Released: the agents of paused turns are left running.
ReleasedAtRest(now) == {th \in Threads \ moved : now[th] # "paused"}
\* The threads whose agent the start of the updater releases.
Released(now) == Threads \ moved

\* Drain d stands as in `from', the turns as in `now', the background work as in
\* `work'; `went' are paused turns whose promise resolved just before: they go on,
\* in a new process, once this code is over.
Advance(d, from, now, work, went) ==
  LET waits  == WaitingFor(now, work, from.forced)
      opens  == from.phase = "background" /\ (from.forced \/ Holders(now, work) = {})
      starts == waits = {}
  IN  /\ phase' = [phase EXCEPT ![d] =
                     IF starts THEN "run" ELSE IF opens THEN "pause" ELSE from.phase]
      /\ forced' = IF from.forced THEN forced \union {d} ELSE forced
      /\ limit' = IF from.limit /\ ~starts THEN limit \union {d} ELSE limit \ {d}
      /\ bound' = IF from.bound /\ ~starts THEN bound \union {d} ELSE bound \ {d}
      /\ updater' = IF starts THEN [updater EXCEPT ![d] = "runs"] ELSE updater
      /\ bg' = IF starts THEN work \ Released(now) ELSE work
      /\ proc' = (IF starts THEN proc \ Released(now) ELSE proc) \union went
      /\ wanted' = IF opens THEN wanted \union Asks(now)
                   ELSE IF from.phase = "idle" THEN wanted \ Running(now) ELSE wanted
      /\ ticks' = IF opens THEN ticks \union Ready(now) ELSE ticks
      /\ turn' = [th \in Threads |-> IF th \in went THEN "between" ELSE now[th]]

\* Drain d as it stands.
Now(d) == [phase |-> phase[d], forced |-> d \in forced, limit |-> d \in limit, bound |-> d \in bound]

Told(th) == adv' = (adv \/ cur # 0)   \* turn.finished or thread.background of th

-----------------------------------------------------------------------------
(* Turns.                                                                  *)

\* Faulty form of MayStart: the scheduler does not look at the updater.
MayStartAny(th) == turn[th] = "idle" /\ th \notin moved
\* The scheduler starts no turn of this agent while its updater runs.
MayStart(th) == turn[th] = "idle" /\ th \notin moved /\ ~Holds

TurnStarts(th) ==
  /\ MayStart(th)
  /\ turn' = [turn EXCEPT ![th] = "opening"]
  /\ proc' = proc \union {th}
  /\ UNCHANGED <<wanted, ticks, waitsOn, bg, moved, drains, entry, adv>>

\* An attempt begins: it pauses at its first tool boundary too.
AttemptBegins(th) ==
  /\ turn[th] = "opening"
  /\ turn' = [turn EXCEPT ![th] = "between"]
  /\ proc' = proc \union {th}
  /\ wanted' = IF WantsPause THEN wanted \union {th} ELSE wanted
  /\ UNCHANGED <<ticks, waitsOn, bg, moved, drains, entry, adv>>

\* The attempt ended, the turn did not: it waits at capacity, or starts afresh.
AttemptAgain(th) ==
  /\ turn[th] \in {"between", "tool"}
  /\ turn' = [turn EXCEPT ![th] = "opening"]
  /\ ticks' = ticks \ {th}
  /\ UNCHANGED <<wanted, waitsOn, bg, proc, moved, drains, entry, adv>>

ToolStarts(th) ==
  /\ turn[th] = "between"
  /\ turn' = [turn EXCEPT ![th] = "tool"]
  /\ UNCHANGED <<wanted, ticks, waitsOn, bg, proc, moved, drains, entry, adv>>

\* #toolBoundary: a pause nobody wants any more is dropped.
ToolEnds(th) ==
  /\ turn[th] = "tool"
  /\ turn' = [turn EXCEPT ![th] = "between"]
  /\ ticks' = IF th \in wanted /\ WantsPause THEN ticks \union {th} ELSE ticks
  /\ wanted' = IF WantsPause THEN wanted ELSE wanted \ {th}
  /\ UNCHANGED <<waitsOn, bg, proc, moved, drains, entry, adv>>

\* The stop of the pause goes out unless a tool call began since.
PauseTick(th) ==
  /\ th \in ticks
  /\ ticks' = ticks \ {th}
  /\ \/ /\ th \in wanted /\ turn[th] = "between"
        /\ turn' = [turn EXCEPT ![th] = "pausing"] /\ wanted' = wanted \ {th}
     \/ ~(th \in wanted /\ turn[th] = "between") /\ UNCHANGED <<turn, wanted>>
  /\ UNCHANGED <<waitsOn, bg, proc, moved, drains, entry, adv>>

\* The attempt stopped to be paused (#pause): it takes the promise of the drain,
\* and turnPaused starts the pause limit and looks again.
PauseTaken(th) ==
  /\ turn[th] = "pausing"
  /\ \/ /\ cur = 0
        /\ turn' = [turn EXCEPT ![th] = "between"]
        /\ UNCHANGED <<wanted, ticks, waitsOn, bg, proc, drains>>
     \/ /\ cur # 0
        /\ waitsOn' = [waitsOn EXCEPT ![th] = cur]
        /\ LET now == [turn EXCEPT ![th] = "paused"]
           IN  \/ /\ Holds
                  /\ turn' = now
                  /\ UNCHANGED <<wanted, ticks, bg, proc, phase, forced, limit, bound, updater>>
               \/ /\ ~Holds
                  /\ Advance(cur, [Now(cur) EXCEPT !.limit = @ \/ (Limited /\ WantsPause)], now, bg, {})
        /\ UNCHANGED <<cur, asked, replaced>>
  /\ UNCHANGED <<moved, entry, adv>>

\* Faulty form of TurnEnds: the end of a turn is no event for the update.
TurnEndsQuietly(th) ==
  /\ turn[th] # "idle"
  /\ turn' = [turn EXCEPT ![th] = "idle"] /\ adv' = adv
  /\ waitsOn' = [waitsOn EXCEPT ![th] = 0]
  /\ wanted' = wanted \ {th} /\ ticks' = ticks \ {th}
  /\ UNCHANGED <<bg, proc, moved, drains, entry>>

\* A turn ends: done, failed or stopped, a paused one by Stop. Its agent stays warm.
TurnEnds(th) ==
  /\ turn[th] # "idle"
  /\ turn' = [turn EXCEPT ![th] = "idle"] /\ Told(th)
  /\ waitsOn' = [waitsOn EXCEPT ![th] = 0]
  /\ wanted' = wanted \ {th} /\ ticks' = ticks \ {th}
  /\ UNCHANGED <<bg, proc, moved, drains, entry>>

-----------------------------------------------------------------------------
(* The agents.                                                             *)

BackgroundStarts(th) ==
  /\ turn[th] \in {"between", "tool"} /\ th \notin bg \union moved
  /\ bg' = bg \union {th} /\ Told(th)
  /\ UNCHANGED <<turn, wanted, ticks, waitsOn, proc, moved, drains, entry>>

BackgroundEnds(th) ==
  /\ th \in bg
  /\ bg' = bg \ {th} /\ Told(th)
  /\ UNCHANGED <<turn, wanted, ticks, waitsOn, proc, moved, drains, entry>>

\* focus.ts prepares the agent of a conversation somebody looks at.
View(th) ==
  /\ th \in Viewable \ (proc \union moved) /\ turn[th] = "idle"
  /\ proc' = proc \union {th}
  /\ UNCHANGED <<turn, wanted, ticks, waitsOn, bg, moved, drains, entry, adv>>

\* The thread moves to another agent under its turn, which runs on as it began.
Move(th) ==
  /\ th \in Movable \ moved /\ turn[th] # "idle"
  /\ moved' = moved \union {th}
  /\ bg' = bg \ {th} /\ adv' = (adv \/ (th \in bg /\ cur # 0))
  /\ UNCHANGED <<turn, wanted, ticks, waitsOn, proc, drains, entry>>

-----------------------------------------------------------------------------
(* The update.                                                             *)

\* update(): by hand it forces an automatic one that still waits.
UpdateForced ==
  /\ cur # 0 /\ cur \notin forced
  /\ \/ Holds /\ UNCHANGED <<turn, wanted, ticks, bg, proc, phase, forced, limit, bound, updater>>
     \/ ~Holds /\ Advance(cur, [Now(cur) EXCEPT !.forced = TRUE, !.bound = FALSE], turn, bg, {})
  /\ UNCHANGED <<waitsOn, moved, cur, asked, replaced, entry, adv>>

\* update(): a new drain takes the place of whichever there was, an unsettled one
\* too. An agent that was brought up to date is updated again once a later check
\* found a newer release.
UpdateAsked(auto) ==
  /\ asked < MaxUpdates /\ entry # "updating"
  /\ auto \/ cur = 0 \/ cur \in forced
  /\ asked' = asked + 1 /\ cur' = asked + 1
  /\ replaced' = replaced \union ({cur} \ {0})
  /\ entry' = "updating"
  /\ Advance(asked + 1,
             [phase |-> "background", forced |-> ~auto, limit |-> FALSE, bound |-> auto],
             turn, bg, {})
  /\ UNCHANGED <<waitsOn, moved, adv>>

AdvanceTick ==
  /\ adv /\ adv' = FALSE
  /\ \/ (cur = 0 \/ Holds) /\ UNCHANGED <<turn, wanted, ticks, bg, proc, phase, forced, limit, bound, updater>>
     \/ cur # 0 /\ ~Holds /\ Advance(cur, Now(cur), turn, bg, {})
  /\ UNCHANGED <<waitsOn, moved, cur, asked, replaced, entry>>

\* Faulty form of LimitPasses: the paused turns are not let go.
LimitPassesSilent ==
  /\ cur # 0 /\ cur \in limit /\ phase[cur] = "pause"
  /\ Advance(cur, [Now(cur) EXCEPT !.phase = "idle", !.limit = FALSE], turn, bg, {})
  /\ UNCHANGED <<waitsOn, moved, cur, asked, replaced, entry, adv>>

\* #postpone: the paused turns go on, and the updater waits for none to run.
LimitPasses ==
  /\ cur # 0 /\ cur \in limit /\ phase[cur] = "pause"
  /\ Advance(cur, [Now(cur) EXCEPT !.phase = "idle", !.limit = FALSE], turn, bg,
             {th \in Paused(turn) : waitsOn[th] = cur})
  /\ waitsOn' = [th \in Threads |-> IF waitsOn[th] = cur THEN 0 ELSE waitsOn[th]]
  /\ UNCHANGED <<moved, cur, asked, replaced, entry, adv>>

\* Faulty form of BoundPasses: the work goes on holding the update.
BoundPassesOnly ==
  /\ cur # 0 /\ cur \in bound
  /\ Advance(cur, [Now(cur) EXCEPT !.bound = FALSE], turn, bg, {})
  /\ UNCHANGED <<waitsOn, moved, cur, asked, replaced, entry, adv>>

\* #force: the background limit passed.
BoundPasses ==
  /\ cur # 0 /\ cur \in bound
  /\ Advance(cur, [Now(cur) EXCEPT !.forced = TRUE, !.bound = FALSE], turn, bg, {})
  /\ UNCHANGED <<waitsOn, moved, cur, asked, replaced, entry, adv>>

-----------------------------------------------------------------------------
(* The updater.                                                            *)

\* Faulty form of Finish: the drain goes, its promise is never resolved.
FinishQuietly(d) ==
  /\ updater' = [updater EXCEPT ![d] = "over"]
  /\ cur' = IF cur = d THEN 0 ELSE cur
  /\ UNCHANGED <<turns, asked, phase, forced, limit, bound, adv, replaced>>

\* The end of #runUpdate: the turns that wait on this drain go on.
Finish(d) ==
  /\ updater' = [updater EXCEPT ![d] = "over"]
  /\ \/ /\ cur # d
        /\ UNCHANGED <<turn, waitsOn, proc, cur>>
     \/ /\ cur = d
        /\ LET went == {th \in Paused(turn) : waitsOn[th] = d}
           IN  /\ turn' = [th \in Threads |-> IF th \in went THEN "between" ELSE turn[th]]
               /\ waitsOn' = [th \in Threads |-> IF th \in went THEN 0 ELSE waitsOn[th]]
               /\ proc' = proc \union went
        /\ cur' = 0
  /\ UNCHANGED <<wanted, ticks, bg, moved, asked, phase, forced, limit, bound, adv, replaced>>

\* Faulty form of UpdaterFails: the entry takes the status of a failed turn.
UpdaterFailsAsTurn(d) == updater[d] = "runs" /\ entry' = "error" /\ Finish(d)

\* The updater throws: the failure is the agent's state until the next update.
UpdaterFails(d) == updater[d] = "runs" /\ entry' = "failed" /\ Finish(d)

\* The version was read, moved or not; the list of agents is brought up to date
\* after it.
UpdaterReads(d) ==
  /\ updater[d] = "runs"
  /\ updater' = [updater EXCEPT ![d] = "settles"]
  /\ entry' \in {"failed", "current"}
  /\ UNCHANGED <<turns, cur, asked, phase, forced, limit, bound, adv, replaced>>

UpdaterOver(d) == updater[d] = "settles" /\ UNCHANGED entry /\ Finish(d)

Next ==
  \/ \E th \in Threads :
       \/ TurnStarts(th) \/ AttemptBegins(th) \/ AttemptAgain(th) \/ ToolStarts(th) \/ ToolEnds(th)
       \/ PauseTick(th) \/ PauseTaken(th) \/ TurnEnds(th)
       \/ BackgroundStarts(th) \/ BackgroundEnds(th) \/ View(th) \/ Move(th)
  \/ UpdateForced \/ \E auto \in BOOLEAN : UpdateAsked(auto)
  \/ AdvanceTick \/ LimitPasses \/ BoundPasses
  \/ \E d \in Drains : UpdaterFails(d) \/ UpdaterReads(d) \/ UpdaterOver(d)

Spec == Init /\ [][Next]_vars

(* Timers expire and the updater ends: each of its runs has a time limit.    *)
(* Nothing is assumed of the turns: a tool call may wait for another turn.   *)
Fairness ==
  /\ WF_vars(AdvanceTick) /\ WF_vars(LimitPasses) /\ WF_vars(BoundPasses)
  /\ \A d \in Drains : WF_vars(UpdaterFails(d) \/ UpdaterReads(d)) /\ WF_vars(UpdaterOver(d))

FairSpec == Spec /\ Fairness

-----------------------------------------------------------------------------
(* Properties.                                                             *)

\* The type of every variable.
TypeOK ==
  /\ turn \in [Threads -> {"idle", "opening", "between", "tool", "pausing", "paused"}]
  /\ wanted \subseteq Threads /\ ticks \subseteq Threads /\ waitsOn \in [Threads -> 0..MaxUpdates]
  /\ bg \subseteq Threads /\ proc \subseteq Threads /\ moved \subseteq Movable
  /\ cur \in 0..MaxUpdates /\ asked \in 0..MaxUpdates
  /\ phase \in [Drains -> {"none", "background", "pause", "idle", "run"}]
  /\ forced \subseteq Drains /\ limit \subseteq Drains /\ bound \subseteq Drains
  /\ updater \in [Drains -> {"no", "runs", "settles", "over"}]
  /\ entry \in {"idle", "updating", "failed", "current"} /\ adv \in BOOLEAN
  /\ replaced \subseteq Drains

\* While the updater replaces the program no turn of the agent runs unpaused
\* (agent-updates.md: `The updater starts once no turn of the agent runs unpaused').
UpdaterAlone == \A d \in Drains : updater[d] = "runs" => Running(turn) = Paused(turn)

Replacing(up) == \E d \in Drains : up[d] = "runs"
\* The turns that run unpaused while an updater runs.
Beside(now, up) == IF Replacing(up) THEN Running(now) \ Paused(now) ELSE {}

\* No turn joins a running updater: the only ones beside it are those the pause
\* limit let go in the moment it began (updates.ts #postpone).
NoneJoinsUpdater ==
  [][\A th \in Beside(turn', updater') \ Beside(turn, updater) :
       turn[th] = "paused" /\ ~Replacing(updater)]_vars

\* While the updater replaces the program no agent of the provider is alive
\* (updates.ts: `A running program cannot be replaced, and a warm session is one').
AllReleased == \A d \in Drains : updater[d] = "runs" => proc = {}

\* The updater begins with no agent alive and none joins it, but for those of
\* turns beside it, of threads that moved to another agent, and of conversations
\* somebody looks at.
ReleasedFirst ==
  [][Replacing(updater') =>
       proc' \subseteq (IF Replacing(updater) THEN proc ELSE {})
                        \union Beside(turn', updater') \union moved \union Viewable]_vars

\* The agents of the paused turns alone (agent-updates.md: `the paused turns' included').
PausedReleased == \A d \in Drains : updater[d] = "runs" => Paused(turn) \cap proc = {}

\* An update that still waits has something to wait for, or is about to look
\* again: no end of a turn, of a pause or of background work goes unnoticed.
NoMissedAdvance ==
  cur # 0 /\ ~Holds /\ ~adv => WaitingFor(turn, bg, cur \in forced) # {}

\* The start of an update that is not forced ends nobody's background work.
BackgroundKept ==
  [][\A d \in Drains : updater[d] = "no" /\ updater'[d] = "runs" /\ d \notin forced' => bg' = bg]_vars

\* `When the updater is done, each paused turn goes on' (agent-updates.md) is what
\* the code means to do: none waits on an update that is over.
EachGoesOn == \A th \in Threads, d \in Drains : turn[th] = "paused" /\ waitsOn[th] = d => updater[d] # "over"

\* The update a paused turn waits on was replaced before it had settled: its
\* promise is never resolved, and only a Stop ends the turn.
Orphaned(th) == waitsOn[th] \in replaced

\* A paused turn waits on the update that is under way, which is to let it go, or
\* on one that another update took the place of before it had settled: neither
\* the end of an updater nor the pause limit leaves a turn behind in another way.
NoneLeftPaused ==
  \A th \in Threads : turn[th] = "paused" => (cur # 0 /\ waitsOn[th] = cur) \/ Orphaned(th)

\* A turn paused between two tool calls goes on: after the updater, or past the
\* pause limit if another turn never reaches its own pause; but for the turns of
\* an update that is replaced before it has settled.
PausedGoesOn ==
  \A th \in Threads :
    (turn[th] = "paused" /\ waitsOn[th] = cur /\ WantsPause) ~> (turn[th] # "paused" \/ Orphaned(th))

\* Background work never holds an automatic update for good.
BackgroundIsBounded == (cur # 0 /\ phase[cur] = "background") ~> (cur = 0 \/ phase[cur] # "background")

\* `Past the limit ... no turn is paused again' (agent-updates.md).
NoPauseAfterLimit ==
  [][\A th \in Threads : turn[th] # "paused" /\ turn'[th] = "paused" => phase[cur] # "idle"]_vars

=============================================================================
