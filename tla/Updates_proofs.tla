--------------------------- MODULE Updates_proofs ---------------------------
(***************************************************************************)
(* Proofs about AgentUpdates, for any threads and any number of updates:   *)
(* one updater runs at a time and it is the current drain's, an update     *)
(* that waits has something to wait for, no turn joins a running updater,  *)
(* and no paused turn is left behind but by an update that another one     *)
(* took the place of before it had settled.                                *)
(*                                                                         *)
(* Then about FileLock, the lock that a core and the restorer of an update *)
(* hand each other, for any number of processes and inodes: its invariant  *)
(* is inductive, it gives Exclusive, and every step is a Take, a Leave or  *)
(* a stutter of DataLock.                                                  *)
(*                                                                         *)
(* Last about ServerRestore, for any cores started by hand and any number  *)
(* of kills, faults and power cuts: whoever runs holds the directory at    *)
(* the path alone, what is on record can be restored, and until the owner  *)
(* interferes the previous version runs on its own data only.              *)
(***************************************************************************)
EXTENDS AgentUpdates, ServerRestore, TLAPS

CONSTANTS LockProcs, Inodes
VARIABLES path, flock, named, native, lockPc, ino, lockKept
Lock == INSTANCE FileLock WITH Procs <- LockProcs, pc <- lockPc, kept <- lockKept

Places == {"idle", "opening", "between", "tool", "pausing", "paused"}
Phases == {"none", "background", "pause", "idle", "run"}
Stand == [phase : Phases \ {"run"}, forced : BOOLEAN, limit : BOOLEAN, bound : BOOLEAN]

\* Drains come into being one by one.
Fresh ==
  /\ cur <= asked /\ forced \subseteq 1..asked
  /\ \A d \in Drains : d > asked => updater[d] = "no"

\* An updater that runs is the current drain's, whose entry says so.
OneUpdater == \A d \in Drains : updater[d] = "runs" => d = cur /\ entry = "updating"

\* The phase of the current drain tells whether its updater has begun; then no
\* limit holds it any more.
PhaseTells ==
  cur # 0 =>
    /\ updater[cur] # "over"
    /\ phase[cur] = "run" <=> updater[cur] # "no"
    /\ updater[cur] = "no" => entry = "updating"
    /\ updater[cur] # "no" => cur \notin bound

IInv == TypeOK /\ Fresh /\ OneUpdater /\ PhaseTells

LEMMA InitIInv == Init => IInv /\ NoMissedAdvance /\ NoneLeftPaused
<1> SUFFICES ASSUME Init PROVE IInv /\ NoMissedAdvance /\ NoneLeftPaused
  OBVIOUS
<1> USE BoundAssumption
<1>1. TypeOK
  <2>1. adv \in BOOLEAN
    BY Zenon DEF Init
  <2> QED BY <2>1 DEF Init, TypeOK, Drains
<1> QED BY <1>1 DEF Init, IInv, Fresh, OneUpdater, PhaseTells, NoMissedAdvance, NoneLeftPaused, Drains

(***************************************************************************)
(* #advance.                                                               *)
(***************************************************************************)

\* The updater of d begins: beside it are only the turns let go just before.
Begins(d, went) ==
  /\ updater' = [updater EXCEPT ![d] = "runs"] /\ phase'[d] = "run" /\ d \notin bound'
  /\ Running(turn') \ Paused(turn') \subseteq went

\* Drain d waits on, for something.
WaitsOn(d) ==
  /\ updater' = updater /\ phase'[d] # "run"
  /\ WaitingFor(turn', bg', d \in forced') # {}

LEMMA AdvanceType ==
  ASSUME TypeOK, NEW d \in Drains, NEW from \in Stand, NEW now \in [Threads -> Places],
         NEW work \in SUBSET Threads, NEW went \in SUBSET Threads,
         Advance(d, from, now, work, went)
  PROVE  /\ turn' \in [Threads -> Places]
         /\ wanted' \subseteq Threads /\ ticks' \subseteq Threads
         /\ bg' \subseteq Threads /\ proc' \subseteq Threads
         /\ phase' \in [Drains -> Phases]
         /\ forced' \subseteq Drains /\ limit' \subseteq Drains /\ bound' \subseteq Drains
         /\ updater' \in [Drains -> {"no", "runs", "settles", "over"}]
<1> USE DEF Advance, TypeOK
<1>1. turn' \in [Threads -> Places]
  BY DEF Places
<1>2. wanted' \subseteq Threads /\ ticks' \subseteq Threads
  BY DEF Asks, Ready, Running
<1>3. bg' \subseteq Threads /\ proc' \subseteq Threads
  BY DEF Released
<1>4. phase' \in [Drains -> Phases]
  BY DEF Phases, Stand
<1>5. forced' \subseteq Drains /\ limit' \subseteq Drains /\ bound' \subseteq Drains
  BY DEF Stand
<1>6. updater' \in [Drains -> {"no", "runs", "settles", "over"}]
  OBVIOUS
<1> QED BY <1>1, <1>2, <1>3, <1>4, <1>5, <1>6

LEMMA AdvanceLooks ==
  ASSUME TypeOK, NEW d \in Drains, NEW from \in Stand, NEW now \in [Threads -> Places],
         NEW work \in SUBSET Threads, NEW went \in SUBSET Paused(now),
         d \in forced => from.forced,
         Advance(d, from, now, work, went)
  PROVE  /\ Begins(d, went) \/ WaitsOn(d)
         /\ \A e \in Drains \ {d} : phase'[e] = phase[e] /\ (e \in forced' <=> e \in forced)
<1> DEFINE waits == WaitingFor(now, work, from.forced)
<1>0. went \subseteq Threads
  BY DEF Paused, Running
<1>1. turn' = [th \in Threads |-> IF th \in went THEN "between" ELSE now[th]]
  BY DEF Advance
<1>2. \A e \in Drains \ {d} : phase'[e] = phase[e] /\ (e \in forced' <=> e \in forced)
  BY DEF Advance, TypeOK
<1>3. CASE waits = {}
  <2>1. updater' = [updater EXCEPT ![d] = "runs"] /\ phase'[d] = "run" /\ d \notin bound'
    BY <1>3 DEF Advance, TypeOK
  <2>2. Running(now) \ Paused(now) = {}
    BY <1>3 DEF WaitingFor
  <2>3. Running(turn') \ Paused(turn') \subseteq went
    BY <1>1, <2>2 DEF Running, Paused
  <2> QED BY <1>2, <2>1, <2>3 DEF Begins
<1>4. CASE waits # {}
  <2>1. updater' = updater /\ bg' = work
    BY <1>4 DEF Advance
  <2>2. phase'[d] # "run"
    BY <1>4 DEF Advance, TypeOK, Stand, Phases
  <2>3. d \in forced' <=> from.forced
    BY DEF Advance
  <2>4. waits \subseteq WaitingFor(turn', bg', d \in forced')
    <3>1. Running(now) \ Paused(now) \subseteq Running(turn') \ Paused(turn')
      BY <1>1 DEF Running, Paused
    <3>2. Holders(now, work) \subseteq Holders(turn', work) \union (Running(turn') \ Paused(turn'))
      BY <1>1 DEF Running, Paused, Holders
    <3> QED BY <2>1, <2>3, <3>1, <3>2 DEF WaitingFor
  <2> QED BY <1>4, <1>2, <2>1, <2>2, <2>4 DEF WaitsOn
<1> QED BY <1>3, <1>4

(***************************************************************************)
(* The kinds of steps.                                                     *)
(***************************************************************************)

\* What a step other than the updater's does to the paused turns.
PausedFor ==
  \A th \in Threads : turn'[th] = "paused" =>
    \/ turn[th] = "paused" /\ waitsOn'[th] = waitsOn[th]
    \/ cur # 0 /\ waitsOn'[th] = cur

\* The drains stay, and what the current one waits for too, unless it is to look.
Quiet ==
  /\ UNCHANGED <<cur, asked, phase, forced, bound, updater, entry, replaced>>
  /\ \/ cur = 0 \/ Holds \/ adv'
     \/ ~adv /\ WaitingFor(turn, bg, cur \in forced) \subseteq WaitingFor(turn, bg, cur \in forced)'
  /\ Holds => Running(turn') \ Paused(turn') \subseteq Running(turn) \ Paused(turn)
  /\ PausedFor

\* The current drain, whose updater has not begun, looks.
Looks ==
  /\ cur # 0 /\ ~Holds /\ UNCHANGED <<cur, asked, entry, moved, replaced>>
  /\ Begins(cur, Paused(turn)) \/ WaitsOn(cur)
  /\ \A e \in Drains \ {cur} : phase'[e] = phase[e] /\ (e \in forced' <=> e \in forced)
  /\ PausedFor

\* A new drain takes the place of the current one, and looks.
Asked ==
  /\ asked < MaxUpdates /\ entry # "updating"
  /\ asked' = asked + 1 /\ cur' = asked + 1 /\ entry' = "updating" /\ UNCHANGED moved
  /\ replaced' = replaced \union ({cur} \ {0})
  /\ Begins(asked + 1, {}) \/ WaitsOn(asked + 1)
  /\ \A e \in Drains \ {asked + 1} : phase'[e] = phase[e] /\ (e \in forced' <=> e \in forced)
  /\ UNCHANGED <<waitsOn>> /\ \A th \in Threads : turn'[th] = "paused" <=> turn[th] = "paused"

\* The updater of d has the version, or is over.
Updates(d) ==
  /\ UNCHANGED <<asked, phase, forced, bound, bg, moved, adv, replaced>>
  /\ \/ /\ updater[d] = "runs" /\ updater' = [updater EXCEPT ![d] = "settles"]
        /\ entry' \in {"failed", "current"}
        /\ UNCHANGED <<cur, turn, waitsOn>>
     \/ /\ updater[d] \in {"runs", "settles"} /\ updater' = [updater EXCEPT ![d] = "over"]
        /\ updater[d] = "settles" => UNCHANGED entry
        /\ IF cur = d
             THEN /\ cur' = 0
                  /\ \A th \in Threads : turn'[th] = "paused" =>
                       turn[th] = "paused" /\ waitsOn[th] # d /\ waitsOn'[th] = waitsOn[th]
             ELSE UNCHANGED <<cur, turn, waitsOn>>

LEMMA TurnSteps ==
  ASSUME IInv, NEW th \in Threads,
         \/ TurnStarts(th) \/ AttemptBegins(th) \/ AttemptAgain(th) \/ ToolStarts(th)
         \/ ToolEnds(th) \/ TurnEnds(th) \/ (PauseTick(th) /\ turn' # turn)
  PROVE  TypeOK' /\ Quiet
<1> USE DEF IInv, TypeOK, vars, turns, drains
<1>1. /\ turn' = [turn EXCEPT ![th] = turn'[th]]
      /\ turn'[th] \in Places \ {"paused"}
      /\ turn[th] # "paused" \/ TurnEnds(th)
      /\ turn[th] # "idle" \/ ~Holds
  <2>1. CASE TurnStarts(th) \/ AttemptBegins(th) \/ AttemptAgain(th) \/ ToolStarts(th) \/ ToolEnds(th)
    BY <2>1 DEF Places, TurnStarts, MayStart, AttemptBegins, AttemptAgain, ToolStarts, ToolEnds
  <2>2. CASE PauseTick(th) /\ turn' # turn
    BY <2>2 DEF Places, PauseTick
  <2>3. CASE TurnEnds(th)
    BY <2>3 DEF Places, TurnEnds
  <2> QED BY <2>1, <2>2, <2>3
<1>2. turn'[th] # "idle" \/ adv' \/ cur = 0
  <2>1. CASE TurnEnds(th)
    BY Zenon, <2>1 DEF TurnEnds, Told
  <2>2. CASE ~TurnEnds(th)
    BY <2>2 DEF TurnStarts, AttemptBegins, AttemptAgain, ToolStarts, ToolEnds, PauseTick, MayStart
  <2> QED BY <2>1, <2>2
<1>3. UNCHANGED <<bg, moved, cur, asked, phase, forced, limit, bound, updater, entry, replaced>>
  BY DEF TurnStarts, AttemptBegins, AttemptAgain, ToolStarts, ToolEnds, PauseTick, TurnEnds
<1>4. adv' \in BOOLEAN
  BY Zenon DEF TurnStarts, AttemptBegins, AttemptAgain, ToolStarts, ToolEnds, PauseTick, TurnEnds, Told
<1>5. /\ proc' \subseteq Threads /\ wanted' \subseteq Threads /\ ticks' \subseteq Threads
      /\ waitsOn' \in [Threads -> 0..MaxUpdates]
  BY BoundAssumption DEF TurnStarts, AttemptBegins, AttemptAgain, ToolStarts, ToolEnds, PauseTick, TurnEnds
<1>6. TypeOK'
  <2>1. turn' \in [Threads -> Places]
    BY <1>1 DEF Places
  <2> QED BY <1>3, <1>4, <1>5, <2>1 DEF Places
<1>7. adv => adv'
  BY Zenon DEF TurnStarts, AttemptBegins, AttemptAgain, ToolStarts, ToolEnds, PauseTick, TurnEnds, Told
<1>8. turn'[th] # "idle" => WaitingFor(turn, bg, cur \in forced) \subseteq WaitingFor(turn, bg, cur \in forced)'
  BY <1>1, <1>3 DEF WaitingFor, Running, Paused, Holders, Places
<1>9. Holds => Running(turn') \ Paused(turn') \subseteq Running(turn) \ Paused(turn)
  <2>1. CASE TurnEnds(th)
    BY <2>1 DEF TurnEnds, Running, Paused
  <2>2. CASE ~TurnEnds(th)
    BY <2>2, <1>1 DEF Running, Paused
  <2> QED BY <2>1, <2>2
<1>10. PausedFor
  <2>1. \A o \in Threads : waitsOn'[o] = waitsOn[o] \/ o = th
    BY DEF TurnStarts, AttemptBegins, AttemptAgain, ToolStarts, ToolEnds, PauseTick, TurnEnds
  <2> QED BY <1>1, <2>1 DEF PausedFor, Places
<1> QED BY <1>1, <1>2, <1>3, <1>6, <1>7, <1>8, <1>9, <1>10 DEF Quiet

LEMMA AgentSteps ==
  ASSUME IInv, NEW th \in Threads,
         \/ BackgroundStarts(th) \/ BackgroundEnds(th) \/ View(th) \/ Move(th)
         \/ (PauseTick(th) /\ turn' = turn)
  PROVE  TypeOK' /\ Quiet
<1> USE DEF IInv, TypeOK, vars, turns, drains
<1>1. /\ UNCHANGED <<turn, waitsOn, cur, asked, phase, forced, limit, bound, updater, entry, replaced>>
      /\ wanted' \subseteq wanted /\ ticks' \subseteq ticks
  BY DEF BackgroundStarts, BackgroundEnds, View, Move, PauseTick
<1>2. adv' \in BOOLEAN /\ (adv => adv')
  BY Zenon DEF BackgroundStarts, BackgroundEnds, View, Move, PauseTick, Told
<1>3. bg' \subseteq Threads /\ proc' \subseteq Threads /\ moved' \subseteq Movable
  BY UseAssumption DEF BackgroundStarts, BackgroundEnds, View, Move, PauseTick
<1>4. TypeOK'
  BY <1>1, <1>2, <1>3
<1>5. adv' \/ cur = 0 \/ WaitingFor(turn, bg, cur \in forced) \subseteq WaitingFor(turn, bg, cur \in forced)'
  <2>1. CASE BackgroundStarts(th) \/ BackgroundEnds(th)
    BY <2>1 DEF BackgroundStarts, BackgroundEnds, Told
  <2>2. CASE View(th)
    BY <1>1, <2>2 DEF View, WaitingFor, Holders, Running, Paused
  <2>3. CASE Move(th)
    <3>1. CASE th \in bg
      BY <2>3, <3>1 DEF Move
    <3>2. CASE th \notin bg
      BY <1>1, <2>3, <3>2 DEF Move, WaitingFor, Holders, Running, Paused
    <3> QED BY <3>1, <3>2
  <2>4. CASE PauseTick(th)
    BY <1>1, <2>4 DEF PauseTick, WaitingFor, Holders, Running, Paused
  <2> QED BY <2>1, <2>2, <2>3, <2>4
<1> QED BY <1>1, <1>2, <1>4, <1>5 DEF Quiet, PausedFor

\* The current drain as it stands, before its updater begins.
LEMMA NowStands ==
  ASSUME TypeOK, cur # 0, ~Holds
  PROVE  cur \in Drains /\ Now(cur) \in Stand /\ (Now(cur).forced <=> cur \in forced)
<1>1. cur \in Drains
  BY BoundAssumption DEF TypeOK, Drains
<1>2. phase[cur] \in Phases \ {"run"}
  BY <1>1 DEF TypeOK, Holds, Phases
<1>3. (cur \in forced) \in BOOLEAN /\ (cur \in limit) \in BOOLEAN /\ (cur \in bound) \in BOOLEAN
  BY SMT
<1> QED BY <1>1, <1>2, <1>3 DEF Now, Stand

LEMMA PauseTakenStep ==
  ASSUME IInv, NEW th \in Threads, PauseTaken(th)
  PROVE  TypeOK' /\ (Quiet \/ Looks)
<1> USE DEF IInv
<1>1. UNCHANGED <<moved, entry, adv, cur, asked, replaced>> /\ turn[th] = "pausing"
  BY DEF PauseTaken, drains
<1>2. cur # 0 => cur \in Drains
  BY BoundAssumption DEF TypeOK, Drains
<1>3. CASE cur = 0 \/ Holds
  <2>1. \/ /\ cur = 0 /\ turn' = [turn EXCEPT ![th] = "between"]
           /\ UNCHANGED <<wanted, ticks, waitsOn, bg, proc, drains>>
        \/ /\ cur # 0 /\ turn' = [turn EXCEPT ![th] = "paused"]
           /\ waitsOn' = [waitsOn EXCEPT ![th] = cur]
           /\ UNCHANGED <<wanted, ticks, bg, proc, phase, forced, limit, bound, updater>>
    BY Zenon, <1>3 DEF PauseTaken
  <2>2. /\ turn' \in [Threads -> Places]
        /\ \A o \in Threads : turn'[o] = "paused" => (turn[o] = "paused" /\ o # th) \/ (cur # 0 /\ o = th)
        /\ \A o \in Threads : turn'[o] # turn[o] => o = th
    BY <2>1 DEF TypeOK, Places
  <2>3. /\ waitsOn' \in [Threads -> 0..MaxUpdates]
        /\ \A o \in Threads : waitsOn'[o] = waitsOn[o] \/ (cur # 0 /\ o = th /\ waitsOn'[th] = cur)
    BY <2>1 DEF TypeOK
  <2>4. UNCHANGED <<wanted, ticks, bg, proc, phase, forced, limit, bound, updater>>
    BY <2>1 DEF drains
  <2>5. TypeOK'
    BY <1>1, <2>2, <2>3, <2>4 DEF TypeOK, Places
  <2>6. Running(turn') \ Paused(turn') \subseteq Running(turn) \ Paused(turn)
    BY <1>1, <2>2 DEF Running, Paused
  <2>7. PausedFor
    BY <2>1, <2>2, <2>3 DEF PausedFor
  <2> QED BY <1>1, <1>3, <2>4, <2>5, <2>6, <2>7 DEF Quiet
<1>4. CASE cur # 0 /\ ~Holds
  <2> DEFINE now == [turn EXCEPT ![th] = "paused"]
             from == [Now(cur) EXCEPT !.limit = @ \/ (Limited /\ WantsPause)]
  <2>1. Advance(cur, from, now, bg, {}) /\ waitsOn' = [waitsOn EXCEPT ![th] = cur]
    BY <1>4 DEF PauseTaken
  <2>2. cur \in Drains /\ Now(cur) \in Stand /\ (Now(cur).forced <=> cur \in forced)
    BY <1>4, NowStands
  <2>3. from \in Stand /\ from.forced = Now(cur).forced
    <3>1. (Now(cur).limit \/ (Limited /\ WantsPause)) \in BOOLEAN
      BY Zenon
    <3> QED BY <2>2, <3>1 DEF Stand
  <2>4. now \in [Threads -> Places] /\ bg \in SUBSET Threads /\ {} \in SUBSET Paused(now) /\ {} \in SUBSET Threads
    BY DEF TypeOK, Places
  <2>5. /\ Begins(cur, {}) \/ WaitsOn(cur)
        /\ \A e \in Drains \ {cur} : phase'[e] = phase[e] /\ (e \in forced' <=> e \in forced)
    <3> HIDE DEF now, from
    <3> QED BY <2>1, <2>2, <2>3, <2>4, AdvanceLooks
  <2>6. TypeOK'
    <3>1. /\ turn' \in [Threads -> Places]
          /\ wanted' \subseteq Threads /\ ticks' \subseteq Threads
          /\ bg' \subseteq Threads /\ proc' \subseteq Threads
          /\ phase' \in [Drains -> Phases]
          /\ forced' \subseteq Drains /\ limit' \subseteq Drains /\ bound' \subseteq Drains
          /\ updater' \in [Drains -> {"no", "runs", "settles", "over"}]
      <4> HIDE DEF now, from
      <4> QED BY <2>1, <2>2, <2>3, <2>4, AdvanceType
    <3> QED BY <1>1, <2>1, <3>1 DEF TypeOK, Places, Phases
  <2>7. turn' = now
    BY <2>1, <2>4 DEF Advance
  <2>8. PausedFor
    BY <1>4, <2>1, <2>7 DEF PausedFor, TypeOK
  <2> QED BY <1>1, <1>4, <2>5, <2>6, <2>8 DEF Looks, Begins
<1> QED BY <1>3, <1>4

\* A look of the current drain at the turns and the work as they are.
LEMMA LookStep ==
  ASSUME IInv, cur # 0, ~Holds, NEW from \in Stand, NEW went \in SUBSET Paused(turn),
         cur \in forced => from.forced,
         Advance(cur, from, turn, bg, went),
         UNCHANGED <<moved, cur, asked, replaced, entry>>, adv' \in BOOLEAN,
         waitsOn' \in [Threads -> 0..MaxUpdates],
         \A th \in Paused(turn) \ went : waitsOn'[th] = waitsOn[th]
  PROVE  TypeOK' /\ Looks
<1> USE DEF IInv
<1>1. /\ cur \in Drains /\ went \in SUBSET Threads
      /\ turn \in [Threads -> Places] /\ bg \in SUBSET Threads
  BY NowStands DEF TypeOK, Places, Paused, Running
<1>2. /\ Begins(cur, went) \/ WaitsOn(cur)
      /\ \A e \in Drains \ {cur} : phase'[e] = phase[e] /\ (e \in forced' <=> e \in forced)
  BY <1>1, AdvanceLooks
<1>3. /\ turn' \in [Threads -> Places]
      /\ wanted' \subseteq Threads /\ ticks' \subseteq Threads
      /\ bg' \subseteq Threads /\ proc' \subseteq Threads
      /\ phase' \in [Drains -> Phases]
      /\ forced' \subseteq Drains /\ limit' \subseteq Drains /\ bound' \subseteq Drains
      /\ updater' \in [Drains -> {"no", "runs", "settles", "over"}]
  BY <1>1, AdvanceType
<1>4. TypeOK'
  BY <1>3, BoundAssumption DEF TypeOK, Places, Phases
<1>5. PausedFor
  BY DEF Advance, PausedFor, Paused, Running
<1> QED BY <1>2, <1>4, <1>5 DEF Looks, Begins

LEMMA DrainSteps ==
  ASSUME IInv, UpdateForced \/ AdvanceTick \/ LimitPasses \/ BoundPasses
  PROVE  TypeOK' /\ (Quiet \/ Looks)
<1> USE DEF IInv
<1>1. {} \in SUBSET Paused(turn)
  OBVIOUS
<1>2. waitsOn \in [Threads -> 0..MaxUpdates]
  BY DEF TypeOK
<1>3. ASSUME UNCHANGED <<turn, waitsOn, wanted, ticks, bg, proc, moved, cur, asked, phase,
                         forced, limit, bound, updater, entry, replaced>>,
             adv' \in BOOLEAN, cur = 0 \/ Holds
      PROVE  TypeOK' /\ Quiet
  <2>1. TypeOK'
    BY <1>3 DEF TypeOK
  <2> QED BY <2>1, <1>3 DEF Quiet, PausedFor
<1>4. CASE UpdateForced
  <2>1. UNCHANGED <<waitsOn, moved, cur, asked, replaced, entry, adv>> /\ adv' \in BOOLEAN
    BY <1>4 DEF UpdateForced, TypeOK
  <2>2. CASE Holds
    BY <1>3, <1>4, <2>1, <2>2 DEF UpdateForced
  <2>3. CASE ~Holds
    <3>1. cur # 0 /\ Advance(cur, [Now(cur) EXCEPT !.forced = TRUE, !.bound = FALSE], turn, bg, {})
      BY <1>4, <2>3 DEF UpdateForced
    <3>2. /\ [Now(cur) EXCEPT !.forced = TRUE, !.bound = FALSE] \in Stand
          /\ [Now(cur) EXCEPT !.forced = TRUE, !.bound = FALSE].forced
      BY <2>3, <3>1, NowStands DEF Stand
    <3> QED BY <1>1, <1>2, <2>1, <2>3, <3>1, <3>2, LookStep
  <2> QED BY <2>2, <2>3
<1>5. CASE AdvanceTick
  <2>1. UNCHANGED <<waitsOn, moved, cur, asked, replaced, entry>> /\ adv' \in BOOLEAN
    BY <1>5 DEF AdvanceTick
  <2>2. CASE cur = 0 \/ Holds
    BY <1>3, <1>5, <2>1, <2>2 DEF AdvanceTick
  <2>3. CASE cur # 0 /\ ~Holds
    <3>1. Advance(cur, Now(cur), turn, bg, {})
      BY <1>5, <2>3 DEF AdvanceTick
    <3>2. Now(cur) \in Stand /\ (cur \in forced => Now(cur).forced)
      BY <2>3, NowStands
    <3> QED BY <1>1, <1>2, <2>1, <2>3, <3>1, <3>2, LookStep
  <2> QED BY <2>2, <2>3
<1>6. CASE LimitPasses
  <2> DEFINE went == {th \in Paused(turn) : waitsOn[th] = cur}
             from == [Now(cur) EXCEPT !.phase = "idle", !.limit = FALSE]
  <2>1. /\ cur # 0 /\ ~Holds /\ UNCHANGED <<moved, cur, asked, replaced, entry, adv>>
        /\ Advance(cur, from, turn, bg, went)
    BY <1>6 DEF LimitPasses, Holds
  <2>2. adv' \in BOOLEAN
    BY Zenon, <2>1 DEF TypeOK
  <2>3. /\ waitsOn' \in [Threads -> 0..MaxUpdates]
        /\ \A th \in Paused(turn) \ went : waitsOn'[th] = waitsOn[th]
    <3>1. waitsOn' = [th \in Threads |-> IF waitsOn[th] = cur THEN 0 ELSE waitsOn[th]]
      BY <1>6 DEF LimitPasses
    <3> QED BY <3>1, BoundAssumption DEF TypeOK, Paused, Running
  <2>4. from \in Stand /\ (cur \in forced => from.forced)
    BY <2>1, NowStands DEF Stand, Phases
  <2>5. went \in SUBSET Paused(turn)
    OBVIOUS
  <2> HIDE DEF went, from
  <2> QED BY <2>1, <2>2, <2>3, <2>4, <2>5, LookStep
<1>7. CASE BoundPasses
  <2>1. /\ UNCHANGED <<waitsOn, moved, cur, asked, replaced, entry, adv>> /\ adv' \in BOOLEAN
        /\ cur # 0
        /\ Advance(cur, [Now(cur) EXCEPT !.forced = TRUE, !.bound = FALSE], turn, bg, {})
    BY <1>7 DEF BoundPasses, TypeOK
  <2>2. ~Holds
    BY <1>7 DEF BoundPasses, Holds, PhaseTells
  <2>3. /\ [Now(cur) EXCEPT !.forced = TRUE, !.bound = FALSE] \in Stand
        /\ [Now(cur) EXCEPT !.forced = TRUE, !.bound = FALSE].forced
    BY <2>1, <2>2, NowStands DEF Stand
  <2> QED BY <1>1, <1>2, <2>1, <2>2, <2>3, LookStep
<1> QED BY <1>4, <1>5, <1>6, <1>7

LEMMA UpdateAskedStep ==
  ASSUME IInv, NEW auto \in BOOLEAN, UpdateAsked(auto)
  PROVE  TypeOK' /\ Asked
<1> USE DEF IInv
<1> DEFINE d == asked + 1
           from == [phase |-> "background", forced |-> ~auto, limit |-> FALSE, bound |-> auto]
<1>1. /\ asked < MaxUpdates /\ entry # "updating"
      /\ replaced' = replaced \union ({cur} \ {0})
      /\ asked' = d /\ cur' = d /\ entry' = "updating" /\ UNCHANGED <<waitsOn, moved, adv>>
      /\ Advance(d, from, turn, bg, {})
  BY DEF UpdateAsked
<1>2. d \in Drains /\ d \notin forced
  BY <1>1, BoundAssumption DEF Drains, TypeOK, Fresh
<1>3. /\ from \in Stand /\ turn \in [Threads -> Places]
      /\ bg \in SUBSET Threads /\ {} \in SUBSET Threads /\ {} \in SUBSET Paused(turn)
  BY DEF Stand, Phases, TypeOK, Places
<1>4. /\ Begins(d, {}) \/ WaitsOn(d)
      /\ \A e \in Drains \ {d} : phase'[e] = phase[e] /\ (e \in forced' <=> e \in forced)
  <2> HIDE DEF d, from
  <2> QED BY <1>1, <1>2, <1>3, AdvanceLooks
<1>5. TypeOK'
  <2>1. /\ turn' \in [Threads -> Places]
        /\ wanted' \subseteq Threads /\ ticks' \subseteq Threads
        /\ bg' \subseteq Threads /\ proc' \subseteq Threads
        /\ phase' \in [Drains -> Phases]
        /\ forced' \subseteq Drains /\ limit' \subseteq Drains /\ bound' \subseteq Drains
        /\ updater' \in [Drains -> {"no", "runs", "settles", "over"}]
    <3> HIDE DEF d, from
    <3> QED BY <1>1, <1>2, <1>3, AdvanceType
  <2> QED BY <1>1, <1>2, <2>1 DEF TypeOK, Places, Phases, Drains
<1>6. \A th \in Threads : turn'[th] = "paused" <=> turn[th] = "paused"
  BY <1>1 DEF Advance
<1> QED BY <1>1, <1>4, <1>5, <1>6 DEF Asked

LEMMA UpdaterSteps ==
  ASSUME IInv, NEW d \in Drains, UpdaterFails(d) \/ UpdaterReads(d) \/ UpdaterOver(d)
  PROVE  TypeOK' /\ Updates(d)
<1> USE DEF IInv, turns, drains
<1>1. CASE UpdaterReads(d)
  <2>1. /\ updater[d] = "runs" /\ updater' = [updater EXCEPT ![d] = "settles"]
        /\ UNCHANGED <<turn, wanted, ticks, waitsOn, bg, proc, moved, cur, asked, phase, forced,
                       limit, bound, adv, replaced>>
        /\ entry' \in {"failed", "current"}
    BY <1>1 DEF UpdaterReads
  <2>2. adv' \in BOOLEAN
    BY Zenon, <2>1 DEF TypeOK
  <2>3. TypeOK'
    BY <2>1, <2>2 DEF TypeOK
  <2> QED BY <2>1, <2>3 DEF Updates
<1>2. CASE UpdaterFails(d) \/ UpdaterOver(d)
  <2>1. /\ Finish(d) /\ updater[d] \in {"runs", "settles"}
        /\ updater[d] = "settles" => UNCHANGED entry
        /\ entry' \in {"idle", "updating", "failed", "current"}
    BY <1>2 DEF UpdaterFails, UpdaterOver, TypeOK
  <2>2. /\ updater' = [updater EXCEPT ![d] = "over"]
        /\ UNCHANGED <<wanted, ticks, bg, moved, asked, phase, forced, limit, bound, adv, replaced>>
    BY <2>1 DEF Finish
  <2>3. adv' \in BOOLEAN
    BY Zenon, <2>2 DEF TypeOK
  <2>4. /\ turn' \in [Threads -> Places] /\ waitsOn' \in [Threads -> 0..MaxUpdates]
        /\ proc' \subseteq Threads /\ cur' \in 0..MaxUpdates
    BY <2>1, BoundAssumption DEF Finish, TypeOK, Places, Paused, Running
  <2>5. TypeOK'
    BY <2>1, <2>2, <2>3, <2>4 DEF TypeOK, Places
  <2>6. IF cur = d
          THEN /\ cur' = 0
               /\ \A th \in Threads : turn'[th] = "paused" =>
                    turn[th] = "paused" /\ waitsOn[th] # d /\ waitsOn'[th] = waitsOn[th]
          ELSE UNCHANGED <<cur, turn, waitsOn>>
    BY <2>1 DEF Finish, TypeOK, Paused, Running
  <2> QED BY <2>1, <2>2, <2>5, <2>6 DEF Updates
<1> QED BY <1>1, <1>2

(* Every step is of one of the four kinds.                                 *)
LEMMA StepKinds ==
  ASSUME IInv, Next
  PROVE  TypeOK' /\ (Quiet \/ Looks \/ Asked \/ \E d \in Drains : Updates(d))
BY TurnSteps, AgentSteps, PauseTakenStep, DrainSteps, UpdateAskedStep, UpdaterSteps DEF Next

(***************************************************************************)
(* The invariants, over the kinds of steps.                                *)
(***************************************************************************)

LEMMA StepIInv == IInv /\ [Next]_vars => IInv'
<1> SUFFICES ASSUME IInv, [Next]_vars PROVE IInv'
  OBVIOUS
<1> USE DEF IInv
<1>1. CASE UNCHANGED vars
  BY <1>1 DEF vars, turns, drains, TypeOK, Fresh, OneUpdater, PhaseTells
<1>2. CASE Next
  <2>1. TypeOK'
    BY <1>2, StepKinds
  <2>2. cur # 0 => cur \in Drains
    BY BoundAssumption DEF TypeOK, Drains
  <2>3. CASE Quiet
    BY <2>1, <2>3 DEF Quiet, Fresh, OneUpdater, PhaseTells
  <2>4. CASE Looks
    <3>1. updater[cur] = "no" /\ entry = "updating" /\ UNCHANGED <<cur, asked, entry>> /\ cur \in Drains
      BY <2>2, <2>4 DEF Looks, PhaseTells, Holds
    <3>2. Fresh'
      <4>1. forced' \subseteq 1..asked
        BY <2>1, <2>4, <3>1 DEF Looks, Fresh, TypeOK, Drains
      <4>2. \A e \in Drains \ {cur} : updater'[e] = updater[e]
        BY <2>4, <3>1 DEF Looks, Begins, WaitsOn, TypeOK
      <4> QED BY <3>1, <4>1, <4>2, BoundAssumption DEF Fresh, TypeOK, Drains
    <3>3. OneUpdater' /\ PhaseTells'
      BY <2>4, <3>1 DEF Looks, Begins, WaitsOn, OneUpdater, PhaseTells, TypeOK
    <3> QED BY <2>1, <3>2, <3>3
  <2>5. CASE Asked
    <3> DEFINE d == asked + 1
    <3>1. /\ d \in Drains /\ asked' = d /\ cur' = d /\ entry' = "updating" /\ updater[d] = "no"
          /\ \A e \in Drains : updater[e] # "runs"
      BY <2>5, BoundAssumption DEF Asked, Fresh, OneUpdater, TypeOK, Drains
    <3>2. \A e \in Drains \ {d} : updater'[e] = updater[e]
      BY <2>5, <3>1 DEF Asked, Begins, WaitsOn, TypeOK
    <3>3. Fresh'
      <4>1. forced' \subseteq 1..d
        BY <2>1, <2>5, <3>1 DEF Asked, Fresh, TypeOK, Drains
      <4> QED BY <3>1, <3>2, <4>1 DEF Fresh, TypeOK, Drains
    <3>4. OneUpdater'
      BY <3>1, <3>2, <2>1 DEF OneUpdater
    <3>5. PhaseTells'
      BY <2>5, <3>1 DEF Asked, Begins, WaitsOn, PhaseTells, TypeOK
    <3> QED BY <2>1, <3>3, <3>4, <3>5
  <2>6. ASSUME NEW d \in Drains, Updates(d) PROVE IInv'
    <3>1. \A e \in Drains \ {d} : updater'[e] = updater[e]
      BY <2>6 DEF Updates, TypeOK
    <3>2. updater'[d] \in {"settles", "over"} /\ updater[d] \in {"runs", "settles"} /\ updater[d] # "no"
      BY <2>6 DEF Updates, TypeOK
    <3>3. Fresh'
      BY <2>6, <3>1, <3>2, BoundAssumption DEF Updates, Fresh, TypeOK, Drains
    <3>4. OneUpdater'
      BY <2>6, <3>1, <3>2 DEF Updates, OneUpdater
    <3>5. PhaseTells'
      <4>1. CASE cur' = 0
        BY <4>1 DEF PhaseTells
      <4>2. CASE cur' # 0
        <5>1. cur' = cur /\ UNCHANGED <<phase, bound>> /\ (updater'[d] = "over" => cur # d)
          BY <2>6, <4>2, <3>2 DEF Updates, TypeOK
        <5>2. CASE cur = d
          BY <2>2, <3>2, <4>2, <5>1, <5>2 DEF PhaseTells
        <5>3. CASE cur # d
          <6>1. cur \in Drains /\ updater'[cur] = updater[cur]
            BY <2>2, <3>1, <4>2, <5>1, <5>3
          <6>2. updater[cur] = "no" => updater[d] = "settles" /\ entry' = entry
            BY <2>6, <5>3, <3>2, <6>1 DEF Updates, OneUpdater
          <6> QED BY <4>2, <5>1, <6>1, <6>2 DEF PhaseTells
        <5> QED BY <5>2, <5>3
      <4> QED BY <4>1, <4>2
    <3> QED BY <2>1, <3>3, <3>4, <3>5
  <2> QED BY <1>2, <2>3, <2>4, <2>5, <2>6, StepKinds
<1> QED BY <1>1, <1>2

(* The parts of the state fit together in every state.                     *)
THEOREM Inductive == Spec => []IInv
BY InitIInv, StepIInv, PTL DEF Spec

(* The type invariant of the module, for any threads and updates.          *)
THEOREM TypeCorrect == Spec => []TypeOK
<1>1. IInv => TypeOK
  BY DEF IInv
<1> QED BY <1>1, Inductive, PTL

(* An update that waits, with no look due, has something to wait for: every *)
(* event that could end the wait of `providers/updates.ts` #advance reaches *)
(* it, whatever the turns and the background work do.                       *)
THEOREM NoneForgotten == Spec => []NoMissedAdvance
<1>1. IInv /\ NoMissedAdvance /\ [Next]_vars => NoMissedAdvance'
  <2> SUFFICES ASSUME IInv, NoMissedAdvance, [Next]_vars PROVE NoMissedAdvance'
    OBVIOUS
  <2>1. CASE UNCHANGED vars
    BY <2>1 DEF vars, turns, drains, NoMissedAdvance, Holds, WaitingFor, Running, Paused, Holders
  <2>2. CASE Quiet
    BY <2>2 DEF Quiet, NoMissedAdvance, Holds
  <2>3. CASE Looks
    <3>1. cur' = cur /\ moved' = moved
      BY <2>3 DEF Looks
    <3>2. CASE phase'[cur] = "run"
      BY <2>3, <3>1, <3>2 DEF Looks, NoMissedAdvance, Holds
    <3>3. CASE phase'[cur] # "run"
      <4>1. WaitingFor(turn', bg', cur \in forced') # {}
        BY <2>3, <3>3 DEF Looks, Begins, WaitsOn
      <4>2. WaitingFor(turn, bg, cur \in forced)' = WaitingFor(turn', bg', cur \in forced')
        BY <3>1 DEF WaitingFor, Holders
      <4> QED BY <4>1, <4>2 DEF NoMissedAdvance
    <3> QED BY <3>2, <3>3
  <2>4. CASE Asked
    <3> DEFINE d == asked + 1
    <3>1. cur' = d /\ moved' = moved
      BY <2>4 DEF Asked
    <3>2. CASE phase'[d] = "run"
      BY <2>4, <3>1, <3>2 DEF Asked, NoMissedAdvance, Holds
    <3>3. CASE phase'[d] # "run"
      <4>1. WaitingFor(turn', bg', d \in forced') # {}
        BY <2>4, <3>3 DEF Asked, Begins, WaitsOn
      <4>2. WaitingFor(turn, bg, cur \in forced)' = WaitingFor(turn', bg', d \in forced')
        BY <3>1 DEF WaitingFor, Holders
      <4> QED BY <4>1, <4>2 DEF NoMissedAdvance
    <3> QED BY <3>2, <3>3
  <2>5. ASSUME NEW d \in Drains, Updates(d) PROVE NoMissedAdvance'
    <3>1. CASE cur' = 0
      BY <3>1 DEF NoMissedAdvance
    <3>2. CASE cur' # 0
      <4>1. UNCHANGED <<cur, turn, bg, moved, forced, phase, adv>>
        BY <2>5, <3>2 DEF Updates
      <4> QED BY <4>1 DEF NoMissedAdvance, Holds, WaitingFor, Running, Paused, Holders
    <3> QED BY <3>1, <3>2
  <2> QED BY <2>1, <2>2, <2>3, <2>4, <2>5, StepKinds
<1> QED BY <1>1, InitIInv, Inductive, PTL DEF Spec

(* No turn joins a running updater: the turns beside it are those the pause *)
(* limit let go in the step that began it.                                  *)
THEOREM NoneJoins == Spec => NoneJoinsUpdater
<1> DEFINE Joins == \A th \in Beside(turn', updater') \ Beside(turn, updater) :
                      turn[th] = "paused" /\ ~Replacing(updater)
<1>1. IInv /\ [Next]_vars => [Joins]_vars
  <2> SUFFICES ASSUME IInv, Next PROVE Joins
    OBVIOUS
  <2> USE DEF IInv
  <2>1. Replacing(updater) => Holds
    BY BoundAssumption DEF Replacing, OneUpdater, PhaseTells, Holds, Drains, TypeOK
  <2>2. CASE Quiet
    BY <2>1, <2>2 DEF Quiet, Beside
  <2>3. CASE Looks
    <3>1. ~Replacing(updater) /\ cur \in Drains
      BY <2>1, <2>3, BoundAssumption DEF Looks, TypeOK, Drains
    <3>2. CASE Begins(cur, Paused(turn))
      BY <3>1, <3>2 DEF Begins, Beside, Paused, Running
    <3>3. CASE WaitsOn(cur)
      BY <3>1, <3>3 DEF WaitsOn, Beside, Replacing
    <3> QED BY <2>3, <3>2, <3>3 DEF Looks
  <2>4. CASE Asked
    <3>1. ~Replacing(updater)
      BY <2>4 DEF Asked, Replacing, OneUpdater
    <3>2. CASE Begins(asked + 1, {})
      BY <3>2 DEF Begins, Beside
    <3>3. CASE WaitsOn(asked + 1)
      BY <3>1, <3>3 DEF WaitsOn, Beside, Replacing
    <3> QED BY <2>4, <3>2, <3>3 DEF Asked
  <2>5. ASSUME NEW d \in Drains, Updates(d) PROVE Joins
    <3>1. \A e \in Drains : updater'[e] = "runs" => updater[e] = "runs" /\ e # d
      BY <2>5 DEF Updates, TypeOK
    <3>2. CASE ~Replacing(updater')
      BY <3>2 DEF Beside
    <3>3. CASE Replacing(updater')
      <4>1. PICK e \in Drains : updater[e] = "runs" /\ e # d
        BY <3>1, <3>3 DEF Replacing
      <4>2. e = cur /\ cur # d
        BY <4>1 DEF OneUpdater
      <4>3. turn' = turn
        BY <2>5, <4>2 DEF Updates
      <4>4. Replacing(updater)
        BY <4>1 DEF Replacing
      <4> QED BY <4>3, <4>4 DEF Beside
    <3> QED BY <3>2, <3>3
  <2> QED BY <2>2, <2>3, <2>4, <2>5, StepKinds
<1> QED BY <1>1, Inductive, PTL DEF Spec, NoneJoinsUpdater

(* Updates asked for at any moment and any number of times, with updaters   *)
(* that move the version or leave it unmoved: a paused turn is left behind  *)
(* by no end of an updater and by no limit, only by an update asked for     *)
(* while the one it waits on has run and not yet settled.                   *)
THEOREM NoPauseOrphaned == Spec => []NoneLeftPaused
<1>1. IInv /\ NoneLeftPaused /\ [Next]_vars => NoneLeftPaused'
  <2> SUFFICES ASSUME IInv, NoneLeftPaused, [Next]_vars PROVE NoneLeftPaused'
    OBVIOUS
  <2> USE DEF IInv
  <2>1. CASE UNCHANGED vars
    BY <2>1 DEF vars, turns, drains, NoneLeftPaused, Orphaned
  <2>2. CASE Quiet
    BY <2>2 DEF Quiet, PausedFor, NoneLeftPaused, Orphaned
  <2>3. CASE Looks
    BY <2>3 DEF Looks, PausedFor, NoneLeftPaused, Orphaned
  <2>4. CASE Asked
    BY <2>4 DEF Asked, NoneLeftPaused, Orphaned
  <2>5. ASSUME NEW d \in Drains, Updates(d) PROVE NoneLeftPaused'
    <3>1. CASE UNCHANGED <<cur, turn, waitsOn>>
      BY <2>5, <3>1 DEF Updates, NoneLeftPaused, Orphaned
    <3>2. CASE cur = d /\ cur' = 0
      BY <2>5, <3>2 DEF Updates, NoneLeftPaused, Orphaned
    <3> QED BY <2>5, <3>1, <3>2 DEF Updates
  <2> QED BY <2>1, <2>2, <2>3, <2>4, <2>5, StepKinds
<1> QED BY <1>1, InitIInv, Inductive, PTL DEF Spec

-----------------------------------------------------------------------------
(* The lock of the data directory.                                         *)

LEMMA LockInit == Lock!Init => Lock!IInv
BY DEF Lock!Init, Lock!IInv, Lock!TypeOK, Lock!OneFlock, Lock!PathStays, Lock!RecordTells, Lock!RecordGuards,
     Lock!Locking, Lock!Opened, Lock!Admitted

(* One lemma for the step of any process, one step per action, and under   *)
(* it one per conjunct of the invariant.                                   *)
LEMMA LockStep ==
  ASSUME Lock!IInv, NEW me \in LockProcs, Lock!Step(me)
  PROVE  Lock!IInv'
<1> USE DEF Lock!IInv, Lock!Goto
<1>1. CASE Lock!Open(me)
  <2>1. Lock!TypeOK'
    <3>1. path' \in SUBSET Inodes
      BY <1>1 DEF Lock!Open, Lock!TypeOK
    <3>2. named' \in [Inodes -> SUBSET LockProcs] /\ native' \in [Inodes -> BOOLEAN]
      BY <1>1 DEF Lock!Open, Lock!TypeOK
    <3> QED BY <1>1, <3>1, <3>2 DEF Lock!Open, Lock!TypeOK, Lock!Opened
  <2>2. Lock!OneFlock'
    BY <1>1 DEF Lock!Open, Lock!TypeOK, Lock!OneFlock, Lock!Locking, Lock!Unlocked, Lock!Free, Lock!Opened,
         Lock!StillAt
  <2>3. Lock!PathStays'
    BY <1>1 DEF Lock!Open, Lock!TypeOK, Lock!OneFlock, Lock!PathStays, Lock!Locking, Lock!Admitted,
         Lock!StillAt, Lock!Unlocked, Lock!Free, Lock!Opened
  <2>4. Lock!RecordTells'
    BY <1>1 DEF Lock!Open, Lock!TypeOK, Lock!OneFlock, Lock!PathStays, Lock!RecordTells, Lock!Locking,
         Lock!Admitted, Lock!StillAt, Lock!Unlocked, Lock!Free, Lock!Opened
  <2>5. Lock!RecordGuards'
    <3> SUFFICES ASSUME NEW p \in lockKept
                 PROVE  /\ lockPc'[p] \notin {"dead", "held"}
                        /\ \E i \in Inodes : path' = {i} /\ named'[i] = {p} /\ (native'[i] => lockPc'[p] = "written")
                        /\ \A q \in LockProcs \ {p} : lockPc'[q] \notin Lock!Admitted
      BY <1>1 DEF Lock!Open, Lock!RecordGuards
    <3>1. PICK i \in Inodes : path = {i} /\ named[i] = {p} /\ (native[i] => lockPc[p] = "written")
      BY DEF Lock!RecordGuards
    <3>2. UNCHANGED <<path, named, native>>
      BY <1>1, <3>1 DEF Lock!Open
    <3>3. lockPc'[p] \notin {"dead", "held"} /\ (lockPc[p] = "written" => lockPc'[p] = "written")
      BY <1>1 DEF Lock!Open, Lock!TypeOK, Lock!RecordGuards
    <3>4. \A q \in LockProcs \ {p} : lockPc'[q] \notin Lock!Admitted
      BY <1>1 DEF Lock!Open, Lock!TypeOK, Lock!RecordGuards, Lock!Admitted
    <3> QED BY <3>1, <3>2, <3>3, <3>4
  <2> QED BY <2>1, <2>2, <2>3, <2>4, <2>5
<1>2. CASE Lock!Flock(me)
  <2>1. Lock!TypeOK'
    BY <1>2 DEF Lock!Flock, Lock!TypeOK, Lock!Opened, Lock!Locking, Lock!Unlocked, Lock!StillAt
  <2>2. Lock!OneFlock'
    BY <1>2 DEF Lock!Flock, Lock!TypeOK, Lock!OneFlock, Lock!Locking, Lock!Unlocked, Lock!StillAt
  <2>3. Lock!PathStays'
    BY <1>2 DEF Lock!Flock, Lock!TypeOK, Lock!OneFlock, Lock!PathStays, Lock!Locking, Lock!Admitted,
         Lock!StillAt, Lock!Unlocked
  <2>4. Lock!RecordTells'
    BY <1>2 DEF Lock!Flock, Lock!TypeOK, Lock!OneFlock, Lock!PathStays, Lock!RecordTells, Lock!Locking,
         Lock!Admitted, Lock!StillAt, Lock!Unlocked
  <2>5. Lock!RecordGuards'
    <3>1. UNCHANGED <<path, named, native, lockKept>>
      BY <1>2 DEF Lock!Flock
    <3> SUFFICES ASSUME NEW p \in lockKept
                 PROVE  /\ lockPc'[p] \notin {"dead", "held"}
                        /\ \E i \in Inodes : path = {i} /\ named[i] = {p} /\ (native[i] => lockPc'[p] = "written")
                        /\ \A q \in LockProcs \ {p} : lockPc'[q] \notin Lock!Admitted
      BY <3>1 DEF Lock!RecordGuards
    <3>2. PICK i \in Inodes : path = {i} /\ named[i] = {p} /\ (native[i] => lockPc[p] = "written")
      BY DEF Lock!RecordGuards
    <3>3. lockPc'[p] \notin {"dead", "held"} /\ (lockPc[p] = "written" => lockPc'[p] = "written")
      BY <1>2 DEF Lock!Flock, Lock!TypeOK, Lock!RecordGuards
    <3>4. \A q \in LockProcs \ {p} : lockPc'[q] \notin Lock!Admitted
      BY <1>2 DEF Lock!Flock, Lock!TypeOK, Lock!RecordGuards, Lock!Admitted
    <3> QED BY <3>2, <3>3, <3>4
  <2> QED BY <2>1, <2>2, <2>3, <2>4, <2>5
<1>3. CASE Lock!CheckPath(me)
  <2>1. Lock!TypeOK'
    BY <1>3 DEF Lock!CheckPath, Lock!TypeOK, Lock!Opened, Lock!Locking, Lock!Unlocked, Lock!StillAt
  <2>2. Lock!OneFlock'
    BY <1>3 DEF Lock!CheckPath, Lock!TypeOK, Lock!OneFlock, Lock!Locking, Lock!Unlocked, Lock!StillAt
  <2>3. Lock!PathStays'
    BY <1>3 DEF Lock!CheckPath, Lock!TypeOK, Lock!OneFlock, Lock!PathStays, Lock!Locking, Lock!Admitted,
         Lock!StillAt, Lock!Unlocked
  <2>4. Lock!RecordTells'
    BY <1>3 DEF Lock!CheckPath, Lock!TypeOK, Lock!OneFlock, Lock!PathStays, Lock!RecordTells, Lock!Locking,
         Lock!Admitted, Lock!StillAt, Lock!Unlocked
  <2>5. Lock!RecordGuards'
    <3>1. UNCHANGED <<path, named, native, lockKept>>
      BY <1>3 DEF Lock!CheckPath
    <3> SUFFICES ASSUME NEW p \in lockKept
                 PROVE  /\ lockPc'[p] \notin {"dead", "held"}
                        /\ \E i \in Inodes : path = {i} /\ named[i] = {p} /\ (native[i] => lockPc'[p] = "written")
                        /\ \A q \in LockProcs \ {p} : lockPc'[q] \notin Lock!Admitted
      BY <3>1 DEF Lock!RecordGuards
    <3>2. PICK i \in Inodes : path = {i} /\ named[i] = {p} /\ (native[i] => lockPc[p] = "written")
      BY DEF Lock!RecordGuards
    <3>3. lockPc'[p] \notin {"dead", "held"} /\ (lockPc[p] = "written" => lockPc'[p] = "written")
      BY <1>3 DEF Lock!CheckPath, Lock!TypeOK, Lock!RecordGuards
    <3>4. \A q \in LockProcs \ {p} : lockPc'[q] \notin Lock!Admitted
      BY <1>3 DEF Lock!CheckPath, Lock!TypeOK, Lock!RecordGuards, Lock!Admitted
    <3> QED BY <3>2, <3>3, <3>4
  <2> QED BY <2>1, <2>2, <2>3, <2>4, <2>5
<1>4. CASE Lock!Judge(me)
  <2>1. Lock!TypeOK'
    BY <1>4 DEF Lock!Judge, Lock!TypeOK, Lock!Opened, Lock!Locking, Lock!Unlocked, Lock!StillAt
  <2>2. Lock!OneFlock'
    BY <1>4 DEF Lock!Judge, Lock!TypeOK, Lock!OneFlock, Lock!Locking, Lock!Unlocked, Lock!StillAt
  <2>3. Lock!PathStays'
    BY <1>4 DEF Lock!Judge, Lock!TypeOK, Lock!OneFlock, Lock!PathStays, Lock!Locking, Lock!Admitted,
         Lock!StillAt, Lock!Unlocked
  <2>4. Lock!RecordTells'
    BY <1>4 DEF Lock!Judge, Lock!TypeOK, Lock!OneFlock, Lock!PathStays, Lock!RecordTells, Lock!Locking,
         Lock!Admitted, Lock!StillAt, Lock!Unlocked
  <2>5. Lock!RecordGuards'
    <3>1. UNCHANGED <<path, named, native, lockKept>>
      BY <1>4 DEF Lock!Judge
    <3> SUFFICES ASSUME NEW p \in lockKept
                 PROVE  /\ lockPc'[p] \notin {"dead", "held"}
                        /\ \E i \in Inodes : path = {i} /\ named[i] = {p} /\ (native[i] => lockPc'[p] = "written")
                        /\ \A q \in LockProcs \ {p} : lockPc'[q] \notin Lock!Admitted
      BY <3>1 DEF Lock!RecordGuards
    <3>2. PICK i \in Inodes : path = {i} /\ named[i] = {p} /\ (native[i] => lockPc[p] = "written")
      BY DEF Lock!RecordGuards
    <3>3. lockPc'[p] \notin {"dead", "held"} /\ (lockPc[p] = "written" => lockPc'[p] = "written")
      BY <1>4 DEF Lock!Judge, Lock!TypeOK, Lock!RecordGuards
    <3>4. ASSUME p # me PROVE Lock!Guarded(me)
      <4>1. path = {ino[me]} /\ me \in flock[ino[me]]
        BY <1>4 DEF Lock!Judge, Lock!TypeOK, Lock!OneFlock, Lock!PathStays, Lock!Locking, Lock!Admitted
      <4>2. lockPc[p] # "written"
        BY <1>4, <3>4, <4>1 DEF Lock!Judge, Lock!TypeOK, Lock!OneFlock, Lock!PathStays, Lock!Locking,
             Lock!Admitted
      <4> QED BY <3>2, <3>4, <4>2 DEF Lock!Guarded, Lock!RecordGuards, Lock!TypeOK
    <3>5. \A q \in LockProcs \ {p} : lockPc'[q] \notin Lock!Admitted
      BY <1>4, <3>4 DEF Lock!Judge, Lock!TypeOK, Lock!RecordGuards, Lock!Admitted
    <3> QED BY <3>2, <3>3, <3>5
  <2> QED BY <2>1, <2>2, <2>3, <2>4, <2>5
<1>5. CASE Lock!Write(me)
  <2>1. Lock!TypeOK'
    BY <1>5 DEF Lock!Write, Lock!TypeOK, Lock!Opened, Lock!Locking, Lock!Unlocked, Lock!StillAt
  <2>2. Lock!OneFlock'
    BY <1>5 DEF Lock!Write, Lock!TypeOK, Lock!OneFlock, Lock!Locking, Lock!Unlocked, Lock!StillAt
  <2>3. Lock!PathStays'
    BY <1>5 DEF Lock!Write, Lock!TypeOK, Lock!OneFlock, Lock!PathStays, Lock!Locking, Lock!Admitted,
         Lock!StillAt, Lock!Unlocked
  <2>4. Lock!RecordTells'
    BY <1>5 DEF Lock!Write, Lock!TypeOK, Lock!OneFlock, Lock!PathStays, Lock!RecordTells, Lock!Locking,
         Lock!Admitted, Lock!StillAt, Lock!Unlocked
  <2>5. Lock!RecordGuards'
    BY <1>5 DEF Lock!Write, Lock!TypeOK, Lock!OneFlock, Lock!PathStays, Lock!RecordTells, Lock!RecordGuards,
         Lock!Locking, Lock!Admitted, Lock!StillAt, Lock!Unlocked
  <2> QED BY <2>1, <2>2, <2>3, <2>4, <2>5
<1>6. CASE Lock!WriteFails(me)
  <2>1. Lock!TypeOK'
    BY <1>6 DEF Lock!WriteFails, Lock!TypeOK, Lock!Opened, Lock!Locking, Lock!Unlocked, Lock!StillAt
  <2>2. Lock!OneFlock'
    BY <1>6 DEF Lock!WriteFails, Lock!TypeOK, Lock!OneFlock, Lock!Locking, Lock!Unlocked, Lock!StillAt
  <2>3. Lock!PathStays'
    BY <1>6 DEF Lock!WriteFails, Lock!TypeOK, Lock!OneFlock, Lock!PathStays, Lock!Locking, Lock!Admitted,
         Lock!StillAt, Lock!Unlocked
  <2>4. Lock!RecordTells'
    BY <1>6 DEF Lock!WriteFails, Lock!TypeOK, Lock!OneFlock, Lock!PathStays, Lock!RecordTells, Lock!Locking,
         Lock!Admitted, Lock!StillAt, Lock!Unlocked
  <2>5. Lock!RecordGuards'
    BY <1>6 DEF Lock!WriteFails, Lock!TypeOK, Lock!OneFlock, Lock!PathStays, Lock!RecordTells,
         Lock!RecordGuards, Lock!Locking, Lock!Admitted, Lock!StillAt, Lock!Unlocked
  <2> QED BY <2>1, <2>2, <2>3, <2>4, <2>5
<1>7. CASE Lock!Enter(me)
  <2>1. Lock!TypeOK'
    BY <1>7 DEF Lock!Enter, Lock!TypeOK, Lock!Opened, Lock!Locking, Lock!Unlocked, Lock!StillAt
  <2>2. Lock!OneFlock'
    BY <1>7 DEF Lock!Enter, Lock!TypeOK, Lock!OneFlock, Lock!Locking, Lock!Unlocked, Lock!StillAt
  <2>3. Lock!PathStays'
    BY <1>7 DEF Lock!Enter, Lock!TypeOK, Lock!OneFlock, Lock!PathStays, Lock!Locking, Lock!Admitted,
         Lock!StillAt, Lock!Unlocked
  <2>4. Lock!RecordTells'
    BY <1>7 DEF Lock!Enter, Lock!TypeOK, Lock!OneFlock, Lock!PathStays, Lock!RecordTells, Lock!Locking,
         Lock!Admitted, Lock!StillAt, Lock!Unlocked
  <2>5. Lock!RecordGuards'
    BY <1>7 DEF Lock!Enter, Lock!TypeOK, Lock!OneFlock, Lock!PathStays, Lock!RecordTells, Lock!RecordGuards,
         Lock!Locking, Lock!Admitted, Lock!StillAt, Lock!Unlocked
  <2> QED BY <2>1, <2>2, <2>3, <2>4, <2>5
<1>8. CASE Lock!Unlink(me)
  <2>1. Lock!TypeOK'
    BY <1>8 DEF Lock!Unlink, Lock!TypeOK, Lock!Opened, Lock!Locking, Lock!Unlocked, Lock!StillAt
  <2>2. Lock!OneFlock'
    BY <1>8 DEF Lock!Unlink, Lock!TypeOK, Lock!OneFlock, Lock!Locking, Lock!Unlocked, Lock!StillAt
  <2>3. Lock!PathStays'
    BY <1>8 DEF Lock!Unlink, Lock!TypeOK, Lock!OneFlock, Lock!PathStays, Lock!Locking, Lock!Admitted,
         Lock!StillAt, Lock!Unlocked
  <2>4. Lock!RecordTells'
    BY <1>8 DEF Lock!Unlink, Lock!TypeOK, Lock!OneFlock, Lock!PathStays, Lock!RecordTells, Lock!Locking,
         Lock!Admitted, Lock!StillAt, Lock!Unlocked
  <2>5. Lock!RecordGuards'
    BY <1>8 DEF Lock!Unlink, Lock!TypeOK, Lock!OneFlock, Lock!PathStays, Lock!RecordTells, Lock!RecordGuards,
         Lock!Locking, Lock!Admitted, Lock!StillAt, Lock!Unlocked
  <2> QED BY <2>1, <2>2, <2>3, <2>4, <2>5
<1>9. CASE Lock!Close(me)
  <2>1. Lock!TypeOK'
    BY <1>9 DEF Lock!Close, Lock!TypeOK, Lock!Opened, Lock!Locking, Lock!Unlocked, Lock!StillAt
  <2>2. Lock!OneFlock'
    BY <1>9 DEF Lock!Close, Lock!TypeOK, Lock!OneFlock, Lock!Locking, Lock!Unlocked, Lock!StillAt
  <2>3. Lock!PathStays'
    BY <1>9 DEF Lock!Close, Lock!TypeOK, Lock!OneFlock, Lock!PathStays, Lock!Locking, Lock!Admitted,
         Lock!StillAt, Lock!Unlocked
  <2>4. Lock!RecordTells'
    BY <1>9 DEF Lock!Close, Lock!TypeOK, Lock!OneFlock, Lock!PathStays, Lock!RecordTells, Lock!Locking,
         Lock!Admitted, Lock!StillAt, Lock!Unlocked
  <2>5. Lock!RecordGuards'
    <3>1. UNCHANGED <<path, named, native, lockKept>>
      BY <1>9 DEF Lock!Close
    <3> SUFFICES ASSUME NEW p \in lockKept
                 PROVE  /\ lockPc'[p] \notin {"dead", "held"}
                        /\ \E i \in Inodes : path = {i} /\ named[i] = {p} /\ (native[i] => lockPc'[p] = "written")
                        /\ \A q \in LockProcs \ {p} : lockPc'[q] \notin Lock!Admitted
      BY <3>1 DEF Lock!RecordGuards
    <3>2. PICK i \in Inodes : path = {i} /\ named[i] = {p} /\ (native[i] => lockPc[p] = "written")
      BY DEF Lock!RecordGuards
    <3>3. lockPc'[p] \notin {"dead", "held"} /\ (lockPc[p] = "written" => lockPc'[p] = "written")
      BY <1>9 DEF Lock!Close, Lock!TypeOK, Lock!RecordGuards
    <3>4. \A q \in LockProcs \ {p} : lockPc'[q] \notin Lock!Admitted
      BY <1>9 DEF Lock!Close, Lock!TypeOK, Lock!RecordGuards, Lock!Admitted
    <3> QED BY <3>2, <3>3, <3>4
  <2> QED BY <2>1, <2>2, <2>3, <2>4, <2>5
<1>10. CASE Lock!KeepRecord(me)
  <2>1. Lock!TypeOK'
    BY <1>10 DEF Lock!KeepRecord, Lock!TypeOK, Lock!Opened, Lock!Locking, Lock!Unlocked, Lock!StillAt
  <2>2. Lock!OneFlock'
    BY <1>10 DEF Lock!KeepRecord, Lock!TypeOK, Lock!OneFlock, Lock!Locking, Lock!Unlocked, Lock!StillAt
  <2>3. Lock!PathStays'
    BY <1>10 DEF Lock!KeepRecord, Lock!TypeOK, Lock!OneFlock, Lock!PathStays, Lock!Locking, Lock!Admitted,
         Lock!StillAt, Lock!Unlocked
  <2>4. Lock!RecordTells'
    BY <1>10 DEF Lock!KeepRecord, Lock!TypeOK, Lock!OneFlock, Lock!PathStays, Lock!RecordTells, Lock!Locking,
         Lock!Admitted, Lock!StillAt, Lock!Unlocked
  <2>5. Lock!RecordGuards'
    <3>1. /\ lockPc[me] = "held" /\ ~native[ino[me]] /\ lockKept' = lockKept \cup {me}
          /\ lockPc' = [lockPc EXCEPT ![me] = "idle"]
          /\ path' = path /\ named' = named /\ native' = native
      BY <1>10 DEF Lock!KeepRecord
    <3>2. lockKept \subseteq {me}
      BY <3>1 DEF Lock!RecordGuards, Lock!Admitted
    <3>3. path = {ino[me]} /\ named[ino[me]] = {me} /\ ino[me] \in Inodes
      BY <3>1 DEF Lock!TypeOK, Lock!PathStays, Lock!RecordTells, Lock!Admitted
    <3>4. \A q \in LockProcs \ {me} : lockPc[q] \notin Lock!Admitted
      BY <3>1, <3>3 DEF Lock!TypeOK, Lock!OneFlock, Lock!PathStays, Lock!Locking, Lock!Admitted
    <3>5. lockPc'[me] = "idle" /\ \A q \in LockProcs \ {me} : lockPc'[q] = lockPc[q]
      BY <3>1 DEF Lock!TypeOK
    <3> QED BY <3>1, <3>2, <3>3, <3>4, <3>5 DEF Lock!RecordGuards
  <2> QED BY <2>1, <2>2, <2>3, <2>4, <2>5
<1>11. CASE Lock!Die(me)
  <2>1. Lock!TypeOK'
    BY <1>11 DEF Lock!Die, Lock!TypeOK, Lock!Opened, Lock!Locking, Lock!Unlocked, Lock!StillAt
  <2>2. Lock!OneFlock'
    BY <1>11 DEF Lock!Die, Lock!TypeOK, Lock!OneFlock, Lock!Locking, Lock!Unlocked, Lock!StillAt
  <2>3. Lock!PathStays'
    BY <1>11 DEF Lock!Die, Lock!TypeOK, Lock!OneFlock, Lock!PathStays, Lock!Locking, Lock!Admitted,
         Lock!StillAt, Lock!Unlocked
  <2>4. Lock!RecordTells'
    BY <1>11 DEF Lock!Die, Lock!TypeOK, Lock!OneFlock, Lock!PathStays, Lock!RecordTells, Lock!Locking,
         Lock!Admitted, Lock!StillAt, Lock!Unlocked
  <2>5. Lock!RecordGuards'
    BY <1>11 DEF Lock!Die, Lock!TypeOK, Lock!OneFlock, Lock!PathStays, Lock!RecordTells, Lock!RecordGuards,
         Lock!Locking, Lock!Admitted, Lock!StillAt, Lock!Unlocked
  <2> QED BY <2>1, <2>2, <2>3, <2>4, <2>5
<1> QED
  BY <1>1, <1>2, <1>3, <1>4, <1>5, <1>6, <1>7, <1>8, <1>9, <1>10, <1>11 DEF Lock!Step

LEMMA LockStutters == Lock!IInv /\ UNCHANGED Lock!vars => Lock!IInv'
BY DEF Lock!IInv, Lock!vars, Lock!TypeOK, Lock!OneFlock, Lock!PathStays, Lock!RecordTells, Lock!RecordGuards

LEMMA LockNext == Lock!IInv /\ [Lock!Next]_(Lock!vars) => Lock!IInv'
BY LockStep, LockStutters DEF Lock!Next

(* The inductive invariant holds of every behaviour.                       *)
THEOREM LockInductive == Lock!Spec => []Lock!IInv
<1>1. Lock!Init => Lock!IInv
  BY LockInit
<1>2. Lock!IInv /\ [Lock!Next]_(Lock!vars) => Lock!IInv'
  BY LockNext
<1> QED BY <1>1, <1>2, PTL DEF Lock!Spec

(* Every variable stays in its set.                                        *)
THEOREM LockTypeCorrect == Lock!Spec => []Lock!TypeOK
<1>1. Lock!IInv => Lock!TypeOK
  BY DEF Lock!IInv
<1> QED BY <1>1, LockInductive, PTL

-----------------------------------------------------------------------------
LEMMA LockExclusive == Lock!IInv => Lock!Exclusive
<1> SUFFICES ASSUME Lock!IInv, NEW p \in Lock!Holders, NEW q \in Lock!Holders, p # q
             PROVE  FALSE
  BY DEF Lock!Exclusive
<1>1. p \in LockProcs /\ q \in LockProcs
  BY DEF Lock!Holders
<1>2. CASE lockPc[p] = "held" /\ lockPc[q] = "held"
  <2>1. ino[p] = ino[q]
    BY <1>1, <1>2 DEF Lock!IInv, Lock!PathStays, Lock!Admitted
  <2>2. p \in flock[ino[p]] /\ q \in flock[ino[p]]
    BY <1>1, <1>2, <2>1 DEF Lock!IInv, Lock!TypeOK, Lock!OneFlock, Lock!Locking
  <2> QED BY <1>1, <2>2 DEF Lock!IInv, Lock!TypeOK, Lock!OneFlock
<1>3. CASE p \in lockKept
  <2>1. lockPc[q] # "held"
    BY <1>1, <1>3 DEF Lock!IInv, Lock!RecordGuards, Lock!Admitted
  <2>2. q \in lockKept
    BY <2>1 DEF Lock!Holders
  <2> QED BY <1>3, <2>2 DEF Lock!IInv, Lock!RecordGuards
<1>4. CASE q \in lockKept
  <2>1. lockPc[p] # "held"
    BY <1>1, <1>4 DEF Lock!IInv, Lock!RecordGuards, Lock!Admitted
  <2>2. p \in lockKept
    BY <2>1 DEF Lock!Holders
  <2> QED BY <1>4, <2>2 DEF Lock!IInv, Lock!RecordGuards
<1> QED BY <1>2, <1>3, <1>4 DEF Lock!Holders

(* data-lock.ts: no two live processes hold one data directory, a restorer *)
(* that closed its handle included, whatever files are created, deleted or *)
(* left by the dead meanwhile.                                             *)
THEOREM ExclusiveHolds == Lock!Spec => []Lock!Exclusive
BY LockInductive, LockExclusive, PTL

-----------------------------------------------------------------------------
(* Who holds the directory changes in Enter, Unlink, WriteFails,           *)
(* KeepRecord and Die only.                                                *)
LEMMA HoldersStep ==
  ASSUME Lock!IInv, Lock!IInv', NEW me \in LockProcs, Lock!Step(me)
  PROVE  \/ Lock!Holders' = Lock!Holders
         \/ Lock!Holders = {} /\ Lock!Holders' = {me}
         \/ Lock!Holders = {me} /\ Lock!Holders' = {}
<1>1. \A q \in LockProcs \ {me} : q \in Lock!Holders' <=> q \in Lock!Holders
  BY DEF Lock!Step, Lock!Open, Lock!Flock, Lock!CheckPath, Lock!Judge, Lock!Write, Lock!WriteFails, Lock!Enter,
         Lock!Unlink, Lock!Close, Lock!KeepRecord, Lock!Die, Lock!Goto, Lock!Holders, Lock!IInv, Lock!TypeOK
<1>2. Lock!Exclusive /\ Lock!Exclusive'
  <2>1. Lock!Exclusive
    BY LockExclusive
  <2>2. Lock!Exclusive'
    BY LockExclusive, PTL
  <2> QED BY <2>1, <2>2
<1>3. Lock!Holders \subseteq LockProcs /\ Lock!Holders' \subseteq LockProcs
  BY DEF Lock!Holders
<1>4. CASE me \in Lock!Holders /\ me \in Lock!Holders'
  BY <1>1, <1>3, <1>4
<1>5. CASE me \notin Lock!Holders /\ me \notin Lock!Holders'
  BY <1>1, <1>3, <1>5
<1>6. CASE me \in Lock!Holders /\ me \notin Lock!Holders'
  BY <1>1, <1>2, <1>3, <1>6 DEF Lock!Exclusive
<1>7. CASE me \notin Lock!Holders /\ me \in Lock!Holders'
  BY <1>1, <1>2, <1>3, <1>7 DEF Lock!Exclusive
<1> QED BY <1>4, <1>5, <1>6, <1>7

(* FileLock implements DataLock: telling a process that the directory is   *)
(* its own, and its letting go, are the only visible steps.                *)
THEOREM LockImplements == Lock!Spec => Lock!ImplementsLock
<1>1. Lock!Init => Lock!L!Init
  BY DEF Lock!Init, Lock!L!Init, Lock!Holders
<1>2. Lock!IInv /\ Lock!IInv' /\ [Lock!Next]_(Lock!vars) => [Lock!L!Next]_(Lock!Holders)
  <2> SUFFICES ASSUME Lock!IInv, Lock!IInv', [Lock!Next]_(Lock!vars)
               PROVE  Lock!L!Next \/ Lock!Holders' = Lock!Holders
    OBVIOUS
  <2>1. CASE UNCHANGED Lock!vars
    BY <2>1 DEF Lock!vars, Lock!Holders
  <2>2. CASE Lock!Next
    <3>1. PICK me \in LockProcs : Lock!Step(me)
      BY <2>2 DEF Lock!Next
    <3> QED BY <3>1, HoldersStep DEF Lock!L!Next, Lock!L!Take, Lock!L!Leave
  <2> QED BY <2>1, <2>2
<1> QED BY <1>1, <1>2, LockInductive, PTL DEF Lock!Spec, Lock!ImplementsLock, Lock!L!Spec

-----------------------------------------------------------------------------
(* The invariant of ServerRestore.  Whoever holds the maintenance lock is  *)
(* the only one that moves directories, so what each place of a restore    *)
(* tells of the disk and of the locks stays true while others step.        *)

Naming == [data : Dirs \cup {None}, restored : {"copy", None}, failed : Dirs \cup {None},
           stores : Dirs, snapshot : {None, "partial", "whole"}, record : BOOLEAN, inst : Insts]
LockOf == [flock : Procs \cup {None}, pid : Procs \cup {None}, file : BOOLEAN]

\* Where a restore is, from the lock of the data to the end of its record.
Section == {"take", "check", "move", "mark", "flush", "seal", "stores", "aside", "swap", "relock", "forget"}
\* Where a process holds the maintenance lock.
Maintained(p) == Section \cup (IF p = "job" THEN {"rbRead"} ELSE {"read", "mprepare", "mlock", "discard"})
\* Where nothing is said of a process.
AtRest(p) ==
  IF p = "job"
  THEN {"stop", "backup", "copy", "away", "install", "start", "health", "rhealth", "recover",
        "rbStop", "rbAway", "rbRecord", "rbBack", "rbRestore", "rbStart", "finish", "over"}
  ELSE {"off", "look", "prepare", "note", "maint"}
Trying == {"prepare", "note", "lock", "recheck", "stat"}
Labels(p) == Maintained(p) \cup AtRest(p) \cup
  (IF p = "job" THEN {"discard"} ELSE {"lock", "recheck", "stat", "run"})
\* Where a process may have the lock of a directory.
Locking(p) == {"check", "move", "mark", "flush", "seal", "forget"} \cup
  (IF p = "job" THEN {} ELSE {"recheck", "stat", "run", "discard"})

Typed ==
  /\ ServerTypeOK
  /\ kept \subseteq Naming
  /\ DOMAIN pc = Procs /\ \A p \in Procs : pc[p] \in Labels(p)
  /\ \A p \in Cores : pc[p] \in Trying => tries[p] < 3

\* What the disk may name, now or after a power cut.
Plausible(n) ==
  /\ \/ n.data = "live" /\ n.stores \in {"live", "copy"}
     \/ n.data \in {None, "fresh"} /\ n.stores = "copy" /\ n.record
     \/ n.data = "copy" /\ n.stores = "copy" /\ n.restored = None
  /\ n.data = "live" /\ ~n.record => n.stores = "live"
\* With a record there is something to restore from, unless a cut took it.
Held(n) ==
  n.record => n.snapshot = "whole" \/ n.restored = "copy" \/ n.data = "copy" \/ "name" \in taken

\* The record is on disk or it is not, and so is the copy in place.
CutTells ==
  \A n \in kept :
    /\ Plausible(n) /\ n.record = names.record /\ (n.data = "copy" <=> names.data = "copy")
    /\ ~across => Held(n)

DiskTells ==
  /\ Plausible(names) /\ Held(names)
  /\ flushes => CutTells
  /\ across /\ names.record => names.snapshot = "whole" \/ "name" \in taken
  /\ names.data = "copy" => mark # "absent" /\ (flushes => mark = "hard")
  /\ pc["job"] \in {"stop", "backup"} => ~names.record

\* What is locked stands at the path, but for a directory made meanwhile.
LockPlaces ==
  /\ locks["live"].flock # None => names.data = "live"
  /\ locks["copy"].flock # None => names.data = "copy"
  /\ locks["fresh"].flock # None => names.data # "live"

InPlace == names.data = "copy" \/ (names.data = "live" /\ names.stores = "live")

Maintains(p) == maint = p <=> pc[p] \in Maintained(p)

Recorded(p) ==
  /\ pc[p] \in Section => names.record
  /\ pc[p] \in {"mprepare", "mlock", "discard"} => ~names.record

\* How far a restore is.
Restoring(p) ==
  /\ pc[p] = "move" => names.data # "copy"
  /\ pc[p] \in {"mark", "flush", "seal", "stores", "aside", "swap"} =>
       names.restored = "copy" /\ names.data # "copy"
  /\ pc[p] \in {"flush", "seal", "stores", "aside", "swap"} => mark # "absent"
  /\ pc[p] \in {"seal", "stores", "aside", "swap"} /\ flushes => mark = "hard"
  /\ pc[p] \in {"stores", "aside"} => names.data # None
  /\ pc[p] = "aside" => names.stores = "copy"
  /\ pc[p] \in {"relock", "forget"} => names.data = "copy"

\* A process locks one directory; the one at the path while it restores it.
Locks(p) ==
  /\ \A d \in Dirs : locks[d].flock = p => pc[p] \in Locking(p)
  /\ \A d, e \in Dirs : locks[d].flock = p /\ locks[e].flock = p => d = e
  /\ pc[p] \in {"check", "move", "mark", "flush", "seal"} /\ names.data = "live" => locks["live"].flock = p
  /\ pc[p] = "check" /\ names.data = "copy" => locks["copy"].flock = p
  /\ pc[p] = "forget" => locks["copy"].flock = p
  /\ pc[p] \in {"stores", "aside"} /\ names.data = "live" =>
       locks["live"].flock = None /\ locks["live"].pid = p

\* What a start has noted and locked, and what a core runs on.
Opening(p) ==
  /\ pc[p] \in {"lock", "recheck", "stat"} /\ noted[p] = "copy" => names.data = "copy"
  /\ pc[p] \in {"recheck", "stat"} =>
       (\E d \in Dirs : locks[d].flock = p) /\ (noted[p] = "copy" => locks["copy"].flock = p)
  /\ pc[p] \in {"stat", "run"} => InPlace
  /\ pc[p] = "run" => locks[names.data].flock = p
  /\ pc[p] = "discard" => names.data = "copy" /\ locks["copy"].flock = p

Process(p) ==
  Maintains(p) /\ Recorded(p) /\ Restoring(p) /\ Locks(p) /\ (p \in Cores => Opening(p))

SwitchInv == Typed /\ DiskTells /\ LockPlaces /\ \A p \in Procs : Process(p)

-----------------------------------------------------------------------------
(* What a step leaves of the other processes.                              *)

LEMMA ProcsAre ==
  /\ "job" \in Procs /\ "job" \notin Cores /\ "svc" \in Cores /\ Cores \subseteq Procs
  /\ None \notin Procs /\ \A p \in Procs : p = "job" \/ p \in Cores
  BY HandsAreOthers DEF Procs, Cores, None

LEMMA TypesAre ==
  ASSUME Typed
  PROVE  /\ names \in Naming /\ names \in kept /\ locks \in [Dirs -> LockOf]
         /\ DOMAIN pc = Procs /\ DOMAIN noted = Cores /\ DOMAIN tries = Cores
  BY DEF Typed, ServerTypeOK, Naming, LockOf

\* The locks of others are as they were.
LocksFor(p) ==
  /\ locks' \in [Dirs -> LockOf]
  /\ \A d \in Dirs : \/ locks'[d].flock = locks[d].flock
                     \/ locks[d].flock \in {None, p} /\ locks'[d].flock \in {None, p}
  /\ locks["live"].flock = None /\ locks["live"].pid \notin {None, p} =>
       locks'["live"].flock = None /\ locks'["live"].pid = locks["live"].pid
MaintFor(p) == maint' = maint \/ (maint \in {None, p} /\ maint' \in {None, p})

\* What the names tell a process is as it was.
Still ==
  /\ names'.data = names.data /\ names'.stores = names.stores
  /\ names'.restored = names.restored /\ mark' = mark /\ flushes' = flushes
DiskFor(p) ==
  /\ flushes' = flushes
  /\ names.data = "copy" => names'.data = "copy"
  /\ names'.data = "live" => names.data = "live"
  /\ \/ Still
     \/ names.data = None /\ names'.data = "fresh" /\ names' = [names EXCEPT !.data = "fresh"] /\ mark' = mark
     \/ /\ pc[p] \in Section
        /\ names.data = "live" /\ (names'.data # "live" \/ names'.stores # names.stores) =>
             pc[p] \in {"stores", "aside"}
  /\ \/ names'.record = names.record
     \/ ~names'.record /\ pc[p] \in Section
     \/ names'.record /\ p = "job" /\ maint \in {None, p}
PcFor(p) ==
  \A q \in Procs : q # p =>
    /\ pc'[q] = pc[q] \/ (pc[q] \in AtRest(q) /\ pc'[q] \in AtRest(q))
    /\ q \in Cores => noted'[q] = noted[q]

Frame(p) == LocksFor(p) /\ MaintFor(p) /\ DiskFor(p) /\ PcFor(p)

LEMMA RestIs ==
  ASSUME NEW p \in Procs, pc'[p] \in AtRest(p), maint' # p, \A d \in Dirs : locks'[d].flock # p
  PROVE  Process(p)'
<1>1. Maintains(p)' /\ Recorded(p)' /\ Restoring(p)' /\ Locks(p)'
  BY DEF AtRest, Maintains, Maintained, Recorded, Restoring, Locks, Section
<1>2. p \in Cores => Opening(p)'
  BY ProcsAre DEF AtRest, Opening
<1>3. QED
  BY <1>1, <1>2 DEF Process

LEMMA StaysIs ==
  ASSUME SwitchInv, NEW p \in Procs, Frame(p), NEW q \in Procs, q # p, pc'[q] = pc[q]
  PROVE  Process(q)'
<1> USE ProcsAre
<1>1. Process(q) /\ Process(p)
  BY DEF SwitchInv
<1>2. pc'[q] = pc[q] /\ (q \in Cores => noted'[q] = noted[q])
  BY DEF Frame, PcFor
<1>3. pc[q] \in Maintained(q) => pc[p] \notin Maintained(p) /\ maint \notin {None, p}
  BY <1>1 DEF Process, Maintains
<1>4. pc[p] \in Section => pc[q] \notin Maintained(q)
  BY <1>1, <1>3 DEF Process, Maintains, Maintained
<1>5. \A d \in Dirs : locks'[d].flock = q <=> locks[d].flock = q
  BY DEF Frame, LocksFor
<1>6. Maintains(q)'
  BY <1>1, <1>2 DEF Process, Maintains, Frame, MaintFor, Maintained
<1>7. Recorded(q)'
  BY <1>1, <1>2, <1>3, <1>4 DEF Process, Recorded, Frame, DiskFor, Maintained
<1>8. Restoring(q)'
  <2>1. CASE Still
    BY <1>1, <1>2, <2>1 DEF Process, Restoring, Still
  <2>2. CASE names.data = None /\ names' = [names EXCEPT !.data = "fresh"] /\ mark' = mark
    <3>1. names'.data = "fresh" /\ names'.stores = names.stores /\ names'.restored = names.restored
      BY <2>2, TypesAre DEF SwitchInv, Naming
    <3>2. QED
      BY <1>1, <1>2, <2>2, <3>1 DEF Process, Restoring, None, Frame, DiskFor
  <2>3. CASE pc[p] \in Section
    BY <1>2, <1>4, <2>3 DEF Restoring, Maintained, Section
  <2>4. QED
    BY <2>1, <2>2, <2>3 DEF Frame, DiskFor
<1>9. Locks(q)'
  BY <1>1, <1>2, <1>4, <1>5 DEF Process, Locks, Frame, DiskFor, Still, LocksFor, Maintained, Section, Dirs, None
<1>10. ASSUME q \in Cores
       PROVE  Opening(q)'
  <2>1. Opening(q)
    BY <1>1, <1>10 DEF Process
  <2>2. pc[q] \in {"stat", "run"} => \E d \in Dirs : locks[d].flock = q
    BY <2>1 DEF Opening, InPlace, Dirs
  <2>3. ASSUME pc[q] \in {"stat", "run"}
        PROVE  InPlace' /\ names'.data = names.data
    <3>1. CASE names.data = "copy"
      BY <3>1 DEF Frame, DiskFor, InPlace
    <3>2. CASE names.data = "live" /\ names.stores = "live"
      <4>1. locks["live"].flock = q
        BY <2>2, <2>3, <3>2 DEF SwitchInv, LockPlaces, Dirs
      <4>2. pc[p] \notin {"stores", "aside"}
        BY <1>1, <3>2, <4>1 DEF Process, Locks
      <4>3. names'.data = "live" /\ names'.stores = "live"
        BY <3>2, <4>2 DEF Frame, DiskFor, Still, None
      <4>4. QED
        BY <3>2, <4>3 DEF InPlace
    <3>3. QED
      BY <2>1, <2>3, <3>1, <3>2 DEF Opening, InPlace
  <2>4. names.data = "copy" => names'.data = "copy"
    BY DEF Frame, DiskFor
  <2>5. names.data \in Dirs \cup {None}
    BY TypesAre DEF SwitchInv, Naming
  <2>6. QED
    BY <1>2, <1>5, <1>10, <2>1, <2>3, <2>4, <2>5 DEF Opening, InPlace, Dirs
<1>11. QED
  BY <1>6, <1>7, <1>8, <1>9, <1>10 DEF Process

LEMMA Others ==
  ASSUME SwitchInv, NEW p \in Procs, Frame(p), NEW q \in Procs, q # p
  PROVE  Process(q)'
<1>1. CASE pc'[q] = pc[q]
  BY <1>1, StaysIs
<1>2. CASE pc[q] \in AtRest(q) /\ pc'[q] \in AtRest(q)
  <2>1. pc[q] \notin Maintained(q) /\ pc[q] \notin Locking(q)
    BY <1>2, ProcsAre DEF AtRest, Maintained, Locking, Section
  <2>2. maint # q /\ \A d \in Dirs : locks[d].flock # q
    BY <2>1 DEF SwitchInv, Process, Maintains, Locks
  <2>3. maint' # q /\ \A d \in Dirs : locks'[d].flock # q
    BY <2>2, ProcsAre DEF Frame, MaintFor, LocksFor
  <2>4. QED
    BY <1>2, <2>3, RestIs
<1>3. pc'[q] = pc[q] \/ (pc[q] \in AtRest(q) /\ pc'[q] \in AtRest(q))
  BY DEF Frame, PcFor
<1>4. QED
  BY <1>1, <1>2, <1>3

-----------------------------------------------------------------------------
(* A process that lets go of what it holds.                                *)

Drops(p) ==
  /\ locks' \in [Dirs -> LockOf]
  /\ \A d \in Dirs :
       /\ locks'[d].flock = IF locks[d].flock = p THEN None ELSE locks[d].flock
       /\ locks[d].flock = None /\ locks[d].pid \notin {None, p} => locks'[d].pid = locks[d].pid
Leaves(p) ==
  /\ Drops(p) /\ maint' = (IF maint = p THEN None ELSE maint)
  /\ PcFor(p) /\ pc'[p] \in AtRest(p)

LEMMA DeadIs ==
  ASSUME Typed, NEW p \in Procs,
         \/ locks' = Dead({p})
         \/ locks' = [d \in Dirs |-> [Dead({p})[d] EXCEPT !.file = @ /\ locks[d].flock # p]]
  PROVE  Drops(p)
<1>1. locks \in [Dirs -> LockOf]
  BY TypesAre
<1> DEFINE dead == [d \in Dirs |-> [flock |-> IF locks[d].flock = p THEN None ELSE locks[d].flock,
                                    pid   |-> IF locks[d].pid = p THEN None ELSE locks[d].pid,
                                    file  |-> locks[d].file]]
<1>2. Dead({p}) = dead
  BY DEF Dead
<1>3. dead \in [Dirs -> LockOf]
  BY <1>1 DEF LockOf
<1>4. ASSUME NEW d \in Dirs
      PROVE  dead[d] \in LockOf /\ dead[d].flock = (IF locks[d].flock = p THEN None ELSE locks[d].flock)
             /\ dead[d].pid = (IF locks[d].pid = p THEN None ELSE locks[d].pid)
  BY <1>3
<1>5. CASE locks' = dead
  BY <1>3, <1>4, <1>5 DEF Drops
<1>6. CASE locks' = [d \in Dirs |-> [dead[d] EXCEPT !.file = @ /\ locks[d].flock # p]]
  <2> HIDE DEF dead
  <2>1. ASSUME NEW d \in Dirs
        PROVE  locks'[d] \in LockOf /\ locks'[d].flock = dead[d].flock /\ locks'[d].pid = dead[d].pid
    <3>1. locks'[d] = [dead[d] EXCEPT !.file = @ /\ locks[d].flock # p]
      BY <1>6
    <3>2. QED
      BY <1>4, <3>1 DEF LockOf
  <2>2. DOMAIN locks' = Dirs /\ locks' = [d \in Dirs |-> locks'[d]]
    BY <1>6
  <2>3. QED
    BY <1>4, <2>1, <2>2 DEF Drops
<1>7. QED
  BY <1>2, <1>5, <1>6

LEMMA LetGoIs ==
  ASSUME Typed, NEW p \in Procs, locks' = LetGo(p)
  PROVE  Drops(p)
<1>1. locks \in [Dirs -> LockOf]
  BY TypesAre
<1>2. ASSUME NEW d \in Dirs
      PROVE  locks'[d] \in LockOf /\ (locks[d].flock # p => locks'[d] = locks[d])
             /\ (locks[d].flock = p => locks'[d].flock = None)
  BY <1>1 DEF LetGo, LockOf
<1>3. DOMAIN locks' = Dirs /\ locks' = [d \in Dirs |-> locks'[d]]
  BY DEF LetGo
<1>4. QED
  BY <1>1, <1>2, <1>3, ProcsAre DEF Drops, LockOf

LEMMA NoneLocked ==
  ASSUME SwitchInv, NEW p \in Procs, pc[p] \notin Locking(p)
  PROVE  \A d \in Dirs : locks[d].flock # p
  BY DEF SwitchInv, Process, Locks

LEMMA NoneDropped ==
  ASSUME SwitchInv, NEW p \in Procs, pc[p] \notin Locking(p), UNCHANGED locks
  PROVE  Drops(p)
<1>1. locks \in [Dirs -> LockOf]
  BY TypesAre DEF SwitchInv
<1>2. QED
  BY <1>1, NoneLocked DEF Drops

\* All a step has to show.
LEMMA Whole ==
  ASSUME SwitchInv, NEW p \in Procs, Frame(p), Process(p)', Typed', DiskTells', LockPlaces'
  PROVE  SwitchInv'
<1>1. \A q \in Procs : Process(q)'
  BY Others
<1>2. QED
  BY <1>1 DEF SwitchInv, Procs, Cores

LEMMA LeavesKeep ==
  ASSUME SwitchInv, NEW p \in Procs, Leaves(p), Still, DiskTells', Typed', names'.record = names.record
  PROVE  SwitchInv'
<1> USE ProcsAre
<1>1. LocksFor(p) /\ MaintFor(p) /\ PcFor(p)
  BY DEF Leaves, Drops, LocksFor, MaintFor, Dirs
<1>2. DiskFor(p)
  BY DEF Still, DiskFor
<1>3. Process(p)'
  BY RestIs DEF Leaves, Drops
<1>4. LockPlaces'
  BY DEF SwitchInv, LockPlaces, Leaves, Drops, Still, Dirs
<1>5. QED
  BY <1>1, <1>2, <1>3, <1>4, Whole DEF Frame

\* A disk that is left alone.
LEMMA SameDisk ==
  ASSUME SwitchInv, UNCHANGED <<disk, across, flushes>>,
         pc'["job"] \in {"stop", "backup"} => pc["job"] \in {"stop", "backup"}
  PROVE  Still /\ DiskTells' /\ names'.record = names.record
  BY DEF SwitchInv, DiskTells, CutTells, Held, Plausible, disk, Still

\* What the filesystem of the data names.
Like(m, n) ==
  m.data = n.data /\ m.stores = n.stores /\ m.restored = n.restored /\ m.record = n.record

LEMMA MixIs ==
  ASSUME NEW d \in Naming, NEW b \in Naming
  PROVE  /\ Mix(d, b) \in Naming /\ Like(Mix(d, b), d)
         /\ Mix(d, b).snapshot = b.snapshot /\ Mix(d, b).inst = b.inst
  BY DEF Mix, Naming, Like

\* A step that names on one of two filesystems.
OnOne(n) == ~across \/ Mix(n, names) = n \/ (Name(n) /\ Mix(names, n) = n)

LEMMA OneIs ==
  ASSUME Typed, NEW n \in Naming,
         \/ n.snapshot = names.snapshot /\ n.inst = names.inst
         \/ Name(n) /\ Like(n, names) /\ n.failed = names.failed
  PROVE  OnOne(n)
<1>1. names \in Naming
  BY TypesAre
<1>2. CASE n.snapshot = names.snapshot /\ n.inst = names.inst
  BY <1>1, <1>2 DEF OnOne, Mix, Naming
<1>3. CASE Name(n) /\ Like(n, names) /\ n.failed = names.failed
  <2>1. Mix(names, n) = n
    BY <1>1, <1>3 DEF Like, Mix, Naming
  <2>2. QED
    BY <1>3, <2>1 DEF OnOne
<1>4. QED
  BY <1>2, <1>3

\* What a cut may leave of a new naming.
LEMMA KeptAre ==
  ASSUME Typed, NEW n \in Naming, Name(n) \/ Durably(n), OnOne(n)
  PROVE  /\ names' = n /\ n \in kept' /\ kept' \subseteq Naming
         /\ \A m \in kept' : \E k \in kept \cup {n} : Like(m, k)
         /\ ~across => kept' \subseteq kept \cup {n}
         /\ flushes /\ Durably(n) => \A m \in kept' : Like(m, n) /\ (~across => m = n)
<1>1. names \in Naming /\ names \in kept /\ kept \subseteq Naming
  BY TypesAre DEF Typed
<1>2. names' = n
  BY DEF Name, Durably
<1>3. ASSUME NEW k \in kept
      PROVE  /\ Mix(n, k) \in Naming /\ Like(Mix(n, k), n)
             /\ Mix(k, n) \in Naming /\ Like(Mix(k, n), k)
  BY <1>1, <1>3, MixIs
<1>4. Like(n, n) /\ \A k \in kept : Like(k, k)
  BY DEF Like
<1>5. \A m \in Hard(n) : m \in Naming /\ Like(m, n) /\ (~across => m = n)
  BY <1>3, <1>4 DEF Hard
<1>6. flushes /\ Durably(n) => kept' = Hard(n)
  BY DEF Durably
<1>7. CASE kept' = kept \cup Newly(n)
  <2>1. ASSUME across
        PROVE  n \in Newly(n)
    BY <1>1, <2>1 DEF Newly, OnOne
  <2>2. \A m \in Newly(n) : m \in Naming /\ (\E k \in kept \cup {n} : Like(m, k)) /\ (~across => m = n)
    BY <1>3, <1>4 DEF Newly
  <2>3. n \in kept'
    BY <1>7, <2>1 DEF Newly
  <2>4. \A m \in kept' : \E k \in kept \cup {n} : Like(m, k)
    BY <1>4, <1>7, <2>2
  <2>5. QED
    BY <1>1, <1>2, <1>5, <1>6, <1>7, <2>2, <2>3, <2>4
<1>8. CASE kept' = Hard(n) /\ ~Name(n)
  <2>1. n \in kept'
    BY <1>1, <1>8 DEF Hard, OnOne
  <2>2. QED
    BY <1>1, <1>2, <1>5, <1>8, <2>1
<1>9. QED
  BY <1>7, <1>8 DEF Name, Durably

\* A naming that takes the place of the last.
LEMMA Named ==
  ASSUME SwitchInv, NEW n \in Naming, Name(n) \/ Durably(n), OnOne(n), Plausible(n), Held(n),
         Durably(n) \/ (n.record = names.record /\ (n.data = "copy" <=> names.data = "copy")),
         across /\ n.record => n.snapshot = "whole" \/ "name" \in taken,
         n.data = "copy" => mark' # "absent" /\ (flushes => mark' = "hard"),
         UNCHANGED <<taken, across, flushes>>, pc'["job"] \in {"stop", "backup"} => ~n.record
  PROVE  DiskTells' /\ kept' \subseteq Naming /\ names' \in kept'
<1>1. /\ names' = n /\ n \in kept' /\ kept' \subseteq Naming
      /\ \A m \in kept' : \E k \in kept \cup {n} : Like(m, k)
      /\ ~across => kept' \subseteq kept \cup {n}
      /\ flushes /\ Durably(n) => \A m \in kept' : Like(m, n) /\ (~across => m = n)
  BY KeptAre DEF SwitchInv
<1>2. ASSUME flushes
      PROVE  CutTells'
  <2>1. CutTells
    BY <1>2 DEF SwitchInv, DiskTells
  <2>2. ASSUME NEW m \in kept'
        PROVE  /\ Plausible(m) /\ m.record = n.record /\ (m.data = "copy" <=> n.data = "copy")
               /\ ~across => Held(m)
    <3>1. PICK k \in kept \cup {n} : Like(m, k) /\ (Durably(n) => k = n)
      BY <1>1, <1>2, <2>2
    <3>2. ASSUME k = n
          PROVE  Plausible(k) /\ k.record = n.record /\ (k.data = "copy" <=> n.data = "copy")
      BY <3>2
    <3>3. ASSUME k \in kept, k # n
          PROVE  Plausible(k) /\ k.record = n.record /\ (k.data = "copy" <=> n.data = "copy")
      <4>1. Plausible(k) /\ k.record = names.record /\ (k.data = "copy" <=> names.data = "copy")
        BY <2>1, <3>3 DEF CutTells
      <4>2. n.record = names.record /\ (n.data = "copy" <=> names.data = "copy")
        BY <3>1, <3>3
      <4>3. QED
        BY <4>1, <4>2
    <3>4. Plausible(k) /\ k.record = n.record /\ (k.data = "copy" <=> n.data = "copy")
      BY <3>1, <3>2, <3>3
    <3>5. ASSUME ~across
          PROVE  Held(m)
      <4>1. \A x \in kept : Held(x)
        BY <2>1, <3>5 DEF CutTells
      <4>2. QED
        BY <1>1, <2>2, <3>5, <4>1
    <3>6. QED
      BY <3>1, <3>4, <3>5 DEF Like, Plausible
  <2>3. QED
    BY <1>1, <2>2 DEF CutTells, Held
<1>3. QED
  BY <1>1, <1>2 DEF DiskTells, Held

-----------------------------------------------------------------------------
(* Where a process goes.                                                   *)

LEMMA Went ==
  ASSUME Typed, NEW p \in Procs, NEW l \in Labels(p), pc' = [pc EXCEPT ![p] = l]
  PROVE  /\ DOMAIN pc' = Procs /\ pc'[p] = l
         /\ \A q \in Procs : pc'[q] \in Labels(q) /\ (q # p => pc'[q] = pc[q])
  BY DEF Typed

LEMMA MaintIs ==
  ASSUME NEW p \in Procs
  PROVE  MaintDead({p}) = IF maint = p THEN None ELSE maint
  BY DEF MaintDead

\* A process that fails lets go of what it holds.
LEMMA FailsLeaves ==
  ASSUME SwitchInv, NEW p \in Procs, Fails(p)
  PROVE  /\ Leaves(p) /\ UNCHANGED <<disk, noted, tries, across, flushes>> /\ DOMAIN pc' = Procs /\ life' \in {"worker", "recovery"}
         /\ \A q \in Procs : pc'[q] \in Labels(q) /\ (q # p => pc'[q] = pc[q])
         /\ IF p = "job" THEN pc'[p] \in {"rbStop", "recover", "over"} ELSE pc'[p] = "off"
<1> USE ProcsAre
<1>0. Typed /\ UNCHANGED <<disk, noted, tries, across, flushes>>
  BY DEF SwitchInv, Fails
<1>1. CASE p = "job" /\ pc[p] \in Before
  <2>1. pc' = [pc EXCEPT ![p] = "rbStop"] /\ UNCHANGED <<locks, maint, life>>
    BY <1>1 DEF Fails, Goto, guard
  <2>2. "rbStop" \in Labels(p) /\ "rbStop" \in AtRest(p)
    BY <1>1 DEF Labels, AtRest
  <2>3. pc[p] \notin Locking(p) /\ pc[p] \notin Maintained(p)
    BY <1>1 DEF Before, Locking, Maintained, Section
  <2>4. Drops(p)
    BY <2>1, <2>3, NoneDropped
  <2>5. maint # p
    BY <2>3 DEF SwitchInv, Process, Maintains
  <2>6. life \in {"worker", "recovery"}
    BY <1>0 DEF Typed, ServerTypeOK
  <2>7. QED
    BY <1>0, <1>1, <2>1, <2>2, <2>4, <2>5, <2>6, Went DEF Leaves, PcFor
<1>2. CASE ~(p = "job" /\ pc[p] \in Before)
  <2> DEFINE l == Gone(p)
  <2>1. /\ pc' = [pc EXCEPT ![p] = l] /\ maint' = MaintDead({p})
        /\ locks' = [d \in Dirs |-> [Dead({p})[d] EXCEPT !.file = @ /\ locks[d].flock # p]]
        /\ life' = IF p = "job" THEN "recovery" ELSE life
    BY <1>2 DEF Fails, Goto
  <2>2. l \in Labels(p) /\ l \in AtRest(p) /\ (IF p = "job" THEN l \in {"recover", "over"} ELSE l = "off")
    BY DEF Labels, AtRest, Gone
  <2>3. Drops(p)
    BY <1>0, <2>1, DeadIs
  <2>4. life' \in {"worker", "recovery"}
    BY <1>0, <2>1 DEF Typed, ServerTypeOK
  <2> HIDE DEF l
  <2>5. QED
    BY <1>0, <2>1, <2>2, <2>3, <2>4, MaintIs, Went DEF Leaves, PcFor
<1>3. QED
  BY <1>1, <1>2

LEMMA FailsKeeps ==
  ASSUME SwitchInv, NEW p \in Procs, Fails(p), events' \in [Acts -> Nat]
  PROVE  SwitchInv'
<1>1. Leaves(p) /\ UNCHANGED <<disk, noted, tries, across, flushes>>
  BY FailsLeaves
<1>2. Still /\ DiskTells' /\ names'.record = names.record
  <2>1. pc'["job"] \in {"stop", "backup"} => pc["job"] \in {"stop", "backup"}
    BY FailsLeaves, ProcsAre
  <2>2. QED
    BY <1>1, <2>1, SameDisk
<1>3. Typed'
  <2>1. Typed /\ locks' \in [Dirs -> LockOf] /\ maint' \in Procs \cup {None}
    BY <1>1 DEF SwitchInv, Leaves, Drops, Typed, ServerTypeOK
  <2>2. \A q \in Cores : pc'[q] \in Trying => tries'[q] < 3
    BY <1>1, <2>1, FailsLeaves, ProcsAre DEF Typed, Trying
  <2>3. ServerTypeOK'
    BY <2>1, FailsLeaves DEF Fails, Typed, ServerTypeOK, LockOf, disk, unit
  <2>4. QED
    BY <1>1, <2>1, <2>2, <2>3, FailsLeaves DEF Typed, disk
<1>4. QED
  BY <1>1, <1>2, <1>3, LeavesKeep

-----------------------------------------------------------------------------
(* Steps between two places where nothing is said of a process.            *)

LEMMA RestStep ==
  ASSUME SwitchInv, NEW p \in Procs, pc[p] \in AtRest(p), NEW l \in AtRest(p),
         pc' = [pc EXCEPT ![p] = l], p = "job" => l \notin {"stop", "backup"},
         UNCHANGED <<disk, guard, across, flushes>>, \A q \in Cores : q # p => noted'[q] = noted[q],
         ServerTypeOK', \A q \in Cores : pc'[q] \in Trying => tries'[q] < 3
  PROVE  SwitchInv'
<1> USE ProcsAre
<1>1. Typed /\ l \in Labels(p)
  BY DEF SwitchInv, Labels
<1>2. DOMAIN pc' = Procs /\ pc'[p] = l /\ \A q \in Procs : pc'[q] \in Labels(q) /\ (q # p => pc'[q] = pc[q])
  BY <1>1, Went
<1>3. pc[p] \notin Locking(p) /\ pc[p] \notin Maintained(p)
  BY DEF AtRest, Locking, Maintained, Section
<1>4. Drops(p) /\ maint # p
  BY <1>3, NoneDropped DEF SwitchInv, Process, Maintains, guard
<1>5. Leaves(p)
  BY <1>2, <1>4 DEF Leaves, PcFor, guard
<1>6. Still /\ DiskTells' /\ names'.record = names.record
  BY <1>2, SameDisk
<1>7. Typed'
  BY <1>1, <1>2 DEF Typed, disk
<1>8. QED
  BY <1>5, <1>6, <1>7, LeavesKeep

LEMMA JobRests ==
  ASSUME SwitchInv, StartNew \/ Healthy \/ Unhealthy \/ Recover \/ JobEnds
  PROVE  SwitchInv'
<1>1. PICK l \in AtRest("job") : /\ l \notin {"stop", "backup"} /\ pc' = [pc EXCEPT !["job"] = l]
                                /\ UNCHANGED <<noted, tries>>
  BY DEF StartNew, Healthy, Unhealthy, Recover, JobEnds, Then, Goto, AtRest
<1>2. pc["job"] \in AtRest("job") /\ UNCHANGED <<disk, guard, job>>
  BY DEF StartNew, Healthy, Unhealthy, Recover, JobEnds, At, AtRest
<1>3. ServerTypeOK'
  <2>1. enabled' \in BOOLEAN /\ UNCHANGED <<orig, version, touched, events>>
    BY DEF StartNew, Healthy, Unhealthy, Recover, JobEnds, SwitchInv, Typed, ServerTypeOK, unit
  <2>2. QED
    BY <1>1, <1>2, <2>1 DEF SwitchInv, Typed, ServerTypeOK, disk, guard, job
<1>4. \A q \in Cores : pc'[q] \in Trying => tries'[q] < 3
  BY <1>1, ProcsAre DEF SwitchInv, Typed
<1>5. QED
  BY <1>1, <1>2, <1>3, <1>4, ProcsAre, RestStep DEF job

LEMMA LookKeeps ==
  ASSUME SwitchInv, NEW p \in Cores, Look(p)
  PROVE  SwitchInv'
<1> USE ProcsAre
<1> DEFINE l == IF names.record \/ tries[p] = 3 THEN "maint" ELSE "prepare"
<1>1. pc[p] \in AtRest(p) /\ l \in AtRest(p) /\ pc' = [pc EXCEPT ![p] = l]
      /\ UNCHANGED <<disk, guard, noted, tries, job, unit, events>>
  BY DEF Look, Goto, AtRest
<1>2. ServerTypeOK'
  BY <1>1 DEF SwitchInv, Typed, ServerTypeOK, disk, guard, job, unit
<1>3. tries[p] \in 0..3 /\ \A q \in Cores : pc'[q] \in Trying => tries'[q] < 3
  BY <1>1 DEF SwitchInv, Typed, ServerTypeOK, Trying
<1>4. QED
  BY <1>1, <1>2, <1>3, RestStep DEF job

LEMMA BootKeeps ==
  ASSUME SwitchInv, NEW p \in Cores, Boot(p), events' \in [Acts -> Nat]
  PROVE  SwitchInv'
<1> USE ProcsAre
<1>1. /\ pc[p] \in AtRest(p) /\ "look" \in AtRest(p) /\ pc' = [pc EXCEPT ![p] = "look"]
      /\ noted' = [noted EXCEPT ![p] = None] /\ tries' = [tries EXCEPT ![p] = 0]
      /\ UNCHANGED <<disk, guard, job, orig, enabled, touched>> /\ version' \in {"old", "new"}
  BY DEF Boot, Goto, AtRest, SwitchInv, Typed, ServerTypeOK
<1>2. ServerTypeOK'
  BY <1>1 DEF SwitchInv, Typed, ServerTypeOK, disk, guard, job
<1>3. \A q \in Cores : pc'[q] \in Trying => tries'[q] < 3
  BY <1>1 DEF SwitchInv, Typed, ServerTypeOK, Trying
<1>4. \A q \in Cores : q # p => noted'[q] = noted[q]
  BY <1>1 DEF SwitchInv, Typed, ServerTypeOK
<1>5. QED
  BY <1>1, <1>2, <1>3, <1>4, RestStep DEF job

-----------------------------------------------------------------------------
(* Processes that end or are ended.                                        *)

LEMMA EndsKeep ==
  ASSUME SwitchInv, NEW p \in Procs, Leaves(p), DOMAIN pc' = Procs, \A q \in Procs : pc'[q] \in Labels(q),
         pc'["job"] \in {"stop", "backup"} => pc["job"] \in {"stop", "backup"},
         UNCHANGED <<disk, across, flushes>>, ServerTypeOK', \A q \in Cores : pc'[q] \in Trying => tries'[q] < 3
  PROVE  SwitchInv'
<1>1. Still /\ DiskTells' /\ names'.record = names.record
  BY SameDisk
<1>2. Typed'
  BY DEF SwitchInv, Typed, disk
<1>3. QED
  BY <1>1, <1>2, LeavesKeep

LEMMA HappensIs ==
  ASSUME SwitchInv, NEW a, Happens(a)
  PROVE  a \in Acts /\ events' \in [Acts -> Nat] /\ events' = [events EXCEPT ![a] = @ + 1]
<1>1. a \in Acts /\ events' = [events EXCEPT ![a] = @ + 1]
  BY Zenon DEF Happens
<1>2. events \in [Acts -> Nat]
  BY DEF SwitchInv, Typed, ServerTypeOK
<1>3. QED
  BY <1>1, <1>2

LEMMA KillKeeps ==
  ASSUME SwitchInv, NEW p \in Procs, Kill(p)
  PROVE  SwitchInv'
<1> USE ProcsAre
<1>1. /\ pc' = [pc EXCEPT ![p] = Gone(p)] /\ locks' = Dead({p}) /\ maint' = MaintDead({p})
      /\ life' \in {"worker", "recovery"} /\ orig' \in BOOLEAN /\ events' \in [Acts -> Nat]
      /\ UNCHANGED <<disk, noted, tries, across, flushes, rolling, torn, enabled, version, touched>>
  <2>1. events' \in [Acts -> Nat]
    BY HappensIs DEF Kill
  <2>2. life \in {"worker", "recovery"} /\ orig \in BOOLEAN
    BY DEF SwitchInv, Typed, ServerTypeOK
  <2>3. orig' = (orig /\ p # "svc") /\ life' = IF p = "job" THEN "recovery" ELSE life
    BY Zenon DEF Kill
  <2>4. orig' \in BOOLEAN
    BY ONLY <2>3
  <2>5. QED
    BY <2>1, <2>2, <2>3, <2>4 DEF Kill, Goto, Gone
<1>2. Gone(p) \in Labels(p) /\ Gone(p) \in AtRest(p) /\ (IF p = "job" THEN Gone(p) \in {"recover", "over"} ELSE Gone(p) = "off")
  BY DEF Gone, Labels, AtRest
<1>3. DOMAIN pc' = Procs /\ pc'[p] = Gone(p) /\ \A q \in Procs : pc'[q] \in Labels(q) /\ (q # p => pc'[q] = pc[q])
  BY <1>1, <1>2, Went DEF SwitchInv
<1>4. Leaves(p)
  BY <1>1, <1>2, <1>3, DeadIs, MaintIs DEF Leaves, PcFor, SwitchInv
<1>5. ServerTypeOK'
  BY <1>1, <1>4 DEF SwitchInv, Typed, ServerTypeOK, Leaves, Drops, LockOf, disk
<1>6. \A q \in Cores : pc'[q] \in Trying => tries'[q] < 3
  BY <1>1, <1>2, <1>3 DEF SwitchInv, Typed, Trying
<1>7. pc'["job"] \in {"stop", "backup"} => pc["job"] \in {"stop", "backup"}
  BY <1>2, <1>3
<1>8. QED
  BY <1>1, <1>3, <1>4, <1>5, <1>6, <1>7, EndsKeep

LEMMA HandStopsKeeps ==
  ASSUME SwitchInv, NEW p \in Cores, HandStops(p)
  PROVE  SwitchInv'
<1> USE ProcsAre
<1>1. /\ pc' = [pc EXCEPT ![p] = "off"] /\ locks' = LetGo(p) /\ pc[p] = "run"
      /\ UNCHANGED <<disk, maint, noted, tries, job, unit, events>>
  BY DEF HandStops, Goto
<1>2. "off" \in Labels(p) /\ "off" \in AtRest(p)
  BY DEF Labels, AtRest
<1>3. DOMAIN pc' = Procs /\ pc'[p] = "off" /\ \A q \in Procs : pc'[q] \in Labels(q) /\ (q # p => pc'[q] = pc[q])
  BY <1>1, <1>2, Went DEF SwitchInv
<1>4. maint # p
  BY <1>1 DEF SwitchInv, Process, Maintains, Maintained, Section
<1>5. Leaves(p)
  BY <1>1, <1>2, <1>3, <1>4, LetGoIs DEF Leaves, PcFor, SwitchInv
<1>6. ServerTypeOK'
  BY <1>1, <1>5 DEF SwitchInv, Typed, ServerTypeOK, Leaves, Drops, LockOf, disk, job, unit
<1>7. \A q \in Cores : pc'[q] \in Trying => tries'[q] < 3
  BY <1>1, <1>3 DEF SwitchInv, Typed, Trying
<1>8. QED
  BY <1>1, <1>3, <1>5, <1>6, <1>7, EndsKeep DEF job

\* The service manager ends the service; the job is where nothing is said of it.
LEMMA DownKeeps ==
  ASSUME SwitchInv, ServiceDown, UNCHANGED disk,
         NEW l \in AtRest("job"),
         \/ pc' = [pc EXCEPT !["svc"] = "off"]
         \/ pc' = [pc EXCEPT !["job"] = l, !["svc"] = "off"] /\ pc["job"] \in AtRest("job"),
         pc'["job"] \in {"stop", "backup"} => pc["job"] \in {"stop", "backup"},
         rolling' \in BOOLEAN, UNCHANGED <<noted, tries, across, flushes, life, torn, version, touched, events>>
  PROVE  SwitchInv'
<1> USE ProcsAre
<1>1. Typed /\ "off" \in Labels("svc") /\ "off" \in AtRest("svc") /\ l \in Labels("job")
  BY DEF SwitchInv, Labels, AtRest
<1>2. /\ DOMAIN pc' = Procs /\ pc'["svc"] = "off"
      /\ \A q \in Procs : q \notin {"svc", "job"} => pc'[q] = pc[q]
      /\ pc'["job"] = pc["job"] \/ (pc["job"] \in AtRest("job") /\ pc'["job"] = l)
  BY <1>1 DEF Typed
<1>3. \A q \in Procs : pc'[q] \in Labels(q)
  BY <1>1, <1>2 DEF Typed
<1>4. PcFor("svc")
  BY <1>2 DEF PcFor
<1>5. Leaves("svc")
  BY <1>1, <1>2, <1>4, DeadIs, MaintIs DEF Leaves, ServiceDown
<1>6. ServerTypeOK'
  <2>1. enabled' \in BOOLEAN /\ orig' \in BOOLEAN
    BY DEF ServiceDown
  <2>2. maint' \in Procs \cup {None} /\ locks' \in [Dirs -> LockOf]
    BY <1>1, <1>5 DEF Typed, ServerTypeOK, Leaves, Drops
  <2>3. QED
    BY <1>1, <2>1, <2>2 DEF Typed, ServerTypeOK, LockOf, disk
<1>7. \A q \in Cores : pc'[q] \in Trying => tries'[q] < 3
  BY <1>1, <1>2 DEF Typed, Trying
<1>8. QED
  BY <1>2, <1>3, <1>5, <1>6, <1>7, EndsKeep

LEMMA ServiceEnds ==
  ASSUME SwitchInv, AdmittedExits \/ StopService \/ RollBack
  PROVE  SwitchInv'
<1> USE ProcsAre
<1>0. Typed /\ {"backup", "rbAway"} \subseteq AtRest("job")
  BY DEF SwitchInv, AtRest
<1>1. CASE AdmittedExits
  <2>1. ServiceDown /\ pc' = [pc EXCEPT !["svc"] = "off"] /\ UNCHANGED <<disk, noted, tries, job, version, touched, events>>
    BY <1>1 DEF AdmittedExits, Goto
  <2>2. pc'["job"] = pc["job"] /\ rolling' \in BOOLEAN
    BY <1>0, <2>1 DEF Typed, ServerTypeOK, job
  <2>3. QED
    BY <1>0, <2>1, <2>2, DownKeeps DEF job
<1>2. CASE StopService
  <2>1. CASE Throw("job")
    <3>1. events' \in [Acts -> Nat]
      BY <1>0, <2>1 DEF Throw, Typed, ServerTypeOK
    <3>2. QED
      BY <2>1, <3>1, FailsKeeps DEF Throw
  <2>2. CASE ~Throw("job")
    <3>1. /\ ServiceDown /\ pc' = [pc EXCEPT !["job"] = "backup", !["svc"] = "off"] /\ pc["job"] = "stop"
          /\ UNCHANGED <<disk, noted, tries, job, version, touched, events>>
      BY <1>2, <2>2 DEF StopService, At
    <3>2. pc["job"] \in AtRest("job") /\ rolling' \in BOOLEAN
      BY <1>0, <3>1 DEF Typed, ServerTypeOK, job, AtRest
    <3>3. QED
      BY <1>0, <3>1, <3>2, DownKeeps DEF job
  <2>3. QED
    BY <2>1, <2>2
<1>3. CASE RollBack
  <2>1. /\ pc["job"] \in AtRest("job") /\ rolling' = TRUE
        /\ UNCHANGED <<disk, noted, tries, across, flushes, life, torn, version, touched, events>>
    BY <1>3 DEF RollBack, At, AtRest
  <2>2. CASE ServiceDown /\ pc' = [pc EXCEPT !["job"] = "rbAway", !["svc"] = "off"]
    <3>1. pc'["job"] = "rbAway"
      BY <1>0, <2>2 DEF Typed
    <3>2. QED
      BY <1>0, <2>1, <2>2, <3>1, DownKeeps
  <2>3. CASE pc' = [pc EXCEPT !["job"] = "rbAway"] /\ UNCHANGED <<guard, enabled, orig>>
    <3>1. ServerTypeOK'
      BY <1>0, <2>1, <2>3 DEF Typed, ServerTypeOK, disk, guard
    <3>2. \A q \in Cores : pc'[q] \in Trying => tries'[q] < 3
      BY <1>0, <2>1, <2>3 DEF Typed
    <3>3. QED
      BY <1>0, <2>1, <2>3, <3>1, <3>2, RestStep
  <2>4. QED
    BY <1>3, <2>2, <2>3 DEF RollBack, Goto
<1>4. QED
  BY <1>1, <1>2, <1>3

-----------------------------------------------------------------------------
(* A core opening the data directory.                                      *)

\* A step that leaves the disk alone.
LEMMA StepKeeps ==
  ASSUME SwitchInv, NEW p \in Procs, NEW l \in Labels(p), pc' = [pc EXCEPT ![p] = l],
         p = "job" => l \notin {"stop", "backup"},
         UNCHANGED <<disk, across, flushes>>, LocksFor(p), MaintFor(p), LockPlaces', Process(p)', ServerTypeOK',
         \A q \in Cores : q # p => noted'[q] = noted[q],
         \A q \in Cores : pc'[q] \in Trying => tries'[q] < 3
  PROVE  SwitchInv'
<1> USE ProcsAre
<1>1. DOMAIN pc' = Procs /\ pc'[p] = l /\ \A q \in Procs : pc'[q] \in Labels(q) /\ (q # p => pc'[q] = pc[q])
  BY Went DEF SwitchInv
<1>2. Still /\ DiskTells' /\ names'.record = names.record
  BY <1>1, SameDisk
<1>3. PcFor(p) /\ DiskFor(p)
  BY <1>1, <1>2 DEF PcFor, DiskFor, Still
<1>4. Typed'
  BY <1>1 DEF SwitchInv, Typed, disk
<1>5. QED
  BY <1>2, <1>3, <1>4, Whole DEF Frame

LEMMA SameLocks ==
  ASSUME SwitchInv, NEW p \in Procs, UNCHANGED locks
  PROVE  LocksFor(p)
  BY TypesAre DEF SwitchInv, LocksFor

\* What a lock that is taken is.
LEMMA LockedIs ==
  ASSUME SwitchInv, NEW p \in Procs, NEW d \in Dirs, NEW r \in BOOLEAN, Free(p, d), locks' = Locked(p, d, r)
  PROVE  /\ LocksFor(p) /\ locks'[d].flock = p
         /\ \A e \in Dirs : e # d => locks'[e] = locks[e]
<1>1. locks \in [Dirs -> LockOf] /\ DOMAIN locks = Dirs
  BY TypesAre DEF SwitchInv
<1>2. d # None
  BY DEF Dirs, None
<1>3. locks[d].flock = None /\ locks[d].pid \in {None, p}
  BY <1>2 DEF Free
<1>4. locks'[d] = [flock |-> p, pid |-> IF r THEN p ELSE None, file |-> TRUE]
      /\ \A e \in Dirs : e # d => locks'[e] = locks[e]
  BY <1>1 DEF Locked
<1>5. locks' \in [Dirs -> LockOf]
  BY <1>1 DEF Locked, LockOf
<1>6. QED
  BY <1>1, <1>3, <1>4, <1>5, ProcsAre DEF LocksFor, LockOf, Dirs

LEMMA NoteKeeps ==
  ASSUME SwitchInv, NEW p \in Cores, Note(p)
  PROVE  SwitchInv'
<1> USE ProcsAre
<1>1. CASE Throw(p)
  BY <1>1, FailsKeeps DEF Throw, SwitchInv, Typed, ServerTypeOK
<1>2. CASE ~Throw(p)
  <2>1. /\ pc[p] = "note" /\ names.data # None /\ noted' = [noted EXCEPT ![p] = names.data]
        /\ pc' = [pc EXCEPT ![p] = "lock"] /\ UNCHANGED <<disk, guard, tries, job, unit, events>>
    BY <1>2 DEF Note, Goto
  <2>2. names.data \in Dirs \cup {None} /\ DOMAIN noted = Cores /\ DOMAIN pc = Procs
    BY TypesAre DEF SwitchInv, Naming
  <2>3. noted'[p] = names.data /\ pc'[p] = "lock" /\ \A q \in Cores : q # p => noted'[q] = noted[q]
    BY <2>1, <2>2
  <2>4. ServerTypeOK'
    BY <2>1, <2>2 DEF SwitchInv, Typed, ServerTypeOK, disk, guard, job, unit
  <2>5. Process(p)
    BY DEF SwitchInv
  <2>6. \A d \in Dirs : locks[d].flock # p
    BY <2>1, NoneLocked DEF Locking
  <2>7. maint # p
    BY <2>1, <2>5 DEF Process, Maintains, Maintained, Section
  <2>8. Process(p)'
    BY <2>1, <2>3, <2>6, <2>7
    DEF Process, Maintains, Recorded, Restoring, Locks, Opening, Maintained, Section, guard, disk
  <2>9. "lock" \in Labels(p) /\ tries[p] < 3
    BY <2>1 DEF Labels, SwitchInv, Typed, Trying
  <2>10. \A q \in Cores : pc'[q] \in Trying => tries'[q] < 3
    BY <2>1, <2>9 DEF SwitchInv, Typed
  <2>11. LocksFor(p) /\ MaintFor(p) /\ LockPlaces'
    BY <2>1, SameLocks DEF guard, MaintFor, SwitchInv, LockPlaces, disk
  <2>12. QED
    BY <2>1, <2>3, <2>4, <2>8, <2>9, <2>10, <2>11, StepKeeps DEF job
<1>3. QED
  BY <1>1, <1>2

LEMMA RecheckKeeps ==
  ASSUME SwitchInv, NEW p \in Cores, Recheck(p)
  PROVE  SwitchInv'
<1> USE ProcsAre
<1>0. Typed /\ Process(p) /\ pc[p] = "recheck" /\ tries[p] < 3 /\ tries \in [Cores -> 0..3]
  BY DEF SwitchInv, Recheck, Typed, Trying, ServerTypeOK
<1>1. CASE names.record
  <2>1. /\ locks' = LetGo(p) /\ pc' = [pc EXCEPT ![p] = "look"] /\ tries' = [tries EXCEPT ![p] = @ + 1]
        /\ UNCHANGED <<disk, maint, noted, job, unit, events>>
    BY <1>1 DEF Recheck, Goto
  <2>2. "look" \in Labels(p) /\ "look" \in AtRest(p)
    BY DEF Labels, AtRest
  <2>3. DOMAIN pc' = Procs /\ pc'[p] = "look" /\ \A q \in Procs : pc'[q] \in Labels(q) /\ (q # p => pc'[q] = pc[q])
    BY <1>0, <2>1, <2>2, Went
  <2>4. maint # p
    BY <1>0 DEF Process, Maintains, Maintained, Section
  <2>5. Leaves(p)
    BY <1>0, <2>1, <2>2, <2>3, <2>4, LetGoIs DEF Leaves, PcFor
  <2>6. tries' \in [Cores -> 0..3] /\ \A q \in Cores : q # p => tries'[q] = tries[q]
    BY <1>0, <2>1
  <2>7. ServerTypeOK'
    BY <1>0, <2>1, <2>5, <2>6 DEF Typed, ServerTypeOK, Leaves, Drops, LockOf, disk, job, unit
  <2>8. \A q \in Cores : pc'[q] \in Trying => tries'[q] < 3
    BY <1>0, <2>3, <2>6 DEF Typed, Trying
  <2>9. QED
    BY <2>1, <2>3, <2>5, <2>7, <2>8, EndsKeep DEF job
<1>2. CASE ~names.record
  <2>1. /\ pc' = [pc EXCEPT ![p] = "stat"]
        /\ UNCHANGED <<disk, guard, noted, tries, job, unit, events>>
    BY <1>2 DEF Recheck, Goto, guard
  <2>2. InPlace
    BY <1>0, <1>2 DEF SwitchInv, DiskTells, Plausible, InPlace, Typed, ServerTypeOK
  <2>3. "stat" \in Labels(p) /\ pc'[p] = "stat"
    BY <1>0, <2>1 DEF Labels, Typed
  <2>4. ServerTypeOK'
    BY <1>0, <2>1 DEF Typed, ServerTypeOK, disk, guard, job, unit
  <2>5. Process(p)'
    BY <1>0, <2>1, <2>2, <2>3
    DEF Process, Maintains, Recorded, Restoring, Locks, Opening, Maintained, Section, Locking, InPlace, guard, disk
  <2>6. \A q \in Cores : pc'[q] \in Trying => tries'[q] < 3
    BY <1>0, <2>1, <2>3 DEF Typed
  <2>7. LocksFor(p) /\ MaintFor(p) /\ LockPlaces'
    BY <2>1, SameLocks DEF guard, MaintFor, SwitchInv, LockPlaces, disk
  <2>8. QED
    BY <2>1, <2>3, <2>4, <2>5, <2>6, <2>7, StepKeeps DEF job
<1>3. QED
  BY <1>1, <1>2

LEMMA OpensType ==
  ASSUME SwitchInv, NEW p \in Cores, Opens(p)
  PROVE  touched' \subseteq Dirs \cup {names.data} /\ pc' = [pc EXCEPT ![p] = "run"]
  BY DEF Opens, SwitchInv, Typed, ServerTypeOK

LEMMA LockKeeps ==
  ASSUME SwitchInv, NEW p \in Cores, LockData(p)
  PROVE  SwitchInv'
<1> USE ProcsAre
<1>0. Typed /\ Process(p) /\ names \in Naming /\ pc[p] \in {"lock", "mlock"}
  BY TypesAre DEF SwitchInv, LockData
<1>1. CASE Throw(p)
  BY <1>1, FailsKeeps DEF Throw, SwitchInv, Typed, ServerTypeOK
<1>2. CASE ~Throw(p)
  <2> DEFINE d == names.data
  <2>1. /\ d # None /\ Free(p, d) /\ locks' = Locked(p, d, FALSE)
        /\ UNCHANGED <<disk, noted, tries, job, orig, enabled, version, events>>
        /\ IF pc[p] = "lock" THEN pc' = [pc EXCEPT ![p] = "recheck"] /\ UNCHANGED <<maint, touched>>
                             ELSE Opens(p) /\ maint' = None
    BY <1>2 DEF LockData, Goto
  <2>2. d \in Dirs
    BY <1>0, <2>1 DEF Naming
  <2> HIDE DEF d
  <2>3. LocksFor(p) /\ locks'[d].flock = p /\ \A e \in Dirs : e # d => locks'[e] = locks[e]
    BY <2>1, <2>2, LockedIs
  <2>4. \A e \in Dirs : locks[e].flock # p
    BY <1>0, NoneLocked DEF Locking
  <2>5. \A e \in Dirs : locks'[e].flock = p <=> e = d
    BY <2>2, <2>3, <2>4
  <2>6. UNCHANGED <<names, mark>>
    BY <2>1 DEF disk
  <2>7. LockPlaces'
    BY <2>2, <2>3, <2>6 DEF SwitchInv, LockPlaces, Dirs, d
  <2>8. locks' \in [Dirs -> LockOf]
    BY <2>3 DEF LocksFor
  <2>9. CASE pc[p] = "lock"
    <3>1. pc' = [pc EXCEPT ![p] = "recheck"] /\ UNCHANGED <<maint, touched>>
      BY <2>1, <2>9
    <3>2. "recheck" \in Labels(p) /\ pc'[p] = "recheck" /\ tries[p] < 3
      BY <1>0, <2>9, <3>1 DEF Labels, Typed, Trying
    <3>3. maint # p
      BY <1>0, <2>9 DEF Process, Maintains, Maintained, Section
    <3>4. noted[p] = "copy" => d = "copy"
      BY <1>0, <2>9 DEF Process, Opening, d
    <3>5. Process(p)'
      <4>1. Locks(p)'
        BY <2>5, <3>2 DEF Locks, Locking
      <4>2. Maintains(p)' /\ Recorded(p)' /\ Restoring(p)'
        BY <3>1, <3>2, <3>3 DEF Maintains, Maintained, Recorded, Restoring, Section
      <4>3. noted'[p] = "copy" => names'.data = "copy" /\ locks'["copy"].flock = p
        BY <2>1, <2>5, <2>6, <3>4 DEF d, Dirs
      <4>4. Opening(p)'
        BY <2>2, <2>5, <3>2, <4>3 DEF Opening
      <4>5. QED
        BY <4>1, <4>2, <4>4 DEF Process
    <3>6. ServerTypeOK'
      <4>1. touched' \subseteq Dirs /\ maint' \in Procs \cup {None}
        BY <1>0, <3>1 DEF Typed, ServerTypeOK
      <4>2. QED
        BY <1>0, <2>1, <2>8, <4>1 DEF Typed, ServerTypeOK, LockOf, disk, job
    <3>7. \A q \in Cores : pc'[q] \in Trying => tries'[q] < 3
      BY <1>0, <2>1, <3>1, <3>2 DEF Typed
    <3>8. MaintFor(p)
      BY <3>1 DEF MaintFor
    <3>9. QED
      BY <2>1, <2>3, <2>7, <3>1, <3>2, <3>5, <3>6, <3>7, <3>8, StepKeeps DEF job
  <2>10. CASE pc[p] = "mlock"
    <3>1. pc' = [pc EXCEPT ![p] = "run"] /\ touched' \subseteq Dirs /\ maint' = None
      BY <2>1, <2>2, <2>10, OpensType DEF d
    <3>2. "run" \in Labels(p) /\ pc'[p] = "run"
      BY <1>0, <3>1 DEF Labels, Typed
    <3>3. maint = p /\ ~names.record
      BY <1>0, <2>10 DEF Process, Maintains, Maintained, Recorded
    <3>4. InPlace
      BY <1>0, <3>3 DEF SwitchInv, DiskTells, Plausible, InPlace, Typed, ServerTypeOK
    <3>5. Process(p)'
      <4>1. Locks(p)'
        BY <2>5, <3>2 DEF Locks, Locking
      <4>2. Maintains(p)' /\ Recorded(p)' /\ Restoring(p)'
        BY <3>1, <3>2 DEF Maintains, Maintained, Recorded, Restoring, Section
      <4>3. InPlace' /\ locks'[names'.data].flock = p
        BY <2>2, <2>5, <2>6, <3>4 DEF d, InPlace
      <4>4. Opening(p)'
        BY <3>2, <4>3 DEF Opening
      <4>5. QED
        BY <4>1, <4>2, <4>4 DEF Process
    <3>6. ServerTypeOK'
      BY <1>0, <2>1, <2>8, <3>1 DEF Typed, ServerTypeOK, LockOf, disk, job
    <3>7. \A q \in Cores : pc'[q] \in Trying => tries'[q] < 3
      BY <1>0, <2>1, <3>1, <3>2 DEF Typed, Trying
    <3>8. MaintFor(p)
      BY <3>1, <3>3 DEF MaintFor
    <3>9. QED
      BY <2>1, <2>3, <2>7, <3>1, <3>2, <3>5, <3>6, <3>7, <3>8, StepKeeps DEF job
  <2>11. QED
    BY <1>0, <2>9, <2>10
<1>3. QED
  BY <1>1, <1>2

LEMMA StatKeeps ==
  ASSUME SwitchInv, NEW p \in Cores, Stat(p)
  PROVE  SwitchInv'
<1> USE ProcsAre
<1>0. /\ Typed /\ Process(p) /\ pc[p] = "stat" /\ tries[p] < 3 /\ tries \in [Cores -> 0..3]
      /\ names \in Naming /\ InPlace
  BY TypesAre DEF SwitchInv, Stat, Typed, Trying, ServerTypeOK, Process, Opening
<1>1. names.data \in {"live", "copy"} /\ names.data # None
  BY <1>0 DEF InPlace, None
<1>2. CASE names.data = noted[p]
  <2>1. Opens(p) /\ UNCHANGED <<disk, guard, noted, tries, job, orig, enabled, version, events>>
    BY <1>2 DEF Stat
  <2>2. pc' = [pc EXCEPT ![p] = "run"] /\ touched' \subseteq Dirs
    BY <1>1, <2>1, OpensType DEF Dirs
  <2>3. "run" \in Labels(p) /\ pc'[p] = "run"
    BY <1>0, <2>2 DEF Labels, Typed
  <2>4. locks[names.data].flock = p
    <3>1. PICK d \in Dirs : locks[d].flock = p
      BY <1>0 DEF Process, Opening
    <3>2. CASE names.data = "copy"
      BY <1>0, <1>2, <3>2 DEF Process, Opening
    <3>3. CASE names.data = "live"
      BY <3>1, <3>3 DEF SwitchInv, LockPlaces, Dirs
    <3>4. QED
      BY <1>1, <3>2, <3>3
  <2>5. Process(p)'
    BY <1>0, <2>1, <2>3, <2>4
    DEF Process, Maintains, Recorded, Restoring, Locks, Opening, Maintained, Section, Locking, InPlace, guard, disk
  <2>6. ServerTypeOK'
    BY <1>0, <2>1, <2>2 DEF Typed, ServerTypeOK, disk, guard, job
  <2>7. \A q \in Cores : pc'[q] \in Trying => tries'[q] < 3
    BY <1>0, <2>1, <2>2, <2>3 DEF Typed, Trying
  <2>8. LocksFor(p) /\ MaintFor(p) /\ LockPlaces'
    BY <2>1, SameLocks DEF guard, MaintFor, SwitchInv, LockPlaces, disk
  <2>9. QED
    BY <2>1, <2>2, <2>3, <2>5, <2>6, <2>7, <2>8, StepKeeps DEF job
<1>3. CASE names.data # noted[p]
  <2>1. /\ locks' = LetGo(p) /\ pc' = [pc EXCEPT ![p] = "look"] /\ tries' = [tries EXCEPT ![p] = @ + 1]
        /\ UNCHANGED <<disk, maint, noted, job, unit, events>>
    BY <1>1, <1>3 DEF Stat, Goto
  <2>2. "look" \in Labels(p) /\ "look" \in AtRest(p)
    BY DEF Labels, AtRest
  <2>3. DOMAIN pc' = Procs /\ pc'[p] = "look" /\ \A q \in Procs : pc'[q] \in Labels(q) /\ (q # p => pc'[q] = pc[q])
    BY <1>0, <2>1, <2>2, Went
  <2>4. maint # p
    BY <1>0 DEF Process, Maintains, Maintained, Section
  <2>5. Leaves(p)
    BY <1>0, <2>1, <2>2, <2>3, <2>4, LetGoIs DEF Leaves, PcFor
  <2>6. tries' \in [Cores -> 0..3] /\ \A q \in Cores : q # p => tries'[q] = tries[q]
    BY <1>0, <2>1
  <2>7. ServerTypeOK'
    BY <1>0, <2>1, <2>5, <2>6 DEF Typed, ServerTypeOK, Leaves, Drops, LockOf, disk, job, unit
  <2>8. \A q \in Cores : pc'[q] \in Trying => tries'[q] < 3
    BY <1>0, <2>3, <2>6 DEF Typed, Trying
  <2>9. QED
    BY <2>1, <2>3, <2>5, <2>7, <2>8, EndsKeep DEF job
<1>4. QED
  BY <1>2, <1>3

\* A step that leaves the locks alone, and the disk.
LEMMA PlainKeeps ==
  ASSUME SwitchInv, NEW p \in Procs, NEW l \in Labels(p), pc' = [pc EXCEPT ![p] = l],
         p = "job" => l \notin {"stop", "backup"},
         UNCHANGED <<disk, locks, noted, tries, job, unit, events>>,
         maint' \in {maint, p, None}, MaintFor(p), p \in Cores /\ l \in Trying => tries[p] < 3,
         pc'[p] = l => Process(p)'
  PROVE  SwitchInv'
<1> USE ProcsAre
<1>1. Typed /\ pc'[p] = l /\ \A q \in Procs : q # p => pc'[q] = pc[q]
  BY Went DEF SwitchInv
<1>2. LocksFor(p) /\ LockPlaces'
  BY SameLocks DEF SwitchInv, LockPlaces, disk
<1>3. maint' \in Procs \cup {None}
  BY <1>1 DEF Typed, ServerTypeOK
<1>4. ServerTypeOK'
  BY <1>1, <1>3 DEF Typed, ServerTypeOK, disk, job, unit
<1>5. \A q \in Cores : pc'[q] \in Trying => tries'[q] < 3
  BY <1>1 DEF Typed
<1>6. QED
  BY <1>1, <1>2, <1>4, <1>5, StepKeeps DEF job

LEMMA MaintainKeeps ==
  ASSUME SwitchInv, NEW p \in Cores, Maintain(p)
  PROVE  SwitchInv'
<1> USE ProcsAre
<1>1. CASE Throw(p)
  BY <1>1, FailsKeeps DEF Throw, SwitchInv, Typed, ServerTypeOK
<1>2. CASE ~Throw(p)
  <2>1. /\ pc[p] = "maint" /\ maint = None /\ maint' = p /\ pc' = [pc EXCEPT ![p] = "read"]
        /\ UNCHANGED <<disk, locks, noted, tries, job, unit, events>>
    BY <1>2 DEF Maintain, Goto
  <2>2. \A d \in Dirs : locks[d].flock # p
    BY <2>1, NoneLocked DEF Locking
  <2>3. ASSUME pc'[p] = "read"
        PROVE  Process(p)'
    BY <2>1, <2>2, <2>3
    DEF Process, Maintains, Recorded, Restoring, Locks, Opening, Maintained, Section, disk
  <2>4. "read" \in Labels(p) /\ "read" \notin Trying
    BY DEF Labels, Maintained, Trying
  <2>5. QED
    BY <2>1, <2>3, <2>4, PlainKeeps DEF MaintFor
<1>3. QED
  BY <1>1, <1>2

LEMMA ReadRecordKeeps ==
  ASSUME SwitchInv, NEW p \in Cores, ReadRecord(p)
  PROVE  SwitchInv'
<1> USE ProcsAre
<1> DEFINE l == IF names.record THEN "take" ELSE "mprepare"
<1>1. pc[p] = "read" /\ pc' = [pc EXCEPT ![p] = l] /\ UNCHANGED <<disk, guard, noted, tries, job, unit, events>>
  BY DEF ReadRecord, Goto
<1>2. \A d \in Dirs : locks[d].flock # p
  BY <1>1, NoneLocked DEF Locking
<1>3. maint = p
  BY <1>1 DEF SwitchInv, Process, Maintains, Maintained
<1>4. ASSUME pc'[p] = l
      PROVE  Process(p)'
  BY <1>1, <1>2, <1>3, <1>4
  DEF Process, Maintains, Recorded, Restoring, Locks, Opening, Maintained, Section, disk, guard
<1>5. l \in Labels(p) /\ l \notin Trying
  BY DEF Labels, Maintained, Section, Trying
<1> HIDE DEF l
<1>6. QED
  BY <1>1, <1>3, <1>4, <1>5, PlainKeeps DEF MaintFor, guard

LEMMA PrepareKeeps ==
  ASSUME SwitchInv, NEW p \in Cores, Prepare(p)
  PROVE  SwitchInv'
<1> USE ProcsAre
<1> DEFINE l == IF pc[p] = "prepare" THEN "note" ELSE "mlock"
<1>0. /\ Typed /\ Process(p) /\ pc[p] \in {"prepare", "mprepare"} /\ pc' = [pc EXCEPT ![p] = l]
      /\ UNCHANGED <<mark, taken, maint, noted, tries, job, unit, events>>
  BY DEF Prepare, Goto, SwitchInv
<1>1. \A d \in Dirs : locks[d].flock # p
  BY <1>0, NoneLocked DEF Locking
<1>2. l \in Labels(p) /\ (l \in Trying => tries[p] < 3)
  BY <1>0 DEF Labels, Maintained, AtRest, Typed, Trying
<1>3. CASE names.data # None
  <2>1. UNCHANGED <<disk, locks>>
    BY <1>0, <1>3 DEF Prepare, disk
  <2>2. ASSUME pc'[p] = l
        PROVE  Process(p)'
    BY <1>0, <1>1, <2>1, <2>2
    DEF Process, Maintains, Recorded, Restoring, Locks, Opening, Maintained, Section, disk
  <2> HIDE DEF l
  <2>3. QED
    BY <1>0, <1>2, <2>1, <2>2, PlainKeeps DEF MaintFor
<1>4. CASE names.data = None
  <2> DEFINE n == [names EXCEPT !.data = "fresh"]
  <2>1. Name(n) /\ locks' = [locks EXCEPT !["fresh"].file = FALSE]
    BY <1>4 DEF Prepare
  <2>2. names \in Naming /\ names \in kept /\ locks \in [Dirs -> LockOf] /\ Plausible(names)
    BY TypesAre DEF SwitchInv, DiskTells
  <2>3. names.record /\ names.stores = "copy"
    BY <1>4, <2>2 DEF Plausible, None
  <2>4. pc[p] = "prepare"
    BY <1>0, <2>3 DEF Process, Recorded
  <2>5. /\ n \in Naming /\ n.data = "fresh" /\ n.stores = "copy" /\ n.record = names.record
        /\ n.restored = names.restored /\ n.snapshot = names.snapshot /\ n.inst = names.inst
    BY <2>2, <2>3 DEF Naming, Dirs
  <2>6. Plausible(n)
    BY <2>2, <2>3, <2>5, <1>4 DEF Plausible, None
  <2> HIDE DEF n
  <2>7. names' = n
    BY <2>1 DEF Name
  <2>8. pc'[p] = "note" /\ pc'["job"] = pc["job"] /\ DOMAIN pc' = Procs
        /\ \A q \in Procs : pc'[q] \in Labels(q) /\ (q # p => pc'[q] = pc[q])
    BY <1>0, <1>2, <2>4, Went
  <2>9. DiskTells' /\ kept' \subseteq Naming /\ names' \in kept'
    <3>1. OnOne(n)
      BY <1>0, <2>5, OneIs
    <3>2. Held(n)
      BY <1>4, <2>2, <2>5 DEF SwitchInv, DiskTells, Held, None
    <3>3. across /\ n.record => n.snapshot = "whole" \/ "name" \in taken
      BY <2>5 DEF SwitchInv, DiskTells
    <3>4. n.record = names.record /\ n.data # "copy" /\ names.data # "copy" /\ n.record
      BY <1>4, <2>3, <2>5 DEF None
    <3>5. pc'["job"] \in {"stop", "backup"} => ~n.record
      BY <2>3, <2>5, <2>8 DEF SwitchInv, DiskTells
    <3>6. UNCHANGED <<taken, across, flushes>>
      BY <1>0 DEF job
    <3>7. QED
      BY <2>1, <2>5, <2>6, <3>1, <3>2, <3>3, <3>4, <3>5, <3>6, Named
  <2>10. /\ \A d \in Dirs : locks'[d] \in LockOf /\ locks'[d].flock = locks[d].flock /\ locks'[d].pid = locks[d].pid
        /\ locks' \in [Dirs -> LockOf]
    BY <2>1, <2>2 DEF LockOf
  <2>11. LocksFor(p)
    BY <2>10 DEF LocksFor, Dirs
  <2>12. DiskFor(p)
    BY <1>0, <1>4, <2>5, <2>7 DEF DiskFor, n, None, job
  <2>13. LockPlaces'
    BY <1>4, <2>5, <2>10, <2>7 DEF SwitchInv, LockPlaces, Dirs, None
  <2>14. Process(p)'
    <3>1. maint' # p
      BY <1>0, <2>4 DEF Process, Maintains, Maintained, Section
    <3>2. QED
      BY <1>1, <2>8, <2>10, <3>1, RestIs DEF AtRest
  <2>15. ServerTypeOK'
    BY <1>0, <2>5, <2>9, <2>10, <2>7 DEF Typed, ServerTypeOK, LockOf, job, unit, Naming
  <2>16. Typed'
    BY <1>0, <1>2, <2>4, <2>8, <2>9, <2>15 DEF Typed
  <2>17. PcFor(p) /\ MaintFor(p)
    BY <1>0, <2>8 DEF PcFor, MaintFor
  <2>18. QED
    BY <2>9, <2>11, <2>12, <2>13, <2>14, <2>16, <2>17, Whole DEF Frame
<1>5. QED
  BY <1>3, <1>4

-----------------------------------------------------------------------------
(* The restore, by whoever holds the maintenance lock.                     *)

LEMMA Within ==
  ASSUME SwitchInv, NEW p \in Procs
  PROVE  /\ Typed /\ Process(p) /\ names \in Naming /\ names \in kept /\ Plausible(names)
         /\ locks \in [Dirs -> LockOf] /\ (pc[p] \in Section => maint = p /\ names.record)
  BY TypesAre DEF SwitchInv, DiskTells, Process, Maintains, Maintained, Recorded

\* A step that leaves a new naming, or a new mark.
LEMMA DiskStep ==
  ASSUME SwitchInv, NEW p \in Procs, NEW l \in Labels(p), l \notin Trying, pc' = [pc EXCEPT ![p] = l],
         UNCHANGED <<noted, tries>>, DiskFor(p), LocksFor(p), MaintFor(p), LockPlaces', DiskTells',
         pc'[p] = l => Process(p)', ServerTypeOK', kept' \subseteq Naming
  PROVE  SwitchInv'
<1> USE ProcsAre
<1>1. DOMAIN pc' = Procs /\ pc'[p] = l /\ \A q \in Procs : pc'[q] \in Labels(q) /\ (q # p => pc'[q] = pc[q])
  BY Went DEF SwitchInv
<1>2. PcFor(p)
  BY <1>1 DEF PcFor
<1>3. Typed'
  BY <1>1 DEF SwitchInv, Typed
<1>4. QED
  BY <1>1, <1>2, <1>3, Whole DEF Frame

\* A naming inside the restore, before the swap.
LEMMA InsideNamed ==
  ASSUME SwitchInv, NEW n \in Naming, Name(n), Plausible(n), n.record = names.record, n.restored = "copy",
         n.data # "copy", names.data # "copy", n.inst = names.inst, ~across \/ n.snapshot = names.snapshot,
         UNCHANGED <<taken, across, flushes>>,
         pc'["job"] \in {"stop", "backup"} => pc["job"] \in {"stop", "backup"}
  PROVE  DiskTells' /\ kept' \subseteq Naming /\ names' \in kept' /\ names' = n
<1>1. OnOne(n)
  BY OneIs DEF SwitchInv, OnOne
<1>2. Held(n)
  BY DEF Held
<1>3. across /\ n.record => n.snapshot = "whole" \/ "name" \in taken
  BY DEF SwitchInv, DiskTells
<1>4. pc'["job"] \in {"stop", "backup"} => ~n.record
  BY DEF SwitchInv, DiskTells
<1>5. QED
  BY <1>1, <1>2, <1>3, <1>4, Named DEF Name

LEMMA TakeKeeps ==
  ASSUME SwitchInv, NEW p \in Procs, Take(p)
  PROVE  SwitchInv'
<1> USE ProcsAre
<1>0. /\ pc[p] = "take" /\ Typed /\ Process(p) /\ names \in Naming /\ maint = p /\ names.record
      /\ "check" \in Labels(p)
  BY Within DEF Take, Section, Labels, Maintained
<1>1. CASE Throw(p)
  BY <1>1, FailsKeeps DEF Throw, SwitchInv, Typed, ServerTypeOK
<1>2. CASE ~Throw(p)
  <2>1. /\ Free(p, names.data) /\ pc' = [pc EXCEPT ![p] = "check"]
        /\ locks' = IF names.data = None THEN locks ELSE Locked(p, names.data, TRUE)
        /\ UNCHANGED <<disk, maint, noted, tries, job, unit, events>>
    BY <1>2 DEF Take, Goto
  <2>2. \A e \in Dirs : locks[e].flock # p
    BY <1>0, NoneLocked DEF Locking, Section
  <2>3. CASE names.data = None
    <3>1. ASSUME pc'[p] = "check"
          PROVE  Process(p)'
      BY <1>0, <2>1, <2>2, <2>3, <3>1
      DEF Process, Maintains, Recorded, Restoring, Locks, Opening, Maintained, Section, disk, None
    <3>2. QED
      BY <1>0, <2>1, <2>3, <3>1, PlainKeeps DEF MaintFor, Trying
  <2>4. CASE names.data # None
    <3> DEFINE d == names.data
    <3>1. d \in Dirs
      BY <1>0, <2>4 DEF Naming
    <3>2. /\ LocksFor(p) /\ locks'[d].flock = p /\ \A e \in Dirs : e # d => locks'[e] = locks[e]
          /\ names' = names /\ mark' = mark
      BY <2>1, <2>4, <3>1, LockedIs DEF disk
    <3>3. \A e \in Dirs : locks'[e].flock = p <=> e = d
      BY <2>2, <3>1, <3>2
    <3>4. LockPlaces'
      BY <3>2 DEF SwitchInv, LockPlaces, Dirs
    <3>5. pc'[p] = "check"
      BY <1>0, <2>1 DEF Typed
    <3>6. Locks(p)'
      <4>1. Dirs = {"live", "copy", "fresh"}
        BY DEF Dirs
      <4>2. QED
        BY <3>2, <3>3, <3>5, <4>1 DEF Locks, Locking
    <3>7. Process(p)'
      BY <1>0, <2>1, <3>5, <3>6
      DEF Process, Maintains, Recorded, Restoring, Opening, Maintained, Section, disk, job
    <3>8. ServerTypeOK'
      BY <1>0, <2>1, <3>2 DEF Typed, ServerTypeOK, LocksFor, LockOf, disk, job, unit
    <3>9. \A q \in Cores : pc'[q] \in Trying => tries'[q] < 3
      BY <1>0, <2>1, <3>5 DEF Typed, Trying
    <3>10. QED
      BY <1>0, <2>1, <3>2, <3>4, <3>7, <3>8, <3>9, StepKeeps DEF MaintFor, job
  <2>5. QED
    BY <2>3, <2>4
<1>3. QED
  BY <1>1, <1>2

LEMMA CheckKeeps ==
  ASSUME SwitchInv, NEW p \in Procs, Check(p)
  PROVE  SwitchInv'
<1> USE ProcsAre
<1>0. pc[p] = "check" /\ Typed /\ Process(p) /\ names \in Naming /\ maint = p /\ names.record
  BY Within DEF Check, Section
<1>1. CASE Throw(p)
  BY <1>1, FailsKeeps DEF Throw, SwitchInv, Typed, ServerTypeOK
<1>2. CASE ~Throw(p)
  <2> DEFINE l == IF RestoredBy(names.data) THEN "forget" ELSE IF names.restored # None THEN "mark" ELSE "move"
  <2>1. pc' = [pc EXCEPT ![p] = l] /\ UNCHANGED <<disk, guard, noted, tries, job, unit, events>>
    BY <1>2 DEF Check, Goto
  <2>2. RestoredBy(names.data) <=> names.data = "copy"
    BY <1>0 DEF RestoredBy, SwitchInv, DiskTells
  <2>3. names.restored # None => names.restored = "copy"
    BY <1>0 DEF Naming
  <2>4. ASSUME pc'[p] = l
        PROVE  Process(p)'
    <3>1. Locks(p)'
      BY <1>0, <2>1, <2>2, <2>4 DEF Process, Locks, Locking, disk, guard
    <3>2. QED
      BY <1>0, <2>1, <2>2, <2>3, <2>4, <3>1
      DEF Process, Maintains, Recorded, Restoring, Opening, Maintained, Section, disk, guard, job
  <2>5. l \in Labels(p) /\ l \notin Trying /\ l \notin {"stop", "backup"}
    BY DEF Labels, Maintained, Section, Trying
  <2> HIDE DEF l
  <2>6. QED
    BY <1>0, <2>1, <2>4, <2>5, PlainKeeps DEF MaintFor, guard
<1>3. QED
  BY <1>1, <1>2

LEMMA MoveTreeKeeps ==
  ASSUME SwitchInv, NEW p \in Procs, MoveTree(p)
  PROVE  SwitchInv'
<1> USE ProcsAre
<1> DEFINE n == [names EXCEPT !.restored = "copy", !.snapshot = IF across THEN @ ELSE "partial"]
<1>0. /\ pc[p] = "move" /\ Typed /\ Process(p) /\ names \in Naming /\ names \in kept /\ maint = p /\ names.record
      /\ Plausible(names) /\ names.data # "copy" /\ "mark" \in Labels(p)
  BY Within DEF MoveTree, Section, Process, Restoring, Labels, Maintained
<1>1. /\ Name(n) /\ names' = n /\ mark' \in {"absent", mark} /\ pc' = [pc EXCEPT ![p] = "mark"]
      /\ UNCHANGED <<taken, guard, noted, tries, job, unit, events>>
  BY DEF MoveTree, Name, Goto
<1>2. /\ n \in Naming /\ n.data = names.data /\ n.stores = names.stores /\ n.record = names.record
      /\ n.restored = "copy" /\ n.inst = names.inst /\ (~across \/ n.snapshot = names.snapshot)
  BY <1>0 DEF Naming
<1>3. Plausible(n)
  BY <1>0, <1>2 DEF Plausible
<1> HIDE DEF n
<1>4. DiskTells' /\ kept' \subseteq Naming /\ names' \in kept'
  <2>1. pc'["job"] \in {"stop", "backup"} => pc["job"] \in {"stop", "backup"}
    BY <1>0, <1>1 DEF Typed
  <2>2. QED
    BY <1>0, <1>1, <1>2, <1>3, <2>1, InsideNamed DEF job
<1>5. DiskFor(p)
  BY <1>0, <1>1, <1>2 DEF DiskFor, Section, job
<1>6. LocksFor(p) /\ MaintFor(p) /\ LockPlaces'
  BY <1>1, <1>2, SameLocks DEF guard, MaintFor, SwitchInv, LockPlaces
<1>7. ASSUME pc'[p] = "mark"
      PROVE  Process(p)'
  BY <1>0, <1>1, <1>2, <1>7
  DEF Process, Maintains, Recorded, Restoring, Locks, Locking, Opening, Maintained, Section, guard, job
<1>8. ServerTypeOK'
  BY <1>0, <1>1, <1>2, <1>4 DEF Typed, ServerTypeOK, Naming, guard, job, unit
<1>9. QED
  BY <1>0, <1>1, <1>4, <1>5, <1>6, <1>7, <1>8, DiskStep DEF Trying

LEMMA MarksKeep ==
  ASSUME SwitchInv, NEW p \in Procs, Mark(p) \/ Flush(p)
  PROVE  SwitchInv'
<1> USE ProcsAre
<1> DEFINE l == IF pc[p] = "mark" THEN "flush" ELSE "seal"
<1>0. /\ pc[p] \in {"mark", "flush"} /\ Typed /\ Process(p) /\ maint = p /\ names.record
      /\ names.data # "copy" /\ l \in Labels(p) /\ l \notin Trying
  BY Within DEF Mark, Flush, Section, Process, Restoring, Labels, Maintained, Trying
<1>1. /\ mark' # "absent" /\ mark' \in {mark, "soft", "hard"} /\ (l = "seal" /\ flushes => mark' = "hard")
      /\ pc' = [pc EXCEPT ![p] = l] /\ UNCHANGED <<names, kept, taken, guard, noted, tries, job, unit, events>>
  BY <1>0 DEF Mark, Flush, Goto, Process, Restoring
<1>2. DiskTells'
  <2>1. pc'["job"] \in {"stop", "backup"} => pc["job"] \in {"stop", "backup"}
    BY <1>0, <1>1 DEF Typed
  <2>2. QED
    BY <1>0, <1>1, <2>1 DEF SwitchInv, DiskTells, CutTells, Held, job
<1>3. DiskFor(p)
  BY <1>0, <1>1 DEF DiskFor, Section, job
<1>4. LocksFor(p) /\ MaintFor(p) /\ LockPlaces'
  BY <1>1, SameLocks DEF guard, MaintFor, SwitchInv, LockPlaces
<1>5. ASSUME pc'[p] = l
      PROVE  Process(p)'
  BY <1>0, <1>1, <1>5
  DEF Process, Maintains, Recorded, Restoring, Locks, Locking, Opening, Maintained, Section, guard, job
<1>6. ServerTypeOK' /\ kept' \subseteq Naming
  BY <1>0, <1>1 DEF Typed, ServerTypeOK, guard, job, unit
<1> HIDE DEF l
<1>7. QED
  BY <1>0, <1>1, <1>2, <1>3, <1>4, <1>5, <1>6, DiskStep

LEMMA SealKeeps ==
  ASSUME SwitchInv, NEW p \in Procs, Seal(p)
  PROVE  SwitchInv'
<1> USE ProcsAre
<1> DEFINE l == IF names.data = None THEN "swap" ELSE "stores"
<1>0. /\ pc[p] = "seal" /\ Typed /\ Process(p) /\ maint = p /\ names.record /\ locks \in [Dirs -> LockOf]
      /\ names.data # "copy" /\ names.restored = "copy" /\ mark # "absent" /\ (flushes => mark = "hard")
      /\ l \in Labels(p) /\ l \notin Trying /\ l \notin {"stop", "backup"}
  BY Within DEF Seal, Section, Process, Restoring, Labels, Maintained, Trying
<1>1. locks' = Sealed(p) /\ pc' = [pc EXCEPT ![p] = l] /\ UNCHANGED <<disk, maint, noted, tries, job, unit, events>>
  BY DEF Seal, Goto
<1>2. /\ locks' \in [Dirs -> LockOf]
      /\ \A d \in Dirs : locks'[d] = IF d = "copy" \/ locks[d].flock = p
                                     THEN [flock |-> None, pid |-> p, file |-> TRUE] ELSE locks[d]
  BY <1>0, <1>1 DEF Sealed, LockOf
<1>3. locks["copy"].flock = None
  BY <1>0 DEF SwitchInv, LockPlaces
<1>4. \A d \in Dirs : locks'[d].flock = IF locks[d].flock = p THEN None ELSE locks[d].flock
  BY <1>2, <1>3
<1>5. LocksFor(p)
  BY <1>2, <1>4 DEF LocksFor, Dirs
<1>6. LockPlaces' /\ MaintFor(p)
  BY <1>1, <1>4 DEF SwitchInv, LockPlaces, Dirs, MaintFor, disk
<1>7. pc'[p] = l
  BY <1>0, <1>1 DEF Typed
<1>8. Locks(p)'
  <2>1. names.data = "live" => locks'["live"].flock = None /\ locks'["live"].pid = p
    BY <1>0, <1>2 DEF Process, Locks, Dirs
  <2>2. \A d \in Dirs : locks'[d].flock # p
    BY <1>4
  <2>3. QED
    BY <1>1, <1>7, <2>1, <2>2 DEF Locks, disk
<1>9. Process(p)'
  BY <1>0, <1>1, <1>7, <1>8
  DEF Process, Maintains, Recorded, Restoring, Opening, Maintained, Section, disk, job
<1>10. ServerTypeOK'
  BY <1>0, <1>1, <1>2 DEF Typed, ServerTypeOK, LockOf, disk, job, unit
<1>11. \A q \in Cores : pc'[q] \in Trying => tries'[q] < 3
  BY <1>0, <1>1, <1>7 DEF Typed
<1> HIDE DEF l
<1>12. QED
  BY <1>0, <1>1, <1>5, <1>6, <1>9, <1>10, <1>11, StepKeeps DEF job

LEMMA MoveStoresKeeps ==
  ASSUME SwitchInv, NEW p \in Procs, MoveStores(p)
  PROVE  SwitchInv'
<1> USE ProcsAre
<1> DEFINE n == IF names.stores = names.data THEN [names EXCEPT !.stores = names.restored] ELSE names
<1>0. /\ pc[p] = "stores" /\ Typed /\ Process(p) /\ names \in Naming /\ names \in kept /\ maint = p /\ names.record
      /\ Plausible(names) /\ names.data # "copy" /\ names.data # None /\ names.restored = "copy" /\ mark # "absent" /\ (flushes => mark = "hard")
      /\ "aside" \in Labels(p)
  BY Within DEF MoveStores, Section, Process, Restoring, Labels, Maintained
<1>1. /\ names' = n /\ (Name(n) \/ UNCHANGED <<names, kept>>) /\ pc' = [pc EXCEPT ![p] = "aside"]
      /\ UNCHANGED <<mark, taken, guard, noted, tries, job, unit, events>>
  BY <1>0 DEF MoveStores, Name, Goto
<1>2. /\ n \in Naming /\ n.data = names.data /\ n.stores = "copy" /\ n.record = names.record
      /\ n.restored = names.restored /\ n.snapshot = names.snapshot /\ n.inst = names.inst
  BY <1>0 DEF Naming, Plausible, Dirs
<1>3. Plausible(n)
  BY <1>0, <1>2 DEF Plausible
<1> HIDE DEF n
<1>4. DiskTells' /\ kept' \subseteq Naming /\ names' \in kept'
  <2>1. pc'["job"] \in {"stop", "backup"} => pc["job"] \in {"stop", "backup"}
    BY <1>0, <1>1 DEF Typed
  <2>2. CASE Name(n)
    BY <1>0, <1>1, <1>2, <1>3, <2>1, <2>2, InsideNamed DEF job
  <2>3. CASE UNCHANGED <<names, kept>>
    BY <1>0, <1>1, <2>1, <2>3, SameDisk DEF Typed, disk, job
  <2>4. QED
    BY <1>1, <2>2, <2>3
<1>5. DiskFor(p)
  BY <1>0, <1>1, <1>2 DEF DiskFor, Section, job
<1>6. LocksFor(p) /\ MaintFor(p) /\ LockPlaces'
  BY <1>1, <1>2, SameLocks DEF guard, MaintFor, SwitchInv, LockPlaces
<1>7. ASSUME pc'[p] = "aside"
      PROVE  Process(p)'
  BY <1>0, <1>1, <1>2, <1>7
  DEF Process, Maintains, Recorded, Restoring, Locks, Locking, Opening, Maintained, Section, guard, job
<1>8. ServerTypeOK'
  BY <1>0, <1>1, <1>2, <1>4 DEF Typed, ServerTypeOK, Naming, guard, job, unit
<1>9. QED
  BY <1>0, <1>1, <1>4, <1>5, <1>6, <1>7, <1>8, DiskStep DEF Trying

LEMMA AsideKeeps ==
  ASSUME SwitchInv, NEW p \in Procs, Aside(p)
  PROVE  SwitchInv'
<1> USE ProcsAre
<1> DEFINE n == [names EXCEPT !.data = None, !.failed = IF @ = None THEN names.data ELSE @]
<1>0. /\ pc[p] = "aside" /\ Typed /\ Process(p) /\ names \in Naming /\ names \in kept /\ maint = p /\ names.record
      /\ Plausible(names) /\ names.data # "copy" /\ names.restored = "copy" /\ names.stores = "copy" /\ mark # "absent" /\ (flushes => mark = "hard")
      /\ "swap" \in Labels(p)
  BY Within DEF Aside, Section, Process, Restoring, Labels, Maintained
<1>1. /\ Name(n) /\ names' = n /\ pc' = [pc EXCEPT ![p] = "swap"]
      /\ UNCHANGED <<mark, taken, guard, noted, tries, job, unit, events>>
  BY <1>0 DEF Aside, Name, Goto
<1>2. /\ n \in Naming /\ n.data = None /\ n.stores = "copy" /\ n.record = names.record
      /\ n.restored = names.restored /\ n.snapshot = names.snapshot /\ n.inst = names.inst
  BY <1>0 DEF Naming
<1>3. Plausible(n)
  BY <1>0, <1>2 DEF Plausible
<1> HIDE DEF n
<1>4. DiskTells' /\ kept' \subseteq Naming /\ names' \in kept'
  <2>1. pc'["job"] \in {"stop", "backup"} => pc["job"] \in {"stop", "backup"}
    BY <1>0, <1>1 DEF Typed
  <2>2. n.data # "copy"
    BY <1>2 DEF None
  <2>3. QED
    BY <1>0, <1>1, <1>2, <1>3, <2>1, <2>2, InsideNamed DEF job
<1>5. DiskFor(p)
  BY <1>0, <1>1, <1>2 DEF DiskFor, Section, None, job
<1>6. LocksFor(p) /\ MaintFor(p)
  BY <1>1, SameLocks DEF guard, MaintFor
<1>7. LockPlaces'
  <2>1. locks["live"].flock = None
    BY <1>0 DEF SwitchInv, LockPlaces, Process, Locks
  <2>2. locks["copy"].flock = None
    BY <1>0 DEF SwitchInv, LockPlaces
  <2>3. QED
    BY <1>1, <1>2, <2>1, <2>2 DEF LockPlaces, guard, None
<1>8. ASSUME pc'[p] = "swap"
      PROVE  Process(p)'
  BY <1>0, <1>1, <1>2, <1>8
  DEF Process, Maintains, Recorded, Restoring, Locks, Locking, Opening, Maintained, Section, guard, job, None
<1>9. ServerTypeOK'
  BY <1>0, <1>1, <1>2, <1>4 DEF Typed, ServerTypeOK, Naming, guard, job, unit
<1>10. QED
  BY <1>0, <1>1, <1>4, <1>5, <1>6, <1>7, <1>8, <1>9, DiskStep DEF Trying

LEMMA SwapKeeps ==
  ASSUME SwitchInv, NEW p \in Procs, Swap(p)
  PROVE  SwitchInv'
<1> USE ProcsAre
<1> DEFINE n == [names EXCEPT !.data = names.restored, !.restored = None]
<1>0. /\ pc[p] = "swap" /\ Typed /\ Process(p) /\ names \in Naming /\ names \in kept /\ maint = p /\ names.record
      /\ Plausible(names) /\ names.restored = "copy" /\ mark # "absent" /\ (flushes => mark = "hard")
      /\ "relock" \in Labels(p)
  BY Within DEF Swap, Section, Process, Restoring, Labels, Maintained
<1>1. CASE Throw(p)
  BY <1>1, FailsKeeps DEF Throw, SwitchInv, Typed, ServerTypeOK
<1>2. CASE ~Throw(p)
  <2>1. /\ SwapFits /\ Durably(n) /\ names' = n /\ pc' = [pc EXCEPT ![p] = "relock"]
        /\ UNCHANGED <<mark, taken, guard, noted, tries, job, unit, events>>
    BY <1>0, <1>2 DEF Swap, Durably, Goto
  <2>2. names.data \in {None, "fresh"} /\ names.stores = "copy" /\ names.data \notin {"live", "copy"}
    BY <1>0, <2>1 DEF SwapFits, Plausible, None
  <2>3. /\ n \in Naming /\ n.data = "copy" /\ n.stores = "copy" /\ n.record = names.record /\ n.restored = None
        /\ n.snapshot = names.snapshot /\ n.inst = names.inst
    BY <1>0, <2>2 DEF Naming, Dirs
  <2>4. Plausible(n)
    BY <2>3 DEF Plausible
  <2> HIDE DEF n
  <2>5. DiskTells' /\ kept' \subseteq Naming /\ names' \in kept'
    <3>1. pc'["job"] \in {"stop", "backup"} => pc["job"] \in {"stop", "backup"}
      BY <1>0, <2>1 DEF Typed
    <3>2. OnOne(n) /\ Held(n)
      BY <1>0, <2>3, OneIs DEF Held
    <3>3. /\ n.data = "copy" => mark' # "absent" /\ (flushes => mark' = "hard")
          /\ UNCHANGED <<taken, across, flushes>>
      BY <1>0, <2>1 DEF job
    <3>4. /\ across /\ n.record => n.snapshot = "whole" \/ "name" \in taken
          /\ pc'["job"] \in {"stop", "backup"} => ~n.record
      BY <2>3, <3>1 DEF SwitchInv, DiskTells
    <3>5. QED
      BY <2>1, <2>3, <2>4, <3>2, <3>3, <3>4, Named
  <2>6. DiskFor(p)
    BY <1>0, <2>1, <2>2, <2>3 DEF DiskFor, Section, job
  <2>7. LocksFor(p) /\ MaintFor(p)
    BY <2>1, SameLocks DEF guard, MaintFor
  <2>8. LockPlaces'
    BY <2>1, <2>2, <2>3 DEF SwitchInv, LockPlaces, guard
  <2>9. ASSUME pc'[p] = "relock"
        PROVE  Process(p)'
    BY <1>0, <2>1, <2>3, <2>9
    DEF Process, Maintains, Recorded, Restoring, Locks, Locking, Opening, Maintained, Section, guard, job
  <2>10. ServerTypeOK'
    BY <1>0, <2>1, <2>3, <2>5 DEF Typed, ServerTypeOK, Naming, guard, job, unit
  <2>11. QED
    BY <1>0, <2>1, <2>5, <2>6, <2>7, <2>8, <2>9, <2>10, DiskStep DEF Trying
<1>3. QED
  BY <1>1, <1>2

LEMMA RelockKeeps ==
  ASSUME SwitchInv, NEW p \in Procs, Relock(p)
  PROVE  SwitchInv'
<1> USE ProcsAre
<1>0. /\ pc[p] = "relock" /\ Typed /\ Process(p) /\ maint = p /\ names.record /\ names.data = "copy"
      /\ "forget" \in Labels(p) /\ "copy" \in Dirs
  BY Within DEF Relock, Section, Labels, Maintained, Process, Restoring, Dirs
<1>1. CASE Throw(p)
  BY <1>1, FailsKeeps DEF Throw, SwitchInv, Typed, ServerTypeOK
<1>2. CASE ~Throw(p)
  <2>1. /\ Free(p, "copy") /\ pc' = [pc EXCEPT ![p] = "forget"] /\ locks' = Locked(p, "copy", FALSE)
        /\ UNCHANGED <<disk, maint, noted, tries, job, unit, events>>
    BY <1>0, <1>2 DEF Relock, Goto
  <2>2. /\ LocksFor(p) /\ locks'["copy"].flock = p /\ \A e \in Dirs : e # "copy" => locks'[e] = locks[e]
        /\ names' = names /\ mark' = mark
    BY <1>0, <2>1, LockedIs DEF disk
  <2>3. \A e \in Dirs : locks'[e].flock = p <=> e = "copy"
    BY <1>0, <2>2, NoneLocked DEF Locking
  <2>4. LockPlaces'
    BY <1>0, <2>2 DEF SwitchInv, LockPlaces, Dirs
  <2>5. pc'[p] = "forget"
    BY <1>0, <2>1 DEF Typed
  <2>6. Locks(p)'
    BY <2>2, <2>3, <2>5 DEF Locks, Locking
  <2>7. Process(p)'
    BY <1>0, <2>1, <2>5, <2>6
    DEF Process, Maintains, Recorded, Restoring, Opening, Maintained, Section, disk, job
  <2>8. ServerTypeOK'
    BY <1>0, <2>1, <2>2 DEF Typed, ServerTypeOK, LocksFor, LockOf, disk, job, unit
  <2>9. \A q \in Cores : pc'[q] \in Trying => tries'[q] < 3
    BY <1>0, <2>1, <2>5 DEF Typed, Trying
  <2>10. QED
    BY <1>0, <2>1, <2>2, <2>4, <2>7, <2>8, <2>9, StepKeeps DEF MaintFor, job
<1>3. QED
  BY <1>1, <1>2

LEMMA ForgetKeeps ==
  ASSUME SwitchInv, NEW p \in Procs, Forget(p)
  PROVE  SwitchInv'
<1> USE ProcsAre
<1> DEFINE n == [names EXCEPT !.record = FALSE, !.restored = None]
<1>0. /\ pc[p] = "forget" /\ Typed /\ Process(p) /\ names \in Naming /\ names \in kept /\ maint = p
      /\ Plausible(names) /\ names.data = "copy" /\ locks["copy"].flock = p /\ "discard" \in Labels(p)
      /\ locks \in [Dirs -> LockOf]
  BY Within DEF Forget, Section, Process, Restoring, Labels, Maintained, Locks
<1>1. /\ Durably(n) /\ names' = n /\ pc' = [pc EXCEPT ![p] = "discard"]
      /\ IF p = "job" THEN locks' = LetGo(p) /\ maint' = None ELSE UNCHANGED guard
      /\ UNCHANGED <<mark, taken, noted, tries, job, unit, events>>
  BY <1>0 DEF Forget, Durably, Goto
<1>2. /\ n \in Naming /\ n.data = "copy" /\ n.stores = "copy" /\ ~n.record /\ n.restored = None
      /\ n.snapshot = names.snapshot /\ n.inst = names.inst
  BY <1>0 DEF Naming, Plausible
<1>3. Plausible(n)
  BY <1>2 DEF Plausible
<1> HIDE DEF n
<1>4. DiskTells' /\ kept' \subseteq Naming /\ names' \in kept'
  <2>1. OnOne(n) /\ Held(n)
    BY <1>0, <1>2, OneIs DEF Held
  <2>2. /\ mark' # "absent" /\ (flushes => mark' = "hard") /\ UNCHANGED <<taken, across, flushes>>
    BY <1>0, <1>1 DEF SwitchInv, DiskTells, job
  <2>3. QED
    BY <1>1, <1>2, <1>3, <2>1, <2>2, Named
<1>5. DiskFor(p)
  BY <1>0, <1>1, <1>2 DEF DiskFor, Section, job
<1>6. CASE p = "job"
  <2>1. Drops(p) /\ maint' = None
    BY <1>0, <1>1, <1>6, LetGoIs
  <2>2. LocksFor(p) /\ MaintFor(p) /\ LockPlaces'
    BY <1>0, <1>1, <1>2, <2>1 DEF Drops, LocksFor, MaintFor, SwitchInv, LockPlaces, Dirs
  <2>3. ASSUME pc'[p] = "discard"
        PROVE  Process(p)'
    BY <1>1, <1>2, <1>6, <2>1, <2>3
    DEF Drops, Process, Maintains, Recorded, Restoring, Locks, Maintained, Section
  <2>4. ServerTypeOK'
    BY <1>0, <1>1, <1>2, <1>4, <2>1 DEF Drops, Typed, ServerTypeOK, Naming, LockOf, job, unit
  <2>5. QED
    BY <1>0, <1>1, <1>4, <1>5, <2>2, <2>3, <2>4, DiskStep DEF Trying
<1>7. CASE p # "job"
  <2>1. UNCHANGED guard
    BY <1>1, <1>7
  <2>2. LocksFor(p) /\ MaintFor(p) /\ LockPlaces'
    BY <1>0, <1>2, <1>1, <2>1, SameLocks DEF guard, MaintFor, SwitchInv, LockPlaces
  <2>3. ASSUME pc'[p] = "discard"
        PROVE  Process(p)'
    BY <1>0, <1>1, <1>2, <1>7, <2>1, <2>3
    DEF Process, Maintains, Recorded, Restoring, Locks, Locking, Opening, Maintained, Section, guard, job
  <2>4. ServerTypeOK'
    BY <1>0, <1>1, <1>2, <1>4, <2>1 DEF Typed, ServerTypeOK, Naming, guard, job, unit
  <2>5. QED
    BY <1>0, <1>1, <1>4, <1>5, <2>2, <2>3, <2>4, DiskStep DEF Trying
<1>8. QED
  BY <1>6, <1>7

\* The snapshot and the installations matter to no process.
LEMMA LikeStill ==
  ASSUME SwitchInv, NEW p \in Procs, Like(names', names), UNCHANGED <<mark, locks, flushes>>
  PROVE  /\ Still /\ names'.record = names.record
         /\ DiskFor(p) /\ LocksFor(p) /\ LockPlaces'
<1>1. Still /\ names'.record = names.record
  BY DEF Like, Still
<1>2. QED
  BY <1>1, SameLocks DEF DiskFor, Still, SwitchInv, LockPlaces

LEMMA DiscardKeeps ==
  ASSUME SwitchInv, NEW p \in Procs, Discard(p)
  PROVE  SwitchInv'
<1> USE ProcsAre
<1> DEFINE s == IF names.snapshot = "whole" THEN "partial" ELSE names.snapshot
           n == [names EXCEPT !.snapshot = s]
           l == IF p = "job" THEN "rbStart" ELSE "run"
<1>0. /\ pc[p] = "discard" /\ Typed /\ Process(p) /\ names \in Naming /\ names \in kept
      /\ Plausible(names) /\ ~names.record /\ l \in Labels(p) /\ l \notin Trying /\ l \notin {"stop", "backup"}
  BY Within DEF Discard, Process, Recorded, Labels, AtRest, Trying
<1>1. s \in {None, "partial", "whole"}
  BY <1>0 DEF Naming
<1>2. /\ Name(n) /\ names' = n /\ pc' = [pc EXCEPT ![p] = l]
      /\ UNCHANGED <<mark, taken, locks, noted, tries, job, orig, enabled, version, events>>
      /\ touched' \subseteq Dirs
      /\ IF p = "job" THEN maint' = maint ELSE maint' = None
  <2>1. names' = [names EXCEPT !.snapshot = IF @ = "whole" THEN "partial" ELSE @]
    BY DEF Discard, Name
  <2>2. names' = n
    BY <2>1
  <2>3. touched' \subseteq Dirs
    <3>1. touched \subseteq Dirs
      BY <1>0 DEF Typed, ServerTypeOK
    <3>2. CASE p = "job"
      BY <3>1, <3>2 DEF Discard
    <3>3. CASE p # "job"
      <4>1. names.data = "copy"
        BY <1>0, <3>3 DEF Process, Opening
      <4>2. QED
        BY <3>1, <3>3, <4>1 DEF Discard, Opens, Dirs
    <3>4. QED
      BY <3>2, <3>3
  <2>4. QED
    BY <2>2, <2>3 DEF Discard, Name, Goto, Opens
<1> HIDE DEF s, l
<1>3. /\ n \in Naming /\ Still /\ n.record = names.record /\ n.data = names.data /\ n.stores = names.stores
      /\ n.restored = names.restored /\ n.failed = names.failed /\ DiskFor(p) /\ LocksFor(p) /\ LockPlaces'
  <2>1. n \in Naming /\ Like(n, names) /\ n.failed = names.failed
    BY <1>0, <1>1 DEF Naming, Like
  <2>2. QED
    BY <1>2, <2>1, LikeStill DEF Like, job
<1> HIDE DEF n
<1>4. Plausible(n)
  BY <1>0, <1>3 DEF Plausible
<1>5. DiskTells' /\ kept' \subseteq Naming /\ names' \in kept'
  <2>1. OnOne(n) /\ Held(n)
    BY <1>0, <1>2, <1>3, OneIs DEF Like, Held
  <2>2. (n.data = "copy" => mark' # "absent" /\ (flushes => mark' = "hard")) /\ UNCHANGED <<taken, across, flushes>>
    BY <1>2, <1>3 DEF SwitchInv, DiskTells, job
  <2>3. QED
    BY <1>0, <1>2, <1>3, <1>4, <2>1, <2>2, Named
<1>6. MaintFor(p)
  BY <1>0, <1>2 DEF MaintFor, Process, Maintains, Maintained
<1>7. ASSUME pc'[p] = l
      PROVE  Process(p)'
  <2>1. CASE p = "job"
    <3>1. maint # p
      BY <1>0, <2>1 DEF Process, Maintains, Maintained, Section
    <3>2. \A d \in Dirs : locks[d].flock # p
      BY <1>0, <2>1, NoneLocked DEF Locking
    <3>3. QED
      BY <1>2, <1>7, <2>1, <3>1, <3>2, RestIs DEF AtRest, l
  <2>2. CASE p # "job"
    <3>1. pc'[p] = "run" /\ names.data = "copy" /\ locks["copy"].flock = p /\ maint' # p
      BY <1>0, <1>2, <1>7, <2>2 DEF Process, Opening, l
    <3>2. QED
      BY <1>0, <1>2, <1>3, <2>2, <3>1
      DEF Process, Maintains, Recorded, Restoring, Locks, Locking, Opening, Maintained, Section, InPlace, job
  <2>3. QED
    BY <2>1, <2>2
<1>8. ServerTypeOK'
  <2>1. maint' \in Procs \cup {None}
    BY <1>0, <1>2 DEF Typed, ServerTypeOK
  <2>2. QED
    BY <1>0, <1>2, <1>3, <1>5, <2>1 DEF Typed, ServerTypeOK, Naming, job
<1>9. QED
  BY <1>0, <1>2, <1>3, <1>5, <1>6, <1>7, <1>8, DiskStep

-----------------------------------------------------------------------------
(* The job's other steps.                                                  *)

\* The job at a place where nothing is said of it.
LEMMA JobStays ==
  ASSUME SwitchInv, pc["job"] \in AtRest("job"), UNCHANGED guard
  PROVE  /\ \A d \in Dirs : locks'[d].flock # "job"
         /\ maint' # "job" /\ MaintFor("job") /\ LocksFor("job")
<1> USE ProcsAre
<1>1. pc["job"] \notin Locking("job") /\ pc["job"] \notin Maintained("job")
  BY DEF AtRest, Locking, Maintained, Section
<1>2. \A d \in Dirs : locks[d].flock # "job"
  BY <1>1, NoneLocked
<1>3. maint # "job"
  BY <1>1 DEF SwitchInv, Process, Maintains
<1>4. QED
  BY <1>2, <1>3, SameLocks DEF guard, MaintFor

\* Its steps that name a snapshot or an installation.
LEMMA JobNames ==
  ASSUME SwitchInv, MakeBackup \/ CopyData \/ MoveAway \/ Install \/ MoveFailed \/ MoveBack \/ StartOld
  PROVE  SwitchInv'
<1> USE ProcsAre
<1>0. Typed /\ names \in Naming /\ names \in kept /\ Plausible(names)
  BY Within
<1>1. PICK l \in AtRest("job") :
        /\ names' \in Naming /\ Like(names', names) /\ names'.failed = names.failed
        /\ Name(names') \/ UNCHANGED <<names, kept>>
        /\ pc' = [pc EXCEPT !["job"] = l] /\ l \notin {"stop", "backup"}
        /\ names.record => names'.snapshot \in {"whole", names.snapshot} \/ names.snapshot = "partial"
  <2> USE DEF Then, Goto, At, AtRest
  <2>1. ASSUME NEW s \in {None, "partial", "whole"}, names' = [names EXCEPT !.snapshot = s]
        PROVE  names' \in Naming /\ Like(names', names) /\ names'.failed = names.failed /\ names'.snapshot = s
    BY <1>0, <2>1 DEF Naming, Like
  <2>2. ASSUME NEW i \in Insts, names' = [names EXCEPT !.inst = i]
        PROVE  /\ names' \in Naming /\ Like(names', names) /\ names'.failed = names.failed
               /\ names'.snapshot = names.snapshot
    BY <1>0, <2>2 DEF Naming, Like
  <2>3. CASE MakeBackup
    <3>1. Name(names') /\ names' = [names EXCEPT !.snapshot = "partial"] /\ ~names.record
          /\ pc' = [pc EXCEPT !["job"] = "copy"]
      BY <2>3 DEF MakeBackup, Name, SwitchInv, DiskTells
    <3>2. QED
      BY <2>1, <3>1
  <2>4. CASE CopyData
    <3>1. Name(names') /\ names' = [names EXCEPT !.snapshot = "whole"] /\ pc' = [pc EXCEPT !["job"] = "away"]
      BY <2>4 DEF CopyData, Name
    <3>2. QED
      BY <2>1, <3>1
  <2>5. CASE StartOld
    <3> DEFINE s == IF names.snapshot = "partial" THEN None ELSE names.snapshot
    <3>1. Name(names') /\ names' = [names EXCEPT !.snapshot = s] /\ pc' = [pc EXCEPT !["job"] = "finish"]
      BY <2>5 DEF StartOld, Name
    <3>2. s \in {None, "partial", "whole"} /\ (s = names.snapshot \/ names.snapshot = "partial")
      BY <1>0 DEF Naming
    <3> HIDE DEF s
    <3>3. QED
      BY <2>1, <3>1, <3>2
  <2>6. CASE MoveAway \/ Install \/ MoveFailed \/ MoveBack
    <3>1. PICK i \in Insts, l \in {"install", "start", "rbRecord", "rbRestore", "rbStart"} :
            /\ pc' = [pc EXCEPT !["job"] = l]
            /\ (names' = [names EXCEPT !.inst = i] /\ Name(names')) \/ UNCHANGED <<names, kept>>
      BY <2>6 DEF MoveAway, Install, MoveFailed, MoveBack, Name, Insts
    <3>2. names' \in Naming /\ Like(names', names) /\ names'.failed = names.failed /\ names'.snapshot = names.snapshot
      BY <1>0, <2>2, <3>1 DEF Like
    <3>3. QED
      BY <3>1, <3>2
  <2>7. QED
    BY <2>3, <2>4, <2>5, <2>6
<1>2. /\ UNCHANGED <<mark, taken, guard, noted, tries, across, flushes, rolling, life, orig, version, touched, events>>
      /\ torn' \in BOOLEAN /\ enabled' \in BOOLEAN /\ pc["job"] \in AtRest("job")
  BY DEF MakeBackup, CopyData, StartOld, MoveAway, Install, MoveFailed, MoveBack, Then, At, AtRest, job, unit,
         SwitchInv, Typed, ServerTypeOK
<1>3. l \in Labels("job") /\ l \notin Trying
  BY DEF Labels, AtRest, Trying
<1>4. Still /\ names'.record = names.record /\ DiskFor("job") /\ LockPlaces'
  BY <1>1, <1>2, LikeStill DEF guard
<1>5. pc'["job"] \in {"stop", "backup"} => pc["job"] \in {"stop", "backup"}
  BY <1>0, <1>1 DEF Typed
<1>6. DiskTells' /\ kept' \subseteq Naming /\ names' \in kept'
  <2>1. CASE UNCHANGED <<names, kept>>
    BY <1>0, <1>2, <1>5, <2>1, SameDisk DEF Typed, disk
  <2>2. CASE Name(names')
    <3> DEFINE n == names'
    <3>1. n \in Naming /\ Name(n) /\ Like(n, names) /\ n.failed = names.failed
      BY <1>1, <2>2
    <3>2. OnOne(n)
      BY <1>0, <3>1, OneIs
    <3>3. Plausible(n) /\ n.record = names.record /\ n.data = names.data
      BY <1>0, <3>1 DEF Plausible, Like
    <3>4. Held(n) /\ (across /\ n.record => n.snapshot = "whole" \/ "name" \in taken)
      BY <1>1, <3>1 DEF SwitchInv, DiskTells, Held, Like
    <3>5. n.data = "copy" => mark' # "absent" /\ (flushes => mark' = "hard")
      BY <1>2, <3>3 DEF SwitchInv, DiskTells
    <3>6. pc'["job"] \in {"stop", "backup"} => ~n.record
      BY <1>5, <3>3 DEF SwitchInv, DiskTells
    <3> HIDE DEF n
    <3>7. DiskTells' /\ kept' \subseteq Naming /\ names' \in kept'
      BY <1>2, <3>1, <3>2, <3>3, <3>4, <3>5, <3>6, Named
    <3>8. QED
      BY <3>7
  <2>3. QED
    BY <1>1, <2>1, <2>2
<1>7. MaintFor("job") /\ LocksFor("job")
  BY <1>2, JobStays
<1>8. ASSUME pc'["job"] = l
      PROVE  Process("job")'
  BY <1>1, <1>2, <1>8, JobStays, RestIs
<1>9. ServerTypeOK'
  BY <1>0, <1>1, <1>2, <1>6 DEF Typed, ServerTypeOK, Naming, guard
<1>10. QED
  BY <1>1, <1>2, <1>3, <1>4, <1>6, <1>7, <1>8, <1>9, DiskStep

\* The restore goes on record.
LEMMA Records ==
  ASSUME SwitchInv, maint \in {None, "job"}, NEW l \in Labels("job"), l \notin Trying, l \notin {"stop", "backup"},
         names' = [names EXCEPT !.record = TRUE], Durably(names'), names.snapshot = "whole", pc' = [pc EXCEPT !["job"] = l],
         UNCHANGED <<mark, taken, guard, noted, tries, job, unit, events>>,
         pc'["job"] = l /\ Still /\ names'.record => Process("job")'
  PROVE  SwitchInv'
<1> USE ProcsAre
<1>1. Typed /\ names \in Naming /\ names \in kept /\ Plausible(names)
  BY Within
<1>2. /\ names' \in Naming /\ Still /\ names'.record /\ names'.snapshot = "whole"
      /\ names'.snapshot = names.snapshot /\ names'.inst = names.inst
  BY <1>1 DEF Naming, Still, job
<1>3. Plausible(names')
  BY <1>1, <1>2 DEF Plausible, Still
<1>4. DiskTells' /\ kept' \subseteq Naming /\ names' \in kept'
  <2> DEFINE n == names'
  <2>1. n \in Naming /\ Plausible(n) /\ n.data = names.data /\ Durably(n) /\ n.snapshot = "whole"
    BY <1>2, <1>3 DEF Still
  <2>2. n.data = "copy" => mark' # "absent" /\ (flushes => mark' = "hard")
    BY <2>1 DEF SwitchInv, DiskTells
  <2>3. pc'["job"] \notin {"stop", "backup"} /\ UNCHANGED <<taken, across, flushes>>
    BY <1>1 DEF Typed, job
  <2>4. OnOne(n) /\ Held(n)
    BY <1>1, <1>2, OneIs DEF Held
  <2> HIDE DEF n
  <2>5. DiskTells' /\ kept' \subseteq Naming /\ names' \in kept'
    BY <2>1, <2>2, <2>3, <2>4, Named
  <2>6. QED
    BY <2>5
<1>5. DiskFor("job") /\ MaintFor("job") /\ LocksFor("job") /\ LockPlaces'
  BY <1>2, SameLocks DEF DiskFor, MaintFor, guard, SwitchInv, LockPlaces, Still, job
<1>6. ServerTypeOK'
  BY <1>1, <1>2, <1>4 DEF Typed, ServerTypeOK, Naming, guard, job, unit
<1>7. QED
  BY <1>2, <1>4, <1>5, <1>6, DiskStep

LEMMA RecordRestoreKeeps ==
  ASSUME SwitchInv, RecordRestore
  PROVE  SwitchInv'
<1> USE ProcsAre
<1>0. /\ pc["job"] \in AtRest("job") /\ "rbBack" \in AtRest("job") /\ "rbBack" \in Labels("job")
      /\ "rbBack" \notin Trying
  BY DEF RecordRestore, At, AtRest, Labels, Trying
<1>1. CASE Throw("job")
  BY <1>1, FailsKeeps DEF Throw, SwitchInv, Typed, ServerTypeOK
<1>2. CASE ~Throw("job")
  <2>1. /\ pc' = [pc EXCEPT !["job"] = "rbBack"] /\ UNCHANGED <<mark, taken, guard, noted, tries, job, unit, events>>
        /\ \/ maint = None /\ names.snapshot = "whole" /\ names' = [names EXCEPT !.record = TRUE] /\ Durably(names')
           \/ UNCHANGED <<names, kept>>
    BY <1>2 DEF RecordRestore, Then, Goto, Durably
  <2>2. ASSUME pc'["job"] = "rbBack"
        PROVE  Process("job")'
    BY <1>0, <2>1, <2>2, JobStays, RestIs
  <2>3. CASE UNCHANGED <<names, kept>>
    BY <1>0, <2>1, <2>2, <2>3, JobStays, PlainKeeps DEF disk, guard
  <2>4. CASE maint = None /\ names.snapshot = "whole" /\ names' = [names EXCEPT !.record = TRUE] /\ Durably(names')
    BY <1>0, <2>1, <2>2, <2>4, Records
  <2>5. QED
    BY <2>1, <2>3, <2>4
<1>3. QED
  BY <1>1, <1>2

LEMMA RestoreSnapshotKeeps ==
  ASSUME SwitchInv, RestoreSnapshot
  PROVE  SwitchInv'
<1> USE ProcsAre
<1>1. CASE Throw("job")
  BY <1>1, FailsKeeps DEF Throw, SwitchInv, Typed, ServerTypeOK
<1>2. CASE ~Throw("job")
  <2>1. /\ pc["job"] = "rbRestore" /\ maint = None /\ maint' = "job" /\ pc' = [pc EXCEPT !["job"] = "rbRead"]
        /\ UNCHANGED <<disk, locks, noted, tries, job, unit, events>>
    BY <1>2 DEF RestoreSnapshot, At, Then, Goto
  <2>2. \A d \in Dirs : locks[d].flock # "job"
    BY <2>1, NoneLocked DEF Locking
  <2>3. ASSUME pc'["job"] = "rbRead"
        PROVE  Process("job")'
    BY <2>1, <2>2, <2>3
    DEF Process, Maintains, Recorded, Restoring, Locks, Maintained, Section, disk
  <2>4. "rbRead" \in Labels("job") /\ "rbRead" \notin Trying
    BY DEF Labels, Maintained, Trying
  <2>5. QED
    BY <2>1, <2>3, <2>4, PlainKeeps DEF MaintFor
<1>3. QED
  BY <1>1, <1>2

LEMMA RepublishKeeps ==
  ASSUME SwitchInv, Republish
  PROVE  SwitchInv'
<1> USE ProcsAre
<1>0. /\ pc["job"] = "rbRead" /\ maint = "job" /\ names \in Naming
      /\ {"discard", "take"} \subseteq Labels("job") /\ {"discard", "take"} \cap Trying = {}
      /\ \A d \in Dirs : locks[d].flock # "job"
  <2>1. pc["job"] = "rbRead"
    BY DEF Republish, At
  <2>2. \A d \in Dirs : locks[d].flock # "job"
    BY <2>1, NoneLocked DEF Locking
  <2>3. QED
    BY <2>1, <2>2, Within DEF Process, Maintains, Maintained, Section, Labels, Trying
<1>1. CASE NothingToRestore
  <2>1. /\ pc' = [pc EXCEPT !["job"] = "discard"] /\ maint' = None /\ ~names.record
        /\ UNCHANGED <<disk, locks, noted, tries, job, unit, events>>
    BY <1>1 DEF Republish, Then, Goto, NothingToRestore, disk
  <2>2. ASSUME pc'["job"] = "discard"
        PROVE  Process("job")'
    BY <1>0, <2>1, <2>2
    DEF Process, Maintains, Recorded, Restoring, Locks, Maintained, Section, disk
  <2>3. QED
    BY <1>0, <2>1, <2>2, PlainKeeps DEF MaintFor
<1>2. CASE ~NothingToRestore
  <2>1. /\ pc' = [pc EXCEPT !["job"] = "take"] /\ UNCHANGED <<mark, taken, guard, noted, tries, job, unit, events>>
        /\ \/ names.record /\ UNCHANGED <<names, kept>>
           \/ names.snapshot = "whole" /\ names' = [names EXCEPT !.record = TRUE] /\ Durably(names')
    BY <1>2 DEF Republish, Then, Goto, NothingToRestore, Durably, guard
  <2>2. ASSUME pc'["job"] = "take", Still, names'.record
        PROVE  Process("job")'
    BY <1>0, <2>1, <2>2
    DEF Process, Maintains, Recorded, Restoring, Locks, Maintained, Section, guard
  <2>3. CASE names.record /\ UNCHANGED <<names, kept>>
    <3>1. Still
      BY <2>1, <2>3 DEF Still, job
    <3>2. QED
      BY <1>0, <2>1, <2>2, <2>3, <3>1, PlainKeeps DEF MaintFor, disk, guard
  <2>4. CASE names.snapshot = "whole" /\ names' = [names EXCEPT !.record = TRUE] /\ Durably(names')
    BY <1>0, <2>1, <2>2, <2>4, Records
  <2>5. QED
    BY <2>1, <2>3, <2>4
<1>3. QED
  BY <1>1, <1>2

-----------------------------------------------------------------------------
(* What goes wrong, and the invariant.                                     *)

\* Nothing the invariant tells of changes.
LEMMA SameKeeps ==
  ASSUME SwitchInv, UNCHANGED <<disk, guard, procs, across, flushes>>, ServerTypeOK'
  PROVE  SwitchInv'
<1>1. Typed'
  BY DEF SwitchInv, Typed, disk, procs
<1>2. DiskTells' /\ LockPlaces'
  BY DEF SwitchInv, DiskTells, CutTells, Held, LockPlaces, disk, guard, procs
<1>3. ASSUME NEW p \in Procs
      PROVE  Process(p)'
  BY ProcsAre DEF SwitchInv, Process, Maintains, Recorded, Restoring, Locks, Opening, InPlace, disk, guard, procs
<1>4. QED
  BY <1>1, <1>2, <1>3 DEF SwitchInv

LEMMA OwnerKeeps ==
  ASSUME SwitchInv, OwnerStarts
  PROVE  SwitchInv'
<1>1. enabled' = TRUE /\ UNCHANGED <<disk, guard, procs, job, orig, version, touched>>
  BY Zenon DEF OwnerStarts
<1>2. events' \in [Acts -> Nat]
  BY HappensIs DEF OwnerStarts
<1>3. ServerTypeOK'
  BY <1>1, <1>2 DEF SwitchInv, Typed, ServerTypeOK, disk, guard, procs, job
<1>4. QED
  BY <1>1, <1>3, SameKeeps DEF job

LEMMA DiskFailsKeeps ==
  ASSUME SwitchInv, NEW p \in Procs, DiskFails(p)
  PROVE  SwitchInv'
<1>1. Happens("fault") /\ Fails(p)
  BY DEF DiskFails
<1>2. QED
  BY <1>1, HappensIs, FailsKeeps

\* After a cut on a filesystem that cannot be flushed nothing takes a step.
Over == ServerTypeOK /\ \A p \in Procs : pc[p] = "over"

LEMMA PowerCutKeeps ==
  ASSUME SwitchInv, PowerCut
  PROVE  SwitchInv' \/ Over'
<1> USE ProcsAre
<1>1. PICK n \in kept : names' = n /\ kept' = {n}
  BY DEF PowerCut
<1>2. /\ mark' \in IF mark = "soft" THEN {"absent", "hard"} ELSE {mark}
      /\ locks' = Dead(Procs) /\ maint' = None
      /\ pc' = [p \in Procs |-> IF p = "job" \/ ~flushes THEN "over" ELSE "off"]
      /\ enabled' = TRUE /\ orig' = FALSE /\ UNCHANGED <<job, version, touched>>
      /\ noted' = [p \in Cores |-> None] /\ tries' = [p \in Cores |-> 0]
      /\ \E c \in SUBSET (IF CopyThere THEN {"contents"} ELSE {}) : taken' = taken \cup c \cup Takes
  BY DEF PowerCut
<1>3. events' \in [Acts -> Nat]
  BY HappensIs DEF PowerCut
<1>4. Typed /\ locks \in [Dirs -> LockOf] /\ n \in Naming
  BY Within DEF Typed, SwitchInv
<1>5. locks' \in [Dirs -> LockOf] /\ \A d \in Dirs : locks'[d].flock = None
  <2>1. ASSUME NEW d \in Dirs
        PROVE  /\ locks[d] \in LockOf
               /\ locks'[d] = [flock |-> IF locks[d].flock \in Procs THEN None ELSE locks[d].flock,
                               pid   |-> IF locks[d].pid \in Procs THEN None ELSE locks[d].pid,
                               file  |-> locks[d].file]
    BY <1>2, <1>4 DEF Dead
  <2>2. ASSUME NEW d \in Dirs
        PROVE  locks'[d] \in LockOf /\ locks'[d].flock = None
    <3>1. /\ locks[d].flock \in Procs \cup {None} /\ locks[d].pid \in Procs \cup {None}
          /\ locks[d].file \in BOOLEAN
      BY <2>1, <2>2 DEF LockOf
    <3>2. locks'[d] = [flock |-> None, pid |-> None, file |-> locks[d].file]
      BY <2>1, <2>2, <3>1
    <3>3. QED
      BY <3>1, <3>2 DEF LockOf
  <2>3. DOMAIN locks' = Dirs /\ locks' = [d \in Dirs |-> locks'[d]]
    BY <1>2 DEF Dead
  <2>4. QED
    BY <2>2, <2>3
<1>6. taken \subseteq taken' /\ taken' \subseteq {"name", "contents", "install"} /\ Takes \subseteq taken'
  <2>1. taken \subseteq {"name", "contents", "install"}
    BY <1>4 DEF Typed, ServerTypeOK
  <2>2. Takes \subseteq {"name", "install"}
    BY DEF Takes
  <2>3. QED
    BY <1>2, <2>1, <2>2
<1>7. ServerTypeOK'
  <2>1. noted' \in [Cores -> Dirs \cup {None}] /\ tries' \in [Cores -> 0..3]
    BY <1>2
  <2>2. QED
    BY <1>1, <1>2, <1>3, <1>4, <1>5, <1>6, <2>1 DEF Typed, ServerTypeOK, Naming, LockOf, job
<1>8. CASE ~flushes
  BY <1>2, <1>7, <1>8 DEF Over
<1>9. CASE flushes
  <2>1. DOMAIN pc' = Procs /\ \A p \in Procs : pc'[p] = IF p = "job" THEN "over" ELSE "off"
    BY <1>2, <1>9
  <2>2. Typed'
    BY <1>1, <1>2, <1>4, <1>7, <2>1 DEF Typed, Labels, AtRest, Trying
  <2>3. /\ Plausible(n) /\ n.record = names.record /\ (n.data = "copy" <=> names.data = "copy")
        /\ (names.data = "copy" => mark = "hard") /\ (~across => Held(n))
    BY <1>1, <1>9 DEF SwitchInv, DiskTells, CutTells
  <2>4. across /\ n.record => n.snapshot = "whole" \/ "name" \in taken'
    <3>1. names.snapshot = "whole" /\ n.snapshot # "whole" => "name" \in Takes
      BY <1>1 DEF Takes
    <3>2. QED
      BY <1>6, <2>3, <3>1 DEF SwitchInv, DiskTells
  <2>5. n.record => n.snapshot = "whole" \/ n.restored = "copy" \/ n.data = "copy" \/ "name" \in taken'
    BY <1>6, <2>3, <2>4 DEF Held
  <2>6. CutTells' /\ Held(names)' /\ Plausible(names)'
    BY <1>1, <2>3, <2>5 DEF CutTells, Held
  <2>7. across' = across /\ flushes' = flushes
    BY <1>2 DEF job
  <2>8. DiskTells'
    BY <1>1, <1>2, <2>1, <2>3, <2>4, <2>6, <2>7 DEF DiskTells
  <2>9. LockPlaces'
    BY <1>5 DEF LockPlaces, Dirs
  <2>10. ASSUME NEW p \in Procs
         PROVE  Process(p)'
    BY <1>2, <1>5, <2>1, RestIs DEF AtRest
  <2>11. QED
    BY <2>2, <2>8, <2>9, <2>10 DEF SwitchInv
<1>10. QED
  BY <1>8, <1>9

LEMMA StartKeeps ==
  ASSUME SwitchInv, NEW p \in Procs,
         Restore(p) \/ (p \in Cores /\ Start(p))
  PROVE  SwitchInv'
<1>1. CASE Restore(p)
  BY <1>1, TakeKeeps, CheckKeeps, MoveTreeKeeps, MarksKeep, SealKeeps, MoveStoresKeeps, AsideKeeps,
     SwapKeeps, RelockKeeps, ForgetKeeps, DiscardKeeps DEF Restore
<1>2. CASE p \in Cores /\ Start(p)
  BY <1>1, <1>2, LookKeeps, PrepareKeeps, NoteKeeps, LockKeeps, RecheckKeeps, StatKeeps, MaintainKeeps,
     ReadRecordKeeps DEF Start
<1>3. QED
  BY <1>1, <1>2

LEMMA JobKeeps ==
  ASSUME SwitchInv, Job
  PROVE  SwitchInv'
<1>1. CASE Restore("job")
  BY <1>1, StartKeeps, ProcsAre
<1>2. QED
  BY <1>1, JobRests, ServiceEnds, JobNames, RecordRestoreKeeps, RestoreSnapshotKeeps, RepublishKeeps DEF Job

LEMMA DisturbedKeeps ==
  ASSUME SwitchInv, Disturbed
  PROVE  SwitchInv' \/ Over'
<1>1. ASSUME NEW p \in Hands, HandStarts(p)
      PROVE  SwitchInv'
  <2>1. Happens("hand") /\ Boot(p) /\ p \in Cores
    BY <1>1 DEF HandStarts, Cores
  <2>2. QED
    BY <2>1, HappensIs, BootKeeps
<1>2. QED
  BY <1>1, OwnerKeeps, PowerCutKeeps, DiskFailsKeeps, KillKeeps DEF Disturbed

LEMMA SwitchStep ==
  ASSUME SwitchInv, [ServerNext]_serverVars
  PROVE  SwitchInv' \/ Over'
<1>1. CASE UNCHANGED serverVars
  <2>1. ServerTypeOK'
    BY <1>1 DEF SwitchInv, Typed, ServerTypeOK, serverVars, disk, guard, procs, job, unit
  <2>2. QED
    BY <1>1, <2>1, SameKeeps DEF serverVars, job
<1>2. CASE ServiceStarts
  <2>1. Boot("svc") /\ events' \in [Acts -> Nat]
    BY <1>2 DEF ServiceStarts, SwitchInv, Typed, ServerTypeOK
  <2>2. QED
    BY <2>1, ProcsAre, BootKeeps
<1>3. ASSUME NEW p \in Cores, CoreStep(p)
      PROVE  SwitchInv'
  BY <1>3, StartKeeps, ProcsAre DEF CoreStep
<1>4. ASSUME NEW p \in Hands, HandStops(p)
      PROVE  SwitchInv'
  BY <1>4, HandStopsKeeps DEF Cores
<1>5. QED
  BY <1>1, <1>2, <1>3, <1>4, JobKeeps, ServiceEnds, DisturbedKeeps DEF ServerNext

LEMMA SwitchStart ==
  ASSUME ServerInit
  PROVE  SwitchInv
<1> USE ProcsAre
<1> DEFINE start == [data |-> "live", restored |-> None, failed |-> None, stores |-> "live",
                     snapshot |-> None, record |-> FALSE, inst |-> "before"]
<1>1. names = start /\ kept = {start}
  BY DEF ServerInit
<1>2. start \in Naming /\ start.data = "live" /\ start.stores = "live" /\ ~start.record /\ start.restored = None
  BY DEF Naming, Dirs, Insts
<1>3. /\ locks \in [Dirs -> LockOf]
      /\ \A d \in Dirs : locks[d].flock = IF d = "live" THEN "svc" ELSE None
  <2>1. locks = [d \in Dirs |-> [flock |-> IF d = "live" THEN "svc" ELSE None, pid |-> None, file |-> d = "live"]]
    BY DEF ServerInit
  <2>2. \A d \in Dirs : (d = "live") \in BOOLEAN
    OBVIOUS
  <2>3. QED
    BY <2>1, <2>2 DEF LockOf
<1>4. /\ DOMAIN pc = Procs
      /\ \A p \in Procs : pc[p] = IF p = "job" THEN "stop" ELSE IF p = "svc" THEN "run" ELSE "off"
  BY DEF ServerInit
<1>5. /\ mark = "absent" /\ taken = {} /\ maint = None /\ noted = [p \in Cores |-> None] /\ tries = [p \in Cores |-> 0]
      /\ across \in BOOLEAN /\ flushes \in BOOLEAN /\ rolling = FALSE /\ life = "worker" /\ torn = FALSE
      /\ orig = TRUE /\ enabled = TRUE /\ version = "old" /\ touched = {} /\ events = [a \in Acts |-> 0]
  <2>1. PICK d \in Disks : across = (d \in {"two", "two deaf"}) /\ flushes = (d \in {"one", "two"})
    BY Zenon DEF ServerInit
  <2>2. (d \in {"two", "two deaf"}) \in BOOLEAN /\ (d \in {"one", "two"}) \in BOOLEAN
    OBVIOUS
  <2>3. across \in BOOLEAN /\ flushes \in BOOLEAN
    BY ONLY <2>1, <2>2
  <2>4. QED
    BY <2>3 DEF ServerInit
<1>6. Typed
  <2>1. ServerTypeOK
    <3>1. /\ {across, flushes, rolling, orig, enabled, torn} \subseteq BOOLEAN /\ touched \subseteq Dirs
          /\ noted \in [Cores -> Dirs \cup {None}] /\ tries \in [Cores -> 0..3] /\ events \in [Acts -> Nat]
      <4>1. noted \in [Cores -> Dirs \cup {None}] /\ tries \in [Cores -> 0..3]
        BY <1>5
      <4>2. events \in [Acts -> Nat]
        BY <1>5
      <4>3. QED
        BY <1>5, <4>1, <4>2
    <3>2. names \in Naming /\ names \in kept
      BY <1>1, <1>2
    <3> HIDE DEF start
    <3>3. QED
      BY <1>3, <1>5, <3>1, <3>2 DEF ServerTypeOK, Naming, LockOf
  <2>2. QED
    BY <1>1, <1>2, <1>4, <2>1 DEF Typed, Labels, AtRest, Trying
<1>7. Plausible(start)
  BY <1>2 DEF Plausible
<1> HIDE DEF start
<1>8. DiskTells /\ LockPlaces
  BY <1>1, <1>2, <1>3, <1>7 DEF DiskTells, CutTells, Held, LockPlaces, Dirs
<1>9. ASSUME NEW p \in Procs
      PROVE  Process(p)
  <2>1. Maintains(p) /\ Recorded(p) /\ Restoring(p)
    BY <1>4, <1>5 DEF Maintains, Maintained, Recorded, Restoring, Section
  <2>2. Locks(p)
    BY <1>3, <1>4 DEF Locks, Locking
  <2>3. p \in Cores => Opening(p)
    BY <1>1, <1>2, <1>3, <1>4 DEF Opening, InPlace, Dirs
  <2>4. QED
    BY <2>1, <2>2, <2>3 DEF Process
<1>10. QED
  BY <1>6, <1>8, <1>9 DEF SwitchInv

\* Nothing is left to take a step.
LEMMA OverStep ==
  ASSUME Over, [ServerNext]_serverVars
  PROVE  Over'
<1> USE ProcsAre
<1>1. pc["job"] = "over" /\ pc["svc"] = "over" /\ \A p \in Procs : pc[p] = "over"
  BY DEF Over
<1>2. ASSUME NEW p \in Procs
      PROVE  ~Restore(p) /\ ~DiskFails(p) /\ ~Kill(p)
  BY <1>1 DEF Restore, Take, Check, MoveTree, Mark, Flush, Seal, MoveStores, Aside, Swap, Relock, Forget, Discard,
     DiskFails, Kill
<1>3. ASSUME NEW p \in Cores
      PROVE  ~CoreStep(p) /\ ~HandStops(p) /\ ~Boot(p)
  BY <1>1, <1>2 DEF CoreStep, Start, Look, Prepare, Note, LockData, Recheck, Stat, Maintain, ReadRecord, HandStops, Boot
<1>4. ~Job
  BY <1>1, <1>2 DEF Job, StopService, MakeBackup, CopyData, MoveAway, Install, StartNew, Healthy, Unhealthy, Recover,
     RollBack, MoveFailed, RecordRestore, MoveBack, RestoreSnapshot, Republish, StartOld, JobEnds, At
<1>5. ~ServiceStarts /\ ~AdmittedExits /\ ~PowerCut
  BY <1>1, <1>3 DEF ServiceStarts, AdmittedExits, PowerCut, Adrift
<1>6. \A p \in Hands : ~HandStarts(p) /\ ~HandStops(p)
  BY <1>3 DEF HandStarts, Cores
<1>7. CASE UNCHANGED serverVars
  BY <1>1, <1>7 DEF Over, ServerTypeOK, serverVars, disk, guard, procs, job, unit
<1>8. CASE OwnerStarts
  <2>1. enabled' = TRUE /\ UNCHANGED <<disk, guard, procs, job, orig, version, touched>>
    BY <1>8, Zenon DEF OwnerStarts
  <2>2. "owner" \in Acts /\ events' = [events EXCEPT !["owner"] = @ + 1]
    BY <1>8, Zenon DEF OwnerStarts, Happens
  <2>3. events \in [Acts -> Nat]
    BY DEF Over, ServerTypeOK
  <2>4. events' \in [Acts -> Nat]
    BY <2>2, <2>3
  <2>5. QED
    BY <1>1, <2>1, <2>4 DEF Over, ServerTypeOK, disk, guard, procs, job
<1>9. QED
  BY <1>2, <1>3, <1>4, <1>5, <1>6, <1>7, <1>8 DEF ServerNext, Disturbed

(* The invariant is inductive.                                             *)
LEMMA SwitchAlways == ServerSpec => [](SwitchInv \/ Over)
<1>1. (SwitchInv \/ Over) /\ [ServerNext]_serverVars => (SwitchInv \/ Over)'
  BY SwitchStep, OverStep
<1>2. QED
  BY <1>1, SwitchStart, PTL DEF ServerSpec

(* Every variable of a server update stays in its set.                     *)
THEOREM ServerTypeCorrect == ServerSpec => []ServerTypeOK
<1>1. SwitchInv \/ Over => ServerTypeOK
  BY DEF SwitchInv, Typed, Over
<1>2. QED
  BY <1>1, SwitchAlways, PTL

(* openDataDir and swapRestored: a core that runs holds the directory at   *)
(* the path, with its stores, and no other core runs, however starts, a    *)
(* restore and what cuts them off interleave.                              *)
THEOREM RunsInPlaceAlways == ServerSpec => []RunsInPlace
<1>1. Over => RunsInPlace
  BY ProcsAre DEF Over, RunsInPlace, Serves
<1>2. ASSUME SwitchInv
      PROVE  RunsInPlace
  <2>1. SUFFICES ASSUME NEW p \in Cores, pc[p] = "run"
                 PROVE  /\ names.data # "fresh" /\ Holding(p) = {names.data} /\ names.stores = names.data
                        /\ \A q \in Cores \ {p} : ~Serves(q)
    BY DEF RunsInPlace, Serves
  <2>2. Opening(p) /\ Locks(p) /\ names \in Naming /\ Plausible(names)
    BY <1>2, ProcsAre, Within DEF Process
  <2>3. InPlace /\ locks[names.data].flock = p
    BY <2>1, <2>2 DEF Opening
  <2>4. names.data \in Dirs /\ names.data # "fresh" /\ names.stores = names.data
    BY <2>2, <2>3 DEF InPlace, Plausible, Dirs
  <2>5. Holding(p) = {names.data}
    BY <2>2, <2>3, <2>4 DEF Holding, Locks
  <2>6. ASSUME NEW q \in Cores \ {p}, pc[q] = "run"
        PROVE  FALSE
    <3>1. Opening(q)
      BY <1>2, ProcsAre, Within DEF Process
    <3>2. QED
      BY <2>3, <2>6, <3>1 DEF Opening
  <2>7. QED
    BY <2>4, <2>5, <2>6 DEF Serves
<1>3. QED
  BY <1>1, <1>2, SwitchAlways, PTL

(* rollBack and restoreRecorded: while the record stands, one of snapshot, *)
(* restored copy and marked copy in place is there, after any power cut,   *)
(* on one filesystem or two, but for a cut that took the name of the       *)
(* snapshot, and where the filesystem of the data cannot be flushed.       *)
THEOREM RestorableAlways == ServerSpec => []Restorable
<1>1. SwitchInv => Restorable
  BY DEF SwitchInv, DiskTells, Held, Restorable, Previous, RestoredBy
<1>2. Over => Restorable
  BY ProcsAre DEF Over, Restorable, Adrift
<1>3. QED
  BY <1>1, <1>2, SwitchAlways, PTL

-----------------------------------------------------------------------------
(* What version runs on which data, while the owner leaves the service be. *)

Reversed == names.record \/ names.data = "copy"
Copied   == names.snapshot = "whole" \/ Reversed

\* Where the installations are, and why a new one can be taken back.
InstTells ==
  /\ pc["job"] \in {"stop", "backup", "copy", "away"} => inst = "before"
  /\ pc["job"] = "install" => inst = "away"
  /\ pc["job"] \in {"rbRecord", "rbBack"} => inst # "new"
  /\ pc["job"] \in Section \cup {"rbRestore", "rbRead", "discard"} => inst = "back"
  /\ pc["job"] \in {"away", "install"} \/ inst \in {"new", "off"} => Copied
  /\ \A n \in kept : n.inst = "back" => inst = "back"
  /\ Reversed => inst \in {"off", "back"}
  /\ inst = "back" \/ (inst = "off" /\ pc["job"] = "rbBack") => Reversed

\* What the service may be doing, and what its new version has run on.
ServiceTells ==
  /\ pc["job"] \in {"backup", "copy", "away", "install"} \/ (pc["job"] = "rbAway" /\ inst = "new") =>
       pc["svc"] = "off" /\ ~enabled
  /\ inst = "off" => pc["svc"] = "off"
  /\ pc["svc"] # "off" => version = IF inst = "new" THEN "new" ELSE "old"
  /\ pc["svc"] \in {"stat", "run"} /\ inst = "back" => names.data = "copy"
  /\ touched \subseteq {"live"}
  /\ touched # {} => inst \in {"new", "off", "back"}

VersionsTell == InstTells /\ ServiceTells

\* What the disk tells of a rollback stays, and so do the installations.
TellsOn ==
  /\ (Copied => Copied') /\ (Reversed' <=> Reversed) /\ (names.data = "copy" => names'.data = "copy")
  /\ inst' = inst /\ \A m \in kept' : \E k \in kept : m.inst = k.inst

LEMMA SameTells ==
  ASSUME UNCHANGED <<names, kept>>
  PROVE  TellsOn
  BY DEF TellsOn, Copied, Reversed, inst

\* Which installations a cut may leave of a new naming.
LEMMA KeptInst ==
  ASSUME Typed, NEW n \in Naming, Name(n) \/ Durably(n)
  PROVE  names' = n /\ \A m \in kept' : \E k \in kept \cup {n} : m.inst = k.inst
<1>1. ASSUME NEW k \in kept
      PROVE  Mix(n, k).inst = k.inst /\ Mix(k, n).inst = n.inst
  BY <1>1, MixIs DEF Typed
<1>2. \A m \in Newly(n) \cup Hard(n) : \E k \in kept \cup {n} : m.inst = k.inst
  BY <1>1 DEF Newly, Hard
<1>3. kept' \subseteq kept \cup Newly(n) \cup Hard(n)
  BY DEF Name, Durably
<1>4. QED
  BY <1>2, <1>3 DEF Name, Durably

LEMMA NamedTells ==
  ASSUME SwitchInv, NEW n \in Naming, Name(n) \/ Durably(n), n.inst = names.inst,
         \/ n.record /\ names.record /\ names.data # "copy"
         \/ n.data = "copy" /\ Reversed
  PROVE  TellsOn
<1>1. names' = n /\ \A m \in kept' : \E k \in kept \cup {n} : m.inst = k.inst
  BY KeptInst DEF SwitchInv
<1>2. \A m \in kept' : \E k \in kept : m.inst = k.inst
  BY <1>1, TypesAre DEF SwitchInv
<1>3. QED
  BY <1>1, <1>2 DEF TellsOn, Copied, Reversed, inst

LEMMA RestoreTells ==
  ASSUME SwitchInv, NEW p \in Procs, Restore(p) \/ (p \in Cores /\ Prepare(p)),
         p = "job" /\ pc[p] = "discard" => names.data = "copy"
  PROVE  TellsOn
<1> USE ProcsAre
<1>1. /\ Process(p) /\ names \in Naming /\ names \in kept /\ Plausible(names)
      /\ pc[p] \in Section => names.record
  BY Within
<1>2. CASE UNCHANGED <<names, kept>>
  BY <1>2, SameTells
<1>3. CASE Take(p) \/ Check(p) \/ Mark(p) \/ Flush(p) \/ Seal(p) \/ Relock(p)
  BY <1>2, <1>3 DEF Take, Check, Mark, Flush, Seal, Relock, Throw, Fails, disk
<1>4. CASE MoveTree(p)
  <2> DEFINE n == [names EXCEPT !.restored = "copy", !.snapshot = IF across THEN @ ELSE "partial"]
  <2>1. Name(n) /\ pc[p] = "move"
    BY <1>4 DEF MoveTree
  <2>2. n \in Naming /\ n.inst = names.inst /\ n.record /\ names.record /\ names.data # "copy"
    BY <1>1, <2>1 DEF Process, Restoring, Section, Naming, Dirs
  <2> HIDE DEF n
  <2>3. QED
    BY <2>1, <2>2, NamedTells
<1>5. CASE MoveStores(p)
  <2> DEFINE n == [names EXCEPT !.stores = names.restored]
  <2>1. CASE Name(n) /\ pc[p] = "stores"
    <3>1. n \in Naming /\ n.inst = names.inst /\ n.record /\ names.record /\ names.data # "copy"
      BY <1>1, <2>1 DEF Process, Restoring, Section, Naming, Dirs
    <3> HIDE DEF n
    <3>2. QED
      BY <2>1, <3>1, NamedTells
  <2>2. QED
    BY <1>2, <1>5, <2>1 DEF MoveStores
<1>6. CASE Aside(p)
  <2> DEFINE n == [names EXCEPT !.data = None, !.failed = IF @ = None THEN names.data ELSE @]
  <2>1. Name(n) /\ pc[p] = "aside"
    BY <1>6 DEF Aside
  <2>2. n \in Naming /\ n.inst = names.inst /\ n.record /\ names.record /\ names.data # "copy"
    BY <1>1, <2>1 DEF Process, Restoring, Section, Naming, Dirs
  <2> HIDE DEF n
  <2>3. QED
    BY <2>1, <2>2, NamedTells
<1>7. CASE Swap(p)
  <2> DEFINE n == [names EXCEPT !.data = names.restored, !.restored = None]
  <2>1. CASE Durably(n) /\ pc[p] = "swap"
    <3>1. n \in Naming /\ n.inst = names.inst /\ n.data = "copy" /\ Reversed
      BY <1>1, <2>1 DEF Process, Restoring, Section, Naming, Dirs, Reversed
    <3> HIDE DEF n
    <3>2. QED
      BY <2>1, <3>1, NamedTells
  <2>2. QED
    BY <1>2, <1>7, <2>1 DEF Swap, Throw, Fails, disk
<1>8. CASE Forget(p)
  <2> DEFINE n == [names EXCEPT !.record = FALSE, !.restored = None]
  <2>1. Durably(n) /\ pc[p] = "forget"
    BY <1>8 DEF Forget
  <2>2. n \in Naming /\ n.inst = names.inst /\ n.data = "copy" /\ Reversed
    BY <1>1, <2>1 DEF Process, Restoring, Section, Naming, Dirs, Reversed
  <2> HIDE DEF n
  <2>3. QED
    BY <2>1, <2>2, NamedTells
<1>9. CASE Discard(p)
  <2> DEFINE n == [names EXCEPT !.snapshot = IF @ = "whole" THEN "partial" ELSE @]
  <2>1. Name(n) /\ pc[p] = "discard"
    BY <1>9 DEF Discard
  <2>2. n \in Naming /\ n.inst = names.inst /\ n.data = "copy" /\ Reversed
    BY <1>1, <2>1 DEF Process, Opening, Naming, Reversed
  <2> HIDE DEF n
  <2>3. QED
    BY <2>1, <2>2, NamedTells
<1>10. CASE p \in Cores /\ Prepare(p)
  <2> DEFINE n == [names EXCEPT !.data = "fresh"]
  <2>1. CASE Name(n) /\ names.data = None
    <3>1. n \in Naming /\ n.inst = names.inst /\ n.record /\ names.record /\ names.data # "copy"
      BY <1>1, <2>1 DEF Plausible, Naming, Dirs, None
    <3> HIDE DEF n
    <3>2. QED
      BY <2>1, <3>1, NamedTells
  <2>2. QED
    BY <1>2, <1>10, <2>1 DEF Prepare
<1>11. QED
  BY <1>3, <1>4, <1>5, <1>6, <1>7, <1>8, <1>9, <1>10 DEF Restore

\* What a step of a starting core leaves alone.
LEMMA CoreStepIs ==
  ASSUME SwitchInv, NEW p \in Cores, CoreStep(p)
  PROVE  /\ UNCHANGED <<enabled, version>> /\ TellsOn
         /\ \A q \in Procs : q # p => pc'[q] = pc[q]
         /\ pc[p] # "off"
         /\ \/ touched' = touched
            \/ p = "svc" /\ version = "new" /\ touched' = touched \cup {names.data} /\ names.data # None
         /\ pc'[p] \in {"stat", "run"} => pc[p] = "stat" \/ ~names.record
<1> USE ProcsAre
<1>1. Typed /\ Process(p) /\ names \in Naming /\ (pc[p] \in {"mlock", "discard"} => ~names.record)
  BY Within DEF Process, Recorded
<1>2. TellsOn
  <2>1. CASE Restore(p) \/ Prepare(p)
    BY <2>1, RestoreTells
  <2>2. CASE ~(Restore(p) \/ Prepare(p))
    BY <2>2, SameTells DEF CoreStep, Start, Look, Note, LockData, Recheck, Stat, Maintain, ReadRecord, Throw, Fails, disk
  <2>3. QED
    BY <2>1, <2>2
<1>3. ASSUME Throw(p), pc[p] # "off"
      PROVE  /\ UNCHANGED <<enabled, version, touched>>
             /\ \A q \in Procs : q # p => pc'[q] = pc[q]
             /\ pc'[p] = "off"
  BY <1>3, FailsLeaves DEF Throw, Fails, unit
<1>4. ASSUME NEW l \in Labels(p), pc' = [pc EXCEPT ![p] = l]
      PROVE  pc'[p] = l /\ \A q \in Procs : q # p => pc'[q] = pc[q]
  BY <1>1, <1>4, Went
<1>5. {"maint", "prepare", "note", "lock", "mlock", "look", "read", "take", "mprepare", "recheck", "stat", "run",
       "check", "forget", "mark", "move", "flush", "seal", "swap", "stores", "aside", "relock", "discard"} \subseteq Labels(p)
  BY DEF Labels, Maintained, Section, AtRest
<1>6. pc[p] # "off"
  BY DEF CoreStep, Start, Restore, Look, Prepare, Note, LockData, Recheck, Stat, Maintain, ReadRecord,
         Take, Check, MoveTree, Mark, Flush, Seal, MoveStores, Aside, Swap, Relock, Forget, Discard
<1>7. CASE Throw(p)
  BY <1>2, <1>3, <1>6, <1>7
<1>8. CASE ~Throw(p)
  <2>1. UNCHANGED <<enabled, version>>
    BY <1>8 DEF CoreStep, Start, Restore, Look, Prepare, Note, LockData, Recheck, Stat, Maintain, ReadRecord,
         Take, Check, MoveTree, Mark, Flush, Seal, MoveStores, Aside, Swap, Relock, Forget, Discard, unit, job
  <2>2. PICK l \in Labels(p) : pc' = [pc EXCEPT ![p] = l] /\ (l \in {"stat", "run"} => pc[p] = "stat" \/ ~names.record)
    <3>1. CASE Look(p) \/ Prepare(p) \/ Note(p) \/ LockData(p) \/ Recheck(p) \/ Stat(p) \/ Maintain(p) \/ ReadRecord(p)
      BY <1>1, <1>5, <1>8, <3>1 DEF Look, Prepare, Note, LockData, Recheck, Stat, Maintain, ReadRecord, Goto, Opens
    <3>2. CASE Restore(p)
      BY <1>1, <1>5, <1>8, <3>2 DEF Restore, Take, Check, MoveTree, Mark, Flush, Seal, MoveStores, Aside, Swap, Relock,
           Forget, Discard, Goto, Opens
    <3>3. QED
      BY <3>1, <3>2 DEF CoreStep, Start
  <2>3. \/ touched' = touched
        \/ p = "svc" /\ version = "new" /\ touched' = touched \cup {names.data} /\ names.data # None
    <3>1. CASE LockData(p)
      BY <1>8, <3>1 DEF LockData, Opens
    <3>2. CASE Stat(p)
      <4>1. InPlace
        BY <1>1, <3>2 DEF Stat, Process, Opening
      <4>2. names.data # None
        BY <4>1 DEF InPlace, None
      <4>3. QED
        BY <1>8, <3>2, <4>2 DEF Stat, Opens, unit
    <3>3. CASE Discard(p)
      <4>1. names.data = "copy"
        BY <1>1, <3>3 DEF Discard, Process, Opening
      <4>2. QED
        BY <3>3, <4>1 DEF Discard, Opens, None
    <3>4. CASE ~(LockData(p) \/ Stat(p) \/ Discard(p))
      BY <1>8, <3>4 DEF CoreStep, Start, Restore, Look, Prepare, Note, Recheck, Maintain, ReadRecord,
         Take, Check, MoveTree, Mark, Flush, Seal, MoveStores, Aside, Swap, Relock, Forget, unit
    <3>5. QED
      BY <3>1, <3>2, <3>3, <3>4
  <2>4. QED
    BY <1>2, <1>4, <1>6, <2>1, <2>2, <2>3
<1>9. QED
  BY <1>7, <1>8

LEMMA CoreVersions ==
  ASSUME SwitchInv, VersionsTell, NEW p \in Cores, CoreStep(p)
  PROVE  VersionsTell'
<1> USE ProcsAre
<1>1. /\ UNCHANGED <<enabled, version>> /\ TellsOn /\ inst' = inst
      /\ \A q \in Procs : q # p => pc'[q] = pc[q]
      /\ pc[p] # "off" /\ pc'["job"] = pc["job"]
      /\ pc'[p] \in {"stat", "run"} => pc[p] = "stat" \/ ~names.record
  BY CoreStepIs DEF TellsOn
<1>2. touched' \subseteq {"live"} /\ (touched' # {} => inst \in {"new", "off", "back"})
  <2>1. CASE touched' = touched
    BY <2>1 DEF VersionsTell, ServiceTells
  <2>2. CASE p = "svc" /\ version = "new" /\ touched' = touched \cup {names.data} /\ names.data # None
    <3>1. inst = "new"
      BY <1>1, <2>2 DEF VersionsTell, ServiceTells
    <3>2. ~names.record /\ names.data # "copy"
      BY <3>1 DEF VersionsTell, InstTells, Reversed
    <3>3. names.data = "live"
      BY <2>2, <3>2, Within DEF Plausible
    <3>4. QED
      BY <2>2, <3>1, <3>3 DEF VersionsTell, ServiceTells
  <2>3. QED
    BY <2>1, <2>2, CoreStepIs
<1>3. InstTells'
  BY <1>1 DEF VersionsTell, InstTells, TellsOn
<1>4. pc'["svc"] \in {"stat", "run"} /\ inst = "back" => names'.data = "copy"
  BY <1>1 DEF VersionsTell, InstTells, ServiceTells, TellsOn, Reversed
<1>5. ServiceTells'
  BY <1>1, <1>2, <1>4 DEF VersionsTell, ServiceTells
<1>6. QED
  BY <1>3, <1>5 DEF VersionsTell

LEMMA BootVersions ==
  ASSUME SwitchInv, VersionsTell, NEW p \in Cores, Boot(p), p = "svc" => enabled
  PROVE  VersionsTell'
<1> USE ProcsAre
<1>1. /\ pc' = [pc EXCEPT ![p] = "look"] /\ (p = "svc" => inst \in {"before", "new", "back"})
      /\ version' = IF p # "svc" THEN version ELSE IF inst = "new" THEN "new" ELSE "old"
      /\ UNCHANGED <<names, kept, inst, enabled, touched>>
  BY DEF Boot, Goto, RootThere, disk, inst
<1>2. pc'["job"] = pc["job"] /\ pc'["svc"] = IF p = "svc" THEN "look" ELSE pc["svc"]
  BY <1>1 DEF SwitchInv, Typed
<1>3. InstTells'
  BY <1>1, <1>2 DEF VersionsTell, InstTells, Copied, Reversed
<1>4. ServiceTells'
  BY <1>1, <1>2 DEF VersionsTell, ServiceTells
<1>5. QED
  BY <1>3, <1>4 DEF VersionsTell

\* Processes that end, and a job that goes where nothing is said of the versions.
LEMMA LeavingVersions ==
  ASSUME SwitchInv, VersionsTell, UNCHANGED <<disk, version, touched>>,
         pc'["svc"] \in {pc["svc"], "off"},
         pc'["job"] \in {pc["job"], "rbStop", "recover", "over", "health", "rhealth"},
         enabled' => enabled \/ pc'["job"] \in {"rbStop", "recover", "over", "health", "rhealth"}
  PROVE  VersionsTell'
<1>1. InstTells'
  BY DEF VersionsTell, InstTells, Copied, Reversed, disk, inst, Section
<1>2. ServiceTells'
  BY DEF VersionsTell, ServiceTells, disk, inst
<1>3. QED
  BY <1>1, <1>2 DEF VersionsTell

LEMMA FailsVersions ==
  ASSUME SwitchInv, VersionsTell, NEW p \in Procs, Fails(p)
  PROVE  VersionsTell'
<1>1. UNCHANGED <<disk, version, touched, enabled>>
  BY DEF Fails, unit
<1>2. /\ \A q \in Procs : q # p => pc'[q] = pc[q]
      /\ IF p = "job" THEN pc'[p] \in {"rbStop", "recover", "over"} ELSE pc'[p] = "off"
  BY FailsLeaves
<1>3. QED
  BY <1>1, <1>2, ProcsAre, LeavingVersions

LEMMA EndsVersions ==
  ASSUME SwitchInv, VersionsTell,
         \/ AdmittedExits \/ StartNew \/ Healthy \/ Unhealthy \/ Recover
         \/ \E p \in Hands : HandStops(p)
         \/ \E p \in Procs : Kill(p)
  PROVE  VersionsTell'
<1> USE ProcsAre
<1>0. DOMAIN pc = Procs /\ enabled \in BOOLEAN
  BY DEF SwitchInv, Typed, ServerTypeOK
<1>1. CASE AdmittedExits
  BY <1>0, <1>1, LeavingVersions DEF AdmittedExits, ServiceDown, Goto, job
<1>2. CASE StartNew \/ Healthy \/ Unhealthy \/ Recover
  <2>1. PICK l \in {"over", "rbStop", "health", "rhealth"} :
          /\ pc' = [pc EXCEPT !["job"] = l] /\ UNCHANGED <<disk, version, touched>>
    BY <1>2 DEF StartNew, Healthy, Unhealthy, Recover, Then, Goto, job, unit
  <2>2. pc'["job"] = l /\ pc'["svc"] = pc["svc"]
    BY <1>0, <2>1
  <2>3. QED
    BY <2>1, <2>2, LeavingVersions
<1>3. ASSUME NEW p \in Hands, HandStops(p)
      PROVE  VersionsTell'
  <2>1. pc' = [pc EXCEPT ![p] = "off"] /\ UNCHANGED <<disk, version, touched, enabled>> /\ p \in Cores
    BY <1>3 DEF HandStops, Goto, job, unit, Cores
  <2>2. pc'["job"] = pc["job"] /\ pc'["svc"] \in {pc["svc"], "off"}
    BY <1>0, <2>1
  <2>3. QED
    BY <2>1, <2>2, LeavingVersions
<1>4. ASSUME NEW p \in Procs, Kill(p)
      PROVE  VersionsTell'
  <2>1. pc' = [pc EXCEPT ![p] = Gone(p)] /\ UNCHANGED <<disk, version, touched, enabled>>
    BY <1>4 DEF Kill, Goto
  <2>2. IF p = "job" THEN Gone(p) \in {"recover", "over"} ELSE Gone(p) = "off"
    BY DEF Gone
  <2>3. pc'["job"] \in {pc["job"], "recover", "over"} /\ pc'["svc"] \in {pc["svc"], "off"}
    BY <1>0, <2>1, <2>2
  <2>4. QED
    BY <2>1, <2>3, LeavingVersions
<1>5. QED
  BY <1>1, <1>2, <1>3, <1>4

\* A cut that takes back a part of the update's renames: the service starts
\* the new version or none, however often it starts.
NeverOld ==
  /\ pc["job"] = "over" /\ \A n \in kept : n.inst \in {"away", "new", "off"}
  /\ pc["svc"] # "off" => version = "new"

LEMMA CutVersions ==
  ASSUME SwitchInv, VersionsTell, PowerCut, flushes
  PROVE  "install" \in taken' \/ VersionsTell' \/ NeverOld'
<1> USE ProcsAre
<1>1. PICK n \in kept : names' = n /\ kept' = {n}
  BY DEF PowerCut
<1>2. pc' = [p \in Procs |-> IF p = "job" THEN "over" ELSE "off"] /\ UNCHANGED <<version, touched>>
  BY DEF PowerCut
<1>3. pc'["job"] = "over" /\ pc'["svc"] = "off"
  BY <1>2
<1>4. n \in Naming /\ n.inst \in Insts /\ inst' = n.inst
  BY <1>1 DEF SwitchInv, Typed, Naming, inst
<1>5. CASE n.inst \in {"away", "new", "off"}
  BY <1>1, <1>3, <1>5 DEF NeverOld
<1>6. CASE n.inst = "before" /\ inst # "before"
  <2>1. "install" \in Takes
    BY <1>1, <1>6 DEF Takes, inst
  <2>2. Takes \subseteq taken'
    BY DEF PowerCut
  <2>3. QED
    BY <2>1, <2>2
<1>7. CASE n.inst = inst /\ inst \in {"before", "back"}
  <2>1. Reversed' <=> Reversed
    BY <1>1 DEF SwitchInv, DiskTells, CutTells, Reversed
  <2>2. InstTells'
    BY <1>1, <1>3, <1>4, <1>7, <2>1 DEF VersionsTell, InstTells, Section
  <2>3. ServiceTells'
    BY <1>2, <1>3, <1>4, <1>7 DEF VersionsTell, ServiceTells
  <2>4. QED
    BY <2>2, <2>3 DEF VersionsTell
<1>8. n.inst = "back" => inst = "back"
  BY DEF VersionsTell, InstTells
<1>9. QED
  BY <1>4, <1>5, <1>6, <1>7, <1>8 DEF Insts

LEMMA JobRestoreVersions ==
  ASSUME SwitchInv, VersionsTell, Restore("job")
  PROVE  VersionsTell'
<1> USE ProcsAre
<1>0. /\ Typed /\ (pc["job"] = "discard" => ~names.record)
      /\ pc["job"] \in Section \cup {"discard"} /\ inst = "back"
  <2>1. pc["job"] \in Section \cup {"discard"}
    BY DEF Restore, Take, Check, MoveTree, Mark, Flush, Seal, MoveStores, Aside, Swap, Relock, Forget, Discard, Section
  <2>2. QED
    BY <2>1, Within DEF Process, Recorded, VersionsTell, InstTells
<1>1. CASE Throw("job")
  BY <1>1, FailsVersions DEF Throw
<1>2. CASE ~Throw("job")
  <2>1. TellsOn
    <3>1. pc["job"] = "discard" => names.data = "copy"
      BY <1>0 DEF VersionsTell, InstTells, Reversed
    <3>2. QED
      BY <3>1, RestoreTells
  <2>2. UNCHANGED <<enabled, version, touched>> /\ inst' = inst
    BY <1>2, <2>1 DEF Restore, Take, Check, MoveTree, Mark, Flush, Seal, MoveStores, Aside, Swap, Relock, Forget, Discard,
         unit, TellsOn
  <2>3. PICK l \in Section \cup {"discard", "rbStart"} : pc' = [pc EXCEPT !["job"] = l]
    BY <1>2 DEF Restore, Take, Check, MoveTree, Mark, Flush, Seal, MoveStores, Aside, Swap, Relock, Forget, Discard,
         Goto, Section
  <2>4. pc'["job"] = l /\ pc'["svc"] = pc["svc"]
    BY <1>0, <2>3 DEF Typed
  <2>5. l \notin {"stop", "backup", "copy", "away", "install", "rbRecord", "rbBack", "rbAway"}
    BY DEF Section
  <2>6. InstTells'
    BY <1>0, <2>1, <2>2, <2>4, <2>5 DEF VersionsTell, InstTells, TellsOn
  <2>7. ServiceTells'
    BY <1>0, <2>1, <2>2, <2>4, <2>5 DEF VersionsTell, ServiceTells, TellsOn
  <2>8. QED
    BY <2>6, <2>7 DEF VersionsTell
<1>3. QED
  BY <1>1, <1>2

LEMMA JobGoes ==
  ASSUME SwitchInv, NEW l, pc' = [pc EXCEPT !["job"] = l]
  PROVE  pc'["job"] = l /\ pc'["svc"] = pc["svc"]
  BY ProcsAre DEF SwitchInv, Typed

LEMMA StopVersions ==
  ASSUME SwitchInv, VersionsTell, StopService \/ RollBack
  PROVE  VersionsTell'
<1> USE ProcsAre
<1>0. DOMAIN pc = Procs
  BY DEF SwitchInv, Typed
<1>1. CASE Throw("job")
  BY <1>1, FailsVersions DEF Throw
<1>2. CASE ServiceDown /\ UNCHANGED <<disk, version, touched>>
           /\ \/ pc["job"] = "stop" /\ pc' = [pc EXCEPT !["job"] = "backup", !["svc"] = "off"]
              \/ pc' = [pc EXCEPT !["job"] = "rbAway", !["svc"] = "off"]
  <2>1. pc'["svc"] = "off" /\ ~enabled' /\ UNCHANGED <<names, kept, inst>>
    BY <1>0, <1>2 DEF ServiceDown, disk, inst
  <2>2. (pc["job"] = "stop" /\ pc'["job"] = "backup") \/ pc'["job"] = "rbAway"
    BY <1>0, <1>2
  <2>3. InstTells'
    BY <1>2, <2>1, <2>2 DEF VersionsTell, InstTells, Copied, Reversed, Section
  <2>4. ServiceTells'
    BY <1>2, <2>1, <2>2 DEF VersionsTell, ServiceTells
  <2>5. QED
    BY <2>3, <2>4 DEF VersionsTell
<1>3. CASE RollBack /\ pc' = [pc EXCEPT !["job"] = "rbAway"] /\ UNCHANGED enabled /\ inst # "new"
  <2>1. UNCHANGED <<names, kept, inst, version, touched, enabled>>
    BY <1>3 DEF RollBack, disk, inst
  <2>2. pc'["job"] = "rbAway" /\ pc'["svc"] = pc["svc"]
    BY <1>3, JobGoes
  <2>3. InstTells'
    BY <1>3, <2>1, <2>2 DEF VersionsTell, InstTells, Copied, Reversed, Section
  <2>4. ServiceTells'
    BY <1>3, <2>1, <2>2 DEF VersionsTell, ServiceTells
  <2>5. QED
    BY <2>3, <2>4 DEF VersionsTell
<1>4. QED
  BY <1>1, <1>2, <1>3 DEF StopService, RollBack, Installed, At, Goto, job

\* Steps of the job that name the snapshot, the record or an installation.
LEMMA JobNaming ==
  ASSUME SwitchInv, VersionsTell, NEW n \in Naming, Name(n) \/ Durably(n), inst = "back" => n.inst = "back"
  PROVE  names' = n /\ inst' = n.inst /\ \A m \in kept' : m.inst = "back" => inst' = "back"
<1>1. names' = n /\ \A m \in kept' : \E k \in kept \cup {n} : m.inst = k.inst
  BY KeptInst DEF SwitchInv
<1>2. inst' = n.inst
  BY <1>1 DEF inst
<1>3. QED
  BY <1>1, <1>2 DEF VersionsTell, InstTells

LEMMA InstNaming ==
  ASSUME SwitchInv, VersionsTell, NEW i \in Insts, inst = "back" => i = "back",
         (UNCHANGED <<names, kept>> /\ i = inst) \/ Name([names EXCEPT !.inst = i])
  PROVE  /\ inst' = i /\ names'.data = names.data /\ names'.record = names.record /\ names'.snapshot = names.snapshot
         /\ \A m \in kept' : m.inst = "back" => inst' = "back"
<1>1. CASE UNCHANGED <<names, kept>> /\ i = inst
  BY <1>1 DEF inst, VersionsTell, InstTells
<1>2. CASE Name([names EXCEPT !.inst = i])
  <2> DEFINE n == [names EXCEPT !.inst = i]
  <2>1. n \in Naming /\ n.data = names.data /\ n.record = names.record /\ n.snapshot = names.snapshot /\ n.inst = i
    BY Within, ProcsAre DEF Naming
  <2>2. Name(n)
    BY <1>2
  <2> HIDE DEF n
  <2>3. QED
    BY <2>1, <2>2, JobNaming
<1>3. QED
  BY <1>1, <1>2

LEMMA CopyVersions ==
  ASSUME SwitchInv, VersionsTell, MakeBackup \/ CopyData
  PROVE  VersionsTell'
<1> DEFINE n == [names EXCEPT !.snapshot = IF MakeBackup THEN "partial" ELSE "whole"]
<1>1. /\ Name(n) /\ UNCHANGED <<enabled, version, touched>> /\ pc'["svc"] = pc["svc"]
      /\ \/ pc["job"] = "backup" /\ pc'["job"] = "copy"
         \/ pc["job"] = "copy" /\ pc'["job"] = "away" /\ n.snapshot = "whole"
  <2>1. CASE MakeBackup
    BY <2>1, JobGoes DEF MakeBackup, At, Then, Goto, unit
  <2>2. CASE ~MakeBackup /\ CopyData
    <3>1. names \in Naming
      BY Within, ProcsAre
    <3>2. n.snapshot = "whole" /\ n = [names EXCEPT !.snapshot = "whole"]
      BY <2>2, <3>1 DEF Naming
    <3>3. QED
      BY <2>2, <3>2, JobGoes DEF CopyData, At, Then, Goto, unit
  <2>3. QED
    BY <2>1, <2>2
<1>2. n \in Naming /\ n.data = names.data /\ n.record = names.record /\ n.inst = inst
  BY Within, ProcsAre DEF Naming, inst
<1> HIDE DEF n
<1>3. names' = n /\ inst' = inst /\ \A m \in kept' : m.inst = "back" => inst' = "back"
  BY <1>1, <1>2, JobNaming
<1>4. InstTells'
  BY <1>1, <1>2, <1>3 DEF VersionsTell, InstTells, Copied, Reversed, Section
<1>5. ServiceTells'
  BY <1>1, <1>2, <1>3 DEF VersionsTell, ServiceTells
<1>6. QED
  BY <1>4, <1>5 DEF VersionsTell

LEMMA MoveVersions ==
  ASSUME SwitchInv, VersionsTell, MoveAway \/ Install
  PROVE  VersionsTell'
<1> DEFINE i == IF MoveAway THEN "away" ELSE "new"
<1>1. /\ Name([names EXCEPT !.inst = i]) /\ UNCHANGED <<enabled, version, touched>> /\ pc'["svc"] = pc["svc"]
      /\ \/ pc["job"] = "away" /\ i = "away" /\ pc'["job"] = "install"
         \/ pc["job"] = "install" /\ i = "new" /\ pc'["job"] = "start"
  BY JobGoes DEF MoveAway, Install, At, Then, Goto, unit
<1>2. i \in Insts /\ inst # "back"
  BY <1>1 DEF Insts, VersionsTell, InstTells
<1> HIDE DEF i
<1>3. /\ inst' = i /\ names'.data = names.data /\ names'.record = names.record /\ names'.snapshot = names.snapshot
      /\ \A m \in kept' : m.inst = "back" => inst' = "back"
  BY <1>1, <1>2, InstNaming
<1>4. InstTells'
  BY <1>1, <1>3 DEF VersionsTell, InstTells, Copied, Reversed, Section
<1>5. ServiceTells'
  BY <1>1, <1>3 DEF VersionsTell, InstTells, ServiceTells
<1>6. QED
  BY <1>4, <1>5 DEF VersionsTell

LEMMA BackVersions ==
  ASSUME SwitchInv, VersionsTell, MoveFailed \/ MoveBack \/ RestoreSnapshot \/ JobEnds
  PROVE  VersionsTell'
<1>0. inst \in Insts /\ names \in Naming
  BY Within, ProcsAre DEF Naming, inst
<1>1. CASE Throw("job")
  BY <1>1, FailsVersions, ProcsAre DEF Throw
<1>2. CASE ~Throw("job")
  <2>1. UNCHANGED <<enabled, version, touched>> /\ pc'["svc"] = pc["svc"]
    BY <1>2, JobGoes DEF MoveFailed, MoveBack, RestoreSnapshot, JobEnds, Then, Goto, job, unit
  <2>2. PICK i \in Insts :
          /\ (UNCHANGED <<names, kept>> /\ i = inst) \/ Name([names EXCEPT !.inst = i])
          /\ \/ pc["job"] = "rbAway" /\ i = (IF inst = "new" THEN "off" ELSE inst) /\ pc'["job"] = "rbRecord"
             \/ /\ pc["job"] = "rbBack"
                /\ i = (IF inst = "off" THEN "back" ELSE IF inst = "away" THEN "before" ELSE inst)
                /\ pc'["job"] = IF inst \in {"new", "off", "back"} THEN "rbRestore" ELSE "rbStart"
             \/ pc["job"] = "rbRestore" /\ i = inst /\ pc'["job"] = "rbRead"
             \/ i = inst /\ pc'["job"] = "over"
    <3>1. CASE MoveFailed
      BY <1>0, <3>1, JobGoes DEF MoveFailed, At, Then, Goto, Insts
    <3>2. CASE MoveBack
      BY <1>0, <3>2, JobGoes DEF MoveBack, At, Then, Goto, Insts, Installed
    <3>3. CASE RestoreSnapshot \/ JobEnds
      BY <1>0, <1>2, <3>3, JobGoes DEF RestoreSnapshot, JobEnds, At, Then, Goto, disk
    <3>4. QED
      BY <3>1, <3>2, <3>3
  <2>3. inst = "back" => i = "back"
    BY <2>2
  <2>4. /\ inst' = i /\ names'.data = names.data /\ names'.record = names.record /\ names'.snapshot = names.snapshot
        /\ \A m \in kept' : m.inst = "back" => inst' = "back"
    BY <2>2, <2>3, InstNaming
  <2>5. InstTells'
    BY <2>1, <2>2, <2>4 DEF VersionsTell, InstTells, Copied, Reversed, Section, Insts
  <2>6. ServiceTells'
    BY <2>1, <2>2, <2>4 DEF VersionsTell, InstTells, ServiceTells, Insts
  <2>7. QED
    BY <2>5, <2>6 DEF VersionsTell
<1>3. QED
  BY <1>1, <1>2

LEMMA RecordVersions ==
  ASSUME SwitchInv, VersionsTell, RecordRestore \/ Republish
  PROVE  VersionsTell'
<1> DEFINE n == [names EXCEPT !.record = TRUE]
<1>0. names \in Naming /\ names \in kept /\ inst \in Insts
  BY Within, ProcsAre DEF Typed, Naming, inst
<1>1. CASE Throw("job")
  BY <1>1, FailsVersions, ProcsAre DEF Throw
<1>2. CASE ~Throw("job")
  <2>1. UNCHANGED <<version, touched, enabled>> /\ pc'["svc"] = pc["svc"]
    BY <1>2, JobGoes DEF RecordRestore, Republish, Then, Goto, job, unit
  <2>2. \/ /\ pc["job"] = "rbRecord" /\ pc'["job"] = "rbBack"
           /\ \/ Installed /\ Durably(n)
              \/ ~(Installed /\ names.snapshot = "whole") /\ UNCHANGED <<names, kept>>
        \/ /\ pc["job"] = "rbRead" /\ pc'["job"] \in {"discard", "take"}
           /\ Durably(n) \/ UNCHANGED <<names, kept>>
    BY <1>2, JobGoes DEF RecordRestore, Republish, At, Then, Goto
  <2>3. CASE Durably(n) /\ ~UNCHANGED <<names, kept>>
    <3>1. n \in Naming /\ n.record /\ n.data = names.data /\ n.inst = inst
      BY <1>0 DEF Naming, inst
    <3>2. Durably(n)
      BY <2>3
    <3> HIDE DEF n
    <3>3. names' = n /\ inst' = inst /\ \A m \in kept' : m.inst = "back" => inst' = "back"
      BY <3>1, <3>2, JobNaming
    <3>4. inst \in {"off", "back"}
      BY <1>0, <2>2, <2>3 DEF VersionsTell, InstTells, Installed, Section, Insts
    <3>5. InstTells'
      BY <2>1, <2>2, <3>1, <3>3, <3>4 DEF VersionsTell, InstTells, Copied, Reversed, Section
    <3>6. ServiceTells'
      BY <2>1, <2>2, <3>1, <3>3 DEF VersionsTell, ServiceTells
    <3>7. QED
      BY <3>5, <3>6 DEF VersionsTell
  <2>4. CASE UNCHANGED <<names, kept>>
    <3>0. inst' = inst
      BY <2>4 DEF inst
    <3>1. pc["job"] = "rbRecord" /\ inst = "off" => Reversed
      BY <1>0, <2>2, <2>4 DEF VersionsTell, InstTells, Copied, Reversed, Installed, Durably, Naming
    <3>2. InstTells'
      BY <1>0, <2>1, <2>2, <2>4, <3>0, <3>1 DEF VersionsTell, InstTells, Copied, Reversed, Section
    <3>3. ServiceTells'
      BY <2>1, <2>2, <2>4, <3>0 DEF VersionsTell, ServiceTells
    <3>4. QED
      BY <3>2, <3>3 DEF VersionsTell
  <2>5. QED
    BY <2>2, <2>3, <2>4
<1>3. QED
  BY <1>1, <1>2

LEMMA StartOldVersions ==
  ASSUME SwitchInv, VersionsTell, StartOld
  PROVE  VersionsTell'
<1> DEFINE n == [names EXCEPT !.snapshot = IF @ = "partial" THEN None ELSE @]
<1>1. Name(n) /\ UNCHANGED <<version, touched>> /\ pc'["job"] = "finish" /\ pc'["svc"] = pc["svc"]
      /\ pc["job"] = "rbStart"
  BY JobGoes DEF StartOld, At, Then, Goto
<1>2. /\ n \in Naming /\ n.data = names.data /\ n.record = names.record /\ n.inst = inst
      /\ (names.snapshot = "whole" => n.snapshot = "whole")
  BY Within, ProcsAre DEF Naming, inst
<1> HIDE DEF n
<1>3. names' = n /\ inst' = inst /\ \A m \in kept' : m.inst = "back" => inst' = "back"
  BY <1>1, <1>2, JobNaming
<1>4. InstTells'
  BY <1>1, <1>2, <1>3 DEF VersionsTell, InstTells, Copied, Reversed, Section
<1>5. ServiceTells'
  BY <1>1, <1>2, <1>3 DEF VersionsTell, ServiceTells
<1>6. QED
  BY <1>4, <1>5 DEF VersionsTell

-----------------------------------------------------------------------------
(* The versions, step by step.                                             *)

\* An owner's start and a cut that took the update back end what is said.
Loosed == OwnerActed \/ "install" \in taken

VersionInv == SwitchInv /\ (Loosed \/ VersionsTell \/ NeverOld)

\* What happened is not forgotten.
LEMMA EventsGrow ==
  ASSUME SwitchInv, [ServerNext]_serverVars, OwnerActed
  PROVE  OwnerActed'
<1>1. ASSUME NEW a, Happens(a)
      PROVE  OwnerActed'
  <2>1. events' = [events EXCEPT ![a] = @ + 1] /\ events \in [Acts -> Nat]
    BY <1>1, HappensIs DEF SwitchInv, Typed, ServerTypeOK
  <2>2. events'["owner"] > 0
    BY <2>1 DEF OwnerActed
  <2>3. QED
    BY <2>2 DEF OwnerActed
<1>2. CASE UNCHANGED events
  BY <1>2 DEF OwnerActed
<1>3. CASE Job
  <2>1. CASE Restore("job")
    BY <1>2, <2>1 DEF Restore, Take, Check, MoveTree, Mark, Flush, Seal, MoveStores, Aside, Swap, Relock, Forget, Discard,
       Throw
  <2>2. CASE ~Restore("job")
    BY <1>2, <1>3, <2>2 DEF Job, StopService, MakeBackup, CopyData, MoveAway, Install, StartNew, Healthy, Unhealthy,
       Recover, RollBack, MoveFailed, RecordRestore, MoveBack, RestoreSnapshot, Republish, StartOld, JobEnds, Throw
  <2>3. QED
    BY <2>1, <2>2
<1>4. ASSUME NEW p \in Cores, CoreStep(p)
      PROVE  UNCHANGED events
  BY <1>4 DEF CoreStep, Start, Restore, Look, Prepare, Note, LockData, Recheck, Stat, Maintain, ReadRecord,
       Take, Check, MoveTree, Mark, Flush, Seal, MoveStores, Aside, Swap, Relock, Forget, Discard, Throw
<1>5. CASE ServiceStarts \/ AdmittedExits \/ \E p \in Hands : HandStops(p)
  BY <1>2, <1>5 DEF ServiceStarts, AdmittedExits, HandStops
<1>6. CASE Disturbed
  BY <1>1, <1>6 DEF Disturbed, OwnerStarts, PowerCut, HandStarts, DiskFails, Kill
<1>7. QED
  BY <1>2, <1>3, <1>4, <1>5, <1>6 DEF ServerNext, serverVars

LEMMA TakenGrows ==
  ASSUME [ServerNext]_serverVars
  PROVE  taken \subseteq taken'
<1>1. CASE UNCHANGED taken
  BY <1>1
<1>2. ASSUME NEW p \in Procs, Restore(p)
      PROVE  taken' = taken
  BY <1>2 DEF Restore, Take, Check, MoveTree, Mark, Flush, Seal, MoveStores, Aside, Swap, Relock, Forget, Discard,
     Throw, Fails, disk
<1>3. CASE Job
  <2>1. CASE Restore("job")
    BY <1>2, <2>1, ProcsAre
  <2>2. CASE ~Restore("job")
    BY <1>3, <2>2 DEF Job, StopService, MakeBackup, CopyData, MoveAway, Install, StartNew, Healthy, Unhealthy,
       Recover, RollBack, MoveFailed, RecordRestore, MoveBack, RestoreSnapshot, Republish, StartOld, JobEnds,
       Throw, Fails, disk
  <2>3. QED
    BY <2>1, <2>2
<1>4. ASSUME NEW p \in Cores, CoreStep(p)
      PROVE  taken' = taken
  BY <1>2, <1>4, ProcsAre DEF CoreStep, Start, Look, Prepare, Note, LockData, Recheck, Stat, Maintain, ReadRecord,
     Throw, Fails, disk
<1>5. CASE ServiceStarts \/ AdmittedExits \/ \E p \in Hands : HandStops(p)
  BY <1>5 DEF ServiceStarts, Boot, AdmittedExits, HandStops, disk
<1>6. CASE Disturbed
  BY <1>6 DEF Disturbed, OwnerStarts, PowerCut, HandStarts, Boot, DiskFails, Fails, Kill, disk
<1>7. QED
  BY <1>1, <1>3, <1>4, <1>5, <1>6 DEF ServerNext, serverVars, disk

LEMMA OwnerIs ==
  ASSUME SwitchInv, OwnerStarts
  PROVE  OwnerActed'
<1>1. Happens("owner")
  BY DEF OwnerStarts
<1>2. "owner" \in Acts /\ events' = [events EXCEPT !["owner"] = @ + 1] /\ events \in [Acts -> Nat]
  BY <1>1, HappensIs DEF SwitchInv, Typed, ServerTypeOK
<1>3. events'["owner"] > 0
  BY <1>2
<1>4. QED
  BY <1>2, <1>3 DEF OwnerActed

LEMMA NewOrNone ==
  ASSUME NeverOld, pc'["job"] = "over", pc'["svc"] # "off" => pc["svc"] # "off", version' = version,
         \A m \in kept' : \E k \in kept : m.inst = k.inst
  PROVE  NeverOld'
  BY DEF NeverOld

\* After such a cut the service does not come to run the previous version.
LEMMA NeverOldStep ==
  ASSUME SwitchInv, SwitchInv', NeverOld, [ServerNext]_serverVars
  PROVE  NeverOld'
<1> USE ProcsAre
<1>0. DOMAIN pc = Procs /\ pc["job"] = "over" /\ names \in kept /\ inst \in {"away", "new", "off"}
  BY Within, ProcsAre DEF SwitchInv, Typed, NeverOld, inst
<1>1. CASE UNCHANGED serverVars
  BY <1>1, NewOrNone DEF NeverOld, serverVars, disk, procs, unit
<1>2. ~Job
  BY <1>0 DEF Job, StopService, MakeBackup, CopyData, MoveAway, Install, StartNew, Healthy, Unhealthy, Recover,
     RollBack, MoveFailed, RecordRestore, MoveBack, RestoreSnapshot, Republish, StartOld, JobEnds, At,
     Restore, Take, Check, MoveTree, Mark, Flush, Seal, MoveStores, Aside, Swap, Relock, Forget, Discard
<1>3. ASSUME NEW p \in Cores, CoreStep(p)
      PROVE  NeverOld'
  <2>1. version' = version /\ (\A m \in kept' : \E k \in kept : m.inst = k.inst) /\ pc'["job"] = "over"
    BY <1>0, <1>3, CoreStepIs DEF TellsOn
  <2>2. pc'["svc"] # "off" => pc["svc"] # "off"
    BY <1>3, CoreStepIs
  <2>3. QED
    BY <2>1, <2>2, NewOrNone
<1>4. CASE ServiceStarts
  <2>1. pc' = [pc EXCEPT !["svc"] = "look"] /\ kept' = kept /\ inst = "new" /\ version' = "new"
    BY <1>0, <1>4 DEF ServiceStarts, Boot, Goto, RootThere, disk
  <2>2. QED
    BY <1>0, <2>1 DEF NeverOld
<1>5. ASSUME NEW p \in Hands, HandStarts(p) \/ HandStops(p)
      PROVE  NeverOld'
  <2>1. p \in Cores /\ p # "svc" /\ p # "job"
    BY HandsAreOthers DEF Cores
  <2>2. kept' = kept /\ version' = version /\ \E l \in {"look", "off"} : pc' = [pc EXCEPT ![p] = l]
    BY <1>5, <2>1 DEF HandStarts, HandStops, Boot, Goto, disk, unit
  <2>3. QED
    BY <1>0, <2>1, <2>2, NewOrNone
<1>6. CASE AdmittedExits
  BY <1>0, <1>6, NewOrNone DEF AdmittedExits, Goto, disk
<1>7. CASE OwnerStarts
  BY <1>0, <1>7, NewOrNone DEF OwnerStarts, disk, procs
<1>8. ASSUME NEW p \in Procs, DiskFails(p)
      PROVE  NeverOld'
  <2>1. p # "job" /\ Fails(p)
    BY <1>0, <1>8 DEF DiskFails
  <2>2. pc'["job"] = pc["job"] /\ pc'["svc"] \in {pc["svc"], "off"}
    BY <2>1, FailsLeaves
  <2>3. kept' = kept /\ version' = version
    BY <2>1 DEF Fails, disk, unit
  <2>4. QED
    BY <1>0, <2>2, <2>3, NewOrNone
<1>9. ASSUME NEW p \in Procs, Kill(p)
      PROVE  NeverOld'
  <2>1. p # "job" /\ pc' = [pc EXCEPT ![p] = "off"] /\ kept' = kept /\ version' = version
    BY <1>0, <1>9 DEF Kill, Goto, Gone, disk
  <2>2. QED
    BY <1>0, <2>1, NewOrNone
<1>10. CASE PowerCut
  <2>1. pc' = [p \in Procs |-> IF p = "job" \/ ~flushes THEN "over" ELSE "off"] /\ version' = version
    BY <1>10 DEF PowerCut
  <2>2. pc'["svc"] # "over"
    BY DEF SwitchInv, Typed, Labels, Maintained, Section, AtRest
  <2>3. pc'["job"] = "over" /\ pc'["svc"] = "off"
    BY <2>1, <2>2
  <2>4. PICK n \in kept : kept' = {n}
    BY <1>10 DEF PowerCut
  <2>5. QED
    BY <2>1, <2>3, <2>4, NewOrNone
<1>11. QED
  BY <1>1, <1>2, <1>3, <1>4, <1>5, <1>6, <1>7, <1>8, <1>9, <1>10 DEF ServerNext, Disturbed

LEMMA VersionStep ==
  ASSUME VersionInv, [ServerNext]_serverVars
  PROVE  VersionInv' \/ Over'
<1> USE ProcsAre
<1>1. SwitchInv /\ (SwitchInv' \/ Over')
  BY SwitchStep DEF VersionInv
<1>2. CASE Loosed /\ SwitchInv'
  BY <1>1, <1>2, EventsGrow, TakenGrows DEF VersionInv, Loosed
<1>3. CASE NeverOld /\ SwitchInv'
  BY <1>1, <1>3, NeverOldStep DEF VersionInv
<1>4. CASE OwnerStarts /\ SwitchInv'
  BY <1>1, <1>4, OwnerIs DEF VersionInv, Loosed
<1>5. CASE PowerCut /\ SwitchInv' /\ VersionsTell
  <2>1. CASE flushes
    BY <1>1, <1>5, <2>1, CutVersions DEF VersionInv, Loosed
  <2>2. CASE ~flushes
    <3>1. pc'["svc"] = "over"
      BY <1>5, <2>2 DEF PowerCut
    <3>2. QED
      BY <1>5, <3>1 DEF SwitchInv, Typed, Labels, Maintained, Section, AtRest
  <2>3. QED
    BY <2>1, <2>2
<1>6. CASE VersionsTell /\ SwitchInv' /\ ~OwnerStarts /\ ~PowerCut
  <2>0. SUFFICES VersionsTell'
    BY <1>6 DEF VersionInv
  <2>1. CASE UNCHANGED serverVars
    BY <1>6, <2>1 DEF VersionsTell, InstTells, ServiceTells, Copied, Reversed, inst, serverVars, disk, procs, job, unit
  <2>2. CASE Job
    BY <1>1, <1>6, <2>2, StopVersions, CopyVersions, MoveVersions, EndsVersions, BackVersions, RecordVersions,
       StartOldVersions, JobRestoreVersions DEF Job
  <2>3. CASE Disturbed
    <3>1. ASSUME NEW p \in Hands, HandStarts(p)
          PROVE  VersionsTell'
      <4>1. Boot(p) /\ p \in Cores /\ p # "svc"
        BY <3>1, HandsAreOthers DEF HandStarts, Cores
      <4>2. QED
        BY <1>1, <1>6, <4>1, BootVersions
    <3>2. ASSUME NEW p \in Procs, DiskFails(p)
          PROVE  VersionsTell'
      BY <1>1, <1>6, <3>2, FailsVersions DEF DiskFails
    <3>3. QED
      BY <1>1, <1>6, <2>3, <3>1, <3>2, EndsVersions DEF Disturbed
  <2>4. CASE ServiceStarts
    BY <1>1, <1>6, <2>4, BootVersions DEF ServiceStarts
  <2>5. ASSUME NEW p \in Cores, CoreStep(p)
        PROVE  VersionsTell'
    BY <1>1, <1>6, <2>5, CoreVersions
  <2>6. CASE AdmittedExits \/ \E p \in Hands : HandStops(p)
    BY <1>1, <1>6, <2>6, EndsVersions
  <2>7. QED
    BY <1>6, <2>1, <2>2, <2>3, <2>4, <2>5, <2>6 DEF ServerNext
<1>7. QED
  BY <1>1, <1>2, <1>3, <1>4, <1>5, <1>6 DEF VersionInv

(* rollBack: the previous version of the service never runs on a directory *)
(* the new one ran on, unless the owner started the service meanwhile or a *)
(* power cut took the update of the installation back.                     *)
THEOREM OldOpensOldAlways == ServerSpec => []OldOpensOld
<1>1. ServerInit => VersionInv
  <2>1. SUFFICES ASSUME ServerInit
                 PROVE  SwitchInv /\ VersionsTell
    BY DEF VersionInv
  <2>2. SwitchInv
    BY <2>1, SwitchStart
  <2>3. /\ pc["job"] = "stop" /\ pc["svc"] = "run" /\ inst = "before" /\ version = "old" /\ touched = {}
        /\ ~names.record /\ names.data = "live" /\ kept = {names}
    BY <2>1, ProcsAre DEF ServerInit, inst
  <2>4. \A n \in kept : n.inst = "back" => inst = "back"
    BY <2>3 DEF inst
  <2>5. QED
    BY <2>2, <2>3, <2>4 DEF VersionsTell, InstTells, ServiceTells, Reversed, Section
<1>2. VersionInv => OldOpensOld
  <2>1. SUFFICES ASSUME VersionInv, VersionsTell \/ NeverOld, Serves("svc"), version = "old"
                 PROVE  names.data \notin touched
    BY DEF VersionInv, Loosed, OldOpensOld, OpensOld
  <2>2. VersionsTell
    BY <2>1 DEF NeverOld, Serves
  <2>3. pc["svc"] = "run" /\ pc["svc"] # "off" /\ touched \subseteq {"live"}
    BY <2>1, <2>2 DEF Serves, VersionsTell, ServiceTells
  <2>4. CASE touched # {}
    <3>1. inst = "back"
      BY <2>1, <2>2, <2>3, <2>4 DEF VersionsTell, ServiceTells
    <3>2. names.data = "copy"
      BY <2>2, <2>3, <3>1 DEF VersionsTell, ServiceTells
    <3>3. QED
      BY <2>3, <3>2
  <2>5. QED
    BY <2>4
<1>3. Over => OldOpensOld
  BY ProcsAre DEF Over, OldOpensOld, OpensOld, Serves
<1>4. (VersionInv \/ Over) /\ [ServerNext]_serverVars => (VersionInv \/ Over)'
  BY VersionStep, OverStep
<1>5. QED
  BY <1>1, <1>2, <1>3, <1>4, PTL DEF ServerSpec
=============================================================================
