--------------------------- MODULE PlannedResumes ---------------------------
(***************************************************************************)
(* The resumes the core plans by itself for one conversation: after a      *)
(* usage limit (threads/limit-resume.ts), and after a turn that stopped    *)
(* before its answer (threads/auto-continue.ts).  ResumePlanner            *)
(* (threads/resume.ts) journals one plan with the row of resumes, arms a   *)
(* timer, and checks everything again when it fires.  The two other ways a *)
(* cut turn goes on, a user's prompt and the continuation of a restart     *)
(* handoff, are here as far as they meet a plan; TurnLifecycle has them    *)
(* whole.                                                                  *)
(*                                                                         *)
(* A firing timer writes the journal three times in one synchronous call:  *)
(* the plan marked, the turn admitted (and perhaps started), the row       *)
(* settled.  Only a crash falls between them.                              *)
(***************************************************************************)
EXTENDS Naturals, Sequences, FiniteSets

CONSTANTS
  MaxStreak,   \* AUTO_CONTINUE.delaysMs.length: carry-on resumes in a row
  MaxTurns,    \* bound: turns of the conversation
  MaxWindow,   \* bound: usage windows that pass
  MaxCores,    \* bound: cores started; the last one stays up
  MaxActs,     \* bound: what the user does besides writing prompts
  Ops,         \* what opens a turn, besides a resume: "user", "wake", "ping"
  Outcomes,    \* how an agent may end a turn by itself
  Handoffs     \* the core may hand over instead of stopping

ASSUME BoundsAssumption ==
  /\ MaxStreak \in Nat \ {0} /\ MaxTurns \in Nat /\ MaxWindow \in Nat /\ MaxCores \in Nat /\ MaxActs \in Nat
  /\ Ops \subseteq {"user", "wake", "ping"} /\ Handoffs \in BOOLEAN
  /\ Outcomes \subseteq {"done", "compacted", "error", "limit", "refused"}

VARIABLES
  turns,     \* the turn rows: op, status, the turn a resume continues, who planned it
  archived,
  selection, \* provider, account, model and session generation of the thread
  optIn,     \* autoResumeLimitedThreads
  entry,     \* the thread's row in the `resumes' setting
  onPurpose, \* the `auto-continue-stopped' setting
  work,      \* work left to go on alone (background, a team): "none", "live", "lost"
  rec,       \* turns of the `restart-handoff' setting: cut ones to continue, queued ones
  core,
  cut,       \* previousRunCut, read before recovery
  crashed,   \* #crashed
  cutWork,   \* the last core's death interrupted such work
  todo,      \* the entries RestartHandoff.resume has yet to look at
  timer,     \* the plan's timer is armed
  firing,    \* the stage of #fire, and what it sent
  after,     \* the turn whose end the runner has committed and not finished
  reading,   \* turns whose spentWindowReset is being read
  window,    \* the usage window the clock is in
  cores,     \* cores started
  acts,      \* what the user did besides writing
  past       \* history: what the user and the owner decided, and the row

journal == <<turns, archived, selection, optIn, entry, onPurpose, work, rec>>
memory  == <<cut, crashed, cutWork, todo, timer, firing, after, reading>>
vars == <<journal, core, memory, window, cores, acts, past>>

Turns   == 1..MaxTurns
Windows == 1..MaxWindow
NoPlan  == [reason |-> "none", turn |-> 0, window |-> 0, selection |-> 0, out |-> FALSE]
NoEntry == [plan |-> NoPlan, streak |-> 0, handled |-> 0, sent |-> 0, window |-> 0]
NotFiring == [at |-> "no", turn |-> 0]
Failed == {"error", "told"}   \* told: closed with "Boite resumes it"
Ended  == Failed \union {"done", "stopped"}

Planned == entry.plan # NoPlan
Rows    == 1..Len(turns)
Active  == {t \in Rows : turns[t].status \notin Ended}
Running == {t \in Rows : turns[t].status = "running"}
Busy    == Active # {}

\* The latest turn that is not a cache ping.
LastTurn ==
  LET real == {t \in Rows : turns[t].op # "ping"}
  IN IF real = {} THEN 0 ELSE CHOOSE t \in real : \A u \in real : u <= t

Eligible(t) == ~archived /\ turns[t].op \in {"user", "resume"}

-----------------------------------------------------------------------------
(* The row of resumes: how each operation of the planner rewrites it.      *)

Without(e) == [e EXCEPT !.plan = NoPlan]
Forgotten(e) == IF e.plan.out THEN e ELSE [NoEntry EXCEPT !.window = e.window]
Cancelled(e) ==
  IF e.plan = NoPlan \/ e.plan.out THEN e
  ELSE [Without(e) EXCEPT !.handled = e.plan.turn]

\* Mutant of Settled: a resume that was sent is not counted.
SettledUncounted(e, sent) ==
  LET rest == [Without(e) EXCEPT !.handled = e.plan.turn]
  IN IF e.plan.reason = "limit" THEN [rest EXCEPT !.window = e.plan.window]
     ELSE IF sent = 0 THEN rest ELSE [rest EXCEPT !.sent = sent]

\* Once a plan went out, failed to (sent = 0) or may have.
Settled(e, sent) ==
  LET rest == [Without(e) EXCEPT !.handled = e.plan.turn]
  IN IF e.plan.reason = "limit" THEN [rest EXCEPT !.window = e.plan.window]
     ELSE IF sent = 0 THEN rest
     ELSE [rest EXCEPT !.streak = @ + 1, !.sent = sent]

Scheduled(e, t, reason, w) ==
  [e EXCEPT !.handled = t,
            !.plan = [reason |-> reason, turn |-> t, window |-> w,
                      selection |-> IF reason = "limit" THEN turns[t].selection ELSE 0,
                      out |-> FALSE]]

\* Mutant of CarryOn: a turn that was planned for is planned for again.
CarryOnAgain(e, t) ==
  IF e.streak >= MaxStreak THEN [NoEntry EXCEPT !.handled = t, !.window = e.window]
  ELSE Scheduled(e, t, "carry", 0)

\* Mutant of CarryOn: one resume more than there are delays.
CarryOnOneMore(e, t) ==
  IF e.handled = t THEN e
  ELSE IF e.streak > MaxStreak THEN [NoEntry EXCEPT !.handled = t, !.window = e.window]
  ELSE Scheduled(e, t, "carry", 0)

\* A carry-on plan for t, the end of the row, or nothing.
CarryOn(e, t) ==
  IF e.handled = t THEN e
  ELSE IF e.streak >= MaxStreak THEN [NoEntry EXCEPT !.handled = t, !.window = e.window]
  ELSE Scheduled(e, t, "carry", 0)

\* A usage limit's plan for t, which the agent or the quota says resets at w.
\* The clock is in `window': a reset before it is expired.
LimitPlan(e, t, w) ==
  IF w < window \/ w = e.window \/ archived \/ LastTurn # t THEN e
  ELSE Scheduled(e, t, "limit", w)

\* A plan is armed where it is made, and disarmed where it is dropped.
Write(e) == /\ entry' = e
            /\ timer' = (e.plan # NoPlan /\ ~e.plan.out)

-----------------------------------------------------------------------------
Init ==
  /\ turns = <<>> /\ archived = FALSE /\ selection = 1 /\ optIn = TRUE
  /\ entry = NoEntry /\ onPurpose = FALSE /\ work = "none" /\ rec = {}
  /\ core = "up" /\ cut = FALSE /\ crashed = 0 /\ cutWork = FALSE /\ todo = {} /\ timer = FALSE
  /\ firing = NotFiring /\ after = [turn |-> 0, outcome |-> "none"] /\ reading = {}
  /\ window = 1 /\ cores = 1 /\ acts = 0
  /\ past = [stopped |-> {}, cancelled |-> {}, onPurpose |-> {}, row |-> 0, lost |-> 0]

NoAfter == [turn |-> 0, outcome |-> "none"]
Free == core = "up" /\ firing = NotFiring

Row(op, of, by) ==
  [op |-> op, status |-> "queued", of |-> of, by |-> by, selection |-> selection]

\* The history counts carry-on resumes until the code says their row is over.
NewRow == [past EXCEPT !.row = 0, !.lost = 0]
Gives(e, t) == e.handled # t /\ e.streak >= MaxStreak

-----------------------------------------------------------------------------
(* Turns                                                                   *)

\* startTurn, for a prompt, a coordination wake or a cache ping.
Admit(op) ==
  /\ Free /\ op \in Ops
  /\ Len(turns) < MaxTurns /\ ~archived /\ ~Busy
  /\ turns' = Append(turns, Row(op, 0, "none"))
  /\ UNCHANGED <<archived, selection, optIn, entry, onPurpose, work, rec, core, memory, window, cores, acts, past>>

\* The scheduler starts the turn once the slot is free; #turnStarted hears of it.
Starts(t) ==
  /\ core = "up" /\ firing.at \in {"no", "sent"}
  /\ t \in Active \ Running /\ after = NoAfter
  /\ turns' = [turns EXCEPT ![t].status = "running"]
  /\ rec' = rec \ (IF turns[t].by = "handoff" THEN {t, turns[t].of} ELSE {t})
  /\ work' = IF work = "lost" THEN "none" ELSE work
  /\ CASE turns[t].op = "ping" -> UNCHANGED <<entry, timer>>
       [] turns[t].op = "user" -> Write(Forgotten(entry))
       [] OTHER                -> Write(Cancelled(entry))
  /\ past' = CASE turns[t].op = "user"  -> NewRow
              [] turns[t].by = "carry" -> [past EXCEPT !.row = @ + 1]
              [] OTHER                 -> past
  /\ UNCHANGED <<archived, selection, optIn, onPurpose, core, cut, crashed, cutWork, todo, firing, after, reading, window, cores, acts>>

StatusOf(outcome) ==
  CASE outcome \in {"done", "compacted"} -> "done"
    [] outcome = "stopped" -> "stopped"
    [] OTHER -> "error"

\* The settlement commits.  A stopped turn was stopped by the user, by a plan
\* that a ping gave way to, or by a core that ends.
TurnEnds(t, outcome) ==
  /\ core \in {"up", "stopping"} /\ firing = NotFiring
  /\ t \in Running
  /\ IF t \in past.stopped THEN outcome = "stopped"
     ELSE outcome \in Outcomes \/ (core = "stopping" /\ outcome = "stopped")
  /\ turns' = [turns EXCEPT ![t].status = StatusOf(outcome)]
  /\ work' \in IF outcome \in {"done", "error"} THEN {"none", "live"} ELSE {work}
  /\ after' = [turn |-> t, outcome |-> outcome]
  /\ rec' = IF core = "stopping" /\ outcome # "stopped" THEN rec \ {t} ELSE rec
  /\ past' = IF onPurpose /\ outcome = "stopped" THEN [past EXCEPT !.onPurpose = @ \union {t}] ELSE past
  /\ UNCHANGED <<archived, selection, optIn, entry, onPurpose, core, cut, crashed, cutWork, todo, timer, firing, reading, window, cores, acts>>

\* What turnFinished makes of the row.
AfterEnd(t, outcome) ==
  CASE outcome = "stopped"   -> Forgotten(entry)
    [] outcome = "compacted" -> CarryOn(entry, t)
    [] outcome = "done"      ->
         LET e == IF entry.sent = t THEN entry ELSE Forgotten(entry)
         IN IF work = "lost" /\ e.plan = NoPlan THEN CarryOn(e, t) ELSE e
    [] outcome = "error"     -> CarryOn(entry, t)
    [] OTHER                 -> entry

EndsRow(t, outcome) ==
  \/ outcome = "stopped" \/ (outcome = "done" /\ entry.sent # t)
  \/ Gives(entry, t) /\ (outcome \in {"compacted", "error"} \/ (outcome = "done" /\ work = "lost" /\ ~Planned))

\* The slot is free again; limitResumes.turnFailed, then autoContinue.turnFinished.
\* A limit the agent gave a reset for is planned here, another is read first.
Finished ==
  LET t == after.turn IN
  /\ core \in {"up", "stopping"} /\ firing = NotFiring /\ after # NoAfter
  /\ after' = NoAfter
  /\ IF core = "stopping" \/ ~Eligible(t)
     THEN UNCHANGED <<entry, timer, reading, past>>
     ELSE IF after.outcome = "limit" /\ optIn
     THEN /\ past' = past
          /\ \/ reading' = reading \union {t} /\ UNCHANGED <<entry, timer>>
             \/ \E w \in Windows : Write(LimitPlan(entry, t, w)) /\ UNCHANGED reading
     ELSE /\ Write(AfterEnd(t, after.outcome))
          /\ past' = IF EndsRow(t, after.outcome) THEN NewRow ELSE past
          /\ UNCHANGED reading
  /\ UNCHANGED <<turns, archived, selection, optIn, onPurpose, work, rec, core, cut, crashed, cutWork, todo, firing, window, cores, acts>>

\* The account's quota was read: the latest spent window, or none.
QuotaRead(t) ==
  /\ Free /\ t \in reading
  /\ reading' = reading \ {t}
  /\ \/ UNCHANGED <<entry, timer>>
     \/ \E w \in Windows : Write(LimitPlan(entry, t, w))
  /\ UNCHANGED <<turns, archived, selection, optIn, onPurpose, work, rec, core, cut, crashed, cutWork, todo, firing, after, window, cores, acts, past>>

\* Background work ended without waking its agent, or an update of the agent
\* ended it (#watchBackground, resumeCut): a thread at rest is resumed.
BackgroundLost ==
  LET t == LastTurn
      plans == ~Busy /\ turns[t].status = "done" /\ Eligible(t) /\ ~Planned
  IN
  /\ Free /\ work = "live" /\ t # 0
  /\ work' = IF Busy THEN "none" ELSE "lost"
  /\ IF plans THEN Write(CarryOn(entry, t)) ELSE UNCHANGED <<entry, timer>>
  /\ past' = IF plans /\ Gives(entry, t) THEN NewRow ELSE past
  /\ UNCHANGED <<turns, archived, selection, optIn, onPurpose, rec, core, cut, crashed, cutWork, todo, firing, after, reading, window, cores, acts>>

-----------------------------------------------------------------------------
(* The user                                                                *)

\* Turns whose end is not yet worked through.
InEnd == reading \union (IF after = NoAfter THEN {} ELSE {after.turn})
PlanTurn == (IF Planned THEN {entry.plan.turn} ELSE {}) \ (InEnd \union Active)

Acts == Free /\ acts < MaxActs /\ acts' = acts + 1

\* stopTurn: the plan, what the handoff kept, and the open turn; or the agent,
\* and with it the work it left.
Stop ==
  /\ Acts /\ (Busy \/ Planned \/ rec # {} \/ InEnd # {} \/ work = "live")
  /\ Write(Cancelled(entry)) /\ rec' = {} /\ todo' = {}
  /\ turns' = [t \in Rows |-> IF t \in Active \ Running
                              THEN [turns[t] EXCEPT !.status = "stopped"] ELSE turns[t]]
  /\ past' = [past EXCEPT !.stopped = @ \union Active,
                          !.cancelled = @ \union PlanTurn \union rec]
  /\ work' = IF Busy THEN work ELSE "none"
  /\ UNCHANGED <<archived, selection, optIn, onPurpose, core, cut, crashed, cutWork, firing, after, reading, window, cores>>

CancelRetry ==
  /\ Acts /\ Planned
  /\ Write(Cancelled(entry))
  /\ past' = [past EXCEPT !.cancelled = @ \union PlanTurn]
  /\ UNCHANGED <<turns, archived, selection, optIn, onPurpose, work, rec, core, cut, crashed, cutWork, todo, firing, after, reading, window, cores>>

\* An archive stops the open turn; the committed row cancels the plan.
Archive ==
  /\ Acts /\ ~archived /\ Rows # {}
  /\ archived' = TRUE
  /\ Write(Cancelled(entry))
  /\ turns' = [t \in Rows |-> IF t \in Active \ Running
                              THEN [turns[t] EXCEPT !.status = "stopped"] ELSE turns[t]]
  /\ past' = [NewRow EXCEPT !.stopped = @ \union Active,
                            !.cancelled = @ \union PlanTurn]
  /\ work' = "none"
  /\ UNCHANGED <<selection, optIn, onPurpose, rec, core, cut, crashed, cutWork, todo, firing, after, reading, window, cores>>

Unarchive ==
  /\ Free /\ archived
  /\ archived' = FALSE
  /\ past' = [past EXCEPT !.cancelled = {}]   \* a thread brought back may go on
  /\ UNCHANGED <<turns, selection, optIn, entry, onPurpose, work, rec, core, memory, window, cores, acts>>

\* Another account, model or provider, or a new session.
Select ==
  /\ Acts /\ selection = 1 /\ (reading # {} \/ entry.plan.reason = "limit")
  /\ selection' = 2
  /\ UNCHANGED <<turns, archived, optIn, entry, onPurpose, work, rec, core, memory, window, cores, past>>

\* autoResumeLimitedThreads turned off.
OptOut ==
  /\ Acts /\ optIn
  /\ optIn' = FALSE
  /\ IF entry.plan.reason = "limit"
     THEN /\ Write(Cancelled(entry))
          /\ past' = [past EXCEPT !.cancelled = @ \union PlanTurn]
     ELSE UNCHANGED <<entry, timer, past>>
  /\ UNCHANGED <<turns, archived, selection, onPurpose, work, rec, core, cut, crashed, cutWork, todo, firing, after, reading, window, cores>>

-----------------------------------------------------------------------------
(* A plan fires                                                            *)

WindowPasses ==
  /\ window < MaxWindow
  /\ window' = window + 1
  /\ UNCHANGED <<journal, core, memory, cores, acts, past>>

Pinging == {t \in Active : turns[t].op = "ping"}

\* The checks of #refusal that read the state kept here; a pending card and a
\* team the user paused refuse at any time.
Refused(p) ==
  \/ archived \/ Busy \/ LastTurn # p.turn
  \/ p.reason = "limit" /\ (~optIn \/ turns[p.turn].status \notin Failed \/ p.selection # selection)

\* A minute or more after it was made: the end it was made at is worked through.
Due == /\ Free /\ timer /\ Planned /\ after = NoAfter
       /\ entry.plan.reason = "limit" => window >= entry.plan.window

\* Mutant of FireYields: the timer fired and is not set again.
FireYieldsOnce ==
  /\ Due /\ Pinging # {} /\ Pinging \cap past.stopped = {}
  /\ turns' = [t \in Rows |-> IF t \in Pinging \ Running
                              THEN [turns[t] EXCEPT !.status = "stopped"] ELSE turns[t]]
  /\ past' = [past EXCEPT !.stopped = @ \union Pinging]
  /\ timer' = FALSE
  /\ UNCHANGED <<archived, selection, optIn, entry, onPurpose, work, rec, core, cut, crashed, cutWork, todo, firing, after, reading, window, cores, acts>>

\* A ping in the way is stopped, once, and the timer set again.
FireYields ==
  /\ Due /\ Pinging # {} /\ Pinging \cap past.stopped = {}
  /\ turns' = [t \in Rows |-> IF t \in Pinging \ Running
                              THEN [turns[t] EXCEPT !.status = "stopped"] ELSE turns[t]]
  /\ past' = [past EXCEPT !.stopped = @ \union Pinging]
  /\ UNCHANGED <<archived, selection, optIn, entry, onPurpose, work, rec, core, memory, window, cores, acts>>

FireRefused(card) ==
  /\ Due /\ Pinging = {}
  /\ Refused(entry.plan) \/ card
  /\ Write(Cancelled(entry))
  /\ UNCHANGED <<turns, archived, selection, optIn, onPurpose, work, rec, core, cut, crashed, cutWork, todo, firing, after, reading, window, cores, acts, past>>

FireMarks ==
  /\ Due /\ Pinging = {} /\ ~Refused(entry.plan)
  /\ Write([entry EXCEPT !.plan.out = TRUE])
  /\ firing' = [at |-> "marked", turn |-> 0]
  /\ UNCHANGED <<turns, archived, selection, optIn, onPurpose, work, rec, core, cut, crashed, cutWork, todo, after, reading, window, cores, acts, past>>

\* Turns admitted under one request id are one.
Requested(of, by) == {t \in Rows : turns[t].of = of /\ turns[t].by = by}

\* startTurn under the plan's request id; it may refuse.  (A second call of one
\* plan would return the first turn: an entry that went out is not fired again.)
FireStarts ==
  /\ core = "up" /\ firing.at = "marked"
  /\ LET p == entry.plan IN
     \/ /\ Requested(p.turn, p.reason) = {} /\ Len(turns) < MaxTurns
        /\ turns' = Append(turns, Row("resume", p.turn, p.reason))
        /\ firing' = [at |-> "sent", turn |-> Len(turns) + 1]
     \/ firing' = [at |-> "sent", turn |-> 0] /\ UNCHANGED turns
  /\ UNCHANGED <<archived, selection, optIn, entry, onPurpose, work, rec, core, cut, crashed, cutWork, todo, timer, after, reading, window, cores, acts, past>>

FireSettles ==
  /\ core = "up" /\ firing.at = "sent"
  /\ Write(Settled(entry, firing.turn))
  /\ firing' = NotFiring
  /\ UNCHANGED <<turns, archived, selection, optIn, onPurpose, work, rec, core, cut, crashed, cutWork, todo, after, reading, window, cores, acts, past>>

-----------------------------------------------------------------------------
(* The core stops, dies and starts                                         *)

\* core.shutdown, SIGINT, POST /shutdown; every timer is cleared.
ShutDown ==
  /\ Free /\ cores < MaxCores
  /\ core' = "stopping" /\ onPurpose' = TRUE /\ timer' = FALSE
  /\ UNCHANGED <<turns, archived, selection, optIn, entry, work, rec, cut, crashed, cutWork, todo, firing, after, reading, window, cores, acts, past>>

\* A restart that hands over: the open turn is recorded, and stopped if it runs.
HandOver ==
  /\ Handoffs /\ Free /\ cores < MaxCores
  /\ core' = "stopping" /\ timer' = FALSE
  /\ rec' = rec \union {t \in Active : turns[t].op \in {"user", "resume"}}
  /\ UNCHANGED <<turns, archived, selection, optIn, entry, onPurpose, work, cut, crashed, cutWork, todo, firing, after, reading, window, cores, acts, past>>

\* The process exits, drained or not, or dies.  Work that a death cuts goes on
\* under the latest turn, whatever that one came to.
Dies ==
  /\ core # "down" /\ cores < MaxCores
  /\ core' = "down"
  /\ cut' = FALSE /\ crashed' = 0 /\ cutWork' = FALSE /\ todo' = {} /\ timer' = FALSE /\ firing' = NotFiring
  /\ after' = NoAfter /\ reading' = {}
  /\ past' = IF onPurpose THEN [past EXCEPT !.onPurpose = @ \union Running]
             ELSE IF work = "live" THEN [past EXCEPT !.onPurpose = {}] ELSE past
  /\ UNCHANGED <<journal, window, cores, acts>>

\* resumesCrashed: t is pushed on #crashed.
Resumes(t, isCut) ==
  /\ Eligible(t) /\ isCut
  /\ entry.handled # t /\ entry.streak < MaxStreak

\* Mutant of IsCut: the note of a core stopped on purpose is not read.
IsCutWhenRecent(recent) == recent

\* Whether what the last core left running was cut, or was ended with it on
\* purpose; `recent': the last event is within the hour.
IsCut(recent) == ~onPurpose /\ recent

\* Mutant of Owed: what the handoff continues is resumed as crashed too.
OwedBoth(kept, isCut) == {t \in Running : Resumes(t, isCut)}

\* The turns recovery tells the user of: Boite resumes them.
Owed(kept, isCut) == {t \in Running \ kept : Resumes(t, isCut)}

\* recoverStuckTurns.  `fresh': the handoff's record is.  A queued prompt is kept,
\* held for its user; what the handoff had queued stays so.
Recover(recent, fresh) ==
  LET isCut == IsCut(recent)
      kept  == IF fresh THEN rec ELSE {}
      owed  == Owed(kept, isCut)
      waits == {t \in Active \ Running : ~archived /\ (t \in kept \/ (turns[t].by = "handoff" /\ turns[t].of \in kept))}
      Closed(t) == IF t \in Running \cap kept THEN "stopped"
                   ELSE IF t \in owed THEN "told"
                   ELSE IF t \in Running \/ (turns[t].op # "user" /\ t \notin waits) THEN "error"
                   ELSE turns[t].status
  IN
  /\ core = "down"
  /\ core' = "recovered" /\ cores' = cores + 1
  /\ cut' = isCut /\ rec' = kept
  /\ cutWork' = (work = "live") /\ work' = "none"
  /\ crashed' = IF owed = {} THEN 0 ELSE CHOOSE t \in owed : TRUE
  /\ turns' = [t \in Rows |-> IF t \in Active
                              THEN [turns[t] EXCEPT !.status = Closed(t)] ELSE turns[t]]
  /\ UNCHANGED <<archived, selection, optIn, entry, onPurpose, todo, timer, firing, after, reading, window, acts, past>>

\* ResumePlanner.start: a plan caught while dispatching is dropped.
ArmPlans ==
  /\ core = "recovered"
  /\ core' = "armed"
  /\ Write(IF archived THEN [NoEntry EXCEPT !.window = entry.window]
           ELSE IF entry.plan.out THEN Settled(entry, 0) ELSE entry)
  /\ past' = IF ~archived /\ entry.plan.out /\ entry.plan.reason = "carry"
             THEN [past EXCEPT !.lost = @ + 1] ELSE past
  /\ UNCHANGED <<turns, archived, selection, optIn, onPurpose, work, rec, cut, crashed, cutWork, todo, firing, after, reading, window, cores, acts>>

\* AutoContinues.start: the crashed turn, else work the crash cut or held
\* (background work, a team, a workflow) with no turn running.
StartPlans ==
  LET t == IF crashed # 0 THEN crashed ELSE LastTurn
      plans == /\ t # 0 /\ ~Planned /\ Eligible(t)
               /\ crashed # 0 \/ (cut /\ cutWork /\ turns[t].status # "stopped")
  IN
  /\ core = "armed"
  /\ core' = "up" /\ onPurpose' = FALSE /\ crashed' = 0 /\ cutWork' = FALSE /\ todo' = rec
  /\ IF plans THEN Write(CarryOn(entry, t)) ELSE UNCHANGED <<entry, timer>>
  /\ past' = IF plans /\ Gives(entry, t) THEN [NewRow EXCEPT !.lost = IF t \in Active THEN 1 ELSE 0] ELSE past
  /\ UNCHANGED <<turns, archived, selection, optIn, work, rec, cut, firing, after, reading, window, cores, acts>>

\* RestartHandoff.resume, once the server listens: an entry still there is
\* consumed, its queued turn goes back in line as it is, or its cut turn is
\* continued.  A refused admission keeps the entry for the next core.
Continue(t) ==
  LET made   == Requested(t, "handoff")
      queued == ({t} \union made) \intersect Active # {}
      isCut  == made = {} /\ turns[t].status = "stopped"
  IN
  /\ Free /\ t \in todo
  /\ todo' = todo \ {t}
  /\ \/ t \notin rec /\ UNCHANGED <<rec, turns>>
     \/ /\ t \in rec /\ (archived \/ (~queued /\ ~isCut))
        /\ rec' = rec \ {t} /\ UNCHANGED turns
     \/ /\ t \in rec /\ ~archived /\ queued
        /\ UNCHANGED <<rec, turns>>
     \/ /\ t \in rec /\ ~archived /\ ~queued /\ isCut
        /\ UNCHANGED rec
        /\ \/ UNCHANGED turns
           \/ /\ ~Busy /\ Len(turns) < MaxTurns
              /\ turns' = Append(turns, Row("resume", t, "handoff"))
  /\ UNCHANGED <<archived, selection, optIn, entry, onPurpose, work, core, cut, crashed, cutWork, timer, firing, after, reading, window, cores, acts, past>>

-----------------------------------------------------------------------------
TurnStep ==
  \/ \E op \in Ops : Admit(op)
  \/ \E t \in Rows : Starts(t)
  \/ \E t \in Rows, o \in Outcomes \union {"stopped"} : TurnEnds(t, o)
  \/ Finished \/ BackgroundLost
  \/ \E t \in Rows : QuotaRead(t)

UserStep == Stop \/ CancelRetry \/ Archive \/ Unarchive \/ Select \/ OptOut

FireStep ==
  \/ FireYields \/ FireMarks \/ FireStarts \/ FireSettles
  \/ \E card \in BOOLEAN : FireRefused(card)

BootStep ==
  \/ \E recent, fresh \in BOOLEAN : Recover(recent, fresh)
  \/ ArmPlans \/ StartPlans \/ \E t \in Rows : Continue(t)

Next == TurnStep \/ UserStep \/ WindowPasses \/ FireStep
        \/ ShutDown \/ HandOver \/ Dies \/ BootStep

\* The process of a core that was told to stop ends, and another one starts; the
\* event loop serves its timers and what it has committed to; a ping that was
\* stopped ends.
Fairness ==
  /\ WF_vars(FireStep) /\ WF_vars(BootStep) /\ WF_vars(Finished) /\ WF_vars(WindowPasses)
  /\ WF_vars(core = "stopping" /\ Dies)
  /\ WF_vars(\E t \in Pinging : Starts(t) \/ TurnEnds(t, "stopped"))

Spec == Init /\ [][Next]_vars /\ Fairness

-----------------------------------------------------------------------------
(* Properties                                                              *)

Turn == [op : {"user", "wake", "ping", "resume"}, status : {"queued", "running"} \union Ended,
         of : 0..MaxTurns, by : {"none", "limit", "carry", "handoff"}, selection : 1..2]
Plan == [reason : {"none", "limit", "carry"}, turn : 0..MaxTurns, window : Nat,
         selection : 0..2, out : BOOLEAN]
Entry == [plan : Plan, streak : 0..MaxStreak, handled : 0..MaxTurns, sent : 0..MaxTurns, window : Nat]
End == [turn : 0..MaxTurns, outcome : Outcomes \union {"stopped", "none"}]
Call == [at : {"no", "marked", "sent"}, turn : 0..MaxTurns]
Past == [stopped : SUBSET Rows, cancelled : SUBSET Rows, onPurpose : SUBSET Rows,
         row : Nat, lost : Nat]

\* The row of resumes never counts past the delays there are.
TypeOK ==
  /\ turns \in Seq(Turn) /\ Len(turns) <= MaxTurns
  /\ archived \in BOOLEAN /\ selection \in 1..2 /\ optIn \in BOOLEAN
  /\ entry \in Entry /\ onPurpose \in BOOLEAN /\ work \in {"none", "live", "lost"}
  /\ rec \subseteq Rows /\ todo \subseteq Rows /\ reading \subseteq Rows
  /\ core \in {"up", "stopping", "down", "recovered", "armed"}
  /\ cut \in BOOLEAN /\ crashed \in 0..MaxTurns /\ cutWork \in BOOLEAN /\ timer \in BOOLEAN
  /\ firing \in Call /\ after \in End /\ past \in Past
  /\ window \in Nat /\ cores \in Nat /\ acts \in Nat

\* A turn is continued by one resume: the two plans and the handoff never both
\* take it, over any chain of cores, whichever write a crash falls after.
ResumedOnce ==
  \A t, u \in Rows : turns[t].of # 0 /\ turns[t].of = turns[u].of => t = u

\* An agent that fails the same way each time is resumed as often as there are
\* delays and no more; a core that dies while it sends one, or gives up on one
\* that still waits, adds one for itself.
RowIsBounded == past.row <= MaxStreak + past.lost

\* A plan the user cancelled, and an entry of the handoff a Stop removed, resume
\* nothing, whatever the journal, lost work or a later core says of the turn, as
\* long as an archived thread is not brought back.
CancelledStaysCancelled ==
  [][\A t \in DOMAIN turns' \ Rows : turns'[t].of \notin past.cancelled]_vars

\* What a core stopped on purpose left running is resumed by nothing, not by the
\* core that finds it running either, as long as no later core dies under work
\* the conversation left to go on.
PurposeStays == \A t \in Rows : turns[t].of \notin past.onPurpose

\* A plan is acted on or dropped, over pings in its way, deaths and restarts: no
\* thread waits for a timer nobody set.
PlanResolves == Planned ~> ~Planned

\* docs/restart-handoff.md:99: nothing resumes for a turn the user stopped.
StoppedStaysStopped == \A t \in Rows : turns[t].of \notin past.stopped

\* recovery.ts:15 tells the user that Boite resumes the turn.  With the core at
\* rest, the turn that was told so has been planned for.
ToldIsPlanned ==
  core = "up" /\ ~Busy /\ LastTurn # 0 /\ ~archived /\ turns[LastTurn].status = "told"
    => entry.handled = LastTurn

\* docs/architecture.md:346: a turn resumes by itself as often in a row as there
\* are delays (two) at most, also when its core dies.
InARow == past.row <= MaxStreak

\* A resume continues the latest turn: nothing but pings came between.
ContinuesLast ==
  \A t \in Rows : turns[t].of # 0 => \A u \in turns[t].of + 1 .. t - 1 : turns[u].op = "ping"

-----------------------------------------------------------------------------
(* What keeps ResumedOnce and CancelledStaysCancelled: the inductive       *)
(* invariant of PlannedResumes_proofs.                                     *)

Unanswered == {"done"} \union Failed

\* One turn is open at a time, and it is the last.
OneOpen == \A t \in Active : t = Len(turns)

\* Nothing waits on an archived thread.
NoneWaits == archived => Active = Running

\* A resume comes after the turn it continues, which ended: the handoff
\* continues what was stopped, a plan what was not.
Continuations ==
  \A t \in Rows : turns[t].of # 0 =>
    /\ turns[t].op = "resume" /\ turns[t].of < t /\ turns[t].by # "none"
    /\ turns[turns[t].of].status \in IF turns[t].by = "handoff" THEN {"stopped"} ELSE Unanswered

\* A plan is made for the turn marked as handled, which nobody stopped.
PlanRows ==
  Planned =>
    /\ entry.plan.turn \in Rows /\ entry.handled = entry.plan.turn
    /\ entry.plan.reason # "none" /\ turns[entry.plan.turn].op # "ping"
    /\ turns[entry.plan.turn].status \in {"queued"} \union Unanswered
    /\ entry.plan.reason = "carry" => entry.streak < MaxStreak

\* A plan marked as sent is under the timer's call, or what a death left of it.
MarkRows ==
  /\ firing.at # "no" => core = "up" /\ entry.plan.out
  /\ firing.at = "marked" => ~Busy /\ ~archived /\ LastTurn = entry.plan.turn
  /\ entry.plan.out =>
       /\ firing.at # "no" \/ core \in {"down", "recovered"}
       /\ turns[entry.plan.turn].status \in Unanswered /\ LastTurn \notin past.cancelled
  /\ firing.turn \in 0..Len(turns)

\* The end being worked through, and the quotas being read, are of turns that
\* ended so; no turn ran since.
EndRows ==
  /\ after # NoAfter =>
       /\ after.turn \in Rows /\ turns[after.turn].status = StatusOf(after.outcome)
       /\ core \in {"up", "stopping"} /\ (core = "up" => after.turn \notin rec)
       /\ \A t \in Rows : t > after.turn => turns[t].status \in {"queued", "stopped"}
  /\ \A t \in reading : turns[t].status = "error"

\* What recovery closed and what it left.
BootRows ==
  /\ core \in {"recovered", "armed"} => Running = {}
  /\ crashed # 0 => /\ core \in {"recovered", "armed"}
                    /\ crashed = LastTurn /\ turns[crashed].status = "told"

\* The handoff keeps turns it cut and turns that wait.
RecRows ==
  \A t \in rec : turns[t].status \in
    {"queued", "stopped"} \union IF core \in {"stopping", "down"} THEN {"running"} ELSE {}

\* What was cancelled is over; while it is the last turn, the row has it as
\* handled and plans nothing.
CancelRows ==
  \A t \in past.cancelled :
    /\ t \notin Active /\ t \notin InEnd /\ t \notin rec
    /\ ~archived /\ t = LastTurn =>
         turns[t].status = "stopped" \/ (entry.handled = t /\ ~Planned)

Sound ==
  /\ OneOpen /\ NoneWaits /\ Continuations /\ PlanRows /\ MarkRows
  /\ EndRows /\ BootRows /\ RecRows /\ CancelRows

=============================================================================
