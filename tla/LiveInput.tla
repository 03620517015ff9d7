----------------------------- MODULE LiveInput -----------------------------
(***************************************************************************)
(* What reaches an agent outside the prompts a user types (threads/        *)
(* deferred.ts, memory-notices.ts): answers to asynchronous questions,     *)
(* notices of the memory guard, and the turns an agent opens by itself.    *)
(*                                                                         *)
(* Four paths race for a held answer: a steer of the running turn, a tool  *)
(* boundary that pulls it, the prompt of the next turn, and a turn opened  *)
(* for it when the running one ends.  One steer is out at a time           *)
(* (runner.steering), and its outcome may come after its turn ended and    *)
(* another began.                                                          *)
(*                                                                         *)
(* What a stopped turn was told may be missing from the agent's session:   *)
(* the prompts of the user repeat the user messages of stopped turns until *)
(* one of them gets done (threads/stopped-input.ts), the answers recorded  *)
(* under those turns among them.                                           *)
(*                                                                         *)
(* The turn is TurnLifecycle's, cut down to the points these paths look    *)
(* at.  Steers of coordination, delegation and the composer are the        *)
(* `other' owner of the channel.                                           *)
(***************************************************************************)
EXTENDS Naturals, Sequences, SequencesExt

CONSTANTS
  Answers, Notices,
  MaxTurns,   \* bound: turns of the conversation
  MaxEvents   \* bound: failed calls and turns, other steers, new attempts, wakes,
              \* rewinds, archivings and deaths, together

\* A notice of the core is no answer of a user.
ASSUME InputAssumption == MaxTurns \in Nat /\ MaxEvents \in Nat /\ Answers \intersect Notices = {}

VARIABLES
  asked,       \* answers whose card is still open
  held,        \* deferredAnswers
  consumed,    \* consumed: in the transcript, for the next prompt to carry
  script,      \* the answers in the transcript that stoppedInput would find
  notices,     \* the durable notices, until delivered
  pendingWake, \* pendingWakes
  wakeTimer, flushTimer, \* what a finished turn leaves for the next tick
  turn,        \* the thread's last turn
  handle,      \* a native handle is attached
  doubt,       \* the handle is in #uncertain
  after,       \* how the turn whose after-work is under way ended
  steer,       \* the steer under way
  flush,       \* where the #flushing loop stands
  archived,
  turnsLeft, eventsLeft, \* what remains of the bounds
  told,        \* history: times a text reached an agent, repeats left out
  settled,     \* history: answers recorded under, or repeated to, a prompt that got done
  noted,       \* history: times an answer entered the transcript
  doubted,     \* history: texts a call failed with
  cleared      \* history: answers given up: by a rewind, an archiving, a death

wakes == <<pendingWake, wakeTimer, flushTimer>>
running == <<turn, handle, doubt, after>>
channel == <<steer, flush>>
bounds == <<turnsLeft, eventsLeft>>
history == <<told, settled, noted, doubted, cleared>>
vars == <<asked, held, consumed, script, notices, wakes, running, channel, archived, bounds, history>>

Texts == Answers \union Notices
Free == [by |-> "none", text |-> "none", live |-> FALSE, turn |-> "none", user |-> FALSE]
Still == [at |-> "no", again |-> FALSE]
Out(by, text) == [by |-> by, text |-> text, live |-> TRUE, turn |-> "own", user |-> by = "answer" /\ turn.kind = "prompt"]

Busy == turn.phase # "over"
Bare == turn.kind = "bare"
Event == eventsLeft > 0 /\ eventsLeft' = eventsLeft - 1
Tell(texts) == told' = [t \in Texts |-> IF t \in texts THEN told[t] + 1 ELSE told[t]]
Note(answers) == noted' = [a \in Answers |-> IF a \in answers THEN noted[a] + 1 ELSE noted[a]]

(***************************************************************************)
(* The transcript, as the walk of stoppedInput reads it: backwards over    *)
(* the user messages, past those of turns that are not the user's and of   *)
(* failed ones, collecting those of stopped turns, as far as one of a turn *)
(* that got done.                                                          *)
(***************************************************************************)

\* `own' are the answers of the open prompt's messages; `earlier' those of stopped
\* turns before its last message, `later' those recorded after it.
NoScript == [earlier |-> {}, own |-> {}, later |-> {}]

\* A message of the open turn, if that is a prompt of the user's.
OwnMessage(answers) ==
  IF turn.kind # "prompt" \/ answers = {} THEN script
  ELSE [earlier |-> script.earlier \union script.later, own |-> script.own \union answers, later |-> {}]

\* An accepted steer's message, recorded under the turn it was sent in.
SteeredMessage ==
  IF ~steer.user THEN script
  ELSE CASE steer.turn = "own"     -> [earlier |-> script.earlier \union script.later,
                                       own |-> script.own \union {steer.text}, later |-> {}]
         [] steer.turn = "done"    -> NoScript
         [] steer.turn = "stopped" -> IF Busy /\ turn.kind = "prompt"
                                      THEN [script EXCEPT !.later = @ \union {steer.text}]
                                      ELSE [script EXCEPT !.earlier = @ \union {steer.text}]
         [] OTHER                  -> script

\* The open turn is over with this status.
Closed(result) ==
  [earlier |-> IF turn.kind # "prompt" THEN script.earlier
               ELSE CASE result = "done"    -> script.later
                      [] result = "stopped" -> script.earlier \union script.own \union script.later
                      [] OTHER              -> script.earlier \union script.later,
   own |-> {}, later |-> {}]

Init ==
  /\ asked = Answers /\ held = <<>> /\ consumed = {} /\ script = NoScript /\ notices = {}
  /\ pendingWake = FALSE /\ wakeTimer = FALSE /\ flushTimer = FALSE
  /\ turn = [phase |-> "over", kind |-> "none", carries |-> {}, repeats |-> {}, result |-> "done"]
  /\ handle = FALSE /\ doubt = FALSE /\ after = "none"
  /\ steer = Free /\ flush = Still /\ archived = FALSE
  /\ turnsLeft = MaxTurns /\ eventsLeft = MaxEvents
  /\ told = [t \in Texts |-> 0] /\ settled = {} /\ noted = [a \in Answers |-> 0]
  /\ doubted = {} /\ cleared = {}

(***************************************************************************)
(* Turns: admission, the prompt's composition, the end.                    *)
(***************************************************************************)

\* startTurn's last part: a turn of the user's own takes the wake with it.
\* What a prompt is to repeat is settled with its first message.
Queues(kind, carries, found) ==
  /\ turnsLeft > 0 /\ turnsLeft' = turnsLeft - 1
  /\ turn' = [phase |-> "queued", kind |-> kind, carries |-> carries, result |-> "none",
              repeats |-> IF kind = "prompt" THEN found ELSE {}]
  /\ pendingWake' = (pendingWake /\ kind = "background")

\* flushDeferred: the held answers as one prompt, when the thread can take one.
CanFlush(answers) == answers # <<>> /\ ~archived /\ ~Busy
Opens(answers, rows) ==
  /\ Queues("prompt", ToSet(answers), rows.earlier) /\ held' = <<>>
  /\ script' = [rows EXCEPT !.own = ToSet(answers)]

\* recordHeldBeforePrompt: held answers enter the transcript before the prompt.
RecordsHeld ==
  /\ steer.by = "none" /\ held' = <<>> /\ consumed' = consumed \union ToSet(held)
  /\ script' = [script EXCEPT !.own = ToSet(held)]

UserStarts ==
  /\ ~archived /\ ~Busy
  /\ Queues("prompt", {}, script.earlier)
  /\ \/ RecordsHeld /\ Note(ToSet(held))
     \/ steer.by # "none" /\ UNCHANGED <<held, consumed, script, noted>>
  /\ UNCHANGED <<asked, notices, wakeTimer, flushTimer, handle, doubt, after, channel, archived, eventsLeft,
                 told, settled, doubted, cleared>>

\* A turn of the core's own: a letter, a result (`op'), a compaction (`bare').
OtherStarts(kind) ==
  /\ ~archived /\ ~Busy /\ kind \in {"op", "bare"}
  /\ Queues(kind, {}, {})
  /\ UNCHANGED <<asked, held, consumed, script, notices, wakeTimer, flushTimer, handle, doubt, after, channel, archived,
                 eventsLeft, history>>

Over(result) == [phase |-> "over", kind |-> "none", carries |-> {}, repeats |-> {}, result |-> result]

\* takeDeferred: not while a steer owns the answers.
Takes == turn.kind = "prompt" /\ steer.by = "none"

\* Mutant: the answers are deleted before the steer is looked at.
DropsEarly == turn.kind = "prompt"

\* What is deleted is what is taken.
Drops == Takes

Unsent == notices \ {steer.text}

\* The prompt is composed and the native turn starts, in one go.
Starts ==
  /\ turn.phase = "queued" /\ after = "none"
  /\ turn' = [turn EXCEPT !.phase = "running", !.carries = {}]
  /\ handle' = TRUE /\ doubt' = FALSE
  /\ Tell((IF Takes THEN consumed \union ToSet(held) ELSE {}) \union turn.carries \union Unsent)
  /\ notices' = notices \ Unsent
  /\ IF Drops THEN held' = <<>> /\ consumed' = {} ELSE UNCHANGED <<held, consumed>>
  /\ UNCHANGED <<asked, script, wakes, after, channel, archived, bounds, settled, noted, doubted, cleared>>

\* Stop of a queued turn; what it was to say stays in the transcript, for the next
\* prompt to repeat.
StoppedQueued ==
  /\ turn.phase = "queued"
  /\ turn' = Over("stopped")
  /\ script' = Closed("stopped")
  /\ UNCHANGED <<asked, held, consumed, notices, wakes, handle, doubt, after, channel, archived, bounds, history>>

Detached == [steer EXCEPT !.live = FALSE]

\* A retry, a mode change, an agent update: the turn goes on with another handle.
NewAttempt ==
  /\ handle /\ Event
  /\ doubt' = FALSE /\ steer' = Detached
  /\ UNCHANGED <<asked, held, consumed, script, notices, wakes, turn, handle, after, flush, archived, turnsLeft,
                 history>>

Ends(result) ==
  /\ turn.phase = "running" /\ result \in {"done", "stopped", "failed"}
  /\ turn' = [turn EXCEPT !.phase = "closing", !.result = IF archived THEN "stopped" ELSE result]
  /\ IF result = "failed" THEN Event ELSE UNCHANGED eventsLeft
  /\ handle' = FALSE /\ doubt' = FALSE /\ steer' = Detached
  /\ UNCHANGED <<asked, held, consumed, script, notices, wakes, after, flush, archived, turnsLeft, history>>

\* settleTurn: the status is saved, and the thread is idle again.
Settles ==
  /\ turn.phase = "closing"
  /\ turn' = Over(turn.result)
  /\ after' = turn.result
  /\ steer' = [steer EXCEPT !.turn = IF @ = "own" THEN turn.result ELSE @]
  /\ script' = Closed(turn.result)
  /\ settled' = settled \union (IF turn.kind = "prompt" /\ turn.result = "done"
                                THEN script.own \union turn.repeats ELSE {})
  /\ UNCHANGED <<asked, held, consumed, notices, wakes, handle, doubt, flush, archived, bounds,
                 told, noted, doubted, cleared>>

\* Mutant: the held answers wait for a prompt whatever the turn's end.
AfterWorkKeeps ==
  /\ after # "none" /\ after' = "none"
  /\ wakeTimer' = (wakeTimer \/ (pendingWake /\ ~archived)) /\ pendingWake' = FALSE
  /\ UNCHANGED <<flushTimer, asked, held, consumed, script, notices, turn, handle, doubt, channel, archived, bounds, history>>

\* The end of TurnRunner's after-work, its moves and letters awaited.
AfterWork ==
  /\ after # "none" /\ after' = "none"
  /\ wakeTimer' = (wakeTimer \/ (pendingWake /\ ~archived)) /\ pendingWake' = FALSE
  /\ flushTimer' = (flushTimer \/ (after = "done" /\ ~archived /\ held # <<>>))
  /\ UNCHANGED <<asked, held, consumed, script, notices, turn, handle, doubt, channel, archived, bounds, history>>

\* deferred.wake: the agent goes on by itself.
Wakes ==
  /\ IF Busy THEN pendingWake' = TRUE /\ UNCHANGED <<turn, turnsLeft>> ELSE Queues("background", {}, {})
  /\ UNCHANGED <<asked, held, consumed, script, notices, flushTimer, handle, doubt, after, channel, history>>

DriverWakes == ~archived /\ ~handle /\ Event /\ Wakes /\ UNCHANGED <<archived, wakeTimer>>

\* Of an archived thread it would do nothing.
WakeTimer == wakeTimer /\ ~archived /\ wakeTimer' = FALSE /\ Wakes /\ UNCHANGED <<archived, eventsLeft>>

FlushTimer ==
  /\ flushTimer /\ ~wakeTimer /\ flushTimer' = FALSE
  /\ IF CanFlush(held) /\ steer.by = "none"
     THEN Opens(held, script) /\ Note(ToSet(held))
     ELSE UNCHANGED <<turn, pendingWake, turnsLeft, held, script, noted>>
  /\ UNCHANGED <<asked, consumed, notices, wakeTimer, handle, doubt, after, channel, archived, eventsLeft,
                 told, settled, doubted, cleared>>

(***************************************************************************)
(* The steering channel.                                                   *)
(***************************************************************************)

\* One round of the loop, as far as its first await.
Round(answers) ==
  IF handle /\ ~doubt /\ ~Bare /\ answers # <<>> /\ steer.by = "none"
  THEN steer' = Out("answer", Head(answers)) /\ flush' = [at |-> "answers", again |-> FALSE]
  ELSE UNCHANGED steer /\ flush' = [at |-> "notices", again |-> FALSE]

\* flushRunning: a loop at work goes round once more; another owner of the
\* channel flushes when it is done.
FlushRunning(answers) ==
  CASE flush.at # "no"                         -> flush' = [flush EXCEPT !.again = TRUE] /\ UNCHANGED steer
    [] flush.at = "no" /\ steer.by = "none"    -> Round(answers)
    [] OTHER                                   -> UNCHANGED channel

\* memory.flushRunning, and the end of the round.
FlushGoesOn ==
  /\ flush.at \in {"notices", "end"} /\ steer.by # "memory"
  /\ \/ /\ flush.at = "notices" /\ handle /\ steer.by = "none" /\ notices # {}
        /\ \E n \in notices : steer' = Out("memory", n)
        /\ UNCHANGED flush
     \/ /\ ~(flush.at = "notices" /\ handle /\ steer.by = "none" /\ notices # {})
        /\ IF flush.again THEN Round(held) ELSE flush' = Still /\ UNCHANGED steer
  /\ UNCHANGED <<asked, held, consumed, script, notices, wakes, running, archived, bounds, history>>

\* #settleAsync, deliverAnswer: steered, or a turn of its own, or held.
Answer(a) ==
  /\ a \in asked /\ ~archived
  /\ asked' = asked \ {a}
  /\ LET answers == Append(held, a) IN
     /\ FlushRunning(answers)
     /\ IF CanFlush(answers) /\ steer.by = "none"
        THEN Opens(answers, script) /\ Note(ToSet(answers))
        ELSE held' = answers /\ UNCHANGED <<turn, pendingWake, turnsLeft, script, noted>>
  /\ UNCHANGED <<consumed, notices, wakeTimer, flushTimer, handle, doubt, after, archived, eventsLeft,
                 told, settled, doubted, cleared>>

\* resources.memory: journalled, then flushed.
Notice(n) ==
  /\ n \notin notices /\ told[n] = 0
  /\ notices' = notices \union {n}
  /\ FlushRunning(held)
  /\ UNCHANGED <<asked, held, consumed, script, wakes, running, archived, bounds, history>>

\* The driver takes input now.
InputReady ==
  /\ handle /\ ~Bare
  /\ FlushRunning(held)
  /\ UNCHANGED <<asked, held, consumed, script, notices, wakes, running, archived, bounds, history>>

\* The outcome of #steerAnswers' call: its record, the next answer of the same
\* handle, or the end, with a turn for what a finished turn left behind.
AnswerSettles(outcome, took) ==
  LET accepted == outcome = "accepted"
      answers == IF accepted THEN RemoveFirst(held, steer.text) ELSE held
      rows == IF accepted THEN SteeredMessage ELSE script
      next == accepted /\ steer.live /\ answers # <<>>
      late == ~next /\ ~handle /\ steer.turn = "done" /\ CanFlush(answers) IN
  /\ steer.by = "answer"
  /\ took = (accepted \/ (outcome = "failed" /\ took))
  /\ Tell(IF took THEN {steer.text} ELSE {})
  /\ Note((IF accepted THEN {steer.text} ELSE {}) \union (IF late THEN ToSet(answers) ELSE {}))
  /\ IF outcome = "failed"
     THEN Event /\ doubted' = doubted \union {steer.text} /\ doubt' = (doubt \/ steer.live)
     ELSE UNCHANGED <<eventsLeft, doubted, doubt>>
  /\ IF next THEN steer' = [steer EXCEPT !.text = Head(answers)] /\ UNCHANGED flush
     ELSE steer' = Free /\ flush' = [flush EXCEPT !.at = "notices"]
  /\ settled' = settled \union (IF accepted /\ steer.user /\ steer.turn = "done" THEN {steer.text} ELSE {})
  /\ IF late THEN Opens(answers, rows)
     ELSE held' = answers /\ script' = rows /\ UNCHANGED <<turn, pendingWake, turnsLeft>>
  /\ UNCHANGED <<asked, consumed, notices, wakeTimer, flushTimer, handle, after, archived, cleared>>

\* Mutant: a notice the driver declined is taken off too.
DeclinedToo(outcome) == outcome # "failed"

\* The driver took it: it is removed for good.
Delivered(outcome) == outcome = "accepted"

\* memory-notices: the next notice of the same handle, or the end.
NoticeSettles(outcome, took) ==
  LET rest == IF Delivered(outcome) THEN notices \ {steer.text} ELSE notices IN
  /\ steer.by = "memory"
  /\ took = (outcome = "accepted" \/ (outcome = "failed" /\ took))
  /\ Tell(IF took THEN {steer.text} ELSE {})
  /\ notices' = rest
  /\ IF outcome = "failed" THEN Event /\ doubted' = doubted \union {steer.text}
     ELSE UNCHANGED <<eventsLeft, doubted>>
  /\ IF outcome = "accepted" /\ steer.live /\ rest # {}
     THEN \E n \in rest : steer' = [steer EXCEPT !.text = n] /\ UNCHANGED flush
     ELSE steer' = Free /\ flush' = [flush EXCEPT !.at = "end"]
  /\ UNCHANGED <<asked, held, consumed, script, wakes, running, archived, turnsLeft, settled, noted, cleared>>

OtherSteers ==
  /\ handle /\ ~Bare /\ steer.by = "none" /\ Event
  /\ steer' = Out("other", "none")
  /\ UNCHANGED <<asked, held, consumed, script, notices, wakes, running, flush, archived, turnsLeft, history>>

\* steer, steerUser: the channel is released, and then flushed.
OtherSettles ==
  /\ steer.by = "other"
  /\ IF flush.at # "no" THEN steer' = Free /\ flush' = [flush EXCEPT !.again = TRUE]
     ELSE IF handle /\ ~doubt /\ ~Bare /\ held # <<>>
          THEN steer' = Out("answer", Head(held)) /\ flush' = [at |-> "answers", again |-> FALSE]
          ELSE steer' = Free /\ flush' = [at |-> "notices", again |-> FALSE]
  /\ UNCHANGED <<asked, held, consumed, script, notices, wakes, running, archived, bounds, history>>

\* Mutant: the pull does not look whether a steer is out.
PullsAll == ToSet(held)

\* What a pull may have: nothing while a native steer owns the delivery.
Pulls == IF steer.by = "none" THEN ToSet(held) ELSE {}

\* takeForRunningTurn: the notices, else the answers.
ToolBoundary ==
  /\ turn.phase = "running" /\ ~Bare
  /\ IF Unsent # {}
     THEN Tell(Unsent) /\ notices' = notices \ Unsent /\ UNCHANGED <<held, script, noted>>
     ELSE /\ Tell(Pulls) /\ Note(Pulls) /\ script' = OwnMessage(Pulls)
          /\ held' = IF Pulls = {} THEN held ELSE <<>>
          /\ UNCHANGED notices
  /\ UNCHANGED <<asked, consumed, wakes, running, channel, archived, bounds, settled, doubted, cleared>>

(***************************************************************************)
(* What ends it.                                                           *)
(***************************************************************************)

\* The transcript keeps what it has for the next prompt to repeat.
Forgets(more) ==
  /\ held' = <<>> /\ consumed' = {} /\ pendingWake' = FALSE
  /\ cleared' = cleared \union more
                 \union ((ToSet(held) \union consumed \union (asked \ asked')) \ script'.earlier)

\* BranchingService.rewind closes the cards, drops what waited and cuts the
\* transcript's end off.
Rewind ==
  /\ ~archived /\ ~Busy /\ Event
  /\ asked' = {}
  /\ \E kept \in SUBSET script.earlier :
       script' = [script EXCEPT !.earlier = kept] /\ Forgets(script.earlier \ kept)
  /\ UNCHANGED <<notices, wakeTimer, flushTimer, running, channel, archived, turnsLeft, told, settled,
                 noted, doubted>>

\* #putAway: a queued turn is gone, a running one ends stopped, and no prompt comes.
Archive ==
  /\ ~archived /\ Event /\ archived' = TRUE
  /\ asked' = {}
  /\ IF turn.phase = "queued"
     THEN /\ turn' = Over("stopped")
          /\ script' = Closed("stopped") /\ Forgets(script'.earlier)
     ELSE UNCHANGED <<turn, script>> /\ Forgets(script.earlier)
  /\ UNCHANGED <<notices, wakeTimer, flushTimer, handle, doubt, after, channel, turnsLeft, told, settled,
                 noted, doubted>>

\* The core dies: only cards, transcript and notices are stored.  A turn under way
\* is recovered as handed over (stopped) or as failed, a queued one as discarded
\* here; what its next core resumes is PlannedResumes.
Dies ==
  /\ Event /\ UNCHANGED asked
  /\ \E result \in IF turn.phase = "queued" THEN {"stopped"} ELSE {"stopped", "failed"} :
       /\ turn' = Over(IF Busy THEN result ELSE turn.result)
       /\ script' = IF Busy THEN Closed(result) ELSE script
  /\ Forgets({})
  /\ handle' = FALSE /\ doubt' = FALSE /\ after' = "none"
  /\ wakeTimer' = FALSE /\ flushTimer' = FALSE
  /\ steer' = Free /\ flush' = Still
  /\ doubted' = doubted \union ({steer.text} \intersect Texts)
  /\ \E took \in SUBSET ({steer.text} \intersect Texts) : Tell(took)
  /\ UNCHANGED <<notices, archived, turnsLeft, settled, noted>>

(***************************************************************************)
(* The specification.  The core and the agent go on; users and failures    *)
(* need not.                                                               *)
(***************************************************************************)

Core == Starts \/ Settles \/ AfterWork \/ WakeTimer \/ FlushTimer \/ FlushGoesOn
Outcomes == \/ \E o \in {"accepted", "refused", "failed"}, took \in BOOLEAN : AnswerSettles(o, took) \/ NoticeSettles(o, took)
            \/ OtherSettles
AgentEnds == \E result \in {"done", "stopped", "failed"} : Ends(result)

Next ==
  \/ Core \/ Outcomes \/ AgentEnds
  \/ UserStarts \/ \E kind \in {"op", "bare"} : OtherStarts(kind)
  \/ StoppedQueued \/ NewAttempt \/ DriverWakes
  \/ \E a \in Answers : Answer(a)
  \/ \E n \in Notices : Notice(n)
  \/ InputReady \/ OtherSteers \/ ToolBoundary
  \/ Rewind \/ Archive \/ Dies

Fairness == WF_vars(Core) /\ WF_vars(Outcomes) /\ WF_vars(AgentEnds)

Spec == Init /\ [][Next]_vars /\ Fairness

(***************************************************************************)
(* Properties.                                                             *)
(***************************************************************************)

Turns == [phase : {"over", "queued", "running", "closing"}, kind : {"none", "prompt", "op", "bare", "background"},
          carries : SUBSET Answers, repeats : SUBSET Answers, result : {"none", "done", "stopped", "failed"}]
Steers == [by : {"none", "answer", "memory", "other"}, text : Texts \union {"none"}, live : BOOLEAN,
           turn : {"none", "own", "done", "stopped", "failed"}, user : BOOLEAN]
Transcripts == [earlier : SUBSET Answers, own : SUBSET Answers, later : SUBSET Answers]
Flushes == [at : {"no", "answers", "notices", "end"}, again : BOOLEAN]

TypeOK ==
  /\ asked \subseteq Answers /\ held \in Seq(Answers) /\ consumed \subseteq Answers /\ notices \subseteq Notices
  /\ pendingWake \in BOOLEAN /\ wakeTimer \in BOOLEAN /\ flushTimer \in BOOLEAN
  /\ turn \in Turns /\ steer \in Steers /\ flush \in Flushes
  /\ handle \in BOOLEAN /\ doubt \in BOOLEAN /\ after \in {"none", "done", "stopped", "failed"}
  /\ script \in Transcripts
  /\ archived \in BOOLEAN /\ turnsLeft \in Nat /\ eventsLeft \in Nat
  /\ told \in [Texts -> Nat] /\ settled \subseteq Answers /\ noted \in [Answers -> Nat]
  /\ doubted \subseteq Texts /\ cleared \subseteq Answers

\* Where a text may still come from: the prompt of a queued turn, the messages it
\* repeats, a steer that is out.
Carried  == IF turn.phase = "queued" THEN turn.carries ELSE {}
Repeats  == IF turn.phase = "queued" THEN turn.repeats ELSE {}
Steered  == IF steer.by \in {"answer", "memory"} THEN {steer.text} ELSE {}
Recorded == script.earlier \union script.own \union script.later

\* docs/context.md: an answer appears once in the transcript, and it is delivered to
\* an agent once unless the call that carried it failed.  The next prompt repeats the
\* messages of stopped turns `until a user turn completes', beside what it delivers
\* (`told' counts deliveries): no answer is repeated, or in the transcript left for
\* a repeat, once a prompt that was told it, or repeated it, got done.
OnceEach ==
  /\ \A a \in Answers : noted[a] <= 1
  /\ \A t \in Texts \ doubted : told[t] <= 1
  /\ (Repeats \union Recorded) \intersect settled = {}

\* An answer given is waiting, on its way in a prompt, was told, or is in the
\* transcript for the next prompt to repeat, whatever the order in which turns end
\* and steers come back (docs/context.md: `even if Stop landed while queued').
NoneLost == \A a \in Answers \ (asked \union cleared) :
  \/ a \in ToSet(held) \union consumed \union Carried
  \/ told[a] > 0 \/ a \in script.earlier \union settled

\* What OnceEach rests on.  A handle is that of a running turn, and a steer
\* that may still go on has it.
Channel ==
  /\ handle => turn.phase = "running"
  /\ steer.live => handle
  /\ steer.by = "answer" => steer.text \in Answers
  /\ steer.by = "memory" => steer.text \in Notices

\* An answer waits in one place; only a steer that is out leaves it where it was.
Apart ==
  /\ asked \intersect (ToSet(held) \union consumed \union Carried \union Steered) = {}
  /\ ToSet(held) \intersect (consumed \union Carried) = {}
  /\ consumed \intersect (Carried \union Steered) = {} /\ Carried \intersect Steered = {}
  /\ IsInjective(held)

\* What may still be told was told to nobody, unless a call failed with it, and
\* what may still enter the transcript is not in it.
Fresh ==
  /\ \A t \in asked \union ToSet(held) \union consumed \union notices \union Carried \union Steered :
       told[t] = 0 \/ t \in doubted
  /\ \A a \in asked \union ToSet(held) \union (Steered \intersect Answers) : noted[a] = 0

\* What is in the transcript was noted; what of it no agent was told is on its way in
\* the queued prompt, or is what the open prompt repeats.
Transcript ==
  /\ \A a \in Recorded \union turn.repeats \union settled : noted[a] > 0
  /\ script.later \intersect (script.own \union turn.repeats) = {}
  /\ turn.kind # "prompt" => script.own = {} /\ script.later = {}
  /\ turn.phase = "over" => turn.kind # "prompt"
  /\ \A a \in script.later : told[a] > 0
  /\ turn.phase # "queued" => \A a \in script.own : told[a] > 0
  /\ turn.phase = "queued" =>
       /\ turn.carries \subseteq script.own
       /\ script.own = {} \/ (steer.by = "none" /\ script.own \subseteq consumed \union turn.carries)
  /\ turn.kind = "prompt" => \A a \in script.earlier : a \in turn.repeats \/ told[a] > 0

\* An answer steered into a prompt of the user's: when that got done, nothing untold is
\* left for the steer's message to cut off.
UserSteer ==
  /\ steer.user => steer.by = "answer"
  /\ steer.user /\ steer.turn = "own" => turn.kind = "prompt" /\ turn.phase \in {"running", "closing"}
  /\ steer.user /\ steer.turn = "done" => \A a \in Recorded : told[a] > 0

\* A notice is durable until an agent has it.
NoticeKept == [][\A n \in notices : n \notin notices' => told'[n] > told[n]]_vars

\* A held answer does not wait for the user unless a turn was stopped or failed: the
\* end of any other turn sends it (bound: a turn is left to send it with).
Moves(a) == (a \in ToSet(held)) ~> (a \notin ToSet(held) \/ turn.result \in {"stopped", "failed"} \/ turnsLeft = 0)

\* A steer is out after its turn, and not an answer's whose turn is done.
Outlives == steer.turn \in {"stopped", "failed"} \/ (steer.turn = "done" /\ steer.by # "answer")

\* It holds while the steers that outlive their turns are the answers' own.
AnswersMove == \A a \in Answers : Moves(a) \/ <>Outlives

\* docs/context.md: answers received while another message or notice is being
\* delivered resume when that delivery finishes.
AnswersResume == \A a \in Answers : Moves(a)

\* drivers/types.ts: a rejected steer is an uncertain dispatch, and is not replayed.
NotReplayed == \A a \in Answers : told[a] <= 1

\* docs/context.md: what an agent was told, the transcript shows.
ToldIsNoted == \A a \in Answers : told[a] > 0 => noted[a] > 0

=============================================================================
