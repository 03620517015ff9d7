---------------------------- MODULE WorkflowRuns ----------------------------
(***************************************************************************)
(* A workflow run (workflows.ts): a plan of steps, each run by one or more *)
(* executions, each execution an ordinary turn of a child thread.  The     *)
(* core itself moves the run on: #advance opens the steps whose            *)
(* dependencies ended, launches what is ready up to the run's limit,       *)
(* settles steps and run, and hands the summary to the conversation that   *)
(* started the run (the root).  The record of the run and the rows of the  *)
(* turns survive a core; everything else is memory.                        *)
(*                                                                         *)
(* #advance is synchronous, so nothing but the end of the core comes       *)
(* between the steps of one; `stage` says how far it is.  One run of one   *)
(* root.  A turn's row is closed and its event handled in one step.        *)
(***************************************************************************)
EXTENDS Integers, FiniteSets

CONSTANTS
  Steps,      \* the plan's steps
  Execs,      \* their executions, numbered in plan order
  StepOf,     \* execution -> step
  After,      \* step -> the steps it waits for
  Openings,   \* what opening a step may find: its executions, a false
              \* condition, an empty list, a fan-out that is no list
  Shaped,     \* the steps whose answer must have a shape
  Worktrees,  \* the steps that run in a worktree of their own
  Limit,      \* limits.maxConcurrent
  Acts,       \* bound: which of AllActs happen
  MaxActs,    \* bound: how many of them, together
  MaxCores    \* bound: how many cores serve the run, one after the other

\* What users do to the run, its team, its steps and its root; a step that
\* rests on background work; a turn that is refused for a reason of its thread's
\* own (its account, its provider, its checkout); the ends of a core.
AllActs == {"pause", "resume", "stop", "retry", "team", "stopstep", "sendstep",
            "rootturn", "rest", "refuse", "handoff", "crash"}

ASSUME WorkflowAssumption ==
  /\ Execs \subseteq Nat \ {0} /\ IsFiniteSet(Execs)
  /\ StepOf \in [Execs -> Steps] /\ After \in [Steps -> SUBSET Steps]
  /\ Openings \subseteq {"running", "skipped", "done", "failed"}
  /\ Shaped \subseteq Steps /\ Worktrees \subseteq Steps
  /\ Limit \in Nat \ {0} /\ Acts \subseteq AllActs /\ MaxActs \in Nat /\ MaxCores \in Nat

VARIABLES
  run,      \* the record, in SQLite
  turn,     \* execution -> the open turn of its thread, in SQLite
  own,      \* executions whose open turn is not the run's: the user's, not adopted
  root,     \* "active" while the root has an open turn, in SQLite
  paused,   \* the team's pause, in SQLite
  handed,   \* a handoff record waits for the next core, in SQLite
  asked,    \* executions whose running turn was told to stop
  rest,     \* execution -> background work its checkpoint waits on
  core,     \* "up", "handing" (stopping, its grace running) or "down"
  resumed,  \* resumeAfterRestart is past
  recover,  \* rows the new core has still to close; 0 stands for the root's
  stage,    \* where #advance, or #stop, is
  asks,     \* a control still has to ask the steps whose work completed
  timers,   \* what waits on a timer or on a worktree's settling
  lapsed,   \* history: a new core found the summary not handed over
  refused,  \* history: the last try to hand it over met a reason of the root's own
  torn,     \* history: executions between turns that a death inside #stop left running
  actsLeft, coresLeft

durable == <<run, turn, own, root, paused>>
memory == <<asked, rest, stage, asks, timers>>
life == <<handed, core, resumed, recover, coresLeft>>
history == <<lapsed, refused, torn>>
vars == <<durable, memory, life, history, actsLeft>>

Unfinished == {"running", "paused"}
Broken(status) == status \in {"failed", "stopped"}
Ended(status) == status \in {"done", "failed", "skipped", "stopped"}
ExecsOf(n) == {x \in Execs : StepOf[x] = n}
Working(r) == {x \in Execs : r.st[x] = "running"}
NoExec(r, n) == \A x \in ExecsOf(n) : r.st[x] = "unopened"
Halted(r) == (\E n \in Steps : Broken(r.node[n])) \/ (\E x \in Execs : Broken(r.st[x]))
AllOver(r) == \A n \in Steps : r.node[n] \in {"done", "skipped"}

Act(kind) == kind \in Acts /\ actsLeft > 0 /\ actsLeft' = actsLeft - 1
Quiet == stage = "idle" /\ ~asks /\ recover = {}
Serves == core # "down" /\ Quiet

\* start saves the run and advances it.
Init ==
  /\ run = [status |-> "running", node |-> [n \in Steps |-> "waiting"],
            st |-> [x \in Execs |-> "unopened"], why |-> [x \in Execs |-> "none"],
            made |-> {}, fix |-> {}, tried |-> {}, told |-> {},
            delivered |-> FALSE, held |-> FALSE]
  /\ turn = [x \in Execs |-> "none"] /\ own = {} /\ root = "idle" /\ paused = FALSE
  /\ asked = {} /\ rest = [x \in Execs |-> "none"]
  /\ stage = "step" /\ asks = FALSE /\ timers = {}
  /\ handed = FALSE /\ core = "up" /\ resumed = TRUE /\ recover = {}
  /\ lapsed = FALSE /\ refused = FALSE /\ torn = {}
  /\ actsLeft = MaxActs /\ coresLeft = MaxCores - 1

-----------------------------------------------------------------------------
(* #advance.                                                               *)

\* A step ends with its executions; after a failure, one with nothing running
\* ends too, and what it never launched reads stopped.
Settled(r) ==
  LET closes(n) == /\ r.node[n] = "running" /\ ~NoExec(r, n)
                   /\ \/ \A x \in ExecsOf(n) : Ended(r.st[x])
                      \/ Halted(r) /\ \A x \in ExecsOf(n) : r.st[x] # "running"
      held == {x \in Execs : closes(StepOf[x]) /\ r.st[x] = "waiting"}
      st == [x \in Execs |-> IF x \in held THEN "stopped" ELSE r.st[x]]
      some(n, s) == \E x \in ExecsOf(n) : st[x] = s
      verdict(n) == IF some(n, "failed") THEN "failed" ELSE IF some(n, "stopped") THEN "stopped" ELSE "done"
  IN [r EXCEPT !.st = st,
               !.why = [x \in Execs |-> IF x \in held THEN "held" ELSE @[x]],
               !.node = [n \in Steps |-> IF closes(n) THEN verdict(n) ELSE @[n]]]

\* A paused run fails only once resumed; one with every step done is over either way.
SettledRun(r) ==
  LET s == Settled(r)
      fails == \E n \in Steps : Broken(s.node[n])
  IN IF r.status \notin Unfinished \/ Working(s) # {} THEN s
     ELSE IF fails /\ r.status = "running" THEN [s EXCEPT !.status = "failed"]
     ELSE IF ~fails /\ AllOver(s) THEN [s EXCEPT !.status = "done"]
     ELSE s

\* Failures the root was not told of while the run goes on.
Unnoticed(r) ==
  IF r.status # "running" THEN {}
  ELSE ({n \in Steps : r.node[n] = "failed" /\ NoExec(r, n)}
          \union {x \in Execs : r.st[x] = "failed" \/ (r.st[x] = "stopped" /\ r.why[x] # "held")}) \ r.told

\* What takes a turn of the root refuses while the core stops or the team is paused.
RootRefused == core # "up" \/ paused

\* A refusal for any other reason leaves the summary without a timer: it waits for
\* the root's next turn, or for the next lift of a pause.
Deliver(r) ==
  IF r.delivered \/ r.status \notin {"done", "failed"} \/ root = "active"
  THEN run' = r /\ stage' = "idle" /\ UNCHANGED <<root, refused, actsLeft>>
  ELSE \/ /\ run' = [r EXCEPT !.held = TRUE] /\ stage' = "idle" /\ root' = root
          /\ refused' = ~RootRefused
          /\ IF RootRefused THEN actsLeft' = actsLeft ELSE Act("refuse")
       \/ /\ ~RootRefused /\ run' = r /\ stage' = "handed" /\ root' = "active"
          /\ refused' = FALSE /\ actsLeft' = actsLeft

Tell(r) ==
  /\ run' = r /\ refused' = refused
  /\ LET none == Unnoticed(r) = {} \/ root = "active" \/ RootRefused
     IN \/ /\ stage' = "idle" /\ root' = root
           /\ IF none THEN actsLeft' = actsLeft ELSE Act("refuse")
        \/ ~none /\ stage' = "told" /\ root' = "active" /\ actsLeft' = actsLeft

\* Paused, nothing new launches, but the turns already out still end their
\* steps; a paused team gives the run its pause.
Step ==
  /\ stage = "step"
  /\ \/ /\ run.status = "paused" /\ stage' = "settle" /\ run' = run
     \/ /\ run.status \notin Unfinished /\ stage' = "idle" /\ run' = run
     \/ /\ run.status = "running" /\ paused
        /\ run' = [Settled(run) EXCEPT !.status = "paused"] /\ stage' = "idle"
     \/ /\ run.status = "running" /\ ~paused
        /\ run' = Settled(run) /\ stage' = "open"
  /\ UNCHANGED <<turn, own, root, paused, asked, rest, asks, timers, life, history, actsLeft>>

\* The steps whose dependencies ended; a skip can open the next one.
Openable == {n \in Steps : /\ run.node[n] = "waiting" /\ NoExec(run, n)
                           /\ \A d \in After[n] : run.node[d] \in {"done", "skipped"}}

Open ==
  /\ stage = "open"
  /\ IF Openable = {}
     THEN stage' = "launch" /\ run' = run
     ELSE \E n \in Openable, o \in Openings :
            /\ run' = [run EXCEPT !.node[n] = o, !.told = @ \ {n},
                 !.st = [x \in Execs |-> IF StepOf[x] = n /\ o = "running" THEN "waiting" ELSE @[x]]]
            /\ stage' = stage
  /\ UNCHANGED <<turn, own, root, paused, asked, rest, asks, timers, life, history, actsLeft>>

\* An output correction waits for the thread to be idle.
Ready == {x \in Execs : run.st[x] = "waiting" /\ (x \in run.fix => turn[x] = "none")}
MayLaunch == /\ run.status = "running" /\ ~Halted(run)
             /\ Cardinality(Working(run)) < Limit /\ Ready # {}

\* The execution is saved as running, then its turn is opened; a refusal fails it.
Launched(x, st) ==
  [run EXCEPT !.st[x] = st, !.why[x] = "none", !.made = @ \union {x}, !.fix = @ \ {x},
              !.tried = IF x \in run.fix THEN @ ELSE @ \ {x}, !.told = @ \ {x}]

Launch ==
  /\ stage = "launch"
  /\ IF ~MayLaunch
     THEN stage' = "settle" /\ UNCHANGED <<run, turn, actsLeft>>
     ELSE \E x \in Ready :
          /\ \A y \in Ready : x <= y
          /\ stage' = stage
          /\ \/ /\ core = "up" /\ turn[x] = "none"
                /\ run' = Launched(x, "running") /\ turn' = [turn EXCEPT ![x] = "queued"]
                /\ actsLeft' = actsLeft
             \/ /\ IF core = "up" /\ turn[x] = "none" THEN Act("refuse") ELSE actsLeft' = actsLeft
                /\ run' = Launched(x, "failed") /\ turn' = turn
  /\ UNCHANGED <<own, root, paused, asked, rest, asks, timers, life, history>>

Settle ==
  /\ stage = "settle"
  /\ LET r == SettledRun(run)
     IN IF r.status \in {"done", "failed"} THEN Deliver(r) ELSE Tell(r)
  /\ UNCHANGED <<turn, own, paused, asked, rest, asks, timers, life, lapsed, torn>>

\* The turn of the root is open; the record follows.
Record ==
  /\ stage \in {"handed", "told"} /\ stage' = "idle"
  /\ run' = IF stage = "handed" THEN [run EXCEPT !.delivered = TRUE, !.held = FALSE]
            ELSE [run EXCEPT !.told = @ \union Unnoticed(run)]
  /\ UNCHANGED <<turn, own, root, paused, asked, rest, asks, timers, life, history, actsLeft>>

\* A 0 ms timer, or a worktree that settled.
Fire(t) ==
  /\ Serves /\ t \in timers /\ timers' = timers \ {t}
  /\ \/ t = "advance" /\ stage' = "step" /\ UNCHANGED <<run, root, refused, actsLeft>>
     \/ t = "settle" /\ stage' = "settle" /\ UNCHANGED <<run, root, refused, actsLeft>>
     \/ t = "deliver" /\ Deliver(run)
     \/ t = "tell" /\ Tell(run)
  /\ UNCHANGED <<turn, own, paused, asked, rest, asks, life, lapsed, torn>>

-----------------------------------------------------------------------------
(* The turns of the steps.                                                 *)

\* A turn the run did not launch, started in a step's thread: the run takes it,
\* for an execution that a restart cut or that failed or was stopped by itself.
Back(r, x) == \/ r.st[x] = "waiting" /\ x \notin r.fix /\ r.why[x] = "cut"
              \/ Broken(r.st[x]) /\ r.why[x] # "held"
\* Mutant: a run that was stopped takes it too.
TakesStopped(r, x) == Back(r, x)

Takes(r, x) == r.status \in {"running", "paused", "failed"} /\ Back(r, x)

Adopted(r, x) ==
  LET again == {y \in Execs : r.st[y] = "stopped" /\ r.why[y] = "held"}
      st == [y \in Execs |-> IF y = x THEN "running" ELSE IF y \in again THEN "waiting" ELSE r.st[y]]
      opens(n) == n = StepOf[x] \/ (Broken(r.node[n]) /\ \E y \in ExecsOf(n) : st[y] = "waiting")
  IN IF ~Takes(r, x) THEN r
     ELSE [r EXCEPT !.st = st, !.told = @ \ {x},
                    !.why = [y \in Execs |-> IF y = x \/ y \in again THEN "none" ELSE @[y]],
                    !.node = [n \in Steps |-> IF opens(n) THEN "running" ELSE @[n]],
                    !.status = IF @ = "failed" THEN "running" ELSE @,
                    !.delivered = @ /\ r.status # "failed", !.held = @ /\ r.status # "failed"]

TurnStarts(x) ==
  /\ Quiet /\ core = "up" /\ ~paused /\ turn[x] = "queued"
  /\ turn' = [turn EXCEPT ![x] = "running"] /\ run' = Adopted(run, x)
  /\ own' = IF run'.st[x] = "running" THEN own \ {x} ELSE own
  /\ UNCHANGED <<root, paused, memory, life, history, actsLeft>>

\* What the end of a turn makes of its execution.
CutByHandoff(x, outcome) ==
  run.st[x] = "running" /\ outcome = "stopped" /\ core = "handing" /\ run.status \in Unfinished
Corrects(x, outcome) == run.st[x] = "running" /\ outcome = "bad" /\ x \notin run.tried
AfterTurn(x, outcome) ==
  IF run.st[x] # "running" THEN run
  ELSE IF CutByHandoff(x, outcome) THEN [run EXCEPT !.st[x] = "waiting", !.why[x] = "cut"]
  ELSE IF Corrects(x, outcome)
       THEN [run EXCEPT !.st[x] = "waiting", !.fix = @ \union {x}, !.tried = @ \union {x}]
  ELSE [run EXCEPT !.st[x] = IF outcome = "bad" THEN "failed" ELSE outcome]

\* Mutant: a worktree that settled does not move the run on.
GoesOnUntold(x, later) ==
  /\ timers' = IF later THEN timers \union {"advance"} ELSE timers
  /\ stage' = IF later \/ StepOf[x] \in Worktrees THEN stage ELSE "step"

\* #ended: the run goes on at once, or once the worktree settled; a correction
\* once the thread is idle.
GoesOn(x, later) ==
  IF later \/ StepOf[x] \in Worktrees
  THEN timers' = timers \union {"advance"} /\ stage' = stage
  ELSE stage' = "step" /\ timers' = timers

Closes(x, outcome) ==
  /\ turn' = [turn EXCEPT ![x] = "none"] /\ own' = own \ {x} /\ asked' = asked \ {x}
  /\ run' = AfterTurn(x, outcome) /\ torn' = torn \ {x}
  /\ IF CutByHandoff(x, outcome) THEN UNCHANGED <<stage, timers>>
     ELSE GoesOn(x, Corrects(x, outcome))

\* A handoff stops the turns between two tool calls.
TurnEnds(x) ==
  /\ Serves /\ turn[x] = "running"
  /\ \/ Closes(x, "done") \/ Closes(x, "failed")
     \/ StepOf[x] \in Shaped /\ Closes(x, "bad")
     \/ (x \in asked \/ core = "handing") /\ Closes(x, "stopped")
  /\ UNCHANGED <<root, paused, rest, asks, life, lapsed, refused, actsLeft>>

\* Queued turns of a core that hands over are dropped.
QueuedDropped(x) ==
  /\ Serves /\ core = "handing" /\ turn[x] = "queued" /\ Closes(x, "stopped")
  /\ UNCHANGED <<root, paused, rest, asks, life, lapsed, refused, actsLeft>>

\* A turn that ends on background work is a checkpoint.
Rests(x) ==
  /\ Serves /\ turn[x] = "running" /\ x \notin asked /\ run.st[x] = "running" /\ Act("rest")
  /\ turn' = [turn EXCEPT ![x] = "none"] /\ own' = own \ {x} /\ rest' = [rest EXCEPT ![x] = "live"]
  /\ UNCHANGED <<run, root, paused, asked, stage, asks, timers, life, history>>

\* The work wakes its agent with a turn.
WorkWakes(x) ==
  /\ Quiet /\ core = "up" /\ rest[x] = "live" /\ ~paused
  /\ rest' = [rest EXCEPT ![x] = "none"] /\ turn' = [turn EXCEPT ![x] = "queued"]
  /\ UNCHANGED <<run, own, root, paused, asked, stage, asks, timers, life, history, actsLeft>>

\* The work completed without waking it: it is asked, unless the run or the
\* team is paused; the run then takes the team's pause.
WorkDone(x) ==
  /\ Quiet /\ core = "up" /\ rest[x] = "live"
  /\ IF run.status = "running" /\ ~paused
     THEN turn' = [turn EXCEPT ![x] = "queued"] /\ rest' = [rest EXCEPT ![x] = "none"]
     ELSE turn' = turn /\ rest' = [rest EXCEPT ![x] = "due"]
  /\ stage' = IF run.status = "running" /\ paused THEN "step" ELSE stage
  /\ UNCHANGED <<run, own, root, paused, asked, asks, timers, life, history, actsLeft>>

\* An execution that ends between turns (#rested).
EndsResting(x, outcome) ==
  /\ rest' = [rest EXCEPT ![x] = "none"]
  /\ IF core = "up" /\ run.status # "stopped" /\ run.st[x] = "running"
     THEN run' = [run EXCEPT !.st[x] = outcome] /\ torn' = torn \ {x} /\ GoesOn(x, FALSE)
     ELSE UNCHANGED <<run, torn, stage, timers>>

\* The work ended without waking its agent.
WorkLost(x) ==
  /\ Quiet /\ core = "up" /\ rest[x] = "live" /\ EndsResting(x, "failed")
  /\ UNCHANGED <<turn, own, root, paused, asked, asks, life, lapsed, refused, actsLeft>>

-----------------------------------------------------------------------------
(* What users do.                                                          *)

\* Mutant: only a paused run is looked at.
RedeliverPaused(r) == paused /\ ~r.delivered /\ r.status = "paused" /\ AllOver(r)

\* Lifting the team's pause looks for a summary it held.
Redeliver(r) == /\ paused /\ ~r.delivered
                /\ \/ r.status = "paused" /\ AllOver(r)
                   \/ r.status \in {"done", "failed"} /\ r.held
TeamGoesOn == /\ paused' = FALSE /\ refused' = FALSE
              /\ timers' = IF Redeliver(run) THEN timers \union {"settle"} ELSE timers

TeamPauses ==
  /\ Serves /\ ~paused /\ Act("team") /\ paused' = TRUE
  /\ UNCHANGED <<run, turn, own, root, memory, life, history>>
TeamResumes ==
  /\ Serves /\ paused /\ TeamGoesOn
  /\ UNCHANGED <<run, turn, own, root, asked, rest, stage, asks, life, lapsed, torn, actsLeft>>

\* A control ends in #advance, then asks the steps whose work completed meanwhile.
Pause ==
  /\ Serves /\ run.status = "running" /\ Act("pause")
  /\ run' = [run EXCEPT !.status = "paused"] /\ stage' = "step" /\ asks' = TRUE
  /\ UNCHANGED <<turn, own, root, paused, asked, rest, timers, life, history>>

Resume ==
  /\ Serves /\ run.status = "paused" /\ "resume" \in Acts
  /\ TeamGoesOn /\ run' = [run EXCEPT !.status = "running"] /\ stage' = "step" /\ asks' = TRUE
  /\ UNCHANGED <<turn, own, root, asked, rest, life, lapsed, torn, actsLeft>>

\* Mutant: a resume asks nobody.
AskNobody ==
  /\ stage = "idle" /\ asks /\ asks' = FALSE
  /\ UNCHANGED <<durable, asked, rest, stage, timers, life, history, actsLeft>>

AskWoken ==
  /\ stage = "idle" /\ asks /\ asks' = FALSE
  /\ LET D == {x \in Working(run) : rest[x] = "due" /\ run.status = "running" /\ core = "up"}
     IN /\ turn' = [x \in Execs |-> IF x \in D THEN "queued" ELSE turn[x]]
        /\ rest' = [x \in Execs |-> IF x \in D THEN "none" ELSE rest[x]]
  /\ UNCHANGED <<run, own, root, paused, asked, stage, timers, life, history, actsLeft>>

\* The failed executions wait again, and those held back with them; refused
\* while another failure holds the run.
Retried(targets) ==
  LET broken(x) == StepOf[x] \in targets /\ Broken(run.st[x])
      heldBack(x) == ~broken(x) /\ run.st[x] = "stopped" /\ run.why[x] = "held"
      st == [x \in Execs |-> IF broken(x) \/ heldBack(x) THEN "waiting" ELSE run.st[x]]
      node(n) == IF n \in targets /\ NoExec(run, n) /\ Broken(run.node[n]) THEN "waiting"
                 ELSE IF \E x \in ExecsOf(n) : st[x] = "waiting" THEN "running"
                 ELSE IF run.node[n] = "stopped" /\ NoExec(run, n) THEN "waiting"
                 ELSE run.node[n]
  IN [run EXCEPT !.st = st, !.node = [n \in Steps |-> node(n)],
                 !.fix = {x \in @ : ~broken(x)},
                 !.why = [x \in Execs |-> IF heldBack(x) THEN "none" ELSE @[x]],
                 !.status = "running", !.delivered = FALSE]

Faulty == {n \in Steps : Broken(run.node[n]) \/ \E x \in ExecsOf(n) : Broken(run.st[x])}

Retry ==
  /\ Serves /\ run.status # "done" /\ Act("retry")
  /\ \E targets \in {Faulty} \union {{n} : n \in Steps} :
       LET r == Retried(targets) IN
       /\ ~Halted(r) /\ run' = r
  /\ TeamGoesOn /\ stage' = "step" /\ asks' = TRUE
  /\ UNCHANGED <<turn, own, root, asked, rest, life, lapsed, torn>>

\* The stop is recorded first: the turns it stops end into a run that is over.
Stop ==
  /\ Serves /\ run.status \in Unfinished /\ Act("stop")
  /\ LET waits == {x \in Execs : run.st[x] = "waiting"}
     IN run' = [run EXCEPT !.st = [x \in Execs |-> IF x \in waits THEN "stopped" ELSE @[x]],
                           !.why = [x \in Execs |-> IF x \in waits THEN "none" ELSE @[x]],
                           !.fix = @ \ waits,
                           !.node = [n \in Steps |-> IF @[n] = "waiting" THEN "stopped" ELSE @[n]],
                           !.status = "stopped", !.delivered = TRUE]
  /\ stage' = "stopping"
  /\ UNCHANGED <<turn, own, root, paused, asked, rest, asks, timers, life, history>>

StopSteps ==
  /\ stage = "stopping" /\ stage' = "idle"
  /\ LET w == Working(run)
         st == [x \in Execs |-> IF x \in w THEN "stopped" ELSE run.st[x]]
         verdict(n) == IF \E x \in ExecsOf(n) : st[x] = "failed" THEN "failed"
                       ELSE IF \A x \in ExecsOf(n) : st[x] = "done" THEN "done" ELSE "stopped"
     IN /\ turn' = [x \in Execs |-> IF x \in w /\ turn[x] = "queued" THEN "none" ELSE turn[x]]
        /\ asked' = asked \union {x \in w : turn[x] = "running"}
        /\ rest' = [x \in Execs |-> IF x \in w THEN "none" ELSE rest[x]]
        /\ run' = [run EXCEPT !.st = st,
             !.node = [n \in Steps |-> IF @[n] = "running" THEN verdict(n) ELSE @[n]]]
        /\ torn' = torn \ w
  /\ UNCHANGED <<own, root, paused, asks, timers, life, lapsed, refused, actsLeft>>

\* A step stopped in its own conversation.
StopStep(x) ==
  /\ Serves /\ Act("stopstep")
  /\ \/ /\ turn[x] = "running" /\ x \notin asked /\ asked' = asked \union {x}
        /\ UNCHANGED <<run, turn, own, rest, torn, stage, timers>>
     \/ turn[x] = "queued" /\ Closes(x, "stopped") /\ rest' = rest
     \/ /\ turn[x] = "none" /\ rest[x] # "none" /\ EndsResting(x, "stopped")
        /\ UNCHANGED <<turn, own, asked>>
  /\ UNCHANGED <<root, paused, asks, life, lapsed, refused>>

\* A prompt sent to a step's conversation.
SendToStep(x) ==
  /\ Quiet /\ core = "up" /\ ~paused /\ x \in run.made /\ turn[x] = "none" /\ Act("sendstep")
  /\ turn' = [turn EXCEPT ![x] = "queued"] /\ rest' = [rest EXCEPT ![x] = "none"]
  /\ own' = IF run.st[x] = "running" THEN own ELSE own \union {x}
  /\ UNCHANGED <<run, root, paused, asked, stage, asks, timers, life, history>>

RootStarts ==
  /\ Quiet /\ core = "up" /\ root = "idle" /\ Act("rootturn") /\ root' = "active"
  /\ refused' = FALSE
  /\ UNCHANGED <<run, turn, own, paused, memory, life, lapsed, torn>>

\* The end of the root's turn tells what its runs still hold back.
RootTimers(r) ==
  IF r.delivered THEN {}
  ELSE IF r.status \in {"done", "failed"} THEN {"deliver"}
  ELSE IF Unnoticed(r) # {} THEN {"tell"} ELSE {}
RootEnds ==
  /\ Serves /\ root = "active" /\ root' = "idle"
  /\ timers' = timers \union RootTimers(run) /\ lapsed' = FALSE
  /\ UNCHANGED <<run, turn, own, paused, asked, rest, stage, asks, life, refused, torn, actsLeft>>

-----------------------------------------------------------------------------
(* The cores.                                                              *)

\* From here on nothing starts a turn; the running ones are asked to stop.
BeginHandoff ==
  /\ Quiet /\ core = "up" /\ resumed /\ coresLeft > 0 /\ Act("handoff")
  /\ core' = "handing" /\ handed' = TRUE
  /\ UNCHANGED <<durable, memory, resumed, recover, coresLeft, history>>

CoreEnds ==
  /\ core' = "down" /\ stage' = "idle" /\ asks' = FALSE /\ timers' = {} /\ recover' = {}
  /\ asked' = {} /\ own' = own /\ rest' = [x \in Execs |-> "none"]
  /\ torn' = IF stage = "stopping" THEN torn \union {x \in Working(run) : turn[x] = "none"} ELSE torn
  /\ UNCHANGED <<run, turn, root, paused, handed, resumed, coresLeft, lapsed, refused>>

\* The rows of a handed-over core are closed, or its grace ran out.
Exit == core = "handing" /\ Quiet /\ CoreEnds /\ actsLeft' = actsLeft
\* A kill, between any two writes.
Crash ==
  /\ core # "down" /\ coresLeft > 0 /\ Act("crash") /\ CoreEnds
  /\ stage \in {"idle", "launch", "handed", "told", "stopping"}

\* The constructor: what was running waits again; with no handoff the run pauses.
Boot ==
  /\ core = "down" /\ core' = "up" /\ coresLeft' = coresLeft - 1 /\ resumed' = FALSE
  /\ LET w == IF run.status \in Unfinished THEN Working(run) ELSE {}
     IN run' = [run EXCEPT !.st = [x \in Execs |-> IF x \in w THEN "waiting" ELSE @[x]],
                           !.why = [x \in Execs |-> IF x \in w THEN "cut" ELSE @[x]],
                           !.status = IF @ = "running" /\ ~handed THEN "paused" ELSE @]
        /\ torn' = torn \ w
  /\ recover' = {x \in Execs : turn[x] # "none"} \union (IF root = "active" THEN {0} ELSE {})
  /\ lapsed' = (run.status \in {"done", "failed"} /\ ~run.delivered) /\ refused' = FALSE
  /\ UNCHANGED <<turn, own, root, paused, memory, handed, actsLeft>>

\* Recovery closes every open row; the closing reaches the run's handler.
Recover(x) ==
  /\ core = "up" /\ stage = "idle" /\ x \in recover /\ recover' = recover \ {x}
  /\ IF x = 0
     THEN /\ root' = "idle" /\ timers' = timers \union RootTimers(run) /\ lapsed' = FALSE
          /\ UNCHANGED <<run, turn, own, asked, stage, torn>>
     ELSE Closes(x, "failed") /\ UNCHANGED <<root, lapsed>>
  /\ UNCHANGED <<refused, paused, rest, asks, handed, core, resumed, coresLeft, actsLeft>>

\* The server listens: what was handed over goes on.
ServerUp ==
  /\ core = "up" /\ Quiet /\ ~resumed /\ resumed' = TRUE /\ handed' = FALSE
  /\ stage' = IF run.status = "running" THEN "step" ELSE stage
  /\ UNCHANGED <<durable, asked, rest, asks, timers, core, recover, coresLeft, history, actsLeft>>

-----------------------------------------------------------------------------
Loop == Step \/ Open \/ Launch \/ Settle \/ Record \/ AskWoken \/ StopSteps
          \/ \E t \in {"advance", "settle", "deliver", "tell"} : Fire(t)
Turns == \E x \in Execs : \/ TurnStarts(x) \/ TurnEnds(x) \/ QueuedDropped(x)
                          \/ Rests(x) \/ WorkWakes(x) \/ WorkDone(x) \/ WorkLost(x)
Users == \/ TeamPauses \/ TeamResumes \/ Pause \/ Resume \/ Retry \/ Stop
         \/ RootStarts \/ RootEnds
         \/ \E x \in Execs : StopStep(x) \/ SendToStep(x)
Cores == BeginHandoff \/ Exit \/ Crash \/ Boot \/ ServerUp \/ \E x \in Execs \union {0} : Recover(x)

Next == Loop \/ Turns \/ Users \/ Cores
Safe == Init /\ [][Next]_vars

\* The event loop goes on; a queued turn starts when it may, a running one that
\* does not go on resting ends; background work ends one way or another; a
\* handoff's grace runs out, and what starts a core again does.
Fairness ==
  /\ WF_vars(Loop)
  /\ \A x \in Execs : /\ WF_vars(TurnStarts(x)) /\ SF_vars(TurnEnds(x))
                      /\ WF_vars(WorkWakes(x) \/ WorkDone(x) \/ WorkLost(x))
  /\ WF_vars(Exit) /\ WF_vars(Boot) /\ WF_vars(ServerUp)
  /\ WF_vars(\E x \in Execs \union {0} : Recover(x))
Spec == Safe /\ Fairness

-----------------------------------------------------------------------------
(* What must hold.                                                         *)

\* An execution that reads running while its run is unfinished has an open
\* turn or background work that will answer; work that completed without
\* waking it waits unasked only while the run is paused (workflows.ts #step,
\* unwoken, #rested, the constructor).  Not so what a death between the two
\* writes of #stop left running (EveryStepWorks).
Answered(x) ==
  turn[x] # "none" \/ rest[x] = "live" \/ (rest[x] = "due" /\ run.status = "paused")
StepWorks ==
  core = "up" /\ Quiet /\ run.status \in Unfinished => \A x \in Working(run) \ torn : Answered(x)

\* The result of a run that ended by itself is on its way to the root: the
\* root is at work and its end tells, a timer is set, or it was refused and the
\* record says so: by the team's pause, whose lifting tells, or by a reason of
\* the root's own since its last turn, whose next end tells (workflows.ts
\* #deliver, #redeliver, #turnFinished).  A result an earlier core left waits
\* for the root's next turn (README).
ResultsCarried ==
  core = "up" /\ resumed /\ Quiet /\ run.status \in {"done", "failed"} /\ ~run.delivered =>
    root = "active" \/ timers # {} \/ (run.held /\ (paused \/ refused)) \/ lapsed

\* Stop reaches every turn the run has out, a kill inside it included: once the run
\* is over, what still runs in a step's thread was told to stop or is the user's own
\* (workflows.ts #stop), as any turn is of a step that `torn' had left without one.
StopReaches ==
  core # "down" /\ Quiet /\ run.status = "stopped" =>
    \A x \in Execs : turn[x] # "none" => x \in asked \union own \union torn

\* A running run is never left with nothing that moves it: it ends, pauses or
\* meets the team's pause, through corrections, refusals, adopted turns and
\* restarts (workflows.ts #advance, #ended, resumeAfterRestart).
RunEnds == run.status = "running" ~> (run.status # "running" \/ paused \/ torn # {})

-----------------------------------------------------------------------------
(* What a comment or the docs say, and the code does otherwise (README).   *)

\* "nothing new launches while the core stops" (workflows.ts:553): a step that
\* ends by itself in a handoff's grace fails no execution that waits.
HandoffFailsNone ==
  [][core = "handing" => \A x \in Execs : run.st[x] = "waiting" => run'.st[x] # "failed"]_vars

\* "When the owner stops a step, the run fails with it" (docs/workflows.md:220):
\* the next core does not run it again.
OwnerStopStands ==
  [][\A x \in asked : core # "down" /\ run.st[x] = "running" => run'.why[x] # "cut"]_vars

\* "retry runs them again" (docs/workflows.md:204): no execution of a retry
\* fails because the turn its Stop ended is still closing.
RetryRuns ==
  [][\A x \in Execs : core = "up" /\ x \in asked /\ run.st[x] = "waiting" => run'.st[x] # "failed"]_vars

\* "An interrupted step waits on its own thread, so a resume runs it again"
\* (workflows.ts:78): a step that rested when the core died inside a Stop is left
\* running in a stopped run, and a retry of the others waits for it for ever.
EveryStepWorks ==
  core = "up" /\ Quiet /\ run.status \in Unfinished => \A x \in Working(run) : Answered(x)
=============================================================================
