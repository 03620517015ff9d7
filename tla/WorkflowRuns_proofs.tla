------------------------- MODULE WorkflowRuns_proofs -------------------------
(***************************************************************************)
(* What holds of a workflow run for every plan, limit and number of        *)
(* disturbances: a stop reaches every turn the run has out, a step that    *)
(* reads running has something that will answer, and the result of a run   *)
(* that ended by itself is under way to the root.  Wherever a core dies,   *)
(* the two writes of #stop included: what a death between them left        *)
(* running is told apart (torn), and it is all that is.                    *)
(***************************************************************************)
EXTENDS WorkflowRuns, TLAPS

Statuses == {"running", "paused", "done", "failed", "stopped"}
NodeStates == {"waiting", "running", "skipped", "done", "failed", "stopped"}
ExecStates == {"unopened", "waiting", "running", "done", "failed", "stopped"}
Reasons == {"none", "cut", "held"}
Runs == [status : Statuses, node : [Steps -> NodeStates], st : [Execs -> ExecStates],
         why : [Execs -> Reasons], made : SUBSET Execs, fix : SUBSET Execs,
         tried : SUBSET Execs, told : SUBSET (Steps \union Execs),
         delivered : BOOLEAN, held : BOOLEAN]
Stages == {"idle", "step", "open", "launch", "settle", "handed", "told", "stopping"}
Timers == {"advance", "settle", "deliver", "tell"}

TypeOK ==
  /\ run \in Runs
  /\ turn \in [Execs -> {"none", "queued", "running"}]
  /\ own \subseteq Execs /\ root \in {"idle", "active"} /\ paused \in BOOLEAN
  /\ asked \subseteq Execs /\ rest \in [Execs -> {"none", "live", "due"}]
  /\ stage \in Stages /\ asks \in BOOLEAN /\ timers \subseteq Timers
  /\ handed \in BOOLEAN /\ core \in {"up", "handing", "down"} /\ resumed \in BOOLEAN
  /\ recover \subseteq Execs \union {0} /\ coresLeft \in Int
  /\ lapsed \in BOOLEAN /\ refused \in BOOLEAN /\ torn \subseteq Execs /\ actsLeft \in Nat

USE DEF history

-----------------------------------------------------------------------------
(* The inductive invariant.                                                *)

\* An open turn is the user's, told to stop, left to recovery, or its
\* execution reads running.
Accounted ==
  core # "down" =>
    \A x \in Execs : turn[x] # "none" => x \in asked \union own \union recover \/ run.st[x] = "running"

\* A run that is over has nothing that reads running, but for what a death inside
\* #stop left: recovery closes it, or it had no turn to close.
OverIsOver ==
  /\ run.status \in {"done", "failed"} => Working(run) = {}
  /\ run.status = "stopped" /\ stage # "stopping" =>
       \A x \in Working(run) : x \in torn \union recover \/ (core = "down" /\ turn[x] # "none")

\* What was left so still reads running.
TornWorks == torn \subseteq Working(run)

\* Background work belongs to an execution that reads running, between turns.
RestTells == \A x \in Execs : rest[x] # "none" => run.st[x] = "running" /\ turn[x] = "none"

\* What the places of the control tell.
Places ==
  /\ stage = "stopping" => run.status = "stopped" /\ recover = {} /\ core # "down"
  /\ core = "down" => stage = "idle" /\ recover = {} /\ \A x \in Execs : rest[x] = "none"
  /\ \A x \in recover \ {0} : turn[x] # "none"

\* An execution that reads running has a turn or background work.
Carried ==
  core = "up" /\ run.status \in Unfinished =>
    \A x \in Working(run) \ torn : turn[x] # "none" \/ rest[x] # "none"

\* Work that completed waits unasked only in a paused run, or in one that is
\* about to ask it or to pause.
DueTells ==
  core = "up" =>
    \A x \in Execs : rest[x] = "due" =>
      run.status \in {"paused", "stopped"} \/ asks \/ (stage = "step" /\ paused)

IInv == TypeOK /\ Accounted /\ OverIsOver /\ TornWorks /\ RestTells /\ Places /\ Carried /\ DueTells

LEMMA InitIInv == Init => IInv
<1> SUFFICES ASSUME Init PROVE IInv
  OBVIOUS
<1>1. run \in Runs
  BY DEF Init, Runs, Statuses, NodeStates, ExecStates, Reasons
<1>2. TypeOK
  <2>1. /\ paused \in BOOLEAN /\ asks \in BOOLEAN /\ handed \in BOOLEAN /\ resumed \in BOOLEAN
        /\ lapsed \in BOOLEAN /\ refused \in BOOLEAN
    BY Zenon DEF Init
  <2> QED BY <1>1, <2>1, WorkflowAssumption DEF Init, TypeOK, Stages, Timers
<1>3. Accounted /\ RestTells /\ Places
  BY DEF Init, Accounted, RestTells, Places
<1>4. OverIsOver /\ TornWorks /\ Carried /\ DueTells
  BY DEF Init, OverIsOver, TornWorks, Carried, DueTells, Working
<1> QED BY <1>2, <1>3, <1>4 DEF IInv

-----------------------------------------------------------------------------
(* What the operators on the record keep.                                  *)

\* The same executions read running.
SameWork(r, s) == \A x \in Execs : s.st[x] = "running" <=> r.st[x] = "running"

LEMMA SameWorking ==
  ASSUME NEW r, NEW s, SameWork(r, s) PROVE Working(s) = Working(r)
BY DEF SameWork, Working

LEMMA SettledKeeps ==
  ASSUME NEW r \in Runs
  PROVE  Settled(r) \in Runs /\ SameWork(r, Settled(r)) /\ Settled(r).status = r.status
<1> DEFINE closes(n) == /\ r.node[n] = "running" /\ ~NoExec(r, n)
                        /\ \/ \A x \in ExecsOf(n) : Ended(r.st[x])
                           \/ Halted(r) /\ \A x \in ExecsOf(n) : r.st[x] # "running"
           heldBack == {x \in Execs : closes(StepOf[x]) /\ r.st[x] = "waiting"}
           st == [x \in Execs |-> IF x \in heldBack THEN "stopped" ELSE r.st[x]]
           some(n, s) == \E x \in ExecsOf(n) : st[x] = s
           verdict(n) == IF some(n, "failed") THEN "failed" ELSE IF some(n, "stopped") THEN "stopped" ELSE "done"
           why == [x \in Execs |-> IF x \in heldBack THEN "held" ELSE r.why[x]]
           node == [n \in Steps |-> IF closes(n) THEN verdict(n) ELSE r.node[n]]
<1>1. Settled(r) = [r EXCEPT !.st = st, !.why = why, !.node = node]
  BY DEF Settled
<1>2. st \in [Execs -> ExecStates] /\ \A x \in Execs : st[x] = "running" <=> r.st[x] = "running"
  <2> HIDE DEF closes
  <2> QED BY DEF Runs, ExecStates
<1>3. why \in [Execs -> Reasons]
  <2> HIDE DEF closes
  <2> QED BY DEF Runs, Reasons
<1>4. node \in [Steps -> NodeStates]
  <2>1. \A n \in Steps : verdict(n) \in NodeStates
    <3> HIDE DEF st
    <3> QED BY DEF NodeStates
  <2> HIDE DEF closes, verdict
  <2> QED BY <2>1 DEF Runs
<1> HIDE DEF st, why, node
<1> QED BY <1>1, <1>2, <1>3, <1>4 DEF Runs, SameWork

LEMMA SettledRunKeeps ==
  ASSUME NEW r \in Runs
  PROVE  /\ SettledRun(r) \in Runs /\ SameWork(r, SettledRun(r))
         /\ \/ SettledRun(r).status = r.status
            \/ SettledRun(r).status \in {"done", "failed"} /\ Working(r) = {}
<1> DEFINE s == Settled(r)
<1>1. s \in Runs /\ SameWork(r, s) /\ s.status = r.status
  BY SettledKeeps
<1>2. Working(s) = Working(r)
  BY <1>1, SameWorking
<1>3. \/ SettledRun(r) = s
      \/ Working(s) = {} /\ (SettledRun(r) = [s EXCEPT !.status = "failed"]
                               \/ SettledRun(r) = [s EXCEPT !.status = "done"])
  BY DEF SettledRun
<1> HIDE DEF s
<1> QED BY <1>1, <1>2, <1>3 DEF Runs, Statuses, SameWork

\* Handing over and telling write beside the status and the executions.
LEMMA DeliverKeeps ==
  ASSUME TypeOK, NEW r \in Runs, Deliver(r)
  PROVE  /\ run' \in Runs /\ SameWork(r, run') /\ run'.status = r.status
         /\ stage' \in {"idle", "handed"} /\ root' \in {"idle", "active"}
         /\ refused' \in BOOLEAN /\ actsLeft' \in Nat
<1> DEFINE yes == TRUE
           held == [r EXCEPT !.held = yes]
<1>1. \/ run' = r /\ stage' = "idle" /\ root' = root
      \/ run' = held /\ stage' = "idle" /\ root' = root
      \/ run' = r /\ stage' = "handed" /\ root' = "active"
  BY Zenon DEF Deliver
<1>3. refused' \in BOOLEAN
  <2>1. refused' = refused \/ refused' = ~RootRefused \/ refused' = FALSE
    BY Zenon DEF Deliver
  <2>2. refused \in BOOLEAN /\ (~RootRefused) \in BOOLEAN
    BY Zenon DEF TypeOK, RootRefused
  <2> QED BY <2>1, <2>2
<1>4. actsLeft' \in Nat
  <2>1. actsLeft' = actsLeft \/ (actsLeft > 0 /\ actsLeft' = actsLeft - 1)
    BY Zenon DEF Deliver, Act
  <2> QED BY <2>1 DEF TypeOK
<1>2. held \in Runs /\ held.st = r.st /\ held.status = r.status
  <2>1. yes \in BOOLEAN
    OBVIOUS
  <2> HIDE DEF yes
  <2> QED BY <2>1 DEF Runs
<1> HIDE DEF held
<1> QED BY <1>1, <1>2, <1>3, <1>4 DEF TypeOK, SameWork

LEMMA TellKeeps ==
  ASSUME TypeOK, NEW r \in Runs, Tell(r)
  PROVE  /\ run' \in Runs /\ SameWork(r, run') /\ run'.status = r.status
         /\ stage' \in {"idle", "told"} /\ root' \in {"idle", "active"}
         /\ refused' \in BOOLEAN /\ actsLeft' \in Nat
<1>1. /\ run' = r /\ refused' = refused
      /\ \/ stage' = "idle" /\ root' = root
         \/ stage' = "told" /\ root' = "active"
      /\ actsLeft' = actsLeft \/ (actsLeft > 0 /\ actsLeft' = actsLeft - 1)
  BY DEF Tell, Act
<1> QED BY <1>1 DEF TypeOK, SameWork

LEMMA LaunchedKeeps ==
  ASSUME TypeOK, NEW x \in Execs, NEW s \in {"running", "failed"}
  PROVE  /\ Launched(x, s) \in Runs /\ Launched(x, s).status = run.status
         /\ Launched(x, s).st = [run.st EXCEPT ![x] = s]
BY DEF TypeOK, Launched, Runs, ExecStates, Reasons

\* The run takes a turn: of all executions only that one starts to read running.
LEMMA AdoptedKeeps ==
  ASSUME NEW r \in Runs, NEW x \in Execs
  PROVE  /\ Adopted(r, x) \in Runs
         /\ \A y \in Execs \ {x} : Adopted(r, x).st[y] = "running" <=> r.st[y] = "running"
         /\ r.st[x] = "running" => Adopted(r, x).st[x] = "running"
         /\ \/ Adopted(r, x) = r
            \/ /\ r.status \in {"running", "paused", "failed"}
               /\ Adopted(r, x).status = IF r.status = "failed" THEN "running" ELSE r.status
<1>1. CASE ~Takes(r, x)
  BY <1>1 DEF Adopted
<1>2. CASE Takes(r, x)
  <2> DEFINE again == {y \in Execs : r.st[y] = "stopped" /\ r.why[y] = "held"}
             st == [y \in Execs |-> IF y = x THEN "running" ELSE IF y \in again THEN "waiting" ELSE r.st[y]]
             opens(n) == n = StepOf[x] \/ (Broken(r.node[n]) /\ \E y \in ExecsOf(n) : st[y] = "waiting")
             why == [y \in Execs |-> IF y = x \/ y \in again THEN "none" ELSE r.why[y]]
             node == [n \in Steps |-> IF opens(n) THEN "running" ELSE r.node[n]]
             status == IF r.status = "failed" THEN "running" ELSE r.status
             delivered == r.delivered /\ r.status # "failed"
             held == r.held /\ r.status # "failed"
             told == r.told \ {x}
             made == [r EXCEPT !.st = st, !.told = told, !.why = why, !.node = node, !.status = status,
                               !.delivered = delivered, !.held = held]
  <2>1. Adopted(r, x) = made
    BY <1>2 DEF Adopted
  <2>2. st \in [Execs -> ExecStates] /\ st[x] = "running"
    BY DEF Runs, ExecStates
  <2>3. \A y \in Execs \ {x} : st[y] = "running" <=> r.st[y] = "running"
    BY DEF Runs
  <2>4. why \in [Execs -> Reasons]
    <3> HIDE DEF again
    <3> QED BY DEF Runs, Reasons
  <2>5. node \in [Steps -> NodeStates]
    <3> HIDE DEF opens
    <3> QED BY DEF Runs, NodeStates
  <2>6. status \in Statuses /\ r.status \in {"running", "paused", "failed"}
    BY <1>2 DEF Runs, Statuses, Takes
  <2>7. delivered \in BOOLEAN /\ held \in BOOLEAN /\ told \in SUBSET (Steps \union Execs)
    BY DEF Runs
  <2>8. made \in Runs /\ made.st = st /\ made.status = status
    <3> HIDE DEF st, why, node, delivered, held, told, status
    <3> QED BY <2>2, <2>4, <2>5, <2>6, <2>7 DEF Runs
  <2> HIDE DEF st, made
  <2> QED BY <2>1, <2>2, <2>3, <2>6, <2>8
<1> QED BY <1>1, <1>2

Outcomes == {"done", "failed", "stopped", "bad"}

\* After its turn the execution does not read running.
LEMMA AfterTurnKeeps ==
  ASSUME TypeOK, NEW x \in Execs, NEW outcome \in Outcomes
  PROVE  /\ AfterTurn(x, outcome) \in Runs /\ AfterTurn(x, outcome).status = run.status
         /\ AfterTurn(x, outcome).st[x] # "running"
         /\ \A y \in Execs \ {x} : AfterTurn(x, outcome).st[y] = run.st[y]
BY DEF TypeOK, AfterTurn, CutByHandoff, Corrects, Outcomes, Runs, ExecStates, Reasons

\* A retry puts executions back to waiting, none of them running.
LEMMA RetriedKeeps ==
  ASSUME TypeOK, NEW targets
  PROVE  /\ Retried(targets) \in Runs /\ SameWork(run, Retried(targets))
         /\ Retried(targets).status = "running"
<1> DEFINE broken(x) == StepOf[x] \in targets /\ Broken(run.st[x])
           heldBack(x) == ~broken(x) /\ run.st[x] = "stopped" /\ run.why[x] = "held"
           st == [x \in Execs |-> IF broken(x) \/ heldBack(x) THEN "waiting" ELSE run.st[x]]
           nodeOf(n) == IF n \in targets /\ NoExec(run, n) /\ Broken(run.node[n]) THEN "waiting"
                        ELSE IF \E x \in ExecsOf(n) : st[x] = "waiting" THEN "running"
                        ELSE IF run.node[n] = "stopped" /\ NoExec(run, n) THEN "waiting"
                        ELSE run.node[n]
           node == [n \in Steps |-> nodeOf(n)]
           why == [x \in Execs |-> IF heldBack(x) THEN "none" ELSE run.why[x]]
           fix == {x \in run.fix : ~broken(x)}
           no == FALSE
           made == [run EXCEPT !.st = st, !.node = node, !.fix = fix, !.why = why,
                               !.status = "running", !.delivered = no]
<1>1. Retried(targets) = made
  BY DEF Retried
<1>2. st \in [Execs -> ExecStates] /\ \A x \in Execs : st[x] = "running" <=> run.st[x] = "running"
  BY DEF TypeOK, Runs, ExecStates, Broken
<1>3. node \in [Steps -> NodeStates]
  <2>1. \A n \in Steps : nodeOf(n) \in NodeStates
    <3> HIDE DEF st
    <3> QED BY DEF TypeOK, Runs, NodeStates
  <2> QED BY <2>1
<1>4. why \in [Execs -> Reasons]
  <2> HIDE DEF heldBack
  <2> QED BY DEF TypeOK, Runs, Reasons
<1>5. fix \in SUBSET Execs /\ no \in BOOLEAN
  BY DEF TypeOK, Runs
<1>6. made \in Runs /\ made.st = st /\ made.status = "running"
  <2>1. run \in Runs
    BY DEF TypeOK
  <2> HIDE DEF st, node, why, fix, no
  <2> QED BY <1>2, <1>3, <1>4, <1>5, <2>1 DEF Runs, Statuses
<1> HIDE DEF st, made
<1> QED BY <1>1, <1>2, <1>6 DEF SameWork

-----------------------------------------------------------------------------
(* The steps of #advance.                                                  *)

\* What a step of the loop does to status, executions and place: it launches
\* nothing, and a run that turns out to be over had nothing running.
LEMMA LoopKeeps ==
  ASSUME IInv, TypeOK', core # "down", stage # "stopping", stage' # "stopping",
         UNCHANGED <<turn, own, asked, rest, asks, life, paused, torn>>,
         SameWork(run, run'),
         \/ run'.status = run.status
         \/ run'.status \in {"done", "failed"} /\ Working(run) = {}
         \/ run.status = "running" /\ run'.status = "paused",
         stage = "step" /\ paused /\ run.status = "running" => run'.status = "paused"
  PROVE  IInv'
<1>1. Working(run') = Working(run)
  BY SameWorking
<1>2. \A x \in Execs : run'.st[x] = "running" <=> run.st[x] = "running"
  BY DEF SameWork
<1>3. Accounted' /\ RestTells' /\ Places'
  BY <1>2 DEF IInv, Accounted, RestTells, Places, life
<1>4. OverIsOver' /\ TornWorks'
  BY <1>1 DEF IInv, OverIsOver, TornWorks, life
<1>5. Carried'
  BY <1>1 DEF IInv, Carried, life, Unfinished, OverIsOver
<1>6. DueTells'
  <2> SUFFICES ASSUME core' = "up", NEW x \in Execs, rest'[x] = "due"
               PROVE  run'.status \in {"paused", "stopped"} \/ asks'
    BY DEF DueTells
  <2>1. core = "up" /\ rest[x] = "due"
    BY DEF life
  <2>2. run.status \in {"paused", "stopped"} \/ asks \/ (stage = "step" /\ paused)
    BY <2>1 DEF IInv, DueTells
  <2>3. x \in Working(run)
    BY <2>1 DEF IInv, RestTells, Working
  <2>4. run.status \in Statuses
    BY DEF IInv, TypeOK, Runs
  <2> QED BY <2>2, <2>3, <2>4 DEF IInv, OverIsOver, Statuses
<1> QED BY <1>3, <1>4, <1>5, <1>6 DEF IInv

LEMMA StepKeeps == ASSUME IInv, Step PROVE IInv'
<1>1. run \in Runs
  BY DEF IInv, TypeOK
<1> DEFINE s == Settled(run)
           t == [s EXCEPT !.status = "paused"]
<1>2. s \in Runs /\ SameWork(run, s) /\ s.status = run.status
  BY <1>1, SettledKeeps
<1>3. \/ run.status = "paused" /\ stage' = "settle" /\ run' = run
      \/ run.status \notin Unfinished /\ stage' = "idle" /\ run' = run
      \/ run.status = "running" /\ paused /\ run' = t /\ stage' = "idle"
      \/ run.status = "running" /\ ~paused /\ run' = s /\ stage' = "open"
  BY DEF Step
<1>4. t \in Runs /\ SameWork(run, t) /\ t.status = "paused"
  <2> HIDE DEF s
  <2> QED BY <1>2 DEF Runs, Statuses, SameWork
<1> HIDE DEF s, t
<1>5. run' \in Runs /\ SameWork(run, run')
  BY <1>1, <1>2, <1>3, <1>4 DEF SameWork
<1>6. stage' \in {"idle", "open", "settle"} /\ stage = "step"
  BY <1>3 DEF Step
<1>7. UNCHANGED <<turn, own, root, paused, asked, rest, asks, timers, life, history, actsLeft>>
  BY DEF Step
<1>8. TypeOK'
  BY <1>5, <1>6, <1>7 DEF IInv, TypeOK, life, Stages
<1>9. core # "down"
  BY <1>6 DEF IInv, Places
<1>10. run'.status = run.status \/ (run.status = "running" /\ run'.status = "paused")
  BY <1>2, <1>3, <1>4
<1>11. stage = "step" /\ paused /\ run.status = "running" => run'.status = "paused"
  BY <1>3, <1>4 DEF Unfinished
<1> QED BY <1>5, <1>6, <1>7, <1>8, <1>9, <1>10, <1>11, LoopKeeps

LEMMA OpenKeeps == ASSUME IInv, Open PROVE IInv'
<1>1. run \in Runs
  BY DEF IInv, TypeOK
<1>2. UNCHANGED <<turn, own, root, paused, asked, rest, asks, timers, life, history, actsLeft>>
      /\ stage = "open"
  BY DEF Open
<1>3. run' \in Runs /\ SameWork(run, run') /\ run'.status = run.status /\ stage' \in {"open", "launch"}
  <2>1. CASE Openable = {}
    BY <1>1, <2>1 DEF Open, SameWork
  <2>2. CASE Openable # {}
    <3>1. PICK n \in Openable, o \in Openings :
            /\ run' = [run EXCEPT !.node[n] = o, !.told = @ \ {n},
                 !.st = [x \in Execs |-> IF StepOf[x] = n /\ o = "running" THEN "waiting" ELSE @[x]]]
            /\ stage' = stage
      BY <2>2 DEF Open
    <3>2. n \in Steps /\ \A x \in Execs : StepOf[x] = n => run.st[x] = "unopened"
      BY DEF Openable, NoExec, ExecsOf
    <3>3. o \in NodeStates
      BY WorkflowAssumption DEF NodeStates
    <3> DEFINE st == [x \in Execs |-> IF StepOf[x] = n /\ o = "running" THEN "waiting" ELSE run.st[x]]
    <3>4. st \in [Execs -> ExecStates] /\ \A x \in Execs : st[x] = "running" <=> run.st[x] = "running"
      BY <1>1, <3>2 DEF Runs, ExecStates
    <3> DEFINE node == [run.node EXCEPT ![n] = o]
               told == run.told \ {n}
               made == [run EXCEPT !.node = node, !.told = told, !.st = st]
    <3>5. run' = made
      BY <1>1, <3>1, <3>2 DEF Runs
    <3>6. node \in [Steps -> NodeStates] /\ told \in SUBSET (Steps \union Execs)
      BY <1>1, <3>3 DEF Runs
    <3>7. made \in Runs /\ made.st = st /\ made.status = run.status
      <4> HIDE DEF st, node, told
      <4> QED BY <1>1, <3>4, <3>6 DEF Runs
    <3> HIDE DEF st, made
    <3> QED BY <1>2, <3>1, <3>4, <3>5, <3>7 DEF SameWork
  <2> QED BY <2>1, <2>2
<1>4. TypeOK'
  BY <1>2, <1>3 DEF IInv, TypeOK, life, Stages
<1>5. core # "down"
  BY <1>2 DEF IInv, Places
<1> QED BY <1>2, <1>3, <1>4, <1>5, LoopKeeps

LEMMA SettleKeeps == ASSUME IInv, Settle PROVE IInv'
<1>1. run \in Runs /\ TypeOK
  BY DEF IInv, TypeOK
<1> DEFINE r == SettledRun(run)
<1>2. /\ r \in Runs /\ SameWork(run, r)
      /\ r.status = run.status \/ (r.status \in {"done", "failed"} /\ Working(run) = {})
  BY <1>1, SettledRunKeeps
<1>3. stage = "settle" /\ (Deliver(r) \/ Tell(r))
  BY DEF Settle
<1>4. UNCHANGED <<turn, own, paused, asked, rest, asks, timers, life, lapsed, torn>>
  BY DEF Settle
<1> HIDE DEF r
<1>5. /\ run' \in Runs /\ SameWork(r, run') /\ run'.status = r.status
      /\ stage' \in {"idle", "handed", "told"} /\ root' \in {"idle", "active"}
      /\ refused' \in BOOLEAN /\ actsLeft' \in Nat
  BY <1>1, <1>2, <1>3, DeliverKeeps, TellKeeps
<1>6. SameWork(run, run')
  BY <1>2, <1>5 DEF SameWork
<1>7. TypeOK'
  BY <1>1, <1>4, <1>5 DEF TypeOK, life, Stages
<1>8. core # "down"
  BY <1>3 DEF IInv, Places
<1> QED BY <1>2, <1>3, <1>4, <1>5, <1>6, <1>7, <1>8, LoopKeeps

LEMMA RecordKeeps == ASSUME IInv, Record PROVE IInv'
<1>1. run \in Runs
  BY DEF IInv, TypeOK
<1>2. /\ stage \in {"handed", "told"} /\ stage' = "idle"
      /\ UNCHANGED <<turn, own, root, paused, asked, rest, asks, timers, life, history, actsLeft>>
  BY DEF Record
<1>3. run' \in Runs /\ SameWork(run, run') /\ run'.status = run.status
  <2> DEFINE yes == TRUE
             no == FALSE
             told == run.told \union Unnoticed(run)
  <2>1. run' = [run EXCEPT !.delivered = yes, !.held = no] \/ run' = [run EXCEPT !.told = told]
    BY DEF Record
  <2>2. told \in SUBSET (Steps \union Execs) /\ yes \in BOOLEAN /\ no \in BOOLEAN
    BY <1>1 DEF Runs, Unnoticed
  <2> HIDE DEF yes, no, told
  <2> QED BY <1>1, <2>1, <2>2 DEF Runs, SameWork
<1>4. TypeOK'
  BY <1>2, <1>3 DEF IInv, TypeOK, life, Stages
<1>5. core # "down"
  BY <1>2 DEF IInv, Places
<1> QED BY <1>2, <1>3, <1>4, <1>5, LoopKeeps

LEMMA FireKeeps == ASSUME IInv, NEW t \in Timers, Fire(t) PROVE IInv'
<1>1. run \in Runs /\ TypeOK
  BY DEF IInv, TypeOK
<1>2. /\ core # "down" /\ stage = "idle" /\ timers' = timers \ {t}
      /\ UNCHANGED <<turn, own, paused, asked, rest, asks, life, lapsed, torn>>
  BY DEF Fire, Serves, Quiet
<1>3. /\ run' \in Runs /\ SameWork(run, run') /\ run'.status = run.status
      /\ stage' \in {"idle", "step", "settle", "handed", "told"} /\ root' \in {"idle", "active"}
      /\ refused' \in BOOLEAN /\ actsLeft' \in Nat
  <2>1. CASE UNCHANGED <<run, root, refused, actsLeft>> /\ stage' \in {"step", "settle"}
    BY <1>1, <2>1 DEF TypeOK, SameWork
  <2>2. CASE Deliver(run) \/ Tell(run)
    BY <1>1, <2>2, DeliverKeeps, TellKeeps
  <2> QED BY <2>1, <2>2 DEF Fire
<1>4. TypeOK'
  BY <1>1, <1>2, <1>3 DEF TypeOK, life, Stages
<1> QED BY <1>2, <1>3, <1>4, LoopKeeps

LEMMA LaunchKeeps == ASSUME IInv, Launch PROVE IInv'
<1>1. run \in Runs /\ TypeOK
  BY DEF IInv, TypeOK
<1>2. /\ stage = "launch" /\ core # "down"
      /\ UNCHANGED <<own, root, paused, asked, rest, asks, timers, life, history>>
  BY DEF Launch, IInv, Places
<1>3. CASE ~MayLaunch
  <2>1. stage' = "settle" /\ UNCHANGED <<run, turn, actsLeft>>
    BY <1>3 DEF Launch
  <2>2. SameWork(run, run')
    BY <2>1 DEF SameWork
  <2>3. TypeOK'
    BY <1>1, <1>2, <2>1 DEF TypeOK, life, Stages
  <2> QED BY <1>2, <2>1, <2>2, <2>3, LoopKeeps
<1>4. CASE MayLaunch
  <2>0. PICK x \in Ready :
          /\ stage' = stage
          /\ \/ /\ core = "up" /\ turn[x] = "none"
                /\ run' = Launched(x, "running") /\ turn' = [turn EXCEPT ![x] = "queued"]
                /\ actsLeft' = actsLeft
             \/ /\ IF core = "up" /\ turn[x] = "none" THEN Act("refuse") ELSE actsLeft' = actsLeft
                /\ run' = Launched(x, "failed") /\ turn' = turn
    BY <1>4 DEF Launch
  <2>1. x \in Execs /\ run.st[x] = "waiting" /\ run.status = "running"
    BY <1>4 DEF MayLaunch, Ready
  <2>2. /\ stage' = stage
        /\ \/ core = "up" /\ turn[x] = "none" /\ run' = Launched(x, "running")
              /\ turn' = [turn EXCEPT ![x] = "queued"] /\ actsLeft' = actsLeft
           \/ actsLeft' \in {actsLeft, actsLeft - 1} /\ (actsLeft' # actsLeft => actsLeft > 0)
              /\ run' = Launched(x, "failed") /\ turn' = turn
    BY <1>1, <2>0 DEF TypeOK, Act
  <2>3. PICK s \in {"running", "failed"} :
          /\ run' = Launched(x, s)
          /\ s = "running" => core = "up" /\ turn[x] = "none" /\ turn' = [turn EXCEPT ![x] = "queued"]
          /\ s = "failed" => turn' = turn
    BY <2>2
  <2>4. run' \in Runs /\ run'.status = run.status /\ run'.st = [run.st EXCEPT ![x] = s]
    BY <1>1, <2>1, <2>3, LaunchedKeeps
  <2>5. TypeOK'
    BY <1>1, <1>2, <2>1, <2>2, <2>3, <2>4 DEF TypeOK, life
  <2>6. rest[x] = "none" /\ \A y \in Execs \ {x} : run'.st[y] = run.st[y] /\ turn'[y] = turn[y]
    BY <1>1, <2>1, <2>3, <2>4 DEF IInv, RestTells, TypeOK, Runs
  <2>7. run'.st[x] = s /\ (turn'[x] # "none" => turn[x] # "none" \/ s = "running")
    BY <1>1, <2>1, <2>3, <2>4 DEF TypeOK, Runs
  <2>8. Accounted'
    BY <1>2, <2>1, <2>6, <2>7 DEF IInv, Accounted, life
  <2>9. OverIsOver' /\ DueTells'
    BY <1>2, <2>1, <2>2, <2>4 DEF IInv, OverIsOver, DueTells, life
  <2>13. TornWorks'
    BY <1>2, <2>1, <2>6 DEF IInv, TornWorks, Working
  <2>10. RestTells'
    BY <1>2, <2>6 DEF IInv, RestTells
  <2>11. Places'
    <3>1. \A y \in Execs : turn[y] # "none" => turn'[y] # "none"
      BY <1>1, <2>1, <2>3 DEF TypeOK
    <3>2. recover \ {0} \subseteq Execs
      BY <1>1 DEF TypeOK
    <3> QED BY <1>2, <2>2, <3>1, <3>2 DEF IInv, Places, life
  <2>12. Carried'
    <3> SUFFICES ASSUME core' = "up", NEW y \in Working(run') \ torn'
                 PROVE  turn'[y] # "none" \/ rest'[y] # "none"
      BY DEF Carried
    <3>1. CASE y = x
      <4>1. s = "running"
        BY <2>7, <3>1 DEF Working
      <4> QED BY <1>1, <2>1, <2>3, <3>1, <4>1 DEF TypeOK
    <3>2. CASE y # x
      BY <1>2, <2>1, <2>6, <3>2 DEF IInv, Carried, Working, Unfinished, life
    <3> QED BY <3>1, <3>2
  <2> QED BY <2>5, <2>8, <2>9, <2>10, <2>11, <2>12, <2>13 DEF IInv
<1> QED BY <1>3, <1>4

-----------------------------------------------------------------------------
(* The turns of the steps.                                                 *)

LEMMA TurnStartsKeeps == ASSUME IInv, NEW x \in Execs, TurnStarts(x) PROVE IInv'
<1> DEFINE r == Adopted(run, x)
<1>1. run \in Runs /\ TypeOK
  BY DEF IInv, TypeOK
<1>2. /\ stage = "idle" /\ core = "up" /\ turn[x] = "queued" /\ recover = {}
      /\ turn' = [turn EXCEPT ![x] = "running"] /\ run' = r
      /\ own' \in {own, own \ {x}} /\ (x \notin own' => x \notin own \/ run'.st[x] = "running")
      /\ UNCHANGED <<root, paused, asked, rest, stage, asks, timers, life, history, actsLeft>>
  BY DEF TurnStarts, Quiet, memory
<1>3. /\ r \in Runs
      /\ \A y \in Execs \ {x} : r.st[y] = "running" <=> run.st[y] = "running"
      /\ run.st[x] = "running" => r.st[x] = "running"
      /\ \/ r = run
         \/ /\ run.status \in {"running", "paused", "failed"}
            /\ r.status = IF run.status = "failed" THEN "running" ELSE run.status
  BY <1>1, AdoptedKeeps
<1> HIDE DEF r
<1>4. TypeOK'
  BY <1>1, <1>2, <1>3 DEF TypeOK, life
<1>5. /\ \A y \in Execs \ {x} : turn'[y] = turn[y]
      /\ turn'[x] = "running" /\ rest[x] = "none"
  BY <1>1, <1>2 DEF IInv, RestTells, TypeOK
<1>6. Accounted'
  <2> SUFFICES ASSUME NEW y \in Execs, turn'[y] # "none"
               PROVE  y \in asked' \union own' \union recover' \/ run'.st[y] = "running"
    BY DEF Accounted
  <2>1. y \in asked \union own \union recover \/ run.st[y] = "running"
    BY <1>2, <1>5 DEF IInv, Accounted
  <2> QED BY <1>2, <1>3, <2>1 DEF life
<1>7. OverIsOver'
  BY <1>2, <1>3 DEF IInv, OverIsOver, life
<1>11. TornWorks'
  BY <1>2, <1>3 DEF IInv, TornWorks, Working
<1>8. RestTells' /\ Places'
  BY <1>2, <1>3, <1>5 DEF IInv, RestTells, Places, life
<1>9. Carried'
  <2> SUFFICES ASSUME run'.status \in Unfinished, NEW y \in Working(run') \ torn'
               PROVE  turn'[y] # "none" \/ rest'[y] # "none"
    BY DEF Carried
  <2>1. CASE y = x
    BY <1>5, <2>1
  <2>2. CASE y # x
    <3>1. y \in Working(run)
      BY <1>2, <1>3, <2>2 DEF Working
    <3>2. run.status \in Unfinished
      BY <1>2, <1>3, <3>1 DEF IInv, OverIsOver, Unfinished
    <3> QED BY <1>2, <1>5, <2>2, <3>1, <3>2 DEF IInv, Carried, Working
  <2> QED BY <2>1, <2>2
<1>10. DueTells'
  <2> SUFFICES ASSUME NEW y \in Execs, rest'[y] = "due"
               PROVE  run'.status \in {"paused", "stopped"} \/ asks' \/ (stage' = "step" /\ paused')
    BY DEF DueTells
  <2>1. rest[y] = "due" /\ y \in Working(run)
    BY <1>2 DEF IInv, RestTells, Working
  <2>2. run.status \in {"paused", "stopped"} \/ asks
    BY <1>2, <2>1 DEF IInv, DueTells
  <2> QED BY <1>2, <1>3, <2>1, <2>2
<1> QED BY <1>4, <1>6, <1>7, <1>8, <1>9, <1>10, <1>11 DEF IInv

\* A turn that ends: its execution no longer reads running.
LEMMA ClosesKeeps ==
  ASSUME IInv, NEW x \in Execs, NEW outcome \in Outcomes, Closes(x, outcome),
         turn[x] # "none", core # "down", stage = "idle",
         recover' = recover \ {x},
         UNCHANGED <<root, paused, rest, asks, handed, core, resumed, coresLeft, lapsed, refused>>,
         actsLeft' \in Nat
  PROVE  IInv'
<1>1. run \in Runs /\ TypeOK
  BY DEF IInv, TypeOK
<1>2. /\ turn' = [turn EXCEPT ![x] = "none"] /\ own' = own \ {x} /\ asked' = asked \ {x}
      /\ run' = AfterTurn(x, outcome) /\ torn' = torn \ {x}
      /\ stage' \in {"idle", "step"} /\ timers' \subseteq timers \union {"advance"}
  BY DEF Closes, GoesOn
<1>3. /\ run' \in Runs /\ run'.status = run.status /\ run'.st[x] # "running"
      /\ \A y \in Execs \ {x} : run'.st[y] = run.st[y]
  BY <1>1, <1>2, AfterTurnKeeps
<1>4. TypeOK'
  BY <1>1, <1>2, <1>3 DEF TypeOK, Stages, Timers
<1>5. turn'[x] = "none" /\ \A y \in Execs \ {x} : turn'[y] = turn[y]
  BY <1>1, <1>2 DEF TypeOK
<1>6. rest[x] = "none"
  BY DEF IInv, RestTells
<1>7. Accounted' /\ RestTells'
  BY <1>2, <1>3, <1>5, <1>6 DEF IInv, Accounted, RestTells
<1>8. Places'
  <2>1. recover \subseteq Execs \union {0}
    BY <1>1 DEF TypeOK
  <2> QED BY <1>2, <1>5, <2>1 DEF IInv, Places
<1>9. OverIsOver' /\ TornWorks' /\ Carried'
  BY <1>2, <1>3, <1>5 DEF IInv, OverIsOver, TornWorks, Carried, Working
<1>10. DueTells'
  BY <1>2, <1>3 DEF IInv, DueTells
<1> QED BY <1>4, <1>7, <1>8, <1>9, <1>10 DEF IInv

LEMMA RestsKeeps == ASSUME IInv, NEW x \in Execs, Rests(x) PROVE IInv'
<1>1. run \in Runs /\ TypeOK
  BY DEF IInv, TypeOK
<1>2. /\ stage = "idle" /\ core # "down" /\ run.st[x] = "running" /\ actsLeft' = actsLeft - 1 /\ actsLeft > 0
      /\ turn' = [turn EXCEPT ![x] = "none"] /\ own' = own \ {x} /\ rest' = [rest EXCEPT ![x] = "live"]
      /\ UNCHANGED <<run, root, paused, asked, stage, asks, timers, life, history>> /\ recover = {}
  BY DEF Rests, Act, Serves, Quiet
<1>3. TypeOK'
  BY <1>1, <1>2 DEF TypeOK, life
<1>4. /\ turn'[x] = "none" /\ rest'[x] = "live"
      /\ \A y \in Execs \ {x} : turn'[y] = turn[y] /\ rest'[y] = rest[y]
  BY <1>1, <1>2 DEF TypeOK
<1>5. Accounted' /\ RestTells' /\ Places'
  BY <1>2, <1>4 DEF IInv, Accounted, RestTells, Places, life
<1>6. OverIsOver' /\ TornWorks' /\ Carried' /\ DueTells'
  BY <1>2, <1>4 DEF IInv, OverIsOver, TornWorks, Carried, DueTells, Working, life
<1> QED BY <1>3, <1>5, <1>6 DEF IInv

\* Work that wakes its agent, or that the core asks about.
LEMMA WokenKeeps ==
  ASSUME IInv, TypeOK', NEW D \in SUBSET Execs, \A x \in D : rest[x] # "none",
         turn' = [x \in Execs |-> IF x \in D THEN "queued" ELSE turn[x]],
         rest' = [x \in Execs |-> IF x \in D THEN "none" ELSE rest[x]],
         UNCHANGED <<run, own, paused, asked, stage, life, torn>>,
         core = "up" /\ asks /\ ~asks' =>
           \A x \in Execs \ D : rest[x] = "due" => run.status \in {"paused", "stopped"}
  PROVE  IInv'
<1>1. \A x \in D : run.st[x] = "running"
  BY DEF IInv, RestTells
<1>2. Accounted' /\ RestTells'
  BY <1>1 DEF IInv, Accounted, RestTells, life
<1>3. Places'
  <2>1. recover \subseteq Execs \union {0}
    BY DEF IInv, TypeOK
  <2> QED BY <2>1 DEF IInv, Places, life
<1>4. OverIsOver' /\ TornWorks' /\ Carried'
  BY DEF IInv, OverIsOver, TornWorks, Carried, Working, life
<1>5. DueTells'
  BY DEF IInv, DueTells, life
<1> QED BY <1>2, <1>3, <1>4, <1>5 DEF IInv

LEMMA WorkWakesKeeps == ASSUME IInv, NEW x \in Execs, WorkWakes(x) PROVE IInv'
<1>1. /\ rest[x] = "live" /\ rest' = [rest EXCEPT ![x] = "none"] /\ turn' = [turn EXCEPT ![x] = "queued"]
      /\ UNCHANGED <<run, own, root, paused, asked, stage, asks, timers, life, history, actsLeft>>
  BY DEF WorkWakes
<1>2. TypeOK'
  BY <1>1 DEF IInv, TypeOK, life
<1>3. /\ turn' = [y \in Execs |-> IF y \in {x} THEN "queued" ELSE turn[y]]
      /\ rest' = [y \in Execs |-> IF y \in {x} THEN "none" ELSE rest[y]]
  BY <1>1 DEF IInv, TypeOK
<1> QED BY <1>1, <1>2, <1>3, WokenKeeps

LEMMA AskWokenKeeps == ASSUME IInv, AskWoken PROVE IInv'
<1> DEFINE D == {x \in Working(run) : rest[x] = "due" /\ run.status = "running" /\ core = "up"}
<1>1. /\ asks' = FALSE /\ turn' = [x \in Execs |-> IF x \in D THEN "queued" ELSE turn[x]]
      /\ rest' = [x \in Execs |-> IF x \in D THEN "none" ELSE rest[x]]
      /\ UNCHANGED <<run, own, root, paused, asked, stage, timers, life, history, actsLeft>>
  BY DEF AskWoken
<1>2. D \in SUBSET Execs /\ \A x \in D : rest[x] # "none"
  BY DEF Working
<1>3. TypeOK'
  <2>1. asks' \in BOOLEAN
    BY <1>1
  <2>2. turn' \in [Execs -> {"none", "queued", "running"}] /\ rest' \in [Execs -> {"none", "live", "due"}]
    BY <1>1 DEF IInv, TypeOK
  <2> QED BY <1>1, <2>1, <2>2 DEF IInv, TypeOK, life
<1>4. core = "up" => \A x \in Execs \ D : rest[x] = "due" => run.status \in {"paused", "stopped"}
  <2> SUFFICES ASSUME core = "up", NEW x \in Execs \ D, rest[x] = "due"
               PROVE  run.status \in {"paused", "stopped"}
    OBVIOUS
  <2>1. x \in Working(run)
    BY DEF IInv, RestTells, Working
  <2>2. run.status # "running" /\ run.status \in Statuses
    BY <2>1 DEF IInv, TypeOK, Runs
  <2> QED BY <2>1, <2>2 DEF IInv, OverIsOver, Statuses
<1> HIDE DEF D
<1> QED BY <1>1, <1>2, <1>3, <1>4, WokenKeeps

LEMMA WorkDoneKeeps == ASSUME IInv, NEW x \in Execs, WorkDone(x) PROVE IInv'
<1>0. /\ stage = "idle" /\ core = "up" /\ rest[x] = "live" /\ recover = {} /\ ~asks
      /\ UNCHANGED <<run, own, root, paused, asked, asks, timers, life, history, actsLeft>>
  BY DEF WorkDone, Quiet
<1>1. CASE run.status = "running" /\ ~paused
  <2>1. /\ rest' = [rest EXCEPT ![x] = "none"] /\ turn' = [turn EXCEPT ![x] = "queued"] /\ stage' = stage
    BY <1>1 DEF WorkDone
  <2>2. TypeOK'
    BY <1>0, <2>1 DEF IInv, TypeOK, life
  <2>3. /\ turn' = [y \in Execs |-> IF y \in {x} THEN "queued" ELSE turn[y]]
        /\ rest' = [y \in Execs |-> IF y \in {x} THEN "none" ELSE rest[y]]
    BY <2>1 DEF IInv, TypeOK
  <2> QED BY <1>0, <2>1, <2>2, <2>3, WokenKeeps
<1>2. CASE ~(run.status = "running" /\ ~paused)
  <2>1. /\ rest' = [rest EXCEPT ![x] = "due"] /\ turn' = turn
        /\ stage' = IF run.status = "running" /\ paused THEN "step" ELSE stage
    BY <1>2 DEF WorkDone
  <2>2. TypeOK'
    BY <1>0, <2>1 DEF IInv, TypeOK, life, Stages
  <2>3. rest'[x] = "due" /\ \A y \in Execs \ {x} : rest'[y] = rest[y]
    BY <2>1 DEF IInv, TypeOK
  <2>4. stage' \in {"idle", "step"}
    BY <1>0, <2>1
  <2>5. Accounted' /\ RestTells' /\ Places' /\ OverIsOver' /\ TornWorks' /\ Carried'
    BY <1>0, <2>1, <2>3, <2>4 DEF IInv, Accounted, RestTells, Places, OverIsOver, TornWorks, Carried, Working, life
  <2>6. run.status \in {"running", "paused", "stopped"}
    <3>1. run.status \in Statuses
      BY DEF IInv, TypeOK, Runs
    <3>2. x \in Working(run)
      BY <1>0 DEF IInv, RestTells, Working
    <3> QED BY <3>1, <3>2 DEF IInv, OverIsOver, Statuses
  <2>7. DueTells'
    BY <1>0, <1>2, <2>1, <2>6 DEF IInv, DueTells
  <2> QED BY <2>2, <2>5, <2>7 DEF IInv
<1> QED BY <1>1, <1>2

\* An execution that ends while it rests.
LEMMA EndsRestingKeeps ==
  ASSUME IInv, NEW x \in Execs, NEW outcome \in {"failed", "stopped"}, EndsResting(x, outcome),
         rest[x] # "none", core # "down", stage = "idle",
         UNCHANGED <<turn, own, root, paused, asked, asks, life, lapsed, refused>>, actsLeft' \in Nat
  PROVE  IInv'
<1>1. run \in Runs /\ TypeOK
  BY DEF IInv, TypeOK
<1>2. run.st[x] = "running" /\ turn[x] = "none"
  BY DEF IInv, RestTells
<1>3. /\ rest' = [rest EXCEPT ![x] = "none"]
      /\ stage' \in {"idle", "step"} /\ timers' \subseteq timers \union {"advance"}
      /\ \/ core = "up" /\ run.status # "stopped" /\ run' = [run EXCEPT !.st[x] = outcome] /\ torn' = torn \ {x}
         \/ (core # "up" \/ run.status = "stopped") /\ run' = run /\ torn' = torn
  BY <1>2 DEF EndsResting, GoesOn
<1>4. /\ run' \in Runs /\ run'.status = run.status
      /\ \A y \in Execs \ {x} : run'.st[y] = run.st[y]
      /\ core = "up" /\ run.status # "stopped" => run'.st[x] # "running"
      /\ run'.st[x] = "running" => run.st[x] = "running"
  BY <1>1, <1>2, <1>3 DEF Runs, ExecStates
<1>5. rest'[x] = "none" /\ \A y \in Execs \ {x} : rest'[y] = rest[y]
  BY <1>1, <1>3 DEF TypeOK
<1>6. TypeOK'
  BY <1>1, <1>3, <1>4 DEF TypeOK, life, Stages, Timers
<1>7. Accounted' /\ RestTells' /\ Places'
  BY <1>2, <1>3, <1>4, <1>5 DEF IInv, Accounted, RestTells, Places, life
<1>8. OverIsOver' /\ TornWorks'
  BY <1>3, <1>4 DEF IInv, OverIsOver, TornWorks, Working, life
<1>9. Carried' /\ DueTells'
  BY <1>3, <1>4, <1>5 DEF IInv, Carried, DueTells, Working, Unfinished, life
<1> QED BY <1>6, <1>7, <1>8, <1>9 DEF IInv

-----------------------------------------------------------------------------
(* What users do, and the cores.                                           *)

\* Steps between turns that leave turns and background work alone: the run may
\* be paused, or set going by a control that asks next.
LEMMA IdleKeeps ==
  ASSUME IInv, TypeOK', stage = "idle", core # "down", core' \in {core, "handing"},
         recover' = recover \/ recover' = recover \ {0},
         asked \subseteq asked', asks => asks', stage' \in {"idle", "step"},
         UNCHANGED <<turn, own, rest, torn>>, SameWork(run, run'),
         \/ run'.status = run.status
         \/ run.status = "running" /\ run'.status = "paused"
         \/ run'.status = "running" /\ asks' /\ recover = {}
  PROVE  IInv'
<1>1. Working(run') = Working(run)
  BY SameWorking
<1>2. \A x \in Execs : run'.st[x] = "running" <=> run.st[x] = "running"
  BY DEF SameWork
<1>3. 0 \notin Execs
  BY WorkflowAssumption
<1>4. Accounted' /\ RestTells' /\ Places'
  BY <1>2, <1>3 DEF IInv, Accounted, RestTells, Places
<1>5. OverIsOver' /\ TornWorks'
  <2>1. \A x \in Working(run) : x \in recover => x \in recover'
    BY <1>3 DEF Working
  <2> QED BY <1>1, <2>1 DEF IInv, OverIsOver, TornWorks
<1>6. Carried'
  <2> SUFFICES ASSUME core' = "up", NEW x \in Working(run) \ torn, run'.status \in Unfinished
               PROVE  turn[x] # "none" \/ rest[x] # "none"
    BY <1>1 DEF Carried
  <2>1. run.status \in Statuses
    BY DEF IInv, TypeOK, Runs
  <2>2. run.status \in Unfinished
    BY <2>1 DEF IInv, OverIsOver, Statuses, Unfinished
  <2> QED BY <2>2 DEF IInv, Carried
<1>7. DueTells'
  BY DEF IInv, DueTells
<1> QED BY <1>4, <1>5, <1>6, <1>7 DEF IInv

LEMMA TeamKeeps == ASSUME IInv, TeamPauses \/ TeamResumes PROVE IInv'
<1>1. /\ stage = "idle" /\ core # "down" /\ paused' \in BOOLEAN
      /\ timers' \subseteq timers \union {"settle"} /\ actsLeft' \in Nat
      /\ UNCHANGED <<run, turn, own, root, asked, rest, stage, asks, life, lapsed, torn>>
      /\ refused' \in BOOLEAN
  <2>1. CASE TeamPauses
    <3>1. paused' \in BOOLEAN
      BY <2>1, Zenon DEF TeamPauses
    <3> QED BY <2>1, <3>1 DEF TeamPauses, Act, Serves, Quiet, memory, IInv, TypeOK
  <2>2. CASE TeamResumes
    <3>1. paused' \in BOOLEAN /\ refused' \in BOOLEAN
      BY <2>2, Zenon DEF TeamResumes, TeamGoesOn
    <3> QED BY <2>2, <3>1 DEF TeamResumes, TeamGoesOn, Serves, Quiet, IInv, TypeOK
  <2> QED BY <2>1, <2>2
<1>2. TypeOK'
  BY <1>1 DEF IInv, TypeOK, life, Timers
<1>3. SameWork(run, run')
  BY <1>1 DEF SameWork
<1> QED BY <1>1, <1>2, <1>3, IdleKeeps DEF life

LEMMA ControlKeeps == ASSUME IInv, Pause \/ Resume \/ Retry PROVE IInv'
<1>0. run \in Runs /\ TypeOK
  BY DEF IInv, TypeOK
<1>1. /\ stage = "idle" /\ core # "down" /\ stage' = "step"
      /\ asks' = TRUE /\ paused' \in BOOLEAN
      /\ timers' \subseteq timers \union {"settle"} /\ actsLeft' \in Nat
      /\ UNCHANGED <<turn, own, root, asked, rest, life, lapsed, torn>>
      /\ recover = {} /\ refused' \in BOOLEAN
  <2>1. CASE Pause
    BY <1>0, <2>1 DEF Pause, Act, Serves, Quiet, TypeOK
  <2>2. CASE Resume \/ Retry
    <3>1. paused' \in BOOLEAN /\ refused' \in BOOLEAN
      BY <2>2, Zenon DEF Resume, Retry, TeamGoesOn
    <3> QED BY <1>0, <2>2, <3>1 DEF Resume, Retry, TeamGoesOn, Act, Serves, Quiet, TypeOK
  <2> QED BY <2>1, <2>2
<1>2. /\ run' \in Runs /\ SameWork(run, run')
      /\ run'.status = "running" \/ (run.status = "running" /\ run'.status = "paused")
  <2>1. CASE Pause
    BY <1>0, <2>1 DEF Pause, Runs, Statuses, SameWork
  <2>2. CASE Resume
    BY <1>0, <2>2 DEF Resume, Runs, Statuses, SameWork
  <2>3. CASE Retry
    <3>1. PICK targets : run' = Retried(targets)
      BY <2>3 DEF Retry
    <3> QED BY <1>0, <3>1, RetriedKeeps
  <2> QED BY <2>1, <2>2, <2>3
<1>3. asks' \in BOOLEAN /\ stage' \in Stages
  BY <1>1 DEF Stages
<1>4. TypeOK'
  BY <1>0, <1>1, <1>2, <1>3 DEF TypeOK, life, Timers
<1> QED BY <1>1, <1>2, <1>4, IdleKeeps DEF life

LEMMA StopKeeps == ASSUME IInv, Stop PROVE IInv'
<1> DEFINE waits == {x \in Execs : run.st[x] = "waiting"}
           st == [x \in Execs |-> IF x \in waits THEN "stopped" ELSE run.st[x]]
           why == [x \in Execs |-> IF x \in waits THEN "none" ELSE run.why[x]]
           fix == run.fix \ waits
           node == [n \in Steps |-> IF run.node[n] = "waiting" THEN "stopped" ELSE run.node[n]]
           yes == TRUE
           made == [run EXCEPT !.st = st, !.why = why, !.fix = fix, !.node = node,
                               !.status = "stopped", !.delivered = yes]
<1>1. run \in Runs /\ TypeOK
  BY DEF IInv, TypeOK
<1>2. /\ run' = made /\ stage' = "stopping" /\ stage = "idle" /\ core # "down" /\ recover = {}
      /\ actsLeft' \in Nat
      /\ UNCHANGED <<turn, own, root, paused, asked, rest, asks, timers, life, history>>
  BY <1>1 DEF Stop, Act, Serves, Quiet, TypeOK
<1>3. st \in [Execs -> ExecStates] /\ \A x \in Execs : st[x] = "running" <=> run.st[x] = "running"
  BY <1>1 DEF Runs, ExecStates
<1>4. /\ why \in [Execs -> Reasons] /\ fix \in SUBSET Execs /\ node \in [Steps -> NodeStates]
      /\ yes \in BOOLEAN
  BY <1>1 DEF Runs, Reasons, NodeStates
<1>5. made \in Runs /\ made.st = st /\ made.status = "stopped"
  <2> HIDE DEF waits, st, why, fix, node, yes
  <2> QED BY <1>1, <1>3, <1>4 DEF Runs, Statuses
<1> HIDE DEF made, st
<1>6. TypeOK'
  BY <1>1, <1>2, <1>5 DEF TypeOK, life, Stages
<1>7. Accounted' /\ RestTells' /\ Places'
  BY <1>2, <1>3, <1>5 DEF IInv, Accounted, RestTells, Places, life
<1>8. OverIsOver' /\ Carried' /\ DueTells'
  BY <1>2, <1>5 DEF OverIsOver, Carried, DueTells, Unfinished
<1>9. TornWorks'
  BY <1>2, <1>3, <1>5 DEF IInv, TornWorks, Working
<1> QED BY <1>6, <1>7, <1>8, <1>9 DEF IInv

LEMMA StopStepsKeeps == ASSUME IInv, StopSteps PROVE IInv'
<1> DEFINE w == Working(run)
           st == [x \in Execs |-> IF x \in w THEN "stopped" ELSE run.st[x]]
           verdict(n) == IF \E x \in ExecsOf(n) : st[x] = "failed" THEN "failed"
                         ELSE IF \A x \in ExecsOf(n) : st[x] = "done" THEN "done" ELSE "stopped"
           node == [n \in Steps |-> IF run.node[n] = "running" THEN verdict(n) ELSE run.node[n]]
           made == [run EXCEPT !.st = st, !.node = node]
<1>1. run \in Runs /\ TypeOK
  BY DEF IInv, TypeOK
<1>2. /\ run' = made /\ stage = "stopping" /\ stage' = "idle"
      /\ turn' = [x \in Execs |-> IF x \in w /\ turn[x] = "queued" THEN "none" ELSE turn[x]]
      /\ asked' = asked \union {x \in w : turn[x] = "running"}
      /\ rest' = [x \in Execs |-> IF x \in w THEN "none" ELSE rest[x]]
      /\ torn' = torn \ w
      /\ UNCHANGED <<own, root, paused, asks, timers, life, lapsed, refused, actsLeft>>
  BY DEF StopSteps
<1>3. run.status = "stopped" /\ recover = {} /\ core # "down"
  BY <1>2 DEF IInv, Places
<1>4. st \in [Execs -> ExecStates] /\ (\A x \in Execs : st[x] # "running") /\ w \subseteq Execs
  BY <1>1 DEF Runs, ExecStates, Working
<1>5. node \in [Steps -> NodeStates]
  <2>1. \A n \in Steps : verdict(n) \in NodeStates
    <3> HIDE DEF st
    <3> QED BY DEF NodeStates
  <2> HIDE DEF verdict
  <2> QED BY <1>1, <2>1 DEF Runs
<1>6. made \in Runs /\ made.st = st /\ made.status = "stopped"
  <2> HIDE DEF st, node
  <2> QED BY <1>1, <1>3, <1>4, <1>5 DEF Runs
<1> HIDE DEF made, st, node
<1>7. TypeOK'
  <2>1. turn' \in [Execs -> {"none", "queued", "running"}] /\ rest' \in [Execs -> {"none", "live", "due"}]
    BY <1>1, <1>2 DEF TypeOK
  <2>2. asked' \subseteq Execs
    BY <1>1, <1>2, <1>4 DEF TypeOK
  <2> QED BY <1>1, <1>2, <1>6, <2>1, <2>2 DEF TypeOK, life, Stages
<1>8. Accounted'
  <2> SUFFICES ASSUME NEW x \in Execs, turn'[x] # "none" PROVE x \in asked' \union own'
    BY DEF Accounted
  <2>1. CASE x \in w
    <3>1. turn[x] = "running"
      BY <1>1, <1>2, <2>1 DEF TypeOK
    <3> QED BY <1>2, <2>1, <3>1
  <2>2. CASE x \notin w
    BY <1>2, <1>3, <2>2 DEF IInv, Accounted, Working
  <2> QED BY <2>1, <2>2
<1>9. RestTells' /\ Places'
  BY <1>2, <1>3, <1>4 DEF IInv, RestTells, Places, Working, life
<1>10. OverIsOver' /\ TornWorks' /\ Carried' /\ DueTells'
  BY <1>2, <1>4, <1>6 DEF IInv, OverIsOver, TornWorks, Carried, DueTells, Working, Unfinished
<1> QED BY <1>7, <1>8, <1>9, <1>10 DEF IInv

LEMMA StopStepKeeps == ASSUME IInv, NEW x \in Execs, StopStep(x) PROVE IInv'
<1>1. /\ stage = "idle" /\ core # "down" /\ recover = {} /\ actsLeft' \in Nat
      /\ UNCHANGED <<root, paused, asks, life, lapsed, refused>>
  BY DEF StopStep, Act, Serves, Quiet, IInv, TypeOK
<1>2. CASE asked' = asked \union {x} /\ UNCHANGED <<run, turn, own, rest, torn, stage, timers>>
  <2>1. TypeOK' /\ SameWork(run, run')
    BY <1>1, <1>2 DEF IInv, TypeOK, life, SameWork
  <2> QED BY <1>1, <1>2, <2>1, IdleKeeps DEF life
<1>3. CASE turn[x] = "queued" /\ Closes(x, "stopped") /\ rest' = rest
  BY <1>1, <1>3, ClosesKeeps DEF Outcomes, life
<1>4. CASE rest[x] # "none" /\ EndsResting(x, "stopped") /\ UNCHANGED <<turn, own, asked>>
  BY <1>1, <1>4, EndsRestingKeeps
<1> QED BY <1>2, <1>3, <1>4 DEF StopStep

LEMMA SendToStepKeeps == ASSUME IInv, NEW x \in Execs, SendToStep(x) PROVE IInv'
<1>1. run \in Runs /\ TypeOK
  BY DEF IInv, TypeOK
<1>2. /\ stage = "idle" /\ core = "up" /\ recover = {} /\ turn[x] = "none" /\ actsLeft' \in Nat
      /\ turn' = [turn EXCEPT ![x] = "queued"] /\ rest' = [rest EXCEPT ![x] = "none"]
      /\ own' = IF run.st[x] = "running" THEN own ELSE own \union {x}
      /\ UNCHANGED <<run, root, paused, asked, stage, asks, timers, life, history>>
  BY <1>1 DEF SendToStep, Quiet, Act, TypeOK
<1>3. TypeOK'
  BY <1>1, <1>2 DEF TypeOK, life
<1>4. /\ turn'[x] = "queued" /\ rest'[x] = "none"
      /\ \A y \in Execs \ {x} : turn'[y] = turn[y] /\ rest'[y] = rest[y]
  BY <1>1, <1>2 DEF TypeOK
<1>5. Accounted' /\ RestTells' /\ Places'
  BY <1>2, <1>4 DEF IInv, Accounted, RestTells, Places, life
<1>6. OverIsOver' /\ TornWorks' /\ Carried' /\ DueTells'
  BY <1>2, <1>4 DEF IInv, OverIsOver, TornWorks, Carried, DueTells, Working, life
<1> QED BY <1>3, <1>5, <1>6 DEF IInv

LEMMA RootKeeps == ASSUME IInv, RootStarts \/ RootEnds PROVE IInv'
<1>0. lapsed' \in BOOLEAN /\ refused' \in BOOLEAN
  <2>1. (lapsed' = lapsed \/ lapsed' = FALSE) /\ (refused' = refused \/ refused' = FALSE)
    BY DEF RootStarts, RootEnds
  <2> QED BY <2>1 DEF IInv, TypeOK
<1>1. /\ stage = "idle" /\ core # "down" /\ root' \in {"idle", "active"} /\ timers' \subseteq Timers
      /\ actsLeft' \in Nat
      /\ UNCHANGED <<run, turn, own, paused, asked, rest, stage, asks, life, torn>>
  <2>1. CASE RootStarts
    BY <2>1 DEF RootStarts, Act, Quiet, memory, IInv, TypeOK
  <2>2. CASE RootEnds
    <3>1. RootTimers(run) \subseteq Timers
      BY DEF RootTimers, Timers
    <3> QED BY <2>2, <3>1 DEF RootEnds, Serves, Quiet, IInv, TypeOK
  <2> QED BY <2>1, <2>2
<1>2. TypeOK' /\ SameWork(run, run')
  BY <1>0, <1>1 DEF IInv, TypeOK, life, SameWork
<1> QED BY <1>1, <1>2, IdleKeeps DEF life

LEMMA BeginHandoffKeeps == ASSUME IInv, BeginHandoff PROVE IInv'
<1>0. handed' \in BOOLEAN
  BY DEF BeginHandoff
<1>1. /\ stage = "idle" /\ core = "up" /\ core' = "handing" /\ actsLeft' \in Nat
      /\ UNCHANGED <<run, turn, own, root, paused, asked, rest, stage, asks, timers, resumed, recover, coresLeft, history>>
  BY DEF BeginHandoff, Quiet, Act, durable, memory, IInv, TypeOK
<1>2. TypeOK' /\ SameWork(run, run')
  BY <1>0, <1>1 DEF IInv, TypeOK, SameWork
<1> QED BY <1>1, <1>2, IdleKeeps

\* The memory of a core goes with it; inside #stop, what had no turn stays as it is.
LEMMA CoreEndsKeeps == ASSUME IInv, CoreEnds, actsLeft' \in Nat PROVE IInv'
<1>0. asks' \in BOOLEAN
  BY DEF CoreEnds
<1>1. /\ core' = "down" /\ stage' = "idle" /\ timers' = {} /\ recover' = {}
      /\ asked' = {} /\ rest' = [x \in Execs |-> "none"]
      /\ torn' = IF stage = "stopping" THEN torn \union {x \in Working(run) : turn[x] = "none"} ELSE torn
      /\ UNCHANGED <<run, turn, own, root, paused, handed, resumed, coresLeft, lapsed, refused>>
  BY DEF CoreEnds
<1>2. TypeOK'
  BY <1>0, <1>1 DEF IInv, TypeOK, Stages, Working
<1>3. Accounted' /\ RestTells' /\ Places' /\ Carried' /\ DueTells'
  BY <1>1 DEF Accounted, RestTells, Places, Carried, DueTells
<1>4. TornWorks'
  BY <1>1 DEF IInv, TornWorks, Working
<1>5. OverIsOver'
  <2>1. run'.status \in {"done", "failed"} => Working(run') = {}
    BY <1>1 DEF IInv, OverIsOver
  <2>2. ASSUME run.status = "stopped", NEW x \in Working(run) PROVE x \in torn' \/ turn[x] # "none"
    <3>1. CASE stage = "stopping"
      BY <1>1, <3>1
    <3>2. CASE stage # "stopping"
      <4>1. x # 0
        BY WorkflowAssumption DEF Working
      <4> QED BY <1>1, <2>2, <3>2, <4>1 DEF IInv, OverIsOver, Places
    <3> QED BY <3>1, <3>2
  <2> QED BY <1>1, <2>1, <2>2 DEF OverIsOver
<1> QED BY <1>2, <1>3, <1>4, <1>5 DEF IInv

LEMMA BootKeeps == ASSUME IInv, Boot PROVE IInv'
<1> DEFINE w == IF run.status \in Unfinished THEN Working(run) ELSE {}
           st == [x \in Execs |-> IF x \in w THEN "waiting" ELSE run.st[x]]
           why == [x \in Execs |-> IF x \in w THEN "cut" ELSE run.why[x]]
           status == IF run.status = "running" /\ ~handed THEN "paused" ELSE run.status
           made == [run EXCEPT !.st = st, !.why = why, !.status = status]
<1>1. run \in Runs /\ TypeOK
  BY DEF IInv, TypeOK
<1>2. /\ core = "down" /\ core' = "up" /\ coresLeft' = coresLeft - 1 /\ run' = made
      /\ recover' = {x \in Execs : turn[x] # "none"} \union (IF root = "active" THEN {0} ELSE {})
      /\ torn' = torn \ w
      /\ UNCHANGED <<turn, own, root, paused, asked, rest, stage, asks, timers, handed, actsLeft>>
  BY DEF Boot, memory
<1>3. resumed' \in BOOLEAN /\ lapsed' \in BOOLEAN /\ refused' \in BOOLEAN
  <2>1. resumed' \in BOOLEAN /\ refused' \in BOOLEAN
    BY DEF Boot
  <2>2. lapsed' \in BOOLEAN
    BY Zenon DEF Boot
  <2> QED BY <2>1, <2>2
<1>4. stage = "idle" /\ \A x \in Execs : rest[x] = "none"
  BY <1>2 DEF IInv, Places
<1>5. /\ st \in [Execs -> ExecStates] /\ why \in [Execs -> Reasons] /\ status \in Statuses
      /\ \A x \in Execs : st[x] = "running" <=> run.st[x] = "running" /\ x \notin w
      /\ run.status \in Unfinished => \A x \in Execs : st[x] # "running"
  BY <1>1 DEF Runs, ExecStates, Reasons, Statuses, Working
<1>6. made \in Runs /\ made.st = st /\ made.status = status
  <2> HIDE DEF st, why, status
  <2> QED BY <1>1, <1>5 DEF Runs
<1>7. status \in Unfinished <=> run.status \in Unfinished
  BY DEF Unfinished
<1>8. status \notin Unfinished => status = run.status
  BY DEF Unfinished
<1> HIDE DEF made, st, status
<1>9. TypeOK'
  <2>1. recover' \subseteq Execs \union {0}
    BY <1>2
  <2> QED BY <1>1, <1>2, <1>3, <1>4, <1>6, <2>1 DEF TypeOK
<1>10. Accounted' /\ RestTells' /\ Places'
  BY <1>2, <1>4 DEF Accounted, RestTells, Places
<1>11. OverIsOver'
  <2>1. recover = {}
    BY <1>2 DEF IInv, Places
  <2> QED BY <1>2, <1>4, <1>5, <1>6, <1>8, <2>1 DEF IInv, OverIsOver, Working, Unfinished
<1>13. TornWorks'
  BY <1>2, <1>5, <1>6 DEF IInv, TornWorks, Working
<1>12. Carried' /\ DueTells'
  BY <1>2, <1>4, <1>5, <1>6, <1>7 DEF Carried, DueTells, Working
<1> QED BY <1>9, <1>10, <1>11, <1>12, <1>13 DEF IInv

LEMMA RecoverKeeps == ASSUME IInv, NEW x \in Execs \union {0}, Recover(x) PROVE IInv'
<1>1. /\ core = "up" /\ stage = "idle" /\ x \in recover /\ recover' = recover \ {x}
      /\ UNCHANGED <<paused, rest, asks, handed, core, resumed, coresLeft, refused, actsLeft>>
  BY DEF Recover
<1>2. CASE x = 0
  <2>1. /\ root' = "idle" /\ timers' = timers \union RootTimers(run) /\ lapsed' = FALSE
        /\ UNCHANGED <<run, turn, own, asked, stage, torn>>
    BY <1>2 DEF Recover
  <2>2. RootTimers(run) \subseteq Timers /\ lapsed' \in BOOLEAN
    <3>1. RootTimers(run) \subseteq Timers
      BY DEF RootTimers, Timers
    <3> QED BY <2>1, <3>1
  <2>3. TypeOK' /\ SameWork(run, run')
    BY <1>1, <2>1, <2>2 DEF IInv, TypeOK, SameWork
  <2> QED BY <1>1, <1>2, <2>1, <2>3, IdleKeeps
<1>3. CASE x # 0
  <2>1. x \in Execs /\ turn[x] # "none" /\ Closes(x, "failed") /\ UNCHANGED <<root, lapsed>>
    BY <1>1, <1>3 DEF Recover, IInv, Places
  <2>2. actsLeft' \in Nat
    BY <1>1 DEF IInv, TypeOK
  <2> QED BY <1>1, <2>1, <2>2, ClosesKeeps DEF Outcomes
<1> QED BY <1>2, <1>3

LEMMA ServerUpKeeps == ASSUME IInv, ServerUp PROVE IInv'
<1>0. resumed' \in BOOLEAN /\ handed' \in BOOLEAN
  BY DEF ServerUp
<1>1. /\ core = "up" /\ stage = "idle" /\ stage' \in {"idle", "step"}
      /\ UNCHANGED <<run, turn, own, root, paused, asked, rest, asks, timers, core, recover, coresLeft, history, actsLeft>>
  BY DEF ServerUp, Quiet, durable
<1>2. TypeOK' /\ SameWork(run, run')
  BY <1>0, <1>1 DEF IInv, TypeOK, SameWork, Stages
<1> QED BY <1>1, <1>2, IdleKeeps

-----------------------------------------------------------------------------
(* The result of a run that ended by itself.                               *)

\* A run that ended by itself and whose summary the root does not have.
Owes(r) == r.status \in {"done", "failed"} /\ ~r.delivered

\* What ResultsCarried needs at every step, also inside #advance: it counts
\* only the timers that look at the result, and the settling about to do so.
ResultUnderWay ==
  core = "up" /\ Owes(run) =>
    \/ root = "active" \/ timers \cap {"deliver", "settle"} # {}
    \/ run.held /\ (paused \/ refused)
    \/ lapsed \/ stage = "settle"

\* The record s owes no more than r does, and holds back what r holds back.
Spares(r, s) == Owes(s) => Owes(r) /\ (r.held => s.held)

\* A step that spares the result and what carries it.
LEMMA CarrierStays ==
  ASSUME ResultUnderWay, core' = "up" => core = "up", Spares(run, run'),
         root = "active" => root' = "active",
         timers \cap {"deliver", "settle"} \subseteq timers',
         run.held /\ (paused \/ refused) => paused' \/ refused', lapsed => lapsed',
         stage = "settle" => stage' = "settle"
  PROVE  ResultUnderWay'
BY DEF ResultUnderWay, Spares

LEMMA SpareAlike ==
  ASSUME NEW r, NEW s, s.status = r.status \/ ~Owes(s), s.delivered = r.delivered, s.held = r.held
  PROVE  Spares(r, s)
BY DEF Spares, Owes

LEMMA SettledSpares ==
  ASSUME NEW r \in Runs
  PROVE  Settled(r).delivered = r.delivered /\ Settled(r).held = r.held
<1> DEFINE closes(n) == /\ r.node[n] = "running" /\ ~NoExec(r, n)
                        /\ \/ \A x \in ExecsOf(n) : Ended(r.st[x])
                           \/ Halted(r) /\ \A x \in ExecsOf(n) : r.st[x] # "running"
           heldBack == {x \in Execs : closes(StepOf[x]) /\ r.st[x] = "waiting"}
           st == [x \in Execs |-> IF x \in heldBack THEN "stopped" ELSE r.st[x]]
           some(n, s) == \E x \in ExecsOf(n) : st[x] = s
           verdict(n) == IF some(n, "failed") THEN "failed" ELSE IF some(n, "stopped") THEN "stopped" ELSE "done"
           why == [x \in Execs |-> IF x \in heldBack THEN "held" ELSE r.why[x]]
           node == [n \in Steps |-> IF closes(n) THEN verdict(n) ELSE r.node[n]]
<1>1. Settled(r) = [r EXCEPT !.st = st, !.why = why, !.node = node]
  BY DEF Settled
<1> HIDE DEF st, why, node
<1> QED BY <1>1 DEF Runs

\* Handing over gives the result a carrier: a turn of the root, the team's pause, or
\* what the root itself refused it for.
LEMMA DeliverCarries ==
  ASSUME TypeOK, NEW r \in Runs, Deliver(r), core = "up", Owes(run')
  PROVE  root' = "active" \/ (run'.held /\ (paused \/ refused'))
<1> DEFINE yes == TRUE
           held == [r EXCEPT !.held = yes]
<1>1. CASE r.delivered \/ r.status \notin {"done", "failed"} \/ root = "active"
  BY <1>1 DEF Deliver, Owes
<1>2. CASE ~(r.delivered \/ r.status \notin {"done", "failed"} \/ root = "active")
  <2>1. CASE run' = held /\ refused' = ~RootRefused
    <3>1. held.held = yes
      <4> HIDE DEF yes
      <4> QED BY DEF Runs
    <3>2. run'.held
      BY <2>1, <3>1
    <3>3. paused \/ ~RootRefused
      BY DEF RootRefused
    <3> QED BY <2>1, <3>2, <3>3
  <2>2. CASE root' = "active"
    BY <2>2
  <2> QED BY <1>2, <2>1, <2>2, Zenon DEF Deliver
<1> QED BY <1>1, <1>2

LEMMA LoopCarries == ASSUME IInv, ResultUnderWay, Loop PROVE ResultUnderWay'
<1>1. run \in Runs /\ TypeOK
  BY DEF IInv, TypeOK
<1>2. CASE Step
  <2> DEFINE s == Settled(run)
             t == [s EXCEPT !.status = "paused"]
  <2>1. s \in Runs /\ s.status = run.status /\ s.delivered = run.delivered /\ s.held = run.held
    BY <1>1, SettledKeeps, SettledSpares
  <2>2. t.status = "paused"
    <3> HIDE DEF s
    <3> QED BY <2>1 DEF Runs
  <2>3. /\ run' = run \/ run' = t \/ run' = s
        /\ stage = "step"
        /\ UNCHANGED <<root, paused, timers, life, history>>
    BY <1>2 DEF Step
  <2> HIDE DEF s, t
  <2>4. Spares(run, run')
    BY <2>1, <2>2, <2>3 DEF Spares, Owes
  <2> QED BY <2>3, <2>4, CarrierStays DEF life
<1>3. CASE Open
  <2>1. Spares(run, run')
    <3>1. CASE Openable = {}
      BY <1>3, <3>1 DEF Open, Spares
    <3>2. CASE Openable # {}
      <4>1. PICK n \in Openable, o \in Openings :
              run' = [run EXCEPT !.node[n] = o, !.told = @ \ {n},
                 !.st = [x \in Execs |-> IF StepOf[x] = n /\ o = "running" THEN "waiting" ELSE @[x]]]
        BY <1>3, <3>2 DEF Open
      <4> DEFINE st == [x \in Execs |-> IF StepOf[x] = n /\ o = "running" THEN "waiting" ELSE run.st[x]]
                 node == [run.node EXCEPT ![n] = o]
                 told == run.told \ {n}
                 made == [run EXCEPT !.node = node, !.told = told, !.st = st]
      <4>2. n \in Steps
        BY DEF Openable
      <4>3. run' = made
        BY <1>1, <4>1, <4>2 DEF Runs
      <4>4. made.status = run.status /\ made.delivered = run.delivered /\ made.held = run.held
        <5> HIDE DEF st, node, told
        <5> QED BY <1>1 DEF Runs
      <4> HIDE DEF made
      <4> QED BY <4>3, <4>4, SpareAlike
    <3> QED BY <3>1, <3>2
  <2>2. stage = "open" /\ UNCHANGED <<root, paused, timers, life, history>>
    BY <1>3 DEF Open
  <2> QED BY <2>1, <2>2, CarrierStays DEF life
<1>4. CASE Launch
  <2>1. Spares(run, run')
    <3>1. CASE ~MayLaunch
      BY <1>4, <3>1 DEF Launch, Spares
    <3>2. CASE MayLaunch
      <4>1. PICK x \in Ready : run' = Launched(x, "running") \/ run' = Launched(x, "failed")
        BY <1>4, <3>2 DEF Launch
      <4>2. run.status = "running" /\ x \in Execs
        BY <3>2 DEF MayLaunch, Ready
      <4> QED BY <1>1, <4>1, <4>2, LaunchedKeeps DEF Spares, Owes
    <3> QED BY <3>1, <3>2
  <2>2. stage = "launch" /\ UNCHANGED <<root, paused, timers, life, history>>
    BY <1>4 DEF Launch
  <2> QED BY <2>1, <2>2, CarrierStays DEF life
<1>5. CASE Settle
  <2> DEFINE r == SettledRun(run)
  <2>1. r \in Runs
    BY <1>1, SettledRunKeeps
  <2>2. (r.status \in {"done", "failed"} /\ Deliver(r)) \/ (r.status \notin {"done", "failed"} /\ Tell(r))
    BY <1>5 DEF Settle
  <2>3. UNCHANGED <<paused, life>>
    BY <1>5 DEF Settle
  <2> HIDE DEF r
  <2>4. CASE Deliver(r)
    <3> SUFFICES ASSUME core' = "up", Owes(run') PROVE root' = "active" \/ (run'.held /\ (paused' \/ refused'))
      BY DEF ResultUnderWay
    <3> QED BY <1>1, <2>1, <2>3, <2>4, DeliverCarries DEF life
  <2>5. CASE r.status \notin {"done", "failed"} /\ Tell(r)
    BY <2>5 DEF Tell, ResultUnderWay, Owes
  <2> QED BY <2>2, <2>4, <2>5
<1>6. CASE Record
  <2> DEFINE yes == TRUE
             no == FALSE
             told == run.told \union Unnoticed(run)
             given == [run EXCEPT !.delivered = yes, !.held = no]
             noted == [run EXCEPT !.told = told]
  <2>1. run' = given \/ run' = noted
    BY <1>6 DEF Record
  <2>2. given.delivered = yes /\ noted.status = run.status /\ noted.delivered = run.delivered /\ noted.held = run.held
    <3> HIDE DEF yes, no, told
    <3> QED BY <1>1 DEF Runs
  <2>3. given.delivered
    BY <2>2
  <2> HIDE DEF given, noted
  <2>4. Spares(run, run')
    BY <2>1, <2>2, <2>3 DEF Spares, Owes
  <2>5. stage # "settle" /\ UNCHANGED <<root, paused, timers, life, history>>
    BY <1>6 DEF Record
  <2> QED BY <2>4, <2>5, CarrierStays DEF life
<1>7. CASE AskWoken
  <2>1. stage = "idle" /\ UNCHANGED <<run, root, paused, timers, life, history>>
    BY <1>7 DEF AskWoken
  <2> QED BY <2>1, CarrierStays DEF life, Spares
<1>8. CASE StopSteps
  <2>1. stage = "stopping" /\ run.status = "stopped" /\ UNCHANGED <<root, paused, timers, life, lapsed, refused>>
    BY <1>8 DEF StopSteps, IInv, Places
  <2> DEFINE w == Working(run)
             st == [x \in Execs |-> IF x \in w THEN "stopped" ELSE run.st[x]]
             verdict(n) == IF \E x \in ExecsOf(n) : st[x] = "failed" THEN "failed"
                           ELSE IF \A x \in ExecsOf(n) : st[x] = "done" THEN "done" ELSE "stopped"
             node == [n \in Steps |-> IF run.node[n] = "running" THEN verdict(n) ELSE run.node[n]]
  <2>2. run' = [run EXCEPT !.st = st, !.node = node]
    BY <1>8 DEF StopSteps
  <2>3. run'.status = run.status
    <3> HIDE DEF st, node
    <3> QED BY <1>1, <2>2 DEF Runs
  <2>4. Spares(run, run')
    BY <2>1, <2>3 DEF Spares, Owes
  <2> QED BY <2>1, <2>4, CarrierStays DEF life
<1>9. ASSUME NEW t \in {"advance", "settle", "deliver", "tell"}, Fire(t) PROVE ResultUnderWay'
  <2>1. stage = "idle" /\ timers' = timers \ {t} /\ UNCHANGED <<paused, life, lapsed>>
    BY <1>9 DEF Fire, Serves, Quiet
  <2>2. CASE t = "advance"
    BY <1>9, <2>1, <2>2, CarrierStays DEF Fire, Spares, life
  <2>3. CASE t = "settle"
    BY <1>9, <2>3 DEF Fire, ResultUnderWay
  <2>4. CASE t = "deliver"
    <3> SUFFICES ASSUME core' = "up", Owes(run') PROVE root' = "active" \/ (run'.held /\ (paused' \/ refused'))
      BY DEF ResultUnderWay
    <3>1. Deliver(run)
      BY <1>9, <2>4 DEF Fire
    <3> QED BY <1>1, <2>1, <3>1, DeliverCarries DEF life
  <2>5. CASE t = "tell"
    <3>1. run' = run /\ refused' = refused /\ (root' = root \/ root' = "active")
      BY <1>9, <2>5 DEF Fire, Tell
    <3> QED BY <2>1, <2>5, <3>1, CarrierStays DEF Spares, life
  <2> QED BY <1>9, <2>2, <2>3, <2>4, <2>5
<1> QED BY <1>2, <1>3, <1>4, <1>5, <1>6, <1>7, <1>8, <1>9 DEF Loop

\* What ends a turn or background work changes nothing of the result.
LEMMA ClosesCarries ==
  ASSUME IInv, ResultUnderWay, NEW x \in Execs, NEW outcome \in Outcomes, Closes(x, outcome),
         stage = "idle", UNCHANGED <<root, paused, core, lapsed, refused>>
  PROVE  ResultUnderWay'
<1>1. TypeOK
  BY DEF IInv
<1>2. run' = AfterTurn(x, outcome) /\ timers \subseteq timers'
  BY DEF Closes, GoesOn
<1>3. AfterTurn(x, outcome).status = run.status
  BY <1>1, AfterTurnKeeps
<1>4. AfterTurn(x, outcome).delivered = run.delivered /\ AfterTurn(x, outcome).held = run.held
  BY <1>1 DEF AfterTurn, TypeOK, Runs
<1> QED BY <1>2, <1>3, <1>4, SpareAlike, CarrierStays

LEMMA EndsRestingCarries ==
  ASSUME IInv, ResultUnderWay, NEW x \in Execs, NEW outcome, EndsResting(x, outcome),
         stage = "idle", UNCHANGED <<root, paused, core, lapsed, refused>>
  PROVE  ResultUnderWay'
<1>1. run \in Runs
  BY DEF IInv, TypeOK
<1>2. (run' = run \/ run' = [run EXCEPT !.st[x] = outcome]) /\ timers \subseteq timers'
  BY DEF EndsResting, GoesOn
<1>3. run'.status = run.status /\ run'.delivered = run.delivered /\ run'.held = run.held
  BY <1>1, <1>2 DEF Runs
<1> QED BY <1>2, <1>3, SpareAlike, CarrierStays

LEMMA TurnsCarry == ASSUME IInv, ResultUnderWay, Turns PROVE ResultUnderWay'
<1>1. run \in Runs /\ TypeOK
  BY DEF IInv, TypeOK
<1> SUFFICES ASSUME NEW x \in Execs,
                    \/ TurnStarts(x) \/ TurnEnds(x) \/ QueuedDropped(x)
                    \/ Rests(x) \/ WorkWakes(x) \/ WorkDone(x) \/ WorkLost(x)
             PROVE  ResultUnderWay'
  BY DEF Turns
<1>2. CASE TurnStarts(x)
  <2> DEFINE again == {y \in Execs : run.st[y] = "stopped" /\ run.why[y] = "held"}
             st == [y \in Execs |-> IF y = x THEN "running" ELSE IF y \in again THEN "waiting" ELSE run.st[y]]
             opens(n) == n = StepOf[x] \/ (Broken(run.node[n]) /\ \E y \in ExecsOf(n) : st[y] = "waiting")
             why == [y \in Execs |-> IF y = x \/ y \in again THEN "none" ELSE run.why[y]]
             node == [n \in Steps |-> IF opens(n) THEN "running" ELSE run.node[n]]
             status == IF run.status = "failed" THEN "running" ELSE run.status
             delivered == run.delivered /\ run.status # "failed"
             held == run.held /\ run.status # "failed"
             told == run.told \ {x}
             made == [run EXCEPT !.st = st, !.told = told, !.why = why, !.node = node, !.status = status,
                                 !.delivered = delivered, !.held = held]
  <2>1. run' = run \/ (Takes(run, x) /\ run' = made)
    BY <1>2 DEF TurnStarts, Adopted
  <2>2. made.status = status
    <3> HIDE DEF st, why, node, status, delivered, held, told
    <3> QED BY <1>1 DEF Runs
  <2>3. Takes(run, x) => status \notin {"done", "failed"}
    BY DEF Takes
  <2> HIDE DEF made, status
  <2>4. Spares(run, run')
    BY <2>1, <2>2, <2>3 DEF Spares, Owes
  <2>5. stage = "idle" /\ UNCHANGED <<root, paused, memory, life, history>>
    BY <1>2 DEF TurnStarts, Quiet
  <2> QED BY <2>4, <2>5, CarrierStays DEF memory, life
<1>3. CASE TurnEnds(x) \/ QueuedDropped(x)
  <2>1. stage = "idle" /\ UNCHANGED <<root, paused, life, lapsed, refused>> /\ \E outcome \in Outcomes : Closes(x, outcome)
    BY <1>3 DEF TurnEnds, QueuedDropped, Serves, Quiet, Outcomes
  <2> QED BY <2>1, ClosesCarries DEF life
<1>4. CASE Rests(x) \/ WorkWakes(x) \/ WorkDone(x)
  <2>1. stage = "idle" /\ UNCHANGED <<run, root, paused, timers, life, history>>
    BY <1>4 DEF Rests, WorkWakes, WorkDone, Serves, Quiet
  <2> QED BY <2>1, CarrierStays DEF Spares, life
<1>5. CASE WorkLost(x)
  <2>1. stage = "idle" /\ UNCHANGED <<root, paused, life, lapsed, refused>> /\ EndsResting(x, "failed")
    BY <1>5 DEF WorkLost, Quiet
  <2> QED BY <2>1, EndsRestingCarries DEF life
<1> QED BY <1>2, <1>3, <1>4, <1>5

\* Lifting the team's pause looks for the result that pause held.
LEMMA TeamCarries ==
  ASSUME ResultUnderWay, paused, TeamGoesOn, UNCHANGED <<run, root, core, lapsed>>, stage = "idle"
  PROVE  ResultUnderWay'
<1>1. CASE Redeliver(run)
  BY <1>1 DEF TeamGoesOn, ResultUnderWay
<1>2. CASE ~Redeliver(run)
  <2>1. timers' = timers
    BY <1>2 DEF TeamGoesOn
  <2>2. Owes(run) => ~run.held
    BY <1>2 DEF Redeliver, Owes
  <2> QED BY <2>1, <2>2 DEF ResultUnderWay
<1> QED BY <1>1, <1>2

\* The end of the root's turn looks at what it held back.
LEMMA RootTells ==
  ASSUME ResultUnderWay, UNCHANGED run, timers' = timers \union RootTimers(run)
  PROVE  ResultUnderWay'
<1>1. Owes(run) => "deliver" \in timers'
  BY DEF RootTimers, Owes
<1> QED BY <1>1 DEF ResultUnderWay

LEMMA UsersCarry == ASSUME IInv, ResultUnderWay, Users PROVE ResultUnderWay'
<1>1. run \in Runs /\ TypeOK
  BY DEF IInv, TypeOK
<1>2. CASE TeamPauses
  BY <1>2, CarrierStays DEF TeamPauses, Spares, memory, life
<1>3. CASE TeamResumes
  BY <1>3, TeamCarries DEF TeamResumes, Serves, Quiet, life
<1>4. CASE Pause \/ Resume
  <2>1. run'.status \in {"paused", "running"}
    BY <1>1, <1>4 DEF Pause, Resume, Runs
  <2> QED BY <2>1 DEF ResultUnderWay, Owes
<1>5. CASE Retry
  <2>1. run'.status = "running"
    BY <1>1, <1>5, RetriedKeeps DEF Retry
  <2> QED BY <2>1 DEF ResultUnderWay, Owes
<1>6. CASE Stop
  <2> DEFINE waits == {x \in Execs : run.st[x] = "waiting"}
             st == [x \in Execs |-> IF x \in waits THEN "stopped" ELSE run.st[x]]
             why == [x \in Execs |-> IF x \in waits THEN "none" ELSE run.why[x]]
             fix == run.fix \ waits
             node == [n \in Steps |-> IF run.node[n] = "waiting" THEN "stopped" ELSE run.node[n]]
             yes == TRUE
  <2>1. run' = [run EXCEPT !.st = st, !.why = why, !.fix = fix, !.node = node,
                           !.status = "stopped", !.delivered = yes]
    BY <1>6 DEF Stop
  <2>2. run'.status = "stopped"
    <3> HIDE DEF st, why, fix, node, yes
    <3> QED BY <1>1, <2>1 DEF Runs
  <2> QED BY <2>2 DEF ResultUnderWay, Owes
<1>7. CASE RootStarts
  BY <1>7 DEF RootStarts, ResultUnderWay
<1>8. CASE RootEnds
  BY <1>8, RootTells DEF RootEnds
<1>9. ASSUME NEW x \in Execs, StopStep(x) PROVE ResultUnderWay'
  <2>1. stage = "idle" /\ UNCHANGED <<root, paused, life, lapsed, refused>>
    BY <1>9 DEF StopStep, Serves, Quiet
  <2>2. CASE UNCHANGED <<run, turn, own, rest, stage, timers>>
    BY <2>1, <2>2, CarrierStays DEF Spares, life
  <2>3. CASE Closes(x, "stopped")
    BY <2>1, <2>3, ClosesCarries DEF Outcomes, life
  <2>4. CASE EndsResting(x, "stopped")
    BY <2>1, <2>4, EndsRestingCarries DEF life
  <2> QED BY <1>9, <2>2, <2>3, <2>4 DEF StopStep
<1>10. ASSUME NEW x \in Execs, SendToStep(x) PROVE ResultUnderWay'
  BY <1>10, CarrierStays DEF SendToStep, Spares, life
<1> QED BY <1>2, <1>3, <1>4, <1>5, <1>6, <1>7, <1>8, <1>9, <1>10 DEF Users

LEMMA CoresCarry == ASSUME IInv, ResultUnderWay, Cores PROVE ResultUnderWay'
<1>1. run \in Runs /\ TypeOK
  BY DEF IInv, TypeOK
<1>2. CASE BeginHandoff \/ Exit \/ Crash
  BY <1>2 DEF BeginHandoff, Exit, Crash, CoreEnds, ResultUnderWay
<1>3. CASE Boot
  <2> DEFINE w == IF run.status \in Unfinished THEN Working(run) ELSE {}
             st == [x \in Execs |-> IF x \in w THEN "waiting" ELSE run.st[x]]
             why == [x \in Execs |-> IF x \in w THEN "cut" ELSE run.why[x]]
             status == IF run.status = "running" /\ ~handed THEN "paused" ELSE run.status
             made == [run EXCEPT !.st = st, !.why = why, !.status = status]
  <2>1. run' = made
    BY <1>3 DEF Boot
  <2>2. made.status = status /\ made.delivered = run.delivered
    <3> HIDE DEF st, why, status
    <3> QED BY <1>1 DEF Runs
  <2>3. status \in {"done", "failed"} => run.status = status
    OBVIOUS
  <2> HIDE DEF made, status
  <2>4. Owes(run') => Owes(run)
    BY <2>1, <2>2, <2>3 DEF Owes
  <2>5. Owes(run) => lapsed'
    BY <1>3, Zenon DEF Boot, Owes
  <2> QED BY <2>4, <2>5 DEF ResultUnderWay
<1>4. CASE ServerUp
  <2>1. stage = "idle" /\ UNCHANGED <<run, root, paused, timers, core, history>>
    BY <1>4 DEF ServerUp, Quiet, durable
  <2> QED BY <2>1, CarrierStays DEF Spares
<1>5. ASSUME NEW x \in Execs \union {0}, Recover(x) PROVE ResultUnderWay'
  <2>1. CASE x = 0
    BY <1>5, <2>1, RootTells DEF Recover
  <2>2. CASE x # 0
    BY <1>5, <2>2, ClosesCarries DEF Recover, Outcomes
  <2> QED BY <2>1, <2>2
<1> QED BY <1>2, <1>3, <1>4, <1>5 DEF Cores

-----------------------------------------------------------------------------
(* The theorems.                                                           *)

LEMMA NextKeeps ==
  ASSUME IInv, [Next]_vars PROVE IInv'
<1>1. CASE UNCHANGED vars
  <2>1. SameWork(run, run') /\ Working(run') = Working(run)
    BY <1>1 DEF vars, durable, SameWork
  <2> QED BY <1>1, <2>1 DEF vars, durable, memory, life, IInv, TypeOK, Accounted, OverIsOver,
             TornWorks, RestTells, Places, Carried, DueTells
<1>2. CASE Loop
  <2>1. ASSUME NEW t \in {"advance", "settle", "deliver", "tell"}, Fire(t) PROVE IInv'
    BY <2>1, FireKeeps DEF Timers
  <2> QED BY <1>2, <2>1, StepKeeps, OpenKeeps, LaunchKeeps, SettleKeeps, RecordKeeps,
             AskWokenKeeps, StopStepsKeeps DEF Loop
<1>3. CASE Turns
  <2> SUFFICES ASSUME NEW x \in Execs,
                      \/ TurnStarts(x) \/ TurnEnds(x) \/ QueuedDropped(x)
                      \/ Rests(x) \/ WorkWakes(x) \/ WorkDone(x) \/ WorkLost(x)
               PROVE  IInv'
    BY <1>3 DEF Turns
  <2>1. CASE TurnEnds(x)
    <3>1. PICK outcome \in Outcomes : Closes(x, outcome)
      BY <2>1 DEF TurnEnds, Outcomes
    <3>2. /\ turn[x] # "none" /\ core # "down" /\ stage = "idle" /\ recover' = recover \ {x}
          /\ UNCHANGED <<root, paused, rest, asks, handed, core, resumed, coresLeft, lapsed, refused>>
          /\ actsLeft' \in Nat
      BY <2>1 DEF TurnEnds, Serves, Quiet, life, IInv, TypeOK
    <3> QED BY <3>1, <3>2, ClosesKeeps
  <2>2. CASE QueuedDropped(x)
    <3>1. /\ turn[x] # "none" /\ core # "down" /\ stage = "idle" /\ recover' = recover \ {x}
          /\ UNCHANGED <<root, paused, rest, asks, handed, core, resumed, coresLeft, lapsed, refused>>
          /\ actsLeft' \in Nat /\ Closes(x, "stopped")
      BY <2>2 DEF QueuedDropped, Serves, Quiet, life, IInv, TypeOK
    <3> QED BY <3>1, ClosesKeeps DEF Outcomes
  <2>3. CASE WorkLost(x)
    <3>1. /\ rest[x] # "none" /\ core # "down" /\ stage = "idle" /\ EndsResting(x, "failed")
          /\ UNCHANGED <<turn, own, root, paused, asked, asks, life, lapsed, refused>> /\ actsLeft' \in Nat
      BY <2>3 DEF WorkLost, Quiet, IInv, TypeOK
    <3> QED BY <3>1, EndsRestingKeeps
  <2> QED BY <2>1, <2>2, <2>3, TurnStartsKeeps, RestsKeeps, WorkWakesKeeps, WorkDoneKeeps
<1>4. CASE Users
  <2>1. ASSUME NEW x \in Execs, StopStep(x) \/ SendToStep(x) PROVE IInv'
    BY <2>1, StopStepKeeps, SendToStepKeeps
  <2> QED BY <1>4, <2>1, TeamKeeps, ControlKeeps, StopKeeps, RootKeeps DEF Users
<1>5. CASE Cores
  <2>1. CASE Exit
    <3>1. CoreEnds /\ actsLeft' \in Nat
      BY <2>1 DEF Exit, Quiet, IInv, TypeOK
    <3> QED BY <3>1, CoreEndsKeeps
  <2>2. CASE Crash
    <3>1. CoreEnds /\ actsLeft' \in Nat
      BY <2>2 DEF Crash, Act, IInv, TypeOK
    <3> QED BY <3>1, CoreEndsKeeps
  <2> QED BY <1>5, <2>1, <2>2, BeginHandoffKeeps, BootKeeps, ServerUpKeeps, RecoverKeeps DEF Cores
<1> QED BY <1>1, <1>2, <1>3, <1>4, <1>5 DEF Next

\* The invariant holds always, wherever a core dies (workflows.ts #stop, the
\* constructor).
THEOREM Inductive == Spec => []IInv
<1>1. IInv /\ [Next]_vars => IInv'
  BY NextKeeps
<1> QED BY <1>1, InitIInv, PTL DEF Spec, Safe

\* The record, the rows and the core's memory have the types the code gives them.
THEOREM TypeCorrect == Spec => []TypeOK
<1>1. IInv => TypeOK
  BY DEF IInv
<1> QED BY <1>1, Inductive, PTL

\* A Stop reaches every turn the run has out (workflows.ts #stop): an open turn
\* is accounted for, and a stopped run has nothing left that reads running but what
\* a death inside the Stop left without a turn.
THEOREM StopReachesAll == Spec => []StopReaches
<1>1. IInv => StopReaches
  BY DEF IInv, Accounted, OverIsOver, StopReaches, Working, Quiet
<1> QED BY <1>1, Inductive, PTL

\* A step that reads running in an unfinished run has a turn, background work,
\* or an answer that waits for the run's pause to be lifted, unless a death inside a
\* Stop left it so (workflows.ts #step, unwoken, #rested, the constructor).
THEOREM RunningWorks == Spec => []StepWorks
<1>1. IInv => StepWorks
  <2> SUFFICES ASSUME IInv, core = "up", Quiet, run.status \in Unfinished, NEW x \in Working(run) \ torn
               PROVE  turn[x] # "none" \/ rest[x] = "live" \/ (rest[x] = "due" /\ run.status = "paused")
    BY DEF StepWorks, Answered
  <2>1. turn[x] # "none" \/ rest[x] # "none"
    BY DEF IInv, Carried
  <2>2. rest[x] = "due" => run.status = "paused"
    BY DEF IInv, DueTells, Quiet, Unfinished, Working
  <2>3. rest[x] \in {"none", "live", "due"}
    BY DEF IInv, TypeOK, Working
  <2> QED BY <2>1, <2>2, <2>3
<1> QED BY <1>1, Inductive, PTL

\* The result of a run that ended by itself is under way to the root: a turn of
\* the root, a timer, the team's pause or the root's own refusal since its last
\* turn holds it, through handoffs, restarts and retries (workflows.ts #deliver,
\* #redeliver).
THEOREM ResultsCarriedAlways == Spec => []ResultsCarried
<1>1. Init => ResultUnderWay
  BY DEF Init, ResultUnderWay, Owes
<1>2. IInv /\ ResultUnderWay /\ [Next]_vars => ResultUnderWay'
  <2>1. CASE UNCHANGED vars
    BY <2>1 DEF vars, durable, memory, life, ResultUnderWay
  <2> QED BY <2>1, LoopCarries, TurnsCarry, UsersCarry, CoresCarry DEF Next
<1>3. ResultUnderWay => ResultsCarried
  BY DEF ResultUnderWay, ResultsCarried, Owes, Quiet
<1> QED BY <1>1, <1>2, <1>3, Inductive, PTL DEF Spec, Safe
=============================================================================
