----------------------- MODULE TurnLifecycle_proofs -----------------------
(***************************************************************************)
(* Proofs about TurnLifecycle for every set of threads and turns.          *)
(***************************************************************************)
EXTENDS TurnLifecycle, TLAPS

(* Type correctness: every operation of the core writes values of the     *)
(* domain of the variable it writes.                                       *)
LEMMA TypeInit == Init => TypeOK
  <1> SUFFICES ASSUME Init PROVE TypeOK
    OBVIOUS
  <1>1. handing \in BOOLEAN /\ resumed \in BOOLEAN
    BY Zenon DEF Init
  <1>2. origin \in [Turns -> Turns \union {NoTurn}] /\ running \in [Threads -> Turns \union {NoTurn}]
    BY DEF Init
  <1>3. userStop \in [Turns -> {"no", "asked", "archived", "forgotten"}]
        /\ kind \in [Turns -> AllKinds]
    BY DEF Init, AllKinds
  <1> QED BY <1>1, <1>2, <1>3 DEF Init, TypeOK, Active, Closed

USE DEF journal, loop, sched, runner, handoff

\* A Dequeue, an Uncarded status and a scheduler.stop keep the types.
LEMMA TypeStop ==
  ASSUME TypeOK, NEW th \in Threads, SchedulerStop(th)
  PROVE  /\ status' \in [Turns -> {"none", "queued", "running"} \union Closed]
         /\ held' \subseteq Turns
         /\ rest' \in [Threads -> Active \union {"idle", "error"}]
         /\ queue' \subseteq queue /\ queueHold' \subseteq queue'
         /\ stopReq' \subseteq Threads
  <1>1. CASE StopRunning({th}) /\ UNCHANGED <<status, held, queue, queueHold>>
    BY <1>1 DEF TypeOK, StopRunning, Uncarded, Active
  <1>2. CASE /\ \E t \in queue : Home[t] = th /\ MarkQueuedStopped(t) /\ Dequeue({t})
             /\ UNCHANGED stopReq
    BY <1>2, HomeAssumption DEF TypeOK, MarkQueuedStopped, FinishTurn, Dequeue, Resting, Active, Closed
  <1>3. CASE UNCHANGED <<status, held, rest, queue, queueHold, stopReq>>
    BY <1>3 DEF TypeOK
  <1> QED BY <1>1, <1>2, <1>3 DEF SchedulerStop

\* The scheduler's pump and the synchronous start of a turn write typed values.
LEMMA TypePump ==
  ASSUME TypeOK, SchedulerStep
  PROVE  TypeOK'
  <1> PICK t \in Turns : PumpSkips(t) \/ StartTurn(t) \/ StartRefused(t) \/ StartFails(t)
    BY DEF SchedulerStep
  <1>1. CASE PumpSkips(t)
    BY <1>1 DEF TypeOK, PumpSkips
  <1>2. CASE StartTurn(t)
    BY <1>2, HomeAssumption DEF TypeOK, StartTurn, TakeSlot, Dequeue, WithoutStarted, Active
  <1>3. CASE StartRefused(t)
    BY <1>3, HomeAssumption
    DEF TypeOK, StartRefused, TakeSlot, Dequeue, MarkQueuedStopped, FinishTurn, Resting, Closed, Active
  <1>4. CASE StartFails(t)
    BY <1>4, HomeAssumption DEF TypeOK, StartFails, TakeSlot, Dequeue, Closed
  <1> QED BY <1>1, <1>2, <1>3, <1>4

\* So does every step of a runner: attempts, cards, settlement, the freed slot.
LEMMA TypeRunner ==
  ASSUME TypeOK, NEW th \in Threads, RunnerStep(th)
  PROVE  TypeOK'
  <1>1. CASE Attach(th)
    BY <1>1 DEF TypeOK, Attach
  <1>2. CASE PreparationEnds(th) \/ AttemptEnds(th)
    BY <1>2 DEF TypeOK, PreparationEnds, AttemptEnds, Closes, Outcomes, Closed
  <1>3. CASE CardOpens(th) \/ CardAnswered(th)
    BY <1>3 DEF TypeOK, CardOpens, CardAnswered, Active
  <1>4. CASE Settle(th)
    <2> DEFINE t == running[th]
    <2>1. CASE OwnsTurn(th)
      <3>1. result[th] \in Closed \union {"none"} /\ t \in Turns \union {NoTurn}
        BY DEF TypeOK
      <3>2. status' \in [Turns -> {"none", "queued", "running"} \union Closed]
        BY <1>4, <2>1, <3>1 DEF Settle, FinishTurn, TypeOK
      <3>3. rest' \in [Threads -> Active \union {"idle", "error"}]
        BY <1>4, <2>1 DEF Settle, FinishTurn, Resting, TypeOK
      <3> QED BY <1>4, <2>1, <3>2, <3>3 DEF TypeOK, Settle, SettlementOver, HandoffHears
    <2>2. CASE ~OwnsTurn(th)
      BY <1>4, <2>2 DEF TypeOK, Settle, SettlementOver
    <2> QED BY <2>1, <2>2
  <1>5. CASE Abandon(th)
    BY <1>5 DEF TypeOK, Abandon, SettlementOver
  <1>6. CASE Finalize(th)
    BY <1>6 DEF TypeOK, Finalize, Pump
  <1> QED BY <1>1, <1>2, <1>3, <1>4, <1>5, <1>6 DEF RunnerStep

\* So does every request of the user, and every change of an account or agent.
LEMMA TypeUser ==
  ASSUME TypeOK, UserStep
  PROVE  TypeOK'
  <1>1. ASSUME NEW th \in Threads, NEW k \in Kinds, Admit(th, k) PROVE TypeOK'
    BY <1>1, TurnsAssumption, HomeAssumption, KindsAssumption
    DEF TypeOK, Admit, AdmitTurn, Fresh, TurnsOf, Enqueue, Pump, Active
  <1>2. ASSUME NEW th \in Threads, Stop(th) PROVE TypeOK'
    <2>1. userStop' \in [Turns -> {"no", "asked", "archived", "forgotten"}]
      BY <1>2 DEF Stop, StopMarks, TypeOK
    <2>2. rec' \in [Turns -> {"no", "running", "queued"}]
      BY <1>2 DEF Stop, Forget, TypeOK
    <2>3. SchedulerStop(th) /\ pump' = {}
      BY <1>2 DEF Stop, Free
    <2> QED BY <1>2, <2>1, <2>2, <2>3, TypeStop DEF Stop, TypeOK
  <1>3. ASSUME NEW th \in Threads, Archive(th) PROVE TypeOK'
    <2>1. userStop' \in [Turns -> {"no", "asked", "archived", "forgotten"}]
      BY <1>3 DEF Archive, TypeOK
    <2>2. SchedulerStop(th) /\ pump' = {} /\ archived' \subseteq Threads
      BY <1>3 DEF Archive, Free, TypeOK
    <2> QED BY <1>3, <2>1, <2>2, TypeStop DEF Archive, TypeOK
  <1>4. ASSUME NEW th \in Threads, Unarchive(th) \/ Gate(th) \/ Lift(th) PROVE TypeOK'
    BY <1>4 DEF TypeOK, Unarchive, Gate, Lift, Pump
  <1>5. ASSUME NEW t \in Turns, ResumeHeld(t) PROVE TypeOK'
    BY <1>5 DEF TypeOK, ResumeHeld, Enqueue, Pump
  <1>6. ASSUME NEW t \in Turns, DiscardHeld(t) PROVE TypeOK'
    <2>1. SchedulerStop(Home[t]) /\ pump' = {} /\ Home[t] \in Threads
      BY <1>6, HomeAssumption DEF DiscardHeld, FreeUp
    <2> QED BY <1>6, <2>1, TypeStop DEF DiscardHeld, TypeOK
  <1> QED BY <1>1, <1>2, <1>3, <1>4, <1>5, <1>6 DEF UserStep

\* So do the handoff, the drain and a death of the process.
LEMMA TypeShutdown ==
  ASSUME TypeOK, ShutdownStep
  PROVE  TypeOK'
  <1>1. CASE BeginHandoff
    <2>1. pending' \subseteq Turns
      BY <1>1 DEF BeginHandoff, Occupied, TypeOK
    <2>2. rec' \in [Turns -> {"no", "running", "queued"}]
      BY <1>1 DEF BeginHandoff, Recorded, TypeOK
    <2>3. handing' \in BOOLEAN
      BY <1>1, Zenon DEF BeginHandoff
    <2> QED BY <1>1, <2>1, <2>2, <2>3 DEF BeginHandoff, TypeOK
  <1>2. CASE HandoffEnds \/ HandoffBackstop \/ Shutdown \/ Drain
    BY <1>2 DEF TypeOK, HandoffEnds, HandoffBackstop, Shutdown, Drain, LeaveFor
  <1>3. CASE DrainStop
    BY <1>3 DEF TypeOK, DrainStop, StopRunning, Uncarded, Active
  <1>4. CASE Exit \/ Crash
    <2>1. Dies
      BY <1>4 DEF Exit, Crash
    <2>2. handing' \in BOOLEAN /\ resumed' \in BOOLEAN
      BY <2>1, Zenon DEF Dies
    <2> QED BY <2>1, <2>2 DEF TypeOK, Dies
  <1>5. ASSUME NEW t \in Turns, HandoffStop(t) PROVE TypeOK'
    BY <1>5, HomeAssumption DEF TypeOK, HandoffStop, StopRunning, Uncarded, Active
  <1>6. ASSUME NEW t \in Turns, DrainEntry(t) PROVE TypeOK'
    BY <1>6, HomeAssumption
    DEF TypeOK, DrainEntry, Dequeue, MarkQueuedStopped, FinishTurn, Resting, Active, Closed
  <1> QED BY <1>1, <1>2, <1>3, <1>4, <1>5, <1>6 DEF ShutdownStep

\* So do the recovery of the next core and handoff.resume.
LEMMA TypeStartup ==
  ASSUME TypeOK, StartupStep
  PROVE  TypeOK'
  <1>1. ASSUME NEW fresh \in BOOLEAN, Boot(fresh) PROVE TypeOK'
    BY <1>1 DEF TypeOK, Boot
  <1>2. ASSUME NEW t \in Turns, RecoverTurn(t) PROVE TypeOK'
    <2>1. CASE UNCHANGED <<status, held, rest, queue, queueHold, pump>>
      BY <1>2, <2>1 DEF TypeOK, RecoverTurn
    <2>2. CASE /\ held' = held \union {t}
               /\ rest' = [rest EXCEPT ![Home[t]] = "queued"]
               /\ Enqueue(t, TRUE)
               /\ UNCHANGED status
      BY <1>2, <2>2, HomeAssumption DEF TypeOK, RecoverTurn, Enqueue, Pump, Active
    <2>3. ASSUME NEW s \in Closed, FinishTurn(t, s), UNCHANGED <<held, queue, queueHold, pump>>
          PROVE  TypeOK'
      BY <1>2, <2>3, HomeAssumption DEF TypeOK, RecoverTurn, FinishTurn, Resting, Active, Closed
    <2>4. "stopped" \in Closed /\ "error" \in Closed
      BY DEF Closed
    <2> QED BY <1>2, <2>1, <2>2, <2>3, <2>4 DEF RecoverTurn
  <1>3. CASE Recovered
    BY <1>3 DEF TypeOK, Recovered, SettledRest, Active
  <1>4. CASE BeginResume
    <2>1. resumed' \in BOOLEAN
      BY <1>4, Zenon DEF BeginResume
    <2> QED BY <1>4, <2>1 DEF TypeOK, BeginResume
  <1>5. CASE ResumeDone
    BY <1>5 DEF TypeOK, ResumeDone, LeaveFor
  <1>6. ASSUME NEW t \in Turns, SkipEntry(t) \/ ConsumeEntry(t) \/ ContinuationRefused(t) PROVE TypeOK'
    BY <1>6 DEF TypeOK, SkipEntry, ConsumeEntry, ContinuationRefused, Visit, Consume
  <1>7. ASSUME NEW t \in Turns, RequeueEntry(t) PROVE TypeOK'
    BY <1>7 DEF TypeOK, RequeueEntry, Visit, Enqueue, Pump
  <1>8. ASSUME NEW t \in Turns, ContinueEntry(t) PROVE TypeOK'
    <2> PICK c \in Turns : AdmitTurn(c, "resume", t) /\ Enqueue(c, FALSE)
      BY <1>8 DEF ContinueEntry, Fresh, TurnsOf
    <2>1. "resume" \in AllKinds
      BY DEF AllKinds
    <2>2. /\ status' \in [Turns -> {"none", "queued", "running"} \union Closed]
          /\ kind' \in [Turns -> AllKinds]
          /\ origin' \in [Turns -> Turns \union {NoTurn}]
          /\ rest' \in [Threads -> Active \union {"idle", "error"}]
      BY <2>1, HomeAssumption DEF TypeOK, AdmitTurn, Active
    <2>3. queue' \subseteq Turns /\ queueHold' \subseteq queue' /\ pump' \subseteq Turns
      BY DEF TypeOK, Enqueue, Pump
    <2> QED BY <1>8, <2>2, <2>3 DEF TypeOK, ContinueEntry, Visit
  <1>9. ASSUME \E fresh \in BOOLEAN : Boot(fresh) PROVE TypeOK'
    BY <1>1, <1>9, Zenon
  <1>10. CASE RecoveryLoop \/ BeginResume \/ ResumeLoop
    BY <1>2, <1>3, <1>4, <1>5, <1>6, <1>7, <1>8, <1>10 DEF RecoveryLoop, ResumeLoop
  <1> QED BY <1>9, <1>10 DEF StartupStep

\* Every step of the core keeps the types.
LEMMA TypeStep == TypeOK /\ [Next]_vars => TypeOK'
  <1> SUFFICES ASSUME TypeOK, [Next]_vars PROVE TypeOK'
    OBVIOUS
  <1>1. CASE UNCHANGED vars
    BY <1>1 DEF vars, TypeOK
  <1> QED BY <1>1, TypePump, TypeRunner, TypeUser, TypeShutdown, TypeStartup DEF Next

\* Every variable of the core and of its journal keeps its type, over any
\* number of crashes and restarts.
THEOREM TypeCorrect == Spec => []TypeOK
  BY TypeInit, TypeStep, PTL DEF Spec

-----------------------------------------------------------------------------
(* The inductive invariant.  A turn that closes is the one open turn of    *)
(* its thread, so that its thread comes to rest with it.                   *)
\* finishTurn on an open turn leaves its thread at rest and closes only that turn.
LEMMA FinishOpen ==
  ASSUME IInv, NEW t \in Turns, Open(t), NEW s \in Closed, FinishTurn(t, s)
  PROVE  /\ status' = [status EXCEPT ![t] = s]
         /\ rest' = [rest EXCEPT ![Home[t]] = Resting(s)]
         /\ OneOpenTurn' /\ StatusFollowsTurns'
  <1>1. \A u \in TurnsOf(Home[t]) \ {t} : ~Open(u)
    BY DEF IInv, OneOpenTurn, TurnsOf
  <1>2. status' = [status EXCEPT ![t] = s] /\ rest' = [rest EXCEPT ![Home[t]] = Resting(s)]
    BY <1>1 DEF FinishTurn
  <1>3. Home[t] \in Threads /\ s \notin {"queued", "running"} /\ Resting(s) \in {"idle", "error"}
    BY HomeAssumption DEF Closed, Resting
  <1>4. OneOpenTurn'
    BY <1>2, <1>3 DEF IInv, OneOpenTurn, Open, TypeOK
  <1>5. StatusFollowsTurns'
    <2> SUFFICES ASSUME NEW th \in Threads
                 PROVE  /\ rest'[th] = "queued" <=> \E u \in TurnsOf(th) : status'[u] = "queued"
                        /\ rest'[th] \in {"running", "waiting"} <=> \E u \in TurnsOf(th) : status'[u] = "running"
      BY DEF StatusFollowsTurns, TurnsOf
    <2>1. CASE th = Home[t]
      <3>1. \A u \in TurnsOf(th) : status'[u] \notin {"queued", "running"}
        BY <1>1, <1>2, <1>3, <2>1 DEF IInv, TypeOK, Open, TurnsOf
      <3>2. rest'[th] \in {"idle", "error"}
        BY <1>2, <1>3, <2>1 DEF IInv, TypeOK
      <3> QED BY <3>1, <3>2
    <2>2. CASE th # Home[t]
      <3>1. rest'[th] = rest[th] /\ \A u \in TurnsOf(th) : status'[u] = status[u]
        BY <1>2, <2>2 DEF IInv, TypeOK, TurnsOf
      <3> QED BY <3>1 DEF IInv, StatusFollowsTurns
    <2> QED BY <2>1, <2>2
  <1> QED BY <1>2, <1>4, <1>5

\* A status that moves between `running' and `waiting' follows the same turns.
LEMMA SameRows ==
  ASSUME IInv, UNCHANGED status,
         \A th \in Threads : \/ rest'[th] = rest[th]
                             \/ {rest[th], rest'[th]} \subseteq {"running", "waiting"}
  PROVE  OneOpenTurn' /\ StatusFollowsTurns'
  <1>1. OneOpenTurn'
    BY DEF IInv, OneOpenTurn, Open
  <1>2. StatusFollowsTurns'
    BY DEF IInv, StatusFollowsTurns, TurnsOf
  <1> QED BY <1>1, <1>2

\* A closed thread takes one new turn.
LEMMA AdmitRows ==
  ASSUME IInv, NEW th \in Threads, ~Busy(th), NEW t \in Fresh(th), NEW k, NEW cut, AdmitTurn(t, k, cut)
  PROVE  OneOpenTurn' /\ StatusFollowsTurns' /\ Home[t] = th /\ t \in Turns /\ status[t] = "none"
         /\ \A u \in TurnsOf(th) : ~Open(u)
  <1>1. Home[t] = th /\ t \in Turns /\ status[t] = "none"
    BY DEF Fresh, TurnsOf
  <1>2. \A u \in TurnsOf(th) : ~Open(u)
    BY DEF IInv, TypeOK, StatusFollowsTurns, Busy, Open, Active
  <1>3. status' = [status EXCEPT ![t] = "queued"] /\ rest' = [rest EXCEPT ![th] = "queued"]
    BY <1>1 DEF AdmitTurn
  <1>4. OneOpenTurn'
    BY <1>1, <1>2, <1>3 DEF IInv, TypeOK, OneOpenTurn, Open, TurnsOf
  <1>5. StatusFollowsTurns'
    <2> SUFFICES ASSUME NEW h \in Threads
                 PROVE  /\ rest'[h] = "queued" <=> \E u \in TurnsOf(h) : status'[u] = "queued"
                        /\ rest'[h] \in {"running", "waiting"} <=> \E u \in TurnsOf(h) : status'[u] = "running"
      BY DEF StatusFollowsTurns, TurnsOf
    <2>1. CASE h = th
      BY <1>1, <1>2, <1>3, <2>1 DEF IInv, TypeOK, Open, TurnsOf
    <2>2. CASE h # th
      <3>1. rest'[h] = rest[h] /\ \A u \in TurnsOf(h) : status'[u] = status[u]
        BY <1>1, <1>3, <2>2 DEF IInv, TypeOK, TurnsOf
      <3> QED BY <3>1 DEF IInv, StatusFollowsTurns
    <2> QED BY <2>1, <2>2
  <1> QED BY <1>1, <1>2, <1>4, <1>5

\* A queued turn starts on the slot of its thread.
LEMMA StartRows ==
  ASSUME IInv, NEW t \in Turns, StartTurn(t)
  PROVE  OneOpenTurn' /\ StatusFollowsTurns'
  <1>1. status[t] = "queued" /\ Home[t] \in Threads
    BY HomeAssumption DEF StartTurn, TakeSlot, IInv, QueuedRows
  <1>2. \A u \in TurnsOf(Home[t]) \ {t} : ~Open(u)
    BY <1>1 DEF IInv, OneOpenTurn, TurnsOf, Open
  <1>3. status' = [status EXCEPT ![t] = "running"] /\ rest' = [rest EXCEPT ![Home[t]] = "running"]
    BY DEF StartTurn
  <1>4. OneOpenTurn'
    BY <1>1, <1>3 DEF IInv, TypeOK, OneOpenTurn, Open
  <1>5. StatusFollowsTurns'
    <2> SUFFICES ASSUME NEW h \in Threads
                 PROVE  /\ rest'[h] = "queued" <=> \E u \in TurnsOf(h) : status'[u] = "queued"
                        /\ rest'[h] \in {"running", "waiting"} <=> \E u \in TurnsOf(h) : status'[u] = "running"
      BY DEF StatusFollowsTurns, TurnsOf
    <2>1. CASE h = Home[t]
      BY <1>1, <1>2, <1>3, <2>1 DEF IInv, TypeOK, Open, TurnsOf
    <2>2. CASE h # Home[t]
      <3>1. rest'[h] = rest[h] /\ \A u \in TurnsOf(h) : status'[u] = status[u]
        BY <1>3, <2>2 DEF IInv, TypeOK, TurnsOf
      <3> QED BY <3>1 DEF IInv, StatusFollowsTurns
    <2> QED BY <2>1, <2>2
  <1> QED BY <1>4, <1>5

Rows  == OneOpenTurn /\ StatusFollowsTurns
Slots == QueuedRows /\ SlotRows /\ HeldRows /\ Results /\ NothingRuns

\* A core on an empty journal satisfies the invariant.
LEMMA InvInit == Init => IInv
  <1> SUFFICES ASSUME Init PROVE IInv
    OBVIOUS
  <1>1. TypeOK
    BY TypeInit
  <1>2. OneOpenTurn /\ StatusFollowsTurns
    BY DEF Init, OneOpenTurn, StatusFollowsTurns, Open, TurnsOf
  <1>3. QueuedRows /\ SlotRows /\ HeldRows /\ Results /\ NothingRuns
    BY DEF Init, QueuedRows, SlotRows, HeldRows, Results, NothingRuns
  <1> QED BY <1>1, <1>2, <1>3 DEF IInv

\* What scheduler.stop leaves, whichever of its three ends it comes to.
LEMMA StopSlots ==
  ASSUME IInv, NEW th \in Threads, SchedulerStop(th), core \notin {"down", "recovering"},
         UNCHANGED <<core, running, phase, result>>, pump = {}, pump' = {}
  PROVE  Rows' /\ Slots'
  <1>1. CASE StopRunning({th}) /\ UNCHANGED <<status, held, queue, queueHold>>
    <2>1. Rows'
      BY <1>1, SameRows DEF Rows, StopRunning, Uncarded, CanStop, IInv, TypeOK
    <2>2. Slots'
      BY <1>1 DEF Slots, IInv, QueuedRows, SlotRows, HeldRows, Results, NothingRuns
    <2> QED BY <2>1, <2>2
  <1>2. ASSUME NEW t \in queue, Home[t] = th, MarkQueuedStopped(t), Dequeue({t}), running[th] = NoTurn
        PROVE  Rows' /\ Slots'
    <2>1. t \in Turns /\ Open(t) /\ FinishTurn(t, "stopped") /\ held' = held \ {t} /\ "stopped" \in Closed
      BY <1>2 DEF IInv, TypeOK, QueuedRows, MarkQueuedStopped, Open, Closed
    <2>2. Rows' /\ status' = [status EXCEPT ![t] = "stopped"]
      BY <2>1, FinishOpen DEF Rows
    <2>3. QueuedRows' /\ HeldRows' /\ Results' /\ NothingRuns'
      BY <1>2, <2>1, <2>2 DEF IInv, TypeOK, QueuedRows, HeldRows, Results, NothingRuns, Dequeue
    <2>4. SlotRows'
      BY <2>1, <2>2 DEF IInv, TypeOK, SlotRows
    <2> QED BY <2>2, <2>3, <2>4 DEF Slots
  <1>3. CASE UNCHANGED <<status, held, rest, queue, queueHold, stopReq>>
    <2>1. Rows'
      BY <1>3, SameRows DEF Rows
    <2>2. Slots'
      BY <1>3 DEF Slots, IInv, QueuedRows, SlotRows, HeldRows, Results, NothingRuns
    <2> QED BY <2>1, <2>2
  <1> QED BY <1>1, <1>2, <1>3 DEF SchedulerStop

\* The pump moves a queued row to the one slot of its thread, or leaves it.
LEMMA InvPump ==
  ASSUME IInv, SchedulerStep
  PROVE  Rows' /\ Slots'
  <1> PICK t \in Turns : PumpSkips(t) \/ StartTurn(t) \/ StartRefused(t) \/ StartFails(t)
    BY DEF SchedulerStep
  <1>1. CASE PumpSkips(t)
    <2>1. Rows'
      BY <1>1, SameRows DEF Rows, PumpSkips
    <2>2. Slots'
      BY <1>1 DEF Slots, IInv, PumpSkips, QueuedRows, SlotRows, HeldRows, Results, NothingRuns, Open
    <2> QED BY <2>1, <2>2
  <1>2. ASSUME TakeSlot(t)
        PROVE  /\ t \in queue /\ status[t] = "queued" /\ t \notin held /\ t \notin queueHold
               /\ running[Home[t]] = NoTurn /\ Home[t] \in Threads
               /\ core \notin {"down", "recovering"} /\ t # NoTurn
    BY <1>2, HomeAssumption, TurnsAssumption DEF TakeSlot, Waits, IInv, TypeOK, QueuedRows, NothingRuns
  <1>3. CASE StartTurn(t)
    <2>1. Rows'
      BY <1>3, StartRows DEF Rows
    <2>2. TakeSlot(t)
      BY <1>3 DEF StartTurn
    <2>3. Slots'
      BY <1>2, <1>3, <2>2 DEF Slots, IInv, TypeOK, StartTurn, TakeSlot, Dequeue, QueuedRows, SlotRows, HeldRows, Results, NothingRuns
    <2> QED BY <2>1, <2>3
  <1>4. CASE StartRefused(t)
    <2>1. TakeSlot(t) /\ FinishTurn(t, "stopped") /\ held' = held \ {t} /\ "stopped" \in Closed
      BY <1>4 DEF StartRefused, MarkQueuedStopped, Closed
    <2>2. Rows' /\ status' = [status EXCEPT ![t] = "stopped"]
      BY <1>2, <2>1, FinishOpen DEF Rows, Open
    <2>3. Slots'
      BY <1>2, <1>4, <2>1, <2>2 DEF Slots, IInv, TypeOK, StartRefused, TakeSlot, Dequeue, QueuedRows, SlotRows, HeldRows, Results, NothingRuns
    <2> QED BY <2>2, <2>3
  <1>5. CASE StartFails(t)
    <2>1. Rows'
      BY <1>5, SameRows DEF Rows, StartFails
    <2>2. TakeSlot(t)
      BY <1>5 DEF StartFails
    <2>3. Slots'
      BY <1>2, <1>5, <2>2 DEF Slots, IInv, TypeOK, StartFails, TakeSlot, Dequeue, QueuedRows, SlotRows, HeldRows, Results, NothingRuns, Closed
    <2> QED BY <2>1, <2>3
  <1> QED BY <1>1, <1>3, <1>4, <1>5

\* A runner settles the row of its own slot, and only while that row is still its own.
LEMMA InvRunner ==
  ASSUME IInv, NEW th \in Threads, RunnerStep(th)
  PROVE  Rows' /\ Slots'
  <1>0. core \notin {"down", "recovering"} /\ core' = core /\ pump = {}
    BY DEF RunnerStep, Attach, PreparationEnds, AttemptEnds, CardOpens, CardAnswered, Settle, Abandon, Finalize, Free
  <1>1. CASE Attach(th)
    <2>1. Rows'
      BY <1>1, SameRows DEF Rows, Attach
    <2>2. Slots'
      BY <1>0, <1>1 DEF Slots, IInv, TypeOK, Attach, QueuedRows, SlotRows, HeldRows, Results, NothingRuns
    <2> QED BY <2>1, <2>2
  <1>2. CASE PreparationEnds(th) \/ AttemptEnds(th)
    <2>1. Rows'
      BY <1>2, SameRows DEF Rows, PreparationEnds, AttemptEnds
    <2>2. PICK r \in Closed : Closes(th, r)
      BY <1>2 DEF PreparationEnds, AttemptEnds, Outcomes, Closed
    <2>3. Slots'
      BY <1>0, <1>2, <2>2 DEF Slots, IInv, TypeOK, PreparationEnds, AttemptEnds, Closes, QueuedRows, SlotRows, HeldRows, Results, NothingRuns
    <2> QED BY <2>1, <2>3
  <1>3. CASE CardOpens(th) \/ CardAnswered(th)
    <2>1. Rows'
      BY <1>3, SameRows DEF Rows, CardOpens, CardAnswered, IInv, TypeOK
    <2>2. Slots'
      BY <1>0, <1>3 DEF Slots, IInv, CardOpens, CardAnswered, QueuedRows, SlotRows, HeldRows, Results, NothingRuns
    <2> QED BY <2>1, <2>2
  <1>4. CASE Settle(th)
    <2> DEFINE t == running[th]
    <2>0. t # NoTurn
      BY <1>4 DEF Settle, IInv, SlotRows
    <2>1. CASE OwnsTurn(th)
      <3>1. t \in Turns /\ Open(t) /\ result[th] \in Closed
        BY <1>4, <2>1, <2>0 DEF IInv, TypeOK, Settle, OwnsTurn, Open, Results
      <3>2. FinishTurn(t, result[th])
        BY <1>4, <2>1 DEF Settle
      <3>3. Rows' /\ status' = [status EXCEPT ![t] = result[th]]
        BY <3>1, <3>2, FinishOpen DEF Rows
      <3>4. Home[t] = th /\ t \notin queue
        BY <2>0 DEF IInv, SlotRows, QueuedRows
      <3>5. QueuedRows' /\ HeldRows'
        BY <1>4, <3>1, <3>3, <3>4 DEF IInv, TypeOK, Settle, QueuedRows, HeldRows, Closed
      <3>6. SlotRows' /\ Results' /\ NothingRuns'
        BY <1>0, <1>4, <3>1, <3>3 DEF IInv, TypeOK, Settle, SettlementOver, SlotRows, Results, NothingRuns, Closed
      <3> QED BY <3>3, <3>5, <3>6 DEF Slots
    <2>2. CASE ~OwnsTurn(th)
      <3>1. Rows'
        BY <1>4, <2>2, SameRows DEF Rows, Settle
      <3>2. Slots'
        BY <1>0, <1>4, <2>2 DEF Slots, IInv, TypeOK, Settle, SettlementOver, QueuedRows, SlotRows, HeldRows, Results, NothingRuns
      <3> QED BY <3>1, <3>2
    <2> QED BY <2>1, <2>2
  <1>5. CASE Abandon(th)
    <2>1. Rows'
      BY <1>5, SameRows DEF Rows, Abandon
    <2>2. Slots'
      BY <1>0, <1>5 DEF Slots, IInv, TypeOK, Abandon, SettlementOver, QueuedRows, SlotRows, HeldRows, Results, NothingRuns
    <2> QED BY <2>1, <2>2
  <1>6. CASE Finalize(th)
    <2>1. Rows'
      BY <1>6, SameRows DEF Rows, Finalize
    <2>2. Slots'
      BY <1>0, <1>6, TurnsAssumption DEF Slots, IInv, TypeOK, Finalize, Pump, Stopping, QueuedRows, SlotRows, HeldRows, Results, NothingRuns
    <2> QED BY <2>1, <2>2
  <1> QED BY <1>1, <1>2, <1>3, <1>4, <1>5, <1>6 DEF RunnerStep

\* Admission refuses a second open turn, and Stop, archive and turns.recover keep
\* the queue and the journal in step.
LEMMA InvUser ==
  ASSUME IInv, UserStep
  PROVE  Rows' /\ Slots'
  <1>1. ASSUME NEW th \in Threads, NEW k \in Kinds, Admit(th, k) PROVE Rows' /\ Slots'
    <2> PICK t \in Fresh(th) : AdmitTurn(t, k, NoTurn) /\ Enqueue(t, FALSE)
      BY <1>1 DEF Admit
    <2>1. Rows' /\ Home[t] = th /\ t \in Turns /\ status[t] = "none"
      BY <1>1, AdmitRows DEF Rows, Admit
    <2>2. Slots'
      <3>1. t \notin held /\ \A h \in Threads : running[h] # t
        BY <2>1, TurnsAssumption DEF IInv, HeldRows, SlotRows
      <3>2. QueuedRows'
        BY <1>1, <2>1, <3>1 DEF IInv, TypeOK, Admit, FreeUp, AdmitTurn, Enqueue, Pump, Stopping, QueuedRows
      <3>3. SlotRows' /\ HeldRows' /\ Results' /\ NothingRuns'
        BY <1>1, <2>1, <3>1 DEF IInv, TypeOK, Admit, FreeUp, AdmitTurn, SlotRows, HeldRows, Results, NothingRuns
      <3> QED BY <3>2, <3>3 DEF Slots
    <2> QED BY <2>1, <2>2
  <1>2. ASSUME NEW th \in Threads, Stop(th) \/ Archive(th) PROVE Rows' /\ Slots'
    <2>1. /\ SchedulerStop(th) /\ core \notin {"down", "recovering"}
          /\ UNCHANGED <<core, running, phase, result>> /\ pump = {} /\ pump' = {}
      BY <1>2 DEF Stop, Archive, Free
    <2> QED BY <2>1, StopSlots
  <1>3. ASSUME NEW th \in Threads, Unarchive(th) \/ Gate(th) \/ Lift(th) PROVE Rows' /\ Slots'
    <2>1. Rows'
      BY <1>3, SameRows DEF Rows, Unarchive, Gate, Lift
    <2>2. core \notin {"down", "recovering", "draining"}
      BY <1>3 DEF Unarchive, Gate, Lift, Free, FreeUp
    <2>3. pump' \subseteq queue'
      BY <1>3 DEF Unarchive, Gate, Lift, Free, FreeUp, Pump
    <2>4. Slots'
      BY <1>3, <2>2, <2>3 DEF Slots, IInv, Unarchive, Gate, Lift, QueuedRows, SlotRows, HeldRows, Results, NothingRuns
    <2> QED BY <2>1, <2>4
  <1>4. ASSUME NEW t \in Turns, ResumeHeld(t) PROVE Rows' /\ Slots'
    <2>1. Rows'
      BY <1>4, SameRows DEF Rows, ResumeHeld
    <2>2. running[Home[t]] # t
      BY <1>4, HomeAssumption, TurnsAssumption DEF ResumeHeld, IInv, SlotRows
    <2>3. Slots'
      BY <1>4, <2>2 DEF Slots, IInv, TypeOK, ResumeHeld, FreeUp, Enqueue, Pump, Stopping, QueuedRows, SlotRows, HeldRows, Results, NothingRuns
    <2> QED BY <2>1, <2>3
  <1>5. ASSUME NEW t \in Turns, DiscardHeld(t) PROVE Rows' /\ Slots'
    <2>1. /\ SchedulerStop(Home[t]) /\ core \notin {"down", "recovering"} /\ Home[t] \in Threads
          /\ UNCHANGED <<core, running, phase, result>> /\ pump = {} /\ pump' = {}
      BY <1>5, HomeAssumption DEF DiscardHeld, FreeUp
    <2> QED BY <2>1, StopSlots
  <1> QED BY <1>1, <1>2, <1>3, <1>4, <1>5 DEF UserStep

\* A handoff, a drain and a death of the process leave rows the next core can read.
LEMMA InvShutdown ==
  ASSUME IInv, ShutdownStep
  PROVE  Rows' /\ Slots'
  <1>1. CASE BeginHandoff \/ HandoffEnds \/ HandoffBackstop \/ Shutdown \/ Drain
    <2>1. Rows'
      BY <1>1, SameRows DEF Rows, BeginHandoff, HandoffEnds, HandoffBackstop, Shutdown, Drain, LeaveFor
    <2>2. core' \notin {"down", "recovering"} /\ pump = {} /\ pump' = pump
      BY <1>1 DEF BeginHandoff, HandoffEnds, HandoffBackstop, Shutdown, Drain, LeaveFor, Free, FreeUp
    <2>3. UNCHANGED <<status, held, queue, queueHold, running, phase, result>>
      BY <1>1 DEF BeginHandoff, HandoffEnds, HandoffBackstop, Shutdown, Drain, LeaveFor
    <2>4. Slots'
      BY <2>2, <2>3 DEF Slots, IInv, QueuedRows, SlotRows, HeldRows, Results, NothingRuns
    <2> QED BY <2>1, <2>4
  <1>2. CASE DrainStop
    <2>1. Rows'
      BY <1>2, SameRows DEF Rows, DrainStop, StopRunning, Uncarded, IInv, TypeOK
    <2>2. Slots'
      BY <1>2 DEF Slots, IInv, DrainStop, QueuedRows, SlotRows, HeldRows, Results, NothingRuns
    <2> QED BY <2>1, <2>2
  <1>3. CASE Exit \/ Crash
    <2>1. Rows'
      BY <1>3, SameRows DEF Rows, Exit, Crash, Dies
    <2>2. Slots'
      BY <1>3 DEF Slots, IInv, Exit, Crash, Dies, QueuedRows, SlotRows, HeldRows, Results, NothingRuns
    <2> QED BY <2>1, <2>2
  <1>4. ASSUME NEW t \in Turns, HandoffStop(t) PROVE Rows' /\ Slots'
    <2>1. Rows'
      BY <1>4, SameRows DEF Rows, HandoffStop, StopRunning, Uncarded, IInv, TypeOK
    <2>2. Slots'
      BY <1>4 DEF Slots, IInv, HandoffStop, QueuedRows, SlotRows, HeldRows, Results, NothingRuns
    <2> QED BY <2>1, <2>2
  <1>5. ASSUME NEW t \in Turns, DrainEntry(t) PROVE Rows' /\ Slots'
    <2>1. t \in queue /\ Dequeue({t}) /\ status[t] = "queued" /\ core = "draining" /\ pump = {}
      BY <1>5 DEF DrainEntry, IInv, QueuedRows
    <2>2. CASE KeepsQueued(t)
      <3>1. Rows'
        BY <1>5, <2>2, SameRows DEF Rows, DrainEntry
      <3>2. Slots'
        BY <1>5, <2>1, <2>2 DEF Slots, IInv, DrainEntry, Dequeue, QueuedRows, SlotRows, HeldRows, Results, NothingRuns
      <3> QED BY <3>1, <3>2
    <2>3. CASE ~KeepsQueued(t)
      <3>1. FinishTurn(t, "stopped") /\ held' = held \ {t} /\ "stopped" \in Closed /\ Open(t)
        BY <1>5, <2>1, <2>3 DEF DrainEntry, MarkQueuedStopped, Closed, Open
      <3>2. Rows' /\ status' = [status EXCEPT ![t] = "stopped"]
        BY <3>1, FinishOpen DEF Rows
      <3>3. Slots'
        BY <1>5, <2>1, <3>1, <3>2 DEF Slots, IInv, TypeOK, DrainEntry, Dequeue, QueuedRows, SlotRows, HeldRows, Results, NothingRuns
      <3> QED BY <3>2, <3>3
    <2> QED BY <2>2, <2>3
  <1> QED BY <1>1, <1>2, <1>3, <1>4, <1>5 DEF ShutdownStep

\* Recovery and handoff.resume bring the queue back in step with the journal.
LEMMA InvStartup ==
  ASSUME IInv, StartupStep
  PROVE  Rows' /\ Slots'
  <1>1. ASSUME NEW fresh \in BOOLEAN, Boot(fresh) PROVE Rows' /\ Slots'
    <2>1. Rows'
      BY <1>1, SameRows DEF Rows, Boot
    <2>2. Slots'
      BY <1>1 DEF Slots, IInv, Boot, QueuedRows, SlotRows, HeldRows, Results, NothingRuns, Open
    <2> QED BY <2>1, <2>2
  <1>2. ASSUME NEW t \in Turns, RecoverTurn(t) PROVE Rows' /\ Slots'
    <2>1. /\ core = "recovering" /\ core' = core /\ pump = {} /\ todo' = todo \ {t}
          /\ Open(t) /\ t \notin queue
          /\ Home[t] \in Threads /\ UNCHANGED <<running, phase, result>>
          /\ running = [th \in Threads |-> NoTurn]
      BY <1>2, HomeAssumption DEF RecoverTurn, IInv, NothingRuns
    <2>2. CASE UNCHANGED <<status, held, rest, queue, queueHold, pump>>
      <3>1. Rows'
        BY <2>2, SameRows DEF Rows
      <3>2. Slots'
        BY <2>1, <2>2 DEF Slots, IInv, QueuedRows, SlotRows, HeldRows, Results, NothingRuns, Open
      <3> QED BY <3>1, <3>2
    <2>3. CASE Holds(t) /\ held' = held \union {t} /\ rest' = [rest EXCEPT ![Home[t]] = "queued"]
               /\ Enqueue(t, TRUE) /\ UNCHANGED status
      <3>1. rest[Home[t]] = "queued"
        BY <2>1, <2>3 DEF Holds, IInv, StatusFollowsTurns, TurnsOf
      <3>2. Rows'
        BY <2>3, <3>1, SameRows DEF Rows, IInv, TypeOK
      <3>3. QueuedRows' /\ NothingRuns'
        BY <2>1, <2>3, TurnsAssumption DEF IInv, TypeOK, Holds, Enqueue, Pump, Stopping, QueuedRows, NothingRuns, Open
      <3>4. SlotRows' /\ HeldRows' /\ Results'
        BY <2>1, <2>3 DEF IInv, TypeOK, Holds, SlotRows, HeldRows, Results
      <3> QED BY <3>2, <3>3, <3>4 DEF Slots
    <2>4. ASSUME NEW s \in Closed, FinishTurn(t, s), UNCHANGED <<held, queue, queueHold, pump>>
          PROVE  Rows' /\ Slots'
      <3>1. Rows' /\ status' = [status EXCEPT ![t] = s]
        BY <2>1, <2>4, FinishOpen DEF Rows
      <3>2. QueuedRows' /\ NothingRuns'
        BY <2>1, <2>4, <3>1 DEF IInv, TypeOK, QueuedRows, NothingRuns, Open
      <3>3. SlotRows' /\ HeldRows' /\ Results'
        BY <2>1, <2>4, <3>1 DEF IInv, TypeOK, SlotRows, HeldRows, Results, Closed
      <3> QED BY <3>1, <3>2, <3>3 DEF Slots
    <2>5. "stopped" \in Closed /\ "error" \in Closed
      BY DEF Closed
    <2> QED BY <1>2, <2>2, <2>3, <2>4, <2>5 DEF RecoverTurn
  <1>3. CASE Recovered
    <2>1. SettledRest = rest
      BY DEF IInv, TypeOK, SettledRest, StatusFollowsTurns, Active, Open
    <2>2. Rows'
      BY <1>3, <2>1, SameRows DEF Rows, Recovered
    <2>3. Slots'
      BY <1>3 DEF Slots, IInv, Recovered, QueuedRows, SlotRows, HeldRows, Results, NothingRuns
    <2> QED BY <2>2, <2>3
  <1>4. CASE BeginResume \/ ResumeDone
    <2>1. Rows'
      BY <1>4, SameRows DEF Rows, BeginResume, ResumeDone, LeaveFor
    <2>2. Slots'
      BY <1>4 DEF Slots, IInv, BeginResume, ResumeDone, LeaveFor, QueuedRows, SlotRows, HeldRows, Results, NothingRuns
    <2> QED BY <2>1, <2>2
  <1>5. ASSUME NEW t \in Turns, SkipEntry(t) \/ ConsumeEntry(t) \/ ContinuationRefused(t)
        PROVE  Rows' /\ Slots'
    <2>1. Rows'
      BY <1>5, SameRows DEF Rows, SkipEntry, ConsumeEntry, ContinuationRefused
    <2>2. core = "resuming"
      BY <1>5 DEF SkipEntry, ConsumeEntry, ContinuationRefused, Visit
    <2>3. Slots'
      BY <1>5, <2>2 DEF Slots, IInv, SkipEntry, ConsumeEntry, ContinuationRefused, QueuedRows, SlotRows, HeldRows, Results, NothingRuns
    <2> QED BY <2>1, <2>3
  <1>6. ASSUME NEW t \in Turns, RequeueEntry(t) PROVE Rows' /\ Slots'
    <2> PICK u \in Turns : status[u] = "queued" /\ u \notin queue \union Occupied /\ Enqueue(u, u \in held)
      BY <1>6 DEF RequeueEntry
    <2>1. Rows'
      BY <1>6, SameRows DEF Rows, RequeueEntry
    <2>2. running[Home[u]] # u /\ core = "resuming" /\ core' = core
      BY <1>6, HomeAssumption, TurnsAssumption DEF Occupied, RequeueEntry, Visit
    <2>3. Slots'
      BY <1>6, <2>2 DEF Slots, IInv, TypeOK, RequeueEntry, Visit, Enqueue, Pump, Stopping, QueuedRows, SlotRows, HeldRows, Results, NothingRuns
    <2> QED BY <2>1, <2>3
  <1>7. ASSUME NEW t \in Turns, ContinueEntry(t) PROVE Rows' /\ Slots'
    <2> PICK c \in Fresh(Home[t]) : AdmitTurn(c, "resume", t) /\ Enqueue(c, FALSE)
      BY <1>7 DEF ContinueEntry
    <2>0. Home[t] \in Threads /\ ~Busy(Home[t]) /\ core = "resuming" /\ pump = {} /\ core' = core
      BY <1>7, HomeAssumption DEF ContinueEntry, Visit
    <2>1. Rows' /\ c \in Turns /\ status[c] = "none"
      BY <2>0, AdmitRows DEF Rows
    <2>2. c \notin held /\ (\A h \in Threads : running[h] # c) /\ Home[c] \in Threads
      BY <2>1, TurnsAssumption, HomeAssumption DEF IInv, HeldRows, SlotRows
    <2>3. QueuedRows'
      BY <1>7, <2>0, <2>1, <2>2 DEF IInv, TypeOK, ContinueEntry, AdmitTurn, Enqueue, Pump, Stopping, QueuedRows
    <2>4. SlotRows' /\ HeldRows' /\ Results' /\ NothingRuns'
      BY <1>7, <2>0, <2>1, <2>2 DEF IInv, TypeOK, ContinueEntry, AdmitTurn, SlotRows, HeldRows, Results, NothingRuns
    <2> QED BY <2>1, <2>3, <2>4 DEF Slots
  <1>8. ASSUME \E fresh \in BOOLEAN : Boot(fresh) PROVE Rows' /\ Slots'
    BY <1>1, <1>8, Zenon
  <1>9. CASE RecoveryLoop \/ BeginResume \/ ResumeLoop
    BY <1>2, <1>3, <1>4, <1>5, <1>6, <1>7, <1>9 DEF RecoveryLoop, ResumeLoop
  <1> QED BY <1>8, <1>9 DEF StartupStep

\* The invariant is inductive.
LEMMA InvStep == IInv /\ [Next]_vars => IInv'
  <1> SUFFICES ASSUME IInv, [Next]_vars PROVE IInv'
    OBVIOUS
  <1>1. TypeOK'
    BY TypeStep DEF IInv
  <1>2. CASE UNCHANGED vars
    <2>1. Rows'
      BY <1>2, SameRows DEF Rows, vars
    <2>2. Slots'
      BY <1>2 DEF vars, Slots, IInv, QueuedRows, SlotRows, HeldRows, Results, NothingRuns, Open
    <2> QED BY <1>1, <2>1, <2>2 DEF IInv, Rows, Slots
  <1>3. CASE Next
    <2>1. Rows' /\ Slots'
      BY <1>3, InvPump, InvRunner, InvUser, InvShutdown, InvStartup DEF Next
    <2> QED BY <1>1, <2>1 DEF IInv, Rows, Slots
  <1> QED BY <1>2, <1>3

\* The invariant holds in every state, whatever was admitted, stopped, handed
\* over or killed before.
THEOREM Inductive == Spec => []IInv
  BY InvInit, InvStep, PTL DEF Spec

\* Two turns of a thread are never open at once, over any number of restarts.
THEOREM NeverTwoTurns == Spec => []OneOpenTurn
  BY Inductive, PTL DEF IInv

\* The stored status of every thread is the one its turns give, in each state a
\* crash can leave behind.
THEOREM StatusCorrect == Spec => []StatusFollowsTurns
  BY Inductive, PTL DEF IInv

-----------------------------------------------------------------------------
(* What one step may do to the rows: nothing, or one of the three steps of *)
(* the ledger.                                                             *)
Accepts(t) ==
  /\ status[t] = "none"
  /\ \A u \in TurnsOf(Home[t]) : ~Open(u)
  /\ status' = [status EXCEPT ![t] = "queued"]

Begins(t) == status[t] = "queued" /\ t \notin held /\ status' = [status EXCEPT ![t] = "running"]

Ends(t) == Open(t) /\ \E s \in Closed : status' = [status EXCEPT ![t] = s]

RowStep == UNCHANGED status \/ \E t \in Turns : Accepts(t) \/ Begins(t) \/ Ends(t)

\* scheduler.stop closes at most one row.
LEMMA StopRowStep ==
  ASSUME IInv, NEW th \in Threads, SchedulerStop(th)
  PROVE  RowStep
  <1>1. ASSUME NEW t \in queue, MarkQueuedStopped(t) PROVE RowStep
    <2>1. t \in Turns /\ Open(t) /\ "stopped" \in Closed
      BY DEF IInv, TypeOK, QueuedRows, Open, Closed
    <2> QED BY <1>1, <2>1 DEF MarkQueuedStopped, FinishTurn, RowStep, Ends
  <1> QED BY <1>1 DEF SchedulerStop, RowStep

\* A step of the core admits one turn, begins one, closes one, or changes no row.
LEMMA RowSteps == IInv /\ [Next]_vars => RowStep
  <1> SUFFICES ASSUME IInv, [Next]_vars PROVE RowStep
    OBVIOUS
  <1>1. CASE UNCHANGED vars
    BY <1>1 DEF vars, RowStep
  <1>2. CASE SchedulerStep
    <2> PICK t \in Turns : PumpSkips(t) \/ StartTurn(t) \/ StartRefused(t) \/ StartFails(t)
      BY <1>2 DEF SchedulerStep
    <2>1. CASE StartTurn(t)
      <3>1. status[t] = "queued" /\ t \notin held
        BY <2>1 DEF StartTurn, TakeSlot, Waits, IInv, QueuedRows
      <3> QED BY <2>1, <3>1 DEF StartTurn, RowStep, Begins
    <2>2. CASE StartRefused(t)
      <3>1. Open(t) /\ "stopped" \in Closed
        BY <2>2 DEF StartRefused, TakeSlot, IInv, QueuedRows, Open, Closed
      <3> QED BY <2>2, <3>1 DEF StartRefused, MarkQueuedStopped, FinishTurn, RowStep, Ends
    <2>3. CASE PumpSkips(t) \/ StartFails(t)
      BY <2>3 DEF PumpSkips, StartFails, RowStep
    <2> QED BY <2>1, <2>2, <2>3
  <1>3. ASSUME NEW th \in Threads, RunnerStep(th) PROVE RowStep
    <2>1. CASE Settle(th) /\ OwnsTurn(th)
      <3>1. running[th] \in Turns /\ Open(running[th]) /\ result[th] \in Closed
        BY <2>1 DEF Settle, IInv, TypeOK, SlotRows, OwnsTurn, Open, Results
      <3> QED BY <2>1, <3>1 DEF Settle, FinishTurn, RowStep, Ends
    <2>2. CASE Settle(th) /\ ~OwnsTurn(th)
      BY <2>2 DEF Settle, RowStep
    <2>3. CASE ~Settle(th)
      BY <1>3, <2>3 DEF RunnerStep, Attach, PreparationEnds, AttemptEnds, CardOpens, CardAnswered, Abandon, Finalize, RowStep
    <2> QED BY <2>1, <2>2, <2>3
  <1>4. CASE UserStep
    <2>1. ASSUME NEW th \in Threads, NEW k \in Kinds, Admit(th, k) PROVE RowStep
      <3> PICK t \in Fresh(th) : AdmitTurn(t, k, NoTurn)
        BY <2>1 DEF Admit
      <3>1. t \in Turns /\ Accepts(t)
        BY <2>1, AdmitRows DEF Admit, AdmitTurn, Accepts
      <3> QED BY <3>1 DEF RowStep
    <2>2. ASSUME NEW th \in Threads, Stop(th) \/ Archive(th) PROVE RowStep
      BY <2>2, StopRowStep DEF Stop, Archive
    <2>3. ASSUME NEW th \in Threads, Unarchive(th) \/ Gate(th) \/ Lift(th) PROVE RowStep
      BY <2>3 DEF Unarchive, Gate, Lift, RowStep
    <2>4. ASSUME NEW t \in Turns, ResumeHeld(t) PROVE RowStep
      BY <2>4 DEF ResumeHeld, RowStep
    <2>5. ASSUME NEW t \in Turns, DiscardHeld(t) PROVE RowStep
      BY <2>5, HomeAssumption, StopRowStep DEF DiscardHeld
    <2> QED BY <1>4, <2>1, <2>2, <2>3, <2>4, <2>5 DEF UserStep
  <1>5. CASE ShutdownStep
    <2>1. ASSUME NEW t \in Turns, DrainEntry(t), ~KeepsQueued(t) PROVE RowStep
      <3>1. Open(t) /\ "stopped" \in Closed
        BY <2>1 DEF DrainEntry, IInv, QueuedRows, Open, Closed
      <3> QED BY <2>1, <3>1 DEF DrainEntry, MarkQueuedStopped, FinishTurn, RowStep, Ends
    <2>2. ASSUME NEW t \in Turns, HandoffStop(t) \/ (DrainEntry(t) /\ KeepsQueued(t)) PROVE RowStep
      BY <2>2 DEF HandoffStop, DrainEntry, RowStep
    <2>3. CASE BeginHandoff \/ HandoffEnds \/ HandoffBackstop \/ Shutdown \/ Drain \/ DrainStop \/ Exit \/ Crash
      BY <2>3 DEF BeginHandoff, HandoffEnds, HandoffBackstop, Shutdown, Drain, LeaveFor, DrainStop, Exit, Crash, Dies, RowStep
    <2> QED BY <1>5, <2>1, <2>2, <2>3 DEF ShutdownStep
  <1>6. CASE StartupStep
    <2>1. ASSUME NEW t \in Turns, RecoverTurn(t) PROVE RowStep
      <3>1. Open(t) /\ "stopped" \in Closed /\ "error" \in Closed
        BY <2>1 DEF RecoverTurn, IInv, NothingRuns, Closed
      <3> QED BY <2>1, <3>1 DEF RecoverTurn, FinishTurn, RowStep, Ends
    <2>2. ASSUME NEW t \in Turns, ContinueEntry(t) PROVE RowStep
      <3> PICK c \in Fresh(Home[t]) : AdmitTurn(c, "resume", t)
        BY <2>2 DEF ContinueEntry
      <3>1. c \in Turns /\ Accepts(c)
        BY <2>2, AdmitRows, HomeAssumption DEF ContinueEntry, AdmitTurn, Accepts
      <3> QED BY <3>1 DEF RowStep
    <2>3. ASSUME NEW t \in Turns, SkipEntry(t) \/ ConsumeEntry(t) \/ RequeueEntry(t) \/ ContinuationRefused(t) PROVE RowStep
      BY <2>3 DEF SkipEntry, ConsumeEntry, RequeueEntry, ContinuationRefused, RowStep
    <2>4. CASE Recovered \/ BeginResume \/ ResumeDone
      BY <2>4 DEF Recovered, BeginResume, ResumeDone, LeaveFor, RowStep
    <2>5. ASSUME NEW fresh \in BOOLEAN, Boot(fresh) PROVE RowStep
      BY <2>5 DEF Boot, RowStep
    <2>6. ASSUME \E fresh \in BOOLEAN : Boot(fresh) PROVE RowStep
      BY <2>5, <2>6, Zenon
    <2> QED BY <1>6, <2>1, <2>2, <2>3, <2>4, <2>6 DEF StartupStep, RecoveryLoop, ResumeLoop
  <1> QED BY <1>1, <1>2, <1>3, <1>4, <1>5, <1>6 DEF Next

\* A prompt a restart held never reaches an agent while it is held.
THEOREM HeldNeverRuns == Spec => HeldWaitsForUser
  <1> DEFINE Waits1 == \A t \in held : status[t] = "queued" => status'[t] # "running"
  <1>1. IInv /\ [Next]_vars => [Waits1]_vars
    <2> SUFFICES ASSUME IInv, RowStep, NEW t \in held, status[t] = "queued"
                 PROVE  status'[t] # "running"
      BY RowSteps
    <2> QED BY DEF RowStep, Accepts, Begins, Ends, Closed, IInv, TypeOK
  <1> QED BY <1>1, Inductive, PTL DEF Spec, HeldWaitsForUser

-----------------------------------------------------------------------------
(* The refinement: over all restarts the rows are TurnLedger's.            *)
Stage == [t \in Turns |-> IF status[t] \in Closed THEN "closed" ELSE status[t]]

\* Every step of the core is a step of the ledger or leaves it unchanged.
THEOREM LedgerRefined == Spec => ImplementsLedger
  <1>1. Init => Ledger!Init
    BY DEF Init, Ledger!Init, Closed
  <1>2. IInv /\ [Next]_vars => [Ledger!Next]_Stage
    <2> SUFFICES ASSUME IInv, RowStep PROVE [Ledger!Next]_Stage
      BY RowSteps
    <2>0. \A t \in Turns : Open(t) <=> Ledger!Open(t)
      BY DEF Open, Ledger!Open, Closed, IInv, TypeOK
    <2>1. CASE UNCHANGED status
      BY <2>1 DEF Stage
    <2>2. ASSUME NEW t \in Turns, Accepts(t) PROVE Ledger!Accept(t)
      BY <2>0, <2>2 DEF Accepts, Ledger!Accept, TurnsOf, Closed, IInv, TypeOK
    <2>3. ASSUME NEW t \in Turns, Begins(t) PROVE Ledger!Begin(t)
      BY <2>3 DEF Begins, Ledger!Begin, Closed, IInv, TypeOK
    <2>4. ASSUME NEW t \in Turns, Ends(t) PROVE Ledger!Close(t)
      BY <2>0, <2>4 DEF Ends, Ledger!Close, Closed, IInv, TypeOK
    <2> QED BY <2>1, <2>2, <2>3, <2>4 DEF RowStep, Ledger!Next
  <1> QED BY <1>1, <1>2, Inductive, PTL DEF Spec, ImplementsLedger, Ledger!Spec, Stage

-----------------------------------------------------------------------------
(* No missed pump: whatever makes an entry of the queue ready, or puts one *)
(* there, has the pump look at it before the event loop goes on.           *)
\* Each step that makes an entry ready, or puts one in the queue, owes a pump.
LEMMA PumpOwedStep == IInv /\ PumpOwed /\ [Next]_vars => PumpOwed'
  <1> SUFFICES ASSUME IInv, PumpOwed, [Next]_vars, ~Stopping', NEW t \in queue', t \notin pump'
               PROVE  Waits(t)'
    BY DEF PumpOwed
  <1> USE DEF Waits, PumpOwed
  <1>1. CASE UNCHANGED vars
    BY <1>1 DEF vars, Stopping
  <1>2. CASE SchedulerStep
    <2> PICK u \in Turns : PumpSkips(u) \/ StartTurn(u) \/ StartRefused(u) \/ StartFails(u)
      BY <1>2 DEF SchedulerStep
    <2>1. CASE PumpSkips(u)
      BY <2>1 DEF PumpSkips, Stopping
    <2>2. CASE StartTurn(u) \/ StartRefused(u) \/ StartFails(u)
      <3>1. TakeSlot(u) /\ UNCHANGED <<core, gated>>
        BY <2>2 DEF StartTurn, StartRefused, StartFails
      <3> QED BY <3>1, HomeAssumption, TurnsAssumption DEF TakeSlot, Dequeue, Stopping, IInv, TypeOK
    <2> QED BY <2>1, <2>2
  <1>3. ASSUME NEW th \in Threads, RunnerStep(th) PROVE Waits(t)'
    <2>1. CASE Finalize(th)
      BY <2>1 DEF Finalize, Pump, Stopping
    <2>2. CASE ~Finalize(th)
      BY <1>3, <2>2 DEF RunnerStep, Attach, PreparationEnds, AttemptEnds, CardOpens, CardAnswered, Settle, Abandon, Stopping
    <2> QED BY <2>1, <2>2
  <1>4. CASE UserStep
    <2>1. ASSUME NEW th \in Threads, NEW k \in Kinds, Admit(th, k) PROVE Waits(t)'
      BY <2>1 DEF Admit, FreeUp, Enqueue, Pump, Stopping
    <2>2. ASSUME NEW th \in Threads, SchedulerStop(th), UNCHANGED <<core, running, gated, pump>> PROVE Waits(t)'
      BY <2>2 DEF SchedulerStop, Dequeue, Stopping
    <2>3. ASSUME NEW th \in Threads, Unarchive(th) \/ Gate(th) \/ Lift(th) PROVE Waits(t)'
      BY <2>3 DEF Unarchive, Gate, Lift, Pump, Stopping
    <2>4. ASSUME NEW u \in Turns, ResumeHeld(u) PROVE Waits(t)'
      BY <2>4 DEF ResumeHeld, FreeUp, Enqueue, Pump, Stopping
    <2>5. ASSUME NEW u \in Turns, DiscardHeld(u) PROVE Waits(t)'
      BY <2>2, <2>5, HomeAssumption DEF DiscardHeld
    <2>6. ASSUME NEW th \in Threads, Stop(th) \/ Archive(th) PROVE Waits(t)'
      BY <2>2, <2>6 DEF Stop, Archive
    <2> QED BY <1>4, <2>1, <2>3, <2>4, <2>5, <2>6 DEF UserStep
  <1>5. CASE ShutdownStep
    BY <1>5 DEF ShutdownStep, BeginHandoff, HandoffEnds, HandoffBackstop, Shutdown, Drain, LeaveFor,
         DrainStop, HandoffStop, DrainEntry, Exit, Crash, Dies, Stopping
  <1>6. CASE StartupStep
    <2>1. ASSUME NEW u \in Turns, RecoverTurn(u) PROVE Waits(t)'
      <3>1. core = "recovering" /\ core' = core /\ UNCHANGED <<gated, running>> /\ pump = {}
        BY <2>1 DEF RecoverTurn
      <3>2. UNCHANGED <<queue, queueHold, pump>> \/ Enqueue(u, TRUE)
        BY <2>1 DEF RecoverTurn
      <3> QED BY <3>1, <3>2 DEF Enqueue, Pump, Stopping
    <2>2. ASSUME NEW u \in Turns, ContinueEntry(u) \/ RequeueEntry(u) PROVE Waits(t)'
      <3>1. core = "resuming" /\ core' = core /\ UNCHANGED <<gated, running>> /\ pump = {}
        BY <2>2 DEF ContinueEntry, RequeueEntry, Visit
      <3>2. PICK c : Enqueue(c, FALSE) \/ Enqueue(c, c \in held)
        BY <2>2 DEF ContinueEntry, RequeueEntry
      <3>3. pump' = {c} /\ queue' = queue \union {c} /\ (t # c /\ t \in queueHold => t \in queueHold')
        BY <3>1, <3>2 DEF Enqueue, Pump, Stopping
      <3> QED BY <3>1, <3>3 DEF Stopping
    <2>3. ASSUME NEW u \in Turns, SkipEntry(u) \/ ConsumeEntry(u) \/ ContinuationRefused(u) PROVE Waits(t)'
      BY <2>3 DEF SkipEntry, ConsumeEntry, ContinuationRefused, Visit, Stopping
    <2>4. CASE Recovered \/ BeginResume \/ ResumeDone
      BY <2>4 DEF Recovered, BeginResume, FreeUp, ResumeDone, LeaveFor, Stopping
    <2>5. ASSUME NEW fresh \in BOOLEAN, Boot(fresh) PROVE Waits(t)'
      BY <2>5 DEF Boot, IInv, NothingRuns
    <2>6. ASSUME \E fresh \in BOOLEAN : Boot(fresh) PROVE Waits(t)'
      BY <2>5, <2>6, Zenon
    <2> QED BY <1>6, <2>1, <2>2, <2>3, <2>4, <2>6 DEF StartupStep, RecoveryLoop, ResumeLoop
  <1> QED BY <1>1, <1>2, <1>3, <1>4, <1>5, <1>6 DEF Next

\* While the event loop of a core that is up is idle, every entry of the queue
\* has a reason to wait: the scheduler never forgets a turn that may start.
THEOREM NoEntryForgotten == Spec => []NoMissedPump
  <1>1. Init => PumpOwed
    BY DEF Init, PumpOwed
  <1>2. PumpOwed => NoMissedPump
    BY DEF PumpOwed, NoMissedPump, FreeUp, Stopping
  <1> QED BY <1>1, <1>2, Inductive, PumpOwedStep, PTL DEF Spec

-----------------------------------------------------------------------------
(* Every row that says `running' has a runner: recovery closes the rows a  *)
(* dead core left, and no runner of a core that is up leaves its own.      *)
\* A row becomes `running' only with its runner, and stays with it until it settles.
LEMMA RunnersKnownStep == IInv /\ RunnersKnown /\ [Next]_vars => RunnersKnown'
  <1> SUFFICES ASSUME IInv, RunnersKnown, [Next]_vars, NEW t \in Turns, status'[t] = "running"
               PROVE  /\ core' \in {"up", "resuming"} =>
                           running'[Home[t]] = t /\ phase'[Home[t]] \in {"preparing", "attempt", "closing"}
                      /\ core' = "recovering" => t \in todo'
    BY DEF RunnersKnown, RunningHasRunner
  <1> DEFINE Served == running'[Home[t]] = t /\ phase'[Home[t]] \in {"preparing", "attempt", "closing"}
             Goal == (core' \in {"up", "resuming"} => Served) /\ (core' = "recovering" => t \in todo')
  <1>0. /\ Home[t] \in Threads
        /\ core \in {"up", "resuming"} /\ status[t] = "running" =>
             running[Home[t]] = t /\ phase[Home[t]] \in {"preparing", "attempt", "closing"}
        /\ core = "recovering" /\ status[t] = "running" => t \in todo
    BY HomeAssumption DEF RunnersKnown, RunningHasRunner
  <1>a. ASSUME core' = core, UNCHANGED <<running, phase, todo>>, status[t] = "running" PROVE Goal
    BY <1>0, <1>a
  <1>1. CASE UNCHANGED vars
    BY <1>1, <1>a DEF vars
  <1>2. CASE SchedulerStep
    <2> PICK u \in Turns : PumpSkips(u) \/ StartTurn(u) \/ StartRefused(u) \/ StartFails(u)
      BY <1>2 DEF SchedulerStep
    <2>1. CASE PumpSkips(u)
      BY <2>1, <1>a DEF PumpSkips
    <2>2. CASE StartTurn(u) \/ StartRefused(u) \/ StartFails(u)
      <3>1. TakeSlot(u) /\ UNCHANGED <<core, todo>> /\ Home[u] \in Threads
        BY <2>2, HomeAssumption DEF StartTurn, StartRefused, StartFails
      <3>2. core \notin {"down", "recovering"} /\ running[Home[u]] = NoTurn
        BY <3>1 DEF TakeSlot, Waits, IInv, QueuedRows, NothingRuns
      <3>3. CASE t = u
        BY <2>2, <3>1, <3>2, <3>3
        DEF StartTurn, StartRefused, StartFails, MarkQueuedStopped, FinishTurn, TakeSlot, IInv, TypeOK, QueuedRows, Closed
      <3>4. CASE t # u
        <4>1. status[t] = "running"
          BY <2>2, <3>4 DEF StartTurn, StartRefused, StartFails, MarkQueuedStopped, FinishTurn, IInv, TypeOK
        <4>2. CASE core \in {"up", "resuming"}
          <5>1. Home[t] # Home[u]
            BY <1>0, <3>2, <4>1, <4>2, TurnsAssumption
          <5> QED BY <1>0, <2>2, <3>1, <3>2, <4>1, <4>2, <5>1 DEF StartTurn, StartRefused, StartFails, TakeSlot, IInv, TypeOK
        <4> QED BY <3>1, <3>2, <4>2
      <3> QED BY <3>3, <3>4
    <2> QED BY <2>1, <2>2
  <1>3. ASSUME NEW th \in Threads, RunnerStep(th) PROVE Goal
    <2>0. core' = core /\ core \notin {"down", "recovering"}
      BY <1>3 DEF RunnerStep, Attach, PreparationEnds, AttemptEnds, CardOpens, CardAnswered, Settle, Abandon, Finalize, Free
    <2>1. status[t] = "running"
      BY <1>3 DEF RunnerStep, Attach, PreparationEnds, AttemptEnds, CardOpens, CardAnswered, Settle, Abandon, Finalize,
           FinishTurn, IInv, TypeOK, Results, Closed
    <2>2. CASE core \in {"up", "resuming"}
      <3>1. CASE Attach(th) \/ PreparationEnds(th) \/ AttemptEnds(th) \/ CardOpens(th) \/ CardAnswered(th)
        BY <1>0, <2>0, <2>1, <2>2, <3>1 DEF Attach, PreparationEnds, AttemptEnds, Closes, CardOpens, CardAnswered, IInv, TypeOK
      <3>2. CASE Settle(th)
        <4>1. Home[t] # th
          BY <1>0, <2>1, <2>2, <3>2 DEF Settle, OwnsTurn, FinishTurn, IInv, TypeOK, Results, Closed
        <4> QED BY <1>0, <2>0, <2>1, <2>2, <3>2, <4>1 DEF Settle, SettlementOver, IInv, TypeOK
      <3>3. CASE Abandon(th)
        BY <2>2, <3>3 DEF Abandon, Stopping
      <3>4. CASE Finalize(th)
        <4>1. Home[t] # th
          BY <1>0, <2>1, <2>2, <3>4 DEF Finalize
        <4> QED BY <1>0, <2>0, <2>1, <2>2, <3>4, <4>1 DEF Finalize, IInv, TypeOK
      <3> QED BY <1>3, <3>1, <3>2, <3>3, <3>4 DEF RunnerStep
    <2> QED BY <2>0, <2>2
  <1>4. CASE UserStep
    <2>1. ASSUME NEW th \in Threads, SchedulerStop(th) PROVE status[t] = "running"
      BY <2>1 DEF SchedulerStop, MarkQueuedStopped, FinishTurn, IInv, TypeOK
    <2>2. ASSUME NEW th \in Threads, NEW k \in Kinds, Admit(th, k) PROVE Goal
      <3>1. status[t] = "running"
        BY <2>2 DEF Admit, AdmitTurn, IInv, TypeOK
      <3> QED BY <1>a, <2>2, <3>1 DEF Admit
    <2>3. ASSUME NEW th \in Threads, Stop(th) \/ Archive(th) PROVE Goal
      BY <1>a, <2>1, <2>3 DEF Stop, Archive
    <2>4. ASSUME NEW th \in Threads, Unarchive(th) \/ Gate(th) \/ Lift(th) PROVE Goal
      BY <1>a, <2>4 DEF Unarchive, Gate, Lift
    <2>5. ASSUME NEW u \in Turns, ResumeHeld(u) \/ DiscardHeld(u) PROVE Goal
      BY <1>a, <2>1, <2>5, HomeAssumption DEF ResumeHeld, DiscardHeld
    <2> QED BY <1>4, <2>2, <2>3, <2>4, <2>5 DEF UserStep
  <1>5. CASE ShutdownStep
    <2>1. core' \notin {"up", "resuming", "recovering"}
      BY <1>5 DEF ShutdownStep, BeginHandoff, HandoffEnds, HandoffBackstop, Shutdown, Drain, LeaveFor,
           DrainStop, HandoffStop, DrainEntry, Exit, Crash, Dies
    <2> QED BY <2>1
  <1>6. CASE StartupStep
    <2>1. ASSUME NEW u \in Turns, RecoverTurn(u) PROVE Goal
      <3>1. core = "recovering" /\ core' = core /\ todo' = todo \ {u}
        BY <2>1 DEF RecoverTurn
      <3>2. t # u
        BY <2>1 DEF RecoverTurn, Requeues, Holds, FinishTurn, IInv, TypeOK
      <3>3. status[t] = "running"
        BY <2>1, <3>2 DEF RecoverTurn, FinishTurn, IInv, TypeOK
      <3> QED BY <1>0, <3>1, <3>2, <3>3
    <2>2. ASSUME NEW u \in Turns, ContinueEntry(u) PROVE Goal
      <3>1. status[t] = "running" /\ core = "resuming" /\ core' = core /\ UNCHANGED <<running, phase>>
        BY <2>2 DEF ContinueEntry, Visit, AdmitTurn, IInv, TypeOK
      <3> QED BY <1>0, <3>1
    <2>3. ASSUME NEW u \in Turns, SkipEntry(u) \/ ConsumeEntry(u) \/ RequeueEntry(u) \/ ContinuationRefused(u) PROVE Goal
      <3>1. core = "resuming" /\ core' = core /\ UNCHANGED <<status, running, phase>>
        BY <2>3 DEF SkipEntry, ConsumeEntry, RequeueEntry, ContinuationRefused, Visit
      <3> QED BY <1>0, <3>1
    <2>4. CASE Recovered
      BY <1>0, <2>4 DEF Recovered
    <2>5. CASE BeginResume \/ ResumeDone
      BY <1>0, <2>5 DEF BeginResume, FreeUp, ResumeDone, LeaveFor
    <2>6. ASSUME NEW fresh \in BOOLEAN, Boot(fresh) PROVE Goal
      BY <2>6 DEF Boot, Open
    <2>7. ASSUME \E fresh \in BOOLEAN : Boot(fresh) PROVE Goal
      BY <2>6, <2>7, Zenon
    <2> QED BY <1>6, <2>1, <2>2, <2>3, <2>4, <2>5, <2>7 DEF StartupStep, RecoveryLoop, ResumeLoop
  <1> QED BY <1>1, <1>2, <1>3, <1>4, <1>5, <1>6 DEF Next

\* Once a core is up, each row that says `running' has a runner that has yet to
\* settle it: neither a crash nor a failed settlement leaves one behind.
THEOREM EveryRunServed == Spec => []RunningHasRunner
  <1>1. Init => RunnersKnown
    BY DEF Init, RunnersKnown, RunningHasRunner
  <1>2. RunnersKnown => RunningHasRunner
    BY DEF RunnersKnown
  <1> QED BY <1>1, <1>2, Inductive, RunnersKnownStep, PTL DEF Spec

-----------------------------------------------------------------------------
(* One continuation: a cut turn is continued only while no turn answers    *)
(* for it, and the admission of its continuation says that one does.       *)
\* Only handoff.resume names a cut turn, and only while none of its turns does.
LEMMA ContinuationsStep == TypeOK /\ Continuations /\ [Next]_vars => Continuations'
  <1> SUFFICES ASSUME TypeOK, Continuations, [Next]_vars PROVE Continuations'
    OBVIOUS
  <1>1. ASSUME UNCHANGED origin PROVE Continuations'
    BY <1>1 DEF Continuations, OneContinuation
  <1>2. ASSUME NEW th \in Threads, NEW k \in Kinds, Admit(th, k) PROVE Continuations'
    <2> PICK c \in Turns : origin' = [origin EXCEPT ![c] = NoTurn]
      BY <1>2 DEF Admit, AdmitTurn, Fresh, TurnsOf
    <2> QED BY TurnsAssumption DEF TypeOK, Continuations, OneContinuation
  <1>3. ASSUME NEW t \in Turns, ContinueEntry(t) PROVE Continuations'
    <2> PICK c \in Fresh(Home[t]) : AdmitTurn(c, "resume", t)
      BY <1>3 DEF ContinueEntry
    <2>1. c \in Turns /\ c # t /\ origin' = [origin EXCEPT ![c] = t]
      BY <1>3 DEF ContinueEntry, CutRunning, AdmitTurn, Fresh, TurnsOf
    <2>2. \A u \in Turns : origin[u] # t
      BY <1>3 DEF ContinueEntry, StandsFor, CutRunning, Continued, Continuations
    <2> QED BY <2>1, <2>2 DEF TypeOK, Continuations, OneContinuation
  <1>4. CASE UserStep
    BY <1>1, <1>2, <1>4 DEF UserStep, Stop, Archive, Unarchive, Gate, Lift, ResumeHeld, DiscardHeld
  <1>5. CASE StartupStep
    <2>1. (\E fresh \in BOOLEAN : Boot(fresh)) => UNCHANGED origin
      BY Zenon DEF Boot
    <2> QED BY <1>1, <1>3, <1>5, <2>1 DEF StartupStep, RecoveryLoop, ResumeLoop, RecoverTurn, Recovered, BeginResume,
              ResumeDone, LeaveFor, SkipEntry, ConsumeEntry, RequeueEntry, ContinuationRefused
  <1>6. CASE SchedulerStep \/ ShutdownStep \/ \E th \in Threads : RunnerStep(th)
    BY <1>1, <1>6 DEF SchedulerStep, PumpSkips, StartTurn, StartRefused, StartFails,
         RunnerStep, Attach, PreparationEnds, AttemptEnds, CardOpens, CardAnswered, Settle, Abandon, Finalize,
         ShutdownStep, BeginHandoff, HandoffEnds, HandoffBackstop, Shutdown, Drain, LeaveFor,
         DrainStop, HandoffStop, DrainEntry, Exit, Crash, Dies
  <1>7. CASE UNCHANGED vars
    BY <1>1, <1>7 DEF vars
  <1> QED BY <1>4, <1>5, <1>6, <1>7 DEF Next

\* A turn a restart cut gets one continuation, however many cores die while
\* they admit it.
THEOREM ContinuedOnce == Spec => []OneContinuation
  <1>1. Init => Continuations
    BY TurnsAssumption DEF Init, Continuations, OneContinuation
  <1>2. Continuations => OneContinuation
    BY DEF Continuations
  <1> QED BY <1>1, <1>2, TypeCorrect, ContinuationsStep, PTL DEF Spec

-----------------------------------------------------------------------------
(* The record of the handoff: what it names was admitted, and what it      *)
(* carries is neither lost nor taken from the user.                        *)
\* A core that hands over takes no turn any more.
LEMMA LoopRowsStep == IInv /\ LoopRows /\ [Next]_vars => LoopRows'
  <1> SUFFICES ASSUME IInv, LoopRows, [Next]_vars PROVE LoopRows'
    OBVIOUS
  <1> USE DEF LoopRows
  <1>1. CASE UNCHANGED vars
    BY <1>1 DEF vars
  <1>2. CASE SchedulerStep
    BY <1>2 DEF SchedulerStep, PumpSkips, StartTurn, StartRefused, StartFails, TakeSlot
  <1>3. ASSUME NEW th \in Threads, RunnerStep(th) PROVE LoopRows'
    BY <1>3 DEF RunnerStep, Attach, PreparationEnds, AttemptEnds, CardOpens, CardAnswered, Settle, Abandon, Finalize,
         Pump, Stopping, Free
  <1>4. CASE UserStep
    BY <1>4 DEF UserStep, Admit, Enqueue, Pump, Stopping, Stop, Archive, Unarchive, Gate, Lift, ResumeHeld, DiscardHeld,
         Free, FreeUp
  <1>5. CASE ShutdownStep
    <2>1. Dies => ~handing' /\ ~resumed'
      BY Zenon DEF Dies
    <2>2. (Exit \/ Crash) => LoopRows'
      BY <2>1 DEF Exit, Crash
    <2>3. BeginHandoff => LoopRows'
      BY DEF BeginHandoff, FreeUp
    <2>4. ASSUME HandoffEnds \/ HandoffBackstop \/ Shutdown \/ Drain PROVE LoopRows'
      BY <2>4 DEF HandoffEnds, HandoffBackstop, Shutdown, Drain, LeaveFor, FreeUp
    <2>5. ASSUME DrainStop \/ \E t \in Turns : HandoffStop(t) \/ DrainEntry(t) PROVE LoopRows'
      <3>1. /\ core \in {"draining", "handoff"} /\ core' \in {"draining", "drained", "handoff"}
            /\ UNCHANGED <<handing, pump>>
        BY <2>5 DEF DrainStop, HandoffStop, DrainEntry
      <3> QED BY <3>1
    <2> QED BY <1>5, <2>2, <2>3, <2>4, <2>5 DEF ShutdownStep
  <1>6. CASE StartupStep
    <2>1. ASSUME NEW fresh \in BOOLEAN, Boot(fresh) PROVE LoopRows'
      BY <2>1 DEF Boot
    <2>2. (\E fresh \in BOOLEAN : Boot(fresh)) => LoopRows'
      BY <2>1, Zenon
    <2>3. CASE RecoveryLoop
      <3>1. core = "recovering" /\ UNCHANGED <<handing, resumed>> /\ core' \in {"recovering", "up"}
        BY <2>3 DEF RecoveryLoop, RecoverTurn, Recovered
      <3> QED BY <3>1
    <2>4. CASE BeginResume \/ ResumeLoop
      <3>1. core \in {"up", "resuming"} /\ core' \in {"up", "resuming"} /\ handing' = handing
        BY <2>4 DEF BeginResume, ResumeLoop, ResumeDone, LeaveFor, SkipEntry, ConsumeEntry, RequeueEntry, ContinueEntry,
             ContinuationRefused, Visit, FreeUp
      <3> QED BY <3>1
    <2> QED BY <1>6, <2>2, <2>3, <2>4 DEF StartupStep
  <1> QED BY <1>1, <1>2, <1>3, <1>4, <1>5, <1>6 DEF Next


\* A step writes the record's entries of admitted turns only, and a continuation
\* of the cut turn's own thread.
LEMMA RecordRowsStep == IInv /\ LoopRows /\ RecordRows /\ [Next]_vars => RecordRows'
  <1> SUFFICES ASSUME IInv, LoopRows, RecordRows, [Next]_vars, NEW t \in Turns
               PROVE  /\ rec'[t] # "no" \/ origin'[t] # NoTurn => status'[t] # "none"
                      /\ rec'[t] = "queued" => kind'[t] \in {"prompt", "outbox", "resume"}
                      /\ origin'[t] # NoTurn => kind'[t] = "resume" /\ Home[origin'[t]] = Home[t]
    BY DEF RecordRows
  <1> DEFINE Goal == /\ rec'[t] # "no" \/ origin'[t] # NoTurn => status'[t] # "none"
                     /\ rec'[t] = "queued" => kind'[t] \in {"prompt", "outbox", "resume"}
                     /\ origin'[t] # NoTurn => kind'[t] = "resume" /\ Home[origin'[t]] = Home[t]
  <1>0. /\ rec[t] # "no" \/ origin[t] # NoTurn => status[t] # "none"
        /\ rec[t] = "queued" => kind[t] \in {"prompt", "outbox", "resume"}
        /\ origin[t] # NoTurn => kind[t] = "resume" /\ Home[origin[t]] = Home[t]
    BY DEF RecordRows
  <1>1. status[t] # "none" => status'[t] # "none"
    BY RowSteps DEF RowStep, Accepts, Begins, Ends, Closed, IInv, TypeOK
  \* A step that only takes entries out of the record.
  <1>a. ASSUME UNCHANGED <<kind, origin>>, rec'[t] \in {rec[t], "no"} PROVE Goal
    BY <1>0, <1>1, <1>a
  <1>2. ASSUME NEW c \in Turns, status[c] = "none", NEW k, NEW cut, AdmitTurn(c, k, cut), rec' = rec,
               cut # NoTurn => k = "resume" /\ Home[cut] = Home[c]
        PROVE  Goal
    <2>1. CASE t = c
      BY <1>0, <1>2, <2>1 DEF AdmitTurn, IInv, TypeOK
    <2>2. CASE t # c
      BY <1>0, <1>2, <2>2 DEF AdmitTurn, IInv, TypeOK
    <2> QED BY <2>1, <2>2
  <1>3. CASE UNCHANGED vars
    BY <1>a, <1>3 DEF vars
  <1>4. CASE SchedulerStep
    BY <1>a, <1>4 DEF SchedulerStep, PumpSkips, StartTurn, StartRefused, StartFails, WithoutStarted
  <1>5. ASSUME NEW th \in Threads, RunnerStep(th) PROVE Goal
    BY <1>a, <1>5 DEF RunnerStep, Attach, PreparationEnds, AttemptEnds, CardOpens, CardAnswered, Settle, HandoffHears,
         Abandon, Finalize, IInv, TypeOK
  <1>6. CASE UserStep
    <2>1. ASSUME NEW th \in Threads, NEW k \in Kinds, Admit(th, k) PROVE Goal
      BY <1>2, <2>1 DEF Admit, Fresh, TurnsOf
    <2>2. ASSUME NEW th \in Threads, Stop(th) PROVE Goal
      BY <1>a, <2>2 DEF Stop, Forget
    <2>3. ASSUME NEW th \in Threads, Archive(th) \/ Unarchive(th) \/ Gate(th) \/ Lift(th) PROVE Goal
      BY <1>a, <2>3 DEF Archive, Unarchive, Gate, Lift
    <2>4. ASSUME NEW u \in Turns, ResumeHeld(u) \/ DiscardHeld(u) PROVE Goal
      BY <1>a, <2>4 DEF ResumeHeld, DiscardHeld
    <2> QED BY <1>6, <2>1, <2>2, <2>3, <2>4 DEF UserStep
  <1>7. CASE ShutdownStep
    <2>1. CASE BeginHandoff
      <3>1. Recorded(t) # "no" => status[t] # "none"
        BY DEF Recorded, Occupied, IInv, SlotRows, QueuedRows
      <3>2. Recorded(t) = "queued" => kind[t] \in {"prompt", "outbox", "resume"}
        BY DEF Recorded, Resumable
      <3>3. rec'[t] \in {Recorded(t), rec[t], "no"} /\ UNCHANGED <<status, kind, origin>>
        BY <2>1 DEF BeginHandoff
      <3> QED BY <1>0, <3>1, <3>2, <3>3
    <2>2. CASE ~BeginHandoff
      BY <1>a, <1>7, <2>2 DEF ShutdownStep, HandoffEnds, HandoffBackstop, Shutdown, Drain, LeaveFor,
           DrainStop, HandoffStop, DrainEntry, Exit, Crash, Dies
    <2> QED BY <2>1, <2>2
  <1>8. CASE StartupStep
    <2>1. ASSUME NEW fresh \in BOOLEAN, Boot(fresh) PROVE Goal
      BY <1>a, <2>1 DEF Boot
    <2>2. (\E fresh \in BOOLEAN : Boot(fresh)) => Goal
      BY <2>1, Zenon
    <2>3. CASE RecoveryLoop
      BY <1>a, <2>3 DEF RecoveryLoop, RecoverTurn, Recovered
    <2>4. CASE BeginResume \/ ResumeDone
      BY <1>a, <2>4 DEF BeginResume, ResumeDone, LeaveFor
    <2>5. ASSUME NEW e \in Turns, SkipEntry(e) \/ ConsumeEntry(e) \/ RequeueEntry(e) \/ ContinuationRefused(e) PROVE Goal
      BY <1>a, <2>5 DEF SkipEntry, ConsumeEntry, Consume, RequeueEntry, ContinuationRefused, IInv, TypeOK
    <2>6. ASSUME NEW e \in Turns, ContinueEntry(e) PROVE Goal
      BY <1>2, <2>6 DEF ContinueEntry, Fresh, TurnsOf
    <2> QED BY <1>8, <2>2, <2>3, <2>4, <2>5, <2>6 DEF StartupStep, ResumeLoop
  <1> QED BY <1>3, <1>4, <1>5, <1>6, <1>7, <1>8 DEF Next

\* Only turns.recover, which an archived thread refuses, takes a Stop's mark off a turn.
LEMMA MarksKept ==
  ASSUME TypeOK, [Next]_vars, NEW t \in Turns, userStop[t] # "no"
  PROVE  userStop'[t] # "no" \/ ResumeHeld(t)
  <1>1. CASE UserStep
    <2>1. ASSUME NEW th \in Threads, Stop(th) PROVE userStop'[t] # "no"
      BY <2>1 DEF Stop, StopMarks
    <2>2. ASSUME NEW th \in Threads, Archive(th) PROVE userStop'[t] # "no"
      BY <2>2 DEF Archive
    <2>3. ASSUME NEW u \in Turns, ResumeHeld(u) PROVE userStop'[t] # "no" \/ ResumeHeld(t)
      BY <2>3 DEF ResumeHeld, TypeOK
    <2>4. ASSUME \/ \E th \in Threads : \/ Unarchive(th) \/ Gate(th) \/ Lift(th)
                                        \/ \E k \in Kinds : Admit(th, k)
                 \/ \E u \in Turns : DiscardHeld(u)
          PROVE  userStop' = userStop
      BY <2>4 DEF Unarchive, Gate, Lift, Admit, DiscardHeld
    <2> QED BY <1>1, <2>1, <2>2, <2>3, <2>4 DEF UserStep
  <1>2. CASE SchedulerStep \/ ShutdownStep \/ \E th \in Threads : RunnerStep(th)
    BY <1>2 DEF SchedulerStep, PumpSkips, StartTurn, StartRefused, StartFails,
         RunnerStep, Attach, PreparationEnds, AttemptEnds, CardOpens, CardAnswered, Settle, Abandon, Finalize,
         ShutdownStep, BeginHandoff, HandoffEnds, HandoffBackstop, Shutdown, Drain, LeaveFor,
         DrainStop, HandoffStop, DrainEntry, Exit, Crash, Dies
  <1>3. CASE StartupStep
    <2>1. (\E fresh \in BOOLEAN : Boot(fresh)) => userStop' = userStop
      BY Zenon DEF Boot
    <2> QED BY <1>3, <2>1 DEF StartupStep, RecoveryLoop, ResumeLoop, RecoverTurn, Recovered, BeginResume,
              ResumeDone, LeaveFor, SkipEntry, ConsumeEntry, RequeueEntry, ContinueEntry, ContinuationRefused
  <1>4. CASE UNCHANGED vars
    BY <1>4 DEF vars
  <1> QED BY <1>1, <1>2, <1>3, <1>4 DEF Next

\* A row opens by an admission alone, on a thread that is not archived, and the
\* scheduler has it at once.
LEMMA Admissions ==
  ASSUME IInv, [Next]_vars, NEW t \in Turns, ~Open(t), Open(t)'
  PROVE  Home[t] \notin archived /\ UNCHANGED archived /\ t \in queue'
  <1>1. Accepts(t)
    BY RowSteps DEF RowStep, Accepts, Begins, Ends, Open, Closed, IInv, TypeOK
  <1>2. status[t] = "none" /\ status'[t] = "queued"
    BY <1>1 DEF Accepts, IInv, TypeOK
  <1> DEFINE Goal == Home[t] \notin archived /\ UNCHANGED archived /\ t \in queue'
  <1>3. CASE UserStep
    <2>1. ASSUME NEW th \in Threads, NEW k \in Kinds, Admit(th, k) PROVE Goal
      <3> PICK c \in Fresh(th) : AdmitTurn(c, k, NoTurn) /\ Enqueue(c, FALSE)
        BY <2>1 DEF Admit
      <3>1. c = t
        BY <1>2 DEF AdmitTurn, IInv, TypeOK
      <3> QED BY <2>1, <3>1 DEF Admit, Enqueue, Fresh, TurnsOf
    <2>2. ASSUME NEW th \in Threads, SchedulerStop(th) PROVE FALSE
      BY <1>2, <2>2 DEF SchedulerStop, MarkQueuedStopped, FinishTurn, IInv, TypeOK
    <2>3. ASSUME NEW th \in Threads, Stop(th) \/ Archive(th) \/ Unarchive(th) \/ Gate(th) \/ Lift(th) PROVE FALSE
      BY <1>2, <2>2, <2>3 DEF Stop, Archive, Unarchive, Gate, Lift
    <2>4. ASSUME NEW u \in Turns, ResumeHeld(u) \/ DiscardHeld(u) PROVE FALSE
      BY <1>2, <2>2, <2>4, HomeAssumption DEF ResumeHeld, DiscardHeld
    <2> QED BY <1>3, <2>1, <2>3, <2>4 DEF UserStep
  <1>4. CASE SchedulerStep
    BY <1>2, <1>4 DEF SchedulerStep, PumpSkips, StartTurn, StartRefused, StartFails, MarkQueuedStopped, FinishTurn, IInv, TypeOK
  <1>5. ASSUME NEW th \in Threads, RunnerStep(th) PROVE FALSE
    BY <1>2, <1>5 DEF RunnerStep, Attach, PreparationEnds, AttemptEnds, CardOpens, CardAnswered, Settle, FinishTurn,
         Abandon, Finalize, IInv, TypeOK, Closed
  <1>6. CASE ShutdownStep
    BY <1>2, <1>6 DEF ShutdownStep, BeginHandoff, HandoffEnds, HandoffBackstop, Shutdown, Drain, LeaveFor,
         DrainStop, HandoffStop, DrainEntry, MarkQueuedStopped, FinishTurn, Exit, Crash, Dies, IInv, TypeOK
  <1>7. CASE StartupStep
    <2>1. ASSUME NEW e \in Turns, ContinueEntry(e) PROVE Goal
      <3> PICK c \in Fresh(Home[e]) : AdmitTurn(c, "resume", e) /\ Enqueue(c, FALSE)
        BY <2>1 DEF ContinueEntry
      <3>1. c = t
        BY <1>2 DEF AdmitTurn, IInv, TypeOK
      <3> QED BY <2>1, <3>1 DEF ContinueEntry, EntryResumable, Resumable, Enqueue, Fresh, TurnsOf
    <2>2. (\E fresh \in BOOLEAN : Boot(fresh)) => status' = status
      BY Zenon DEF Boot
    <2>3. ASSUME NEW e \in Turns, SkipEntry(e) \/ ConsumeEntry(e) \/ RequeueEntry(e) \/ ContinuationRefused(e)
          PROVE  status' = status
      BY <2>3 DEF SkipEntry, ConsumeEntry, RequeueEntry, ContinuationRefused
    <2>4. CASE RecoveryLoop \/ BeginResume \/ ResumeDone
      BY <1>2, <2>4 DEF RecoveryLoop, RecoverTurn, FinishTurn, Recovered, BeginResume, ResumeDone, LeaveFor, IInv, TypeOK
    <2> QED BY <1>2, <1>7, <2>1, <2>2, <2>3, <2>4 DEF StartupStep, ResumeLoop
  <1>8. CASE UNCHANGED vars
    BY <1>2, <1>8 DEF vars
  <1> QED BY <1>3, <1>4, <1>5, <1>6, <1>7, <1>8 DEF Next

\* An archive is the user's alone.
LEMMA Archives ==
  ASSUME [Next]_vars, NEW th \in Threads, th \notin archived, th \in archived'
  PROVE  Archive(th)
  <1>1. CASE UserStep
    <2>1. ASSUME NEW h \in Threads, Archive(h) PROVE Archive(th)
      BY <2>1 DEF Archive
    <2> QED BY <1>1, <2>1 DEF UserStep, Admit, Stop, Unarchive, Gate, Lift, ResumeHeld, DiscardHeld
  <1>2. CASE SchedulerStep \/ ShutdownStep \/ \E h \in Threads : RunnerStep(h)
    BY <1>2 DEF SchedulerStep, PumpSkips, StartTurn, StartRefused, StartFails,
         RunnerStep, Attach, PreparationEnds, AttemptEnds, CardOpens, CardAnswered, Settle, Abandon, Finalize,
         ShutdownStep, BeginHandoff, HandoffEnds, HandoffBackstop, Shutdown, Drain, LeaveFor,
         DrainStop, HandoffStop, DrainEntry, Exit, Crash, Dies
  <1>3. CASE StartupStep
    <2>1. (\E fresh \in BOOLEAN : Boot(fresh)) => archived' = archived
      BY Zenon DEF Boot
    <2> QED BY <1>3, <2>1 DEF StartupStep, RecoveryLoop, ResumeLoop, RecoverTurn, Recovered, BeginResume,
              ResumeDone, LeaveFor, SkipEntry, ConsumeEntry, RequeueEntry, ContinueEntry, ContinuationRefused
  <1>4. CASE UNCHANGED vars
    BY <1>4 DEF vars
  <1> QED BY <1>1, <1>2, <1>3, <1>4 DEF Next

\* An archive marks what is open, and nothing is admitted on an archived thread.
LEMMA ArchivedRowsStep == IInv /\ ArchivedRows /\ [Next]_vars => ArchivedRows'
  <1> SUFFICES ASSUME IInv, ArchivedRows, [Next]_vars PROVE ArchivedRows'
    OBVIOUS
  <1>1. archived' \subseteq Archivable
    <2> SUFFICES ASSUME NEW th \in archived', th \notin archived PROVE th \in Archivable
      BY DEF ArchivedRows
    <2>1. th \in Threads
      BY TypeStep DEF IInv, TypeOK
    <2> QED BY <2>1, Archives DEF Archive
  <1>2. ASSUME NEW t \in Turns, Open(t)', Home[t] \in archived' PROVE userStop'[t] # "no"
    <2>0. TypeOK /\ Home[t] \in Threads
      BY HomeAssumption DEF IInv
    <2>1. Open(t)
      BY <1>2, Admissions
    <2>2. CASE Home[t] \in archived
      <3>1. userStop[t] # "no" /\ ~ResumeHeld(t)
        BY <2>1, <2>2 DEF ArchivedRows, ResumeHeld
      <3> QED BY <2>0, <3>1, MarksKept
    <2>3. CASE Home[t] \notin archived
      BY <1>2, <2>0, <2>1, <2>3, Archives DEF Archive, TypeOK
    <2> QED BY <2>2, <2>3
  <1> QED BY <1>1, <1>2 DEF ArchivedRows, Open

\* What a step of a core that hands over may do to a turn: end it, or take it out
\* of the record because its user or its agent ended it.
HandsOver(t) ==
  /\ kind'[t] = kind[t]
  /\ t \in Occupied' => t \in Occupied
  /\ t \in queue' => t \in queue
  /\ t \in queueHold /\ t \in queue' => t \in queueHold'
  /\ rec[t] # "no" => rec'[t] = rec[t] \/ userStop'[t] # "no" \/ status'[t] \in {"done", "error"}

LEMMA HandingStep ==
  ASSUME IInv, LoopRows, [Next]_vars, handing, handing', NEW t \in Turns
  PROVE  HandsOver(t)
  <1>0. core \notin {"up", "resuming", "recovering", "down"} /\ pump = {}
    BY DEF LoopRows
  \* A step that leaves the record and the slots alone.
  <1>a. ASSUME UNCHANGED <<kind, rec, running>>, t \in queue' => t \in queue,
               t \in queueHold /\ t \in queue' => t \in queueHold'
        PROVE  HandsOver(t)
    BY <1>a DEF HandsOver, Occupied
  <1>1. CASE UNCHANGED vars
    BY <1>a, <1>1 DEF vars
  <1>2. CASE SchedulerStep
    BY <1>0, <1>2 DEF SchedulerStep, PumpSkips, StartTurn, StartRefused, StartFails, TakeSlot
  <1>3. ASSUME NEW th \in Threads, RunnerStep(th) PROVE HandsOver(t)
    <2>1. CASE Finalize(th)
      <3>1. t \in Occupied' => t \in Occupied
        BY <2>1, TurnsAssumption DEF Finalize, Occupied, IInv, TypeOK
      <3> QED BY <2>1, <3>1 DEF Finalize, HandsOver
    <2>2. CASE Settle(th)
      <3>1. UNCHANGED <<kind, queue, queueHold, running>>
        BY <2>2 DEF Settle
      <3>2. CASE ~OwnsTurn(th)
        BY <1>a, <2>2, <3>1, <3>2 DEF Settle
      <3>3. CASE OwnsTurn(th) /\ running[th] = t
        <4>1. result[th] \in Closed /\ status' = [status EXCEPT ![t] = result[th]]
          BY <2>2, <3>3 DEF Settle, FinishTurn, IInv, Results
        <4>2. rec'[t] = rec[t] \/ result[th] # "stopped"
          BY <2>2, <3>3 DEF Settle, HandoffHears
        <4>3. status'[t] = result[th]
          BY <4>1 DEF IInv, TypeOK
        <4> QED BY <3>1, <4>1, <4>2, <4>3 DEF HandsOver, Occupied, Closed
      <3>4. CASE OwnsTurn(th) /\ running[th] # t
        <4>1. rec'[t] = rec[t]
          BY <2>2, <3>4 DEF Settle, HandoffHears, IInv, TypeOK
        <4> QED BY <3>1, <4>1 DEF HandsOver, Occupied
      <3> QED BY <3>2, <3>3, <3>4
    <2>3. CASE ~Finalize(th) /\ ~Settle(th)
      BY <1>3, <1>a, <2>3 DEF RunnerStep, Attach, PreparationEnds, AttemptEnds, CardOpens, CardAnswered, Abandon
    <2> QED BY <2>1, <2>2, <2>3
  <1>4. CASE UserStep
    <2>1. ASSUME NEW th \in Threads, SchedulerStop(th)
          PROVE  (t \in queue' => t \in queue) /\ (t \in queueHold /\ t \in queue' => t \in queueHold')
      BY <2>1 DEF SchedulerStop, Dequeue
    <2>2. ASSUME NEW th \in Threads, Stop(th) PROVE HandsOver(t)
      <3>1. rec'[t] = rec[t] \/ userStop'[t] # "no" \/ rec[t] = "no"
        BY <2>2 DEF Stop, Forget, StopMarks
      <3> QED BY <2>1, <2>2, <3>1 DEF Stop, HandsOver, Occupied
    <2>3. ASSUME NEW th \in Threads, Archive(th) \/ Unarchive(th) \/ Gate(th) \/ Lift(th) PROVE HandsOver(t)
      BY <1>a, <2>1, <2>3 DEF Archive, Unarchive, Gate, Lift
    <2>4. ASSUME NEW u \in Turns, ResumeHeld(u) \/ DiscardHeld(u) PROVE FALSE
      BY <1>0, <2>4 DEF ResumeHeld, DiscardHeld, FreeUp
    <2>5. ASSUME NEW th \in Threads, NEW k \in Kinds, Admit(th, k) PROVE FALSE
      BY <1>0, <2>5 DEF Admit, FreeUp
    <2> QED BY <1>4, <2>2, <2>3, <2>4, <2>5 DEF UserStep
  <1>5. CASE ShutdownStep
    <2>1. ~BeginHandoff
      BY <1>0 DEF BeginHandoff, FreeUp
    <2>2. Dies => ~handing'
      BY Zenon DEF Dies
    <2>3. ~Exit /\ ~Crash
      BY <2>2 DEF Exit, Crash
    <2> QED BY <1>5, <1>a, <2>1, <2>3 DEF ShutdownStep, HandoffEnds, HandoffBackstop, Shutdown, Drain, LeaveFor,
              DrainStop, HandoffStop, DrainEntry, Dequeue
  <1>6. CASE StartupStep
    <2>1. (\E fresh \in BOOLEAN : Boot(fresh)) => core = "down"
      BY Zenon DEF Boot
    <2> QED BY <1>0, <1>6, <2>1 DEF StartupStep, RecoveryLoop, RecoverTurn, Recovered, BeginResume, FreeUp,
              ResumeLoop, ResumeDone, SkipEntry, ConsumeEntry, RequeueEntry, ContinueEntry, ContinuationRefused, Visit
  <1> QED BY <1>1, <1>2, <1>3, <1>4, <1>5, <1>6 DEF Next

\* Only the request for a restart begins a handoff, and its first save names each
\* turn that runs and each prompt that waits.
LEMMA HandoffBegins ==
  ASSUME IInv, LoopRows, [Next]_vars, ~handing, handing'
  PROVE  HandoffRows'
  <1>1. BeginHandoff
    <2>1. CASE ShutdownStep
      <3>1. Dies => ~handing'
        BY Zenon DEF Dies
      <3> QED BY <2>1, <3>1 DEF ShutdownStep, HandoffEnds, HandoffBackstop, Shutdown, Drain, LeaveFor,
                DrainStop, HandoffStop, DrainEntry, Exit, Crash
    <2>2. CASE StartupStep
      <3>1. (\E fresh \in BOOLEAN : Boot(fresh)) => handing' = handing
        BY Zenon DEF Boot
      <3> QED BY <2>2, <3>1 DEF StartupStep, RecoveryLoop, RecoverTurn, Recovered, BeginResume,
                ResumeLoop, ResumeDone, LeaveFor, SkipEntry, ConsumeEntry, RequeueEntry, ContinueEntry, ContinuationRefused
    <2>3. CASE UserStep
      BY <2>3 DEF UserStep, Admit, Stop, Archive, Unarchive, Gate, Lift, ResumeHeld, DiscardHeld
    <2>4. CASE SchedulerStep \/ \E th \in Threads : RunnerStep(th)
      BY <2>4 DEF SchedulerStep, PumpSkips, StartTurn, StartRefused, StartFails,
           RunnerStep, Attach, PreparationEnds, AttemptEnds, CardOpens, CardAnswered, Settle, Abandon, Finalize
    <2>5. CASE UNCHANGED vars
      BY <2>5 DEF vars
    <2> QED BY <2>1, <2>2, <2>3, <2>4, <2>5 DEF Next
  <1>2. UNCHANGED <<status, kind, archived, queue, queueHold, running, userStop>>
    BY <1>1 DEF BeginHandoff
  <1>3. ASSUME NEW t \in Occupied, Resumable(t, "running") PROVE rec'[t] = "running"
    <2>1. t \in Turns
      BY <1>3 DEF Occupied, IInv, TypeOK
    <2> QED BY <1>1, <1>3, <2>1 DEF BeginHandoff, Recorded
  <1>4. ASSUME NEW t \in queue \ queueHold, kind[t] \in {"prompt", "outbox"}, Home[t] \notin archived
        PROVE  rec'[t] = "queued"
    <2>1. t \in Turns /\ t \notin Occupied
      BY DEF Occupied, IInv, TypeOK, QueuedRows, SlotRows
    <2> QED BY <1>1, <1>4, <2>1 DEF BeginHandoff, Recorded, Resumable
  <1> QED BY <1>2, <1>3, <1>4 DEF HandoffRows, Occupied, Resumable, Open

\* While it lasts, what it carries leaves the record with its user or its agent only.
LEMMA HandoffRowsStep == IInv /\ LoopRows /\ ArchivedRows /\ HandoffRows /\ [Next]_vars => HandoffRows'
  <1> SUFFICES ASSUME IInv, LoopRows, ArchivedRows, HandoffRows, [Next]_vars, handing, handing' PROVE HandoffRows'
    BY HandoffBegins DEF HandoffRows
  <1>0. TypeOK /\ Occupied' \subseteq Turns
    BY TypeStep DEF IInv, TypeOK, Occupied
  <1>1. ASSUME NEW t \in Turns, userStop'[t] = "no" PROVE userStop[t] = "no"
    <2>1. ~ResumeHeld(t)
      BY DEF ResumeHeld, FreeUp, LoopRows
    <2> QED BY <1>0, <1>1, <2>1, MarksKept
  <1>2. ASSUME NEW t \in Turns, Open(t)' PROVE Open(t)
    BY <1>2, Admissions, HandingStep DEF HandsOver, IInv, QueuedRows, Open
  <1>3. ASSUME NEW t \in Turns, status'[t] = "stopped" PROVE Open(t) \/ status[t] = "stopped"
    BY <1>3, RowSteps DEF RowStep, Accepts, Begins, Ends, IInv, TypeOK
  <1>4. ASSUME NEW t \in Occupied', Open(t)' \/ (status'[t] = "stopped" /\ Home[t] \notin Archivable),
               Resumable(t, "running")', userStop'[t] = "no"
        PROVE  rec'[t] = "running"
    <2>0. t \in Turns /\ HandsOver(t)
      BY <1>0, HandingStep
    <2>1. Open(t) \/ (status[t] = "stopped" /\ Home[t] \notin Archivable)
      BY <1>2, <1>3, <1>4, <2>0
    <2>2. Resumable(t, "running") /\ userStop[t] = "no"
      BY <1>1, <1>4, <2>0, <2>1 DEF ArchivedRows, Resumable, HandsOver
    <2>3. rec[t] = "running"
      BY <2>0, <2>1, <2>2 DEF HandoffRows, HandsOver
    <2> QED BY <1>4, <2>0, <2>3 DEF HandsOver, Open
  <1>5. ASSUME NEW t \in queue' \ queueHold', kind'[t] \in {"prompt", "outbox"}, Home[t] \notin archived', userStop'[t] = "no"
        PROVE  rec'[t] = "queued"
    <2>0. t \in Turns /\ HandsOver(t)
      BY TypeStep, HandingStep DEF IInv, TypeOK
    <2>1. t \in queue \ queueHold /\ Open(t) /\ userStop[t] = "no"
      BY <1>1, <1>5, <2>0 DEF HandsOver, IInv, QueuedRows, Open
    <2>2. rec[t] = "queued"
      BY <1>5, <2>0, <2>1 DEF HandoffRows, HandsOver, ArchivedRows
    <2>3. status'[t] = "queued"
      BY InvStep DEF IInv, QueuedRows
    <2> QED BY <1>5, <2>0, <2>2, <2>3 DEF HandsOver
  <1> QED BY <1>4, <1>5 DEF HandoffRows

\* One entry at most brings a row back, and it stands for no other.
LEMMA OneBrings ==
  ASSUME TypeOK, Continuations, NEW e \in Turns, NEW t \in Turns, BringsBack(e, t)
  PROVE  /\ StandsFor(e, t)
         /\ \A u \in Turns : StandsFor(e, u) => u = t
  <1>1. CASE e = t /\ rec[e] = "queued"
    BY <1>1 DEF StandsFor
  <1>2. CASE e # t /\ rec[e] = "running" /\ origin[t] = e
    <2>1. \A u \in Turns : origin[u] = e => u = t
      BY <1>2, TurnsAssumption DEF Continuations, OneContinuation
    <2> QED BY <1>2, <2>1 DEF StandsFor, Continued
  <1> QED BY <1>1, <1>2 DEF BringsBack

LEMMA BringsInherited ==
  ASSUME TypeOK, NEW t \in Turns
  PROVE  InheritedQueued(t) <=> \E e \in Turns : BringsBack(e, t)
  BY DEF InheritedQueued, BringsBack, StandsFor, Continued, TypeOK

\* A step that leaves alone what brings t back.
Spares(t) ==
  /\ UNCHANGED <<core, resumed, todo>>
  /\ t \in queue => t \in queue'
  /\ running'[Home[t]] = running[Home[t]] /\ phase'[Home[t]] = phase[Home[t]]
  /\ origin'[t] = origin[t]
  /\ \A e \in Turns : BringsBack(e, t) => rec'[e] = rec[e]

LEMMA Spared ==
  ASSUME TypeOK, NEW t \in Turns, Brought(t), Spares(t)
  PROVE  Brought(t)'
  <1>1. \A e \in Turns : BringsBack(e, t) => BringsBack(e, t)'
    BY DEF Spares, BringsBack
  <1>2. todo \subseteq Turns
    BY DEF TypeOK
  <1> QED BY <1>1, <1>2 DEF Spares, Brought

\* A queued row whose turn nobody stopped keeps what brings it back.
LEMMA CarrierRowsStep ==
  IInv /\ Continuations /\ LoopRows /\ RecordRows /\ ArchivedRows /\ CarrierRows /\ [Next]_vars => CarrierRows'
  <1> SUFFICES ASSUME IInv, Continuations, LoopRows, RecordRows, ArchivedRows, CarrierRows, [Next]_vars,
                      core' \in {"recovering", "up", "resuming"},
                      NEW t \in Turns, status'[t] = "queued", userStop'[t] = "no"
               PROVE  Brought(t)'
    BY DEF CarrierRows
  <1>0. TypeOK /\ Home[t] \in Threads /\ t # NoTurn
    BY HomeAssumption, TurnsAssumption DEF IInv
  <1>1. ASSUME status[t] # "queued" PROVE Brought(t)'
    <2>1. ~Open(t) /\ Open(t)'
      BY <1>1, RowSteps DEF RowStep, Accepts, Begins, Ends, Open, Closed, IInv, TypeOK
    <2> QED BY <2>1, Admissions DEF Brought
  <1>2. ASSUME userStop[t] # "no" PROVE Brought(t)'
    <2>1. ResumeHeld(t)
      BY <1>0, <1>2, MarksKept
    <2> QED BY <2>1 DEF ResumeHeld, Enqueue, Brought
  <1>3. ASSUME core \notin {"recovering", "up", "resuming"} PROVE Brought(t)'
    <2>1. \E fresh \in BOOLEAN : Boot(fresh)
      <3>1. CASE ShutdownStep
        BY <1>3, <3>1 DEF ShutdownStep, BeginHandoff, HandoffEnds, HandoffBackstop, Shutdown, Drain, LeaveFor,
             DrainStop, HandoffStop, DrainEntry, Exit, Crash, Dies
      <3>2. CASE SchedulerStep \/ \E th \in Threads : RunnerStep(th)
        BY <1>3, <3>2 DEF SchedulerStep, PumpSkips, StartTurn, StartRefused, StartFails,
             RunnerStep, Attach, PreparationEnds, AttemptEnds, CardOpens, CardAnswered, Settle, Abandon, Finalize
      <3>3. CASE UserStep
        BY <1>3, <3>3 DEF UserStep, Admit, Stop, Archive, Unarchive, Gate, Lift, ResumeHeld, DiscardHeld
      <3>4. CASE RecoveryLoop \/ BeginResume \/ ResumeLoop
        BY <1>3, <3>4 DEF RecoveryLoop, RecoverTurn, Recovered, BeginResume, FreeUp,
             ResumeLoop, ResumeDone, SkipEntry, ConsumeEntry, RequeueEntry, ContinueEntry, ContinuationRefused, Visit
      <3> QED BY <1>3, <3>1, <3>2, <3>3, <3>4 DEF Next, StartupStep, vars
    <2>2. ASSUME NEW fresh \in BOOLEAN, Boot(fresh) PROVE Brought(t)'
      BY <2>2 DEF Boot, Open, Brought
    <2> QED BY <2>1, <2>2, Zenon
  <1> SUFFICES ASSUME status[t] = "queued", userStop[t] = "no", core \in {"recovering", "up", "resuming"}
               PROVE  Brought(t)'
    BY <1>1, <1>2, <1>3
  <1>4. Brought(t) /\ ~handing /\ Open(t)
    BY DEF CarrierRows, LoopRows, Open
  <1>5. \A u \in queue : Home[u] = Home[t] => u = t
    BY <1>4 DEF IInv, TypeOK, QueuedRows, OneOpenTurn, Open
  <1>6. CASE UNCHANGED vars
    BY <1>0, <1>4, <1>6, Spared DEF vars, Spares
  <1>7. CASE SchedulerStep
    <2> PICK u \in Turns : PumpSkips(u) \/ StartTurn(u) \/ StartRefused(u) \/ StartFails(u)
      BY <1>7 DEF SchedulerStep
    <2>1. CASE PumpSkips(u)
      BY <1>0, <1>4, <2>1, Spared DEF PumpSkips, Spares
    <2>2. CASE u = t /\ ~PumpSkips(u)
      BY <1>0, <2>2 DEF StartTurn, StartRefused, StartFails, TakeSlot, MarkQueuedStopped, FinishTurn, Brought, IInv, TypeOK
    <2>3. CASE u # t /\ ~PumpSkips(u)
      <3>1. TakeSlot(u) /\ UNCHANGED <<core, resumed, todo, origin>> /\ u \in queue
        BY <2>3 DEF StartTurn, StartRefused, StartFails, TakeSlot, IInv, QueuedRows
      <3>2. Home[u] # Home[t]
        BY <1>5, <2>3, <3>1
      <3>3. running'[Home[t]] = running[Home[t]] /\ phase'[Home[t]] = phase[Home[t]] /\ (t \in queue => t \in queue')
        BY <1>0, <2>3, <3>1, <3>2 DEF StartTurn, StartRefused, StartFails, TakeSlot, Dequeue, TypeOK
      <3>4. \A e \in Turns : BringsBack(e, t) => rec'[e] = rec[e]
        BY <1>0, <2>3, OneBrings DEF StartTurn, StartRefused, StartFails, WithoutStarted
      <3> QED BY <1>0, <1>4, <3>1, <3>3, <3>4, Spared DEF Spares
    <2> QED BY <2>1, <2>2, <2>3
  <1>8. ASSUME NEW th \in Threads, RunnerStep(th) PROVE Brought(t)'
    <2>1. UNCHANGED <<core, resumed, todo, origin, queue, rec>>
      BY <1>4, <1>8 DEF RunnerStep, Attach, PreparationEnds, AttemptEnds, CardOpens, CardAnswered, Settle, HandoffHears,
           Abandon, Finalize
    <2>2. CASE Home[t] = th /\ running[th] = t /\ phase[th] = "unstarted"
      <3>1. Settle(th) \/ Abandon(th)
        BY <1>8, <2>2 DEF RunnerStep, Attach, PreparationEnds, AttemptEnds, CardOpens, CardAnswered, Finalize
      <3>2. Settle(th)
        BY <3>1 DEF Abandon, Stopping
      <3>3. status'[t] = result[th] /\ result[th] \in Closed
        BY <2>2, <3>2 DEF Settle, OwnsTurn, FinishTurn, IInv, TypeOK, Results
      <3> QED BY <3>3 DEF Closed
    <2>3. CASE Home[t] = th /\ ~(running[th] = t /\ phase[th] = "unstarted")
      <3>1. running[th] # NoTurn
        BY <1>8 DEF RunnerStep, Attach, PreparationEnds, AttemptEnds, CardOpens, CardAnswered, Settle, Abandon, Finalize,
             IInv, SlotRows
      <3>2. core # "recovering"
        BY <1>8 DEF RunnerStep, Attach, PreparationEnds, AttemptEnds, CardOpens, CardAnswered, Settle, Abandon, Finalize, Free
      <3> QED BY <1>4, <2>1, <2>3, <3>1, <3>2 DEF Brought
    <2>4. CASE Home[t] # th
      <3>1. running'[Home[t]] = running[Home[t]] /\ phase'[Home[t]] = phase[Home[t]]
        BY <1>0, <1>8, <2>4 DEF RunnerStep, Attach, PreparationEnds, AttemptEnds, Closes, CardOpens, CardAnswered, Settle,
             SettlementOver, Abandon, Finalize, TypeOK
      <3> QED BY <1>0, <1>4, <2>1, <3>1, Spared DEF Spares
    <2> QED BY <2>2, <2>3, <2>4
  <1>9. CASE UserStep
    <2>1. ASSUME NEW th \in Threads, SchedulerStop(th) PROVE t \in queue => t \in queue'
      BY <1>0, <2>1 DEF SchedulerStop, Dequeue, MarkQueuedStopped, FinishTurn, TypeOK
    <2>2. ASSUME NEW th \in Threads, NEW k \in Kinds, Admit(th, k) PROVE Brought(t)'
      <3>1. origin'[t] = origin[t]
        BY <1>0, <2>2 DEF Admit, AdmitTurn, Fresh, TurnsOf, TypeOK
      <3>2. t \in queue => t \in queue'
        BY <2>2 DEF Admit, Enqueue
      <3> QED BY <1>0, <1>4, <2>2, <3>1, <3>2, Spared DEF Admit, Spares
    <2>3. ASSUME NEW th \in Threads, Stop(th) PROVE Brought(t)'
      <3>1. UNCHANGED <<core, resumed, todo, origin, running, phase>> /\ (t \in queue => t \in queue')
        BY <2>1, <2>3 DEF Stop
      <3>2. CASE Home[t] = th
        <4>1. running[th] # NoTurn
          BY <2>3, <3>2, <1>4 DEF Stop, StopMarks, Reached
        <4> QED BY <1>4, <3>1, <3>2, <4>1 DEF Brought
      <3>3. CASE Home[t] # th
        <4>1. \A e \in Turns : BringsBack(e, t) => Home[e] = Home[t]
          BY <1>0, TurnsAssumption DEF BringsBack, RecordRows
        <4>2. \A e \in Turns : BringsBack(e, t) => rec'[e] = rec[e]
          BY <2>3, <3>3, <4>1 DEF Stop, Forget
        <4> QED BY <1>0, <1>4, <3>1, <4>2, Spared DEF Spares
      <3> QED BY <3>2, <3>3
    <2>4. ASSUME NEW th \in Threads, Archive(th) \/ Unarchive(th) \/ Gate(th) \/ Lift(th) PROVE Brought(t)'
      <3>1. UNCHANGED <<core, resumed, todo, origin, rec, running, phase>> /\ (t \in queue => t \in queue')
        BY <2>1, <2>4 DEF Archive, Unarchive, Gate, Lift
      <3> QED BY <1>0, <1>4, <3>1, Spared DEF Spares
    <2>5. ASSUME NEW u \in Turns, ResumeHeld(u) \/ DiscardHeld(u) PROVE Brought(t)'
      <3>1. UNCHANGED <<core, resumed, todo, origin, rec, running, phase>> /\ (t \in queue => t \in queue')
        BY <2>1, <2>5, HomeAssumption DEF ResumeHeld, Enqueue, DiscardHeld
      <3> QED BY <1>0, <1>4, <3>1, Spared DEF Spares
    <2> QED BY <1>9, <2>2, <2>3, <2>4, <2>5 DEF UserStep
  <1>10. CASE ShutdownStep
    BY <1>10 DEF ShutdownStep, BeginHandoff, HandoffEnds, HandoffBackstop, Shutdown, Drain, LeaveFor,
         DrainStop, HandoffStop, DrainEntry, Exit, Crash, Dies
  <1>11. CASE RecoveryLoop
    <2>0. running[Home[t]] = NoTurn /\ ~resumed /\ UNCHANGED <<resumed, origin, rec, running>>
      BY <1>0, <1>11 DEF RecoveryLoop, RecoverTurn, Recovered, IInv, NothingRuns, LoopRows
    <2>1. CASE RecoverTurn(t)
      <3>1. Requeues(t) \/ t \in queue'
        BY <1>0, <2>1 DEF RecoverTurn, Enqueue, FinishTurn, TypeOK
      <3>2. Requeues(t) => \E e \in Turns : BringsBack(e, t)
        BY <1>0, BringsInherited DEF Requeues
      <3>3. core' # "resuming"
        BY <2>1 DEF RecoverTurn
      <3>4. (\E e \in Turns : BringsBack(e, t)) => (\E e \in Turns : BringsBack(e, t))'
        BY <2>0 DEF BringsBack
      <3> QED BY <2>0, <3>1, <3>2, <3>3, <3>4 DEF Brought
    <2>2. ASSUME NEW u \in Turns, RecoverTurn(u), u # t PROVE Brought(t)'
      <3>1. core' = core /\ core = "recovering" /\ (t \in todo => t \in todo') /\ (t \in queue => t \in queue')
        BY <2>2 DEF RecoverTurn, Enqueue
      <3>2. (\E e \in Turns : BringsBack(e, t)) => (\E e \in Turns : BringsBack(e, t))'
        BY <2>0 DEF BringsBack
      <3> QED BY <1>0, <1>4, <2>0, <3>1, <3>2 DEF Brought
    <2>3. CASE Recovered
      <3>1. (\E e \in Turns : BringsBack(e, t)) => (\E e \in Turns : BringsBack(e, t))'
        BY <2>0 DEF BringsBack
      <3> QED BY <1>0, <1>4, <2>0, <2>3, <3>1 DEF Recovered, Brought
    <2> QED BY <1>11, <2>1, <2>2, <2>3 DEF RecoveryLoop
  <1>12. CASE BeginResume
    <2>1. \A e \in Turns : BringsBack(e, t) => e \in todo' /\ BringsBack(e, t)'
      BY <1>12 DEF BeginResume, BringsBack
    <2> QED BY <1>4, <1>12, <2>1 DEF BeginResume, FreeUp, Brought
  <1>13. ASSUME NEW v \in Turns, SkipEntry(v) \/ ConsumeEntry(v) \/ RequeueEntry(v) \/ ContinueEntry(v) \/ ContinuationRefused(v)
         PROVE  Brought(t)'
    <2>1. /\ core = "resuming" /\ core' = core /\ todo' = todo \ {v} /\ UNCHANGED <<running, phase>>
          /\ (t \in queue => t \in queue')
      BY <1>13 DEF SkipEntry, ConsumeEntry, RequeueEntry, Enqueue, ContinueEntry, ContinuationRefused, Visit
    <2>2. origin'[t] = origin[t]
      BY <1>0, <1>13 DEF SkipEntry, ConsumeEntry, RequeueEntry, ContinueEntry, AdmitTurn, Fresh, TurnsOf, ContinuationRefused, TypeOK
    <2>3. \A e \in Turns \ {v} : rec'[e] = rec[e]
      BY <1>13 DEF SkipEntry, ConsumeEntry, Consume, RequeueEntry, ContinueEntry, AdmitTurn, ContinuationRefused, IInv, TypeOK
    <2>4. CASE BringsBack(v, t) /\ t \notin queue /\ running[Home[t]] = NoTurn
      <3>1. StandsFor(v, t) /\ (\A u \in Turns : StandsFor(v, u) => u = t) /\ rec[v] # "no"
        BY <1>0, <2>4, OneBrings DEF BringsBack
      <3>2. t \notin queue \union Occupied /\ queue \union Occupied \subseteq Turns
        BY <1>0, <2>4 DEF Occupied, IInv, SlotRows, TypeOK
      <3>3. EntryResumable(v, t)
        BY <1>4, <2>4, TurnsAssumption DEF BringsBack, EntryResumable, Resumable, ArchivedRows, RecordRows
      <3>4. ~CutRunning(v, t) /\ (StandsFor(v, v) => ~CutRunning(v, v))
        BY <2>4, <3>1 DEF BringsBack, CutRunning
      <3>5. RequeueEntry(v)
        <4>1. ~SkipEntry(v)
          BY <3>1, <3>2 DEF SkipEntry
        <4>2. ~ConsumeEntry(v)
          BY <3>1, <3>3 DEF ConsumeEntry
        <4>3. ~ContinueEntry(v) /\ ~ContinuationRefused(v)
          BY <3>4 DEF ContinueEntry, ContinuationRefused
        <4> QED BY <1>13, <4>1, <4>2, <4>3
      <3>6. t \in queue'
        BY <3>1, <3>5 DEF RequeueEntry, Enqueue
      <3> QED BY <3>6 DEF Brought
    <2>5. CASE ~(BringsBack(v, t) /\ t \notin queue /\ running[Home[t]] = NoTurn)
      <3>1. \A e \in todo \ {v} : BringsBack(e, t) => e \in todo' /\ BringsBack(e, t)'
        BY <2>1, <2>2, <2>3 DEF BringsBack, IInv, TypeOK
      <3> QED BY <1>4, <2>1, <2>5, <3>1 DEF Brought
    <2> QED BY <2>4, <2>5
  <1>14. CASE ResumeDone
    BY <1>4, <1>14 DEF ResumeDone, LeaveFor, Brought
  <1>15. CASE \E fresh \in BOOLEAN : Boot(fresh)
    <2>1. core = "down"
      BY <1>15, Zenon DEF Boot
    <2> QED BY <2>1
  <1> QED BY <1>6, <1>7, <1>8, <1>9, <1>10, <1>11, <1>12, <1>13, <1>14, <1>15 DEF Next, StartupStep, ResumeLoop

\* What the record, the slots and the queue carry of each turn, in every state.
LEMMA CarriedAlways == Spec => [](IInv /\ Carried)
  <1>1. Init => Carried
    <2> SUFFICES ASSUME Init PROVE Carried
      OBVIOUS
    <2>1. LoopRows
      BY Zenon DEF Init, LoopRows
    <2>2. Continuations /\ RecordRows /\ ArchivedRows
      BY TurnsAssumption DEF Init, Continuations, OneContinuation, RecordRows, ArchivedRows
    <2>3. ~handing
      BY Zenon DEF Init
    <2>4. HandoffRows /\ CarrierRows
      BY <2>3 DEF Init, HandoffRows, CarrierRows
    <2> QED BY <2>1, <2>2, <2>4 DEF Carried
  <1>2. IInv /\ Carried /\ [Next]_vars => Carried'
    BY ContinuationsStep, LoopRowsStep, RecordRowsStep, ArchivedRowsStep, HandoffRowsStep, CarrierRowsStep DEF Carried, IInv
  <1> QED BY <1>1, <1>2, Inductive, PTL DEF Spec

\* A queued row is in the scheduler, or an entry of the record brings it there,
\* unless its user stopped it: no crash, handoff or refusal strands it.
THEOREM QueuedCarried == Spec => []QueuedHasCarrier
  <1>1. IInv /\ Carried => QueuedHasCarrier
    <2> SUFFICES ASSUME IInv, Carried, FreeUp, NEW t \in Turns, status[t] = "queued", userStop[t] = "no"
                 PROVE  t \in queue \union Occupied \/ (~resumed /\ InheritedQueued(t))
      BY DEF QueuedHasCarrier
    <2>1. Brought(t) /\ core = "up" /\ TypeOK
      BY DEF Carried, CarrierRows, FreeUp, IInv
    <2> QED BY <2>1, BringsInherited, HomeAssumption, TurnsAssumption DEF Brought, Occupied
  <1> QED BY <1>1, CarriedAlways, PTL

\* A handing core that is killed at any moment hands over each turn it runs or cut.
THEOREM HandedOver == Spec => []HandoffCarries
  <1>1. Carried => HandoffCarries
    BY DEF Carried, HandoffRows, HandoffCarries, Open
  <1> QED BY <1>1, CarriedAlways, PTL

\* Of the steps that close a queued prompt, each is its user's, a start that
\* failed, or a shutdown that hands nothing over.
LEMMA PromptStep ==
  ASSUME IInv, Carried, [Next]_vars, NEW t \in Turns,
         kind[t] \in {"prompt", "outbox"}, status[t] = "queued", status'[t] \in Closed
  PROVE  \/ userStop'[t] # "no" \/ t \in held \/ Home[t] \in archived
         \/ phase[Home[t]] = "unstarted"
         \/ core = "draining" /\ ~handing
  <1> DEFINE Goal == \/ userStop'[t] # "no" \/ t \in held \/ Home[t] \in archived
                     \/ phase[Home[t]] = "unstarted"
                     \/ core = "draining" /\ ~handing
  <1>0. TypeOK /\ status' # status
    BY DEF IInv, Closed
  <1>1. ASSUME NEW th \in Threads, SchedulerStop(th) PROVE Home[t] = th /\ running[th] = NoTurn
    <2>1. PICK u \in queue : Home[u] = th /\ MarkQueuedStopped(u) /\ running[th] = NoTurn
      BY <1>0, <1>1 DEF SchedulerStop
    <2>2. u = t
      BY <1>0, <2>1 DEF MarkQueuedStopped, FinishTurn, TypeOK, Closed
    <2> QED BY <2>1, <2>2
  <1>2. CASE UserStep
    <2>1. ASSUME NEW th \in Threads, Stop(th) PROVE Goal
      BY <1>1, <2>1 DEF Stop, StopMarks, Reached, Open
    <2>2. ASSUME NEW th \in Threads, Archive(th) PROVE Goal
      BY <1>1, <2>2 DEF Archive, Open
    <2>3. ASSUME NEW u \in Turns, DiscardHeld(u) PROVE Goal
      <3>1. Home[u] = Home[t]
        BY <1>1, <2>3, HomeAssumption DEF DiscardHeld
      <3>2. u = t
        BY <2>3, <3>1 DEF DiscardHeld, IInv, OneOpenTurn, Open
      <3> QED BY <2>3, <3>2 DEF DiscardHeld
    <2>4. ASSUME NEW th \in Threads, NEW k \in Kinds, Admit(th, k) PROVE Goal
      BY <1>0, <2>4 DEF Admit, AdmitTurn, TypeOK, Closed
    <2>5. ASSUME \/ \E th \in Threads : Unarchive(th) \/ Gate(th) \/ Lift(th)
                 \/ \E u \in Turns : ResumeHeld(u)
          PROVE  FALSE
      BY <1>0, <2>5 DEF Unarchive, Gate, Lift, ResumeHeld
    <2> QED BY <1>2, <2>1, <2>2, <2>3, <2>4, <2>5 DEF UserStep
  <1>3. CASE SchedulerStep
    BY <1>0, <1>3 DEF SchedulerStep, PumpSkips, StartTurn, StartRefused, StartFails, MarkQueuedStopped, FinishTurn, TypeOK, Closed
  <1>4. ASSUME NEW th \in Threads, RunnerStep(th) PROVE Goal
    <2>1. Settle(th) /\ OwnsTurn(th)
      BY <1>0, <1>4 DEF RunnerStep, Attach, PreparationEnds, AttemptEnds, CardOpens, CardAnswered, Settle, Abandon, Finalize
    <2>2. running[th] = t
      BY <1>0, <2>1 DEF Settle, FinishTurn, TypeOK, Closed
    <2>3. Home[t] = th
      BY <2>2, TurnsAssumption DEF IInv, SlotRows
    <2> QED BY <2>1, <2>2, <2>3 DEF OwnsTurn
  <1>5. CASE ShutdownStep
    <2>1. PICK u \in Turns : DrainEntry(u) /\ ~KeepsQueued(u) /\ MarkQueuedStopped(u)
      BY <1>0, <1>5 DEF ShutdownStep, BeginHandoff, HandoffEnds, HandoffBackstop, Shutdown, Drain, LeaveFor,
           DrainStop, HandoffStop, DrainEntry, Exit, Crash, Dies
    <2>2. u = t /\ core = "draining" /\ userStop' = userStop /\ t \in queue
      BY <1>0, <2>1 DEF DrainEntry, MarkQueuedStopped, FinishTurn, TypeOK, Closed
    <2>3. CASE handing /\ Home[t] \notin archived /\ userStop[t] = "no"
      <3>1. t \notin queueHold /\ ~InheritedQueued(t)
        BY <2>1, <2>2 DEF KeepsQueued
      <3>2. rec[t] = "queued"
        BY <2>2, <2>3, <3>1 DEF Carried, HandoffRows
      <3> QED BY <3>1, <3>2 DEF InheritedQueued, StandsFor
    <2> QED BY <2>2, <2>3
  <1>6. CASE StartupStep
    <2>1. (\E fresh \in BOOLEAN : Boot(fresh)) => status' = status
      BY Zenon DEF Boot
    <2>2. ASSUME NEW u \in Turns, RecoverTurn(u) PROVE Goal
      <3>1. ~Holds(u) /\ \E s \in Closed : FinishTurn(u, s)
        BY <1>0, <2>2 DEF RecoverTurn, Closed
      <3>2. u = t
        BY <1>0, <3>1 DEF FinishTurn, TypeOK, Closed
      <3> QED BY <3>1, <3>2 DEF Holds
    <2>3. ASSUME NEW u \in Turns, ContinueEntry(u) PROVE Goal
      BY <1>0, <2>3 DEF ContinueEntry, AdmitTurn, TypeOK, Closed
    <2>4. ASSUME \/ \E u \in Turns : SkipEntry(u) \/ ConsumeEntry(u) \/ RequeueEntry(u) \/ ContinuationRefused(u)
                 \/ Recovered \/ BeginResume \/ ResumeDone
          PROVE  status' = status
      BY <2>4 DEF SkipEntry, ConsumeEntry, RequeueEntry, ContinuationRefused, Recovered, BeginResume, ResumeDone, LeaveFor
    <2> QED BY <1>0, <1>6, <2>1, <2>2, <2>3, <2>4 DEF StartupStep, RecoveryLoop, ResumeLoop
  <1>7. CASE UNCHANGED vars
    BY <1>0, <1>7 DEF vars
  <1> QED BY <1>2, <1>3, <1>4, <1>5, <1>6, <1>7 DEF Next

\* A prompt the core accepted is closed unrun by its user, by a failed start or by
\* a shutdown on purpose: never by a restart handoff, and never by a crash.
THEOREM PromptSurvives == Spec => AcceptedPromptSurvives
  <1>1. IInv /\ Carried /\ [Next]_vars =>
          [\A t \in Turns :
             /\ kind[t] \in {"prompt", "outbox"} /\ status[t] = "queued"
             /\ status'[t] \in Closed
             => \/ userStop'[t] # "no" \/ t \in held \/ Home[t] \in archived
                \/ phase[Home[t]] = "unstarted"
                \/ core = "draining" /\ ~handing]_vars
    BY PromptStep
  <1> QED BY <1>1, CarriedAlways, PTL DEF Spec, AcceptedPromptSurvives

-----------------------------------------------------------------------------
(* A Stop that removes an entry of the record is final.                    *)

\* A row closes for good.
LEMMA ClosedStays ==
  ASSUME IInv, [Next]_vars, NEW t \in Turns
  PROVE  /\ status[t] \in Closed => status'[t] = status[t]
         /\ status[t] # "none" => status'[t] # "none"
         /\ status[t] # "none" /\ Open(t)' => Open(t)
  BY RowSteps DEF RowStep, Accepts, Begins, Ends, Open, Closed, IInv, TypeOK

\* The record grows in BeginHandoff alone.
LEMMA RecordGrows ==
  ASSUME IInv, [Next]_vars, NEW t \in Turns
  PROVE  rec'[t] \in {rec[t], "no"} \/ BeginHandoff
  <1> DEFINE Goal == rec'[t] \in {rec[t], "no"} \/ BeginHandoff
  <1>1. CASE UserStep
    BY <1>1 DEF UserStep, Admit, Stop, Forget, Archive, Unarchive, Gate, Lift, ResumeHeld, DiscardHeld
  <1>2. CASE SchedulerStep
    BY <1>2 DEF SchedulerStep, PumpSkips, StartTurn, StartRefused, StartFails, WithoutStarted
  <1>3. ASSUME NEW th \in Threads, RunnerStep(th) PROVE Goal
    BY <1>3 DEF RunnerStep, Attach, PreparationEnds, AttemptEnds, CardOpens, CardAnswered, Settle, HandoffHears,
         Abandon, Finalize, IInv, TypeOK
  <1>4. CASE ShutdownStep
    BY <1>4 DEF ShutdownStep, HandoffEnds, HandoffBackstop, Shutdown, Drain, LeaveFor,
         DrainStop, HandoffStop, DrainEntry, Exit, Crash, Dies
  <1>5. CASE StartupStep
    <2>1. ASSUME NEW fresh \in BOOLEAN, Boot(fresh) PROVE Goal
      BY <2>1 DEF Boot
    <2>2. (\E fresh \in BOOLEAN : Boot(fresh)) => Goal
      BY <2>1, Zenon
    <2>3. CASE RecoveryLoop \/ BeginResume \/ ResumeDone
      BY <2>3 DEF RecoveryLoop, RecoverTurn, Recovered, BeginResume, ResumeDone, LeaveFor
    <2>4. ASSUME NEW e \in Turns,
                 SkipEntry(e) \/ ConsumeEntry(e) \/ RequeueEntry(e) \/ ContinueEntry(e) \/ ContinuationRefused(e)
          PROVE  Goal
      BY <2>4 DEF SkipEntry, ConsumeEntry, Consume, RequeueEntry, ContinueEntry, ContinuationRefused, IInv, TypeOK
    <2> QED BY <1>5, <2>2, <2>3, <2>4 DEF StartupStep, ResumeLoop
  <1>6. CASE UNCHANGED vars
    BY <1>6 DEF vars
  <1> QED BY <1>1, <1>2, <1>3, <1>4, <1>5, <1>6 DEF Next

\* A turn keeps what it was admitted as, and only handoff.resume admits a continuation.
LEMMA AdmittedOnce ==
  ASSUME IInv, [Next]_vars, NEW t \in Turns
  PROVE  \/ kind'[t] = kind[t] /\ origin'[t] = origin[t]
         \/ /\ status[t] = "none"
            /\ origin'[t] = NoTurn \/ (origin'[t] \in Turns /\ ContinueEntry(origin'[t]))
  <1> DEFINE Goal == \/ kind'[t] = kind[t] /\ origin'[t] = origin[t]
                     \/ /\ status[t] = "none"
                        /\ origin'[t] = NoTurn \/ (origin'[t] \in Turns /\ ContinueEntry(origin'[t]))
  <1>a. ASSUME NEW c \in Turns, status[c] = "none", NEW k, NEW cut, AdmitTurn(c, k, cut),
               cut = NoTurn \/ (cut \in Turns /\ ContinueEntry(cut))
        PROVE  Goal
    BY <1>a DEF AdmitTurn, IInv, TypeOK
  <1>1. CASE UserStep
    <2>1. ASSUME NEW th \in Threads, NEW k \in Kinds, Admit(th, k) PROVE Goal
      BY <1>a, <2>1 DEF Admit, Fresh, TurnsOf
    <2> QED BY <1>1, <2>1 DEF UserStep, Stop, Archive, Unarchive, Gate, Lift, ResumeHeld, DiscardHeld
  <1>2. CASE SchedulerStep \/ ShutdownStep \/ \E th \in Threads : RunnerStep(th)
    BY <1>2 DEF SchedulerStep, PumpSkips, StartTurn, StartRefused, StartFails,
         RunnerStep, Attach, PreparationEnds, AttemptEnds, CardOpens, CardAnswered, Settle, Abandon, Finalize,
         ShutdownStep, BeginHandoff, HandoffEnds, HandoffBackstop, Shutdown, Drain, LeaveFor,
         DrainStop, HandoffStop, DrainEntry, Exit, Crash, Dies
  <1>3. CASE StartupStep
    <2>1. (\E fresh \in BOOLEAN : Boot(fresh)) => UNCHANGED <<kind, origin>>
      BY Zenon DEF Boot
    <2>2. ASSUME NEW e \in Turns, ContinueEntry(e) PROVE Goal
      BY <1>a, <2>2 DEF ContinueEntry, Fresh, TurnsOf
    <2> QED BY <1>3, <2>1, <2>2 DEF StartupStep, RecoveryLoop, ResumeLoop, RecoverTurn, Recovered, BeginResume,
              ResumeDone, LeaveFor, SkipEntry, ConsumeEntry, RequeueEntry, ContinuationRefused
  <1>4. CASE UNCHANGED vars
    BY <1>4 DEF vars
  <1> QED BY <1>1, <1>2, <1>3, <1>4 DEF Next

\* A turn gets its slot from the scheduler's loop.
LEMMA SlotTaken ==
  ASSUME IInv, [Next]_vars, NEW t \in Turns, t \notin Occupied, t \in Occupied'
  PROVE  StartTurn(t) \/ StartRefused(t) \/ StartFails(t)
  <1>1. CASE SchedulerStep
    <2> PICK u \in Turns : PumpSkips(u) \/ StartTurn(u) \/ StartRefused(u) \/ StartFails(u)
      BY <1>1 DEF SchedulerStep
    <2>1. ~PumpSkips(u)
      BY DEF PumpSkips, Occupied
    <2>2. running' = [running EXCEPT ![Home[u]] = u]
      BY <2>1 DEF StartTurn, StartRefused, StartFails, TakeSlot
    <2>3. u = t
      BY <2>2 DEF Occupied, IInv, TypeOK
    <2> QED BY <2>1, <2>3
  <1>2. ASSUME NEW th \in Threads, RunnerStep(th) PROVE FALSE
    <2>1. running' = running \/ running' = [running EXCEPT ![th] = NoTurn]
      BY <1>2 DEF RunnerStep, Attach, PreparationEnds, AttemptEnds, CardOpens, CardAnswered, Settle, Abandon, Finalize
    <2> QED BY <2>1 DEF Occupied, IInv, TypeOK
  <1>3. CASE UserStep
    BY <1>3 DEF UserStep, Admit, Stop, Archive, Unarchive, Gate, Lift, ResumeHeld, DiscardHeld, Occupied
  <1>4. CASE ShutdownStep
    BY <1>4 DEF ShutdownStep, BeginHandoff, HandoffEnds, HandoffBackstop, Shutdown, Drain, LeaveFor,
         DrainStop, HandoffStop, DrainEntry, Exit, Crash, Dies, Occupied
  <1>5. CASE StartupStep
    <2>1. (\E fresh \in BOOLEAN : Boot(fresh)) => UNCHANGED running
      BY Zenon DEF Boot
    <2>2. UNCHANGED running
      BY <1>5, <2>1 DEF StartupStep, RecoveryLoop, ResumeLoop, RecoverTurn, Recovered, BeginResume,
              ResumeDone, LeaveFor, SkipEntry, ConsumeEntry, RequeueEntry, ContinueEntry, ContinuationRefused
    <2> QED BY <2>2 DEF Occupied
  <1>6. CASE UNCHANGED vars
    BY <1>6 DEF vars, Occupied
  <1> QED BY <1>1, <1>2, <1>3, <1>4, <1>5, <1>6 DEF Next

\* A core is up once recovery is through.
LEMMA CoreRises ==
  ASSUME [Next]_vars, core' \in {"up", "resuming"}
  PROVE  core \in {"up", "resuming"} \/ Recovered
  <1>1. CASE UserStep
    BY <1>1 DEF UserStep, Admit, Stop, Archive, Unarchive, Gate, Lift, ResumeHeld, DiscardHeld
  <1>2. CASE SchedulerStep \/ \E th \in Threads : RunnerStep(th)
    BY <1>2 DEF SchedulerStep, PumpSkips, StartTurn, StartRefused, StartFails,
         RunnerStep, Attach, PreparationEnds, AttemptEnds, CardOpens, CardAnswered, Settle, Abandon, Finalize
  <1>3. CASE ShutdownStep
    BY <1>3 DEF ShutdownStep, BeginHandoff, HandoffEnds, HandoffBackstop, Shutdown, Drain, LeaveFor,
         DrainStop, HandoffStop, DrainEntry, Exit, Crash, Dies
  <1>4. CASE StartupStep
    <2>1. (\E fresh \in BOOLEAN : Boot(fresh)) => core' = "recovering"
      BY Zenon DEF Boot
    <2> QED BY <1>4, <2>1 DEF StartupStep, RecoveryLoop, ResumeLoop, RecoverTurn, BeginResume, FreeUp,
              ResumeDone, SkipEntry, ConsumeEntry, RequeueEntry, ContinueEntry, ContinuationRefused, Visit
  <1>5. CASE UNCHANGED vars
    BY <1>5 DEF vars
  <1> QED BY <1>1, <1>2, <1>3, <1>4, <1>5 DEF Next

\* Recovery visits every row it found open.
LEMMA RowsVisited ==
  ASSUME IInv, [Next]_vars, NEW t \in Turns, Open(t), core' = "recovering", core = "recovering" => t \in todo
  PROVE  t \in todo' \/ RecoverTurn(t)
  <1>1. CASE UserStep
    BY <1>1 DEF UserStep, Admit, Stop, Archive, Unarchive, Gate, Lift, ResumeHeld, DiscardHeld, Free, FreeUp
  <1>2. CASE SchedulerStep \/ \E th \in Threads : RunnerStep(th)
    BY <1>2 DEF SchedulerStep, PumpSkips, StartTurn, StartRefused, StartFails,
         RunnerStep, Attach, PreparationEnds, AttemptEnds, CardOpens, CardAnswered, Settle, Abandon, Finalize
  <1>3. CASE ShutdownStep
    BY <1>3 DEF ShutdownStep, BeginHandoff, HandoffEnds, HandoffBackstop, Shutdown, Drain, LeaveFor,
         DrainStop, HandoffStop, DrainEntry, Exit, Crash, Dies
  <1>4. CASE StartupStep
    <2>1. (\E fresh \in BOOLEAN : Boot(fresh)) => todo' = {u \in Turns : Open(u)}
      BY Zenon DEF Boot
    <2>2. (\E fresh \in BOOLEAN : Boot(fresh)) => t \in todo'
      BY <2>1
    <2>3. CASE RecoveryLoop
      BY <2>3 DEF RecoveryLoop, RecoverTurn, Recovered
    <2>4. CASE BeginResume \/ ResumeLoop
      BY <2>4 DEF ResumeLoop, BeginResume, FreeUp,
              ResumeDone, LeaveFor, SkipEntry, ConsumeEntry, RequeueEntry, ContinueEntry, ContinuationRefused, Visit
    <2> QED BY <1>4, <2>2, <2>3, <2>4 DEF StartupStep
  <1>5. CASE UNCHANGED vars
    BY <1>5 DEF vars
  <1> QED BY <1>1, <1>2, <1>3, <1>4, <1>5 DEF Next

\* A hold goes with its row, or with the user's word.
LEMMA HoldsKept ==
  ASSUME IInv, [Next]_vars, NEW t \in Turns, t \in held, t \notin held', Open(t)'
  PROVE  ResumeHeld(t)
  <1>a. ASSUME NEW u \in Turns, MarkQueuedStopped(u) PROVE FALSE
    BY <1>a DEF MarkQueuedStopped, FinishTurn, Open, IInv, TypeOK
  <1>b. ASSUME NEW th, SchedulerStop(th) PROVE FALSE
    BY <1>a, <1>b DEF SchedulerStop, IInv, TypeOK
  <1>1. CASE UserStep
    <2>1. ASSUME NEW u \in Turns, ResumeHeld(u) PROVE ResumeHeld(t)
      BY <2>1 DEF ResumeHeld
    <2> QED BY <1>1, <1>b, <2>1 DEF UserStep, Admit, Stop, Archive, Unarchive, Gate, Lift, DiscardHeld
  <1>2. CASE SchedulerStep \/ ShutdownStep \/ \E th \in Threads : RunnerStep(th)
    BY <1>2, <1>a DEF SchedulerStep, PumpSkips, StartTurn, StartRefused, StartFails,
         RunnerStep, Attach, PreparationEnds, AttemptEnds, CardOpens, CardAnswered, Settle, Abandon, Finalize,
         ShutdownStep, BeginHandoff, HandoffEnds, HandoffBackstop, Shutdown, Drain, LeaveFor,
         DrainStop, HandoffStop, DrainEntry, Exit, Crash, Dies
  <1>3. CASE StartupStep
    <2>1. (\E fresh \in BOOLEAN : Boot(fresh)) => held' = held
      BY Zenon DEF Boot
    <2> QED BY <1>3, <2>1 DEF StartupStep, RecoveryLoop, ResumeLoop, RecoverTurn, Recovered, BeginResume,
              ResumeDone, LeaveFor, SkipEntry, ConsumeEntry, RequeueEntry, ContinueEntry, ContinuationRefused
  <1>4. CASE UNCHANGED vars
    BY <1>4 DEF vars
  <1> QED BY <1>1, <1>2, <1>3, <1>4 DEF Next

\* A turn is forgotten by its user's Stop alone.
LEMMA NewMark ==
  ASSUME TypeOK, [Next]_vars, NEW t \in Turns, userStop[t] # "forgotten", userStop'[t] = "forgotten"
  PROVE  \E th \in Threads : Stop(th)
  <1>1. CASE UserStep
    <2>1. ASSUME NEW th \in Threads, Archive(th) PROVE FALSE
      BY <2>1 DEF Archive
    <2>2. ASSUME NEW u \in Turns, ResumeHeld(u) PROVE FALSE
      BY <2>2 DEF ResumeHeld, TypeOK
    <2> QED BY <1>1, <2>1, <2>2 DEF UserStep, Admit, Unarchive, Gate, Lift, DiscardHeld
  <1>2. CASE SchedulerStep \/ ShutdownStep \/ \E th \in Threads : RunnerStep(th)
    BY <1>2 DEF SchedulerStep, PumpSkips, StartTurn, StartRefused, StartFails,
         RunnerStep, Attach, PreparationEnds, AttemptEnds, CardOpens, CardAnswered, Settle, Abandon, Finalize,
         ShutdownStep, BeginHandoff, HandoffEnds, HandoffBackstop, Shutdown, Drain, LeaveFor,
         DrainStop, HandoffStop, DrainEntry, Exit, Crash, Dies
  <1>3. CASE StartupStep
    <2>1. (\E fresh \in BOOLEAN : Boot(fresh)) => userStop' = userStop
      BY Zenon DEF Boot
    <2> QED BY <1>3, <2>1 DEF StartupStep, RecoveryLoop, ResumeLoop, RecoverTurn, Recovered, BeginResume,
              ResumeDone, LeaveFor, SkipEntry, ConsumeEntry, RequeueEntry, ContinueEntry, ContinuationRefused
  <1>4. CASE UNCHANGED vars
    BY <1>4 DEF vars
  <1> QED BY <1>1, <1>2, <1>3, <1>4 DEF Next

\* A start that does not commit stays what it is until it settles.
LEMMA FailedStartsStep == IInv /\ FailedStarts /\ [Next]_vars => FailedStarts'
  <1> SUFFICES ASSUME IInv, FailedStarts, [Next]_vars, NEW th \in Threads, phase'[th] = "unstarted"
               PROVE  result'[th] = "error"
    BY DEF FailedStarts
  <1> USE DEF FailedStarts
  <1>1. CASE SchedulerStep
    <2> PICK u \in Turns : PumpSkips(u) \/ StartTurn(u) \/ StartRefused(u) \/ StartFails(u)
      BY <1>1 DEF SchedulerStep
    <2> QED BY DEF PumpSkips, StartTurn, StartRefused, StartFails, IInv, TypeOK
  <1>2. ASSUME NEW h \in Threads, RunnerStep(h) PROVE result'[th] = "error"
    BY <1>2 DEF RunnerStep, Attach, PreparationEnds, AttemptEnds, Closes, CardOpens, CardAnswered, Settle,
         SettlementOver, Abandon, Finalize, IInv, TypeOK
  <1>3. CASE UserStep
    BY <1>3 DEF UserStep, Admit, Stop, Archive, Unarchive, Gate, Lift, ResumeHeld, DiscardHeld
  <1>4. CASE ShutdownStep
    BY <1>4 DEF ShutdownStep, BeginHandoff, HandoffEnds, HandoffBackstop, Shutdown, Drain, LeaveFor,
         DrainStop, HandoffStop, DrainEntry, Exit, Crash, Dies
  <1>5. CASE StartupStep
    <2>1. (\E fresh \in BOOLEAN : Boot(fresh)) => UNCHANGED <<phase, result>>
      BY Zenon DEF Boot
    <2> QED BY <1>5, <2>1 DEF StartupStep, RecoveryLoop, ResumeLoop, RecoverTurn, Recovered, BeginResume,
              ResumeDone, LeaveFor, SkipEntry, ConsumeEntry, RequeueEntry, ContinueEntry, ContinuationRefused
  <1>6. CASE UNCHANGED vars
    BY <1>6 DEF vars
  <1> QED BY <1>1, <1>2, <1>3, <1>4, <1>5, <1>6 DEF Next

\* A turn whose start failed keeps its slot as it is, or settles as an error.
LEMMA FailedStartSettles ==
  ASSUME IInv, FailedStarts, [Next]_vars, core' \in {"up", "resuming"},
         NEW t \in Turns, t \in Occupied, t \in Occupied',
         phase[Home[t]] = "unstarted", status[t] = "queued"
  PROVE  (phase'[Home[t]] = "unstarted" /\ status'[t] = "queued") \/ status'[t] = "error"
  <1> DEFINE Goal == (phase'[Home[t]] = "unstarted" /\ status'[t] = "queued") \/ status'[t] = "error"
  <1>0. TypeOK /\ Home[t] \in Threads /\ running[Home[t]] = t /\ t # NoTurn /\ t \notin queue
    BY HomeAssumption, TurnsAssumption DEF IInv, Occupied, SlotRows, QueuedRows, TypeOK
  <1>a. ASSUME NEW u \in queue, MarkQueuedStopped(u) PROVE status'[t] = status[t]
    BY <1>0, <1>a DEF MarkQueuedStopped, FinishTurn, IInv, TypeOK
  <1>b. ASSUME NEW th \in Threads, SchedulerStop(th) PROVE status'[t] = status[t]
    BY <1>a, <1>b DEF SchedulerStop
  <1>1. CASE UserStep
    <2>1. ASSUME NEW th \in Threads, NEW k \in Kinds, Admit(th, k) PROVE Goal
      BY <1>0, <2>1 DEF Admit, AdmitTurn, Fresh, TurnsOf, TypeOK
    <2>2. ASSUME NEW th \in Threads, Stop(th) \/ Archive(th) \/ Unarchive(th) \/ Gate(th) \/ Lift(th) PROVE Goal
      BY <1>b, <2>2 DEF Stop, Archive, Unarchive, Gate, Lift
    <2>3. ASSUME NEW u \in Turns, ResumeHeld(u) \/ DiscardHeld(u) PROVE Goal
      BY <1>b, <2>3, HomeAssumption DEF ResumeHeld, DiscardHeld
    <2> QED BY <1>1, <2>1, <2>2, <2>3 DEF UserStep
  <1>2. CASE SchedulerStep
    <2> PICK u \in Turns : PumpSkips(u) \/ StartTurn(u) \/ StartRefused(u) \/ StartFails(u)
      BY <1>2 DEF SchedulerStep
    <2>1. CASE PumpSkips(u)
      BY <2>1 DEF PumpSkips
    <2>2. CASE ~PumpSkips(u)
      <3>1. TakeSlot(u) /\ u \in queue
        BY <2>2 DEF StartTurn, StartRefused, StartFails, TakeSlot, IInv, QueuedRows
      <3>2. Home[u] # Home[t] /\ u # t
        BY <1>0, <3>1 DEF TakeSlot, Waits
      <3> QED BY <1>0, <1>a, <2>2, <3>1, <3>2 DEF StartTurn, StartRefused, StartFails, TypeOK
    <2> QED BY <2>1, <2>2
  <1>3. ASSUME NEW th \in Threads, RunnerStep(th) PROVE Goal
    <2>1. CASE th = Home[t]
      <3>1. Settle(th) \/ Abandon(th)
        BY <1>3, <2>1 DEF RunnerStep, Attach, PreparationEnds, AttemptEnds, CardOpens, CardAnswered, Finalize
      <3>2. ~Abandon(th)
        BY DEF Abandon, Stopping
      <3>3. OwnsTurn(th) /\ result[th] = "error"
        BY <1>0, <2>1 DEF OwnsTurn, FailedStarts
      <3> QED BY <1>0, <2>1, <3>1, <3>2, <3>3 DEF Settle, FinishTurn, TypeOK
    <2>2. CASE th # Home[t]
      <3>1. running[th] # t
        BY <1>0, <2>2 DEF IInv, SlotRows
      <3> QED BY <1>0, <1>3, <2>2, <3>1 DEF RunnerStep, Attach, PreparationEnds, AttemptEnds, Closes, CardOpens, CardAnswered,
                Settle, SettlementOver, FinishTurn, Abandon, Finalize, TypeOK
    <2> QED BY <2>1, <2>2
  <1>4. CASE ShutdownStep
    BY <1>4 DEF ShutdownStep, BeginHandoff, HandoffEnds, HandoffBackstop, Shutdown, Drain, LeaveFor,
         DrainStop, HandoffStop, DrainEntry, Exit, Crash, Dies
  <1>5. CASE StartupStep
    <2>1. (\E fresh \in BOOLEAN : Boot(fresh)) => core' = "recovering"
      BY Zenon DEF Boot
    <2>2. ASSUME NEW e \in Turns, ContinueEntry(e) PROVE Goal
      BY <1>0, <2>2 DEF ContinueEntry, AdmitTurn, Fresh, TurnsOf, TypeOK
    <2>3. ~\E u \in Turns : RecoverTurn(u)
      BY DEF RecoverTurn
    <2> QED BY <1>5, <2>1, <2>2, <2>3 DEF StartupStep, RecoveryLoop, ResumeLoop, Recovered, BeginResume,
              ResumeDone, LeaveFor, SkipEntry, ConsumeEntry, RequeueEntry, ContinuationRefused
  <1>6. CASE UNCHANGED vars
    BY <1>6 DEF vars
  <1> QED BY <1>1, <1>2, <1>3, <1>4, <1>5, <1>6 DEF Next

\* A turn that starts takes its entries along; what is continued stays stopped.
LEMMA EntryRowsStep ==
  IInv /\ LoopRows /\ RecordRows /\ FailedStarts /\ EntryRows /\ [Next]_vars => EntryRows'
  <1> SUFFICES ASSUME IInv, LoopRows, RecordRows, FailedStarts, EntryRows, [Next]_vars, NEW t \in Turns
               PROVE  /\ origin'[t] # NoTurn => status'[origin'[t]] = "stopped"
                      /\ rec'[t] # "no" => kind'[t] # "wake"
                      /\ /\ rec'[t] # "no"
                         /\ core' \in {"up", "resuming"}
                         /\ t \in Occupied'
                         => \/ phase'[Home[t]] = "unstarted" /\ status'[t] = "queued"
                            \/ status'[t] = "error"
    BY DEF EntryRows
  <1>0. TypeOK /\ "stopped" \in Closed /\ "error" \in Closed
    BY DEF IInv, Closed
  <1>1. ASSUME origin'[t] # NoTurn PROVE status'[origin'[t]] = "stopped"
    <2>1. origin'[t] \in Turns /\ status[origin'[t]] = "stopped"
      <3>1. CASE origin'[t] = origin[t]
        BY <1>0, <1>1, <3>1 DEF EntryRows, TypeOK
      <3>2. CASE origin'[t] # origin[t]
        BY <1>1, <3>2, AdmittedOnce DEF ContinueEntry, CutRunning
      <3> QED BY <3>1, <3>2
    <2> QED BY <1>0, <2>1, ClosedStays
  <1>2. ASSUME rec'[t] # "no" PROVE kind'[t] # "wake"
    <2>1. CASE BeginHandoff
      <3>1. Recorded(t) # "no" \/ rec[t] # "no"
        BY <1>2, <2>1 DEF BeginHandoff
      <3>2. Recorded(t) # "no" => kind[t] # "wake"
        BY DEF Recorded, Resumable
      <3> QED BY <2>1, <3>1, <3>2 DEF BeginHandoff, EntryRows
    <2>2. CASE ~BeginHandoff
      <3>1. rec[t] # "no"
        BY <1>2, <2>2, RecordGrows
      <3> QED BY <3>1, AdmittedOnce DEF EntryRows, RecordRows
    <2> QED BY <2>1, <2>2
  <1>3. ASSUME rec'[t] # "no", core' \in {"up", "resuming"}, t \in Occupied'
        PROVE  (phase'[Home[t]] = "unstarted" /\ status'[t] = "queued") \/ status'[t] = "error"
    <2>1. rec[t] # "no"
      BY <1>3, RecordGrows DEF BeginHandoff
    <2>2. core \in {"up", "resuming"}
      <3>1. ~Recovered
        BY <1>3, TurnsAssumption DEF Recovered, Occupied, IInv, NothingRuns
      <3> QED BY <1>3, <3>1, CoreRises
    <2>3. CASE t \in Occupied
      BY <1>0, <1>3, <2>1, <2>2, <2>3, FailedStartSettles, ClosedStays DEF EntryRows
    <2>4. CASE t \notin Occupied
      <3>1. t \in queue /\ status[t] = "queued" /\ Home[t] \in Threads
        BY <1>3, <2>4, SlotTaken, HomeAssumption DEF StartTurn, StartRefused, StartFails, TakeSlot, IInv, QueuedRows
      <3>2. ~StartTurn(t)
        <4>1. ~Continued(t)
          BY <3>1, TurnsAssumption DEF Continued, EntryRows
        <4>2. StandsFor(t, t)
          BY <2>1, <4>1 DEF StandsFor
        <4> QED BY <1>3, <2>2, <4>2 DEF StartTurn, LoopRows, WithoutStarted
      <3>3. ~StartRefused(t)
        BY <2>1 DEF StartRefused, EntryRows
      <3> QED BY <1>0, <1>3, <2>4, <3>1, <3>2, <3>3, SlotTaken DEF StartFails, TypeOK
    <2> QED BY <2>3, <2>4
  <1> QED BY <1>1, <1>2, <1>3

\* A Stop removes every entry of its thread, and no step brings one back for a
\* turn that met it.
LEMMA ForgottenRowsStep ==
  IInv /\ LoopRows /\ RecordRows /\ EntryRows /\ ForgottenRows /\ [Next]_vars => ForgottenRows'
  <1> DEFINE Row(t) == /\ status'[t] # "none"
                       /\ rec'[t] = "running" => status'[t] \in {"done", "error"}
                       /\ core' \in {"up", "resuming"} /\ t \in Occupied' => status'[t] \in {"done", "error"}
                       /\ Open(t)' /\ t \notin held' =>
                            /\ core' \notin {"up", "resuming"}
                            /\ core' = "recovering" => t \in todo'
                            /\ \A e \in Turns : ~BringsBack(e, t)'
  <1> SUFFICES ASSUME IInv, LoopRows, RecordRows, EntryRows, ForgottenRows, [Next]_vars,
                      NEW t \in Turns, userStop'[t] = "forgotten"
               PROVE  Row(t)
    BY DEF ForgottenRows
  <1>0. TypeOK /\ Home[t] \in Threads /\ {"done", "error"} \subseteq Closed
    BY HomeAssumption DEF IInv, Closed
  <1>1. CASE userStop[t] = "forgotten"
    <2>0. /\ status[t] # "none"
          /\ rec[t] = "running" => status[t] \in {"done", "error"}
          /\ core \in {"up", "resuming"} /\ t \in Occupied => status[t] \in {"done", "error"}
          /\ Open(t) /\ t \notin held =>
               /\ core \notin {"up", "resuming"}
               /\ core = "recovering" => t \in todo
               /\ \A e \in Turns : ~BringsBack(e, t)
      BY <1>1 DEF ForgottenRows
    <2>1. status'[t] # "none"
      BY <2>0, ClosedStays
    <2>2. ASSUME rec'[t] = "running" PROVE status'[t] \in {"done", "error"}
      <3>1. CASE BeginHandoff
        <4>1. core = "up" /\ (Recorded(t) = "running" \/ rec[t] = "running")
          BY <2>2, <3>1 DEF BeginHandoff, FreeUp
        <4>2. Recorded(t) = "running" => t \in Occupied
          BY DEF Recorded
        <4> QED BY <1>0, <2>0, <4>1, <4>2, ClosedStays
      <3>2. CASE ~BeginHandoff
        BY <1>0, <2>0, <2>2, <3>2, RecordGrows, ClosedStays
      <3> QED BY <3>1, <3>2
    <2>3. ASSUME core' \in {"up", "resuming"}, t \in Occupied' PROVE status'[t] \in {"done", "error"}
      <3>1. core \in {"up", "resuming"}
        <4>1. ~Recovered
          BY <2>3, TurnsAssumption DEF Recovered, Occupied, IInv, NothingRuns
        <4> QED BY <2>3, <4>1, CoreRises
      <3>2. t \in Occupied
        <4> SUFFICES ASSUME t \notin Occupied PROVE FALSE
          OBVIOUS
        <4>1. t \in queue /\ ~Waits(t)
          BY <2>3, SlotTaken DEF StartTurn, StartRefused, StartFails, TakeSlot, IInv, QueuedRows
        <4>2. Open(t) /\ t \notin held
          BY <4>1 DEF Waits, Open, IInv, QueuedRows
        <4> QED BY <2>0, <3>1, <4>2
      <3> QED BY <1>0, <2>0, <3>1, <3>2, ClosedStays
    <2>4. ASSUME Open(t)', t \notin held'
          PROVE  /\ core' \notin {"up", "resuming"}
                 /\ core' = "recovering" => t \in todo'
                 /\ \A e \in Turns : ~BringsBack(e, t)'
      <3>1. Open(t)
        BY <2>0, <2>4, ClosedStays
      <3>2. t \notin held
        <4>1. ~ResumeHeld(t)
          BY <1>0 DEF ResumeHeld, TypeOK
        <4> QED BY <2>4, <4>1, HoldsKept
      <3>3. /\ core \notin {"up", "resuming"}
            /\ core = "recovering" => t \in todo
            /\ \A e \in Turns : ~BringsBack(e, t)
        BY <2>0, <3>1, <3>2
      <3>4. core' \notin {"up", "resuming"}
        BY <3>3, CoreRises DEF Recovered
      <3>5. ASSUME core' = "recovering" PROVE t \in todo'
        <4>1. ~RecoverTurn(t)
          <5>1. ~Requeues(t)
            BY <1>0, <3>3, BringsInherited DEF Requeues
          <5>2. RecoverTurn(t) => t \in held' \/ \E s \in Closed : FinishTurn(t, s)
            BY <5>1 DEF RecoverTurn, Closed
          <5>3. ASSUME NEW s \in Closed, FinishTurn(t, s) PROVE FALSE
            BY <1>0, <2>4, <5>3 DEF FinishTurn, Open, Closed, TypeOK
          <5> QED BY <2>4, <5>2, <5>3
        <4> QED BY <3>1, <3>3, <3>5, <4>1, RowsVisited
      <3>6. ASSUME NEW e \in Turns PROVE ~BringsBack(e, t)'
        <4>1. ~BeginHandoff
          BY <3>3 DEF BeginHandoff, FreeUp
        <4>2. rec'[e] \in {rec[e], "no"} /\ origin'[t] = origin[t]
          BY <2>0, <4>1, RecordGrows, AdmittedOnce
        <4> QED BY <3>3, <4>2 DEF BringsBack
      <3> QED BY <3>4, <3>5, <3>6
    <2> QED BY <2>1, <2>2, <2>3, <2>4
  <1>2. CASE userStop[t] # "forgotten"
    <2>1. Stop(Home[t]) /\ rec[t] # "no" /\ (handing \/ ~Open(t))
      <3>1. PICK th \in Threads : Stop(th)
        BY <1>0, <1>2, NewMark
      <3> QED BY <1>2, <3>1 DEF Stop, StopMarks
    <2>2. \A u \in Turns : Home[u] = Home[t] => rec'[u] = "no"
      BY <2>1 DEF Stop, Forget
    <2>3. status'[t] # "none"
      BY <2>1, ClosedStays DEF RecordRows
    <2>4. core' = core /\ Occupied' = Occupied
      BY <2>1 DEF Stop, Occupied
    <2>5. ASSUME core' \in {"up", "resuming"}, t \in Occupied' PROVE status'[t] \in {"done", "error"}
      <3>1. ~Open(t)
        BY <2>1, <2>4, <2>5 DEF LoopRows
      <3> QED BY <1>0, <2>1, <2>4, <2>5, <3>1, ClosedStays DEF EntryRows, Open
    <2>6. Open(t)' => core' \notin {"up", "resuming", "recovering"}
      <3>1. Open(t)' => Open(t)
        BY <2>1, ClosedStays DEF RecordRows
      <3> QED BY <2>1, <2>4, <3>1 DEF LoopRows
    <2>7. \A e \in Turns : ~BringsBack(e, t)'
      <3>1. origin'[t] = origin[t]
        BY <2>1 DEF Stop
      <3>2. \A e \in Turns : origin[t] = e => Home[e] = Home[t]
        BY TurnsAssumption DEF RecordRows
      <3> QED BY <2>2, <3>1, <3>2 DEF BringsBack
    <2> QED BY <2>2, <2>3, <2>5, <2>6, <2>7
  <1> QED BY <1>1, <1>2

\* A turn whose entry the user's Stop removed is never continued, however many
\* cores still carry an entry of its thread.
THEOREM ForgottenStays == Spec => ForgottenStaysStopped
  <1>1. Init => Forgotten
    <2>1. Init => FailedStarts
      BY DEF Init, FailedStarts
    <2>2. Init => EntryRows /\ ForgottenRows
      BY DEF Init, EntryRows, ForgottenRows
    <2> QED BY <2>1, <2>2 DEF Forgotten
  <1>2. IInv /\ Carried /\ Forgotten /\ [Next]_vars => Forgotten'
    BY FailedStartsStep, EntryRowsStep, ForgottenRowsStep DEF Carried, Forgotten
  <1>3. IInv /\ Carried /\ Forgotten /\ [Next]_vars =>
          [\A c \in Turns : origin[c] = NoTurn /\ origin'[c] # NoTurn
             => userStop[origin'[c]] # "forgotten"]_vars
    <2> SUFFICES ASSUME IInv, Carried, Forgotten, [Next]_vars,
                        NEW c \in Turns, origin[c] = NoTurn, origin'[c] # NoTurn
                 PROVE  userStop[origin'[c]] # "forgotten"
      OBVIOUS
    <2>1. origin'[c] \in Turns /\ ContinueEntry(origin'[c])
      BY AdmittedOnce
    <2>2. rec[origin'[c]] = "running" /\ status[origin'[c]] = "stopped"
      BY <2>1 DEF ContinueEntry, CutRunning
    <2> QED BY <2>1, <2>2 DEF Forgotten, ForgottenRows
  <1> QED BY <1>1, <1>2, <1>3, CarriedAlways, PTL DEF Spec, ForgottenStaysStopped
=============================================================================
