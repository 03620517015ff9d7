--------------------------- MODULE ComposerOutbox ---------------------------
(***************************************************************************)
(* The queue of one conversation: prompts typed on several devices, kept   *)
(* in one record of the core, and delivered by the core with no device     *)
(* connected.                                                              *)
(*                                                                         *)
(*   a device (ui, store/composer-sync.svelte.ts) edits a local copy,      *)
(*     puts it under the revision it last saw, and merges what it hears;   *)
(*   composer.put (core, composer.ts) is a compare-and-set on the record;  *)
(*   the pump (composer.ts #pump) takes the head of the queue: it steers   *)
(*     the running turn with it, or starts a turn of its own, and waits    *)
(*     for the agent, or for a model discovery, in between;                *)
(*   what reached an agent is told from what did not by two journals, the  *)
(*     deliveries (by queued input) and the receipts (turn_requests, by    *)
(*     request), read again by the next core.                              *)
(*                                                                         *)
(* A revision is only ever compared for equality, so it is a flag here:    *)
(* the copy is `current' until the record is next saved.  The text box     *)
(* beside the queue, attachments, drafts and private records are left out. *)
(* A device that hears of several saves sees the last one.                 *)
(***************************************************************************)
EXTENDS Naturals, Sequences, FiniteSets, SequencesExt

CONSTANTS
  Devices, Items,
  Author,       \* the device each input is typed on
  Direct,       \* inputs that go out as turns.start before they are queued
  MaxEvents     \* bound: crashes, connections and answers lost, turns of somebody
                \* else, refusals and archivings, together

ASSUME OutboxAssumption ==
  /\ Author \in [Items -> Devices] /\ Direct \subseteq Items
  /\ MaxEvents \in Nat

VARIABLES
  local,     \* a device's copy: the queue it shows
  known,     \* the record it last synced with, and whether it is current
  online,
  start,     \* the turns.start of a direct input
  rec,       \* the record: composer_records
  delivery,  \* composer_deliveries
  receipt,   \* turn_requests
  turn,      \* the conversation's one unfinished turn and the inputs it carries
  archived,
  up,        \* the core runs, and Composer.start is done
  pending, dirty, \* the wake flags of #schedule
  pc,        \* where the pump stands
  captured,  \* #captured: the inputs it is handing over
  took,      \* the agent has taken the steer under way
  boundary,  \* #boundaries: a tool boundary, or Send now, since the queue waits
  left,      \* what remains of the bounds
  handed,    \* history: times an input reached an agent
  gone,      \* history: inputs a user removed; "dropped" once the core agreed
  overtaken  \* history: inputs another was put ahead of while they were handed over

device == <<local, known, online, start>>
journal == <<rec, delivery, receipt, turn, archived>>
memory == <<pending, dirty, pc, captured, took, boundary>>
queueVars == <<device, journal, up, memory, left, handed, gone, overtaken>>

Empty == [queue |-> <<>>, paused |-> FALSE]
Entry(i) == [id |-> i, asked |-> "no", failed |-> FALSE]
Failing(e) == [e EXCEPT !.failed = TRUE, !.asked = IF @ = "no" THEN "again" ELSE @]
Ids(queue) == {queue[k].id : k \in DOMAIN queue}
Shape(value) == IF value.queue = <<>> THEN Empty ELSE value

\* The queue without the inputs of `ids', as `filter' has it: written out for the
\* proofs, which know nothing of SelectSeq.
Without(queue, ids) ==
  LET kept[n \in 0 .. Len(queue)] ==
        IF n = 0 THEN <<>>
        ELSE IF queue[n].id \in ids THEN kept[n - 1] ELSE Append(kept[n - 1], queue[n])
  IN kept[Len(queue)]

Copy(r) == [queue |-> r.queue, paused |-> r.paused, current |-> TRUE]
Value(r) == [queue |-> r.queue, paused |-> r.paused]
Idle == [state |-> "none", carries |-> {}]
Busy == turn.state # "none"

QueueInit ==
  /\ local = [d \in Devices |-> Empty]
  /\ known = [d \in Devices |-> [queue |-> <<>>, paused |-> FALSE, current |-> TRUE]]
  /\ online = [d \in Devices |-> TRUE]
  /\ start = [i \in Items |-> "no"]
  /\ rec = Empty
  /\ delivery = [i \in Items |-> "none"] /\ receipt = [i \in Items |-> "none"]
  /\ turn = Idle /\ archived = FALSE /\ up = TRUE
  /\ pending = FALSE /\ dirty = FALSE /\ pc = "idle" /\ captured = <<>> /\ took = FALSE /\ boundary = FALSE
  /\ left = MaxEvents
  /\ handed = [i \in Items |-> 0]
  /\ gone = [i \in Items |-> "no"] /\ overtaken = {}

Event == left > 0 /\ left' = left - 1

(***************************************************************************)
(* The device.                                                             *)
(***************************************************************************)

\* Mutant: both sides changed, and the core's queue simply wins.
MergeTheirs(mine, base, theirs, strict) ==
  Shape([queue |-> theirs.queue, paused |-> IF mine.paused = base.paused THEN theirs.paused ELSE mine.paused])

\* #merge: both sides changed the queue.  `strict' keeps whatever the core has.
Merge(mine, base, theirs, strict) ==
  LET queue ==
        CASE mine.queue \in {theirs.queue, base.queue} -> theirs.queue
          [] ~strict /\ mine.queue \notin {theirs.queue, base.queue} /\ theirs.queue = base.queue -> mine.queue
          [] OTHER ->
             Without(theirs.queue, IF strict THEN {} ELSE Ids(base.queue) \ Ids(mine.queue))
               \o Without(mine.queue, Ids(theirs.queue) \union Ids(base.queue))
  IN Shape([queue |-> queue, paused |-> IF mine.paused = base.paused THEN theirs.paused ELSE mine.paused])

\* #receive: a copy unchanged since the last sync follows the record.
Receives(d) ==
  /\ local' = [local EXCEPT ![d] =
       IF @ \in {Value(known[d]), rec} THEN rec ELSE Merge(@, known[d], rec, FALSE)]
  /\ known' = [known EXCEPT ![d] = Copy(rec)]

Edits(d, value) ==
  /\ local' = [local EXCEPT ![d] = Shape(value)]
  /\ UNCHANGED <<known, online, journal, up, memory, left, handed, overtaken>>

Untyped(i) == start[i] = "no" /\ gone[i] = "no" /\ handed[i] = 0

Type(i) ==
  /\ Untyped(i) /\ i \notin Direct
  /\ Edits(Author[i], [local[Author[i]] EXCEPT !.queue = Append(@, Entry(i))])
  /\ start' = [start EXCEPT ![i] = "queued"]
  /\ UNCHANGED gone

\* The queue's × on a device that shows the input, whoever typed it.
Removes(d, i) ==
  /\ i \in Ids(local[d].queue)
  /\ Edits(d, [local[d] EXCEPT !.queue = Without(@, {i})])
  /\ gone' = [gone EXCEPT ![i] = IF @ = "no" THEN "removed" ELSE @]
  /\ UNCHANGED start

\* retryQueued: the refused head goes again, and the queue with it (bound: from
\* the device that typed the head).
Retry(d) ==
  /\ local[d].paused /\ Author[local[d].queue[1].id] = d
  /\ Edits(d, [queue |-> [local[d].queue EXCEPT ![1].failed = FALSE], paused |-> FALSE])
  /\ UNCHANGED <<start, gone>>

\* composer.updated; one heard during the device's own put waits for its answer.
Hears(d) ==
  /\ online[d] /\ ~known[d].current
  /\ Receives(d)
  /\ UNCHANGED <<online, start, journal, up, memory, left, handed, gone, overtaken>>

\* The put, or the answer to it, is lost with the connection.
Disconnect(d) ==
  /\ online[d] /\ Event
  /\ online' = [online EXCEPT ![d] = FALSE]
  /\ UNCHANGED <<local, known, start, journal, up, memory, handed, gone, overtaken>>

\* resync lists the records before anything is sent.
Reconnect(d) ==
  /\ ~online[d] /\ up
  /\ online' = [online EXCEPT ![d] = TRUE]
  /\ IF known[d].current THEN UNCHANGED <<local, known>> ELSE Receives(d)
  /\ UNCHANGED <<start, journal, up, memory, left, handed, gone, overtaken>>

(***************************************************************************)
(* The record and the wake flags.                                          *)
(***************************************************************************)

\* ComposerStorage.save: another revision, so every copy and every put under way is behind.
Behind == [d \in Devices |-> [known[d] EXCEPT !.current = FALSE]]

Saves(value) ==
  /\ rec' = Shape(value)
  /\ known' = Behind
  /\ UNCHANGED <<local, online, start>>

\* #schedule, of a conversation whose queue (after this step) is not empty.
Schedule(queue) ==
  LET wakes == queue # <<>> IN
  /\ pending' = (pending \/ (wakes /\ pc = "idle"))
  /\ dirty' = (dirty \/ (wakes /\ pc # "idle"))

\* put re-holds an input whose delivery is unconfirmed, and drops a delivered one.
Kept(value) ==
  LET queue == [k \in DOMAIN value.queue |->
        IF delivery[value.queue[k].id] = "uncertain" THEN Failing(value.queue[k]) ELSE value.queue[k]]
      kept == Without(queue, {i \in Items : delivery[i] = "delivered"})
  IN [queue |-> kept, paused |-> value.paused \/ \E i \in Ids(kept) : delivery[i] = "uncertain"]

\* Mutant: the input being handed over may be taken back.
KeepsNothing(value) == TRUE

\* put refuses a record that drops or changes an input the pump is handing over.
KeepsCaptured(value) == \A k \in DOMAIN captured : captured[k] \in ToSet(value.queue)

\* The put and #flush's end, at once: what a slower put would meet, a put meets
\* that is sent later, or whose device has yet to hear of the last save.  The
\* answer may be lost with the connection.
Put(d, sendNow, lost) ==
  LET put == local[d]
      value == Kept(put)
      dropped == {i \in Ids(rec.queue) \ Ids(put.queue) :
                    gone[i] = "removed" /\ start[i] # "late" /\ i \in Ids(known[Author[i]].queue)} IN
  /\ up /\ online[d] /\ put # Value(known[d])
  /\ IF known[d].current /\ KeepsCaptured(put)
     THEN /\ rec' = Shape(value)
          /\ boundary' = (value.queue # <<>> /\ (boundary \/ sendNow))
          /\ Schedule(value.queue)
          /\ gone' = [i \in Items |-> IF i \in dropped THEN "dropped" ELSE gone[i]]
          /\ overtaken' = overtaken \union (IF captured # <<>> /\ value.queue # <<>> /\ Head(value.queue) # Head(captured)
                                       THEN Ids(captured) ELSE {})
          /\ IF lost THEN known' = Behind /\ UNCHANGED local
             ELSE known' = [Behind EXCEPT ![d] = Copy(rec')] /\ local' = [local EXCEPT ![d] = rec']
     ELSE /\ ~sendNow /\ ~lost
          /\ local' = [local EXCEPT ![d] = Merge(put, known[d], rec, known[d].current)]
          /\ known' = [known EXCEPT ![d] = Copy(rec)]
          /\ UNCHANGED <<rec, boundary, pending, dirty, gone, overtaken>>
  /\ IF lost THEN Event /\ online' = [online EXCEPT ![d] = FALSE] ELSE UNCHANGED <<left, online>>
  /\ UNCHANGED <<start, delivery, receipt, turn, archived, up, pc, captured, took, handed>>

(***************************************************************************)
(* turns.start from the device itself.                                     *)
(***************************************************************************)

Send(i) ==
  /\ Untyped(i) /\ i \in Direct /\ online[Author[i]]
  /\ start' = [start EXCEPT ![i] = "flying"]
  /\ UNCHANGED <<local, known, online, journal, up, memory, left, handed, gone, overtaken>>

\* What joins the queue's head: a request of its own if the core may have it.
Requeued(i, asked) ==
  local' = [local EXCEPT ![Author[i]].queue = <<[Entry(i) EXCEPT !.asked = asked]>> \o @]

Admits(carries) == turn' = [state |-> "queued", carries |-> carries]
Hands(ids) == handed' = [i \in Items |-> IF i \in ids THEN handed[i] + 1 ELSE handed[i]]

\* startTurn answers a request it took before with that turn, and refuses a busy conversation.
HandleStart(i, lost) ==
  LET admitted == receipt[i] = "started" \/ ~Busy IN
  /\ up /\ ~archived /\ start[i] \in {"flying", "late"}
  /\ IF lost THEN start[i] = "flying" /\ Event ELSE UNCHANGED left
  /\ start' = [start EXCEPT ![i] = "answered"]
  /\ IF receipt[i] # "started" /\ ~Busy
     THEN Admits({i}) /\ Hands({i}) /\ receipt' = [receipt EXCEPT ![i] = "started"]
     ELSE UNCHANGED <<turn, handed, receipt>>
  /\ CASE lost                                   -> Requeued(i, "sent")
       [] ~lost /\ start[i] = "flying" /\ ~admitted -> Requeued(i, "no")
       [] OTHER                                  -> UNCHANGED local
  /\ UNCHANGED <<known, online, rec, delivery, archived, up, memory, gone, overtaken>>

\* failDelivery: no answer, and the core may yet read the request.
GivesUp(i) ==
  /\ start[i] = "flying" /\ Event
  /\ start' = [start EXCEPT ![i] = "late"]
  /\ Requeued(i, "sent")
  /\ UNCHANGED <<known, online, journal, up, memory, handed, gone, overtaken>>

(***************************************************************************)
(* The pump.                                                               *)
(***************************************************************************)

Head1 == rec.queue[1]
Plain(e) == e.asked = "no" /\ ~e.failed

\* composerBatch: the head, with the ordinary prompts behind it that share its settings.
Batches == {SubSeq(rec.queue, 1, n) : n \in {m \in 1..Len(rec.queue) : m = 1 \/ \A k \in 1..m : Plain(rec.queue[k])}}

Complete(ids) ==
  /\ delivery' = [i \in Items |-> IF i \in ids THEN "delivered" ELSE delivery[i]]
  /\ Saves([rec EXCEPT !.queue = Without(@, ids)])

\* #hold: the input keeps its reason, and the queue waits for the user.
Held(i) == Saves([queue |-> [k \in DOMAIN rec.queue |->
                              IF rec.queue[k].id = i THEN Failing(rec.queue[k]) ELSE rec.queue[k]],
                  paused |-> TRUE])

Returns == pc' = "done" /\ captured' = <<>>

Looks == up /\ pc = "loop"

\* The microtask, once nothing of the key is running.
Wakes ==
  /\ up /\ pending /\ pc = "idle"
  /\ pending' = FALSE /\ pc' = "loop"
  /\ UNCHANGED <<device, journal, up, dirty, captured, took, boundary, left, handed, gone, overtaken>>

Rests ==
  /\ Looks /\ (rec.queue = <<>> \/ rec.paused)
  /\ Returns
  /\ boundary' = (boundary /\ rec.queue # <<>>)
  /\ UNCHANGED <<device, journal, up, pending, dirty, took, left, handed, gone, overtaken>>

Ready == Looks /\ rec.queue # <<>> /\ ~rec.paused

\* The next core, or the device's own request, delivered the head already.
Known(e) == delivery[e.id] = "delivered" \/ (e.asked = "sent" /\ ~e.failed /\ receipt[e.id] \in {"accepted", "started"})

FindsDelivered ==
  /\ Ready /\ Known(Head1)
  /\ Complete({Head1.id})
  /\ UNCHANGED <<receipt, turn, archived, up, memory, left, handed, gone, overtaken>>

Review(e) == ~Known(e) /\ (delivery[e.id] = "uncertain" \/ e.failed)

Holds ==
  /\ Ready /\ Review(Head1)
  /\ Held(Head1.id) /\ Returns
  /\ UNCHANGED <<delivery, receipt, turn, archived, up, pending, dirty, took, boundary, left, handed, gone, overtaken>>

Goes == Ready /\ ~Known(Head1) /\ ~Review(Head1)

\* A running turn that cannot be steered now: no boundary yet, another agent
\* selection, an agent that takes no input, a card, an input with a request.
Waits ==
  /\ Goes /\ (archived \/ Busy)
  /\ Returns
  /\ UNCHANGED <<device, journal, up, pending, dirty, took, boundary, left, handed, gone, overtaken>>

Refused ==
  /\ Goes /\ ~archived /\ Event
  /\ Held(Head1.id) /\ Returns
  /\ UNCHANGED <<delivery, receipt, turn, archived, up, pending, dirty, took, boundary, handed, gone, overtaken>>

\* Reserved and journaled as pending before the agent hears of it.
Steers(batch) ==
  /\ Goes /\ ~archived /\ turn.state = "running" /\ boundary /\ Plain(Head1)
  /\ delivery' = [i \in Items |-> IF i \in Ids(batch) THEN "submitting" ELSE delivery[i]]
  /\ receipt' = [i \in Items |-> IF i \in Ids(batch) THEN "pending" ELSE receipt[i]]
  /\ captured' = batch /\ pc' = "steer" /\ took' = FALSE
  /\ UNCHANGED <<device, rec, turn, archived, up, pending, dirty, boundary, left, handed, gone, overtaken>>

AgentTakes ==
  /\ up /\ pc = "steer" /\ ~took /\ turn.state = "running"
  /\ took' = TRUE /\ Hands(Ids(captured))
  /\ UNCHANGED <<device, journal, up, pending, dirty, pc, captured, boundary, left, gone, overtaken>>

SteerPublished ==
  /\ up /\ pc = "steer" /\ took
  /\ receipt' = [i \in Items |-> IF i \in Ids(captured) THEN "accepted" ELSE receipt[i]]
  /\ pc' = "steered"
  /\ UNCHANGED <<device, rec, delivery, turn, archived, up, pending, dirty, captured, took, boundary, left, handed, gone, overtaken>>

SteerCompleted ==
  /\ up /\ pc = "steered"
  /\ Complete(Ids(captured))
  /\ captured' = <<>> /\ pc' = "loop"
  /\ UNCHANGED <<receipt, turn, archived, up, pending, dirty, took, boundary, left, handed, gone, overtaken>>

\* The agent said no: the receipt and the reservation go, and the input waits.
SteerDeclined ==
  /\ up /\ pc = "steer" /\ ~took
  /\ receipt' = [i \in Items |-> IF i \in Ids(captured) THEN "none" ELSE receipt[i]]
  /\ delivery' = [i \in Items |-> IF i \in Ids(captured) THEN "none" ELSE delivery[i]]
  /\ Returns
  /\ UNCHANGED <<device, rec, turn, archived, up, pending, dirty, took, boundary, left, handed, gone, overtaken>>

\* The call failed, whether the agent took the input or not.
SteerFailed ==
  /\ up /\ pc = "steer"
  /\ delivery' = [i \in Items |-> IF i \in Ids(captured) THEN "uncertain" ELSE delivery[i]]
  /\ Held(captured[1].id) /\ Returns
  /\ UNCHANGED <<receipt, turn, archived, up, pending, dirty, took, boundary, left, handed, gone, overtaken>>

\* An idle conversation: the selection's models may have to be read first.
Discovers(batch) ==
  /\ Goes /\ ~archived /\ ~Busy
  /\ boundary' = FALSE /\ captured' = batch /\ pc' = "discover"
  /\ UNCHANGED <<device, journal, up, pending, dirty, took, left, handed, gone, overtaken>>

\* Checked again after the awaits, then one transaction: reservation, turn and queue.
Starts ==
  /\ up /\ pc = "discover" /\ ~archived
  /\ LET ids == Ids(captured)
         before == receipt[captured[1].id] = "started" IN
     /\ before \/ ~Busy
     /\ Complete(ids)
     /\ IF before THEN UNCHANGED <<receipt, turn, handed>>
        ELSE /\ receipt' = [i \in Items |-> IF i \in ids THEN "started" ELSE receipt[i]]
             /\ Admits(ids) /\ Hands(ids)
  /\ captured' = <<>> /\ pc' = "loop"
  /\ UNCHANGED <<archived, up, pending, dirty, took, boundary, left, gone, overtaken>>

FindsArchived ==
  /\ up /\ pc = "discover" /\ archived
  /\ Returns
  /\ UNCHANGED <<device, journal, up, pending, dirty, took, boundary, left, handed, gone, overtaken>>

\* startTurn throws: somebody's turn came first, or the folder is missing.
StartRefused ==
  /\ up /\ pc = "discover" /\ ~archived
  /\ \/ Busy /\ receipt[captured[1].id] # "started" /\ UNCHANGED left
     \/ Event
  /\ Held(captured[1].id) /\ Returns
  /\ UNCHANGED <<delivery, receipt, turn, archived, up, pending, dirty, took, boundary, handed, gone, overtaken>>

\* Mutant: the wakes that came while the task ran are forgotten.
EndsAsleep ==
  /\ up /\ pc = "done"
  /\ pc' = "idle" /\ dirty' = FALSE
  /\ UNCHANGED <<device, journal, up, pending, captured, took, boundary, left, handed, gone, overtaken>>

\* The task's own `finally': the wakes it slept through run now.
Ends ==
  /\ up /\ pc = "done"
  /\ pc' = "idle" /\ dirty' = FALSE
  /\ pending' = (pending \/ (dirty /\ rec.queue # <<>>))
  /\ UNCHANGED <<device, journal, up, captured, took, boundary, left, handed, gone, overtaken>>

(***************************************************************************)
(* The conversation around the pump.                                       *)
(***************************************************************************)

Same == UNCHANGED <<device, rec, delivery, receipt, up, pc, captured, took, handed, gone, overtaken>>

OtherStarts ==
  /\ up /\ ~archived /\ ~Busy /\ Event
  /\ Admits({})
  /\ UNCHANGED <<archived, pending, dirty, boundary>> /\ Same

TurnRuns ==
  /\ up /\ turn.state = "queued"
  /\ turn' = [turn EXCEPT !.state = "running"]
  /\ UNCHANGED <<archived, pending, dirty, boundary, left>> /\ Same

\* turn.finished
TurnEnds ==
  /\ up /\ turn.state = "running"
  /\ turn' = Idle
  /\ Schedule(rec.queue)
  /\ UNCHANGED <<archived, boundary, left>> /\ Same

\* turn.toolCompleted
ToolCompleted ==
  /\ up /\ turn.state = "running" /\ rec.queue # <<>>
  /\ boundary' = TRUE
  /\ Schedule(rec.queue)
  /\ UNCHANGED <<turn, archived, left>> /\ Same

\* Archiving a conversation that runs stops its turn first (TurnLifecycle).
Archive ==
  /\ up /\ ~Busy /\ Event
  /\ archived' = ~archived
  /\ Schedule(rec.queue)
  /\ UNCHANGED <<turn, boundary>> /\ Same

\* turns.recover of a turn the restart held: resumed or discarded.
UserRecovers ==
  /\ up /\ turn.state = "held"
  /\ turn' \in {Idle, [turn EXCEPT !.state = "queued"]}
  /\ Schedule(rec.queue)
  /\ UNCHANGED <<archived, boundary, left>> /\ Same

\* Recovery holds a turn that never started and closes one that ran; the
\* connections die with the core.
Crash ==
  /\ up /\ Event
  /\ up' = FALSE
  /\ turn' = CASE turn.state = "queued"  -> [turn EXCEPT !.state = "held"]
               [] turn.state = "running" -> Idle
               [] OTHER                  -> turn
  /\ pending' = FALSE /\ dirty' = FALSE /\ pc' = "idle" /\ captured' = <<>> /\ took' = FALSE /\ boundary' = FALSE
  /\ online' = [d \in Devices |-> FALSE]
  /\ UNCHANGED <<local, known, start, rec, delivery, receipt, archived, handed, gone, overtaken>>

\* Mutant: a submission no receipt confirms is taken for one that never left.
SettledBlindly(i) ==
  IF delivery[i] # "submitting" THEN delivery[i]
  ELSE IF receipt[i] \in {"none", "pending"} THEN "none" ELSE "delivered"

\* Composer.start: the journals tell which submissions arrived, and a held turn
\* the queue had delivered goes on by itself.
Settled(i) ==
  IF delivery[i] # "submitting" THEN delivery[i]
  ELSE CASE receipt[i] = "none"    -> "none"
         [] receipt[i] = "pending" -> "uncertain"
         [] OTHER                  -> "delivered"

StartUp ==
  /\ ~up /\ up' = TRUE
  /\ delivery' = [i \in Items |-> Settled(i)]
  /\ turn' = IF turn.state = "held" /\ ~archived /\ \E i \in turn.carries : delivery[i] = "delivered"
             THEN [turn EXCEPT !.state = "queued"] ELSE turn
  /\ pending' = (rec.queue # <<>>)
  /\ UNCHANGED <<device, rec, receipt, archived, dirty, pc, captured, took, boundary, left, handed, gone, overtaken>>

(***************************************************************************)
(* The specification.  The core's own work is fair, and so is an agent's   *)
(* turn; what users, devices and connections do is not.                    *)
(***************************************************************************)

Ui == \/ \E i \in Items : Type(i) \/ Send(i) \/ GivesUp(i)
      \/ \E d \in Devices, i \in Items : Removes(d, i)
      \/ \E d \in Devices : Retry(d) \/ Hears(d) \/ Disconnect(d) \/ Reconnect(d)

Rpc == \/ \E d \in Devices, sendNow, lost \in BOOLEAN : Put(d, sendNow, lost)
       \/ \E i \in Items, lost \in BOOLEAN : HandleStart(i, lost)

Pump == \/ Wakes \/ Rests \/ FindsDelivered \/ Holds \/ Waits
        \/ \E batch \in Batches : Steers(batch) \/ Discovers(batch)
        \/ SteerPublished \/ SteerCompleted \/ SteerDeclined \/ SteerFailed
        \/ Starts \/ FindsArchived \/ StartRefused \/ Ends

Turns == TurnRuns \/ TurnEnds

QueueNext == \/ Ui \/ Rpc \/ Pump \/ Refused \/ AgentTakes
        \/ Turns \/ OtherStarts \/ ToolCompleted \/ Archive \/ UserRecovers
        \/ Crash \/ StartUp

QueueFairness == WF_queueVars(Pump) /\ WF_queueVars(TurnRuns) /\ WF_queueVars(TurnEnds) /\ WF_queueVars(StartUp)

QueueSpec == QueueInit /\ [][QueueNext]_queueVars /\ QueueFairness

(***************************************************************************)
(* Properties.                                                             *)
(***************************************************************************)

Entries == [id : Items, asked : {"no", "again", "sent"}, failed : BOOLEAN]
Queues == Seq(Entries)
Copied == [queue : Queues, paused : BOOLEAN]
Synced == [queue : Queues, paused : BOOLEAN, current : BOOLEAN]

\* Every copy, the record and the journals hold what the code may write in them.
QueueTypeOK ==
  /\ local \in [Devices -> Copied]
  /\ known \in [Devices -> Synced]
  /\ online \in [Devices -> BOOLEAN]
  /\ start \in [Items -> {"no", "queued", "flying", "answered", "late"}]
  /\ rec \in Copied
  /\ delivery \in [Items -> {"none", "submitting", "uncertain", "delivered"}]
  /\ receipt \in [Items -> {"none", "pending", "accepted", "started"}]
  /\ turn \in [state : {"none", "queued", "running", "held"}, carries : SUBSET Items]
  /\ archived \in BOOLEAN /\ up \in BOOLEAN
  /\ pending \in BOOLEAN /\ dirty \in BOOLEAN
  /\ pc \in {"idle", "loop", "done", "discover", "steer", "steered"}
  /\ captured \in Queues /\ took \in BOOLEAN /\ boundary \in BOOLEAN
  /\ left \in Nat
  /\ handed \in [Items -> Nat]
  /\ gone \in [Items -> {"no", "removed", "dropped"}]
  /\ overtaken \in SUBSET Items

\* Whatever is put again after a lost answer, a restart or an edit on another
\* device, an input reaches an agent at most once.
HandedOnce == \A i \in Items \ overtaken : handed[i] <= 1

\* An input typed on a device, and removed by nobody, is shown by that device,
\* or waits in the core's queue, or has reached an agent; a turns.start still
\* out is the device's own.
NothingIsLost == \A i \in Items :
  start[i] \notin {"no", "flying"} /\ gone[i] = "no" =>
    i \in Ids(local[Author[i]].queue) \/ i \in Ids(rec.queue) \/ handed[i] > 0

\* Once the core agreed to drop an input its author's device knew to be queued,
\* no agent ever gets it.
DroppedStaysOut == [][\A i \in Items : gone[i] = "dropped" => handed'[i] = handed[i]]_queueVars

\* docs/machines.md: unconfirmed delivery is never retried automatically, and
\* nothing a device puts changes that.
UncertainStaysHeld == [][\A i \in Items :
  delivery[i] = "uncertain" => delivery'[i] = "uncertain" /\ handed'[i] = handed[i]]_queueVars

\* The same of an input nothing was put ahead of while it was handed over.
ReviewedFirst == [][\A i \in Items \ overtaken :
  delivery[i] = "uncertain" => delivery'[i] = "uncertain" /\ handed'[i] = handed[i]]_queueVars

\* No wake is missed: a queue that may go empties in the end, or waits for the
\* user, whatever the devices do meanwhile.
QueueMoves ==
  (up /\ rec.queue # <<>> /\ ~rec.paused) ~> (rec.queue = <<>> \/ rec.paused \/ archived \/ turn.state = "held")
=============================================================================
