---------------------------- MODULE AgentLetters ----------------------------
(***************************************************************************)
(* Letters between two agents on two machines (coordination.ts,            *)
(* coordination-peer.ts, coordination-wire.ts).                            *)
(*                                                                         *)
(* The sender's core keeps its copy of a letter and asks the other core    *)
(* about it, every two seconds, over exchanges that may be lost, doubled   *)
(* or answered late.  The recipient's core keeps the copy that counts and  *)
(* brings it to the agent along one of four ways: the output of a command  *)
(* that waits, a tool boundary, a steer of the running turn, or a turn     *)
(* opened for it.  A status `uncertain' is told apart by its error text,   *)
(* which says what the letter waits for; the copy of the sender repeats    *)
(* both.                                                                   *)
(*                                                                         *)
(* One step is what its core does without waiting.                         *)
(***************************************************************************)
EXTENDS Naturals, FiniteSets

CONSTANTS
  Requests,  \* requestIds of the sending agent
  Acts,      \* what may happen besides the delivery itself
  MaxCalls,  \* bound: calls of collaboration.send with the same requestId
  MaxEvents  \* bound: members of Acts that happen

AllActs == {"again", "sender", "recipient", "stop", "message", "decline", "fault", "senderDies", "recipientDies"}

ASSUME LettersAssumption ==
  /\ Acts \subseteq AllActs
  /\ MaxCalls \in Nat \ {0} /\ MaxEvents \in Nat

VARIABLES
  out,     \* sender: coordination_letters, direction out
  noted,   \* sender: those whose error says the machine is unreachable
  calls,   \* sender: calls past their first look at the letters
  perm,    \* sender: on, off, or `local': its project only
  hold,    \* sender: no, or who paused it
  exch,    \* sender: the exchange under way of each letter
  wire,    \* deliver requests a copy of which may still reach the recipient
  late,    \* letters past expiresAt
  in,      \* recipient: coordination_letters, direction in
  open,    \* recipient: its letters may come from another machine
  pause,   \* recipient: no, or who paused it
  waiter,  \* recipient: an agent is blocked in collaboration.wait
  steer,   \* recipient: a steer is out (#delivering)
  status,  \* recipient's thread: its status
  queued,  \* recipient's thread: its queued turns
  run,     \* recipient's thread: its turn in the scheduler's slot
  tail,    \* recipient's thread: how the turn whose runner still ends went
  seen,    \* history: times a letter was put before the agent
  events   \* what remains of MaxEvents

mail == <<out, noted, calls>>
rules == <<perm, hold>>
net == <<exch, wire, late>>
box == <<in, waiter, steer, seen>>
gate == <<open, pause>>
thread == <<status, queued, run, tail>>
vars == <<mail, rules, net, box, gate, thread, events>>

\* A call that finds no letter makes one: with the second look it makes at
\* most one for its request.
Letters == Requests \X (1..MaxCalls)

Settled == {"delivered", "expired", "rejected"}
\* uncertain: Queued for provider delivery, Awaiting provider turn, Awaiting
\* provider acknowledgement, and one of these nobody will settle any more.
Uncertain == {"wake", "turn", "steer", "adrift"}
InStatus == {"none", "received"} \union Uncertain \union Settled
OutStatus == InStatus \union {"queued"}
Idle == [was |-> "none", noted |-> FALSE, reply |-> "none"]
Ran == {"user", "wake", "read"}

TypeOK ==
  /\ out \in [Letters -> OutStatus] /\ noted \subseteq Letters
  /\ calls \in [Requests -> 0..MaxCalls]
  /\ perm \in {"on", "off", "local"} /\ hold \in {"no", "owner", "restart"}
  /\ exch \in [Letters -> [was : OutStatus, noted : BOOLEAN, reply : InStatus \union {"refused"}]]
  /\ wire \subseteq Letters /\ late \subseteq Letters
  /\ in \in [Letters -> InStatus]
  /\ open \in BOOLEAN /\ pause \in {"no", "owner", "stop", "restart", "failure"}
  /\ waiter \in BOOLEAN /\ steer \in BOOLEAN
  /\ status \in {"idle", "queued", "running"}
  /\ queued \subseteq {"wake", "user", "held"}
  /\ run \in Ran \union {"none", "claimed"} /\ tail \in {"none", "over", "stopped"}
  /\ seen \in [Letters -> 0..2] /\ events \in 0..MaxEvents

Init ==
  /\ out = [l \in Letters |-> "none"] /\ noted = {} /\ calls = [q \in Requests |-> 0]
  /\ perm = "on" /\ hold = "no"
  /\ exch = [l \in Letters |-> Idle] /\ wire = {} /\ late = {}
  /\ in = [l \in Letters |-> "none"]
  /\ open = TRUE /\ pause = "no" /\ waiter = FALSE /\ steer = FALSE
  /\ status = "idle" /\ queued = {} /\ run = "none" /\ tail = "none"
  /\ seen = [l \in Letters |-> 0] /\ events = MaxEvents

Happens(act) == act \in Acts /\ events > 0 /\ events' = events - 1

\* A core does one thing at a time: nothing comes between a wake's claim and
\* the commit that starts its turn, except its death.
Free == run # "claimed"

Of(st) == {l \in Letters : in[l] \in st}
Put(f, L, st) == [l \in Letters |-> IF l \in L THEN st ELSE f[l]]
Shown(L) == [l \in Letters |-> IF l \in L THEN seen[l] + 1 ELSE seen[l]]

-----------------------------------------------------------------------------
(***************************************************************************)
(* The sender.                                                             *)
(***************************************************************************)
Made(q) == {l \in Letters : l[1] = q /\ out[l] # "none"}

\* send, up to its first await: the request is known, or the call goes on.  A
\* command whose first call still waits may be given again.
Ask(q) ==
  /\ calls[q] < MaxCalls /\ Made(q) = {}
  /\ IF calls[q] = 0 THEN UNCHANGED events ELSE Happens("again")
  /\ perm = "on" /\ hold = "no"
  /\ calls' = [calls EXCEPT ![q] = @ + 1]
  /\ UNCHANGED <<out, noted, rules, net, box, gate, thread>>

\* Faulty form of WritesOnce: the letters are not looked at again.
WritesUnchecked(q) == perm = "on" /\ hold = "no"

\* The rest of send: refused, answered with the letter another call made
\* meanwhile, or a letter of its own.
WritesOnce(q) == perm = "on" /\ hold = "no" /\ Made(q) = {}

Write(q) ==
  /\ calls[q] > 0
  /\ calls' = [calls EXCEPT ![q] = @ - 1]
  /\ out' = IF WritesOnce(q)
            THEN [out EXCEPT ![<<q, Cardinality(Made(q)) + 1>>] = "queued"] ELSE out
  /\ UNCHANGED <<noted, rules, net, box, gate, thread, events>>

Pending == {"queued", "received"}

\* configure, on the sender's thread.
ConfigureSender(p, held) ==
  /\ Happens("sender")
  /\ <<p, held>> # <<perm, hold>>
  /\ perm' = p /\ hold' = held
  /\ out' = IF p = "on" THEN out
            ELSE Put(out, {l \in Letters : out[l] \in Pending}, "rejected")
  /\ noted' = IF p = "on" THEN noted ELSE noted \ {l \in Letters : out[l] \in Pending}
  /\ UNCHANGED <<calls, net, box, gate, thread>>

\* The sender's user writes to it, or another agent does: a restart's pause ends.
SenderResumes ==
  /\ Happens("sender")
  /\ hold = "restart" /\ hold' = "no"
  /\ UNCHANGED <<mail, perm, net, box, gate, thread>>

\* The sender's core dies and starts again: what it waited for is forgotten,
\* and a thread with mail pending, or a turn, is paused.
SenderDies ==
  /\ Happens("senderDies")
  /\ calls' = [q \in Requests |-> 0]
  /\ exch' = [l \in Letters |-> Idle]
  /\ LET waits == \E l \in Letters : out[l] \in Pending \/ (out[l] = "wake" /\ l \notin noted)
     IN  hold' \in IF hold # "no" \/ perm = "off" THEN {hold}
                   ELSE IF waits THEN {"restart"} ELSE {"no", "restart"}
  /\ UNCHANGED <<out, noted, perm, wire, late, box, gate, thread>>

\* Faulty form of Outgoing: what became of an uncertain letter is not asked.
OutgoingWaiting == {l \in Letters : out[l] \in Pending /\ l \notin late}

Outgoing == {l \in Letters : out[l] \in Pending \union Uncertain /\ l \notin late}

Asked == {l \in Outgoing : perm = "on" /\ ~(hold # "no" /\ out[l] = "queued")}

\* #work: the sweep, then an exchange for each letter not settled.  One runs
\* at a time (#ticking).
Tick ==
  /\ \A l \in Letters : exch[l] = Idle
  /\ LET gone == {l \in Letters : out[l] \in Pending /\ l \in late}
         barred == IF perm = "on" THEN {} ELSE Outgoing
     IN  /\ gone \union barred \union Asked # {}
         /\ out' = Put(Put(out, gone, "expired"), barred, "rejected")
         /\ noted' = noted \ (gone \union barred)
  /\ exch' = [l \in Letters |-> IF l \in Asked
                THEN [was |-> out[l], noted |-> l \in noted, reply |-> "none"] ELSE Idle]
  /\ wire' = wire \union {l \in Asked : out[l] = "queued"}
  /\ UNCHANGED <<calls, rules, late, box, gate, thread, events>>

Under(l) == exch[l] # Idle
Waits(l) == Under(l) /\ exch[l].reply = "none"

\* What #relay makes of an answer: permissions first, then the other core's
\* word, written unless the letter already said so when it was asked.
Hear(l) ==
  /\ Under(l) /\ exch[l].reply # "none"
  /\ LET e == exch[l]
         news == e.reply # e.was \/ e.noted
         st == IF perm = "local" \/ e.reply = "refused" THEN "rejected"
               ELSE IF news THEN e.reply ELSE out[l]
     IN  /\ out' = [out EXCEPT ![l] = st]
         /\ noted' = IF st = "rejected" \/ news THEN noted \ {l} ELSE noted
  /\ exch' = [exch EXCEPT ![l] = Idle]
  /\ UNCHANGED <<calls, rules, wire, late, box, gate, thread, events>>

\* No answer came: the letter keeps the status it was asked with, written once.
Fail(l) ==
  /\ Under(l)
  /\ out' = IF exch[l].noted THEN out ELSE [out EXCEPT ![l] = exch[l].was]
  /\ noted' = noted \union {l}
  /\ exch' = [exch EXCEPT ![l] = Idle]
  /\ UNCHANGED <<calls, rules, wire, late, box, gate, thread, events>>

\* Fifteen minutes pass.
Late(l) ==
  /\ out[l] # "none" /\ l \notin late
  /\ late' = late \union {l}
  /\ UNCHANGED <<mail, rules, exch, wire, box, gate, thread, events>>

-----------------------------------------------------------------------------
(***************************************************************************)
(* The recipient's core: what may reach the agent, and when.               *)
(***************************************************************************)
Allowed == open /\ pause = "no"

\* #ready: received, not expired, permitted (#mayReceive).
Ready == {l \in Of({"received"}) : l \notin late /\ Allowed}

\* resumeForUser, and its use by #resumeForAgent: the owner's pause stays.
AfterUser == IF pause = "owner" THEN "owner" ELSE "no"
AfterLetter == IF pause \in {"restart", "failure"} THEN "no" ELSE pause
\* pause('stop').
AfterStop == IF ~open \/ pause = "owner" THEN pause ELSE "stop"

\* Faulty form of BackInBox: the letters stay marked as queued for the provider.
LeftWithWake(box0) == box0

\* queuedCancelled.
BackInBox(box0) == [l \in Letters |-> IF box0[l] = "wake" THEN "received" ELSE box0[l]]

\* Status of the thread once a turn of it closes (finishTurn).
Rest(q) == IF q = {} THEN "idle" ELSE status

\* markQueuedStopped, on the wake.
CancelWake ==
  /\ queued' = queued \ {"wake"} /\ status' = Rest(queued')

\* stopQueuedCoordination: with a wake queued, scheduler.stop, which looks at
\* the slot first and leaves the queue alone while a runner still ends there.
StopsWake == "wake" \in queued /\ run = "none" /\ tail = "none"

\* acceptLetter, #receive: a letter is kept once by its id.
Known(l) == in[l] # "none"

\* #receive of a letter never seen: kept, then to a command that waits for it.
Accept(l) ==
  /\ pause' = AfterLetter
  /\ LET arrived == [in EXCEPT ![l] = "received"]
         claims == {k \in Letters : arrived[k] = "received" /\ k \notin late /\ pause' = "no"}
     IN  IF waiter /\ claims # {}
         THEN /\ in' = Put(arrived, claims, "delivered") /\ seen' = Shown(claims)
              /\ waiter' = FALSE
         ELSE in' = arrived /\ UNCHANGED <<seen, waiter>>

\* What the sender reads of a request: lost, or the first answer it takes.
Replies(l, r) == exch' \in {exch} \union
  (IF Waits(l) THEN {[exch EXCEPT ![l].reply = r]} ELSE {})

\* A deliver request reaches the recipient.  Other copies of it, sent to
\* other addresses of the machine, may still come.
Deliver(l) ==
  /\ Free /\ l \in wire
  /\ wire' \in {wire, wire \ {l}}
  /\ IF open /\ (Known(l) \/ l \notin late)
     THEN /\ IF Known(l) THEN UNCHANGED <<in, seen, waiter, pause>> ELSE Accept(l)
          /\ Replies(l, in'[l])
     ELSE /\ Replies(l, "refused")
          /\ UNCHANGED <<in, seen, waiter, pause>>
  /\ <<in, exch, wire>>' # <<in, exch, wire>>
  /\ UNCHANGED <<mail, rules, late, steer, open, thread, events>>

\* receipt, and its answer.
Receipt(l) ==
  /\ Free /\ Waits(l) /\ exch[l].was # "queued"
  /\ exch' = [exch EXCEPT ![l].reply = IF in[l] = "none" THEN "refused" ELSE in[l]]
  /\ UNCHANGED <<mail, rules, wire, late, box, gate, thread, events>>

\* A hook pulls a batch at a tool boundary.
Take ==
  /\ Free /\ run \in Ran /\ ~steer /\ Ready # {}
  /\ in' = Put(in, Ready, "delivered") /\ seen' = Shown(Ready)
  /\ UNCHANGED <<mail, rules, net, waiter, steer, gate, thread, events>>

\* wait: the agent claims what is there, or stays blocked.
Wait ==
  /\ Free /\ run \in Ran
  /\ IF Ready # {} THEN in' = Put(in, Ready, "delivered") /\ seen' = Shown(Ready) /\ UNCHANGED waiter
                   ELSE ~waiter /\ waiter' = TRUE /\ UNCHANGED <<in, seen>>
  /\ UNCHANGED <<mail, rules, net, steer, gate, thread, events>>

\* Its time is up, or its command is gone.
WaitEnds ==
  /\ Free /\ waiter
  /\ waiter' = FALSE
  /\ UNCHANGED <<mail, rules, net, in, steer, seen, gate, thread, events>>

\* deliver, a turn running: the batch goes out as a steer.
Steer ==
  /\ Free /\ ~steer /\ status = "running" /\ run \in Ran /\ Ready # {}
  /\ in' = Put(in, Ready, "steer") /\ steer' = TRUE
  /\ UNCHANGED <<mail, rules, net, waiter, seen, gate, thread, events>>

\* The driver took it, would not, or failed without a word on what it did.
Steered(answer) ==
  /\ Free /\ steer
  /\ LET batch == Of({"steer"})
     IN  \/ /\ answer = "taken" /\ seen' = Shown(batch)
            /\ in' = Put(in, batch, "delivered") /\ UNCHANGED events
         \/ /\ answer = "declined" /\ Happens("decline")
            /\ in' = Put(in, batch, "received") /\ UNCHANGED seen
         \/ /\ answer = "failed" /\ seen' \in {seen, Shown(batch)}
            /\ in' = Put(in, batch, "adrift") /\ UNCHANGED events
  /\ steer' = FALSE
  /\ UNCHANGED <<mail, rules, net, waiter, gate, thread>>

\* deliver, nothing running or queued: one commit marks the letters and queues
\* the turn.
Wake ==
  /\ Free /\ ~steer /\ status = "idle" /\ Ready # {}
  /\ in' = Put(in, Ready, "wake")
  /\ queued' = queued \union {"wake"} /\ status' = "queued"
  /\ UNCHANGED <<mail, rules, net, waiter, steer, seen, gate, run, tail, events>>

\* The turn was refused: its letters stay, under a pause.
WakeFaults ==
  /\ Free /\ ~steer /\ status = "idle" /\ Ready # {}
  /\ Happens("fault")
  /\ pause' = "failure"
  /\ UNCHANGED <<mail, rules, net, box, open, thread>>

\* Faulty form of MayCross: permission and pause are not looked at again.
MayCrossUnasked == Of({"wake"}) # {} /\ Of({"wake"}) \cap late = {}

\* prepareWake: the whole batch crosses, or none of it.
MayCross == LET batch == Of({"wake"}) IN batch # {} /\ batch \cap late = {} /\ Allowed

Slot == run = "none" /\ tail = "none"

PrepareWake ==
  /\ Slot /\ "wake" \in queued
  /\ IF MayCross
     THEN /\ in' = Put(in, Of({"wake"}), "turn") /\ run' = "claimed"
          /\ queued' = queued \ {"wake"} /\ UNCHANGED <<status, tail>>
     ELSE CancelWake /\ in' = BackInBox(in) /\ UNCHANGED <<run, tail>>
  /\ UNCHANGED <<mail, rules, net, waiter, steer, seen, gate, events>>

\* The commit that starts the turn.
StartWake ==
  /\ run = "claimed"
  /\ run' = "wake" /\ status' = "running"
  /\ UNCHANGED <<mail, rules, net, box, gate, queued, tail, events>>

StartUser ==
  /\ Slot /\ "wake" \notin queued /\ "user" \in queued
  /\ run' = "user" /\ queued' = queued \ {"user"} /\ status' = "running"
  /\ UNCHANGED <<mail, rules, net, box, gate, tail, events>>

\* The provider has the wake's prompt.
Prompted ==
  /\ run = "wake" /\ run' = "read"
  /\ seen' = Shown(Of({"turn"}))
  /\ UNCHANGED <<mail, rules, net, in, waiter, steer, gate, status, queued, tail, events>>

\* Faulty form of Gave: the outcome of the turn is not looked at.
GaveAnyway(result) == TRUE

\* A wake's turn that is done was read (submitted); any other tells nothing.
Gave(result) == result = "done" /\ run = "read"

\* The turn's attempts end, its letters are settled if it is done, its row
\* closes.  A turn queued meanwhile keeps the thread.
EndTurn(result) ==
  /\ run \in Ran /\ (result = "done" => run # "wake")
  /\ in' = Put(in, Of({"turn"}), IF Gave(result) THEN "delivered" ELSE "adrift")
  /\ run' = "none" /\ status' = Rest(queued)
  /\ tail' = IF result = "stopped" /\ queued = {} THEN "stopped" ELSE "over"
  /\ UNCHANGED <<mail, rules, net, waiter, steer, seen, gate, queued, events>>

\* The runner's last steps: a stopped turn pauses, then the slot is free.
Leave ==
  /\ tail # "none" /\ tail' = "none"
  /\ pause' = IF tail = "stopped" THEN AfterStop ELSE pause
  /\ UNCHANGED <<mail, rules, net, box, open, status, queued, run, events>>

\* The sweep of the recipient.
Expire ==
  /\ Free /\ Of({"received"}) \cap late # {}
  /\ in' = Put(in, Of({"received"}) \cap late, "expired")
  /\ UNCHANGED <<mail, rules, net, waiter, steer, seen, gate, thread, events>>

\* configure, on the recipient's thread: the wake goes first, then the mail.
ConfigureRecipient(o, held) ==
  /\ Free /\ Happens("recipient")
  /\ open' = o /\ pause' = IF held THEN "owner" ELSE "no"
  /\ <<open', pause'>> # <<open, pause>>
  /\ LET stops == (held \/ ~o) /\ StopsWake
         kept == IF stops THEN BackInBox(in) ELSE in
     IN  /\ in' = IF o THEN kept
                  ELSE Put(kept, {l \in Letters : kept[l] = "received"}, "rejected")
         /\ IF stops THEN CancelWake ELSE UNCHANGED <<queued, status>>
  /\ UNCHANGED <<mail, rules, net, waiter, steer, seen, run, tail>>

\* stopTurn.  The turn in the slot ends in its own time; else the first of the
\* queue goes.
Stop ==
  /\ Free /\ Happens("stop")
  /\ pause' = AfterStop
  /\ IF Slot /\ queued # {}
     THEN /\ queued' = IF "wake" \in queued THEN queued \ {"wake"} ELSE {}
          /\ status' = Rest(queued')
          /\ in' = IF "wake" \in queued THEN BackInBox(in) ELSE in
     ELSE UNCHANGED <<queued, status, in>>
  /\ UNCHANGED <<mail, rules, net, waiter, steer, seen, open, run, tail>>

\* The user writes.
Message ==
  /\ Free /\ "user" \notin queued /\ Happens("message")
  /\ pause' = AfterUser
  /\ queued' = queued \union {"user"} /\ status' = "queued"
  /\ UNCHANGED <<mail, rules, net, box, open, run, tail>>

\* The user resumes the prompt a restart held.
ResumeHeld ==
  /\ Free /\ "held" \in queued
  /\ queued' = (queued \ {"held"}) \union {"user"} /\ status' = "queued"
  /\ UNCHANGED <<mail, rules, net, box, gate, run, tail, events>>

\* The recipient's core dies and starts again: a wake that never ran puts its
\* letters back, one that ran leaves them unsettled, and a thread with mail
\* or a turn pending is paused.
RecipientDies ==
  /\ Happens("recipientDies")
  /\ LET ran == run \in Ran
         active == status # "idle"
         waits == Of({"received", "wake"}) # {}
     IN  /\ in' = [l \in Letters |->
                    CASE in[l] = "wake" -> "received"
                      [] in[l] = "turn" -> IF ran THEN "adrift" ELSE "received"
                      [] in[l] = "steer" -> "adrift"
                      [] OTHER -> in[l]]
         /\ pause' = IF open /\ pause = "no" /\ (active \/ waits) THEN "restart" ELSE pause
  /\ seen' \in {seen, Shown(Of({"steer"}))}
  /\ queued' = IF queued \cap {"user", "held"} = {} THEN {} ELSE {"held"}
  /\ status' = IF queued' = {} THEN "idle" ELSE "queued"
  /\ run' = "none" /\ tail' = "none" /\ waiter' = FALSE /\ steer' = FALSE
  /\ UNCHANGED <<mail, rules, net, open>>

-----------------------------------------------------------------------------
Sender ==
  \/ \E q \in Requests : Ask(q) \/ Write(q)
  \/ \E p \in {"on", "off", "local"}, h \in {"no", "owner"} : ConfigureSender(p, h)
  \/ SenderResumes \/ SenderDies
  \/ \E l \in Letters : Late(l)

\* What the two cores and the driver do by themselves, once they can.
Relay == Tick \/ \E l \in Letters : Fail(l) \/ Hear(l)
Desk == \E l \in Letters : Deliver(l) \/ Receipt(l)
Own ==
  \/ \E answer \in {"taken", "declined", "failed"} : Steered(answer)
  \/ Wake \/ PrepareWake \/ StartWake \/ StartUser
  \/ \E result \in {"done", "error", "stopped"} : EndTurn(result)
  \/ Leave \/ Expire

Agent == Take \/ Wait \/ WaitEnds \/ Steer \/ Prompted \/ WakeFaults
Owner ==
  \/ \E o, held \in BOOLEAN : ConfigureRecipient(o, held)
  \/ Stop \/ Message \/ ResumeHeld \/ RecipientDies

Next == Sender \/ Relay \/ Desk \/ Own \/ Agent \/ Owner

\* An exchange of each letter is answered now and then, as long as there are any.
LinkHolds == \A l \in Letters : <>[](~Under(l)) \/ []<><<Hear(l)>>_vars

Fairness == WF_vars(Relay) /\ WF_vars(Own) /\ LinkHolds

Spec == Init /\ [][Next]_vars /\ Fairness

-----------------------------------------------------------------------------
(***************************************************************************)
(* Correctness.                                                            *)
(***************************************************************************)
\* What an agent asks to send is put before the other agent at most once:
\* over calls repeated while the first still waits, requests doubled or sent
\* again for want of an answer, steers declined, wakes cancelled, and deaths
\* of either core between a claim and its outcome.
ReadOnce ==
  \A l, k \in Letters : l[1] = k[1] =>
    IF l = k THEN seen[l] <= 1 ELSE seen[l] + seen[k] <= 1

\* `delivered', at either end, is never said of a letter the agent was not
\* given: not of one that was in a turn that failed before its prompt.
DeliveredRead ==
  \A l \in Letters : "delivered" \in {in[l], out[l]} => seen[l] = 1

Given == {"turn", "steer", "delivered"}

\* No letter crosses to the agent late, or while its thread is paused or off:
\* not even in a turn that was queued for it before.
HeldBack ==
  [][\A l \in Letters : in[l] \notin Given /\ in'[l] \in Given =>
       l \notin late /\ open' /\ pause' = "no"]_vars

\* A letter the thread may have is not left waiting, however its wakes and
\* steers went, as long as no prompt held by a restart keeps the thread.
NoneForgotten ==
  \A l \in Letters : []<>(in[l] \notin {"received", "wake"} \/ ~Allowed \/ "held" \in queued)

\* The sender hears of a delivery before the letter's time is up, as long as
\* it may ask.
FateTold ==
  \A l \in Letters : []<>(\/ in[l] = "delivered" => out[l] \in {"delivered", "rejected"}
                         \/ l \in late \/ perm # "on"
                         \/ (hold # "no" /\ out[l] = "queued"))

(***************************************************************************)
(* Stated by the code or its documents, and not what the code does.        *)
(***************************************************************************)
\* coordination.ts:760 marks a letter of the sender's expired with `Message
\* expired before delivery'.
ExpiredUnread == \A l \in Letters : out[l] = "expired" => seen[l] = 0

\* coordination.test.ts:237: `disabling rejects pending messages'; a rejected
\* letter does not go back to the queue.
RejectedStays ==
  [][\A l \in Letters : out[l] = "rejected" => out'[l] # "queued"]_vars

\* The same on the recipient's side: with coordination off nothing waits.
NoneWaitsOff == ~open => Of({"received"}) = {}

\* docs/coordination.md:51: a restart's pause `also ends with the next agent
\* message, so a crashed thread can be woken'.
LetterWakes ==
  \A l \in Letters : []<>(in[l] \notin {"received", "wake"} \/ ~Allowed)
=============================================================================
