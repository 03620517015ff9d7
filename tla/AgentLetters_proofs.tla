------------------------ MODULE AgentLetters_proofs ------------------------
(***************************************************************************)
(* Proofs about AgentLetters, for any requests, any number of calls and    *)
(* any disturbances: a request is put before the other agent at most once, *)
(* `delivered' is said of no letter that was not, and none crosses late or *)
(* against a pause.                                                        *)
(***************************************************************************)
EXTENDS AgentLetters, FiniteSetTheorems, TLAPS

\* A request makes one letter, the first.
OneMade == \A l \in Letters : out[l] # "none" => l[2] = 1

\* Who hears of a letter, hears of one that was made.
Sent ==
  /\ \A l \in wire : out[l] # "none"
  /\ \A l \in Letters : in[l] # "none" => out[l] # "none"
  /\ \A l \in Letters : Under(l) => out[l] # "none" /\ exch[l].was \in Pending \union Uncertain

\* What a status says of how often the agent saw the letter.
Reads == \A l \in Letters :
  /\ in[l] \in {"none", "received", "wake", "steer", "expired", "rejected"} => seen[l] = 0
  /\ in[l] = "turn" => /\ run \in {"claimed", "wake", "read"}
                       /\ seen[l] = IF run = "read" THEN 1 ELSE 0
  /\ in[l] = "adrift" => seen[l] <= 1
  /\ in[l] = "delivered" => seen[l] = 1

\* The sender and its exchanges repeat what the recipient said.
Tells == \A l \in Letters : out[l] = "delivered" \/ exch[l].reply = "delivered" => in[l] = "delivered"

IInv == TypeOK /\ OneMade /\ Sent /\ Reads /\ Tells

LEMMA InitIInv == Init => IInv
<1> SUFFICES ASSUME Init PROVE IInv
  OBVIOUS
<1>1. TypeOK
  <2>1. open \in BOOLEAN /\ waiter \in BOOLEAN /\ steer \in BOOLEAN
    BY Zenon DEF Init
  <2>2. exch \in [Letters -> [was : OutStatus, noted : BOOLEAN, reply : InStatus \union {"refused"}]]
    BY DEF Init, Idle, OutStatus, InStatus
  <2> QED BY <2>1, <2>2, LettersAssumption DEF Init, TypeOK, OutStatus, InStatus, Ran
<1> QED BY <1>1 DEF Init, IInv, OneMade, Sent, Reads, Tells, Idle, Under

(***************************************************************************)
(* The sender: neither the recipient's copies nor what its agent saw       *)
(* change.                                                                 *)
(***************************************************************************)

Far == UNCHANGED <<in, seen, open, pause, waiter, steer, status, queued, run, tail>>

\* A letter made stays one, and who hears of it, or repeats its fate, may.
MailKeeps ==
  /\ \A l \in Letters : out[l] # "none" => out'[l] # "none"
  /\ \A l \in Letters : out'[l] # "none" => out[l] # "none" \/ l[2] = 1
  /\ \A l \in wire' : l \in wire \/ out'[l] # "none"
  /\ \A l \in Letters : exch'[l] # Idle =>
       \/ exch[l] # Idle /\ exch'[l].was = exch[l].was
       \/ out'[l] # "none" /\ exch'[l].was \in Pending \union Uncertain
  /\ \A l \in Letters : out'[l] = "delivered" \/ exch'[l].reply = "delivered" => in[l] = "delivered"

LEMMA FarKeeps ==
  ASSUME IInv, Far, TypeOK', MailKeeps
  PROVE  IInv'
<1> USE DEF IInv, Far, MailKeeps
<1>1. OneMade'
  BY DEF OneMade
<1>2. Sent'
  BY DEF Sent, TypeOK, Under
<1>3. Reads' /\ Tells'
  BY DEF Reads, Tells
<1> QED BY <1>1, <1>2, <1>3

LEMMA SettingSteps ==
  ASSUME IInv,
         \/ \E q \in Requests : Ask(q) \/ Write(q)
         \/ \E p \in {"on", "off", "local"}, h \in {"no", "owner"} : ConfigureSender(p, h)
         \/ SenderResumes \/ SenderDies \/ \E l \in Letters : Late(l)
  PROVE  IInv'
<1> USE DEF IInv, mail, rules, net, box, gate, thread, Happens
<1>1. ASSUME NEW q \in Requests, Ask(q) PROVE IInv'
  <2>1. Far /\ UNCHANGED <<out, noted, perm, hold, exch, wire, late>>
        /\ calls' = [calls EXCEPT ![q] = @ + 1] /\ calls[q] < MaxCalls
    BY <1>1 DEF Ask, Far
  <2>2. events' \in 0..MaxEvents
    BY <1>1, LettersAssumption DEF Ask, TypeOK
  <2>3. TypeOK'
    BY <2>1, <2>2, LettersAssumption DEF TypeOK, Far
  <2>4. MailKeeps
    BY <2>1 DEF MailKeeps, Tells
  <2> QED BY <2>1, <2>3, <2>4, FarKeeps
<1>2. ASSUME NEW q \in Requests, Write(q) PROVE IInv'
  <2>1. Far /\ UNCHANGED <<noted, perm, hold, exch, wire, late, events>>
        /\ calls' = [calls EXCEPT ![q] = @ - 1] /\ calls[q] > 0
    BY <1>2 DEF Write, Far
  <2>2. \/ out' = out
        \/ \E k \in Letters : k[2] = 1 /\ out' = [out EXCEPT ![k] = "queued"]
    <3>1. CASE WritesOnce(q)
      <4>1. Made(q) = {}
        BY <3>1 DEF WritesOnce
      <4>2. Cardinality(Made(q)) + 1 = 1
        BY <4>1, FS_EmptySet
      <4>3. <<q, 1>> \in Letters /\ <<q, 1>>[2] = 1
        BY LettersAssumption DEF Letters
      <4> QED BY <1>2, <3>1, <4>2, <4>3 DEF Write
    <3>2. CASE ~WritesOnce(q)
      BY <1>2, <3>2 DEF Write
    <3> QED BY <3>1, <3>2
  <2>3. TypeOK'
    <3>1. out' \in [Letters -> OutStatus]
      BY <2>2 DEF TypeOK, OutStatus
    <3>2. calls' \in [Requests -> 0..MaxCalls]
      BY <2>1, LettersAssumption DEF TypeOK
    <3> QED BY <2>1, <3>1, <3>2 DEF TypeOK, Far
  <2>4. MailKeeps
    <3>1. /\ \A l \in Letters : out[l] # "none" => out'[l] # "none"
          /\ \A l \in Letters : out'[l] # "none" => out[l] # "none" \/ l[2] = 1
          /\ \A l \in Letters : out'[l] = "delivered" => out[l] = "delivered"
      BY <2>2 DEF TypeOK
    <3> QED BY <2>1, <3>1 DEF MailKeeps, Tells
  <2> QED BY <2>1, <2>3, <2>4, FarKeeps
<1>3. ASSUME NEW p \in {"on", "off", "local"}, NEW h \in {"no", "owner"}, ConfigureSender(p, h) PROVE IInv'
  <2>1. Far /\ UNCHANGED <<calls, exch, wire, late>> /\ perm' = p /\ hold' = h
    BY <1>3 DEF ConfigureSender, Far
  <2>2. /\ out' \in [Letters -> OutStatus] /\ noted' \subseteq Letters
        /\ \A l \in Letters : out'[l] = out[l] \/ (out[l] \in Pending /\ out'[l] = "rejected")
    <3> DEFINE P == {l \in Letters : out[l] \in Pending}
    <3>1. /\ out' = IF p = "on" THEN out ELSE Put(out, P, "rejected")
          /\ noted' = IF p = "on" THEN noted ELSE noted \ P
      BY Zenon, <1>3 DEF ConfigureSender
    <3>2. "rejected" \in OutStatus
      BY DEF OutStatus, InStatus, Settled
    <3>3. CASE p = "on"
      BY <3>1, <3>3 DEF TypeOK
    <3>4. CASE p # "on"
      <4>1. out' = [l \in Letters |-> IF l \in P THEN "rejected" ELSE out[l]]
        BY <3>1, <3>4 DEF Put
      <4>2. out \in [Letters -> OutStatus] /\ noted' \subseteq Letters
        BY <3>1, <3>4 DEF TypeOK
      <4> QED BY ONLY <3>2, <4>1, <4>2
    <3> QED BY <3>3, <3>4
  <2>3. events' \in 0..MaxEvents
    BY <1>3, LettersAssumption DEF ConfigureSender, TypeOK
  <2>4. TypeOK'
    BY <2>1, <2>2, <2>3 DEF TypeOK, Far
  <2>5. MailKeeps
    BY <2>1, <2>2 DEF MailKeeps, Tells, Pending
  <2> QED BY <2>1, <2>4, <2>5, FarKeeps
<1>4. CASE SenderResumes
  <2>1. Far /\ UNCHANGED <<out, noted, calls, perm, exch, wire, late>> /\ hold' = "no"
    BY <1>4 DEF SenderResumes, Far
  <2>2. events' \in 0..MaxEvents
    BY <1>4, LettersAssumption DEF SenderResumes, TypeOK
  <2>3. TypeOK'
    BY <2>1, <2>2 DEF TypeOK, Far
  <2>4. MailKeeps
    BY <2>1 DEF MailKeeps, Tells
  <2> QED BY <2>1, <2>3, <2>4, FarKeeps
<1>5. CASE SenderDies
  <2>1. Far /\ UNCHANGED <<out, noted, perm, wire, late>>
        /\ calls' = [q \in Requests |-> 0] /\ exch' = [l \in Letters |-> Idle]
    BY <1>5 DEF SenderDies, Far
  <2>2. hold' \in {"no", "owner", "restart"} /\ events' \in 0..MaxEvents
    BY <1>5, LettersAssumption DEF SenderDies, TypeOK
  <2>3. exch' \in [Letters -> [was : OutStatus, noted : BOOLEAN, reply : InStatus \union {"refused"}]]
    BY <2>1 DEF Idle, OutStatus, InStatus
  <2>4. TypeOK'
    BY <2>1, <2>2, <2>3, LettersAssumption DEF TypeOK, Far
  <2>5. MailKeeps
    BY <2>1 DEF MailKeeps, Tells, Idle
  <2> QED BY <2>1, <2>4, <2>5, FarKeeps
<1>6. ASSUME NEW l \in Letters, Late(l) PROVE IInv'
  <2>1. Far /\ UNCHANGED <<out, noted, calls, perm, hold, exch, wire, events>> /\ late' = late \union {l}
    BY <1>6 DEF Late, Far
  <2>2. TypeOK'
    BY <2>1 DEF TypeOK, Far
  <2>3. MailKeeps
    BY <2>1 DEF MailKeeps, Tells
  <2> QED BY <2>1, <2>2, <2>3, FarKeeps
<1> QED BY <1>1, <1>2, <1>3, <1>4, <1>5, <1>6

LEMMA RelaySteps ==
  ASSUME IInv, Relay
  PROVE  IInv'
<1> USE DEF IInv, mail, rules, net, box, gate, thread
<1>1. CASE Tick
  <2> DEFINE gone == {l \in Letters : out[l] \in Pending /\ l \in late}
             barred == IF perm = "on" THEN {} ELSE Outgoing
  <2>1. Far /\ UNCHANGED <<calls, perm, hold, late, events>>
    BY <1>1 DEF Tick, Far
  <2>2. /\ out' = Put(Put(out, gone, "expired"), barred, "rejected")
        /\ noted' = noted \ (gone \union barred)
        /\ exch' = [l \in Letters |-> IF l \in Asked
                      THEN [was |-> out[l], noted |-> l \in noted, reply |-> "none"] ELSE Idle]
        /\ wire' = wire \union {l \in Asked : out[l] = "queued"}
    BY Zenon, <1>1 DEF Tick
  <2>3. gone \subseteq Letters /\ barred \subseteq Outgoing
    OBVIOUS
  <2>4. /\ Asked \subseteq Outgoing /\ Outgoing \subseteq Letters
        /\ \A l \in Outgoing : out[l] \in Pending \union Uncertain
        /\ \A l \in gone : out[l] \in Pending
    BY DEF Asked, Outgoing
  <2>5. out' \in [Letters -> OutStatus]
    BY <2>2 DEF Put, TypeOK, OutStatus, InStatus, Settled
  <2>6. exch' \in [Letters -> [was : OutStatus, noted : BOOLEAN, reply : InStatus \union {"refused"}]]
    <3>1. Idle \in [was : OutStatus, noted : BOOLEAN, reply : InStatus \union {"refused"}]
      BY DEF Idle, OutStatus, InStatus
    <3>2. \A l \in Letters : [was |-> out[l], noted |-> l \in noted, reply |-> "none"]
                               \in [was : OutStatus, noted : BOOLEAN, reply : InStatus \union {"refused"}]
      <4> SUFFICES ASSUME NEW l \in Letters
                   PROVE  out[l] \in OutStatus /\ (l \in noted) \in BOOLEAN /\ "none" \in InStatus
        OBVIOUS
      <4>1. (l \in noted) \in BOOLEAN
        BY SMT
      <4> QED BY <4>1 DEF TypeOK, InStatus
    <3> QED BY <2>2, <3>1, <3>2
  <2>7. TypeOK'
    BY <2>1, <2>2, <2>4, <2>5, <2>6 DEF TypeOK, Far
  <2>8. MailKeeps
    <3>1. \A l \in Letters : out'[l] # out[l] => /\ l \in gone \union barred
                                                 /\ out'[l] \in {"expired", "rejected"}
      BY <2>2 DEF Put, TypeOK
    <3>2. \A l \in Letters : out[l] # "none" <=> out'[l] # "none"
      BY <2>3, <2>4, <3>1 DEF Pending, Uncertain
    <3>3. \A l \in Letters : exch'[l] # Idle =>
             l \in Asked /\ exch'[l].was = out[l] /\ exch'[l].reply = "none"
      BY <2>2
    <3>4. \A l \in Letters : exch'[l] # Idle => out'[l] # "none" /\ exch'[l].was \in Pending \union Uncertain
      BY <2>4, <3>2, <3>3 DEF Pending, Uncertain
    <3>5. \A l \in Letters : exch'[l].reply = "none"
      BY <3>3 DEF Idle
    <3>6. \A l \in wire' : l \in wire \/ out'[l] # "none"
      BY <2>2, <2>4, <3>2
    <3>7. \A l \in Letters : out'[l] = "delivered" => in[l] = "delivered"
      BY <3>1 DEF Tells
    <3> QED BY <3>2, <3>4, <3>5, <3>6, <3>7 DEF MailKeeps
  <2> QED BY <2>1, <2>7, <2>8, FarKeeps
<1>2. ASSUME NEW l \in Letters, Fail(l) PROVE IInv'
  <2>1. Far /\ UNCHANGED <<calls, perm, hold, wire, late, events>> /\ exch[l] # Idle
    BY <1>2 DEF Fail, Far, Under
  <2>2. /\ out' = IF exch[l].noted THEN out ELSE [out EXCEPT ![l] = exch[l].was]
        /\ noted' = noted \union {l} /\ exch' = [exch EXCEPT ![l] = Idle]
    BY Zenon, <1>2 DEF Fail
  <2>3. out[l] # "none" /\ exch[l].was \in Pending \union Uncertain
    BY <2>1 DEF Sent, Under
  <2>4. out' \in [Letters -> OutStatus]
    BY <2>2 DEF TypeOK
  <2>5. Idle \in [was : OutStatus, noted : BOOLEAN, reply : InStatus \union {"refused"}]
    BY DEF Idle, OutStatus, InStatus
  <2>6. TypeOK'
    BY <2>1, <2>2, <2>4, <2>5 DEF TypeOK, Far
  <2>7. MailKeeps
    <3>1. \A k \in Letters \ {l} : out'[k] = out[k] /\ exch'[k] = exch[k]
      BY <2>2 DEF TypeOK
    <3>2. exch'[l] = Idle /\ Idle.reply = "none"
      BY <2>2 DEF TypeOK, Idle
    <3>3. /\ out'[l] # "none"
          /\ out'[l] = "delivered" => out[l] = "delivered"
      BY <2>2, <2>3 DEF TypeOK, Pending, Uncertain
    <3> QED BY <2>1, <2>3, <3>1, <3>2, <3>3 DEF MailKeeps, Tells
  <2> QED BY <2>1, <2>6, <2>7, FarKeeps
<1>3. ASSUME NEW l \in Letters, Hear(l) PROVE IInv'
  <2>1. Far /\ UNCHANGED <<calls, perm, hold, wire, late, events>> /\ exch[l] # Idle /\ exch[l].reply # "none"
    BY <1>3 DEF Hear, Far, Under
  <2> DEFINE st == IF perm = "local" \/ exch[l].reply = "refused" THEN "rejected"
                   ELSE IF exch[l].reply # exch[l].was \/ exch[l].noted THEN exch[l].reply ELSE out[l]
  <2>2. out' = [out EXCEPT ![l] = st]
    BY Zenon, <1>3 DEF Hear
  <2>3. noted' \subseteq noted /\ exch' = [exch EXCEPT ![l] = Idle]
    BY <1>3 DEF Hear
  <2>4. out[l] # "none"
    BY <2>1 DEF Sent, Under
  <2>5. st \in OutStatus /\ st # "none"
    BY <2>1, <2>4 DEF TypeOK, OutStatus, InStatus, Settled
  <2>6. Idle \in [was : OutStatus, noted : BOOLEAN, reply : InStatus \union {"refused"}]
    BY DEF Idle, OutStatus, InStatus
  <2> HIDE DEF st
  <2>7. TypeOK'
    BY <2>1, <2>2, <2>3, <2>5, <2>6 DEF TypeOK, Far
  <2>8. MailKeeps
    <3>1. \A k \in Letters \ {l} : out'[k] = out[k] /\ exch'[k] = exch[k]
      BY <2>2, <2>3 DEF TypeOK
    <3>2. exch'[l] = Idle /\ Idle.reply = "none" /\ out'[l] = st
      BY <2>2, <2>3 DEF TypeOK, Idle
    <3>3. st = "delivered" => in[l] = "delivered"
      BY DEF Tells, st
    <3> QED BY <2>1, <2>4, <2>5, <3>1, <3>2, <3>3 DEF MailKeeps, Tells
  <2> QED BY <2>1, <2>7, <2>8, FarKeeps
<1> QED BY <1>1, <1>2, <1>3 DEF Relay

(***************************************************************************)
(* The recipient.                                                          *)
(***************************************************************************)

\* No letter appears that was not sent, and a delivery stands.
BoxKeeps ==
  /\ \A l \in Letters : in'[l] # "none" => in[l] # "none" \/ l \in wire
  /\ \A l \in Letters : in[l] = "delivered" => in'[l] = "delivered"

LEMMA DeskSteps ==
  ASSUME IInv, Desk
  PROVE  IInv'
<1> USE DEF IInv, mail, rules, net, box, gate, thread
<1>1. ASSUME NEW l \in Letters, Deliver(l) PROVE IInv'
  <2>1. /\ UNCHANGED <<out, noted, calls, perm, hold, late, steer, open, status, queued, run, tail, events>>
        /\ l \in wire /\ wire' \subseteq wire
    BY <1>1 DEF Deliver
  <2>2. (Accept(l) /\ in[l] = "none") \/ UNCHANGED <<in, seen, waiter, pause>>
    BY Zenon, <1>1 DEF Deliver, Known
  <2>3. \E r \in {in'[l], "refused"} : exch' \in {exch, [exch EXCEPT ![l].reply = r]}
    BY <1>1 DEF Deliver, Replies
  <2>4. /\ in' \in [Letters -> InStatus] /\ seen' \in [Letters -> 0..2]
        /\ waiter' \in BOOLEAN /\ pause' \in {"no", "owner", "stop", "restart", "failure"}
        /\ Reads' /\ BoxKeeps
    <3>1. CASE UNCHANGED <<in, seen, waiter, pause>>
      <4>1. waiter' \in BOOLEAN
        BY Zenon, <3>1 DEF TypeOK
      <4> QED BY <2>1, <3>1, <4>1 DEF TypeOK, Reads, BoxKeeps
    <3>2. CASE Accept(l) /\ in[l] = "none"
      <4> DEFINE arrived == [in EXCEPT ![l] = "received"]
                 claims == {k \in Letters : arrived[k] = "received" /\ k \notin late /\ pause' = "no"}
      <4>1. pause' \in {"no", "owner", "stop", "restart", "failure"}
        BY <3>2 DEF Accept, AfterLetter, TypeOK
      <4>2. arrived \in [Letters -> InStatus] /\ claims \subseteq Letters
        BY DEF TypeOK, InStatus
      <4>3. \A k \in Letters : arrived[k] = "received" => in[k] \in {"none", "received"} /\ seen[k] = 0
        BY <3>2 DEF TypeOK, Reads
      <4>4. \A k \in Letters \ {l} : arrived[k] = in[k]
        BY DEF TypeOK
      <4>5. arrived[l] = "received"
        BY DEF TypeOK
      <4>6. \A k \in claims : arrived[k] = "received"
        OBVIOUS
      <4>7. CASE waiter /\ claims # {}
        <5>1. in' = Put(arrived, claims, "delivered") /\ seen' = Shown(claims) /\ waiter' = FALSE
          BY <3>2, <4>7 DEF Accept
        <5>2. waiter' \in BOOLEAN
          BY Zenon, <5>1
        <5> HIDE DEF arrived, claims
        <5>3. /\ in' = [k \in Letters |-> IF k \in claims THEN "delivered" ELSE arrived[k]]
              /\ seen' = [k \in Letters |-> IF k \in claims THEN seen[k] + 1 ELSE seen[k]]
          BY <5>1 DEF Put, Shown
        <5>4. in' \in [Letters -> InStatus]
          BY <4>2, <5>3 DEF InStatus, Settled
        <5>5. seen' \in [Letters -> 0..2]
          BY <4>2, <4>3, <4>6, <5>3 DEF TypeOK
        <5>6. Reads'
          <6> SUFFICES ASSUME NEW k \in Letters PROVE Reads!(k)'
            BY DEF Reads
          <6>1. CASE k \in claims
            BY <2>1, <4>3, <4>6, <5>3, <6>1
          <6>2. CASE k \notin claims
            BY <2>1, <4>3, <4>4, <4>5, <5>3, <6>2 DEF Reads
          <6> QED BY <6>1, <6>2
        <5>7. BoxKeeps
          BY <2>1, <3>2, <4>3, <4>4, <4>6, <5>3 DEF BoxKeeps
        <5> QED BY <4>1, <5>2, <5>4, <5>5, <5>6, <5>7
      <4>8. CASE ~(waiter /\ claims # {})
        <5>1. in' = arrived /\ UNCHANGED <<seen, waiter>>
          BY <3>2, <4>8 DEF Accept
        <5>2. waiter' \in BOOLEAN
          BY Zenon, <5>1 DEF TypeOK
        <5> HIDE DEF arrived, claims
        <5>3. Reads'
          <6> SUFFICES ASSUME NEW k \in Letters PROVE Reads!(k)'
            BY DEF Reads
          <6> QED BY <2>1, <4>3, <4>4, <4>5, <5>1 DEF Reads
        <5>4. BoxKeeps
          BY <2>1, <3>2, <4>4, <4>5, <5>1 DEF BoxKeeps
        <5> QED BY <4>1, <4>2, <5>1, <5>2, <5>3, <5>4 DEF TypeOK
      <4> QED BY <4>7, <4>8
    <3> QED BY <2>2, <3>1, <3>2
  <2>5. exch' \in [Letters -> [was : OutStatus, noted : BOOLEAN, reply : InStatus \union {"refused"}]]
    BY <2>3, <2>4 DEF TypeOK
  <2>6. TypeOK'
    BY <2>1, <2>4, <2>5 DEF TypeOK
  <2>7. Sent'
    <3>1. \A k \in Letters : exch'[k] # Idle => exch[k] # Idle /\ exch'[k].was = exch[k].was
      <4>1. exch' = exch \/ exch[l] # Idle
        BY <1>1 DEF Deliver, Replies, Waits, Under
      <4> QED BY <2>3, <4>1 DEF TypeOK
    <3> QED BY <2>1, <2>4, <3>1 DEF Sent, BoxKeeps, Under
  <2>8. Tells'
    <3>1. \A k \in Letters : exch'[k].reply = exch[k].reply \/ (k = l /\ exch'[k].reply \in {in'[l], "refused"})
      BY <2>3 DEF TypeOK
    <3> QED BY <2>1, <2>4, <3>1 DEF Tells, BoxKeeps
  <2> QED BY <2>1, <2>4, <2>6, <2>7, <2>8 DEF OneMade
<1>2. ASSUME NEW l \in Letters, Receipt(l) PROVE IInv'
  <2>1. /\ UNCHANGED <<out, noted, calls, perm, hold, wire, late, in, seen, waiter, steer, open, pause,
                       status, queued, run, tail, events>>
        /\ exch[l] # Idle
    BY <1>2 DEF Receipt, Waits, Under
  <2>2. \E r \in {in[l], "refused"} : exch' = [exch EXCEPT ![l].reply = r]
    BY <1>2 DEF Receipt
  <2>3. TypeOK'
    BY <2>1, <2>2 DEF TypeOK
  <2>4. \A k \in Letters : exch'[k] # Idle => exch[k] # Idle /\ exch'[k].was = exch[k].was
    BY <2>1, <2>2 DEF TypeOK
  <2>5. \A k \in Letters : exch'[k].reply = exch[k].reply \/ (k = l /\ exch'[k].reply \in {in[l], "refused"})
    BY <2>2 DEF TypeOK
  <2> QED BY <2>1, <2>3, <2>4, <2>5 DEF OneMade, Sent, Under, Reads, Tells
<1> QED BY <1>1, <1>2 DEF Desk

\* The letters, and the sender's side, as a step of the recipient's own has them.
Near == UNCHANGED <<out, noted, calls, perm, hold, exch, wire, late>>

LEMMA NearKeeps ==
  ASSUME IInv, Near, TypeOK', Reads', BoxKeeps
  PROVE  IInv'
<1> USE DEF IInv, Near
<1>1. Sent'
  BY DEF Sent, BoxKeeps, Under
<1>2. OneMade' /\ Tells'
  BY DEF OneMade, Tells, BoxKeeps
<1> QED BY <1>1, <1>2

\* Steps that leave the letters and the turn in the slot.
LEMMA StillKeeps ==
  ASSUME IInv, Near, TypeOK', UNCHANGED <<in, seen>>,
         \/ run' = run
         \/ run' = "wake" /\ run = "claimed"
         \/ run' = "user" /\ run = "none"
  PROVE  IInv'
<1>1. Reads'
  BY DEF IInv, Reads
<1>2. BoxKeeps
  BY DEF BoxKeeps
<1> QED BY <1>1, <1>2, NearKeeps

LEMMA StillSteps ==
  ASSUME IInv, WaitEnds \/ WakeFaults \/ StartWake \/ StartUser \/ Leave \/ Message \/ ResumeHeld
  PROVE  IInv'
<1> USE DEF IInv, mail, rules, net, box, gate, thread, Happens
<1>1. /\ Near /\ UNCHANGED <<in, seen, open, steer>>
      /\ \/ run' = run
         \/ run' = "wake" /\ run = "claimed"
         \/ run' = "user" /\ run = "none"
  BY DEF WaitEnds, WakeFaults, StartWake, StartUser, Leave, Message, ResumeHeld, Near, Slot
<1>2. waiter' \in BOOLEAN /\ open' \in BOOLEAN /\ steer' \in BOOLEAN
  <2>1. CASE WaitEnds
    BY Zenon, <1>1, <2>1 DEF WaitEnds, TypeOK
  <2>2. CASE ~WaitEnds
    BY Zenon, <1>1, <2>2 DEF WakeFaults, StartWake, StartUser, Leave, Message, ResumeHeld, TypeOK
  <2> QED BY <2>1, <2>2
<1>3. pause' \in {"no", "owner", "stop", "restart", "failure"}
  BY DEF WaitEnds, WakeFaults, StartWake, StartUser, Leave, Message, ResumeHeld, TypeOK, AfterStop, AfterUser
<1>4. status' \in {"idle", "queued", "running"} /\ queued' \subseteq {"wake", "user", "held"}
  BY DEF WaitEnds, WakeFaults, StartWake, StartUser, Leave, Message, ResumeHeld, TypeOK
<1>5. run' \in Ran \union {"none", "claimed"} /\ tail' \in {"none", "over", "stopped"}
  BY DEF WaitEnds, WakeFaults, StartWake, StartUser, Leave, Message, ResumeHeld, TypeOK, Ran
<1>6. events' \in 0..MaxEvents
  BY LettersAssumption DEF WaitEnds, WakeFaults, StartWake, StartUser, Leave, Message, ResumeHeld, TypeOK
<1>7. TypeOK'
  BY <1>1, <1>2, <1>3, <1>4, <1>5, <1>6 DEF TypeOK, Near
<1> QED BY <1>1, <1>7, StillKeeps

\* Ways a letter the recipient keeps may go, and what its agent sees with each.
Moves(l) ==
  \/ in'[l] = in[l] /\ seen'[l] = seen[l] /\ (in[l] = "turn" => run' = run)
  \/ in[l] = "received" /\ in'[l] = "delivered" /\ seen'[l] = seen[l] + 1
  \/ in[l] = "received" /\ in'[l] \in {"steer", "wake", "expired", "rejected"} /\ seen'[l] = seen[l]
  \/ in[l] = "steer" /\ in'[l] = "delivered" /\ seen'[l] = seen[l] + 1
  \/ in[l] = "steer" /\ in'[l] = "received" /\ seen'[l] = seen[l]
  \/ in[l] = "steer" /\ in'[l] = "adrift" /\ seen'[l] \in {seen[l], seen[l] + 1}
  \/ in[l] = "wake" /\ in'[l] \in {"received", "rejected"} /\ seen'[l] = seen[l]
  \/ in[l] = "wake" /\ in'[l] = "turn" /\ seen'[l] = seen[l] /\ run' = "claimed"
  \/ in[l] = "turn" /\ in'[l] = "turn" /\ seen'[l] = seen[l] + 1 /\ run = "wake" /\ run' = "read"
  \/ in[l] = "turn" /\ in'[l] = "delivered" /\ seen'[l] = seen[l] /\ run = "read"
  \/ in[l] = "turn" /\ in'[l] = "adrift" /\ seen'[l] = seen[l]
  \/ in[l] = "turn" /\ in'[l] = "received" /\ seen'[l] = seen[l] /\ run = "claimed"

Mapped == /\ in' = [l \in Letters |-> in'[l]]
          /\ seen' = [l \in Letters |-> seen'[l]]

\* TypeOK', of what is not the letters.
ThreadTyped ==
  /\ open' \in BOOLEAN /\ pause' \in {"no", "owner", "stop", "restart", "failure"}
  /\ waiter' \in BOOLEAN /\ steer' \in BOOLEAN
  /\ status' \in {"idle", "queued", "running"}
  /\ queued' \subseteq {"wake", "user", "held"}
  /\ run' \in Ran \union {"none", "claimed"} /\ tail' \in {"none", "over", "stopped"}
  /\ events' \in 0..MaxEvents

LEMMA MovesKeep ==
  ASSUME IInv, Near, Mapped, ThreadTyped, \A l \in Letters : Moves(l)
  PROVE  IInv'
<1> USE DEF IInv
<1>1. \A l \in Letters : Reads!(l)'
  <2> SUFFICES ASSUME NEW l \in Letters PROVE Reads!(l)'
    OBVIOUS
  <2>1. Moves(l) /\ Reads!(l) /\ seen[l] \in 0..2
    BY DEF Reads, TypeOK
  <2> QED BY <2>1 DEF Moves
<1>2. Reads'
  BY <1>1 DEF Reads
<1>3. BoxKeeps
  BY DEF Moves, BoxKeeps
<1>4. \A l \in Letters : in'[l] \in InStatus /\ seen'[l] \in 0..2
  <2> SUFFICES ASSUME NEW l \in Letters PROVE in'[l] \in InStatus /\ seen'[l] \in 0..2
    OBVIOUS
  <2>1. Moves(l) /\ Reads!(l) /\ seen[l] \in 0..2 /\ in[l] \in InStatus
    BY DEF Reads, TypeOK
  <2> QED BY <2>1 DEF Moves, InStatus, Uncertain, Settled
<1>5. TypeOK'
  <2>1. in' \in [Letters -> InStatus] /\ seen' \in [Letters -> 0..2]
    BY <1>4 DEF Mapped
  <2> QED BY <2>1 DEF TypeOK, Near, ThreadTyped
<1> QED BY <1>2, <1>3, <1>5, NearKeeps

\* A batch is marked: with what its agent saw unchanged, or with it shown.
Marks(L, st) ==
  /\ \A l \in Letters \ L : in'[l] = in[l] /\ seen'[l] = seen[l]
  /\ \A l \in L : in'[l] = st

LEMMA PutQuiet ==
  ASSUME IInv, NEW L \in SUBSET Letters, NEW st, in' = Put(in, L, st), seen' = seen
  PROVE  Mapped /\ Marks(L, st) /\ \A l \in L : seen'[l] = seen[l]
<1>1. in' = [l \in Letters |-> IF l \in L THEN st ELSE in[l]]
  BY DEF Put
<1>2. seen' = [l \in Letters |-> seen'[l]]
  BY DEF IInv, TypeOK
<1> QED BY <1>1, <1>2 DEF Mapped, Marks

LEMMA PutShown ==
  ASSUME IInv, NEW L \in SUBSET Letters, NEW st, in' = Put(in, L, st), seen' = Shown(L)
  PROVE  Mapped /\ Marks(L, st) /\ \A l \in L : seen'[l] = seen[l] + 1
<1>1. in' = [l \in Letters |-> IF l \in L THEN st ELSE in[l]]
  BY DEF Put
<1>2. seen' = [l \in Letters |-> IF l \in L THEN seen[l] + 1 ELSE seen[l]]
  BY DEF Shown
<1> QED BY <1>1, <1>2 DEF Mapped, Marks

\* The letters of a cancelled wake go back.
LEMMA BackStep ==
  ASSUME IInv, in' = BackInBox(in), seen' = seen
  PROVE  Mapped /\ \A l \in Letters : /\ in'[l] = IF in[l] = "wake" THEN "received" ELSE in[l]
                                      /\ seen'[l] = seen[l]
<1>1. in' = [l \in Letters |-> IF in[l] = "wake" THEN "received" ELSE in[l]]
  BY DEF BackInBox
<1>2. seen' = [l \in Letters |-> seen'[l]]
  BY DEF IInv, TypeOK
<1> QED BY <1>1, <1>2 DEF Mapped

\* Nothing happens to the letters.
LEMMA SameStep ==
  ASSUME IInv, UNCHANGED <<in, seen, run>>
  PROVE  Mapped /\ \A l \in Letters : Moves(l)
<1>1. in' = [l \in Letters |-> in'[l]] /\ seen' = [l \in Letters |-> seen'[l]]
  BY DEF IInv, TypeOK
<1> QED BY <1>1 DEF Mapped, Moves

LEMMA ReadSteps ==
  ASSUME IInv, Take \/ Wait \/ Steer \/ Wake \/ Expire
  PROVE  IInv'
<1> USE DEF mail, rules, net, box, gate, thread
<1>1. Ready \in SUBSET Letters /\ \A l \in Ready : in[l] = "received"
  BY DEF Ready, Of
<1>2. Of({"received"}) \cap late \in SUBSET Letters /\ \A l \in Of({"received"}) \cap late : in[l] = "received"
  BY DEF Of
<1>3. Near /\ UNCHANGED <<open, pause, run, tail, events>>
  BY DEF Take, Wait, Steer, Wake, Expire, Near
<1>4. Mapped /\ \A l \in Letters : Moves(l)
  <2>1. CASE in' = Put(in, Ready, "delivered") /\ seen' = Shown(Ready)
    <3>1. Mapped /\ Marks(Ready, "delivered") /\ \A l \in Ready : seen'[l] = seen[l] + 1
      BY <1>1, <2>1, PutShown
    <3> QED BY <1>1, <1>3, <3>1 DEF Marks, Moves
  <2>2. CASE UNCHANGED <<in, seen>>
    BY <1>3, <2>2, SameStep
  <2>3. ASSUME NEW st \in {"steer", "wake"}, in' = Put(in, Ready, st), seen' = seen
        PROVE  Mapped /\ \A l \in Letters : Moves(l)
    <3>1. Mapped /\ Marks(Ready, st) /\ \A l \in Ready : seen'[l] = seen[l]
      BY <1>1, <2>3, PutQuiet
    <3> QED BY <1>1, <1>3, <3>1 DEF Marks, Moves
  <2>4. CASE in' = Put(in, Of({"received"}) \cap late, "expired") /\ seen' = seen
    <3>1. Mapped /\ Marks(Of({"received"}) \cap late, "expired")
          /\ \A l \in Of({"received"}) \cap late : seen'[l] = seen[l]
      BY <1>2, <2>4, PutQuiet
    <3> QED BY <1>2, <1>3, <3>1 DEF Marks, Moves
  <2>5. \/ in' = Put(in, Ready, "delivered") /\ seen' = Shown(Ready)
        \/ UNCHANGED <<in, seen>>
        \/ in' = Put(in, Ready, "steer") /\ seen' = seen
        \/ in' = Put(in, Ready, "wake") /\ seen' = seen
        \/ in' = Put(in, Of({"received"}) \cap late, "expired") /\ seen' = seen
    BY Zenon DEF Take, Wait, Steer, Wake, Expire
  <2> QED BY <2>1, <2>2, <2>3, <2>4, <2>5
<1>5. waiter' \in BOOLEAN /\ steer' \in BOOLEAN /\ open' \in BOOLEAN
  BY Zenon DEF Take, Wait, Steer, Wake, Expire, IInv, TypeOK
<1>6. queued' \subseteq {"wake", "user", "held"} /\ status' \in {"idle", "queued", "running"}
  BY DEF Take, Wait, Steer, Wake, Expire, IInv, TypeOK
<1>7. ThreadTyped
  BY <1>3, <1>5, <1>6 DEF ThreadTyped, IInv, TypeOK
<1> QED BY <1>3, <1>4, <1>7, MovesKeep

LEMMA SteeredSteps ==
  ASSUME IInv, \E answer \in {"taken", "declined", "failed"} : Steered(answer)
  PROVE  IInv'
<1> USE DEF mail, rules, net, box, gate, thread
<1> DEFINE batch == Of({"steer"})
<1>1. batch \in SUBSET Letters /\ \A l \in batch : in[l] = "steer"
  BY DEF Of
<1>2. Near /\ UNCHANGED <<waiter, open, pause, status, queued, run, tail>> /\ steer' = FALSE
  BY DEF Steered, Near
<1>3. \/ in' = Put(in, batch, "delivered") /\ seen' = Shown(batch)
      \/ in' = Put(in, batch, "received") /\ seen' = seen
      \/ in' = Put(in, batch, "adrift") /\ seen' = seen
      \/ in' = Put(in, batch, "adrift") /\ seen' = Shown(batch)
  BY DEF Steered
<1>4. events' \in 0..MaxEvents
  BY LettersAssumption DEF Steered, Happens, IInv, TypeOK
<1> HIDE DEF batch
<1>5. Mapped /\ \A l \in Letters : Moves(l)
  <2>1. ASSUME NEW st \in {"delivered", "adrift"}, in' = Put(in, batch, st), seen' = Shown(batch)
        PROVE  Mapped /\ \A l \in Letters : Moves(l)
    <3>1. Mapped /\ Marks(batch, st) /\ \A l \in batch : seen'[l] = seen[l] + 1
      BY <1>1, <2>1, PutShown
    <3> QED BY <1>1, <1>2, <3>1 DEF Marks, Moves
  <2>2. ASSUME NEW st \in {"received", "adrift"}, in' = Put(in, batch, st), seen' = seen
        PROVE  Mapped /\ \A l \in Letters : Moves(l)
    <3>1. Mapped /\ Marks(batch, st) /\ \A l \in batch : seen'[l] = seen[l]
      BY <1>1, <2>2, PutQuiet
    <3> QED BY <1>1, <1>2, <3>1 DEF Marks, Moves
  <2> QED BY <1>3, <2>1, <2>2
<1>6. waiter' \in BOOLEAN /\ steer' \in BOOLEAN /\ open' \in BOOLEAN
  BY Zenon, <1>2 DEF IInv, TypeOK
<1>7. ThreadTyped
  BY <1>2, <1>4, <1>6 DEF ThreadTyped, IInv, TypeOK
<1> QED BY <1>2, <1>5, <1>7, MovesKeep

LEMMA WakeSteps ==
  ASSUME IInv,
         PrepareWake \/ Prompted \/ \E result \in {"done", "error", "stopped"} : EndTurn(result)
  PROVE  IInv'
<1> USE DEF mail, rules, net, box, gate, thread
<1>1. CASE PrepareWake
  <2>1. Near /\ UNCHANGED <<waiter, steer, seen, open, pause, tail, events>> /\ run = "none"
    BY <1>1 DEF PrepareWake, Near, Slot, CancelWake
  <2>2. \/ in' = Put(in, Of({"wake"}), "turn") /\ run' = "claimed"
        \/ in' = BackInBox(in) /\ run' = run
    BY <1>1 DEF PrepareWake
  <2>3. Of({"wake"}) \in SUBSET Letters /\ \A l \in Of({"wake"}) : in[l] = "wake"
    BY DEF Of
  <2>4. \A l \in Letters : in[l] # "turn"
    BY <2>1 DEF IInv, Reads
  <2>5. Mapped /\ \A l \in Letters : Moves(l)
    <3>1. CASE in' = Put(in, Of({"wake"}), "turn") /\ run' = "claimed"
      <4>1. Mapped /\ Marks(Of({"wake"}), "turn") /\ \A l \in Of({"wake"}) : seen'[l] = seen[l]
        BY <2>1, <2>3, <3>1, PutQuiet
      <4> QED BY <2>3, <2>4, <3>1, <4>1 DEF Marks, Moves
    <3>2. CASE in' = BackInBox(in) /\ run' = run
      BY <2>1, <3>2, BackStep DEF Moves
    <3> QED BY <2>2, <3>1, <3>2
  <2>6. waiter' \in BOOLEAN /\ steer' \in BOOLEAN /\ open' \in BOOLEAN
    BY Zenon, <2>1 DEF IInv, TypeOK
  <2>7. queued' \subseteq {"wake", "user", "held"} /\ status' \in {"idle", "queued", "running"}
    BY <1>1 DEF PrepareWake, CancelWake, Rest, IInv, TypeOK
  <2>8. ThreadTyped
    BY <2>1, <2>2, <2>6, <2>7 DEF ThreadTyped, IInv, TypeOK
  <2> QED BY <2>1, <2>5, <2>8, MovesKeep
<1>2. CASE Prompted
  <2>1. Near /\ UNCHANGED <<in, waiter, steer, open, pause, status, queued, tail, events>>
        /\ run = "wake" /\ run' = "read" /\ seen' = Shown(Of({"turn"}))
    BY <1>2 DEF Prompted, Near
  <2>2. Of({"turn"}) \in SUBSET Letters /\ \A l \in Letters : l \in Of({"turn"}) <=> in[l] = "turn"
    BY DEF Of
  <2>3. seen' = [l \in Letters |-> IF l \in Of({"turn"}) THEN seen[l] + 1 ELSE seen[l]]
    BY <2>1 DEF Shown
  <2>4. in' = [l \in Letters |-> in'[l]]
    BY <2>1 DEF IInv, TypeOK
  <2>5. Mapped /\ \A l \in Letters : Moves(l)
    BY <2>1, <2>2, <2>3, <2>4 DEF Mapped, Moves
  <2>6. waiter' \in BOOLEAN /\ steer' \in BOOLEAN /\ open' \in BOOLEAN
    BY Zenon, <2>1 DEF IInv, TypeOK
  <2>7. ThreadTyped
    BY <2>1, <2>6 DEF ThreadTyped, IInv, TypeOK, Ran
  <2> QED BY <2>1, <2>5, <2>7, MovesKeep
<1>3. ASSUME NEW result \in {"done", "error", "stopped"}, EndTurn(result) PROVE IInv'
  <2>1. Near /\ UNCHANGED <<waiter, steer, seen, open, pause, queued, events>>
        /\ run \in Ran /\ run' = "none" /\ status' = Rest(queued)
    BY <1>3 DEF EndTurn, Near
  <2>2. \/ in' = Put(in, Of({"turn"}), "delivered") /\ run = "read"
        \/ in' = Put(in, Of({"turn"}), "adrift")
    BY <1>3 DEF EndTurn, Gave
  <2>3. Of({"turn"}) \in SUBSET Letters /\ \A l \in Letters : l \in Of({"turn"}) <=> in[l] = "turn"
    BY DEF Of
  <2>4. Mapped /\ \A l \in Letters : Moves(l)
    <3>1. ASSUME NEW st, in' = Put(in, Of({"turn"}), st), (st = "delivered" /\ run = "read") \/ st = "adrift"
          PROVE  Mapped /\ \A l \in Letters : Moves(l)
      <4>1. Mapped /\ Marks(Of({"turn"}), st) /\ \A l \in Of({"turn"}) : seen'[l] = seen[l]
        BY <2>1, <2>3, <3>1, PutQuiet
      <4> QED BY <2>3, <3>1, <4>1 DEF Marks, Moves
    <3> QED BY <2>2, <3>1
  <2>5. waiter' \in BOOLEAN /\ steer' \in BOOLEAN /\ open' \in BOOLEAN
    BY Zenon, <2>1 DEF IInv, TypeOK
  <2>6. status' \in {"idle", "queued", "running"} /\ tail' \in {"none", "over", "stopped"}
    BY <1>3, <2>1 DEF EndTurn, Rest, IInv, TypeOK
  <2>7. ThreadTyped
    BY <2>1, <2>5, <2>6 DEF ThreadTyped, IInv, TypeOK
  <2> QED BY <2>1, <2>4, <2>7, MovesKeep
<1> QED BY <1>1, <1>2, <1>3

LEMMA OwnerSteps ==
  ASSUME IInv, (\E o, held \in BOOLEAN : ConfigureRecipient(o, held)) \/ Stop \/ RecipientDies
  PROVE  IInv'
<1> USE DEF mail, rules, net, box, gate, thread, Happens
<1>1. ASSUME NEW o \in BOOLEAN, NEW held \in BOOLEAN, ConfigureRecipient(o, held) PROVE IInv'
  <2> DEFINE stops == (held \/ ~o) /\ StopsWake
             kept == IF stops THEN BackInBox(in) ELSE in
             gone == {l \in Letters : kept[l] = "received"}
  <2>1. Near /\ UNCHANGED <<waiter, steer, seen, run, tail>>
        /\ open' = o /\ pause' = IF held THEN "owner" ELSE "no"
    BY <1>1 DEF ConfigureRecipient, Near
  <2>2. /\ in' = IF o THEN kept ELSE Put(kept, gone, "rejected")
        /\ IF stops THEN CancelWake ELSE UNCHANGED <<queued, status>>
    BY Zenon, <1>1 DEF ConfigureRecipient
  <2>3. /\ kept = [l \in Letters |-> kept[l]]
        /\ \A l \in Letters : kept[l] = in[l] \/ (in[l] = "wake" /\ kept[l] = "received")
    <3>1. CASE stops
      BY <3>1 DEF BackInBox
    <3>2. CASE ~stops
      BY <3>2 DEF IInv, TypeOK
    <3> QED BY <3>1, <3>2
  <2> HIDE DEF kept
  <2>4. /\ in' = [l \in Letters |-> in'[l]]
        /\ \A l \in Letters : in'[l] = kept[l] \/ (kept[l] = "received" /\ in'[l] = "rejected")
    <3>1. CASE o
      BY <2>2, <2>3, <3>1
    <3>2. CASE ~o
      <4>1. in' = [l \in Letters |-> IF l \in gone THEN "rejected" ELSE kept[l]]
        BY <2>2, <3>2 DEF Put
      <4> QED BY <4>1
    <3> QED BY <3>1, <3>2
  <2>5. seen' = [l \in Letters |-> seen'[l]]
    BY <2>1 DEF IInv, TypeOK
  <2>6. Mapped /\ \A l \in Letters : Moves(l)
    BY <2>1, <2>3, <2>4, <2>5 DEF Mapped, Moves
  <2>7. waiter' \in BOOLEAN /\ steer' \in BOOLEAN /\ open' \in BOOLEAN
    BY Zenon, <2>1 DEF IInv, TypeOK
  <2>8. queued' \subseteq {"wake", "user", "held"} /\ status' \in {"idle", "queued", "running"}
    BY <2>2 DEF CancelWake, Rest, IInv, TypeOK
  <2>9. events' \in 0..MaxEvents
    BY <1>1, LettersAssumption DEF ConfigureRecipient, IInv, TypeOK
  <2>10. pause' \in {"no", "owner", "stop", "restart", "failure"}
    BY <2>1
  <2>11. ThreadTyped
    BY <2>1, <2>7, <2>8, <2>9, <2>10 DEF ThreadTyped, IInv, TypeOK
  <2> QED BY <2>1, <2>6, <2>11, MovesKeep
<1>2. CASE Stop
  <2>1. Near /\ UNCHANGED <<waiter, steer, seen, open, run, tail>> /\ pause' = AfterStop
    BY <1>2 DEF Stop, Near
  <2>2. in' = BackInBox(in) \/ in' = in
    BY <1>2 DEF Stop
  <2>3. Mapped /\ \A l \in Letters : Moves(l)
    <3>1. CASE in' = BackInBox(in)
      BY <2>1, <3>1, BackStep DEF Moves
    <3>2. CASE in' = in
      BY <2>1, <3>2, SameStep
    <3> QED BY <2>2, <3>1, <3>2
  <2>4. waiter' \in BOOLEAN /\ steer' \in BOOLEAN /\ open' \in BOOLEAN
    BY Zenon, <2>1 DEF IInv, TypeOK
  <2>5. queued' \subseteq {"wake", "user", "held"} /\ status' \in {"idle", "queued", "running"}
    BY <1>2 DEF Stop, Rest, IInv, TypeOK
  <2>6. events' \in 0..MaxEvents /\ pause' \in {"no", "owner", "stop", "restart", "failure"}
    BY <1>2, LettersAssumption DEF Stop, AfterStop, IInv, TypeOK
  <2>7. ThreadTyped
    BY <2>1, <2>4, <2>5, <2>6 DEF ThreadTyped, IInv, TypeOK
  <2> QED BY <2>1, <2>3, <2>7, MovesKeep
<1>3. CASE RecipientDies
  <2> DEFINE ran == run \in Ran
  <2>1. /\ Near /\ open' = open
        /\ run' = "none" /\ tail' = "none" /\ waiter' = FALSE /\ steer' = FALSE
        /\ seen' \in {seen, Shown(Of({"steer"}))}
        /\ queued' = (IF queued \cap {"user", "held"} = {} THEN {} ELSE {"held"})
        /\ status' = (IF queued' = {} THEN "idle" ELSE "queued")
    BY <1>3 DEF RecipientDies, Near
  <2>2. in' = [l \in Letters |->
                 CASE in[l] = "wake" -> "received"
                   [] in[l] = "turn" -> IF ran THEN "adrift" ELSE "received"
                   [] in[l] = "steer" -> "adrift"
                   [] OTHER -> in[l]]
    BY Zenon, <1>3 DEF RecipientDies
  <2>3. \A l \in Letters :
          \/ in[l] = "wake" /\ in'[l] = "received"
          \/ in[l] = "turn" /\ in'[l] = "adrift"
          \/ in[l] = "turn" /\ in'[l] = "received" /\ ~ran
          \/ in[l] = "steer" /\ in'[l] = "adrift"
          \/ in[l] \notin {"wake", "turn", "steer"} /\ in'[l] = in[l]
    BY <2>2
  <2>4. /\ seen' = [l \in Letters |-> seen'[l]]
        /\ \A l \in Letters : seen'[l] = seen[l] \/ (in[l] = "steer" /\ seen'[l] = seen[l] + 1)
    <3>1. CASE seen' = seen
      BY <3>1 DEF IInv, TypeOK
    <3>2. CASE seen' = Shown(Of({"steer"}))
      <4>1. seen' = [l \in Letters |-> IF l \in Of({"steer"}) THEN seen[l] + 1 ELSE seen[l]]
        BY <3>2 DEF Shown
      <4>2. \A l \in Of({"steer"}) : in[l] = "steer"
        BY DEF Of
      <4> QED BY <4>1, <4>2
    <3> QED BY <2>1, <3>1, <3>2
  <2>5. \A l \in Letters : in[l] = "turn" => ran \/ run = "claimed"
    BY DEF IInv, Reads, Ran
  <2>6. Mapped
    BY <2>2, <2>4 DEF Mapped
  <2> HIDE DEF ran
  <2>7. \A l \in Letters : Moves(l)
    BY <2>1, <2>3, <2>4, <2>5 DEF Moves
  <2>8. waiter' \in BOOLEAN /\ steer' \in BOOLEAN /\ open' \in BOOLEAN
    BY Zenon, <2>1 DEF IInv, TypeOK
  <2>9. events' \in 0..MaxEvents /\ pause' \in {"no", "owner", "stop", "restart", "failure"}
    BY <1>3, LettersAssumption DEF RecipientDies, IInv, TypeOK
  <2>10. queued' \subseteq {"wake", "user", "held"} /\ status' \in {"idle", "queued", "running"}
    BY <2>1
  <2>11. ThreadTyped
    BY <2>1, <2>8, <2>9, <2>10 DEF ThreadTyped, Ran
  <2> QED BY <2>1, <2>6, <2>7, <2>11, MovesKeep
<1> QED BY <1>1, <1>2, <1>3

(***************************************************************************)
(* Every step.                                                             *)
(***************************************************************************)

LEMMA StepIInv == IInv /\ [Next]_vars => IInv'
<1> SUFFICES ASSUME IInv, [Next]_vars PROVE IInv'
  OBVIOUS
<1>1. CASE Sender
  BY <1>1, SettingSteps DEF Sender
<1>2. CASE Relay
  BY <1>2, RelaySteps
<1>3. CASE Desk
  BY <1>3, DeskSteps
<1>4. CASE Own
  BY <1>4, SteeredSteps, ReadSteps, WakeSteps, StillSteps DEF Own
<1>5. CASE Agent
  BY <1>5, ReadSteps, WakeSteps, StillSteps DEF Agent
<1>6. CASE Owner
  BY <1>6, OwnerSteps, StillSteps DEF Owner
<1>7. CASE UNCHANGED vars
  <2>1. Near /\ UNCHANGED <<in, seen, open, pause, waiter, steer, status, queued, run, tail, events>>
    BY <1>7 DEF vars, mail, rules, net, box, gate, thread, Near
  <2>2. waiter' \in BOOLEAN /\ steer' \in BOOLEAN /\ open' \in BOOLEAN
    BY Zenon, <2>1 DEF IInv, TypeOK
  <2>3. ThreadTyped
    BY <2>1, <2>2 DEF ThreadTyped, IInv, TypeOK
  <2> QED BY <2>1, <2>3, SameStep, MovesKeep
<1> QED BY <1>1, <1>2, <1>3, <1>4, <1>5, <1>6, <1>7 DEF Next

\* The parts of IInv hold in every reachable state.
THEOREM Inductive == Spec => []IInv
BY InitIInv, StepIInv, PTL DEF Spec

\* Every variable keeps the values declared for it, whatever is lost,
\* repeated or dies (AgentLetters TypeOK).
THEOREM TypeCorrect == Spec => []TypeOK
BY Inductive, PTL DEF IInv

\* What an agent asks to send is put before the other agent at most once: the
\* second look send takes makes one letter of a request, and the recipient
\* shows a letter only on its way from `received', which none takes twice.
THEOREM OncePerRequest == Spec => []ReadOnce
<1>1. IInv => ReadOnce
  <2> SUFFICES ASSUME IInv, NEW l \in Letters, NEW k \in Letters, l[1] = k[1]
               PROVE  IF l = k THEN seen[l] <= 1 ELSE seen[l] + seen[k] <= 1
    BY DEF ReadOnce
  <2>1. \A m \in Letters : seen[m] \in 0..1
    BY DEF IInv, TypeOK, Reads, InStatus, Uncertain, Settled
  <2>2. \A m \in Letters : seen[m] # 0 => m[2] = 1
    <3> SUFFICES ASSUME NEW m \in Letters, seen[m] # 0 PROVE m[2] = 1
      OBVIOUS
    <3>1. in[m] # "none"
      BY DEF IInv, Reads
    <3>2. out[m] # "none"
      BY <3>1 DEF IInv, Sent
    <3> QED BY <3>2 DEF IInv, OneMade
  <2>3. l = <<l[1], l[2]>> /\ k = <<k[1], k[2]>>
    BY DEF Letters
  <2>4. l[2] = 1 /\ k[2] = 1 => l = k
    BY <2>3
  <2> QED BY <2>1, <2>2, <2>4
<1> QED BY <1>1, Inductive, PTL

\* No letter is said to be delivered, at either end, that the agent was not
\* given: the sender repeats the recipient's word, and the recipient marks a
\* turn's letters only once the provider had its prompt.
THEOREM DeliveredIsRead == Spec => []DeliveredRead
<1>1. IInv => DeliveredRead
  BY DEF IInv, Reads, Tells, DeliveredRead
<1> QED BY <1>1, Inductive, PTL

(***************************************************************************)
(* What holds a letter back, asked by every way that brings one.           *)
(***************************************************************************)

\* The steps of this core that bring a letter ask Ready, or MayCross.
LEMMA Crossing ==
  ASSUME IInv, Take \/ Wait \/ Steer \/ PrepareWake,
         NEW l \in Letters, in[l] \notin Given, in'[l] \in Given
  PROVE  l \notin late /\ open' /\ pause' = "no"
<1>1. UNCHANGED <<open, pause>>
  BY DEF Take, Wait, Steer, PrepareWake, gate
<1>2. l \notin late /\ open /\ pause = "no"
  <2>1. CASE PrepareWake
    <3>1. MayCross
      <4> SUFFICES ASSUME ~MayCross PROVE FALSE
        OBVIOUS
      <4>1. in' = BackInBox(in)
        BY <2>1 DEF PrepareWake
      <4> QED BY <4>1 DEF BackInBox, Given
    <3>2. in' = Put(in, Of({"wake"}), "turn")
      BY <2>1, <3>1 DEF PrepareWake
    <3>3. l \in Of({"wake"})
      BY <3>2 DEF Put
    <3> QED BY Zenon, <3>1, <3>3 DEF MayCross, Allowed
  <2>2. CASE Take \/ Wait \/ Steer
    <3>1. \/ \E st \in {"delivered", "steer"} : in' = Put(in, Ready, st)
          \/ in' = in
      BY <2>2 DEF Take, Wait, Steer, net, box
    <3>2. l \in Ready
      BY <3>1 DEF Put
    <3> QED BY Zenon, <3>2 DEF Ready, Allowed
  <2> QED BY <2>1, <2>2
<1> QED BY Zenon, <1>1, <1>2

\* No other step brings one that was not there already, but an arrival that a
\* waiting command claims.
LEMMA Staying ==
  ASSUME IInv, [Next]_vars, ~(Take \/ Wait \/ Steer \/ PrepareWake),
         NEW l \in Letters, in[l] \notin Given, in'[l] \in Given
  PROVE  l \notin late /\ open' /\ pause' = "no"
<1> USE DEF mail, rules, net, box, gate, thread
<1>1. CASE Sender \/ Relay \/ UNCHANGED vars
  BY <1>1 DEF Sender, Ask, Write, ConfigureSender, SenderResumes, SenderDies, Late, Relay, Tick, Hear, Fail, vars
<1>2. CASE Desk
  <2>1. PICK k \in Letters : Deliver(k) \/ Receipt(k)
    BY <1>2 DEF Desk
  <2>2. Deliver(k)
    BY <2>1 DEF Receipt
  <2>3. open /\ open' = open /\ Accept(k)
    <3>1. open' = open
      BY <2>2 DEF Deliver
    <3>2. (open /\ Accept(k)) \/ UNCHANGED <<in, seen, waiter, pause>>
      BY Zenon, <2>2 DEF Deliver
    <3> QED BY Zenon, <3>1, <3>2
  <2> DEFINE arrived == [in EXCEPT ![k] = "received"]
             claims == {m \in Letters : arrived[m] = "received" /\ m \notin late /\ pause' = "no"}
  <2>4. in' = Put(arrived, claims, "delivered") \/ in' = arrived
    BY Zenon, <2>3 DEF Accept
  <2>5. arrived[l] \notin Given
    BY DEF IInv, TypeOK, Given
  <2> HIDE DEF arrived
  <2>6. l \in claims
    BY <2>4, <2>5 DEF Put
  <2> QED BY Zenon, <2>3, <2>6
<1>3. CASE Own
  <2>1. ~PrepareWake
    OBVIOUS
  <2>2. CASE \E answer \in {"taken", "declined", "failed"} : Steered(answer)
    <3>1. \E st \in {"delivered", "received", "adrift"} : in' = Put(in, Of({"steer"}), st)
      BY <2>2 DEF Steered
    <3> QED BY <3>1 DEF Put, Of, Given
  <2>3. CASE \E result \in {"done", "error", "stopped"} : EndTurn(result)
    <3>1. \E st \in {"delivered", "adrift"} : in' = Put(in, Of({"turn"}), st)
      BY <2>3 DEF EndTurn
    <3> QED BY <3>1 DEF Put, Of, Given
  <2>4. CASE Wake \/ Expire
    <3>1. \E L \in SUBSET Letters, st \in {"wake", "expired"} : in' = Put(in, L, st)
      BY <2>4 DEF Wake, Expire, Ready, Of
    <3> QED BY <3>1 DEF Put, Given
  <2>5. CASE StartWake \/ StartUser \/ Leave
    BY <2>5 DEF StartWake, StartUser, Leave
  <2> QED BY <1>3, <2>1, <2>2, <2>3, <2>4, <2>5 DEF Own
<1>4. CASE Agent
  BY <1>4 DEF Agent, WaitEnds, Prompted, WakeFaults
<1>5. CASE Owner
  <2>1. CASE \E o, held \in BOOLEAN : ConfigureRecipient(o, held)
    <3>1. PICK o \in BOOLEAN, held \in BOOLEAN : ConfigureRecipient(o, held)
      BY <2>1
    <3> DEFINE stops == (held \/ ~o) /\ StopsWake
               kept == IF stops THEN BackInBox(in) ELSE in
    <3>2. in' = IF o THEN kept ELSE Put(kept, {m \in Letters : kept[m] = "received"}, "rejected")
      BY Zenon, <3>1 DEF ConfigureRecipient
    <3>3. kept[l] \notin Given
      BY DEF BackInBox, Given
    <3> HIDE DEF kept
    <3> QED BY <3>2, <3>3 DEF Put, Given
  <2>2. CASE Stop
    <3>1. in' = BackInBox(in) \/ in' = in
      BY <2>2 DEF Stop
    <3> QED BY <3>1 DEF BackInBox, Given
  <2>3. CASE Message \/ ResumeHeld
    BY <2>3 DEF Message, ResumeHeld
  <2>4. CASE RecipientDies
    <3>1. in'[l] \in {"received", "adrift", in[l]}
      BY <2>4 DEF RecipientDies
    <3> QED BY <3>1 DEF Given
  <2> QED BY <1>5, <2>1, <2>2, <2>3, <2>4 DEF Owner
<1> QED BY <1>1, <1>2, <1>3, <1>4, <1>5 DEF Next

\* No letter crosses to the agent late, or while its thread is paused or off:
\* a batch is asked about when it is claimed and again when its turn starts,
\* and nothing comes between that question and the claim.
THEOREM CrossingAllowed == Spec => HeldBack
<1>1. IInv /\ [Next]_vars =>
        [\A l \in Letters : in[l] \notin Given /\ in'[l] \in Given =>
           l \notin late /\ open' /\ pause' = "no"]_vars
  BY Crossing, Staying
<1> QED BY <1>1, Inductive, PTL DEF Spec, HeldBack

=============================================================================
