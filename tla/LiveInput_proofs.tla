-------------------------- MODULE LiveInput_proofs --------------------------
(***************************************************************************)
(* What holds of an agent's live input for any answers and notices and for *)
(* every order of turns, steers, tool boundaries and deaths: an answer     *)
(* enters the transcript once, is told once unless a call failed with it,  *)
(* is repeated only until a prompt gets done, and none is lost.            *)
(*                                                                         *)
(* The invariant has two halves: Waits, where a text that was told to      *)
(* nobody still is, and Recalls, what of the transcript a next prompt      *)
(* repeats.                                                                *)
(***************************************************************************)
EXTENDS LiveInput, SequenceTheorems, TLAPS

Types ==
  /\ asked \subseteq Answers /\ held \in Seq(Answers) /\ consumed \subseteq Answers /\ notices \subseteq Notices
  /\ pendingWake \in BOOLEAN /\ wakeTimer \in BOOLEAN /\ flushTimer \in BOOLEAN
  /\ turn \in Turns /\ steer \in Steers /\ flush \in Flushes
  /\ handle \in BOOLEAN /\ doubt \in BOOLEAN /\ after \in {"none", "done", "stopped", "failed"}
  /\ archived \in BOOLEAN /\ turnsLeft \in Nat /\ eventsLeft \in Nat
  /\ told \in [Texts -> Nat] /\ noted \in [Answers -> Nat] /\ doubted \subseteq Texts /\ cleared \subseteq Answers

ScriptTypes == script \in Transcripts /\ settled \subseteq Answers

\* The two counts of OnceEach.
Counted == (\A a \in Answers : noted[a] <= 1) /\ (\A t \in Texts \ doubted : told[t] <= 1)

\* What waits, and where: the half of the invariant that does not look at the transcript.
Waits == Types /\ Channel /\ Apart /\ Fresh /\ Counted

-----------------------------------------------------------------------------
(* The held answers.                                                       *)

LEMMA HeldSet ==
  ASSUME NEW s \in Seq(Answers)
  PROVE  /\ ToSet(s) \subseteq Answers /\ (s = <<>> <=> ToSet(s) = {})
         /\ s # <<>> => Head(s) \in ToSet(s)
<1>1. Len(s) \in Nat /\ DOMAIN s = 1 .. Len(s) /\ \A i \in 1 .. Len(s) : s[i] \in Answers
  BY LenProperties, ElementOfSeq
<1>2. CASE s = <<>>
  BY <1>2 DEF ToSet
<1>3. CASE s # <<>>
  <2>1. Len(s) \in Nat \ {0}
    BY <1>3, EmptySeq
  <2>2. Head(s) = s[1] /\ 1 \in DOMAIN s
    BY <1>1, <2>1
  <2>3. Head(s) \in ToSet(s)
    BY <2>2 DEF ToSet
  <2> QED BY <1>1, <1>3, <2>3 DEF ToSet
<1> QED BY <1>2, <1>3

LEMMA EmptyHeld == <<>> \in Seq(Answers) /\ ToSet(<<>>) = {} /\ IsInjective(<<>>)
<1>1. <<>> \in Seq(Answers) /\ DOMAIN <<>> = {}
  OBVIOUS
<1> QED BY <1>1 DEF ToSet, IsInjective

LEMMA AppendedHeld ==
  ASSUME NEW s \in Seq(Answers), NEW a \in Answers, a \notin ToSet(s), IsInjective(s)
  PROVE  /\ Append(s, a) \in Seq(Answers) /\ Append(s, a) # <<>>
         /\ ToSet(Append(s, a)) = ToSet(s) \union {a} /\ IsInjective(Append(s, a))
<1> DEFINE t == Append(s, a)
<1>1. /\ t \in Seq(Answers) /\ t # <<>> /\ Len(t) = Len(s) + 1
      /\ (\A i \in 1 .. Len(s) : t[i] = s[i]) /\ t[Len(s) + 1] = a
  BY AppendProperties
<1>2. Len(s) \in Nat /\ DOMAIN s = 1 .. Len(s) /\ DOMAIN t = 1 .. Len(t)
  BY <1>1, LenProperties
<1>3. ToSet(t) = ToSet(s) \union {a}
  <2> HIDE DEF t
  <2>1. \A i \in DOMAIN t : t[i] \in ToSet(s) \union {a}
    BY <1>1, <1>2 DEF ToSet
  <2>2. \A i \in DOMAIN s : i \in DOMAIN t /\ t[i] = s[i]
    BY <1>1, <1>2
  <2>3. Len(s) + 1 \in DOMAIN t
    BY <1>1, <1>2
  <2> QED BY <1>1, <2>1, <2>2, <2>3 DEF ToSet
<1>4. IsInjective(t)
  <2> HIDE DEF t
  <2> SUFFICES ASSUME NEW i \in DOMAIN t, NEW j \in DOMAIN t, t[i] = t[j] PROVE i = j
    BY DEF IsInjective
  <2>1. \A k \in DOMAIN s : s[k] # a
    BY DEF ToSet
  <2> QED BY <1>1, <1>2, <2>1 DEF IsInjective
<1> QED BY <1>1, <1>3, <1>4

\* What one delivery takes off the held answers.
LEMMA RemovedHeld ==
  ASSUME NEW s \in Seq(Answers), NEW a, IsInjective(s)
  PROVE  /\ RemoveFirst(s, a) \in Seq(Answers)
         /\ ToSet(RemoveFirst(s, a)) = ToSet(s) \ {a} /\ IsInjective(RemoveFirst(s, a))
<1>1. Len(s) \in Nat /\ DOMAIN s = 1 .. Len(s) /\ \A i \in 1 .. Len(s) : s[i] \in Answers
  BY LenProperties, ElementOfSeq
<1>2. CASE ~\E i \in 1 .. Len(s) : s[i] = a
  BY <1>1, <1>2 DEF RemoveFirst, ToSet
<1>3. ASSUME NEW k \in 1 .. Len(s), s[k] = a
      PROVE  /\ RemoveFirst(s, a) \in Seq(Answers)
             /\ ToSet(RemoveFirst(s, a)) = ToSet(s) \ {a} /\ IsInjective(RemoveFirst(s, a))
  <2> DEFINE I == {i \in 1 .. Len(s) : s[i] = a}
             l == SubSeq(s, 1, k - 1)
             r == SubSeq(s, k + 1, Len(s))
             t == l \o r
  <2>1. I = {k}
    BY <1>1, <1>3 DEF IsInjective
  <2>2. Min(I) = k
    <3>1. \A x \in {k} : \A y \in {k} : x =< y
      BY <1>1
    <3> QED BY <2>1, <3>1 DEF Min
  <2>3. SelectInSeq(s, LAMBDA v : v = a) = k
    BY <2>1, <2>2 DEF SelectInSeq
  <2>4. RemoveFirst(s, a) = t
    BY <1>3, <2>3 DEF RemoveFirst, RemoveAt
  <2>5. l \in Seq(Answers) /\ Len(l) = k - 1 /\ \A i \in 1 .. k - 1 : l[i] = s[i]
    BY <1>1, SubSeqProperties
  <2>6. /\ r \in Seq(Answers) /\ Len(r) = Len(s) - k
        /\ \A i \in 1 .. Len(s) - k : r[i] = s[k + i]
    <3> DEFINE m == k + 1
    <3>1. \A i \in m .. Len(s) : s[i] \in Answers
      BY <1>1
    <3>2. m \in Int /\ Len(s) \in Int
      BY <1>1
    <3>3. /\ r \in Seq(Answers) /\ Len(r) = IF m <= Len(s) THEN Len(s) - m + 1 ELSE 0
          /\ \A i \in 1 .. Len(s) - m + 1 : r[i] = s[m + i - 1]
      <4> HIDE DEF m
      <4>1. r = SubSeq(s, m, Len(s))
        BY DEF m
      <4> QED BY <3>1, <3>2, <4>1, SubSeqProperties
    <3> HIDE DEF r
    <3>4. Len(s) - m + 1 = Len(s) - k /\ (m <= Len(s) <=> k < Len(s))
      BY <1>1
    <3>5. \A i \in 1 .. Len(s) - k : m + i - 1 = k + i
      BY <1>1
    <3> HIDE DEF m
    <3>6. Len(r) = Len(s) - k
      BY <1>1, <3>3, <3>4
    <3>7. \A i \in 1 .. Len(s) - k : r[i] = s[k + i]
      BY <3>3, <3>4, <3>5
    <3> QED BY <3>3, <3>6, <3>7
  <2> HIDE DEF l, r
  <2>7. /\ t \in Seq(Answers) /\ Len(t) = Len(s) - 1
        /\ \A i \in 1 .. Len(s) - 1 : t[i] = IF i <= k - 1 THEN s[i] ELSE s[i + 1]
    <3>1. t \in Seq(Answers) /\ Len(t) = Len(l) + Len(r)
      BY <2>5, <2>6, ConcatProperties
    <3>2. \A i \in 1 .. Len(l) + Len(r) : t[i] = IF i <= Len(l) THEN l[i] ELSE r[i - Len(l)]
      BY <2>5, <2>6, ConcatProperties
    <3> QED BY <1>1, <2>5, <2>6, <3>1, <3>2
  <2>8. DOMAIN t = 1 .. Len(s) - 1
    BY <2>7, LenProperties
  <2> HIDE DEF t
  <2>9. ToSet(t) = ToSet(s) \ {a}
    <3>1. \A i \in DOMAIN t : t[i] \in ToSet(s) /\ t[i] # a
      BY <1>1, <1>3, <2>7, <2>8 DEF ToSet, IsInjective
    <3>2. \A i \in DOMAIN s : s[i] # a => \E j \in DOMAIN t : t[j] = s[i]
      <4> SUFFICES ASSUME NEW i \in DOMAIN s, s[i] # a PROVE \E j \in DOMAIN t : t[j] = s[i]
        OBVIOUS
      <4>1. CASE i < k
        BY <1>1, <2>7, <2>8, <4>1
      <4>2. CASE i > k
        <5>1. i - 1 \in DOMAIN t /\ t[i - 1] = s[i]
          BY <1>1, <2>7, <2>8, <4>2
        <5> QED BY <5>1
      <4> QED BY <1>1, <1>3, <4>1, <4>2
    <3> QED BY <3>1, <3>2 DEF ToSet
  <2>10. IsInjective(t)
    <3> SUFFICES ASSUME NEW i \in DOMAIN t, NEW j \in DOMAIN t, t[i] = t[j] PROVE i = j
      BY DEF IsInjective
    <3>1. PICK p \in DOMAIN s : t[i] = s[p] /\ p = IF i <= k - 1 THEN i ELSE i + 1
      BY <1>1, <2>7, <2>8
    <3>2. PICK q \in DOMAIN s : t[j] = s[q] /\ q = IF j <= k - 1 THEN j ELSE j + 1
      BY <1>1, <2>7, <2>8
    <3>3. p = q
      BY <3>1, <3>2 DEF IsInjective
    <3> QED BY <1>1, <2>8, <3>1, <3>2, <3>3
  <2> QED BY <2>4, <2>7, <2>9, <2>10
<1> QED BY <1>2, <1>3

-----------------------------------------------------------------------------
(* The two ledgers.                                                        *)

LEMMA Tells ==
  ASSUME Types, NEW X, Tell(X)
  PROVE  /\ told' \in [Texts -> Nat]
         /\ \A t \in Texts : told'[t] = IF t \in X THEN told[t] + 1 ELSE told[t]
BY DEF Tell, Types

LEMMA Notes ==
  ASSUME Types, NEW X, Note(X)
  PROVE  /\ noted' \in [Answers -> Nat]
         /\ \A a \in Answers : noted'[a] = IF a \in X THEN noted[a] + 1 ELSE noted[a]
BY DEF Note, Types

-----------------------------------------------------------------------------
(* What the pieces of an action do.                                        *)

Kinds == {"none", "prompt", "op", "bare", "background"}
Owners == {"none", "answer", "memory", "other"}

LEMMA QueuesEffect ==
  ASSUME Types, NEW kind \in Kinds, NEW carries \in SUBSET Answers, NEW found \in SUBSET Answers,
         Queues(kind, carries, found)
  PROVE  /\ turn' \in Turns /\ turn'.phase = "queued" /\ turn'.carries = carries
         /\ turnsLeft' \in Nat /\ pendingWake' \in BOOLEAN
<1> DEFINE repeats == IF kind = "prompt" THEN found ELSE {}
<1>1. turn' = [phase |-> "queued", kind |-> kind, carries |-> carries, result |-> "none", repeats |-> repeats]
  BY DEF Queues
<1>4. repeats \in SUBSET Answers
  OBVIOUS
<1> HIDE DEF repeats
<1>2. pendingWake' \in BOOLEAN
  BY Zenon DEF Queues
<1>3. turnsLeft' \in Nat
  BY DEF Queues, Types
<1> QED BY <1>1, <1>2, <1>3, <1>4 DEF Turns, Kinds

LEMMA Records ==
  /\ Free \in Steers /\ Still \in Flushes
  /\ \A by \in Owners, t \in Texts \union {"none"} : Out(by, t) \in Steers
  /\ steer \in Steers => Detached \in Steers
  /\ \A at \in {"no", "answers", "notices", "end"} : [at |-> at, again |-> FALSE] \in Flushes
  /\ flush \in Flushes => [flush EXCEPT !.again = TRUE] \in Flushes
<1> DEFINE yes == TRUE
           no == FALSE
<1>0. yes \in BOOLEAN /\ no \in BOOLEAN
  OBVIOUS
<1>1. Free = [by |-> "none", text |-> "none", live |-> no, turn |-> "none", user |-> no]
  BY DEF Free
<1>2. ASSUME NEW by \in Owners, NEW t \in Texts \union {"none"} PROVE Out(by, t) \in Steers
  <2> DEFINE user == by = "answer" /\ turn.kind = "prompt"
  <2>1. Out(by, t) = [by |-> by, text |-> t, live |-> yes, turn |-> "own", user |-> user] /\ user \in BOOLEAN
    BY DEF Out
  <2> HIDE DEF yes, user
  <2> QED BY <1>0, <2>1 DEF Steers, Owners
<1>3. ASSUME steer \in Steers PROVE Detached \in Steers
  <2>1. Detached = [steer EXCEPT !.live = no]
    BY DEF Detached
  <2> HIDE DEF no
  <2> QED BY <1>0, <1>3, <2>1 DEF Steers
<1>4. ASSUME NEW at \in {"no", "answers", "notices", "end"} PROVE [at |-> at, again |-> no] \in Flushes
  <2> HIDE DEF no
  <2> QED BY <1>0 DEF Flushes
<1>5. ASSUME flush \in Flushes PROVE [flush EXCEPT !.again = yes] \in Flushes
  <2> HIDE DEF yes
  <2> QED BY <1>0, <1>5 DEF Flushes
<1>6. Free \in Steers
  <2> HIDE DEF no
  <2> QED BY <1>0, <1>1 DEF Steers
<1>7. Still \in Flushes
  <2>1. Still = [at |-> "no", again |-> no]
    BY DEF Still
  <2> HIDE DEF no
  <2> QED BY <1>0, <2>1 DEF Flushes
<1> QED BY <1>2, <1>3, <1>4, <1>5, <1>6, <1>7

\* A steer begins only for a running turn's handle, with the first answer.
LEMMA RoundEffect ==
  ASSUME Types, NEW answers \in Seq(Answers), Round(answers)
  PROVE  /\ steer' \in Steers /\ flush' \in Flushes
         /\ \/ steer' = steer
            \/ handle /\ answers # <<>> /\ steer.by = "none" /\ steer' = Out("answer", Head(answers))
<1>1. CASE handle /\ ~doubt /\ ~Bare /\ answers # <<>> /\ steer.by = "none"
  <2>1. steer' = Out("answer", Head(answers)) /\ flush' = [at |-> "answers", again |-> FALSE]
    BY <1>1, Zenon DEF Round
  <2>2. Head(answers) \in Texts
    BY <1>1, HeldSet DEF Texts
  <2> QED BY <1>1, <2>1, <2>2, Records DEF Owners
<1>2. CASE ~(handle /\ ~doubt /\ ~Bare /\ answers # <<>> /\ steer.by = "none")
  <2>1. steer' = steer /\ flush' = [at |-> "notices", again |-> FALSE]
    BY <1>2, Zenon DEF Round
  <2> QED BY <2>1, Records DEF Types
<1> QED BY <1>1, <1>2

LEMMA FlushEffect ==
  ASSUME Types, NEW answers \in Seq(Answers), FlushRunning(answers)
  PROVE  /\ steer' \in Steers /\ flush' \in Flushes
         /\ \/ steer' = steer
            \/ handle /\ answers # <<>> /\ steer.by = "none" /\ steer' = Out("answer", Head(answers))
<1>1. \/ flush' = [flush EXCEPT !.again = TRUE] /\ UNCHANGED steer
      \/ Round(answers)
      \/ UNCHANGED channel
  BY Zenon DEF FlushRunning
<1>2. CASE flush' = [flush EXCEPT !.again = TRUE] /\ UNCHANGED steer
  BY <1>2, Records DEF Types
<1>3. CASE Round(answers)
  BY <1>3, RoundEffect
<1>4. CASE UNCHANGED channel
  BY <1>4 DEF channel, Types
<1> QED BY <1>1, <1>2, <1>3, <1>4

\* The transcript after a message, a steer, an end.
LEMMA ScriptSteps ==
  ASSUME script \in Transcripts
  PROVE  /\ NoScript \in Transcripts
         /\ \A new \in SUBSET Answers : [script EXCEPT !.own = new] \in Transcripts /\ OwnMessage(new) \in Transcripts
         /\ \A new \in SUBSET Answers : [script EXCEPT !.earlier = new] \in Transcripts
         /\ steer.text \in Answers => SteeredMessage \in Transcripts
         /\ \A result \in {"none", "done", "stopped", "failed"} : Closed(result) \in Transcripts
<1>1. script.earlier \in SUBSET Answers /\ script.own \in SUBSET Answers /\ script.later \in SUBSET Answers
  BY DEF Transcripts
<1>2. NoScript \in Transcripts
  BY DEF NoScript, Transcripts
<1>3. ASSUME NEW new \in SUBSET Answers
      PROVE  /\ [script EXCEPT !.own = new] \in Transcripts /\ [script EXCEPT !.earlier = new] \in Transcripts
             /\ OwnMessage(new) \in Transcripts
  BY <1>1, <1>3 DEF OwnMessage, Transcripts
<1>4. ASSUME steer.text \in Answers PROVE SteeredMessage \in Transcripts
  <2>1. [script EXCEPT !.later = @ \union {steer.text}] \in Transcripts
        /\ [script EXCEPT !.earlier = @ \union {steer.text}] \in Transcripts
        /\ [earlier |-> script.earlier \union script.later, own |-> script.own \union {steer.text}, later |-> {}] \in Transcripts
    BY <1>1, <1>4 DEF Transcripts
  <2> QED BY <1>2, <2>1, Zenon DEF SteeredMessage
<1>5. ASSUME NEW result \in {"none", "done", "stopped", "failed"} PROVE Closed(result) \in Transcripts
  <2> DEFINE e == IF turn.kind # "prompt" THEN script.earlier
                  ELSE CASE result = "done"    -> script.later
                         [] result = "stopped" -> script.earlier \union script.own \union script.later
                         [] OTHER              -> script.earlier \union script.later
  <2>1. e \in SUBSET Answers
    BY <1>1
  <2>2. Closed(result) = [earlier |-> e, own |-> {}, later |-> {}]
    BY DEF Closed
  <2> HIDE DEF e
  <2> QED BY <2>1, <2>2 DEF Transcripts
<1> QED BY <1>2, <1>3, <1>4, <1>5

LEMMA EventTyped == ASSUME Types, Event PROVE eventsLeft' \in Nat
BY DEF Event, Types

LEMMA Fields ==
  /\ Free.by = "none" /\ ~Free.live
  /\ \A by \in Owners, t \in Texts \union {"none"} : Out(by, t).by = by /\ Out(by, t).text = t
  /\ steer \in Steers => Detached.by = steer.by /\ Detached.text = steer.text /\ ~Detached.live
<1> DEFINE no == FALSE
<1>1. ASSUME steer \in Steers PROVE Detached.by = steer.by /\ Detached.text = steer.text /\ Detached.live = no
  <2>1. Detached = [steer EXCEPT !.live = no]
    BY DEF Detached
  <2> HIDE DEF no
  <2> QED BY <1>1, <2>1 DEF Steers
<1>2. Free.by = "none" /\ Free.live = no
  <2>1. Free = [by |-> "none", text |-> "none", live |-> no, turn |-> "none", user |-> no]
    BY DEF Free
  <2> HIDE DEF no
  <2> QED BY <2>1
<1> QED BY <1>1, <1>2 DEF Out

\* A step that tells nobody, records nothing, and takes nothing from a place
\* but what it gives up.
LEMMA QuietStep ==
  ASSUME Waits, Types', Channel',
         UNCHANGED <<asked, held, consumed, told, noted, doubted>>, cleared \subseteq cleared',
         Carried' \subseteq Carried,
         \A n \in notices' \ notices : told[n] = 0,
         Steered' \subseteq Steered \union ToSet(held) \union notices
  PROVE  Waits'
<1>1. Carried \subseteq Answers /\ ToSet(held) \subseteq Answers
  BY HeldSet DEF Waits, Types, Carried, Turns
<1>2. Apart'
  BY <1>1, InputAssumption DEF Waits, Apart, Types
<1>3. Fresh'
  BY <1>1, InputAssumption DEF Waits, Fresh, Types
<1>4. Counted'
  BY DEF Waits, Counted
<1> QED BY <1>2, <1>3, <1>4 DEF Waits

LEMMA OverTurn ==
  ASSUME NEW result \in {"none", "done", "stopped", "failed"}
  PROVE  /\ Over(result) \in Turns /\ Over(result).phase = "over" /\ Over(result).kind = "none"
         /\ Over(result).carries = {} /\ Over(result).repeats = {}
<1>1. {} \in SUBSET Answers
  OBVIOUS
<1> QED BY <1>1 DEF Over, Turns

\* The turn goes on, no text moves.
LEMMA TurnKeeps ==
  ASSUME Waits, StoppedQueued \/ NewAttempt \/ (\E result \in {"done", "stopped", "failed"} : Ends(result)) \/ Settles \/ AfterWork
  PROVE  Waits'
<1>1. Types /\ Channel
  BY DEF Waits
<1>2. CASE StoppedQueued
  <2>1. /\ turn' = Over("stopped")
        /\ UNCHANGED <<asked, held, consumed, notices, wakes, handle, doubt, after, channel, archived, bounds, history>>
        /\ turn.phase = "queued"
    BY <1>2 DEF StoppedQueued
  <2>2. Types' /\ turn'.phase = "over"
    BY <1>1, <2>1, OverTurn DEF Types, wakes, channel, bounds, history
  <2> QED BY <1>1, <2>1, <2>2, QuietStep DEF Channel, Carried, Steered, channel, history
<1>3. CASE NewAttempt
  <2>1. /\ steer' = Detached
        /\ UNCHANGED <<asked, held, consumed, notices, wakes, turn, handle, after, flush, archived, turnsLeft, history>>
    BY <1>3 DEF NewAttempt
  <2>2. doubt' \in BOOLEAN
    BY <1>3 DEF NewAttempt
  <2>3. eventsLeft' \in Nat
    BY <1>1, <1>3, EventTyped DEF NewAttempt
  <2>4. steer' \in Steers
    BY <1>1, <2>1, Records DEF Types
  <2>5. Types'
    BY <1>1, <2>1, <2>2, <2>3, <2>4 DEF Types, wakes, history
  <2>6. Channel' /\ Steered' = Steered /\ Carried' = Carried
    BY <1>1, <2>1, Fields DEF Types, Channel, Steered, Carried
  <2> QED BY <2>1, <2>5, <2>6, QuietStep DEF history
<1>4. ASSUME NEW result \in {"done", "stopped", "failed"}, Ends(result) PROVE Waits'
  <2>1. /\ turn.phase = "running" /\ steer' = Detached
        /\ turn' = [turn EXCEPT !.phase = "closing", !.result = IF archived THEN "stopped" ELSE result]
        /\ UNCHANGED <<asked, held, consumed, notices, wakes, after, flush, archived, turnsLeft, history>>
    BY <1>4 DEF Ends
  <2>2. handle' \in BOOLEAN /\ ~handle' /\ doubt' \in BOOLEAN /\ eventsLeft' \in Nat
    <3>1. Event \/ eventsLeft' = eventsLeft
      BY <1>4 DEF Ends
    <3> QED BY <1>1, <1>4, <3>1, EventTyped DEF Ends, Types
  <2>3. turn' \in Turns /\ turn'.phase = "closing"
    BY <1>1, <2>1 DEF Types, Turns
  <2>4. steer' \in Steers
    BY <1>1, <2>1, Records DEF Types
  <2>5. Types'
    BY <1>1, <2>1, <2>2, <2>3, <2>4 DEF Types, wakes, history
  <2>6. Channel' /\ Steered' = Steered /\ Carried' = Carried
    BY <1>1, <2>1, <2>2, <2>3, Fields DEF Types, Channel, Steered, Carried
  <2> QED BY <2>1, <2>5, <2>6, QuietStep DEF history
<1>5. CASE Settles
  <2>1. /\ turn.phase = "closing" /\ turn' = Over(turn.result) /\ after' = turn.result
        /\ steer' = [steer EXCEPT !.turn = IF @ = "own" THEN turn.result ELSE @]
        /\ UNCHANGED <<asked, held, consumed, notices, wakes, handle, doubt, flush, archived, bounds,
                       told, noted, doubted, cleared>>
    BY <1>5 DEF Settles
  <2>3. turn.result \in {"none", "done", "stopped", "failed"}
    BY <1>1 DEF Types, Turns
  <2>2. turn' \in Turns /\ turn'.phase = "over" /\ after' \in {"none", "done", "stopped", "failed"}
    BY <1>1, <2>1, <2>3, OverTurn
  <2>4. /\ steer' \in Steers /\ steer'.by = steer.by /\ steer'.text = steer.text
        /\ steer'.live = steer.live
    <3> DEFINE end == IF steer.turn = "own" THEN turn.result ELSE steer.turn
    <3>1. steer' = [steer EXCEPT !.turn = end]
      BY <1>1, <2>1 DEF Types, Steers
    <3>2. end \in {"none", "own", "done", "stopped", "failed"}
      BY <1>1, <2>3 DEF Types, Steers
    <3> HIDE DEF end
    <3> QED BY <1>1, <3>1, <3>2 DEF Types, Steers
  <2>5. Types'
    BY <1>1, <2>1, <2>2, <2>4 DEF Types, wakes, bounds
  <2>6. Channel' /\ Steered' = Steered /\ Carried' = Carried
    BY <1>1, <2>1, <2>2, <2>4 DEF Types, Channel, Steered, Carried
  <2> QED BY <2>1, <2>5, <2>6, QuietStep
<1>6. CASE AfterWork
  <2>1. after' = "none" /\ UNCHANGED <<asked, held, consumed, notices, turn, handle, doubt, channel, archived, bounds, history>>
    BY <1>6 DEF AfterWork
  <2>2. pendingWake' \in BOOLEAN /\ wakeTimer' \in BOOLEAN /\ flushTimer' \in BOOLEAN
    BY <1>6, Zenon DEF AfterWork
  <2>3. Types'
    BY <1>1, <2>1, <2>2 DEF Types, channel, bounds, history
  <2>4. Channel' /\ Steered' = Steered /\ Carried' = Carried
    BY <1>1, <2>1 DEF Channel, Steered, Carried, channel
  <2> QED BY <2>1, <2>3, <2>4, QuietStep DEF history
<1> QED BY <1>2, <1>3, <1>4, <1>5, <1>6

\* A turn of the core's own opens, or the wake waits for the running one.
LEMMA OpensKeeps ==
  ASSUME Waits, (\E kind \in Kinds : OtherStarts(kind)) \/ DriverWakes \/ WakeTimer
  PROVE  Waits'
<1>1. Types /\ Channel
  BY DEF Waits
<1>2. /\ UNCHANGED <<asked, held, consumed, notices, flushTimer, handle, doubt, after, channel, archived, history>>
      /\ \/ ~Busy /\ \E kind \in Kinds : Queues(kind, {}, {})
         \/ UNCHANGED <<turn, turnsLeft>>
  BY DEF OtherStarts, DriverWakes, WakeTimer, Wakes, Kinds
<1>3. wakeTimer' \in BOOLEAN
  <2>1. wakeTimer' = wakeTimer \/ wakeTimer' = FALSE
    BY DEF OtherStarts, DriverWakes, WakeTimer
  <2> QED BY <1>1, <2>1 DEF Types
<1>4. eventsLeft' \in Nat
  BY <1>1, EventTyped DEF OtherStarts, DriverWakes, WakeTimer, Types
<1>5. pendingWake' \in BOOLEAN
  BY Zenon DEF OtherStarts, DriverWakes, WakeTimer, Wakes, Queues
<1>6. turn' \in Turns /\ turnsLeft' \in Nat /\ Carried' = Carried /\ (turn.phase = "running" => turn'.phase = "running")
  <2>1. CASE UNCHANGED <<turn, turnsLeft>>
    BY <1>1, <2>1 DEF Types, Carried
  <2>2. ASSUME NEW kind \in Kinds, ~Busy, Queues(kind, {}, {})
        PROVE  turn' \in Turns /\ turnsLeft' \in Nat /\ Carried' = Carried /\ turn.phase # "running"
    <3>1. {} \in SUBSET Answers
      OBVIOUS
    <3>2. turn' \in Turns /\ turn'.carries = {} /\ turnsLeft' \in Nat
      BY <1>1, <2>2, <3>1, QueuesEffect
    <3>3. turn.phase = "over"
      BY <2>2 DEF Busy
    <3> QED BY <3>2, <3>3 DEF Carried
  <2> QED BY <1>2, <2>1, <2>2
<1>7. Types'
  BY <1>1, <1>2, <1>3, <1>4, <1>5, <1>6 DEF Types, channel, history
<1>8. Channel' /\ Steered' = Steered
  BY <1>1, <1>2, <1>6 DEF Channel, Steered, channel
<1> QED BY <1>2, <1>6, <1>7, <1>8, QuietStep DEF history

\* The channel changes hands.
LEMMA SteerStep ==
  ASSUME Waits, Types',
         UNCHANGED <<asked, held, consumed, turn, handle, told, noted, doubted, cleared>>,
         \A n \in notices' \ notices : told[n] = 0,
         \/ steer' = steer \/ steer' = Free
         \/ handle /\ held # <<>> /\ steer' = Out("answer", Head(held))
         \/ handle /\ \E n \in notices : steer' = Out("memory", n)
         \/ handle /\ steer' = Out("other", "none")
  PROVE  Waits'
<1>1. Types /\ Channel
  BY DEF Waits
<1>2. Carried' = Carried
  BY DEF Carried
<1>3. held # <<>> => Head(held) \in ToSet(held) /\ Head(held) \in Answers
  BY <1>1, HeldSet DEF Types
<1>4. \A n \in notices : n \in Notices
  BY <1>1 DEF Types
<1>5. Channel' /\ Steered' \subseteq Steered \union ToSet(held) \union notices
  <2>1. CASE steer' = steer
    BY <1>1, <2>1 DEF Channel, Steered
  <2>2. CASE steer' = Free
    BY <1>1, <2>2, Fields DEF Channel, Steered
  <2>3. CASE handle /\ held # <<>> /\ steer' = Out("answer", Head(held))
    <3>1. steer'.by = "answer" /\ steer'.text = Head(held)
      BY <1>3, <2>3, Fields DEF Owners, Texts
    <3> QED BY <1>1, <1>3, <2>3, <3>1 DEF Channel, Steered
  <2>4. ASSUME NEW n \in notices, handle, steer' = Out("memory", n)
        PROVE  Channel' /\ Steered' \subseteq Steered \union ToSet(held) \union notices
    <3>1. steer'.by = "memory" /\ steer'.text = n
      BY <1>4, <2>4, Fields DEF Owners, Texts
    <3> QED BY <1>1, <1>4, <2>4, <3>1 DEF Channel, Steered
  <2>5. CASE handle /\ steer' = Out("other", "none")
    <3>1. steer'.by = "other"
      BY <2>5, Fields DEF Owners
    <3> QED BY <1>1, <2>5, <3>1 DEF Channel, Steered
  <2> QED BY <2>1, <2>2, <2>3, <2>4, <2>5
<1> QED BY <1>2, <1>5, QuietStep

LEMMA ChannelKeeps ==
  ASSUME Waits, FlushGoesOn \/ InputReady \/ OtherSteers \/ OtherSettles \/ (\E n \in Notices : Notice(n))
  PROVE  Waits'
<1>1. Types /\ held \in Seq(Answers)
  BY DEF Waits, Types
<1>2. CASE FlushGoesOn
  <2>1. UNCHANGED <<asked, held, consumed, notices, wakes, running, archived, bounds, history>>
    BY <1>2 DEF FlushGoesOn
  <2>2. \/ handle /\ UNCHANGED flush /\ \E n \in notices : steer' = Out("memory", n)
        \/ Round(held)
        \/ flush' = Still /\ UNCHANGED steer
    BY <1>2 DEF FlushGoesOn
  <2>3. /\ steer' \in Steers /\ flush' \in Flushes
        /\ \/ steer' = steer
           \/ handle /\ held # <<>> /\ steer' = Out("answer", Head(held))
           \/ handle /\ \E n \in notices : steer' = Out("memory", n)
    <3>1. CASE handle /\ UNCHANGED flush /\ \E n \in notices : steer' = Out("memory", n)
      <4>1. \A n \in notices : n \in Texts
        BY <1>1 DEF Types, Texts
      <4> QED BY <1>1, <3>1, <4>1, Records DEF Types, Owners
    <3>2. CASE Round(held)
      BY <1>1, <3>2, RoundEffect
    <3>3. CASE flush' = Still /\ UNCHANGED steer
      BY <1>1, <3>3, Records DEF Types
    <3> QED BY <2>2, <3>1, <3>2, <3>3
  <2>4. Types'
    BY <1>1, <2>1, <2>3 DEF Types, wakes, running, bounds, history
  <2> QED BY <2>1, <2>3, <2>4, SteerStep DEF running, history
<1>3. CASE InputReady
  <2>1. FlushRunning(held) /\ UNCHANGED <<asked, held, consumed, notices, wakes, running, archived, bounds, history>>
    BY <1>3 DEF InputReady
  <2>2. /\ steer' \in Steers /\ flush' \in Flushes
        /\ steer' = steer \/ (handle /\ held # <<>> /\ steer' = Out("answer", Head(held)))
    BY <1>1, <2>1, FlushEffect
  <2>3. Types'
    BY <1>1, <2>1, <2>2 DEF Types, wakes, running, bounds, history
  <2> QED BY <2>1, <2>2, <2>3, SteerStep DEF running, history
<1>4. CASE OtherSteers
  <2>1. /\ handle /\ steer' = Out("other", "none")
        /\ UNCHANGED <<asked, held, consumed, notices, wakes, running, flush, archived, turnsLeft, history>>
    BY <1>4 DEF OtherSteers
  <2>2. steer' \in Steers /\ eventsLeft' \in Nat
    BY <1>1, <1>4, <2>1, Records, EventTyped DEF OtherSteers, Owners
  <2>3. Types'
    BY <1>1, <2>1, <2>2 DEF Types, wakes, running, history
  <2> QED BY <2>1, <2>3, SteerStep DEF running, history
<1>5. CASE OtherSettles
  <2>1. UNCHANGED <<asked, held, consumed, notices, wakes, running, archived, bounds, history>>
    BY <1>5 DEF OtherSettles
  <2>2. \/ steer' = Free /\ flush' = [flush EXCEPT !.again = TRUE]
        \/ handle /\ held # <<>> /\ steer' = Out("answer", Head(held)) /\ flush' = [at |-> "answers", again |-> FALSE]
        \/ steer' = Free /\ flush' = [at |-> "notices", again |-> FALSE]
    BY <1>5, Zenon DEF OtherSettles
  <2>3. held # <<>> => Head(held) \in Texts
    BY <1>1, HeldSet DEF Texts
  <2>4. steer' \in Steers /\ flush' \in Flushes
    BY <1>1, <2>2, <2>3, Records DEF Types, Owners
  <2>5. Types'
    BY <1>1, <2>1, <2>4 DEF Types, wakes, running, bounds, history
  <2> QED BY <2>1, <2>2, <2>5, SteerStep DEF running, history
<1>6. ASSUME NEW n \in Notices, Notice(n) PROVE Waits'
  <2>1. /\ told[n] = 0 /\ notices' = notices \union {n} /\ FlushRunning(held)
        /\ UNCHANGED <<asked, held, consumed, wakes, running, archived, bounds, history>>
    BY <1>6 DEF Notice
  <2>2. /\ steer' \in Steers /\ flush' \in Flushes
        /\ steer' = steer \/ (handle /\ held # <<>> /\ steer' = Out("answer", Head(held)))
    BY <1>1, <2>1, FlushEffect
  <2>3. Types'
    BY <1>1, <2>1, <2>2 DEF Types, wakes, running, bounds, history
  <2>4. \A m \in notices' \ notices : told[m] = 0
    BY <2>1
  <2> QED BY <2>1, <2>2, <2>3, <2>4, SteerStep DEF running, history
<1> QED BY <1>2, <1>3, <1>4, <1>5, <1>6

\* A step that moves texts: X is told, N enters the transcript.  What is told or
\* noted is gone from where it was, and nothing comes from nowhere or is lost.
TextsMove(X, N) ==
  /\ \A t \in Texts : told'[t] = IF t \in X THEN told[t] + 1 ELSE told[t]
  /\ \A a \in Answers : noted'[a] = IF a \in N THEN noted[a] + 1 ELSE noted[a]
  /\ cleared \subseteq cleared' /\ doubted \subseteq doubted'
  /\ X \ doubted' \subseteq ToSet(held) \union consumed \union Carried \union notices \union Steered
  /\ N \subseteq asked \union ToSet(held) \union Steered
  /\ (X \ doubted') \intersect
       (asked' \union ToSet(held') \union consumed' \union notices' \union Carried' \union Steered') = {}
  /\ N \intersect (asked' \union ToSet(held') \union Steered') = {}
  /\ asked' \union ToSet(held') \union consumed' \union Carried' \union (Steered' \intersect Answers)
       \subseteq asked \union ToSet(held) \union consumed \union Carried \union Steered
  /\ asked' \union ToSet(held') \union (Steered' \intersect Answers) \subseteq asked \union ToSet(held) \union Steered
  /\ notices' \union (Steered' \intersect Notices) \subseteq notices \union Steered

LEMMA TextStep ==
  ASSUME Waits, Types', Channel', Apart', NEW X \in SUBSET Texts, NEW N \in SUBSET Answers, TextsMove(X, N)
  PROVE  Waits'
<1> USE DEF TextsMove
<1>1. /\ Types /\ ToSet(held') \subseteq Answers /\ Carried' \subseteq Answers
      /\ Steered' \subseteq Texts
  <2>1. Types
    BY DEF Waits
  <2>2. ToSet(held') \subseteq Answers
    BY HeldSet DEF Types
  <2>3. Carried' \subseteq Answers
    BY DEF Carried, Types, Turns
  <2>4. Steered' \subseteq Texts
    BY DEF Steered, Channel, Texts
  <2> QED BY <2>1, <2>2, <2>3, <2>4
<1> DEFINE P == asked \union ToSet(held) \union consumed \union notices \union Carried \union Steered
           Q == asked' \union ToSet(held') \union consumed' \union notices' \union Carried' \union Steered'
<1>2. Q \subseteq P /\ Q \subseteq Texts /\ X \ doubted' \subseteq P
  BY <1>1 DEF Types, Texts
<1>3. \A t \in P : told[t] = 0 \/ t \in doubted
  BY DEF Waits, Fresh
<1>4. \A t \in Texts : told[t] \in Nat
  BY <1>1 DEF Types
<1>5. \A t \in Q : told'[t] = 0 \/ t \in doubted'
  <2> HIDE DEF P
  <2> QED BY <1>2, <1>3
<1>6. \A a \in N : noted[a] = 0
  BY DEF Waits, Fresh
<1>7. Fresh'
  <2>1. \A a \in asked' \union ToSet(held') \union (Steered' \intersect Answers) : a \in Answers /\ noted'[a] = 0
    BY <1>1 DEF Types, Waits, Fresh
  <2> QED BY <1>5, <2>1 DEF Fresh
<1>8. Counted'
  <2>1. \A a \in Answers : noted'[a] <= 1
    <3>1. \A a \in Answers : noted[a] \in Nat /\ noted[a] <= 1
      BY <1>1 DEF Types, Waits, Counted
    <3> QED BY <1>6, <3>1
  <2>2. \A t \in Texts \ doubted' : told'[t] <= 1
    <3>1. \A t \in Texts \ doubted : told[t] <= 1
      BY DEF Waits, Counted
    <3> HIDE DEF P
    <3> QED BY <1>2, <1>3, <1>4, <3>1
  <2> QED BY <2>1, <2>2 DEF Counted
<1> QED BY <1>7, <1>8 DEF Waits

LEMMA UserStartsKeeps == ASSUME Waits, ScriptTypes, UserStarts PROVE Waits'
<1>1. Types /\ Channel /\ Apart /\ ToSet(held) \subseteq Answers /\ ToSet(<<>>) = {}
  BY HeldSet, EmptyHeld DEF Waits, Types
<1>2. /\ turn.phase = "over" /\ Queues("prompt", {}, script.earlier)
      /\ UNCHANGED <<asked, notices, wakeTimer, flushTimer, handle, doubt, after, channel, archived, eventsLeft,
                     told, doubted, cleared>>
  BY DEF UserStarts, Busy
<1>3. turn' \in Turns /\ turn'.carries = {} /\ turnsLeft' \in Nat /\ pendingWake' \in BOOLEAN
  <2>1. {} \in SUBSET Answers /\ script.earlier \in SUBSET Answers
    BY DEF ScriptTypes, Transcripts
  <2> QED BY <1>1, <1>2, <2>1, QueuesEffect DEF Kinds
<1>4. Carried = {} /\ Carried' = {} /\ Steered' = Steered
  BY <1>2, <1>3 DEF Carried, Steered, channel
<1>5. Channel'
  BY <1>1, <1>2 DEF Channel, channel
<1>6. CASE RecordsHeld /\ Note(ToSet(held))
  <2>1. steer.by = "none" /\ held' = <<>> /\ consumed' = consumed \union ToSet(held)
    BY <1>6 DEF RecordsHeld
  <2>2. Steered = {}
    BY <2>1 DEF Steered
  <2>3. /\ noted' \in [Answers -> Nat]
        /\ \A a \in Answers : noted'[a] = IF a \in ToSet(held) THEN noted[a] + 1 ELSE noted[a]
    BY <1>1, <1>6, Notes
  <2>4. Types'
    BY <1>1, <1>2, <1>3, <2>1, <2>3, EmptyHeld DEF Types, channel
  <2>5. Apart'
    BY <1>1, <1>2, <1>4, <2>1, <2>2, EmptyHeld DEF Apart
  <2>6. \A t \in Texts : told'[t] = IF t \in {} THEN told[t] + 1 ELSE told[t]
    BY <1>2
  <2>7. TextsMove({}, ToSet(held))
    BY <1>1, <1>2, <1>4, <2>1, <2>2, <2>3, <2>6 DEF TextsMove, Apart
  <2>8. {} \in SUBSET Texts /\ ToSet(held) \in SUBSET Answers
    BY <1>1
  <2> QED BY <1>5, <2>4, <2>5, <2>7, <2>8, TextStep
<1>7. CASE UNCHANGED <<held, consumed, noted>>
  <2>1. Types'
    BY <1>1, <1>2, <1>3, <1>7 DEF Types, channel
  <2> QED BY <1>2, <1>4, <1>5, <1>7, <2>1, QuietStep
<1> QED BY <1>6, <1>7 DEF UserStarts

LEMMA StartsKeeps == ASSUME Waits, Starts PROVE Waits'
<1>1. Types /\ Channel /\ Apart /\ ToSet(held) \subseteq Answers /\ ToSet(<<>>) = {}
  BY HeldSet, EmptyHeld DEF Waits, Types
<1> DEFINE taken == IF Takes THEN consumed \union ToSet(held) ELSE {}
           X == taken \union turn.carries \union Unsent
<1>2. /\ turn.phase = "queued" /\ turn' = [turn EXCEPT !.phase = "running", !.carries = {}]
      /\ Tell(X) /\ notices' = notices \ Unsent
      /\ IF Takes THEN held' = <<>> /\ consumed' = {} ELSE UNCHANGED <<held, consumed>>
      /\ UNCHANGED <<asked, wakes, after, channel, archived, bounds, noted, doubted, cleared>>
  BY DEF Starts, Drops
<1>3. handle' /\ handle' \in BOOLEAN /\ doubt' \in BOOLEAN
  BY DEF Starts
<1>4. turn' \in Turns /\ turn'.phase = "running" /\ turn.carries \subseteq Answers
  BY <1>1, <1>2 DEF Types, Turns
<1>5. Carried = turn.carries /\ Carried' = {} /\ Steered' = Steered
  BY <1>2, <1>4 DEF Carried, Steered, channel
<1>6. Channel'
  BY <1>1, <1>2, <1>3, <1>4 DEF Channel, channel
<1>7. Takes => Steered = {}
  BY DEF Takes, Steered
<1>8. Unsent \subseteq notices /\ Unsent \intersect Steered = {} /\ notices \subseteq Notices
  BY <1>1 DEF Unsent, Steered, Types
<1>9. X \in SUBSET Texts
  BY <1>1, <1>4, <1>8 DEF Types, Texts
<1>10. told' \in [Texts -> Nat] /\ \A t \in Texts : told'[t] = IF t \in X THEN told[t] + 1 ELSE told[t]
  BY <1>1, <1>2, Tells
<1>11. ToSet(held') \subseteq ToSet(held) \ taken /\ consumed' \subseteq consumed \ taken /\ held' \in Seq(Answers)
       /\ ToSet(held) \union consumed \subseteq ToSet(held') \union consumed' \union taken /\ IsInjective(held')
  BY <1>1, <1>2, EmptyHeld DEF Types, Apart
<1>12. Types'
  BY <1>1, <1>2, <1>3, <1>4, <1>10, <1>11 DEF Types, wakes, channel, bounds
<1>13. Apart'
  BY <1>1, <1>2, <1>5, <1>11 DEF Apart
<1>14. \A a \in Answers : noted'[a] = IF a \in {} THEN noted[a] + 1 ELSE noted[a]
  BY <1>2
<1>15. X \intersect (asked' \union ToSet(held') \union consumed' \union notices' \union Carried' \union Steered') = {}
  <2>1. taken \subseteq consumed \union ToSet(held) /\ (taken # {} => Steered = {})
    BY <1>7
  <2> HIDE DEF taken
  <2>2. taken \intersect (asked \union ToSet(held') \union consumed' \union notices \union Steered) = {}
    BY <1>1, <1>8, <1>11, <2>1, InputAssumption DEF Apart, Types
  <2>3. turn.carries \intersect (asked \union ToSet(held') \union consumed' \union notices \union Steered) = {}
    BY <1>1, <1>4, <1>5, <1>8, <1>11, InputAssumption DEF Apart
  <2>4. Unsent \intersect (asked \union ToSet(held') \union consumed' \union notices' \union Steered) = {}
    BY <1>1, <1>2, <1>8, <1>11, InputAssumption DEF Types
  <2> QED BY <1>2, <1>5, <2>2, <2>3, <2>4
<1> HIDE DEF taken
<1>16. X \subseteq ToSet(held) \union consumed \union Carried \union notices \union Steered
  BY <1>5, <1>8 DEF taken
<1> HIDE DEF X
<1>17. notices' \subseteq notices /\ ToSet(held') \subseteq ToSet(held) /\ consumed' \subseteq consumed
  BY <1>2, <1>11
<1>18. ToSet(held) \union consumed \union Carried \subseteq ToSet(held') \union consumed' \union X
  BY <1>5, <1>11 DEF X
<1>19. TextsMove(X, {})
  BY <1>2, <1>5, <1>10, <1>14, <1>15, <1>16, <1>17, <1>18 DEF TextsMove
<1>20. {} \in SUBSET Answers
  OBVIOUS
<1> QED BY <1>6, <1>9, <1>12, <1>13, <1>19, <1>20, TextStep

LEMMA FlushTimerKeeps == ASSUME Waits, ScriptTypes, FlushTimer PROVE Waits'
<1>1. Types /\ Channel /\ Apart /\ ToSet(held) \subseteq Answers /\ ToSet(<<>>) = {}
  BY HeldSet, EmptyHeld DEF Waits, Types
<1>2. UNCHANGED <<asked, consumed, notices, wakeTimer, handle, doubt, after, channel, archived, eventsLeft,
                  told, doubted, cleared>>
  BY DEF FlushTimer
<1>3. flushTimer' \in BOOLEAN
  BY DEF FlushTimer
<1>4. CASE UNCHANGED <<turn, pendingWake, turnsLeft, held, noted>>
  <2>1. Types'
    BY <1>1, <1>2, <1>3, <1>4 DEF Types, channel
  <2>2. Channel' /\ Carried' = Carried /\ Steered' = Steered
    BY <1>1, <1>2, <1>4 DEF Channel, Carried, Steered, channel
  <2> QED BY <1>2, <1>4, <2>1, <2>2, QuietStep
<1>5. CASE CanFlush(held) /\ steer.by = "none" /\ Opens(held, script) /\ Note(ToSet(held))
  <2>1. turn.phase = "over" /\ held' = <<>> /\ Queues("prompt", ToSet(held), script.earlier)
    BY <1>5 DEF CanFlush, Busy, Opens
  <2>2. turn' \in Turns /\ turn'.phase = "queued" /\ turn'.carries = ToSet(held) /\ turnsLeft' \in Nat /\ pendingWake' \in BOOLEAN
    <3>1. ToSet(held) \in SUBSET Answers /\ script.earlier \in SUBSET Answers
      BY <1>1 DEF ScriptTypes, Transcripts
    <3> QED BY <1>1, <2>1, <3>1, QueuesEffect DEF Kinds
  <2>3. Carried = {} /\ Carried' = ToSet(held) /\ Steered = {} /\ Steered' = {}
    BY <1>2, <1>5, <2>1, <2>2 DEF Carried, Steered, channel
  <2>4. /\ noted' \in [Answers -> Nat]
        /\ \A a \in Answers : noted'[a] = IF a \in ToSet(held) THEN noted[a] + 1 ELSE noted[a]
    BY <1>1, <1>5, Notes
  <2>5. Types'
    BY <1>1, <1>2, <1>3, <2>1, <2>2, <2>4, EmptyHeld DEF Types, channel
  <2>6. Channel'
    BY <1>1, <1>2, <2>1 DEF Channel, channel
  <2>7. Apart'
    BY <1>1, <1>2, <2>1, <2>3, EmptyHeld DEF Apart
  <2>8. TextsMove({}, ToSet(held))
    BY <1>1, <1>2, <2>1, <2>3, <2>4 DEF TextsMove, Apart
  <2>9. {} \in SUBSET Texts /\ ToSet(held) \in SUBSET Answers
    BY <1>1
  <2> QED BY <2>5, <2>6, <2>7, <2>8, <2>9, TextStep
<1> QED BY <1>4, <1>5 DEF FlushTimer

LEMMA AnswerKeeps == ASSUME Waits, ScriptTypes, NEW a \in Answers, Answer(a) PROVE Waits'
<1> DEFINE answers == Append(held, a)
<1>1. Types /\ Channel /\ Apart /\ ToSet(held) \subseteq Answers /\ ToSet(<<>>) = {}
  BY HeldSet, EmptyHeld DEF Waits, Types
<1>2. /\ a \in asked /\ asked' = asked \ {a} /\ FlushRunning(answers)
      /\ UNCHANGED <<consumed, notices, wakeTimer, flushTimer, handle, doubt, after, archived, eventsLeft,
                     told, doubted, cleared>>
      /\ \/ CanFlush(answers) /\ steer.by = "none" /\ Opens(answers, script) /\ Note(ToSet(answers))
         \/ held' = answers /\ UNCHANGED <<turn, pendingWake, turnsLeft, noted>>
  BY DEF Answer
<1>3. /\ answers \in Seq(Answers) /\ answers # <<>> /\ IsInjective(answers)
      /\ ToSet(answers) = ToSet(held) \union {a}
  <2>1. a \notin ToSet(held)
    BY <1>1, <1>2 DEF Apart
  <2> QED BY <1>1, <2>1, AppendedHeld DEF Types, Apart
<1>4. Head(answers) \in ToSet(answers)
  BY <1>3, HeldSet
<1> HIDE DEF answers
<1>5. /\ steer' \in Steers /\ flush' \in Flushes
      /\ \/ steer' = steer
         \/ handle /\ steer.by = "none" /\ steer' = Out("answer", Head(answers))
  BY <1>1, <1>2, <1>3, FlushEffect
<1>6. \/ steer' = steer /\ Steered' = Steered
      \/ handle /\ steer'.by = "answer" /\ steer'.text \in ToSet(answers)
         /\ Steered' \subseteq ToSet(answers) /\ Carried = {}
  <2>1. CASE steer' = steer
    BY <2>1 DEF Steered
  <2>2. CASE handle /\ steer' = Out("answer", Head(answers))
    <3>1. Head(answers) \in Texts
      BY <1>1, <1>3, <1>4 DEF Texts
    <3>2. steer'.by = "answer" /\ steer'.text = Head(answers)
      BY <2>2, <3>1, Fields DEF Owners
    <3>3. turn.phase = "running"
      BY <1>1, <2>2 DEF Channel
    <3> QED BY <1>4, <2>2, <3>2, <3>3 DEF Steered, Carried
  <2> QED BY <1>5, <2>1, <2>2
<1>7. ToSet(answers) \subseteq Answers /\ ToSet(answers) \subseteq ToSet(held) \union asked
  BY <1>1, <1>2, <1>3
<1>8. CASE held' = answers /\ UNCHANGED <<turn, pendingWake, turnsLeft, noted>>
  <2>1. Types'
    BY <1>1, <1>2, <1>3, <1>5, <1>8 DEF Types
  <2>2. Carried' = Carried
    BY <1>8 DEF Carried
  <2>3. Channel'
    BY <1>1, <1>2, <1>6, <1>7, <1>8 DEF Channel
  <2>4. Apart'
    BY <1>1, <1>2, <1>3, <1>6, <1>8, <2>2 DEF Apart
  <2>5. TextsMove({}, {})
    <3>1. Steered' \subseteq Steered \union ToSet(answers)
      BY <1>6
    <3>2. Steered' \intersect Notices \subseteq Steered
      BY <1>6, <1>7, InputAssumption
    <3> QED BY <1>1, <1>2, <1>3, <1>7, <1>8, <2>2, <3>1, <3>2 DEF TextsMove
  <2>6. {} \in SUBSET Texts /\ {} \in SUBSET Answers
    OBVIOUS
  <2> QED BY <2>1, <2>3, <2>4, <2>5, <2>6, TextStep
<1>9. CASE CanFlush(answers) /\ steer.by = "none" /\ Opens(answers, script) /\ Note(ToSet(answers))
  <2>1. turn.phase = "over" /\ held' = <<>> /\ Queues("prompt", ToSet(answers), script.earlier)
    BY <1>9 DEF CanFlush, Busy, Opens
  <2>2. /\ turn' \in Turns /\ turn'.phase = "queued" /\ turn'.carries = ToSet(answers)
        /\ turnsLeft' \in Nat /\ pendingWake' \in BOOLEAN
    <3>1. ToSet(answers) \in SUBSET Answers /\ script.earlier \in SUBSET Answers
      BY <1>7 DEF ScriptTypes, Transcripts
    <3> QED BY <1>1, <2>1, <3>1, QueuesEffect DEF Kinds
  <2>3. steer' = steer /\ ~handle
    BY <1>1, <1>5, <2>1 DEF Channel
  <2>4. Carried = {} /\ Carried' = ToSet(answers) /\ Steered = {} /\ Steered' = {}
    BY <1>9, <2>1, <2>2, <2>3 DEF Carried, Steered
  <2>5. /\ noted' \in [Answers -> Nat]
        /\ \A b \in Answers : noted'[b] = IF b \in ToSet(answers) THEN noted[b] + 1 ELSE noted[b]
    BY <1>1, <1>9, Notes
  <2>6. Types'
    BY <1>1, <1>2, <1>5, <2>1, <2>2, <2>5, EmptyHeld DEF Types
  <2>7. Channel'
    BY <1>1, <1>2, <2>3 DEF Channel
  <2>8. Apart'
    BY <1>1, <1>2, <1>3, <2>1, <2>4, EmptyHeld DEF Apart
  <2>9. TextsMove({}, ToSet(answers))
    BY <1>1, <1>2, <1>3, <1>7, <2>1, <2>4, <2>5 DEF TextsMove, Apart
  <2>10. {} \in SUBSET Texts /\ ToSet(answers) \in SUBSET Answers
    BY <1>7
  <2> QED BY <2>6, <2>7, <2>8, <2>9, <2>10, TextStep
<1> QED BY <1>2, <1>8, <1>9

LEMMA ToolBoundaryKeeps == ASSUME Waits, ToolBoundary PROVE Waits'
<1>1. Types /\ Channel /\ Apart /\ ToSet(held) \subseteq Answers /\ ToSet(<<>>) = {}
  BY HeldSet, EmptyHeld DEF Waits, Types
<1>2. /\ turn.phase = "running"
      /\ UNCHANGED <<asked, consumed, wakes, running, channel, archived, bounds, doubted, cleared>>
  BY DEF ToolBoundary
<1>3. Carried = {} /\ Carried' = {} /\ Steered' = Steered /\ Channel'
  BY <1>1, <1>2 DEF Carried, Steered, Channel, running, channel
<1>4. Unsent \subseteq notices /\ Unsent \intersect Steered = {} /\ notices \subseteq Notices
  BY <1>1 DEF Unsent, Steered, Types
<1>5. CASE Tell(Unsent) /\ notices' = notices \ Unsent /\ UNCHANGED <<held, noted>>
  <2>1. told' \in [Texts -> Nat] /\ \A t \in Texts : told'[t] = IF t \in Unsent THEN told[t] + 1 ELSE told[t]
    BY <1>1, <1>5, Tells
  <2>2. Types'
    BY <1>1, <1>2, <1>5, <2>1 DEF Types, wakes, running, channel, bounds
  <2>3. Apart'
    BY <1>1, <1>2, <1>3, <1>5 DEF Apart
  <2>4. TextsMove(Unsent, {})
    BY <1>1, <1>2, <1>3, <1>4, <1>5, <2>1, InputAssumption DEF TextsMove, Types
  <2>5. Unsent \in SUBSET Texts /\ {} \in SUBSET Answers
    BY <1>4 DEF Texts
  <2> QED BY <1>3, <2>2, <2>3, <2>4, <2>5, TextStep
<1>6. CASE /\ Tell(Pulls) /\ Note(Pulls) /\ held' = IF Pulls = {} THEN held ELSE <<>>
           /\ UNCHANGED notices
  <2>1. Pulls = {} \/ (Pulls = ToSet(held) /\ Steered = {})
    BY DEF Pulls, Steered
  <2>2. Pulls \subseteq Answers
    BY <1>1, <2>1
  <2>3. told' \in [Texts -> Nat] /\ \A t \in Texts : told'[t] = IF t \in Pulls THEN told[t] + 1 ELSE told[t]
    BY <1>1, <1>6, Tells
  <2>4. noted' \in [Answers -> Nat] /\ \A a \in Answers : noted'[a] = IF a \in Pulls THEN noted[a] + 1 ELSE noted[a]
    BY <1>1, <1>6, Notes
  <2>5. held' \in Seq(Answers) /\ IsInjective(held') /\ ToSet(held') = ToSet(held) \ Pulls
    BY <1>1, <1>6, <2>1, EmptyHeld DEF Types, Apart
  <2>6. Types'
    BY <1>1, <1>2, <1>6, <2>3, <2>4, <2>5 DEF Types, wakes, running, channel, bounds
  <2>7. Apart'
    BY <1>1, <1>2, <1>3, <2>5 DEF Apart
  <2>8. TextsMove(Pulls, Pulls)
    BY <1>1, <1>2, <1>3, <1>4, <1>6, <2>1, <2>3, <2>4, <2>5, InputAssumption DEF TextsMove, Apart
  <2>9. Pulls \in SUBSET Texts /\ Pulls \in SUBSET Answers
    BY <2>2 DEF Texts
  <2> QED BY <1>3, <2>6, <2>7, <2>8, <2>9, TextStep
<1> QED BY <1>5, <1>6 DEF ToolBoundary

LEMMA AnswerSettlesKeeps ==
  ASSUME Waits, ScriptTypes, NEW outcome \in {"accepted", "refused", "failed"}, NEW took \in BOOLEAN,
         AnswerSettles(outcome, took)
  PROVE  Waits'
<1> DEFINE x == steer.text
           accepted == outcome = "accepted"
           answers == IF accepted THEN RemoveFirst(held, x) ELSE held
           rows == IF accepted THEN SteeredMessage ELSE script
           next == accepted /\ steer.live /\ answers # <<>>
           late == ~next /\ ~handle /\ steer.turn = "done" /\ CanFlush(answers)
           X == IF took THEN {x} ELSE {}
           N == (IF accepted THEN {x} ELSE {}) \union (IF late THEN ToSet(answers) ELSE {})
<1>1. /\ Types /\ Channel /\ Apart /\ held \in Seq(Answers) /\ IsInjective(held)
      /\ ToSet(held) \subseteq Answers /\ ToSet(<<>>) = {}
  BY HeldSet, EmptyHeld DEF Waits, Types, Apart
<1>2. /\ steer.by = "answer" /\ took = (accepted \/ (outcome = "failed" /\ took)) /\ Tell(X) /\ Note(N)
      /\ IF next THEN steer' = [steer EXCEPT !.text = Head(answers)] /\ UNCHANGED flush
         ELSE steer' = Free /\ flush' = [flush EXCEPT !.at = "notices"]
      /\ IF late THEN Opens(answers, rows) ELSE held' = answers /\ script' = rows /\ UNCHANGED <<turn, pendingWake, turnsLeft>>
      /\ UNCHANGED <<asked, consumed, notices, wakeTimer, flushTimer, handle, after, archived, cleared>>
  BY DEF AnswerSettles
<1>3. /\ outcome = "failed" => doubted' = doubted \union {x}
      /\ outcome # "failed" => doubted' = doubted
  BY DEF AnswerSettles
<1>4. eventsLeft' \in Nat
  <2>1. Event \/ eventsLeft' = eventsLeft
    BY DEF AnswerSettles
  <2> QED BY <1>1, <2>1, EventTyped DEF Types
<1>5. doubt' \in BOOLEAN
  <2>1. doubt' = doubt \/ doubt' = (doubt \/ steer.live)
    BY DEF AnswerSettles
  <2> QED BY <1>1, <2>1 DEF Types
<1>6. x \in Answers /\ Steered = {x} /\ x \in Texts
  BY <1>1, <1>2 DEF Channel, Steered, Texts
<1>7. /\ answers \in Seq(Answers) /\ IsInjective(answers)
      /\ ToSet(answers) = IF accepted THEN ToSet(held) \ {x} ELSE ToSet(held)
  BY <1>1, RemovedHeld
<1>8. ToSet(answers) \subseteq ToSet(held) /\ (accepted => x \notin ToSet(answers))
  BY <1>7
<1>9. answers # <<>> => Head(answers) \in ToSet(answers) /\ Head(answers) \in Answers
  BY <1>1, <1>7, <1>8, HeldSet
<1>10. next => accepted /\ handle /\ ~late /\ turn.phase = "running" /\ answers # <<>>
  BY <1>1 DEF Channel
<1>11. late => turn.phase = "over" /\ Opens(answers, rows)
  BY <1>2 DEF CanFlush, Busy
<1>12. accepted => took
  BY <1>2
<1>13. took /\ ~accepted => outcome = "failed"
  BY <1>2
<1>27. rows.earlier \in SUBSET Answers
  BY <1>2, <1>6, ScriptSteps DEF ScriptTypes, Transcripts
<1> HIDE DEF answers, next, late, x, accepted, rows
<1>14. steer' \in Steers /\ flush' \in Flushes
  <2>1. CASE next
    BY <1>1, <1>2, <1>9, <1>10, <2>1 DEF Types, Steers, Texts
  <2>2. CASE ~next
    <3>1. [flush EXCEPT !.at = "notices"] \in Flushes
      BY <1>1 DEF Types, Flushes
    <3> QED BY <1>2, <2>2, <3>1, Records
  <2> QED BY <2>1, <2>2
<1>15. /\ next => steer'.by = "answer" /\ steer'.text = Head(answers) /\ Steered' = {Head(answers)}
       /\ ~next => steer'.by = "none" /\ ~steer'.live /\ Steered' = {}
  <2>1. CASE next
    <3>1. steer' = [steer EXCEPT !.text = Head(answers)]
      BY <1>2, <2>1
    <3>2. steer'.by = "answer" /\ steer'.text = Head(answers)
      BY <1>1, <1>2, <3>1 DEF Types, Steers
    <3> QED BY <2>1, <3>2 DEF Steered
  <2>2. CASE ~next
    BY <1>2, <2>2, Fields DEF Steered
  <2> QED BY <2>1, <2>2
<1>16. /\ turn' \in Turns /\ turnsLeft' \in Nat /\ pendingWake' \in BOOLEAN
       /\ held' \in Seq(Answers) /\ IsInjective(held')
       /\ late => Carried = {} /\ Carried' = ToSet(answers) /\ ToSet(held') = {}
       /\ ~late => Carried' = Carried /\ ToSet(held') = ToSet(answers) /\ turn' = turn
  <2>1. CASE late
    <3>1. held' = <<>> /\ Queues("prompt", ToSet(answers), rows.earlier) /\ turn.phase = "over"
      BY <1>11, <2>1 DEF Opens
    <3>2. ToSet(answers) \in SUBSET Answers /\ rows.earlier \in SUBSET Answers
      BY <1>1, <1>8, <1>27
    <3>3. /\ turn' \in Turns /\ turn'.phase = "queued" /\ turn'.carries = ToSet(answers)
          /\ turnsLeft' \in Nat /\ pendingWake' \in BOOLEAN
      BY <1>1, <3>1, <3>2, QueuesEffect DEF Kinds
    <3> QED BY <2>1, <3>1, <3>3, EmptyHeld DEF Carried
  <2>2. CASE ~late
    BY <1>1, <1>2, <1>7, <2>2 DEF Types, Carried
  <2> QED BY <2>1, <2>2
<1>17. X \in SUBSET Texts /\ N \in SUBSET Answers
  BY <1>1, <1>6, <1>8
<1>18. told' \in [Texts -> Nat] /\ \A t \in Texts : told'[t] = IF t \in X THEN told[t] + 1 ELSE told[t]
  BY <1>1, <1>2, Tells
<1>19. noted' \in [Answers -> Nat] /\ \A a \in Answers : noted'[a] = IF a \in N THEN noted[a] + 1 ELSE noted[a]
  BY <1>1, <1>2, Notes
<1>20. doubted' \subseteq Texts /\ doubted \subseteq doubted'
  BY <1>1, <1>3, <1>6 DEF Types
<1>21. Types'
  BY <1>1, <1>2, <1>4, <1>5, <1>14, <1>16, <1>18, <1>19, <1>20 DEF Types
<1>22. Channel'
  <2>1. steer'.live => next /\ handle
    BY <1>10, <1>15
  <2>2. handle => turn'.phase = "running"
    BY <1>1, <1>11, <1>16 DEF Channel
  <2>3. steer'.by # "memory" /\ (steer'.by = "answer" => steer'.text \in Answers)
    BY <1>9, <1>10, <1>15
  <2> QED BY <1>2, <2>1, <2>2, <2>3 DEF Channel
<1>23. next => Carried = {}
  BY <1>10 DEF Carried
<1>24. Steered' \subseteq ToSet(answers)
  BY <1>9, <1>10, <1>15
<1>25. Apart'
  <2>1. asked \intersect (ToSet(held) \union consumed \union Carried) = {} /\ ToSet(held) \intersect (consumed \union Carried) = {}
        /\ consumed \intersect Carried = {}
    BY <1>1 DEF Apart
  <2>2. CASE late
    BY <1>2, <1>8, <1>10, <1>15, <1>16, <2>1, <2>2 DEF Apart
  <2>3. CASE ~late
    BY <1>2, <1>8, <1>15, <1>16, <1>23, <1>24, <2>1, <2>3 DEF Apart
  <2> QED BY <2>2, <2>3
<1>26. TextsMove(X, N)
  <2>1. asked \intersect (ToSet(held) \union {x}) = {} /\ consumed \intersect (ToSet(held) \union {x}) = {}
        /\ Carried \intersect (ToSet(held) \union {x}) = {} /\ notices \intersect Answers = {}
    BY <1>1, <1>6, InputAssumption DEF Apart, Types
  <2>2. X \subseteq {x} /\ (accepted => X = {x}) /\ (~accepted => X \subseteq doubted')
    BY <1>3, <1>12, <1>13
  <2>3. N \subseteq {x} \union ToSet(held)
    BY <1>8
  <2>4. ToSet(held') \union Carried' \subseteq ToSet(answers) \union Carried /\ Steered' \intersect Notices = {}
    BY <1>1, <1>8, <1>16, <1>24, InputAssumption
  <2>5. (X \ doubted') \intersect (asked' \union ToSet(held') \union consumed' \union notices' \union Carried' \union Steered') = {}
    <3>1. CASE accepted
      BY <1>2, <1>6, <1>8, <1>24, <2>1, <2>2, <2>4, <3>1
    <3>2. CASE ~accepted
      BY <2>2, <3>2
    <3> QED BY <3>1, <3>2
  <2>6. N \intersect (asked' \union ToSet(held') \union Steered') = {}
    <3>1. late => ToSet(held') = {} /\ Steered' = {}
      BY <1>10, <1>15, <1>16
    <3>2. ~late => N \subseteq {x} /\ (N # {} => accepted)
      OBVIOUS
    <3> QED BY <1>2, <1>8, <1>16, <1>24, <2>1, <2>3, <3>1, <3>2
  <2>7. ToSet(held) \subseteq ToSet(answers) \union X
    BY <1>7, <2>2
  <2>8. ToSet(answers) \union Carried \subseteq ToSet(held') \union Carried'
    BY <1>16
  <2> HIDE DEF X, N
  <2>9. /\ X \subseteq Steered /\ N \subseteq Steered \union ToSet(held)
        /\ Steered' \subseteq ToSet(held) /\ ToSet(held') \union Carried' \subseteq ToSet(held) \union Carried
    BY <1>6, <1>8, <1>24, <2>2, <2>3, <2>4
  <2>10. /\ ToSet(held') \subseteq ToSet(held)
    BY <1>8, <1>16
  <2>11. asked' = asked /\ consumed' = consumed /\ notices' = notices /\ cleared' = cleared
    BY <1>2
  <2> QED BY <1>18, <1>19, <1>20, <2>4, <2>5, <2>6, <2>7, <2>8, <2>9, <2>10, <2>11 DEF TextsMove
<1> HIDE DEF X, N
<1> QED BY <1>17, <1>21, <1>22, <1>25, <1>26, TextStep

LEMMA NoticeSettlesKeeps ==
  ASSUME Waits, NEW outcome \in {"accepted", "refused", "failed"}, NEW took \in BOOLEAN, NoticeSettles(outcome, took)
  PROVE  Waits'
<1> DEFINE x == steer.text
           rest == IF Delivered(outcome) THEN notices \ {x} ELSE notices
           next == outcome = "accepted" /\ steer.live /\ rest # {}
           X == IF took THEN {x} ELSE {}
<1>1. Types /\ Channel /\ Apart /\ ToSet(held) \subseteq Answers
  BY HeldSet DEF Waits, Types
<1>2. /\ steer.by = "memory" /\ took = (outcome = "accepted" \/ (outcome = "failed" /\ took)) /\ Tell(X)
      /\ notices' = rest
      /\ UNCHANGED <<asked, held, consumed, wakes, running, archived, turnsLeft, noted, cleared>>
  BY DEF NoticeSettles
<1>3. /\ outcome = "failed" => doubted' = doubted \union {x}
      /\ outcome # "failed" => doubted' = doubted
  BY DEF NoticeSettles
<1>4. eventsLeft' \in Nat
  <2>1. Event \/ eventsLeft' = eventsLeft
    BY DEF NoticeSettles
  <2> QED BY <1>1, <2>1, EventTyped DEF Types
<1>5. \/ next /\ UNCHANGED flush /\ \E n \in rest : steer' = [steer EXCEPT !.text = n]
      \/ steer' = Free /\ flush' = [flush EXCEPT !.at = "end"]
  BY DEF NoticeSettles
<1>6. x \in Notices /\ Steered = {x} /\ rest \subseteq notices /\ rest \subseteq Notices
  BY <1>1, <1>2 DEF Channel, Steered, Types
<1>7. /\ steer' \in Steers /\ flush' \in Flushes /\ Channel' /\ Steered' \subseteq rest
      /\ Carried' = Carried
  <2>1. ASSUME NEW n \in rest, next, UNCHANGED flush, steer' = [steer EXCEPT !.text = n]
        PROVE  steer' \in Steers /\ flush' \in Flushes /\ Channel' /\ Steered' \subseteq rest
    <3>1. steer' \in Steers /\ steer'.by = "memory" /\ steer'.text = n /\ steer'.live = steer.live
      BY <1>1, <1>2, <1>6, <2>1 DEF Types, Steers, Texts
    <3> QED BY <1>1, <1>2, <1>6, <2>1, <3>1 DEF Types, Channel, Steered, running
  <2>2. Carried' = Carried
    BY <1>2 DEF Carried, running
  <2>3. CASE steer' = Free /\ flush' = [flush EXCEPT !.at = "end"]
    <3>1. flush' \in Flushes
      BY <1>1, <2>3 DEF Types, Flushes
    <3>2. steer'.by = "none" /\ ~steer'.live
      BY <2>3, Fields
    <3>3. Channel' /\ Steered' = {}
      BY <1>1, <1>2, <3>2 DEF Channel, Steered, running
    <3>4. steer' \in Steers
      BY <2>3, Records
    <3> HIDE DEF rest
    <3> QED BY <2>2, <3>1, <3>3, <3>4
  <2> QED BY <1>5, <2>1, <2>2, <2>3
<1>8. X \in SUBSET Texts /\ doubted' \subseteq Texts /\ doubted \subseteq doubted'
  BY <1>1, <1>3, <1>6 DEF Types, Texts
<1>9. told' \in [Texts -> Nat] /\ \A t \in Texts : told'[t] = IF t \in X THEN told[t] + 1 ELSE told[t]
  BY <1>1, <1>2, Tells
<1>10. X \ doubted' \subseteq {x} /\ (X \ doubted' # {} => x \notin rest)
  BY <1>2, <1>3 DEF Delivered
<1> HIDE DEF x, rest, next
<1>11. Types'
  BY <1>1, <1>2, <1>4, <1>6, <1>7, <1>8, <1>9 DEF Types, wakes, running
<1>12. Carried \subseteq Answers
  BY <1>1 DEF Types, Carried, Turns
<1>13. Apart'
  BY <1>1, <1>2, <1>6, <1>7, <1>12, InputAssumption DEF Apart, Types
<1>14. X \subseteq Steered
  BY <1>6
<1> HIDE DEF X
<1>15. TextsMove(X, {})
  <2>1. asked \union consumed \union ToSet(held) \union Carried \subseteq Answers
    BY <1>1, <1>12 DEF Types
  <2>2. \A a \in Answers : noted'[a] = IF a \in {} THEN noted[a] + 1 ELSE noted[a]
    BY <1>2
  <2> QED BY <1>2, <1>6, <1>7, <1>8, <1>9, <1>10, <1>14, <2>1, <2>2, InputAssumption DEF TextsMove
<1>16. {} \in SUBSET Answers
  OBVIOUS
<1> QED BY <1>7, <1>8, <1>11, <1>13, <1>15, <1>16, TextStep

\* What ends it: the answers are given up, with the prompt of a queued turn.
LEMMA ForgetsKeeps == ASSUME Waits, ScriptTypes, ScriptTypes', Rewind \/ Archive PROVE Waits'
<1>1. Types /\ Channel /\ Apart /\ ToSet(held) \subseteq Answers /\ ToSet(<<>>) = {}
  BY HeldSet, EmptyHeld DEF Waits, Types
<1>2. PICK more \in SUBSET Answers :
      /\ asked' = {} /\ Forgets(more)
      /\ UNCHANGED <<notices, wakeTimer, flushTimer, handle, doubt, after, channel, turnsLeft, told, noted, doubted>>
      /\ \/ UNCHANGED turn /\ turn.phase # "queued"
         \/ turn.phase = "queued" /\ turn' = Over("stopped")
  <2>1. CASE Rewind
    <3>1. PICK kept \in SUBSET script.earlier : Forgets(script.earlier \ kept)
      BY <2>1 DEF Rewind
    <3>2. script.earlier \ kept \in SUBSET Answers
      BY DEF ScriptTypes, Transcripts
    <3> QED BY <2>1, <3>1, <3>2 DEF Rewind, Busy, running
  <2>2. CASE Archive
    <3>1. script.earlier \in SUBSET Answers /\ script'.earlier \in SUBSET Answers
      BY DEF ScriptTypes, Transcripts
    <3> QED BY <2>2, <3>1 DEF Archive
  <2> QED BY <2>1, <2>2
<1>3. archived' \in BOOLEAN /\ pendingWake' \in BOOLEAN
  <2>1. archived' = archived \/ archived' = TRUE
    BY DEF Rewind, Archive
  <2>2. pendingWake' = FALSE
    BY <1>2 DEF Forgets
  <2> QED BY <1>1, <2>1, <2>2 DEF Types
<1>4. eventsLeft' \in Nat
  BY <1>1, EventTyped DEF Rewind, Archive
<1>5. held' = <<>> /\ consumed' = {} /\ cleared \subseteq cleared' /\ cleared' \subseteq Answers
  BY <1>1, <1>2 DEF Forgets, Types
<1>6. turn' \in Turns /\ Carried' = {} /\ (turn.phase = "running" => turn' = turn)
  BY <1>1, <1>2, OverTurn DEF Types, Carried
<1>7. Types'
  BY <1>1, <1>2, <1>3, <1>4, <1>5, <1>6, EmptyHeld DEF Types, channel
<1>8. Channel' /\ Steered' = Steered
  BY <1>1, <1>2, <1>6 DEF Channel, Steered, channel
<1>9. Apart'
  BY <1>1, <1>2, <1>5, <1>6, <1>8, EmptyHeld DEF Apart
<1>10. TextsMove({}, {})
  BY <1>1, <1>2, <1>5, <1>6, <1>8 DEF TextsMove
<1>11. {} \in SUBSET Texts /\ {} \in SUBSET Answers
  OBVIOUS
<1> QED BY <1>7, <1>8, <1>9, <1>10, <1>11, TextStep

LEMMA DiesKeeps == ASSUME Waits, ScriptTypes', Dies PROVE Waits'
<1>1. Types /\ Channel /\ Apart /\ ToSet(held) \subseteq Answers /\ ToSet(<<>>) = {}
  BY HeldSet, EmptyHeld DEF Waits, Types
<1> DEFINE X0 == {steer.text} \intersect Texts
<1>2. PICK X \in SUBSET X0 : Tell(X)
  BY DEF Dies
<1>3. /\ steer' = Free /\ flush' = Still /\ after' = "none" /\ doubted' = doubted \union X0
      /\ UNCHANGED <<asked, notices, archived, turnsLeft, noted>>
      /\ Forgets({})
  BY DEF Dies
<1>4. handle' \in BOOLEAN /\ doubt' \in BOOLEAN /\ wakeTimer' \in BOOLEAN /\ flushTimer' \in BOOLEAN /\ ~handle'
  BY DEF Dies
<1>5. pendingWake' \in BOOLEAN
  BY Zenon DEF Dies, Forgets
<1>6. eventsLeft' \in Nat
  BY <1>1, EventTyped DEF Dies
<1>7. turn' \in Turns /\ turn'.phase = "over"
  <2>1. PICK result \in {"stopped", "failed"} : turn' = Over(IF Busy THEN result ELSE turn.result)
    BY DEF Dies
  <2> DEFINE end == IF Busy THEN result ELSE turn.result
  <2>2. end \in {"none", "done", "stopped", "failed"}
    BY <1>1 DEF Types, Turns
  <2> QED BY <2>1, <2>2, OverTurn
<1>8. Carried' = {} /\ Steered' = {} /\ steer' \in Steers /\ flush' \in Flushes /\ steer'.by = "none" /\ ~steer'.live
  BY <1>3, <1>7, Fields, Records DEF Carried, Steered
<1>9. held' = <<>> /\ consumed' = {} /\ cleared \subseteq cleared' /\ cleared' \subseteq Answers
  BY <1>1, <1>3 DEF Forgets, Types
<1>10. Carried \subseteq Answers
  BY <1>1 DEF Types, Carried, Turns
<1>11. X \in SUBSET Texts /\ doubted' \subseteq Texts /\ X \subseteq doubted'
  BY <1>1, <1>3 DEF Types
<1>12. told' \in [Texts -> Nat] /\ \A t \in Texts : told'[t] = IF t \in X THEN told[t] + 1 ELSE told[t]
  BY <1>1, <1>2, Tells
<1>13. Types'
  BY <1>1, <1>3, <1>4, <1>5, <1>6, <1>7, <1>8, <1>9, <1>10, <1>11, <1>12, EmptyHeld DEF Types
<1>14. Channel'
  BY <1>4, <1>8 DEF Channel
<1>15. Apart'
  BY <1>1, <1>3, <1>8, <1>9, EmptyHeld DEF Apart
<1>16. TextsMove(X, {})
  <2>1. \A a \in Answers : noted'[a] = IF a \in {} THEN noted[a] + 1 ELSE noted[a]
    BY <1>3
  <2>2. X \ doubted' = {}
    BY <1>11
  <2> QED BY <1>1, <1>3, <1>8, <1>9, <1>12, <2>1, <2>2 DEF TextsMove
<1>17. {} \in SUBSET Answers
  OBVIOUS
<1> QED BY <1>11, <1>13, <1>14, <1>15, <1>16, <1>17, TextStep

-----------------------------------------------------------------------------
(* The transcript.                                                         *)

LEMMA ScriptTypesKept == Waits /\ ScriptTypes /\ [Next]_vars => ScriptTypes'
<1> SUFFICES ASSUME Waits, ScriptTypes, [Next]_vars PROVE ScriptTypes'
  OBVIOUS
<1>1. Types /\ Channel /\ ToSet(held) \subseteq Answers
  BY HeldSet DEF Waits, Types
<1> USE DEF ScriptTypes
<1>2. script.earlier \in SUBSET Answers /\ script.own \in SUBSET Answers /\ turn.repeats \in SUBSET Answers
  BY <1>1 DEF Transcripts, Types, Turns
<1>3. ASSUME NEW new \in SUBSET Answers, NEW rows \in Transcripts
      PROVE  [rows EXCEPT !.own = new] \in Transcripts /\ [rows EXCEPT !.earlier = new] \in Transcripts
  BY DEF Transcripts
<1>4. CASE UserStarts
  <2>1. settled' = settled /\ (script' = script \/ script' = [script EXCEPT !.own = ToSet(held)])
    BY <1>4 DEF UserStarts, RecordsHeld
  <2> QED BY <1>1, <1>3, <2>1
<1>5. CASE FlushTimer
  <2>1. settled' = settled /\ (script' = script \/ script' = [script EXCEPT !.own = ToSet(held)])
    BY <1>5 DEF FlushTimer, Opens
  <2> QED BY <1>1, <1>3, <2>1
<1>6. ASSUME NEW a \in Answers, Answer(a) PROVE ScriptTypes'
  <2>1. settled' = settled /\ (script' = script \/ script' = [script EXCEPT !.own = ToSet(Append(held, a))])
    BY <1>6 DEF Answer, Opens
  <2>2. ToSet(Append(held, a)) \subseteq Answers
    <3>1. Append(held, a) \in Seq(Answers)
      BY <1>1 DEF Types
    <3> QED BY <3>1, HeldSet
  <2> QED BY <1>3, <2>1, <2>2
<1>7. CASE Settles
  <2>1. script' = Closed(turn.result) /\ settled' \subseteq settled \union script.own \union turn.repeats
    BY <1>7 DEF Settles
  <2> QED BY <1>1, <1>2, <2>1, ScriptSteps DEF Types, Turns
<1>8. CASE StoppedQueued
  BY <1>8, ScriptSteps DEF StoppedQueued, history
<1>9. ASSUME NEW outcome \in {"accepted", "refused", "failed"}, NEW took \in BOOLEAN, AnswerSettles(outcome, took)
      PROVE  ScriptTypes'
  <2> DEFINE answers == IF outcome = "accepted" THEN RemoveFirst(held, steer.text) ELSE held
             rows == IF outcome = "accepted" THEN SteeredMessage ELSE script
  <2>1. /\ settled' \subseteq settled \union {steer.text} /\ steer.by = "answer"
        /\ script' = rows \/ script' = [rows EXCEPT !.own = ToSet(answers)]
    BY <1>9 DEF AnswerSettles, Opens
  <2>2. rows \in Transcripts /\ steer.text \in Answers
    BY <1>1, <2>1, ScriptSteps DEF Channel
  <2>3. ToSet(answers) \subseteq Answers
    <3>1. answers \in Seq(Answers)
      BY <1>1, RemovedHeld DEF Waits, Types, Apart
    <3> QED BY <3>1, HeldSet
  <2> HIDE DEF answers, rows
  <2>4. [rows EXCEPT !.own = ToSet(answers)] \in Transcripts
    BY <1>3, <2>2, <2>3
  <2> QED BY <2>1, <2>2, <2>4
<1>10. CASE ToolBoundary
  <2>1. Pulls \subseteq Answers
    BY <1>1 DEF Pulls
  <2>2. settled' = settled /\ (script' = script \/ script' = OwnMessage(Pulls))
    BY <1>10 DEF ToolBoundary
  <2> QED BY <2>1, <2>2, ScriptSteps
<1>11. CASE Rewind
  <2>1. settled' = settled /\ \E kept \in SUBSET script.earlier : script' = [script EXCEPT !.earlier = kept]
    BY <1>11 DEF Rewind
  <2> QED BY <1>2, <1>3, <2>1
<1>12. CASE Archive \/ Dies
  <2>1. settled' = settled /\ (script' = script \/ \E result \in {"stopped", "failed"} : script' = Closed(result))
    BY <1>12 DEF Archive, Dies
  <2> QED BY <2>1, ScriptSteps
<1>13. CASE UNCHANGED <<script, settled>>
  BY <1>13
<1>14. \/ UNCHANGED <<script, settled>>
       \/ UserStarts \/ FlushTimer \/ Settles \/ StoppedQueued \/ ToolBoundary \/ Rewind \/ Archive \/ Dies
       \/ \E a \in Answers : Answer(a)
       \/ \E outcome \in {"accepted", "refused", "failed"}, took \in BOOLEAN : AnswerSettles(outcome, took)
  BY Zenon DEF Next, vars, history, Core, Starts, AfterWork, WakeTimer, FlushGoesOn, Outcomes, NoticeSettles, OtherSettles,
     AgentEnds, Ends, OtherStarts, NewAttempt, DriverWakes, Wakes, Notice, InputReady, OtherSteers
<1> QED BY <1>4, <1>5, <1>6, <1>7, <1>8, <1>9, <1>10, <1>11, <1>12, <1>13, <1>14

\* What was settled is in no transcript and no repeat.
Unrepeated == (Repeats \union Recorded) \intersect settled = {}

\* The other half of the invariant: what of the transcript a next prompt repeats.
Recalls == ScriptTypes /\ Transcript /\ UserSteer /\ Unrepeated /\ NoneLost

IInv == Waits /\ Recalls

\* Nobody's words are unsaid.
LEMMA Heard == ASSUME Types, NEW X, Tell(X) PROVE \A t \in Texts : told[t] > 0 => told'[t] > 0
<1>1. \A t \in Texts : told[t] \in Nat
  BY DEF Types
<1>2. \A t \in Texts : told'[t] = IF t \in X THEN told[t] + 1 ELSE told[t]
  BY Tells
<1> QED BY <1>1, <1>2

\* A step that leaves the transcript as it is, and the turn but for its end.
LEMMA ScriptStays ==
  ASSUME IInv, ScriptTypes', UNCHANGED <<script, settled, noted, cleared, consumed>>,
         \A a \in Answers : told[a] > 0 => told'[a] > 0,
         turn'.kind = turn.kind, turn'.repeats = turn.repeats, turn'.carries = turn.carries,
         turn'.phase = turn.phase \/ (turn.phase = "running" /\ turn'.phase = "closing"),
         turn.phase = "queued" /\ steer.by = "none" => steer'.by = "none",
         \/ ~steer'.user
         \/ steer'.user = steer.user /\ steer'.by = steer.by /\ steer'.turn = steer.turn
         \/ steer'.by = "answer" /\ steer'.turn = "own" /\ turn.kind = "prompt" /\ turn.phase = "running",
         asked \union ToSet(held) \subseteq asked' \union ToSet(held')
  PROVE  Recalls'
<1> USE DEF Recalls
<1>1. Recorded' = Recorded /\ Recorded \subseteq Answers /\ turn.repeats \subseteq Answers
      /\ script.earlier \subseteq Answers /\ script.own \subseteq Answers /\ script.later \subseteq Answers
  BY DEF Recorded, IInv, Waits, Types, Turns, ScriptTypes, Transcripts
<1>2. Transcript'
  <2> USE DEF IInv
  <2>1. \A a \in Recorded' \union turn'.repeats \union settled' : noted'[a] > 0
    BY <1>1 DEF Transcript
  <2>2. script'.later \intersect (script'.own \union turn'.repeats) = {}
    BY DEF Transcript
  <2>3. (turn'.kind # "prompt" => script'.own = {} /\ script'.later = {}) /\ (turn'.phase = "over" => turn'.kind # "prompt")
    BY DEF Transcript
  <2>4. (\A a \in script'.later : told'[a] > 0) /\ (turn'.phase # "queued" => \A a \in script'.own : told'[a] > 0)
    BY <1>1 DEF Transcript
  <2>5. turn'.phase = "queued" =>
          /\ turn'.carries \subseteq script'.own
          /\ script'.own = {} \/ (steer'.by = "none" /\ script'.own \subseteq consumed' \union turn'.carries)
    BY DEF Transcript
  <2>6. turn'.kind = "prompt" => \A a \in script'.earlier : a \in turn'.repeats \/ told'[a] > 0
    BY <1>1 DEF Transcript
  <2> QED BY <2>1, <2>2, <2>3, <2>4, <2>5, <2>6 DEF Transcript
<1>3. UserSteer'
  BY <1>1 DEF UserSteer, IInv
<1>4. Unrepeated'
  <2>1. Repeats' \subseteq Repeats
    BY DEF Repeats
  <2> QED BY <1>1, <2>1 DEF Unrepeated, IInv
<1>5. NoneLost'
  <2>1. Carried \subseteq Carried'
    BY DEF Carried
  <2>2. \A a \in Answers \ (asked \union cleared) :
          a \in ToSet(held) \union consumed \union Carried \/ told[a] > 0 \/ a \in script.earlier \union settled
    BY DEF IInv, NoneLost
  <2> HIDE DEF Recalls
  <2>3. \A a \in Answers \ (asked' \union cleared') :
          a \in ToSet(held') \union consumed' \union Carried' \/ told'[a] > 0 \/ a \in script'.earlier \union settled'
    BY <2>1, <2>2
  <2> QED BY <2>3, Zenon DEF NoneLost
<1> QED BY <1>2, <1>3, <1>4, <1>5

LEMMA SteerFields ==
  /\ Free.user = FALSE
  /\ \A by \in Owners, t \in Texts \union {"none"} :
       Out(by, t).by = by /\ Out(by, t).turn = "own" /\ (Out(by, t).user = (by = "answer" /\ turn.kind = "prompt"))
  /\ steer \in Steers => Detached.by = steer.by /\ Detached.turn = steer.turn /\ (Detached.user = steer.user)
  /\ steer \in Steers => \A t : LET next == [steer EXCEPT !.text = t] IN
                                  next.by = steer.by /\ next.turn = steer.turn /\ (next.user = steer.user)
<1> DEFINE no == FALSE
<1>1. steer \in Steers => Detached.by = steer.by /\ Detached.turn = steer.turn /\ (Detached.user = steer.user)
  <2>1. Detached = [steer EXCEPT !.live = no]
    BY DEF Detached
  <2> HIDE DEF no
  <2> QED BY <2>1 DEF Steers
<1>2. Free.user = no
  <2>1. Free = [by |-> "none", text |-> "none", live |-> no, turn |-> "none", user |-> no]
    BY DEF Free
  <2> HIDE DEF no
  <2> QED BY <2>1
<1>3. ASSUME NEW by \in Owners, NEW t \in Texts \union {"none"}
      PROVE  Out(by, t).by = by /\ Out(by, t).turn = "own" /\ (Out(by, t).user = (by = "answer" /\ turn.kind = "prompt"))
  BY DEF Out
<1>4. steer \in Steers => \A t : LET next == [steer EXCEPT !.text = t] IN
                                   next.by = steer.by /\ next.turn = steer.turn /\ (next.user = steer.user)
  BY DEF Steers
<1> QED BY <1>1, <1>2, <1>3, <1>4

\* What a step of the channel may do to the steer that is out.
Steering ==
  \/ steer' = steer \/ ~steer'.user
  \/ steer'.user = steer.user /\ steer'.by = steer.by /\ steer'.turn = steer.turn
  \/ steer'.by = "answer" /\ steer'.turn = "own" /\ turn.kind = "prompt" /\ turn.phase = "running"

\* A steer that begins is of the running turn.
LEMMA Begins ==
  ASSUME Types, Channel, handle, NEW by \in Owners, NEW t \in Texts \union {"none"}, steer' = Out(by, t)
  PROVE  Steering /\ turn.phase = "running"
<1>1. turn.phase = "running"
  BY DEF Channel
<1>2. by # "answer" => ~steer'.user
  BY SteerFields
<1>3. by = "answer" => steer'.by = "answer" /\ steer'.turn = "own" /\ (steer'.user = (turn.kind = "prompt"))
  <2>1. steer'.by = by /\ steer'.turn = "own" /\ (steer'.user = (by = "answer" /\ turn.kind = "prompt"))
    BY SteerFields
  <2> QED BY <2>1
<1> QED BY <1>1, <1>2, <1>3 DEF Steering

LEMMA QuietRecalls ==
  ASSUME IInv, ScriptTypes',
         \/ UNCHANGED vars \/ NewAttempt \/ AfterWork \/ FlushGoesOn \/ InputReady \/ OtherSteers \/ OtherSettles
         \/ \E result \in {"done", "stopped", "failed"} : Ends(result)
         \/ \E n \in Notices : Notice(n)
         \/ \E outcome \in {"accepted", "refused", "failed"}, took \in BOOLEAN : NoticeSettles(outcome, took)
  PROVE  Recalls'
<1>1. Types /\ Channel /\ held \in Seq(Answers) /\ (held # <<>> => Head(held) \in Texts \union {"none"})
  BY HeldSet DEF IInv, Waits, Types, Texts
<1>2. UNCHANGED <<script, settled, noted, cleared, consumed, asked, held>>
  BY DEF vars, running, history, NewAttempt, AfterWork, FlushGoesOn, InputReady, OtherSteers, OtherSettles, Ends,
         Notice, NoticeSettles
<1>3. \A a \in Answers : told[a] > 0 => told'[a] > 0
  <2>1. told' = told \/ \E X : Tell(X)
    BY DEF vars, history, NewAttempt, AfterWork, FlushGoesOn, InputReady, OtherSteers, OtherSettles, Ends,
           Notice, NoticeSettles
  <2>2. ASSUME NEW X, Tell(X) PROVE \A a \in Answers : told[a] > 0 => told'[a] > 0
    BY <1>1, <2>2, Heard DEF Texts
  <2> QED BY <2>1, <2>2
<1>4. /\ turn'.kind = turn.kind /\ turn'.repeats = turn.repeats /\ turn'.carries = turn.carries
      /\ turn'.phase = turn.phase \/ (turn.phase = "running" /\ turn'.phase = "closing")
  <2>1. CASE \E result \in {"done", "stopped", "failed"} : Ends(result)
    BY <1>1, <2>1 DEF Ends, Types, Turns
  <2>2. CASE UNCHANGED turn
    BY <2>2
  <2> QED BY <2>1, <2>2 DEF vars, running, NewAttempt, AfterWork, FlushGoesOn, InputReady, OtherSteers, OtherSettles,
                            Notice, NoticeSettles
<1>5. Steering /\ (turn.phase = "queued" /\ steer.by = "none" => steer'.by = "none")
  <2> DEFINE Ok == Steering /\ (turn.phase = "queued" /\ steer.by = "none" => steer'.by = "none")
  <2>1. CASE steer' = steer
    BY <2>1 DEF Steering
  <2>2. CASE steer' = Free
    BY <2>2, SteerFields DEF Steering, Free
  <2>3. CASE steer' = Detached
    BY <1>1, <2>3, SteerFields DEF Steering, Types
  <2>4. ASSUME handle, NEW by \in Owners, NEW t \in Texts \union {"none"}, steer' = Out(by, t) PROVE Ok
    BY <1>1, <2>4, Begins
  <2>5. ASSUME NEW t, steer' = [steer EXCEPT !.text = t] PROVE Ok
    BY <1>1, <2>5, SteerFields DEF Steering, Types
  <2>6. CASE UNCHANGED vars \/ AfterWork
    BY <2>1, <2>6 DEF vars, channel, AfterWork
  <2>7. CASE NewAttempt \/ \E result \in {"done", "stopped", "failed"} : Ends(result)
    BY <2>3, <2>7 DEF NewAttempt, Ends
  <2>8. CASE FlushGoesOn
    <3>1. \/ handle /\ \E n \in notices : steer' = Out("memory", n)
          \/ Round(held) \/ UNCHANGED steer
      BY <2>8 DEF FlushGoesOn
    <3>2. \A n \in notices : n \in Texts \union {"none"}
      BY <1>1 DEF Types, Texts
    <3>3. CASE Round(held)
      BY <1>1, <2>1, <2>4, <3>3, RoundEffect DEF Owners
    <3> QED BY <2>1, <2>4, <3>1, <3>2, <3>3 DEF Owners
  <2>9. CASE InputReady \/ \E n \in Notices : Notice(n)
    BY <1>1, <2>1, <2>4, <2>9, FlushEffect DEF InputReady, Notice, Owners
  <2>10. CASE OtherSteers
    BY <2>4, <2>10 DEF OtherSteers, Owners
  <2>11. CASE OtherSettles
    <3>1. steer' = Free \/ (handle /\ held # <<>> /\ steer' = Out("answer", Head(held)))
      BY <2>11, Zenon DEF OtherSettles
    <3> QED BY <1>1, <2>2, <2>4, <3>1 DEF Owners
  <2>12. CASE \E outcome \in {"accepted", "refused", "failed"}, took \in BOOLEAN : NoticeSettles(outcome, took)
    <3>1. steer' = Free \/ \E n : steer' = [steer EXCEPT !.text = n]
      BY <2>12 DEF NoticeSettles
    <3> QED BY <2>2, <2>5, <3>1
  <2> QED BY <2>6, <2>7, <2>8, <2>9, <2>10, <2>11, <2>12
<1> QED BY <1>2, <1>3, <1>4, <1>5, ScriptStays DEF Steering

\* A prompt is opened for answers, on the transcript as it then reads.
LEMMA OpensRecalls ==
  ASSUME IInv, ScriptTypes', Types', NEW rows \in Transcripts, NEW answers, ToSet(answers) \subseteq Answers,
         Opens(answers, rows), rows.own = {}, rows.later = {},
         rows.earlier \intersect settled' = {}, ToSet(answers) \intersect (rows.earlier \union settled') = {},
         \A a \in rows.earlier \union ToSet(answers) \union settled' : noted'[a] > 0,
         steer'.by = "none", ~steer'.user,
         \A a \in Answers \ (asked' \union cleared') :
           a \in ToSet(answers) \union consumed' \/ told'[a] > 0 \/ a \in rows.earlier \union settled'
  PROVE  Recalls'
<1>1. /\ turn'.phase = "queued" /\ turn'.kind = "prompt" /\ turn'.carries = ToSet(answers) /\ turn'.repeats = rows.earlier
      /\ held' = <<>>
  BY DEF Opens, Queues
<1>2. script'.earlier = rows.earlier /\ script'.own = ToSet(answers) /\ script'.later = {}
  BY DEF Opens, Transcripts
<1>3. Transcript'
  BY <1>1, <1>2 DEF Transcript, Recorded
<1>4. UserSteer'
  BY DEF UserSteer
<1>5. Unrepeated'
  BY <1>1, <1>2 DEF Unrepeated, Repeats, Recorded
<1>6. NoneLost'
  BY <1>1, <1>2, Zenon DEF NoneLost, Carried
<1> QED BY <1>3, <1>4, <1>5, <1>6 DEF Recalls

\* What IInv says of a conversation that is idle.
LEMMA Idle ==
  ASSUME IInv, turn.phase = "over"
  PROVE  /\ script \in Transcripts /\ script.own = {} /\ script.later = {} /\ Carried = {}
         /\ script.earlier \intersect settled = {}
         /\ \A a \in script.earlier \union settled : a \in Answers /\ noted[a] > 0
         /\ ToSet(held) \subseteq Answers /\ \A a \in asked \union ToSet(held) : noted[a] = 0
BY HeldSet DEF IInv, Waits, Types, Fresh, Recalls, ScriptTypes, Transcripts, Transcript, Unrepeated, Recorded, Carried

\* A turn is queued with nothing for the transcript.
LEMMA QueuesRecalls ==
  ASSUME IInv, ScriptTypes', NEW kind \in {"prompt", "op", "bare", "background"}, turn.phase = "over",
         Queues(kind, {}, script.earlier),
         UNCHANGED <<asked, held, consumed, script, channel, history>>
  PROVE  Recalls'
<1>1. turn'.phase = "queued" /\ turn'.kind = kind /\ turn'.carries = {} /\ turn'.repeats \in {{}, script.earlier}
      /\ (kind = "prompt" => turn'.repeats = script.earlier)
  BY DEF Queues
<1>2. UNCHANGED <<settled, noted, told, cleared, steer>>
  BY DEF history, channel
<1>3. Transcript'
  BY <1>1, <1>2, Idle DEF Transcript, Recorded
<1>4. UserSteer'
  BY <1>1, <1>2 DEF IInv, Recalls, UserSteer, Recorded
<1>5. Unrepeated'
  BY <1>1, <1>2, Idle DEF Unrepeated, Repeats, Recorded
<1>6. NoneLost'
  <2>1. \A a \in Answers \ (asked \union cleared) :
          a \in ToSet(held) \union consumed \/ told[a] > 0 \/ a \in script.earlier \union settled
    BY Idle DEF IInv, Recalls, NoneLost
  <2> QED BY <1>1, <1>2, <2>1 DEF NoneLost, Carried
<1> QED BY <1>3, <1>4, <1>5, <1>6 DEF Recalls

LEMMA WakesRecalls ==
  ASSUME IInv, ScriptTypes', (\E kind \in {"op", "bare"} : OtherStarts(kind)) \/ DriverWakes \/ WakeTimer
  PROVE  Recalls'
<1>1. UNCHANGED <<asked, held, consumed, script, channel, history>>
  BY DEF OtherStarts, DriverWakes, WakeTimer, Wakes
<1>2. \/ UNCHANGED turn
      \/ turn.phase = "over" /\ \E kind \in {"op", "bare", "background"} : Queues(kind, {}, {})
  BY DEF OtherStarts, DriverWakes, WakeTimer, Wakes, Busy
<1>3. CASE UNCHANGED turn
  <2>1. UNCHANGED <<settled, noted, cleared, told, steer>>
    BY <1>1 DEF history, channel
  <2> QED BY <1>1, <1>3, <2>1, ScriptStays
<1>4. ASSUME NEW kind \in {"op", "bare", "background"}, turn.phase = "over", Queues(kind, {}, {})
      PROVE  Recalls'
  <2>1. Queues(kind, {}, script.earlier)
    BY <1>4 DEF Queues
  <2> QED BY <1>1, <1>4, <2>1, QueuesRecalls
<1> QED BY <1>2, <1>3, <1>4

LEMMA UserStartsRecalls == ASSUME IInv, ScriptTypes', UserStarts PROVE Recalls'
<1>1. turn.phase = "over" /\ Queues("prompt", {}, script.earlier) /\ UNCHANGED <<asked, channel, told, settled, doubted, cleared>>
  BY DEF UserStarts, Busy
<1>2. CASE UNCHANGED <<held, consumed, script, noted>>
  BY <1>1, <1>2, QueuesRecalls DEF history
<1>3. CASE RecordsHeld /\ Note(ToSet(held))
  <2>1. /\ steer.by = "none" /\ held' = <<>> /\ consumed' = consumed \union ToSet(held) /\ steer' = steer
        /\ script' = [script EXCEPT !.own = ToSet(held)]
    BY <1>1, <1>3 DEF RecordsHeld, channel
  <2>2. script'.earlier = script.earlier /\ script'.own = ToSet(held) /\ script'.later = {}
    BY <2>1, <1>1, Idle DEF Transcripts
  <2>3. turn'.phase = "queued" /\ turn'.kind = "prompt" /\ turn'.carries = {} /\ turn'.repeats = script.earlier
    BY <1>1 DEF Queues
  <2>4. \A a \in Answers : noted'[a] = IF a \in ToSet(held) THEN noted[a] + 1 ELSE noted[a]
    BY <1>3, Notes DEF IInv, Waits
  <2>5. \A a \in script.earlier \union settled \union ToSet(held) : noted'[a] > 0
    <3>1. \A a \in Answers : noted[a] \in Nat
      BY DEF IInv, Waits, Types
    <3> QED BY <1>1, <2>4, <3>1, Idle
  <2>6. ToSet(held) \intersect (script.earlier \union settled) = {}
    BY <1>1, Idle
  <2>7. Transcript'
    BY <1>1, <2>1, <2>2, <2>3, <2>5, <2>6 DEF Transcript, Recorded
  <2>8. UserSteer'
    BY <2>1 DEF UserSteer, IInv, Recalls
  <2>9. Unrepeated'
    BY <1>1, <2>2, <2>3, <2>6, Idle DEF Unrepeated, Repeats, Recorded
  <2>10. NoneLost'
    <3>1. \A a \in Answers \ (asked \union cleared) :
            a \in ToSet(held) \union consumed \/ told[a] > 0 \/ a \in script.earlier \union settled
      BY <1>1, Idle DEF IInv, Recalls, NoneLost
    <3> QED BY <1>1, <2>1, <2>2, <3>1 DEF NoneLost
  <2> QED BY <2>7, <2>8, <2>9, <2>10 DEF Recalls
<1> QED BY <1>2, <1>3 DEF UserStarts

LEMMA FlushTimerRecalls == ASSUME IInv, ScriptTypes', Types', FlushTimer PROVE Recalls'
<1>1. UNCHANGED <<asked, consumed, channel, told, settled, doubted, cleared>>
  BY DEF FlushTimer
<1>2. CASE UNCHANGED <<turn, held, script, noted>>
  BY <1>1, <1>2, ScriptStays DEF channel
<1>3. CASE CanFlush(held) /\ steer.by = "none" /\ Opens(held, script) /\ Note(ToSet(held))
  <2>1. turn.phase = "over" /\ steer'.by = "none" /\ steer' = steer
    BY <1>1, <1>3 DEF CanFlush, Busy, channel
  <2>2. ~steer'.user
    BY <2>1 DEF IInv, Recalls, UserSteer
  <2>3. \A a \in script.earlier \union ToSet(held) \union settled : noted'[a] > 0
    <3>1. \A a \in Answers : noted[a] \in Nat
      BY DEF IInv, Waits, Types
    <3>2. \A a \in Answers : noted'[a] = IF a \in ToSet(held) THEN noted[a] + 1 ELSE noted[a]
      BY <1>3, Notes DEF IInv, Waits
    <3> QED BY <2>1, <3>1, <3>2, Idle
  <2>4. ToSet(held) \intersect (script.earlier \union settled) = {}
    BY <2>1, Idle
  <2>5. \A a \in Answers \ (asked \union cleared) :
          a \in ToSet(held) \union consumed \/ told[a] > 0 \/ a \in script.earlier \union settled
    BY <2>1, Idle DEF IInv, Recalls, NoneLost
  <2> QED BY <1>1, <1>3, <2>1, <2>2, <2>3, <2>4, <2>5, Idle, OpensRecalls
<1> QED BY <1>2, <1>3 DEF FlushTimer

LEMMA AnswerRecalls == ASSUME IInv, ScriptTypes', Types', NEW a \in Answers, Answer(a) PROVE Recalls'
<1> DEFINE answers == Append(held, a)
<1>1. /\ a \in asked /\ asked' = asked \ {a} /\ FlushRunning(answers) /\ UNCHANGED <<consumed, handle, told, settled, doubted, cleared>>
      /\ \/ CanFlush(answers) /\ steer.by = "none" /\ Opens(answers, script) /\ Note(ToSet(answers))
         \/ held' = answers /\ UNCHANGED <<turn, script, noted>>
  BY DEF Answer
<1>2. Types /\ Channel /\ Apart /\ held \in Seq(Answers) /\ IsInjective(held)
  BY DEF IInv, Waits, Types, Apart
<1>3. /\ answers \in Seq(Answers) /\ ToSet(answers) = ToSet(held) \union {a} /\ ToSet(answers) \subseteq Answers
      /\ Head(answers) \in Answers
  <2>1. a \notin ToSet(held)
    BY <1>1, <1>2 DEF Apart
  <2>2. answers \in Seq(Answers) /\ answers # <<>> /\ ToSet(answers) = ToSet(held) \union {a}
    BY <1>2, <2>1, AppendedHeld
  <2> HIDE DEF answers
  <2> QED BY <2>2, HeldSet
<1> HIDE DEF answers
<1>4. \/ steer' = steer
      \/ Steering /\ turn.phase = "running"
  <2>1. steer' = steer \/ (handle /\ steer' = Out("answer", Head(answers)))
    BY <1>1, <1>2, <1>3, FlushEffect
  <2> QED BY <1>2, <1>3, <2>1, Begins DEF Texts, Owners
<1>5. CASE held' = answers /\ UNCHANGED <<turn, script, noted>>
  <2>1. asked \union ToSet(held) \subseteq asked' \union ToSet(held')
    BY <1>1, <1>3, <1>5
  <2> QED BY <1>1, <1>4, <1>5, <2>1, ScriptStays DEF Steering
<1>6. CASE CanFlush(answers) /\ steer.by = "none" /\ Opens(answers, script) /\ Note(ToSet(answers))
  <2>1. turn.phase = "over" /\ steer' = steer
    BY <1>4, <1>6 DEF CanFlush, Busy
  <2>2. ~steer'.user
    BY <1>6, <2>1 DEF IInv, Recalls, UserSteer
  <2>3. \A b \in script.earlier \union ToSet(answers) \union settled : noted'[b] > 0
    <3>1. \A b \in Answers : noted[b] \in Nat
      BY <1>2 DEF Types
    <3>2. \A b \in Answers : noted'[b] = IF b \in ToSet(answers) THEN noted[b] + 1 ELSE noted[b]
      BY <1>2, <1>6, Notes
    <3> QED BY <1>3, <2>1, <3>1, <3>2, Idle
  <2>4. ToSet(answers) \intersect (script.earlier \union settled) = {}
    BY <1>1, <1>3, <2>1, Idle
  <2>5. \A b \in Answers \ (asked' \union cleared') :
          b \in ToSet(answers) \union consumed' \/ told'[b] > 0 \/ b \in script.earlier \union settled'
    <3>1. \A b \in Answers \ (asked \union cleared) :
            b \in ToSet(held) \union consumed \/ told[b] > 0 \/ b \in script.earlier \union settled
      BY <2>1, Idle DEF IInv, Recalls, NoneLost
    <3> QED BY <1>1, <1>3, <3>1
  <2> QED BY <1>1, <1>3, <1>6, <2>1, <2>2, <2>3, <2>4, <2>5, Idle, OpensRecalls
<1> QED BY <1>1, <1>5, <1>6

LEMMA StartsRecalls == ASSUME IInv, ScriptTypes', Starts PROVE Recalls'
<1> DEFINE taken == IF Takes THEN consumed \union ToSet(held) ELSE {}
           X == taken \union turn.carries \union Unsent
<1>1. /\ turn.phase = "queued" /\ turn' = [turn EXCEPT !.phase = "running", !.carries = {}] /\ Tell(X)
      /\ IF Takes THEN held' = <<>> /\ consumed' = {} ELSE UNCHANGED <<held, consumed>>
      /\ UNCHANGED <<asked, script, channel, settled, noted, cleared>>
  BY DEF Starts, Drops
<1>2. Types /\ turn \in Turns /\ ToSet(held) \subseteq Answers /\ consumed \subseteq Answers /\ turn.carries \subseteq Answers
      /\ (\A t \in Texts : told[t] \in Nat) /\ Answers \subseteq Texts
      /\ script.earlier \subseteq Answers /\ script.own \subseteq Answers /\ script.later \subseteq Answers
  BY HeldSet DEF IInv, Waits, Types, Turns, Texts, Recalls, ScriptTypes, Transcripts
<1>3. turn'.phase = "running" /\ turn'.kind = turn.kind /\ turn'.carries = {} /\ turn'.repeats = turn.repeats
  BY <1>1, <1>2 DEF Turns
<1>4. \A t \in Texts : told'[t] = IF t \in X THEN told[t] + 1 ELSE told[t]
  BY <1>1, <1>2, Tells
<1>5. \A a \in Answers : (told[a] > 0 \/ a \in taken \union turn.carries) => told'[a] > 0
  <2> HIDE DEF taken
  <2> QED BY <1>2, <1>4
<1>6. Transcript /\ UserSteer /\ Unrepeated /\ NoneLost
  BY DEF IInv, Recalls
<1>7. \A a \in script.own : told'[a] > 0
  <2>1. turn.kind # "prompt" => script.own = {}
    BY <1>6 DEF Transcript
  <2>2. script.own = {} \/ (steer.by = "none" /\ script.own \subseteq consumed \union turn.carries)
    BY <1>1, <1>6 DEF Transcript
  <2>3. script.own = {} \/ script.own \subseteq taken \union turn.carries
    BY <2>1, <2>2 DEF Takes
  <2> HIDE DEF taken
  <2> QED BY <1>2, <1>5, <2>3
<1> HIDE DEF X, taken
<1>8. Recorded' = Recorded /\ steer' = steer /\ Recorded \subseteq Answers
  BY <1>1, <1>2 DEF Recorded, channel
<1>9. Transcript'
  <2>1. \A a \in Recorded' \union turn'.repeats \union settled' : noted'[a] > 0
    BY <1>1, <1>3, <1>6, <1>8 DEF Transcript
  <2>2. script'.later \intersect (script'.own \union turn'.repeats) = {} /\ (turn'.kind # "prompt" => script'.own = {} /\ script'.later = {})
    BY <1>1, <1>3, <1>6 DEF Transcript
  <2>3. (\A a \in script'.later : told'[a] > 0) /\ (turn'.kind = "prompt" => \A a \in script'.earlier : a \in turn'.repeats \/ told'[a] > 0)
    BY <1>1, <1>2, <1>3, <1>5, <1>6 DEF Transcript
  <2> QED BY <1>1, <1>3, <1>7, <2>1, <2>2, <2>3 DEF Transcript
<1>10. UserSteer'
  <2>1. ~(steer.user /\ steer.turn = "own")
    BY <1>1, <1>6 DEF UserSteer
  <2> QED BY <1>5, <1>6, <1>8, <2>1 DEF UserSteer
<1>11. Unrepeated'
  BY <1>1, <1>3, <1>6, <1>8 DEF Unrepeated, Repeats
<1>12. NoneLost'
  <2>1. Carried = turn.carries /\ ToSet(held) \union consumed \subseteq ToSet(held') \union consumed' \union taken
    BY <1>1, <1>3 DEF Carried, taken
  <2>2. \A a \in Answers \ (asked \union cleared) :
          a \in ToSet(held) \union consumed \union turn.carries \/ told[a] > 0 \/ a \in script.earlier \union settled
    BY <1>6, <2>1 DEF NoneLost
  <2>3. \A a \in Answers \ (asked' \union cleared') :
          a \in ToSet(held') \union consumed' \/ told'[a] > 0 \/ a \in script'.earlier \union settled'
    BY <1>1, <1>5, <2>1, <2>2
  <2> QED BY <2>3, Zenon DEF NoneLost
<1> QED BY <1>9, <1>10, <1>11, <1>12 DEF Recalls

\* The open turn's messages when it is over.
LEMMA ClosedEffect ==
  ASSUME script \in Transcripts, NEW result \in {"none", "done", "stopped", "failed"}
  PROVE  /\ Closed(result).own = {} /\ Closed(result).later = {} /\ Closed(result).earlier \subseteq Recorded
         /\ turn.kind = "prompt" /\ result = "stopped" => Closed(result).earlier = Recorded
         /\ turn.kind = "prompt" /\ result = "done" => Closed(result).earlier = script.later
         /\ turn.kind # "prompt" \/ result # "done" => script.earlier \subseteq Closed(result).earlier
         /\ turn.kind # "prompt" => Closed(result).earlier = script.earlier
<1> DEFINE e == IF turn.kind # "prompt" THEN script.earlier
                ELSE CASE result = "done"    -> script.later
                       [] result = "stopped" -> script.earlier \union script.own \union script.later
                       [] OTHER              -> script.earlier \union script.later
<1>1. Closed(result) = [earlier |-> e, own |-> {}, later |-> {}]
  BY DEF Closed
<1>2. /\ e \subseteq Recorded
      /\ turn.kind = "prompt" /\ result = "stopped" => e = Recorded
      /\ turn.kind = "prompt" /\ result = "done" => e = script.later
      /\ turn.kind # "prompt" \/ result # "done" => script.earlier \subseteq e
      /\ turn.kind # "prompt" => e = script.earlier
  BY DEF Recorded
<1> HIDE DEF e
<1> QED BY <1>1, <1>2

\* No turn is open any more: what is left of the transcript is what stopped turns were told.
LEMMA OverRecalls ==
  ASSUME IInv, turn'.phase = "over", turn'.kind = "none", turn'.repeats = {},
         script'.own = {}, script'.later = {}, script'.earlier \subseteq Recorded,
         noted' = noted, script'.earlier \intersect settled' = {}, \A a \in settled' : noted[a] > 0
  PROVE  Transcript' /\ Unrepeated'
<1>1. \A a \in Recorded : noted[a] > 0
  BY DEF IInv, Recalls, Transcript
<1>2. Recorded' = script'.earlier
  BY DEF Recorded
<1>3. Transcript'
  <2>1. \A a \in Recorded' \union turn'.repeats \union settled' : noted'[a] > 0
    BY <1>1, <1>2
  <2> QED BY <2>1 DEF Transcript
<1>4. Unrepeated'
  BY <1>2 DEF Unrepeated, Repeats
<1> QED BY <1>3, <1>4

LEMMA StoppedRecalls == ASSUME IInv, ScriptTypes', StoppedQueued PROVE Recalls'
<1>1. turn.phase = "queued" /\ turn' = Over("stopped") /\ script' = Closed("stopped")
      /\ UNCHANGED <<asked, held, consumed, steer, told, settled, noted, cleared>>
  BY DEF StoppedQueued, history, channel
<1>2. script \in Transcripts /\ Transcript /\ UserSteer /\ Unrepeated /\ NoneLost
  BY DEF IInv, Recalls, ScriptTypes
<1>3. script'.own = {} /\ script'.later = {} /\ script'.earlier \subseteq Recorded /\ script.earlier \subseteq script'.earlier
      /\ (turn.kind = "prompt" => script'.earlier = Recorded)
  BY <1>1, <1>2, ClosedEffect
<1>4. turn'.phase = "over" /\ turn'.kind = "none" /\ turn'.repeats = {}
  BY <1>1, OverTurn
<1>5. Transcript' /\ Unrepeated'
  <2>1. script'.earlier \intersect settled' = {} /\ \A a \in settled' : noted[a] > 0
    BY <1>1, <1>2, <1>3 DEF Unrepeated, Transcript
  <2> QED BY <1>1, <1>3, <1>4, <2>1, OverRecalls
<1>6. UserSteer'
  <2>1. Recorded' \subseteq Recorded
    BY <1>3 DEF Recorded
  <2> QED BY <1>1, <1>2, <2>1 DEF UserSteer
<1>7. NoneLost'
  <2>1. turn.carries \subseteq script'.earlier /\ Carried = turn.carries
    BY <1>1, <1>2, <1>3 DEF Transcript, Carried, Recorded
  <2>2. \A a \in Answers \ (asked \union cleared) :
          a \in ToSet(held) \union consumed \union turn.carries \/ told[a] > 0 \/ a \in script.earlier \union settled
    BY <1>2, <2>1 DEF NoneLost
  <2>3. \A a \in Answers \ (asked' \union cleared') :
          a \in ToSet(held') \union consumed' \/ told'[a] > 0 \/ a \in script'.earlier \union settled'
    BY <1>1, <1>3, <2>1, <2>2
  <2> QED BY <2>3, Zenon DEF NoneLost
<1> QED BY <1>5, <1>6, <1>7 DEF Recalls

LEMMA SettlesRecalls == ASSUME IInv, ScriptTypes', Settles PROVE Recalls'
<1> DEFINE said == IF turn.kind = "prompt" /\ turn.result = "done" THEN script.own \union turn.repeats ELSE {}
<1>1. /\ turn.phase = "closing" /\ turn' = Over(turn.result) /\ script' = Closed(turn.result)
      /\ steer' = [steer EXCEPT !.turn = IF @ = "own" THEN turn.result ELSE @]
      /\ settled' = settled \union said
      /\ UNCHANGED <<asked, held, consumed, told, noted, cleared>>
  BY DEF Settles
<1>2. script \in Transcripts /\ Transcript /\ UserSteer /\ Unrepeated /\ NoneLost /\ steer \in Steers
      /\ turn.result \in {"none", "done", "stopped", "failed"}
  BY DEF IInv, Recalls, ScriptTypes, Waits, Types, Turns
<1>3. /\ script'.own = {} /\ script'.later = {} /\ script'.earlier \subseteq Recorded
      /\ turn.kind = "prompt" /\ turn.result = "done" => script'.earlier = script.later
      /\ turn.kind # "prompt" \/ turn.result # "done" => script.earlier \subseteq script'.earlier
  BY <1>1, <1>2, ClosedEffect
<1>4. turn'.phase = "over" /\ turn'.kind = "none" /\ turn'.repeats = {}
  BY <1>1, <1>2, OverTurn
<1>5. Transcript' /\ Unrepeated'
  <2>1. said \intersect script'.earlier = {}
    <3>1. script.later \intersect (script.own \union turn.repeats) = {}
      BY <1>2 DEF Transcript
    <3> QED BY <1>3, <3>1
  <2>2. script'.earlier \intersect settled' = {}
    <3> HIDE DEF said
    <3> QED BY <1>1, <1>2, <1>3, <2>1 DEF Unrepeated
  <2>3. \A a \in settled' : noted[a] > 0
    <3>1. said \subseteq Recorded \union turn.repeats
      BY DEF Recorded
    <3> HIDE DEF said
    <3> QED BY <1>1, <1>2, <3>1 DEF Transcript
  <2> QED BY <1>1, <1>3, <1>4, <2>2, <2>3, OverRecalls
<1>6. UserSteer'
  <2>1. steer'.by = steer.by /\ (steer'.user = steer.user) /\ steer'.turn # "own"
        /\ (steer'.turn = "done" => steer.turn = "done" \/ (steer.turn = "own" /\ turn.result = "done"))
    <3> DEFINE end == IF steer.turn = "own" THEN turn.result ELSE steer.turn
    <3>1. steer' = [steer EXCEPT !.turn = end]
      BY <1>1, <1>2 DEF Steers
    <3> HIDE DEF end
    <3>2. steer'.by = steer.by /\ (steer'.user = steer.user) /\ steer'.turn = end
      BY <1>2, <3>1 DEF Steers
    <3> QED BY <1>2, <3>2 DEF end
  <2>2. Recorded' \subseteq Recorded
    BY <1>3 DEF Recorded
  <2>3. steer.user /\ steer.turn = "own" /\ turn.result = "done" => \A a \in Recorded' : told[a] > 0
    BY <1>2, <1>3 DEF UserSteer, Transcript, Recorded
  <2> QED BY <1>1, <1>2, <2>1, <2>2, <2>3 DEF UserSteer
<1>7. NoneLost'
  <2>1. Carried = {}
    BY <1>1 DEF Carried
  <2>2. \A a \in Answers \ (asked \union cleared) :
          a \in ToSet(held) \union consumed \/ told[a] > 0 \/ a \in script.earlier \union settled
    BY <1>2, <2>1 DEF NoneLost
  <2>3. \A a \in script.earlier : a \in script'.earlier \union settled' \/ told[a] > 0
    BY <1>1, <1>2, <1>3 DEF Transcript
  <2>4. \A a \in Answers \ (asked' \union cleared') :
          a \in ToSet(held') \union consumed' \/ told'[a] > 0 \/ a \in script'.earlier \union settled'
    BY <1>1, <2>2, <2>3
  <2> QED BY <2>4, Zenon DEF NoneLost
<1> QED BY <1>5, <1>6, <1>7 DEF Recalls

LEMMA ToolBoundaryRecalls == ASSUME IInv, ScriptTypes', ToolBoundary PROVE Recalls'
<1>1. turn.phase = "running" /\ turn' = turn /\ steer' = steer /\ UNCHANGED <<asked, consumed, settled, cleared>>
  BY DEF ToolBoundary, running, channel
<1>2. Types /\ script \in Transcripts /\ Transcript /\ UserSteer /\ Unrepeated /\ NoneLost /\ ToSet(held) \subseteq Answers
      /\ Answers \subseteq Texts /\ (\A t \in Texts : told[t] \in Nat) /\ (\A a \in Answers : noted[a] \in Nat)
  BY HeldSet DEF IInv, Recalls, ScriptTypes, Waits, Types, Texts
<1>3. CASE Tell(Unsent) /\ UNCHANGED <<held, script, noted>>
  <2>1. \A a \in Answers : told[a] > 0 => told'[a] > 0
    BY <1>2, <1>3, Heard
  <2> QED BY <1>1, <1>3, <2>1, ScriptStays
<1>4. CASE /\ Tell(Pulls) /\ Note(Pulls) /\ script' = OwnMessage(Pulls)
           /\ held' = IF Pulls = {} THEN held ELSE <<>>
  <2>1. Pulls = {} \/ (Pulls = ToSet(held) /\ steer.by = "none")
    BY DEF Pulls
  <2>2. Pulls \subseteq Answers /\ \A a \in Pulls : noted[a] = 0
    BY <1>2, <2>1 DEF IInv, Waits, Fresh
  <2>3. \A t \in Texts : told'[t] = IF t \in Pulls THEN told[t] + 1 ELSE told[t]
    BY <1>2, <1>4, Tells
  <2>4. \A a \in Answers : noted'[a] = IF a \in Pulls THEN noted[a] + 1 ELSE noted[a]
    BY <1>2, <1>4, Notes
  <2> HIDE DEF Pulls
  <2>5. /\ \A a \in Answers : (told[a] > 0 \/ a \in Pulls) => told'[a] > 0
        /\ \A a \in Answers : (noted[a] > 0 \/ a \in Pulls) => noted'[a] > 0
    BY <1>2, <2>3, <2>4
  <2>6. /\ script.earlier \subseteq Answers /\ script.own \subseteq Answers /\ script.later \subseteq Answers
        /\ turn.repeats \subseteq Answers /\ settled \subseteq Answers
    BY <1>2 DEF Transcripts, Types, Turns, IInv, Recalls, ScriptTypes
  <2>7. \/ script' = script
        \/ /\ turn.kind = "prompt" /\ script'.earlier = script.earlier \union script.later
           /\ script'.own = script.own \union Pulls /\ script'.later = {}
    BY <1>4 DEF OwnMessage
  <2>8. /\ Recorded' \subseteq Recorded \union Pulls /\ script.earlier \subseteq script'.earlier
        /\ script'.earlier \subseteq script.earlier \union script.later /\ script'.own \subseteq script.own \union Pulls
        /\ script'.later \subseteq script.later
    BY <2>7 DEF Recorded
  <2>9. Transcript'
    <3>1. \A a \in Recorded' \union turn'.repeats \union settled' : noted'[a] > 0
      BY <1>1, <1>2, <2>2, <2>5, <2>6, <2>8 DEF Transcript, Recorded
    <3>2. script'.later \intersect (script'.own \union turn'.repeats) = {}
      BY <1>1, <1>2, <2>7 DEF Transcript
    <3>3. turn'.kind # "prompt" => script'.own = {} /\ script'.later = {}
      BY <1>1, <1>2, <2>7 DEF Transcript
    <3>4. (\A a \in script'.later : told'[a] > 0) /\ \A a \in script'.own : told'[a] > 0
      BY <1>1, <1>2, <2>2, <2>5, <2>6, <2>8 DEF Transcript
    <3>5. turn'.kind = "prompt" => \A a \in script'.earlier : a \in turn'.repeats \/ told'[a] > 0
      BY <1>1, <1>2, <2>5, <2>6, <2>8 DEF Transcript
    <3> QED BY <1>1, <3>1, <3>2, <3>3, <3>4, <3>5 DEF Transcript
  <2>10. UserSteer'
    <3>1. steer.user => Pulls = {}
      BY <1>2, <2>1 DEF UserSteer
    <3> QED BY <1>1, <1>2, <2>5, <2>6, <2>8, <3>1 DEF UserSteer, Recorded
  <2>11. Unrepeated'
    <3>1. Repeats' = {}
      BY <1>1 DEF Repeats
    <3> QED BY <1>1, <1>2, <2>2, <2>8, <3>1 DEF Unrepeated, Transcript
  <2>12. NoneLost'
    <3>1. Carried = {} /\ ToSet(held) \subseteq ToSet(held') \union Pulls
      BY <1>1, <1>4, <2>1 DEF Carried
    <3>2. \A a \in Answers \ (asked \union cleared) :
            a \in ToSet(held) \union consumed \/ told[a] > 0 \/ a \in script.earlier \union settled
      BY <1>2, <3>1 DEF NoneLost
    <3>3. \A a \in Answers \ (asked' \union cleared') :
            a \in ToSet(held') \union consumed' \/ told'[a] > 0 \/ a \in script'.earlier \union settled'
      BY <1>1, <2>5, <2>8, <3>1, <3>2
    <3> QED BY <3>3, Zenon DEF NoneLost
  <2> QED BY <2>9, <2>10, <2>11, <2>12 DEF Recalls
<1> QED BY <1>3, <1>4 DEF ToolBoundary

LEMMA RewindRecalls == ASSUME IInv, ScriptTypes', Rewind PROVE Recalls'
<1>1. PICK kept \in SUBSET script.earlier : script' = [script EXCEPT !.earlier = kept] /\ Forgets(script.earlier \ kept)
  BY DEF Rewind
<1>2. /\ turn.phase = "over" /\ turn' = turn /\ steer' = steer /\ asked' = {} /\ UNCHANGED <<told, settled, noted>>
  BY DEF Rewind, Busy, running, channel
<1>3. script \in Transcripts /\ script.own = {} /\ script.later = {} /\ Carried = {}
  BY <1>2, Idle
<1>4. script'.earlier = kept /\ script'.own = {} /\ script'.later = {}
  BY <1>1, <1>3 DEF Transcripts
<1>5. Transcript /\ UserSteer /\ Unrepeated /\ NoneLost
  BY DEF IInv, Recalls
<1>6. Recorded' \subseteq Recorded
  BY <1>4 DEF Recorded
<1>7. Transcript'
  BY <1>2, <1>4, <1>5, <1>6 DEF Transcript
<1>8. UserSteer' /\ Unrepeated'
  BY <1>2, <1>5, <1>6 DEF UserSteer, Unrepeated, Repeats
<1>9. NoneLost'
  <2>1. cleared' = cleared \union (script.earlier \ kept) \union ((ToSet(held) \union consumed \union asked) \ kept)
    BY <1>1, <1>2, <1>4 DEF Forgets
  <2>2. \A a \in Answers \ (asked \union cleared) :
          a \in ToSet(held) \union consumed \/ told[a] > 0 \/ a \in script.earlier \union settled
    BY <1>3, <1>5 DEF NoneLost
  <2>3. \A a \in Answers \ (asked' \union cleared') : told'[a] > 0 \/ a \in script'.earlier \union settled'
    BY <1>2, <1>4, <2>1, <2>2
  <2> QED BY <2>3, Zenon DEF NoneLost
<1> QED BY <1>7, <1>8, <1>9 DEF Recalls

LEMMA ArchiveRecalls == ASSUME IInv, ScriptTypes', Archive PROVE Recalls'
<1>1. asked' = {} /\ steer' = steer /\ UNCHANGED <<told, settled, noted>>
  BY DEF Archive, channel
<1>2. script \in Transcripts /\ Transcript /\ UserSteer /\ Unrepeated /\ NoneLost
  BY DEF IInv, Recalls, ScriptTypes
<1>3. CASE turn.phase = "queued" /\ turn' = Over("stopped") /\ script' = Closed("stopped") /\ Forgets(script'.earlier)
  <2>1. script'.own = {} /\ script'.later = {} /\ script'.earlier \subseteq Recorded /\ script.earlier \subseteq script'.earlier
        /\ (turn.kind = "prompt" => script'.earlier = Recorded)
    BY <1>2, <1>3, ClosedEffect
  <2>2. turn'.phase = "over" /\ turn'.kind = "none" /\ turn'.repeats = {}
    BY <1>3, OverTurn
  <2>3. Transcript' /\ Unrepeated'
    <3>1. script'.earlier \intersect settled' = {} /\ \A a \in settled' : noted[a] > 0
      BY <1>1, <1>2, <2>1 DEF Unrepeated, Transcript
    <3> QED BY <1>1, <2>1, <2>2, <3>1, OverRecalls
  <2>4. UserSteer'
    <3>1. Recorded' \subseteq Recorded
      BY <2>1 DEF Recorded
    <3> QED BY <1>1, <1>2, <1>3, <3>1 DEF UserSteer
  <2>5. NoneLost'
    <3>1. cleared' = cleared \union script'.earlier \union ((ToSet(held) \union consumed \union asked) \ script'.earlier)
      BY <1>1, <1>3 DEF Forgets
    <3>2. turn.carries \subseteq script'.earlier /\ Carried = turn.carries
      BY <1>2, <1>3, <2>1 DEF Transcript, Carried, Recorded
    <3>3. \A a \in Answers \ (asked \union cleared) :
            a \in ToSet(held) \union consumed \union turn.carries \/ told[a] > 0 \/ a \in script.earlier \union settled
      BY <1>2, <3>2 DEF NoneLost
    <3>4. \A a \in Answers \ (asked' \union cleared') : told'[a] > 0 \/ a \in script'.earlier \union settled'
      BY <1>1, <2>1, <3>1, <3>2, <3>3
    <3> QED BY <3>4, Zenon DEF NoneLost
  <2> QED BY <2>3, <2>4, <2>5 DEF Recalls
<1>4. CASE turn.phase # "queued" /\ UNCHANGED <<turn, script>> /\ Forgets(script.earlier)
  <2>1. Transcript' /\ UserSteer' /\ Unrepeated'
    BY <1>1, <1>2, <1>4 DEF Transcript, UserSteer, Unrepeated, Repeats, Recorded
  <2>2. cleared' = cleared \union script.earlier \union ((ToSet(held) \union consumed \union asked) \ script.earlier)
    BY <1>1, <1>4 DEF Forgets
  <2>3. \A a \in Answers \ (asked \union cleared) :
          a \in ToSet(held) \union consumed \/ told[a] > 0 \/ a \in script.earlier \union settled
    BY <1>2, <1>4 DEF NoneLost, Carried
  <2>4. \A a \in Answers \ (asked' \union cleared') : told'[a] > 0 \/ a \in settled'
    BY <1>1, <2>2, <2>3
  <2>5. NoneLost'
    BY <2>4, Zenon DEF NoneLost
  <2> QED BY <2>1, <2>5 DEF Recalls
<1> QED BY <1>3, <1>4 DEF Archive

LEMMA DiesRecalls == ASSUME IInv, ScriptTypes', Dies PROVE Recalls'
<1>1. /\ steer' = Free /\ UNCHANGED <<asked, settled, noted>> /\ Forgets({})
      /\ \E took : Tell(took)
  BY DEF Dies
<1>2. Types /\ script \in Transcripts /\ Transcript /\ UserSteer /\ Unrepeated /\ NoneLost /\ Answers \subseteq Texts
      /\ turn.result \in {"none", "done", "stopped", "failed"} /\ turn.phase \in {"over", "queued", "running", "closing"}
  BY DEF IInv, Recalls, ScriptTypes, Waits, Types, Turns, Texts
<1>3. \A a \in Answers : told[a] > 0 => told'[a] > 0
  BY <1>1, <1>2, Heard
<1>4. PICK result \in {"stopped", "failed"} :
      /\ turn.phase = "queued" => result = "stopped"
      /\ turn' = Over(IF Busy THEN result ELSE turn.result)
      /\ script' = IF Busy THEN Closed(result) ELSE script
  BY DEF Dies
<1>5. turn'.phase = "over" /\ turn'.kind = "none" /\ turn'.repeats = {}
  <2> DEFINE end == IF Busy THEN result ELSE turn.result
  <2>1. end \in {"none", "done", "stopped", "failed"}
    BY <1>2
  <2> QED BY <1>4, <2>1, OverTurn
<1>6. /\ script'.own = {} /\ script'.later = {} /\ script'.earlier \subseteq Recorded /\ script.earlier \subseteq script'.earlier
      /\ turn.phase = "queued" /\ turn.kind = "prompt" => script'.earlier = Recorded
  <2>1. CASE Busy
    BY <1>2, <1>4, <2>1, ClosedEffect
  <2>2. CASE ~Busy
    BY <1>4, <2>2, Idle DEF Busy, Recorded
  <2> QED BY <2>1, <2>2
<1>7. Transcript' /\ Unrepeated'
  <2>1. script'.earlier \intersect settled' = {} /\ \A a \in settled' : noted[a] > 0
    BY <1>1, <1>2, <1>6 DEF Unrepeated, Transcript
  <2> QED BY <1>1, <1>5, <1>6, <2>1, OverRecalls
<1>8. UserSteer'
  BY <1>1, SteerFields DEF UserSteer
<1>9. NoneLost'
  <2>1. cleared' = cleared \union ((ToSet(held) \union consumed) \ script'.earlier)
    BY <1>1 DEF Forgets
  <2>2. Carried \subseteq script'.earlier
    BY <1>2, <1>6 DEF Transcript, Carried, Recorded
  <2>3. \A a \in Answers \ (asked \union cleared) :
          a \in ToSet(held) \union consumed \union Carried \/ told[a] > 0 \/ a \in script.earlier \union settled
    BY <1>2 DEF NoneLost
  <2>4. \A a \in Answers \ (asked' \union cleared') : told'[a] > 0 \/ a \in script'.earlier \union settled'
    BY <1>1, <1>3, <1>6, <2>1, <2>2, <2>3
  <2> QED BY <2>4, Zenon DEF NoneLost
<1> QED BY <1>7, <1>8, <1>9 DEF Recalls

\* An accepted steer's message, where the walk then finds it.
LEMMA SteeredEffect ==
  ASSUME IInv, steer.by = "answer"
  PROVE  LET M == SteeredMessage IN
         \/ M = script /\ ~steer.user
         \/ M = script /\ steer.turn # "done"
         \/ /\ steer.user /\ steer.turn = "own" /\ turn.kind = "prompt" /\ turn.phase \in {"running", "closing"}
            /\ M.earlier = script.earlier \union script.later /\ M.own = script.own \union {steer.text} /\ M.later = {}
         \/ /\ steer.user /\ steer.turn = "done" /\ M.earlier = {} /\ M.own = {} /\ M.later = {}
         \/ /\ steer.turn = "stopped" /\ turn.kind = "prompt"
            /\ M.earlier = script.earlier /\ M.own = script.own /\ M.later = script.later \union {steer.text}
         \/ /\ steer.turn = "stopped" /\ turn.kind # "prompt"
            /\ M.earlier = script.earlier \union {steer.text} /\ M.own = script.own /\ M.later = script.later
<1>1. script \in Transcripts /\ UserSteer /\ Transcript
  BY DEF IInv, Recalls, ScriptTypes
<1>2. CASE ~steer.user
  BY <1>2 DEF SteeredMessage
<1>3. CASE steer.user /\ steer.turn = "own"
  <2>1. SteeredMessage = [earlier |-> script.earlier \union script.later, own |-> script.own \union {steer.text}, later |-> {}]
    BY <1>3 DEF SteeredMessage
  <2> QED BY <1>1, <1>3, <2>1 DEF UserSteer
<1>4. CASE steer.user /\ steer.turn = "done"
  <2>1. SteeredMessage = NoScript
    BY <1>4 DEF SteeredMessage
  <2> QED BY <1>4, <2>1 DEF NoScript
<1>5. CASE steer.user /\ steer.turn = "stopped"
  <2>1. CASE turn.kind = "prompt"
    <3>1. Busy
      BY <1>1, <2>1 DEF Busy, Transcript
    <3>2. SteeredMessage = [script EXCEPT !.later = script.later \union {steer.text}]
      BY <1>1, <1>5, <2>1, <3>1 DEF SteeredMessage, Transcripts
    <3> QED BY <1>1, <1>5, <2>1, <3>2 DEF Transcripts
  <2>2. CASE turn.kind # "prompt"
    <3>1. SteeredMessage = [script EXCEPT !.earlier = script.earlier \union {steer.text}]
      BY <1>1, <1>5, <2>2 DEF SteeredMessage, Transcripts
    <3> QED BY <1>1, <1>5, <2>2, <3>1 DEF Transcripts
  <2> QED BY <2>1, <2>2
<1>6. CASE steer.user /\ steer.turn \notin {"own", "done", "stopped"}
  BY <1>6 DEF SteeredMessage
<1> QED BY <1>2, <1>3, <1>4, <1>5, <1>6

LEMMA AnswerSettlesRecalls ==
  ASSUME IInv, ScriptTypes', Types', NEW outcome \in {"accepted", "refused", "failed"}, NEW took \in BOOLEAN,
         AnswerSettles(outcome, took)
  PROVE  Recalls'
<1> DEFINE x == steer.text
           accepted == outcome = "accepted"
           answers == IF accepted THEN RemoveFirst(held, x) ELSE held
           rows == IF accepted THEN SteeredMessage ELSE script
           next == accepted /\ steer.live /\ answers # <<>>
           late == ~next /\ ~handle /\ steer.turn = "done" /\ CanFlush(answers)
           X == IF took THEN {x} ELSE {}
           N == (IF accepted THEN {x} ELSE {}) \union (IF late THEN ToSet(answers) ELSE {})
           sure == IF accepted /\ steer.user /\ steer.turn = "done" THEN {x} ELSE {}
<1>1. /\ Types /\ Channel /\ held \in Seq(Answers) /\ IsInjective(held) /\ ToSet(held) \subseteq Answers
      /\ script \in Transcripts /\ Transcript /\ UserSteer /\ Unrepeated /\ NoneLost /\ Fresh /\ steer \in Steers
  BY HeldSet DEF IInv, Waits, Types, Apart, Recalls, ScriptTypes
<1>2. /\ steer.by = "answer" /\ (accepted => took) /\ Tell(X) /\ Note(N)
      /\ IF next THEN steer' = [steer EXCEPT !.text = Head(answers)] ELSE steer' = Free
      /\ settled' = settled \union sure
      /\ IF late THEN Opens(answers, rows) ELSE held' = answers /\ script' = rows /\ UNCHANGED turn
      /\ UNCHANGED <<asked, consumed, cleared>>
  BY DEF AnswerSettles
<1>3. x \in Answers /\ x \in Texts /\ noted[x] = 0
  <2>1. x \in Answers /\ x \in Steered
    BY <1>1, <1>2 DEF Channel, Steered
  <2> QED BY <1>1, <2>1 DEF Fresh, Texts
<1>4. /\ answers \in Seq(Answers)
      /\ ToSet(answers) = IF accepted THEN ToSet(held) \ {x} ELSE ToSet(held)
  BY <1>1, RemovedHeld
<1>5. rows \in Transcripts
  BY <1>1, <1>3, ScriptSteps
<1>6. rows = script \/ (accepted /\ rows = SteeredMessage)
  OBVIOUS
<1>7. late => turn.phase = "over" /\ steer.turn = "done"
  BY DEF CanFlush, Busy
<1>8. accepted => rows = SteeredMessage
  OBVIOUS
<1>9. sure = {} \/ (sure = {x} /\ accepted /\ steer.user /\ steer.turn = "done")
  OBVIOUS
<1>10. (accepted => x \in N) /\ (late => ToSet(answers) \subseteq N) /\ (accepted => x \in X)
  BY <1>2
<1>11. next => accepted
  OBVIOUS
<1> HIDE DEF answers, rows, next, late, x, accepted, X, N, sure
<1>12. \A t \in Texts : told'[t] = IF t \in X THEN told[t] + 1 ELSE told[t]
  BY <1>1, <1>2, Tells
<1>13. \A a \in Answers : noted'[a] = IF a \in N THEN noted[a] + 1 ELSE noted[a]
  BY <1>1, <1>2, Notes
<1>14. /\ \A a \in Answers : (told[a] > 0 \/ (accepted /\ a = x)) => told'[a] > 0
       /\ \A a \in Answers : (noted[a] > 0 \/ (accepted /\ a = x) \/ (late /\ a \in ToSet(answers))) => noted'[a] > 0
  <2>1. (\A a \in Answers : told[a] \in Nat /\ a \in Texts) /\ (\A a \in Answers : noted[a] \in Nat)
    BY <1>1 DEF Types, Texts
  <2> QED BY <1>3, <1>10, <1>12, <1>13, <2>1
<1>15. /\ script.earlier \subseteq Answers /\ script.own \subseteq Answers /\ script.later \subseteq Answers
       /\ turn.repeats \subseteq Answers /\ settled \subseteq Answers /\ turn.repeats \subseteq Answers
  BY <1>1 DEF Transcripts, Types, Turns, IInv, Recalls, ScriptTypes
<1>16. /\ x \notin Recorded \union turn.repeats \union settled
  BY <1>1, <1>3 DEF Transcript
<1>17. \* Where the message went.
       \/ rows = script /\ (sure = {} \/ steer.user)
       \/ /\ accepted /\ sure = {} /\ turn.kind = "prompt" /\ turn.phase \in {"running", "closing"} /\ steer.turn = "own"
          /\ rows.earlier = script.earlier \union script.later /\ rows.own = script.own \union {x} /\ rows.later = {}
       \/ /\ accepted /\ steer.user /\ steer.turn = "done" /\ rows.earlier = {} /\ rows.own = {} /\ rows.later = {}
       \/ /\ accepted /\ sure = {} /\ steer.turn = "stopped" /\ turn.kind = "prompt"
          /\ rows.earlier = script.earlier /\ rows.own = script.own /\ rows.later = script.later \union {x}
       \/ /\ accepted /\ sure = {} /\ steer.turn = "stopped" /\ turn.kind # "prompt"
          /\ rows.earlier = script.earlier \union {x} /\ rows.own = script.own /\ rows.later = script.later
  BY <1>2, <1>6, <1>9, SteeredEffect DEF x
<1>18. rows = script => sure = {} \/ (steer.user /\ steer.turn = "done" /\ Recorded = {})
  <2>1. CASE rows = script /\ sure # {}
    <3>1. rows = SteeredMessage /\ steer.user /\ steer.turn = "done"
      BY <1>8, <1>9, <2>1
    <3>2. rows = NoScript
      BY <3>1 DEF SteeredMessage
    <3> QED BY <2>1, <3>1, <3>2 DEF Recorded, NoScript
  <2> QED BY <2>1
<1>19. CASE late
  <2>1. /\ rows.own = {} /\ rows.later = {} /\ rows.earlier \subseteq script.earlier
        /\ rows.earlier = script.earlier \/ (steer.user /\ steer.turn = "done")
    BY <1>1, <1>7, <1>17, <1>19 DEF Transcript
  <2>2. Opens(answers, rows) /\ steer' = Free
    BY <1>2, <1>7, <1>19 DEF next, late
  <2>3. rows.earlier \intersect settled' = {}
    <3>1. script.earlier \intersect settled = {} /\ script.earlier \subseteq Recorded
      BY <1>1 DEF Unrepeated, Recorded
    <3> QED BY <1>2, <1>9, <1>16, <2>1, <3>1
  <2>4. ToSet(answers) \subseteq ToSet(held) /\ (accepted => x \notin ToSet(answers)) /\ ToSet(held) \subseteq ToSet(answers) \union {x}
        /\ (~accepted => ToSet(answers) = ToSet(held))
    BY <1>4
  <2>5. ToSet(answers) \intersect (rows.earlier \union settled') = {}
    <3>1. \A a \in ToSet(held) : noted[a] = 0
      BY <1>1 DEF Fresh
    <3>2. \A a \in rows.earlier \union settled : noted[a] > 0
      BY <1>1, <2>1 DEF Transcript, Recorded
    <3> QED BY <1>2, <1>9, <2>4, <3>1, <3>2
  <2>6. \A a \in rows.earlier \union ToSet(answers) \union settled' : noted'[a] > 0
    <3>1. \A a \in rows.earlier \union settled : noted[a] > 0 /\ a \in Answers
      BY <1>1, <1>15, <2>1 DEF Transcript, Recorded
    <3> QED BY <1>1, <1>2, <1>3, <1>9, <1>14, <1>19, <2>4, <3>1
  <2>7. \A a \in Answers \ (asked' \union cleared') :
          a \in ToSet(answers) \union consumed' \/ told'[a] > 0 \/ a \in rows.earlier \union settled'
    <3>1. Carried = {}
      BY <1>7, <1>19 DEF Carried
    <3>2. \A a \in Answers \ (asked \union cleared) :
            a \in ToSet(held) \union consumed \/ told[a] > 0 \/ a \in script.earlier \union settled
      BY <1>1, <3>1 DEF NoneLost
    <3>3. \A a \in script.earlier : a \in rows.earlier \/ told[a] > 0
      BY <1>1, <2>1 DEF UserSteer, Recorded
    <3>4. ToSet(held) \subseteq ToSet(answers) \/ accepted
      BY <2>4
    <3> QED BY <1>2, <1>3, <1>14, <1>15, <2>4, <3>2, <3>3, <3>4
  <2>8. steer'.by = "none" /\ ~steer'.user
    BY <2>2, SteerFields, Fields
  <2>9. ToSet(answers) \subseteq Answers
    BY <1>1, <2>4
  <2> QED BY <1>5, <2>1, <2>2, <2>3, <2>5, <2>6, <2>7, <2>8, <2>9, OpensRecalls
<1>20. CASE ~late
  <2>1. held' = answers /\ script' = rows /\ turn' = turn
    BY <1>2, <1>20
  <2>2. Recorded' \subseteq Recorded \union {x} /\ (accepted \/ Recorded' \subseteq Recorded)
    BY <1>17, <2>1 DEF Recorded
  <2>3. sure # {} => Recorded' = {}
    BY <1>9, <1>17, <1>18, <2>1 DEF Recorded
  <2>4. Transcript'
    <3>1. \A a \in Recorded' \union turn'.repeats \union settled' : noted'[a] > 0
      <4>1. \A a \in Recorded \union turn.repeats \union settled : a \in Answers /\ noted[a] > 0
        BY <1>1, <1>15 DEF Transcript, Recorded
      <4> QED BY <1>2, <1>3, <1>9, <1>14, <2>1, <2>2, <4>1
    <3>2. script'.later \intersect (script'.own \union turn'.repeats) = {}
      <4>1. script.later \intersect (script.own \union turn.repeats) = {}
        BY <1>1 DEF Transcript
      <4> QED BY <1>16, <1>17, <2>1, <4>1 DEF Recorded
    <3>3. turn'.kind # "prompt" => script'.own = {} /\ script'.later = {}
      BY <1>1, <1>17, <2>1 DEF Transcript
    <3>4. (\A a \in script'.later : told'[a] > 0) /\ (turn'.phase # "queued" => \A a \in script'.own : told'[a] > 0)
      BY <1>1, <1>3, <1>14, <1>15, <1>17, <2>1 DEF Transcript
    <3>5. turn'.phase = "queued" => turn'.carries \subseteq script'.own /\ script'.own = {}
      <4>1. turn.phase = "queued" => turn.carries = {} /\ script.own = {}
        BY <1>1, <1>2 DEF Transcript
      <4> QED BY <1>17, <2>1, <4>1
    <3>6. turn'.kind = "prompt" => \A a \in script'.earlier : a \in turn'.repeats \/ told'[a] > 0
      BY <1>1, <1>14, <1>15, <1>17, <2>1 DEF Transcript
    <3> QED BY <1>1, <2>1, <3>1, <3>2, <3>3, <3>4, <3>5, <3>6 DEF Transcript
  <2>5. UserSteer'
    <3>1. CASE next
      <4>1. steer'.by = steer.by /\ steer'.turn = steer.turn /\ (steer'.user = steer.user)
        <5>1. \E t : steer' = [steer EXCEPT !.text = t]
          BY <1>2, <3>1
        <5> QED BY <1>1, <5>1, SteerFields
      <4>2. steer.user /\ steer.turn = "done" => Recorded' = {}
        <5>1. CASE steer.user /\ steer.turn = "done"
          <6>1. rows = SteeredMessage
            BY <1>8, <1>11, <3>1
          <6>2. rows = NoScript
            BY <5>1, <6>1 DEF SteeredMessage
          <6> QED BY <2>1, <6>2 DEF Recorded, NoScript
        <5> QED BY <5>1
      <4> QED BY <1>1, <2>1, <4>1, <4>2 DEF UserSteer
    <3>2. CASE ~next
      BY <1>2, <3>2, SteerFields DEF UserSteer
    <3> QED BY <3>1, <3>2
  <2>6. Unrepeated'
    <3>1. Repeats' = Repeats /\ Repeats \subseteq turn.repeats
      BY <2>1 DEF Repeats
    <3> QED BY <1>1, <1>2, <1>9, <1>16, <2>2, <2>3, <3>1 DEF Unrepeated
  <2>7. NoneLost'
    <3>1. Carried' = Carried
      BY <2>1 DEF Carried
    <3>2. \A a \in Answers \ (asked \union cleared) :
            a \in ToSet(held) \union consumed \union Carried \/ told[a] > 0 \/ a \in script.earlier \union settled
      BY <1>1 DEF NoneLost
    <3>3. \A a \in script.earlier : a \in rows.earlier \/ told[a] > 0
      BY <1>1, <1>17 DEF UserSteer, Recorded
    <3>4. \A a \in ToSet(held) : a \in ToSet(answers) \/ (accepted /\ a = x)
      BY <1>4
    <3>5. \A a \in Answers \ (asked' \union cleared') :
            a \in ToSet(held') \union consumed' \union Carried' \/ told'[a] > 0 \/ a \in script'.earlier \union settled'
      BY <1>2, <1>14, <1>15, <2>1, <3>1, <3>2, <3>3, <3>4
    <3> QED BY <3>5, Zenon DEF NoneLost
  <2> QED BY <2>4, <2>5, <2>6, <2>7 DEF Recalls
<1> QED BY <1>19, <1>20

-----------------------------------------------------------------------------
(* The theorems.                                                           *)

LEMMA InitWaits == Init => Waits
<1> SUFFICES ASSUME Init PROVE Waits
  OBVIOUS
<1>1. /\ pendingWake \in BOOLEAN /\ wakeTimer \in BOOLEAN /\ flushTimer \in BOOLEAN
      /\ handle \in BOOLEAN /\ ~handle /\ doubt \in BOOLEAN /\ archived \in BOOLEAN
  BY Zenon DEF Init
<1>2. /\ asked = Answers /\ held = <<>> /\ consumed = {} /\ notices = {} /\ after = "none"
      /\ turn = [phase |-> "over", kind |-> "none", carries |-> {}, repeats |-> {}, result |-> "done"]
      /\ steer = Free /\ flush = Still /\ turnsLeft = MaxTurns /\ eventsLeft = MaxEvents
      /\ told = [t \in Texts |-> 0] /\ noted = [a \in Answers |-> 0] /\ doubted = {} /\ cleared = {}
  BY DEF Init
<1>3. steer \in Steers /\ flush \in Flushes /\ turn \in Turns /\ steer.by = "none" /\ ~steer.live
  BY <1>2, Records, Fields DEF Turns
<1>4. Types
  BY <1>1, <1>2, <1>3, EmptyHeld, InputAssumption DEF Types
<1>5. Carried = {} /\ Steered = {}
  BY <1>2, <1>3 DEF Carried, Steered
<1>6. Channel /\ Apart
  BY <1>1, <1>2, <1>3, <1>5, EmptyHeld DEF Channel, Apart
<1>7. Fresh /\ Counted
  <2>1. \A t \in Texts : told[t] = 0
    BY <1>2
  <2>2. \A a \in Answers : noted[a] = 0
    BY <1>2
  <2> QED BY <1>2, <1>5, <2>1, <2>2, EmptyHeld DEF Fresh, Counted, Texts
<1> QED BY <1>4, <1>6, <1>7 DEF Waits

LEMMA WaitsKept == Waits /\ ScriptTypes /\ ScriptTypes' /\ [Next]_vars => Waits'
<1> SUFFICES ASSUME Waits, ScriptTypes, ScriptTypes', [Next]_vars PROVE Waits'
  OBVIOUS
<1>1. CASE UNCHANGED vars
  <2>1. Types'
    BY <1>1 DEF vars, wakes, running, channel, bounds, history, Waits, Types
  <2>2. Channel' /\ Carried' = Carried /\ Steered' = Steered
    BY <1>1 DEF vars, wakes, running, channel, bounds, history, Waits, Channel, Carried, Steered
  <2> QED BY <1>1, <2>1, <2>2, QuietStep DEF vars, history
<1>2. CASE Core
  BY <1>2, StartsKeeps, TurnKeeps, OpensKeeps, FlushTimerKeeps, ChannelKeeps DEF Core
<1>3. CASE Outcomes
  BY <1>3, AnswerSettlesKeeps, NoticeSettlesKeeps, ChannelKeeps DEF Outcomes
<1>4. CASE AgentEnds \/ StoppedQueued \/ NewAttempt
  BY <1>4, TurnKeeps DEF AgentEnds
<1>5. CASE UserStarts \/ DriverWakes \/ \E kind \in {"op", "bare"} : OtherStarts(kind)
  BY <1>5, UserStartsKeeps, OpensKeeps DEF Kinds
<1>6. CASE (\E a \in Answers : Answer(a)) \/ (\E n \in Notices : Notice(n)) \/ InputReady \/ OtherSteers \/ ToolBoundary
  BY <1>6, AnswerKeeps, ChannelKeeps, ToolBoundaryKeeps
<1>7. CASE Rewind \/ Archive \/ Dies
  BY <1>7, ForgetsKeeps, DiesKeeps
<1> QED BY <1>1, <1>2, <1>3, <1>4, <1>5, <1>6, <1>7 DEF Next

LEMMA InitIInv == Init => IInv
<1> SUFFICES ASSUME Init PROVE IInv
  OBVIOUS
<1>1. Waits
  BY InitWaits
<1>2. /\ script = NoScript /\ settled = {} /\ asked = Answers /\ steer = Free
      /\ turn.phase = "over" /\ turn.kind = "none" /\ turn.repeats = {}
  BY DEF Init
<1>3. script \in Transcripts /\ script.earlier = {} /\ script.own = {} /\ script.later = {}
  BY <1>2 DEF NoScript, Transcripts
<1>4. ScriptTypes /\ Transcript /\ Unrepeated /\ NoneLost
  BY <1>2, <1>3 DEF ScriptTypes, Transcript, Unrepeated, Repeats, Recorded, NoneLost
<1>5. UserSteer
  BY <1>2, SteerFields DEF UserSteer
<1> QED BY <1>1, <1>4, <1>5 DEF IInv, Recalls

LEMMA RecallsKept == IInv /\ ScriptTypes' /\ Types' /\ [Next]_vars => Recalls'
<1> SUFFICES ASSUME IInv, ScriptTypes', Types', [Next]_vars PROVE Recalls'
  OBVIOUS
<1>1. CASE UNCHANGED vars
  BY <1>1, QuietRecalls
<1>2. CASE Core
  BY <1>2, StartsRecalls, SettlesRecalls, WakesRecalls, FlushTimerRecalls, QuietRecalls DEF Core
<1>3. CASE Outcomes
  BY <1>3, AnswerSettlesRecalls, QuietRecalls DEF Outcomes
<1>4. CASE AgentEnds \/ StoppedQueued \/ NewAttempt
  BY <1>4, StoppedRecalls, QuietRecalls DEF AgentEnds
<1>5. CASE UserStarts \/ DriverWakes \/ \E kind \in {"op", "bare"} : OtherStarts(kind)
  BY <1>5, UserStartsRecalls, WakesRecalls
<1>6. CASE (\E a \in Answers : Answer(a)) \/ (\E n \in Notices : Notice(n)) \/ InputReady \/ OtherSteers \/ ToolBoundary
  BY <1>6, AnswerRecalls, ToolBoundaryRecalls, QuietRecalls
<1>7. CASE Rewind \/ Archive \/ Dies
  BY <1>7, RewindRecalls, ArchiveRecalls, DiesRecalls
<1> QED BY <1>1, <1>2, <1>3, <1>4, <1>5, <1>6, <1>7 DEF Next

LEMMA NextKeeps == IInv /\ [Next]_vars => IInv'
<1> SUFFICES ASSUME IInv, [Next]_vars PROVE IInv'
  OBVIOUS
<1>1. ScriptTypes'
  BY ScriptTypesKept DEF IInv, Recalls
<1>2. Waits' /\ Types'
  BY <1>1, WaitsKept DEF IInv, Recalls, Waits
<1> QED BY <1>1, <1>2, RecallsKept DEF IInv

\* Every answer is in one waiting place at most, what the transcript has for the next
\* prompt was noted and is settled with no prompt, and what of it nobody was told is on
\* its way or is what the open prompt repeats (deferred.ts, stopped-input.ts).
THEOREM Inductive == Spec => []IInv
<1> QED BY InitIInv, NextKeeps, PTL DEF Spec

\* The cards, the two lists of answers, the channel and the ledgers have the
\* types the code gives them.
THEOREM TypeCorrect == Spec => []TypeOK
<1>1. IInv => TypeOK
  BY Zenon DEF IInv, Waits, Types, Recalls, ScriptTypes, TypeOK
<1> QED BY <1>1, Inductive, PTL

\* An answer enters the transcript once, and a text reaches an agent once
\* unless the call that carried it failed, whichever of the four paths wins
\* (deferred.ts #steerAnswers, takeForRunningTurn, takeDeferred, flushDeferred);
\* and what a stopped turn was told is repeated by no prompt after one that got
\* done with it (stopped-input.ts).
THEOREM Once == Spec => []OnceEach
<1>1. IInv => OnceEach
  BY DEF IInv, Waits, Counted, Recalls, Unrepeated, OnceEach
<1> QED BY <1>1, Inductive, PTL

\* An answer given is waiting, in the prompt of a queued turn, was told, or is in
\* the transcript for the next prompt to repeat, that of a stopped prompt too; only
\* a rewind, an archiving or a death gives it up.
THEOREM NothingLost == Spec => []NoneLost
<1>1. IInv => NoneLost
  BY DEF IInv, Recalls
<1> QED BY <1>1, Inductive, PTL

\* A notice of the memory guard is taken off only when an agent has it
\* (memory-notices.ts).
THEOREM NoticesKept == Spec => NoticeKept
<1>1. ASSUME IInv, [Next]_vars, ~UNCHANGED vars PROVE \A n \in notices : n \notin notices' => told'[n] > told[n]
  <2>1. Types /\ \A n \in notices : n \in Texts /\ told[n] \in Nat
    BY <1>1 DEF IInv, Waits, Types, Texts
  <2>2. CASE Starts \/ ToolBoundary
    <3>1. notices' = notices \/ (notices' = notices \ Unsent /\ \E X : Unsent \subseteq X /\ Tell(X))
      BY <2>2 DEF Starts, ToolBoundary
    <3>2. CASE notices' = notices
      BY <3>2
    <3>3. ASSUME NEW X, notices' = notices \ Unsent, Unsent \subseteq X, Tell(X)
          PROVE  \A n \in notices : n \notin notices' => told'[n] > told[n]
      <4>1. \A t \in Texts : told'[t] = IF t \in X THEN told[t] + 1 ELSE told[t]
        BY <2>1, <3>3, Tells
      <4> QED BY <2>1, <3>3, <4>1
    <3> QED BY <3>1, <3>2, <3>3
  <2>3. ASSUME NEW outcome \in {"accepted", "refused", "failed"}, NEW took \in BOOLEAN, NoticeSettles(outcome, took)
        PROVE  \A n \in notices : n \notin notices' => told'[n] > told[n]
    <3> DEFINE X == IF took THEN {steer.text} ELSE {}
    <3>1. Tell(X) /\ (notices' = notices \/ (outcome = "accepted" /\ notices' = notices \ {steer.text}))
          /\ (outcome = "accepted" => took)
      BY <2>3 DEF NoticeSettles, Delivered
    <3>2. outcome = "accepted" => X = {steer.text}
      BY <3>1
    <3> HIDE DEF X
    <3>3. \A t \in Texts : told'[t] = IF t \in X THEN told[t] + 1 ELSE told[t]
      BY <2>1, <3>1, Tells
    <3> QED BY <2>1, <3>1, <3>2, <3>3
  <2>4. CASE notices \subseteq notices'
    BY <2>4
  <2>5. \/ Starts \/ ToolBoundary \/ notices \subseteq notices'
        \/ \E outcome \in {"accepted", "refused", "failed"}, took \in BOOLEAN : NoticeSettles(outcome, took)
    BY <1>1 DEF Next, Core, Settles, AfterWork, WakeTimer, FlushTimer, FlushGoesOn, Outcomes, AnswerSettles,
                OtherSettles, AgentEnds, Ends, UserStarts, OtherStarts, StoppedQueued, NewAttempt, DriverWakes, Wakes,
                Answer, Notice, InputReady, OtherSteers, Rewind, Archive, Dies
  <2> QED BY <2>2, <2>3, <2>4, <2>5
<1> QED BY <1>1, Inductive, PTL DEF Spec, NoticeKept
=============================================================================
