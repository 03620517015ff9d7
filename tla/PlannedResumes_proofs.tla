----------------------- MODULE PlannedResumes_proofs -----------------------
(***************************************************************************)
(* Proofs about PlannedResumes: whatever plans, stops, dies and starts     *)
(* again, a turn is continued once, and what the user cancelled is not     *)
(* continued.  The inductive invariant is TypeOK with Sound: one turn is   *)
(* open at a time and is the last, and what ended keeps the way it ended.  *)
(* The handoff continues turns that were stopped and a plan turns that     *)
(* were not, so the two never meet; a plan is sent only while its turn is  *)
(* the last, and its resume comes after it.                                *)
(*                                                                         *)
(* Two invariants stand on that one: PurposeRows, of what a core stopped   *)
(* on purpose left, and RowCounts, which compares the row of resumes with  *)
(* what the journal counts of it.                                          *)
(***************************************************************************)
EXTENDS PlannedResumes, WellFoundedInduction, TLAPS

-----------------------------------------------------------------------------
(* The latest turn of a list of turns.                                     *)

LEMMA Greatest ==
  ASSUME NEW n \in Nat, NEW S, S \subseteq 1..n, S # {}
  PROVE  \E x \in S : \A y \in S : y <= x
<1> DEFINE T == {k \in Nat : n - k \in S}
<1> DEFINE R == OpToRel(<, Nat)
<1>1. IsWellFoundedOn(R, Nat)
  BY NatLessThanWellFounded
<1>2. T # {}
  <2>1. PICK x \in S : TRUE
    OBVIOUS
  <2>2. n - x \in T
    BY <2>1
  <2>3. QED
    BY <2>2
<1>3. \E k \in T : \A j \in T : ~ (<<j, k>> \in R)
  <2>1. T \subseteq Nat
    OBVIOUS
  <2> HIDE DEF T, R
  <2>2. QED
    BY <1>1, <1>2, <2>1, WFMin
<1>4. PICK k \in T : \A j \in T : ~ (<<j, k>> \in R)
  BY <1>3
<1>5. \A j \in T : ~ (j < k)
  <2>1. R = {ss \in Nat \X Nat : ss[1] < ss[2]}
    BY Zenon DEF OpToRel
  <2> HIDE DEF R
  <2>2. ASSUME NEW j \in T, j < k
        PROVE  FALSE
    <3>1. <<j, k>> \in R
      BY <2>1, <2>2
    <3>2. QED
      BY <3>1, <2>2, <1>4
  <2>3. QED
    BY <2>2
<1>6. \A y \in S : y <= n - k
  <2>1. TAKE y \in S
  <2>2. n - y \in T
    OBVIOUS
  <2>3. ~ (n - y < k)
    BY <1>5, <2>2
  <2>4. QED
    BY <2>3
<1>7. QED
  BY <1>6

Real(r)   == {t \in 1..Len(r) : r[t].op # "ping"}
LastIn(S) == IF S = {} THEN 0 ELSE CHOOSE t \in S : \A u \in S : u <= t
LastOf(r) == LastIn(Real(r))

\* LastTurn, of the rows of a state or of the next.
LEMMA LastTurns == LastTurn = LastOf(turns) /\ LastTurn' = LastOf(turns')
BY DEF LastTurn, LastOf, LastIn, Real, Rows

\* The latest turn is none, or a real one with none after it.
LEMMA LastOfIs ==
  ASSUME NEW r, Len(r) \in Nat
  PROVE  /\ LastOf(r) \in 0..Len(r)
         /\ LastOf(r) # 0 => r[LastOf(r)].op # "ping"
         /\ \A t \in 1..Len(r) : r[t].op # "ping" => t <= LastOf(r)
<1>1. CASE Real(r) = {}
  BY <1>1 DEF LastOf, LastIn, Real
<1>2. CASE Real(r) # {}
  <2>1. \E x \in Real(r) : \A y \in Real(r) : y <= x
    BY <1>2, Greatest, Real(r) \subseteq 1..Len(r) DEF Real
  <2>2. LastOf(r) \in Real(r) /\ \A y \in Real(r) : y <= LastOf(r)
    BY <2>1, <1>2, Zenon DEF LastOf, LastIn
  <2>3. QED
    BY <2>2 DEF Real
<1>3. QED
  BY <1>1, <1>2

\* Turns that only change their status keep it.
LEMMA LastOfKept ==
  ASSUME NEW r, NEW s, Len(s) = Len(r), \A t \in 1..Len(r) : s[t].op = r[t].op
  PROVE  LastOf(s) = LastOf(r)
<1>1. Real(s) = Real(r)
  BY DEF Real
<1>2. QED
  BY <1>1 DEF LastOf

\* A row added is the latest turn, unless it is a ping.
LEMMA LastOfAdded ==
  ASSUME NEW r, NEW s, Len(r) \in Nat, Len(s) = Len(r) + 1,
         \A t \in 1..Len(r) : s[t].op = r[t].op
  PROVE  /\ s[Len(s)].op # "ping" => LastOf(s) = Len(s)
         /\ s[Len(s)].op = "ping" => LastOf(s) = LastOf(r)
<1>1. CASE s[Len(s)].op = "ping"
  <2>1. Real(s) = Real(r)
    BY <1>1 DEF Real
  <2>2. QED
    BY <1>1, <2>1 DEF LastOf
<1>2. CASE s[Len(s)].op # "ping"
  BY <1>2, LastOfIs
<1>3. QED
  BY <1>1, <1>2

-----------------------------------------------------------------------------
(* Types, and how the rows move: a row is added, or open ones change.      *)

IInv == TypeOK /\ Sound

LEMMA Types ==
  ASSUME TypeOK
  PROVE  /\ turns \in Seq(Turn) /\ Len(turns) \in 0..MaxTurns /\ MaxTurns \in Nat
         /\ Rows = 1..Len(turns) /\ \A t \in Rows : turns[t] \in Turn
         /\ entry \in Entry /\ entry.plan \in Plan /\ past \in Past
         /\ rec \subseteq Rows /\ todo \subseteq Rows /\ reading \subseteq Rows
         /\ past.cancelled \subseteq Rows /\ after \in End
<1>1. turns \in Seq(Turn) /\ Len(turns) <= MaxTurns /\ entry \in Entry /\ past \in Past
  BY Zenon DEF TypeOK, Past
<1>2. entry.plan \in Plan
  BY <1>1 DEF Entry
<1>3. Len(turns) \in Nat /\ MaxTurns \in Nat /\ Rows = 1..Len(turns)
  BY <1>1, BoundsAssumption DEF Rows
<1>4. \A t \in Rows : turns[t] \in Turn
  BY <1>1, <1>3
<1>5. rec \subseteq Rows /\ todo \subseteq Rows /\ reading \subseteq Rows /\ after \in End
  BY Zenon DEF TypeOK
<1>6. past.cancelled \subseteq Rows
  BY <1>1 DEF Past
<1>7. QED
  BY <1>1, <1>2, <1>3, <1>4, <1>5, <1>6

\* What a step may write in the history, the cancelled turns apart.
LEMMA PastIs ==
  ASSUME TypeOK
  PROVE  /\ NewRow \in Past /\ NewRow.cancelled = past.cancelled
         /\ [past EXCEPT !.row = @ + 1] \in Past /\ [past EXCEPT !.row = @ + 1].cancelled = past.cancelled
         /\ [past EXCEPT !.lost = @ + 1] \in Past /\ [past EXCEPT !.lost = @ + 1].cancelled = past.cancelled
<1>1. past \in Past
  BY Types
<1>2. [past EXCEPT !.row = @ + 1] \in Past /\ [past EXCEPT !.row = @ + 1].cancelled = past.cancelled
  BY <1>1 DEF Past
<1>3. [past EXCEPT !.lost = @ + 1] \in Past /\ [past EXCEPT !.lost = @ + 1].cancelled = past.cancelled
  BY <1>1 DEF Past
<1>4. NewRow \in Past /\ NewRow.cancelled = past.cancelled
  BY <1>1 DEF Past, NewRow
<1>5. QED
  BY <1>2, <1>3, <1>4

LEMMA FunctionIsSeq ==
  ASSUME NEW S, NEW n \in Nat, NEW f \in [1..n -> S]
  PROVE  f \in Seq(S) /\ Len(f) = n
BY SMT

LEMMA Appended ==
  ASSUME NEW S, NEW s \in Seq(S), NEW e \in S
  PROVE  /\ Append(s, e) \in Seq(S) /\ Len(Append(s, e)) = Len(s) + 1
         /\ Append(s, e)[Len(s) + 1] = e
         /\ \A i \in 1..Len(s) : Append(s, e)[i] = s[i]
BY SMT

\* No row is added, and only what was open changes its status.
Moves ==
  /\ turns' \in Seq(Turn) /\ Len(turns') = Len(turns)
  /\ \A t \in Rows :
       /\ turns'[t] \in Turn
       /\ turns'[t].op = turns[t].op /\ turns'[t].of = turns[t].of /\ turns'[t].by = turns[t].by
       /\ t \notin Active => turns'[t].status = turns[t].status

\* A row is added, queued.
Adds(op, of, by) ==
  /\ turns' \in Seq(Turn) /\ Len(turns') = Len(turns) + 1 /\ Len(turns') <= MaxTurns
  /\ \A t \in Rows : turns'[t] = turns[t]
  /\ turns'[Len(turns')] \in Turn
  /\ turns'[Len(turns')].op = op /\ turns'[Len(turns')].of = of /\ turns'[Len(turns')].by = by
  /\ turns'[Len(turns')].status = "queued"

LEMMA RowAdded ==
  ASSUME TypeOK, NEW op \in {"user", "wake", "ping", "resume"}, NEW of \in 0..MaxTurns,
         NEW by \in {"none", "limit", "carry", "handoff"},
         Len(turns) < MaxTurns, turns' = Append(turns, Row(op, of, by))
  PROVE  Adds(op, of, by)
<1> DEFINE row == Row(op, of, by)
<1>1. row \in Turn
  BY DEF TypeOK, Row, Turn
<1>2. row.op = op /\ row.of = of /\ row.by = by /\ row.status = "queued"
  BY DEF Row
<1> HIDE DEF row
<1>3. turns' = Append(turns, row)
  BY DEF row
<1>4. QED
  BY <1>1, <1>2, <1>3, Appended, Types DEF Adds

LEMMA StatusMoved ==
  ASSUME TypeOK, NEW t \in Active, NEW s \in {"queued", "running"} \union Ended,
         turns' = [turns EXCEPT ![t].status = s]
  PROVE  /\ Moves /\ turns'[t].status = s
         /\ \A u \in Rows \ {t} : turns'[u] = turns[u]
<1>1. t \in Rows /\ t \in 1..Len(turns)
  BY Types DEF Active
<1>2. [turns[t] EXCEPT !.status = s] \in Turn
  BY <1>1, Types DEF Turn
<1>3. turns' = [turns EXCEPT ![t] = [turns[t] EXCEPT !.status = s]]
  OBVIOUS
<1>4. turns' \in [1..Len(turns) -> Turn]
  BY <1>1, <1>2, <1>3, Types
<1>5. turns' \in Seq(Turn) /\ Len(turns') = Len(turns)
  BY <1>4, FunctionIsSeq, Types
<1>6. \A u \in Rows \ {t} : turns'[u] = turns[u]
  BY <1>3, Types
<1>7. turns'[t] = [turns[t] EXCEPT !.status = s]
  BY <1>3, <1>1, Types
<1>8. turns'[t].status = s /\ turns'[t].op = turns[t].op /\ turns'[t].of = turns[t].of
      /\ turns'[t].by = turns[t].by
  BY <1>7, <1>1, Types DEF Turn
<1>9. QED
  BY <1>1, <1>2, <1>5, <1>6, <1>7, <1>8, Types DEF Moves

\* Each open turn is given a status of its own.
LEMMA StatusesGiven ==
  ASSUME TypeOK, NEW f \in [Rows -> {"queued", "running"} \union Ended],
         turns' = [t \in Rows |-> IF t \in Active THEN [turns[t] EXCEPT !.status = f[t]] ELSE turns[t]]
  PROVE  /\ Moves
         /\ \A t \in Active : turns'[t].status = f[t]
<1>1. \A t \in Rows : [turns[t] EXCEPT !.status = f[t]] \in Turn
  BY Types DEF Turn
<1>2. \A t \in Rows : turns'[t] \in Turn
  BY <1>1, Types
<1>3. turns' \in [1..Len(turns) -> Turn]
  BY <1>2, Types
<1>4. turns' \in Seq(Turn) /\ Len(turns') = Len(turns)
  BY <1>3, FunctionIsSeq, Types
<1>5. Active \subseteq Rows
  BY DEF Active
<1>6. \A t \in Active :
        /\ turns'[t].status = f[t] /\ turns'[t].op = turns[t].op
        /\ turns'[t].of = turns[t].of /\ turns'[t].by = turns[t].by
  BY <1>5, Types DEF Turn
<1>7. \A t \in Rows : t \notin Active => turns'[t] = turns[t]
  OBVIOUS
<1>8. QED
  BY <1>2, <1>4, <1>5, <1>6, <1>7 DEF Moves

\* The turns of S that wait are stopped.
LEMMA WaitingStopped ==
  ASSUME TypeOK, NEW S, S \subseteq Active,
         turns' = [t \in Rows |-> IF t \in S \ Running
                                  THEN [turns[t] EXCEPT !.status = "stopped"] ELSE turns[t]]
  PROVE  /\ Moves
         /\ \A t \in Rows : turns'[t].status = IF t \in S \ Running THEN "stopped" ELSE turns[t].status
<1>1. \A t \in Rows : [turns[t] EXCEPT !.status = "stopped"] \in Turn
  BY Types DEF Turn, Ended
<1>2. \A t \in Rows : turns'[t] \in Turn
  BY <1>1, Types
<1>3. turns' \in [1..Len(turns) -> Turn]
  BY <1>2, Types
<1>4. turns' \in Seq(Turn) /\ Len(turns') = Len(turns)
  BY <1>3, FunctionIsSeq, Types
<1>5. \A t \in Rows : t \in S \ Running =>
        /\ turns'[t].status = "stopped" /\ turns'[t].op = turns[t].op
        /\ turns'[t].of = turns[t].of /\ turns'[t].by = turns[t].by
  BY Types DEF Turn
<1>6. \A t \in Rows : t \notin S \ Running => turns'[t] = turns[t]
  OBVIOUS
<1>7. QED
  BY <1>2, <1>4, <1>5, <1>6 DEF Moves

-----------------------------------------------------------------------------
(* The row of resumes: what each operation makes of it.                    *)

\* f plans the resume of t, which is not sent.
PlansFor(f, t) ==
  /\ f.plan # NoPlan /\ f.plan.turn = t /\ f.handled = t /\ f.plan.reason # "none"
  /\ ~f.plan.out /\ (f.plan.reason = "carry" => f.streak < MaxStreak)

LEMMA NoPlanIs == NoPlan \in Plan /\ ~NoPlan.out /\ NoPlan.reason = "none"
BY BoundsAssumption DEF NoPlan, Plan

LEMMA NoEntryIs ==
  ASSUME NEW w \in Nat, NEW t \in 0..MaxTurns
  PROVE  /\ [NoEntry EXCEPT !.window = w] \in Entry /\ [NoEntry EXCEPT !.window = w].plan = NoPlan
         /\ [NoEntry EXCEPT !.handled = t, !.window = w] \in Entry
         /\ [NoEntry EXCEPT !.handled = t, !.window = w].plan = NoPlan
<1>1. NoEntry \in Entry /\ NoEntry.plan = NoPlan
  BY NoPlanIs, BoundsAssumption DEF NoEntry, Entry
<1>2. QED
  BY <1>1 DEF Entry

LEMMA WithoutIs ==
  ASSUME NEW e \in Entry
  PROVE  /\ Without(e) \in Entry /\ Without(e).plan = NoPlan
         /\ Without(e).streak = e.streak /\ Without(e).window = e.window
BY NoPlanIs DEF Without, Entry

LEMMA ForgottenIs ==
  ASSUME NEW e \in Entry
  PROVE  /\ Forgotten(e) \in Entry
         /\ e.plan.out => Forgotten(e) = e
         /\ ~e.plan.out => Forgotten(e).plan = NoPlan
<1>1. e.window \in Nat /\ 0 \in 0..MaxTurns
  BY BoundsAssumption DEF Entry
<1>2. QED
  BY <1>1, NoEntryIs DEF Forgotten

LEMMA CancelledIs ==
  ASSUME NEW e \in Entry
  PROVE  /\ Cancelled(e) \in Entry
         /\ e.plan = NoPlan \/ e.plan.out => Cancelled(e) = e
         /\ ~(e.plan = NoPlan \/ e.plan.out) => Cancelled(e).plan = NoPlan /\ Cancelled(e).handled = e.plan.turn
<1> DEFINE w == Without(e)
<1> DEFINE n == e.plan.turn
<1>1. w \in Entry /\ w.plan = NoPlan /\ n \in 0..MaxTurns
  BY WithoutIs DEF Entry, Plan
<1>2. Cancelled(e) = IF e.plan = NoPlan \/ e.plan.out THEN e ELSE [w EXCEPT !.handled = n]
  BY DEF Cancelled
<1> HIDE DEF w, n
<1>3. [w EXCEPT !.handled = n] \in Entry /\ [w EXCEPT !.handled = n].plan = NoPlan
      /\ [w EXCEPT !.handled = n].handled = n
  BY <1>1 DEF Entry
<1>4. QED
  BY <1>2, <1>3, Zenon DEF n

LEMMA SettledIs ==
  ASSUME NEW e \in Entry, NEW sent \in 0..MaxTurns,
         e.plan.reason = "carry" => e.streak < MaxStreak, e.plan.reason # "none"
  PROVE  /\ Settled(e, sent) \in Entry /\ Settled(e, sent).plan = NoPlan
         /\ Settled(e, sent).handled = e.plan.turn
<1> DEFINE w == Without(e)
<1> DEFINE n == e.plan.turn
<1> DEFINE x == e.plan.window
<1> DEFINE rest == [w EXCEPT !.handled = n]
<1>1. w \in Entry /\ w.plan = NoPlan /\ n \in 0..MaxTurns /\ w.streak = e.streak /\ x \in Nat
      /\ e.plan.reason \in {"none", "limit", "carry"}
  BY WithoutIs DEF Entry, Plan
<1>2. rest \in Entry /\ rest.plan = NoPlan /\ rest.handled = n /\ rest.streak = e.streak
  <2> HIDE DEF w, n, x
  <2>1. QED
    BY <1>1 DEF Entry
<1>3. Settled(e, sent) = IF e.plan.reason = "limit" THEN [rest EXCEPT !.window = x]
                         ELSE IF sent = 0 THEN rest
                         ELSE [rest EXCEPT !.streak = @ + 1, !.sent = sent]
  BY Zenon DEF Settled
<1> HIDE DEF rest, n, x
<1>4. CASE e.plan.reason = "limit"
  <2>1. [rest EXCEPT !.window = x] \in Entry /\ [rest EXCEPT !.window = x].plan = NoPlan
        /\ [rest EXCEPT !.window = x].handled = n
    BY <1>1, <1>2 DEF Entry
  <2>2. QED
    BY <1>3, <1>4, <2>1 DEF n
<1>5. CASE e.plan.reason = "carry"
  <2> DEFINE more == [rest EXCEPT !.streak = @ + 1, !.sent = sent]
  <2>1. rest.streak + 1 \in 0..MaxStreak
    BY <1>2, <1>5, BoundsAssumption DEF Entry
  <2>2. more \in Entry /\ more.plan = NoPlan /\ more.handled = n
    BY <2>1, <1>2 DEF Entry
  <2> HIDE DEF more
  <2>3. Settled(e, sent) \in {rest, more}
    BY <1>3, <1>5 DEF more
  <2>4. QED
    BY <2>2, <2>3, <1>2 DEF n
<1>6. QED
  BY <1>1, <1>4, <1>5

LEMMA ScheduledIs ==
  ASSUME TypeOK, NEW e \in Entry, NEW t \in Rows, NEW reason \in {"limit", "carry"}, NEW w \in Nat,
         reason = "carry" => e.streak < MaxStreak
  PROVE  Scheduled(e, t, reason, w) \in Entry /\ PlansFor(Scheduled(e, t, reason, w), t)
<1> DEFINE no == FALSE
<1> DEFINE sel == IF reason = "limit" THEN turns[t].selection ELSE 0
<1> DEFINE plan == [reason |-> reason, turn |-> t, window |-> w, selection |-> sel, out |-> no]
<1> DEFINE f == [e EXCEPT !.handled = t, !.plan = plan]
<1>1. sel \in 0..2 /\ t \in 0..MaxTurns
  BY Types DEF Turn
<1>2. no \in BOOLEAN /\ ~no
  OBVIOUS
<1>3. f = Scheduled(e, t, reason, w)
  BY Zenon DEF Scheduled
<1> HIDE DEF no, sel
<1>4. plan \in Plan /\ plan.turn = t /\ plan.reason = reason /\ plan.out = no
  BY <1>1, <1>2 DEF Plan
<1>5. plan # NoPlan
  BY <1>4, NoPlanIs
<1> HIDE DEF plan
<1>6. f \in Entry /\ f.plan = plan /\ f.handled = t /\ f.streak = e.streak
  BY <1>1, <1>4 DEF Entry
<1> HIDE DEF f
<1>7. QED
  BY <1>2, <1>3, <1>4, <1>5, <1>6 DEF PlansFor

\* A carry-on plan for t, no plan, or the row as it was: as it was when t is handled.
LEMMA CarryOnIs ==
  ASSUME TypeOK, NEW e \in Entry, NEW t \in Rows
  PROVE  /\ CarryOn(e, t) \in Entry
         /\ e.handled = t => CarryOn(e, t) = e
         /\ CarryOn(e, t) = e \/ CarryOn(e, t).plan = NoPlan \/ PlansFor(CarryOn(e, t), t)
<1> DEFINE gone == [NoEntry EXCEPT !.window = e.window]
<1> DEFINE over == [NoEntry EXCEPT !.handled = t, !.window = e.window]
<1>1. t \in 0..MaxTurns /\ e.window \in Nat /\ e.streak \in 0..MaxStreak /\ MaxStreak \in Nat
  BY Types, BoundsAssumption DEF Entry
<1>2. over \in Entry /\ over.plan = NoPlan
  BY <1>1, NoEntryIs
<1> HIDE DEF over
<1>3. CarryOn(e, t) = IF e.handled = t THEN e ELSE IF e.streak >= MaxStreak THEN over
                      ELSE Scheduled(e, t, "carry", 0)
  BY Zenon DEF CarryOn, over
<1>4. e.streak < MaxStreak => Scheduled(e, t, "carry", 0) \in Entry
                              /\ PlansFor(Scheduled(e, t, "carry", 0), t)
  BY ScheduledIs
<1>5. QED
  BY <1>1, <1>2, <1>3, <1>4

\* A limit's plan for t, the latest turn, or the row as it was.
LEMMA LimitPlanIs ==
  ASSUME TypeOK, NEW e \in Entry, NEW t \in Rows, NEW w \in Windows
  PROVE  /\ LimitPlan(e, t, w) \in Entry
         /\ LimitPlan(e, t, w) = e \/ (PlansFor(LimitPlan(e, t, w), t) /\ t = LastTurn)
<1>1. w \in Nat
  BY BoundsAssumption DEF Windows
<1>2. Scheduled(e, t, "limit", w) \in Entry /\ PlansFor(Scheduled(e, t, "limit", w), t)
  BY <1>1, ScheduledIs
<1>3. QED
  BY <1>2 DEF LimitPlan

-----------------------------------------------------------------------------
(* What a step leaves alone keeps its part of the invariant.               *)

LEMMA SameRows ==
  ASSUME turns' = turns
  PROVE  /\ Rows' = Rows /\ Active' = Active /\ Running' = Running /\ Busy' = Busy
         /\ LastTurn' = LastTurn
BY DEF Rows, Active, Running, Busy, LastTurn

LEMMA KeepsTurns ==
  ASSUME Sound, UNCHANGED <<turns, archived>>
  PROVE  OneOpen' /\ NoneWaits' /\ Continuations'
BY SameRows DEF Sound, OneOpen, NoneWaits, Continuations

LEMMA KeepsPlan ==
  ASSUME Sound, UNCHANGED <<turns, entry>>
  PROVE  PlanRows'
BY SameRows DEF Sound, PlanRows, Planned

LEMMA KeepsMark ==
  ASSUME Sound, UNCHANGED <<turns, entry, firing, core, archived>>, past'.cancelled = past.cancelled
  PROVE  MarkRows'
BY SameRows DEF Sound, MarkRows

LEMMA KeepsEnd ==
  ASSUME Sound, UNCHANGED <<turns, after, core, rec, reading>>
  PROVE  EndRows'
BY SameRows DEF Sound, EndRows

LEMMA KeepsBoot ==
  ASSUME Sound, UNCHANGED <<turns, core, crashed>>
  PROVE  BootRows'
BY SameRows DEF Sound, BootRows

LEMMA KeepsRec ==
  ASSUME Sound, UNCHANGED <<turns, core, rec>>
  PROVE  RecRows'
BY SameRows DEF Sound, RecRows

LEMMA KeepsCancelled ==
  ASSUME Sound, UNCHANGED <<turns, after, reading, rec, archived, entry>>,
         past'.cancelled = past.cancelled
  PROVE  CancelRows'
BY SameRows DEF Sound, CancelRows, InEnd, Planned

\* Where the rows are those there were, what ended is as it was.
LEMMA MovedRows ==
  ASSUME TypeOK, Moves
  PROVE  /\ Rows' = Rows /\ LastTurn' = LastTurn /\ Active' \subseteq Active /\ Running' \subseteq Active
         /\ \A t \in Rows : t \in Active \/ (turns'[t].status = turns[t].status /\ turns[t].status \in Ended)
<1>1. Rows' = Rows
  BY DEF Moves, Rows
<1>2. LastTurn' = LastTurn
  BY <1>1, LastTurns, LastOfKept, Types DEF Moves
<1>3. \A t \in Rows : t \in Active \/ (turns'[t].status = turns[t].status /\ turns[t].status \in Ended)
  BY DEF Moves, Active
<1>4. Active' \subseteq Active
  BY <1>1, <1>3 DEF Active
<1>5. Running' \subseteq Active'
  BY DEF Running, Active, Ended, Failed
<1>6. QED
  BY <1>1, <1>2, <1>3, <1>4, <1>5

LEMMA MovesKeep ==
  ASSUME IInv, Moves
  PROVE  OneOpen' /\ Continuations'
<1>1. OneOpen'
  BY MovedRows DEF IInv, Sound, OneOpen, Moves
<1>2. Continuations'
  <2>1. SUFFICES ASSUME NEW t \in Rows, turns[t].of # 0
                 PROVE  /\ turns'[t].op = "resume" /\ turns'[t].of < t /\ turns'[t].by # "none"
                        /\ turns'[turns'[t].of].status \in
                             IF turns'[t].by = "handoff" THEN {"stopped"} ELSE Unanswered
    BY MovedRows DEF Continuations, Moves, IInv
  <2>2. /\ turns[t].op = "resume" /\ turns[t].of < t /\ turns[t].by # "none"
        /\ turns[turns[t].of].status \in IF turns[t].by = "handoff" THEN {"stopped"} ELSE Unanswered
    BY <2>1 DEF IInv, Sound, Continuations
  <2>3. turns'[t].op = turns[t].op /\ turns'[t].of = turns[t].of /\ turns'[t].by = turns[t].by
    BY DEF Moves
  <2>4. turns[t].of \in Rows /\ turns[turns[t].of].status \in Ended
    BY <2>1, <2>2, Types DEF IInv, Turn, Ended, Unanswered
  <2>5. turns'[turns[t].of].status = turns[turns[t].of].status
    BY <2>4 DEF Moves, Active
  <2>6. QED
    BY <2>2, <2>3, <2>5
<1>3. QED
  BY <1>1, <1>2

\* A row is added only when no turn is open.
LEMMA AddedRows ==
  ASSUME TypeOK, ~Busy, NEW op, NEW of, NEW by, Adds(op, of, by)
  PROVE  /\ Rows' = Rows \union {Len(turns')} /\ Len(turns') \notin Rows
         /\ Active' = {Len(turns')} /\ Running' = {}
         /\ op # "ping" => LastTurn' = Len(turns')
         /\ op = "ping" => LastTurn' = LastTurn
<1>1. Rows' = Rows \union {Len(turns')} /\ Len(turns') \notin Rows
  BY Types DEF Adds, Rows
<1>2. \A t \in Rows : turns'[t].status \in Ended
  BY DEF Adds, Busy, Active
<1>3. Active' = {Len(turns')}
  BY <1>1, <1>2 DEF Active, Adds, Ended, Failed
<1>4. Running' = {}
  BY <1>1, <1>2 DEF Running, Adds, Ended, Failed
<1>5. Len(turns) \in Nat
  BY Types
<1>6. (op # "ping" => LastTurn' = Len(turns')) /\ (op = "ping" => LastTurn' = LastTurn)
  <2>1. \A t \in 1..Len(turns) : turns'[t].op = turns[t].op
    BY DEF Adds, Rows
  <2>2. Len(turns') = Len(turns) + 1 /\ turns'[Len(turns')].op = op
    BY DEF Adds
  <2>3. QED
    BY <1>5, <2>1, <2>2, LastTurns, LastOfAdded
<1>7. QED
  BY <1>1, <1>3, <1>4, <1>6

-----------------------------------------------------------------------------
(* Turns                                                                   *)

\* A turn that continues nothing, or one that ended as its kind needs.
LEMMA AddsKeep ==
  ASSUME IInv, ~Busy, ~archived, archived' = archived, NEW op, NEW of, NEW by, Adds(op, of, by),
         of # 0 => /\ of \in Rows /\ op = "resume" /\ by # "none"
                   /\ turns[of].status \in IF by = "handoff" THEN {"stopped"} ELSE Unanswered
  PROVE  OneOpen' /\ NoneWaits' /\ Continuations'
<1>1. OneOpen' /\ NoneWaits'
  BY AddedRows DEF OneOpen, NoneWaits, IInv
<1>2. Continuations'
  <2>1. SUFFICES ASSUME NEW t \in Rows', turns'[t].of # 0
                 PROVE  /\ turns'[t].op = "resume" /\ turns'[t].of < t /\ turns'[t].by # "none"
                        /\ turns'[turns'[t].of].status \in
                             IF turns'[t].by = "handoff" THEN {"stopped"} ELSE Unanswered
    BY DEF Continuations
  <2>2. CASE t \in Rows
    <3>1. turns'[t] = turns[t]
      BY <2>2 DEF Adds
    <3>2. /\ turns[t].op = "resume" /\ turns[t].of < t /\ turns[t].by # "none"
          /\ turns[turns[t].of].status \in IF turns[t].by = "handoff" THEN {"stopped"} ELSE Unanswered
      BY <2>1, <2>2, <3>1 DEF IInv, Sound, Continuations
    <3>3. turns[t].of \in Rows
      BY <2>1, <2>2, <3>1, <3>2, Types DEF IInv, Turn
    <3>4. turns'[turns[t].of] = turns[turns[t].of]
      BY <3>3 DEF Adds
    <3>5. QED
      BY <3>1, <3>2, <3>4
  <2>3. CASE t = Len(turns')
    <3>1. turns'[t].of = of /\ turns'[t].op = op /\ turns'[t].by = by
      BY <2>3 DEF Adds
    <3>2. of \in Rows /\ turns'[of] = turns[of]
      BY <2>1, <3>1 DEF Adds
    <3>3. of < t
      BY <2>3, <3>2, Types DEF IInv, Adds
    <3>4. QED
      BY <2>1, <3>1, <3>2, <3>3
  <2>4. QED
    BY <2>2, <2>3, AddedRows DEF IInv
<1>3. QED
  BY <1>1, <1>2

LEMMA TypesAdded ==
  ASSUME TypeOK, NEW op, NEW of, NEW by, Adds(op, of, by)
  PROVE  /\ turns' \in Seq(Turn) /\ Len(turns') <= MaxTurns /\ Rows \subseteq Rows'
BY Types DEF Adds, Rows

LEMMA AdmitStep ==
  ASSUME IInv, NEW op \in Ops, Admit(op)
  PROVE  IInv'
<1>1. Adds(op, 0, "none") /\ ~Busy /\ ~archived /\ Free
  <2>1. op \in {"user", "wake", "ping", "resume"} /\ 0 \in 0..MaxTurns
    BY BoundsAssumption
  <2>2. QED
    BY <2>1, RowAdded DEF Admit, IInv
<1>2. UNCHANGED <<archived, selection, optIn, entry, onPurpose, work, rec, core, cut, crashed, cutWork, todo,
                  timer, firing, after, reading, window, cores, acts, past>>
  BY DEF Admit, memory
<1>3. TypeOK'
  <2>1. Rows \subseteq Rows' /\ turns' \in Seq(Turn) /\ Len(turns') <= MaxTurns
    BY <1>1, TypesAdded DEF IInv
  <2>2. QED
    BY <1>2, <2>1 DEF TypeOK, IInv, Past
<1>4. OneOpen' /\ NoneWaits' /\ Continuations'
  BY <1>1, <1>2, AddsKeep
<1>5. PlanRows'
  BY <1>1, <1>2, AddedRows DEF IInv, Sound, PlanRows, Planned, Adds
<1>6. MarkRows'
  BY <1>1, <1>2, AddedRows, Types DEF IInv, Sound, MarkRows, Adds, Free, NotFiring
<1>7. EndRows'
  BY <1>1, <1>2, AddedRows, Types DEF IInv, Sound, EndRows, Adds
<1>8. BootRows'
  BY <1>1, <1>2, AddedRows, Types DEF IInv, Sound, BootRows, Adds, Free
<1>9. RecRows'
  BY <1>1, <1>2, AddedRows, Types DEF IInv, Sound, RecRows, Adds, Free
<1>10. CancelRows'
  BY <1>1, <1>2, AddedRows, Types DEF IInv, Sound, CancelRows, Adds, InEnd, Planned, Active
<1>11. QED
  BY <1>3, <1>4, <1>5, <1>6, <1>7, <1>8, <1>9, <1>10 DEF IInv, Sound

LEMMA LastTurnIs ==
  ASSUME TypeOK
  PROVE  /\ LastTurn \in 0..Len(turns) /\ (LastTurn # 0 => turns[LastTurn].op # "ping")
         /\ \A t \in Rows : turns[t].op # "ping" => t <= LastTurn
BY LastTurns, LastOfIs, Types

LEMMA StartsStep ==
  ASSUME IInv, NEW t \in Rows, Starts(t)
  PROVE  IInv'
<1>1. /\ t \in Active \ Running /\ core = "up" /\ firing.at \in {"no", "sent"} /\ after = NoAfter
      /\ turns' = [turns EXCEPT ![t].status = "running"]
      /\ rec' \subseteq rec \ {t}
      /\ UNCHANGED <<archived, selection, optIn, onPurpose, core, cut, crashed, cutWork, todo,
                     firing, after, reading, window, cores, acts>>
  BY Zenon DEF Starts
<1>2. /\ Moves /\ turns'[t].status = "running"
      /\ \A u \in Rows \ {t} : turns'[u] = turns[u]
  BY <1>1, StatusMoved DEF IInv
<1>3. t = Len(turns) /\ (turns[t].op # "ping" => LastTurn = t)
  BY <1>1, LastTurnIs, Types DEF IInv, Sound, OneOpen
<1>4. /\ entry' \in Entry /\ timer' \in BOOLEAN
      /\ entry.plan.out \/ turns[t].op = "ping" => entry' = entry
      /\ ~entry.plan.out /\ turns[t].op # "ping" => entry'.plan = NoPlan
  <2>1. CASE turns[t].op = "ping"
    <3>1. UNCHANGED <<entry, timer>>
      BY <2>1, Zenon DEF Starts
    <3>2. QED
      BY <2>1, <3>1, Types DEF IInv, TypeOK
  <2>2. CASE turns[t].op = "user"
    <3>1. Write(Forgotten(entry))
      BY <2>2, SMT DEF Starts
    <3>2. entry' = Forgotten(entry) /\ timer' \in BOOLEAN
      BY <3>1, Zenon DEF Write
    <3>3. QED
      BY <2>2, <3>2, ForgottenIs, Types DEF IInv
  <2>3. CASE turns[t].op \notin {"user", "ping"}
    <3>1. Write(Cancelled(entry))
      BY <2>3, SMT DEF Starts
    <3>2. entry' = Cancelled(entry) /\ timer' \in BOOLEAN
      BY <3>1, Zenon DEF Write
    <3>3. QED
      BY <2>3, <3>2, CancelledIs, Types DEF IInv
  <2>4. QED
    BY <2>1, <2>2, <2>3
<1>5. past' \in Past /\ past'.cancelled = past.cancelled
  <2>1. past' \in {NewRow, [past EXCEPT !.row = @ + 1], past}
    BY Zenon DEF Starts
  <2>2. past' \in Past
    BY <2>1, PastIs, Types DEF IInv
  <2>3. past'.cancelled = past.cancelled
    <3>1. CASE past' = NewRow
      BY <3>1, PastIs DEF IInv
    <3>2. CASE past' = [past EXCEPT !.row = @ + 1]
      BY <3>2, PastIs DEF IInv
    <3>3. QED
      BY <2>1, <3>1, <3>2
  <2>4. QED
    BY <2>2, <2>3
<1>6. /\ Rows' = Rows /\ LastTurn' = LastTurn /\ Active' = Active /\ Running' = Running \union {t}
      /\ \A u \in Rows : u \in Active \/ (turns'[u].status = turns[u].status /\ turns[u].status \in Ended)
  <2>1. Rows' = Rows
    BY <1>2, MovedRows DEF IInv
  <2>2. Active' = Active /\ Running' = Running \union {t}
    BY <1>1, <1>2, <2>1 DEF Active, Running, Ended, Failed
  <2>3. QED
    BY <1>2, <2>2, MovedRows DEF IInv
<1>7. TypeOK'
  <2>1. work' \in {"none", "live", "lost"}
    BY Zenon DEF Starts, IInv, TypeOK
  <2>2. turns' \in Seq(Turn) /\ Len(turns') <= MaxTurns
    BY <1>2, Types DEF Moves, IInv
  <2>3. QED
    BY <1>1, <1>4, <1>5, <1>6, <2>1, <2>2 DEF TypeOK, IInv, Past
<1>8. OneOpen' /\ Continuations'
  BY <1>2, MovesKeep
<1>9. NoneWaits'
  BY <1>1, <1>6 DEF NoneWaits, IInv, Sound
<1>10. PlanRows'
  BY <1>1, <1>2, <1>4, <1>6 DEF PlanRows, Planned, IInv, Sound, MarkRows, Moves, Active, Unanswered, Ended
<1>11. MarkRows'
  <2>1. firing.at # "marked" /\ entry'.plan.out => entry' = entry /\ entry.plan # NoPlan
    BY <1>1, <1>4, NoPlanIs
  <2>2. entry.plan.out => /\ entry.plan.turn \in Rows
                          /\ turns'[entry.plan.turn].status = turns[entry.plan.turn].status
    BY <1>1, <1>6, NoPlanIs DEF MarkRows, IInv, Sound, PlanRows, Planned, Active, Unanswered, Ended
  <2>3. firing.at # "no" => entry' = entry
    BY <1>4 DEF MarkRows, IInv, Sound
  <2>4. QED
    BY <1>1, <1>2, <1>5, <1>6, <2>1, <2>2, <2>3, Types DEF MarkRows, IInv, Sound, Moves
<1>12. EndRows'
  BY <1>1, <1>6, Types DEF EndRows, IInv, Sound, Active, Ended, Failed
<1>13. BootRows'
  BY <1>1 DEF BootRows, IInv, Sound
<1>14. RecRows'
  BY <1>1, <1>2, <1>6, Types DEF RecRows, IInv, Sound
<1>15. CancelRows'
  BY <1>1, <1>2, <1>3, <1>4, <1>5, <1>6, Types DEF CancelRows, IInv, Sound, InEnd, Planned
<1>16. QED
  BY <1>7, <1>8, <1>9, <1>10, <1>11, <1>12, <1>13, <1>14, <1>15 DEF IInv, Sound

LEMMA TurnEndsStep ==
  ASSUME IInv, NEW t \in Rows, NEW o \in Outcomes \union {"stopped"}, TurnEnds(t, o)
  PROVE  IInv'
<1>1. /\ t \in Running /\ core \in {"up", "stopping"} /\ firing = NotFiring
      /\ turns' = [turns EXCEPT ![t].status = StatusOf(o)]
      /\ after' = [turn |-> t, outcome |-> o]
      /\ rec' \subseteq rec /\ (core = "stopping" /\ o # "stopped" => t \notin rec')
      /\ UNCHANGED <<archived, selection, optIn, entry, onPurpose, core, cut, crashed, cutWork, todo,
                     timer, firing, reading, window, cores, acts>>
  BY Zenon DEF TurnEnds
<1>2. t \in Active /\ t \in Rows
  BY <1>1 DEF Running, Active, Ended, Failed
<1>3. StatusOf(o) \in {"done", "stopped", "error"} /\ StatusOf(o) \in {"queued", "running"} \union Ended
      /\ (o = "stopped" => StatusOf(o) = "stopped")
  BY DEF StatusOf, Ended, Failed
<1>4. /\ Moves /\ turns'[t].status = StatusOf(o)
      /\ \A u \in Rows \ {t} : turns'[u] = turns[u]
  BY <1>1, <1>2, <1>3, StatusMoved DEF IInv
<1>5. t = Len(turns)
  BY <1>2 DEF IInv, Sound, OneOpen
<1>6. past' \in Past /\ past'.cancelled = past.cancelled
  <2>1. past' = past \/ past' = [past EXCEPT !.onPurpose = @ \union {t}]
    BY Zenon DEF TurnEnds
  <2>2. past \in Past
    BY Types DEF IInv
  <2>3. QED
    BY <1>2, <2>1, <2>2 DEF Past
<1>7. /\ Rows' = Rows /\ LastTurn' = LastTurn /\ Active' = Active \ {t} /\ Running' = Running \ {t}
      /\ \A u \in Rows : u \in Active \/ (turns'[u].status = turns[u].status /\ turns[u].status \in Ended)
  <2>1. Rows' = Rows
    BY <1>4, MovedRows DEF IInv
  <2>2. Active' = Active \ {t} /\ Running' = Running \ {t}
    BY <1>1, <1>2, <1>3, <1>4, <2>1 DEF Active, Running, Ended, Failed
  <2>3. QED
    BY <1>4, <2>2, MovedRows DEF IInv
<1>8. TypeOK'
  <2>1. work' \in {"none", "live", "lost"}
    BY Zenon DEF TurnEnds, IInv, TypeOK
  <2>2. turns' \in Seq(Turn) /\ Len(turns') <= MaxTurns
    BY <1>4, Types DEF Moves, IInv
  <2>3. after' \in End
    BY <1>1, Types DEF IInv, End
  <2>4. rec' \subseteq Rows /\ Rows' = Rows
    BY <1>1, <1>7, Types DEF IInv
  <2>5. TypeOK
    BY DEF IInv
  <2>6. UNCHANGED <<archived, selection, optIn, entry, onPurpose, core, cut, crashed, cutWork, todo,
                    timer, firing, reading, window, cores, acts>>
    BY <1>1
  <2>7. QED
    BY <1>6, <2>1, <2>2, <2>3, <2>4, <2>5, <2>6 DEF TypeOK, Past
<1>9. OneOpen' /\ Continuations'
  BY <1>4, MovesKeep
<1>10. NoneWaits'
  BY <1>1, <1>7 DEF NoneWaits, IInv, Sound
<1>11. PlanRows'
  BY <1>1, <1>4, <1>7 DEF PlanRows, Planned, IInv, Sound, Moves, Running, Unanswered, Failed
<1>12. MarkRows'
  BY <1>1, <1>4, <1>7 DEF MarkRows, IInv, Sound, Moves, NotFiring
<1>13. EndRows'
  <2>1. after'.turn = t /\ after'.outcome = o
    BY <1>1
  <2>2. core = "up" => t \notin rec
    BY <1>1 DEF IInv, Sound, RecRows, Running
  <2>3. \A u \in Rows : ~ (u > t)
    BY <1>5, Types DEF IInv
  <2>4. \A u \in reading : turns'[u].status = "error"
    BY <1>7, Types DEF IInv, Sound, EndRows, Active, Ended, Failed
  <2>5. QED
    BY <1>1, <1>2, <1>4, <1>7, <2>1, <2>2, <2>3, <2>4 DEF EndRows
<1>14. BootRows'
  BY <1>1 DEF BootRows, IInv, Sound
<1>15. RecRows'
  <2>1. t \in rec' => o = "stopped"
    BY <1>1 DEF IInv, Sound, RecRows, Running
  <2>2. QED
    BY <1>1, <1>3, <1>4, <1>7, <2>1, Types DEF RecRows, IInv, Sound
<1>16. CancelRows'
  <2>1. InEnd' \subseteq InEnd \union {t}
    BY <1>1 DEF InEnd
  <2>2. \A c \in past.cancelled : c \in Rows \ {t} /\ turns'[c] = turns[c]
    BY <1>2, <1>4, Types DEF IInv, Sound, CancelRows
  <2>3. QED
    BY <1>1, <1>6, <1>7, <2>1, <2>2 DEF CancelRows, IInv, Sound, Planned
<1>17. QED
  BY <1>8, <1>9, <1>10, <1>11, <1>12, <1>13, <1>14, <1>15, <1>16 DEF IInv, Sound

\* A step that writes the row of resumes alone.
LEMMA EntryMoves ==
  ASSUME IInv, turns' = turns, entry' \in Entry, NEW t,
         \/ entry' = entry
         \/ entry'.plan = NoPlan
         \/ /\ PlansFor(entry', t) /\ t \in Rows /\ turns[t].op # "ping"
            /\ turns[t].status \in {"queued"} \union Unanswered
  PROVE  PlanRows' /\ (entry'.plan.out => entry' = entry)
<1>1. CASE entry' = entry
  BY <1>1, KeepsPlan DEF IInv
<1>2. CASE entry'.plan = NoPlan
  BY <1>2, NoPlanIs DEF PlanRows, Planned
<1>3. CASE /\ PlansFor(entry', t) /\ t \in Rows /\ turns[t].op # "ping"
           /\ turns[t].status \in {"queued"} \union Unanswered
  BY <1>3, SameRows DEF PlanRows, Planned, PlansFor
<1>4. QED
  BY <1>1, <1>2, <1>3

\* Between two calls of the timer no plan is marked as sent.
LEMMA NoneOut ==
  ASSUME IInv, core \in {"up", "stopping", "armed"}, firing = NotFiring
  PROVE  ~entry.plan.out
BY DEF IInv, Sound, MarkRows, NotFiring

LEMMA QuietMarks ==
  ASSUME IInv, turns' = turns, ~entry'.plan.out, firing' = firing, firing = NotFiring
  PROVE  MarkRows'
BY SameRows DEF IInv, Sound, MarkRows, NotFiring

LEMMA AfterEndIs ==
  ASSUME IInv, NEW t \in Rows, NEW o
  PROVE  /\ AfterEnd(t, o) \in Entry
         /\ \/ AfterEnd(t, o) = entry \/ AfterEnd(t, o).plan = NoPlan
            \/ PlansFor(AfterEnd(t, o), t) /\ o # "stopped"
<1>0. entry \in Entry /\ TypeOK
  BY Types DEF IInv
<1> DEFINE rest == Forgotten(entry)
<1>1. rest \in Entry /\ (rest = entry \/ rest.plan = NoPlan)
  BY <1>0, ForgottenIs
<1>2. CASE o = "stopped"
  BY <1>1, <1>2 DEF AfterEnd
<1>3. CASE o \in {"compacted", "error"}
  BY <1>0, <1>3, CarryOnIs DEF AfterEnd
<1>4. CASE o = "done"
  <2> DEFINE e == IF entry.sent = t THEN entry ELSE rest
  <2>1. AfterEnd(t, o) = IF work = "lost" /\ e.plan = NoPlan THEN CarryOn(e, t) ELSE e
    BY <1>4 DEF AfterEnd
  <2>2. e \in Entry /\ (e = entry \/ e.plan = NoPlan)
    BY <1>0, <1>1
  <2> HIDE DEF e, rest
  <2>3. CarryOn(e, t) \in Entry /\ (CarryOn(e, t) = e \/ CarryOn(e, t).plan = NoPlan \/ PlansFor(CarryOn(e, t), t))
    BY <1>0, <2>2, CarryOnIs
  <2>4. QED
    BY <1>4, <2>1, <2>2, <2>3
<1>5. CASE o \notin {"stopped", "compacted", "error", "done"}
  BY <1>0, <1>5 DEF AfterEnd
<1>6. QED
  BY <1>2, <1>3, <1>4, <1>5

LEMMA FinishedStep ==
  ASSUME IInv, Finished
  PROVE  IInv'
<1> DEFINE t == after.turn
<1> DEFINE o == after.outcome
<1>1. /\ core \in {"up", "stopping"} /\ firing = NotFiring /\ after # NoAfter /\ after' = NoAfter
      /\ UNCHANGED <<turns, archived, selection, optIn, onPurpose, work, rec, core, cut, crashed, cutWork, todo,
                     firing, window, cores, acts>>
  BY Zenon DEF Finished
<1>2. \/ UNCHANGED <<entry, timer, reading, past>>
      \/ /\ Eligible(t) /\ past' = past /\ o = "limit"
         /\ \/ reading' = reading \union {t} /\ UNCHANGED <<entry, timer>>
            \/ \E w \in Windows : Write(LimitPlan(entry, t, w)) /\ UNCHANGED reading
      \/ /\ Eligible(t) /\ Write(AfterEnd(t, o)) /\ past' \in {NewRow, past} /\ UNCHANGED reading
  BY Zenon DEF Finished
<1>3. t \in Rows /\ turns[t].status = StatusOf(o) /\ entry \in Entry
      /\ \A u \in Rows : u > t => turns[u].status \in {"queued", "stopped"}
  BY <1>1, Types DEF IInv, Sound, EndRows
<1>4. /\ entry' \in Entry /\ timer' \in BOOLEAN
      /\ \/ entry' = entry
         \/ Eligible(t) /\ entry'.plan = NoPlan
         \/ Eligible(t) /\ PlansFor(entry', t) /\ o # "stopped"
  <2>1. CASE UNCHANGED <<entry, timer>>
    BY <2>1, <1>3 DEF IInv, TypeOK
  <2>2. CASE Eligible(t) /\ o = "limit" /\ \E w \in Windows : Write(LimitPlan(entry, t, w))
    <3>1. PICK w \in Windows : Write(LimitPlan(entry, t, w))
      BY <2>2
    <3>2. entry' = LimitPlan(entry, t, w) /\ timer' \in BOOLEAN
      BY <3>1, Zenon DEF Write
    <3>3. entry' \in Entry /\ (entry' = entry \/ PlansFor(entry', t))
      <4> HIDE DEF t
      <4>1. QED
        BY <1>3, <3>2, LimitPlanIs DEF IInv
    <3>4. QED
      BY <2>2, <3>2, <3>3
  <2>3. CASE Eligible(t) /\ Write(AfterEnd(t, o))
    <3>1. entry' = AfterEnd(t, o) /\ timer' \in BOOLEAN
      BY <2>3, Zenon DEF Write
    <3> HIDE DEF t, o
    <3>2. QED
      BY <1>3, <2>3, <3>1, AfterEndIs
  <2>4. QED
    BY <1>2, <2>1, <2>2, <2>3
<1>5. past' \in Past /\ past'.cancelled = past.cancelled
  <2>1. past' = NewRow \/ past' = past
    BY <1>2
  <2>2. QED
    BY <2>1, PastIs, Types DEF IInv
<1>6. \/ reading' = reading
      \/ reading' = reading \union {t} /\ o = "limit"
  BY <1>2
<1>7. TypeOK'
  <2>1. reading' \subseteq Rows /\ Rows' = Rows
    BY <1>1, <1>3, <1>6, Types, SameRows DEF IInv
  <2>2. after' \in End
    BY <1>1, BoundsAssumption DEF NoAfter, End
  <2>3. QED
    BY <1>1, <1>4, <1>5, <2>1, <2>2 DEF TypeOK, IInv, Past
<1>8. OneOpen' /\ NoneWaits' /\ Continuations'
  BY <1>1, KeepsTurns DEF IInv
<1>9. PlanRows' /\ (entry'.plan.out => entry' = entry)
  <2>1. Eligible(t) => turns[t].op # "ping"
    BY DEF Eligible
  <2>2. o # "stopped" => turns[t].status \in Unanswered
    BY <1>3 DEF StatusOf, Unanswered, Failed
  <2> HIDE DEF t, o
  <2>3. QED
    BY <1>1, <1>3, <1>4, <2>1, <2>2, EntryMoves
<1>10. MarkRows'
  BY <1>1, <1>9, NoneOut, QuietMarks
<1>11. EndRows'
  <2>1. o = "limit" => turns[t].status = "error"
    BY <1>3 DEF StatusOf
  <2>2. QED
    BY <1>1, <1>6, <2>1 DEF IInv, Sound, EndRows
<1>12. BootRows'
  BY <1>1, KeepsBoot DEF IInv
<1>13. RecRows'
  BY <1>1, KeepsRec DEF IInv
<1>14. CancelRows'
  <2>1. InEnd' \subseteq InEnd /\ t \in InEnd
    BY <1>1, <1>6 DEF InEnd, NoAfter
  <2>2. ASSUME NEW c \in past.cancelled, c = LastTurn, entry' # entry
        PROVE  turns[c].status = "stopped"
    <3>1. t <= c /\ t # c /\ c \in Rows
      BY <1>3, <1>4, <2>1, <2>2, LastTurnIs, Types DEF IInv, Sound, CancelRows, Eligible
    <3>2. turns[c].status \in {"queued", "stopped"} /\ c \notin Active
      BY <1>3, <2>2, <3>1, Types DEF IInv, Sound, CancelRows
    <3>3. QED
      BY <3>1, <3>2 DEF Active, Ended, Failed
  <2>3. QED
    BY <1>1, <1>5, <2>1, <2>2, SameRows DEF IInv, Sound, CancelRows, Planned
<1>15. QED
  BY <1>7, <1>8, <1>9, <1>10, <1>11, <1>12, <1>13, <1>14 DEF IInv, Sound

LEMMA QuotaReadStep ==
  ASSUME IInv, NEW t \in Rows, QuotaRead(t)
  PROVE  IInv'
<1>1. /\ core = "up" /\ firing = NotFiring /\ t \in reading /\ reading' = reading \ {t}
      /\ UNCHANGED <<turns, archived, selection, optIn, onPurpose, work, rec, core, cut, crashed, cutWork, todo,
                     firing, after, window, cores, acts, past>>
  BY Zenon DEF QuotaRead, Free
<1>2. entry \in Entry /\ TypeOK
  BY Types DEF IInv
<1>3. entry' \in Entry /\ timer' \in BOOLEAN /\ (entry' = entry \/ (PlansFor(entry', t) /\ t = LastTurn))
  <2>1. CASE UNCHANGED <<entry, timer>>
    BY <2>1, <1>2 DEF TypeOK
  <2>2. CASE \E w \in Windows : Write(LimitPlan(entry, t, w))
    <3>1. PICK w \in Windows : Write(LimitPlan(entry, t, w))
      BY <2>2
    <3>2. entry' = LimitPlan(entry, t, w) /\ timer' \in BOOLEAN
      BY <3>1, Zenon DEF Write
    <3>3. QED
      BY <1>2, <3>2, LimitPlanIs
  <2>3. QED
    BY <2>1, <2>2, Zenon DEF QuotaRead
<1>4. TypeOK'
  <2>1. reading' \subseteq Rows /\ Rows' = Rows
    BY <1>1, <1>2, Types, SameRows
  <2>2. QED
    BY <1>1, <1>2, <1>3, <2>1 DEF TypeOK, Past
<1>5. OneOpen' /\ NoneWaits' /\ Continuations'
  BY <1>1, KeepsTurns DEF IInv
<1>6. PlanRows' /\ (entry'.plan.out => entry' = entry)
  <2>1. turns[t].status \in {"queued"} \union Unanswered
    BY <1>1 DEF IInv, Sound, EndRows, Unanswered, Failed
  <2>2. t = LastTurn => turns[t].op # "ping"
    BY <1>2, LastTurnIs, Types
  <2>3. QED
    BY <1>1, <1>2, <1>3, <2>1, <2>2, EntryMoves
<1>7. MarkRows'
  BY <1>1, <1>6, NoneOut, QuietMarks
<1>8. EndRows'
  BY <1>1, SameRows DEF IInv, Sound, EndRows
<1>9. BootRows' /\ RecRows'
  BY <1>1, KeepsBoot, KeepsRec DEF IInv
<1>10. CancelRows'
  BY <1>1, <1>3, SameRows DEF IInv, Sound, CancelRows, Planned, InEnd
<1>11. QED
  BY <1>4, <1>5, <1>6, <1>7, <1>8, <1>9, <1>10 DEF IInv, Sound

LEMMA BackgroundLostStep ==
  ASSUME IInv, BackgroundLost
  PROVE  IInv'
<1> DEFINE t == LastTurn
<1>1. /\ core = "up" /\ firing = NotFiring /\ t # 0
      /\ UNCHANGED <<turns, archived, selection, optIn, onPurpose, rec, core, cut, crashed, cutWork, todo,
                     firing, after, reading, window, cores, acts>>
  BY Zenon DEF BackgroundLost, Free
<1>2. entry \in Entry /\ TypeOK /\ t \in Rows /\ turns[t].op # "ping"
  BY <1>1, Types, LastTurnIs DEF IInv
<1>3. /\ entry' \in Entry /\ timer' \in BOOLEAN
      /\ \/ entry' = entry
         \/ /\ turns[t].status = "done" /\ entry.handled # t
            /\ entry'.plan = NoPlan \/ PlansFor(entry', t)
  <2>1. CASE UNCHANGED <<entry, timer>>
    BY <2>1, <1>2 DEF TypeOK
  <2>2. CASE turns[t].status = "done" /\ Write(CarryOn(entry, t))
    <3>1. entry' = CarryOn(entry, t) /\ timer' \in BOOLEAN
      BY <2>2, Zenon DEF Write
    <3> HIDE DEF t
    <3>2. QED
      BY <1>2, <2>2, <3>1, CarryOnIs
  <2>3. QED
    BY <2>1, <2>2, Zenon DEF BackgroundLost
<1>4. past' \in Past /\ past'.cancelled = past.cancelled
  <2>1. past' = NewRow \/ past' = past
    BY Zenon DEF BackgroundLost
  <2>2. QED
    BY <1>2, <2>1, PastIs, Types
<1>5. TypeOK'
  <2>1. work' \in {"none", "live", "lost"} /\ Rows' = Rows
    BY <1>1, SameRows, Zenon DEF BackgroundLost
  <2>2. QED
    BY <1>1, <1>2, <1>3, <1>4, <2>1 DEF TypeOK, Past
<1>6. OneOpen' /\ NoneWaits' /\ Continuations'
  BY <1>1, KeepsTurns DEF IInv
<1>7. PlanRows' /\ (entry'.plan.out => entry' = entry)
  <2> HIDE DEF t
  <2>1. QED
    BY <1>1, <1>2, <1>3, EntryMoves DEF Unanswered
<1>8. MarkRows'
  BY <1>1, <1>7, NoneOut, QuietMarks
<1>9. EndRows' /\ BootRows' /\ RecRows'
  BY <1>1, KeepsEnd, KeepsBoot, KeepsRec DEF IInv
<1>10. CancelRows'
  BY <1>1, <1>3, <1>4, SameRows DEF IInv, Sound, CancelRows, Planned, InEnd
<1>11. QED
  BY <1>5, <1>6, <1>7, <1>8, <1>9, <1>10 DEF IInv, Sound

-----------------------------------------------------------------------------
(* The user                                                                *)

\* What Cancelled leaves, outside a call of the timer.
LEMMA CancelledQuietly ==
  ASSUME IInv, core = "up", firing = NotFiring
  PROVE  /\ Cancelled(entry) \in Entry /\ Cancelled(entry).plan = NoPlan
         /\ ~Planned => Cancelled(entry) = entry
         /\ Planned => Cancelled(entry).handled = entry.plan.turn
<1>1. entry \in Entry /\ ~entry.plan.out
  BY NoneOut, Types DEF IInv
<1>2. QED
  BY <1>1, CancelledIs DEF Planned

\* The turn whose plan the user cancels is over, and no end of it is under way.
LEMMA PlanTurnIs ==
  ASSUME IInv, core = "up", NEW c \in PlanTurn
  PROVE  /\ Planned /\ c = entry.plan.turn /\ c \in Rows /\ c \notin Active /\ c \notin InEnd
         /\ c \notin rec
<1>1. Planned /\ c = entry.plan.turn /\ c \notin Active /\ c \notin InEnd
  BY DEF PlanTurn
<1>2. c \in Rows /\ turns[c].status \in {"queued"} \union Unanswered
  BY <1>1 DEF IInv, Sound, PlanRows
<1>3. c \notin rec
  BY <1>1, <1>2 DEF IInv, Sound, RecRows, Unanswered, Failed, Active, Ended
<1>4. QED
  BY <1>1, <1>2, <1>3

LEMMA PlanCancelled ==
  ASSUME IInv, core = "up", firing = NotFiring, entry' = Cancelled(entry),
         UNCHANGED <<turns, archived, rec, after, reading, firing>>,
         past'.cancelled = past.cancelled \union PlanTurn
  PROVE  PlanRows' /\ MarkRows' /\ CancelRows'
<1>1. /\ entry' \in Entry /\ entry'.plan = NoPlan
      /\ ~Planned => entry' = entry
      /\ Planned => entry'.handled = entry.plan.turn
  BY CancelledQuietly
<1>2. PlanRows'
  BY <1>1 DEF PlanRows, Planned
<1>3. MarkRows'
  BY <1>1, NoPlanIs, QuietMarks
<1>4. CancelRows'
  <2>1. SUFFICES ASSUME NEW c \in past.cancelled \union PlanTurn
                 PROVE  /\ c \notin Active /\ c \notin InEnd /\ c \notin rec
                        /\ ~archived /\ c = LastTurn =>
                              turns[c].status = "stopped" \/ entry'.handled = c
    BY <1>1, SameRows DEF CancelRows, InEnd, Planned
  <2>2. CASE c \in past.cancelled
    BY <1>1, <2>2 DEF IInv, Sound, CancelRows
  <2>3. CASE c \in PlanTurn
    BY <1>1, <2>3, PlanTurnIs
  <2>4. QED
    BY <2>1, <2>2, <2>3
<1>5. QED
  BY <1>2, <1>3, <1>4

LEMMA CancelledPast ==
  ASSUME IInv, core = "up"
  PROVE  /\ [past EXCEPT !.cancelled = @ \union PlanTurn] \in Past
         /\ [past EXCEPT !.cancelled = @ \union PlanTurn].cancelled = past.cancelled \union PlanTurn
<1>1. PlanTurn \subseteq Rows /\ past \in Past
  BY PlanTurnIs, Types DEF IInv
<1>2. QED
  BY <1>1 DEF Past

LEMMA CancelRetryStep ==
  ASSUME IInv, CancelRetry
  PROVE  IInv'
<1>1. /\ core = "up" /\ firing = NotFiring /\ acts' = acts + 1 /\ entry' = Cancelled(entry)
      /\ past' = [past EXCEPT !.cancelled = @ \union PlanTurn]
      /\ UNCHANGED <<turns, archived, selection, optIn, onPurpose, work, rec, core, cut, crashed, cutWork, todo,
                     firing, after, reading, window, cores>>
  BY Zenon DEF CancelRetry, Acts, Free, Write
<1>2. timer' \in BOOLEAN
  BY Zenon DEF CancelRetry, Write
<1>3. past' \in Past /\ past'.cancelled = past.cancelled \union PlanTurn
  BY <1>1, CancelledPast
<1>4. PlanRows' /\ MarkRows' /\ CancelRows'
  BY <1>1, <1>3, PlanCancelled
<1>5. TypeOK'
  <2>1. entry' \in Entry /\ Rows' = Rows /\ TypeOK
    BY <1>1, CancelledQuietly, SameRows DEF IInv
  <2>2. UNCHANGED <<turns, archived, selection, optIn, onPurpose, work, rec, core, cut, crashed, cutWork, todo,
                    firing, after, reading, window, cores>>
    BY <1>1
  <2>3. acts' \in Nat
    BY <1>1, <2>1 DEF TypeOK
  <2>4. past' \in Past
    BY <1>3
  <2>5. QED
    BY <1>2, <2>1, <2>2, <2>3, <2>4 DEF TypeOK, Past
<1>6. OneOpen' /\ NoneWaits' /\ Continuations' /\ EndRows' /\ BootRows' /\ RecRows'
  BY <1>1, KeepsTurns, KeepsEnd, KeepsBoot, KeepsRec DEF IInv
<1>7. QED
  BY <1>4, <1>5, <1>6 DEF IInv, Sound

LEMMA OptOutStep ==
  ASSUME IInv, OptOut
  PROVE  IInv'
<1>1. /\ core = "up" /\ firing = NotFiring /\ acts' = acts + 1 /\ optIn' = FALSE
      /\ UNCHANGED <<turns, archived, selection, onPurpose, work, rec, core, cut, crashed, cutWork, todo,
                     firing, after, reading, window, cores>>
  BY Zenon DEF OptOut, Acts, Free
<1>2. \/ UNCHANGED <<entry, timer, past>>
      \/ /\ entry' = Cancelled(entry) /\ timer' \in BOOLEAN
         /\ past' = [past EXCEPT !.cancelled = @ \union PlanTurn]
  BY Zenon DEF OptOut, Write
<1>3. past' \in Past /\ entry' \in Entry /\ timer' \in BOOLEAN
  BY <1>1, <1>2, CancelledPast, CancelledQuietly, Types DEF IInv, TypeOK
<1>4. PlanRows' /\ MarkRows' /\ CancelRows'
  <2>1. CASE UNCHANGED <<entry, timer, past>>
    BY <1>1, <2>1, KeepsPlan, KeepsMark, KeepsCancelled DEF IInv
  <2>2. CASE entry' = Cancelled(entry) /\ past' = [past EXCEPT !.cancelled = @ \union PlanTurn]
    BY <1>1, <2>2, CancelledPast, PlanCancelled
  <2>3. QED
    BY <1>2, <2>1, <2>2
<1>5. TypeOK'
  <2>1. Rows' = Rows /\ TypeOK
    BY <1>1, SameRows DEF IInv
  <2>2. acts' \in Nat
    BY <1>1, <2>1 DEF TypeOK
  <2>3. optIn' \in BOOLEAN
    BY <1>1
  <2>4. QED
    BY <1>1, <1>3, <2>1, <2>2, <2>3 DEF TypeOK, Past
<1>6. OneOpen' /\ NoneWaits' /\ Continuations' /\ EndRows' /\ BootRows' /\ RecRows'
  BY <1>1, KeepsTurns, KeepsEnd, KeepsBoot, KeepsRec DEF IInv
<1>7. QED
  BY <1>4, <1>5, <1>6 DEF IInv, Sound

LEMMA MovedMarks ==
  ASSUME IInv, Moves, ~entry'.plan.out, firing' = firing, firing = NotFiring
  PROVE  MarkRows'
BY Types DEF IInv, MarkRows, NotFiring, Moves

\* What waited is stopped, and what ended is as it was.
LEMMA OpenStopped ==
  ASSUME IInv, core = "up",
         turns' = [t \in Rows |-> IF t \in Active \ Running
                                  THEN [turns[t] EXCEPT !.status = "stopped"] ELSE turns[t]]
  PROVE  /\ Moves /\ Active' = Running' /\ Rows' = Rows /\ LastTurn' = LastTurn /\ Active' \subseteq Active
         /\ \A t \in Rows : turns'[t].status = IF t \in Active \ Running THEN "stopped" ELSE turns[t].status
<1>1. /\ Moves
      /\ \A t \in Rows : turns'[t].status = IF t \in Active \ Running THEN "stopped" ELSE turns[t].status
  BY WaitingStopped DEF IInv
<1>2. Rows' = Rows /\ LastTurn' = LastTurn /\ Active' \subseteq Active
  BY <1>1, MovedRows DEF IInv
<1>3. Active' = Running'
  BY <1>1, <1>2 DEF Active, Running, Ended, Failed
<1>4. QED
  BY <1>1, <1>2, <1>3

LEMMA StopStep ==
  ASSUME IInv, Stop
  PROVE  IInv'
<1>1. /\ core = "up" /\ firing = NotFiring /\ acts' = acts + 1 /\ entry' = Cancelled(entry)
      /\ rec' = {} /\ todo' = {}
      /\ turns' = [t \in Rows |-> IF t \in Active \ Running
                                  THEN [turns[t] EXCEPT !.status = "stopped"] ELSE turns[t]]
      /\ past' = [past EXCEPT !.stopped = @ \union Active,
                              !.cancelled = @ \union PlanTurn \union rec]
  BY Zenon DEF Stop, Acts, Free, Write
<1>2. UNCHANGED <<archived, selection, optIn, onPurpose, core, cut, crashed, cutWork, firing, after, reading,
                  window, cores>>
  BY Zenon DEF Stop
<1>3. /\ Moves /\ Active' = Running' /\ Rows' = Rows /\ LastTurn' = LastTurn /\ Active' \subseteq Active
      /\ \A t \in Rows : turns'[t].status = IF t \in Active \ Running THEN "stopped" ELSE turns[t].status
  BY <1>1, OpenStopped
<1>4. /\ entry' \in Entry /\ entry'.plan = NoPlan
      /\ ~Planned => entry' = entry
      /\ Planned => entry'.handled = entry.plan.turn
  BY <1>1, CancelledQuietly
<1>5. past' \in Past /\ past'.cancelled = past.cancelled \union PlanTurn \union rec
  <2>1. PlanTurn \subseteq Rows /\ past \in Past /\ Active \subseteq Rows /\ rec \subseteq Rows
    BY <1>1, PlanTurnIs, Types DEF IInv, Active
  <2>2. QED
    BY <1>1, <2>1 DEF Past
<1>6. TypeOK'
  <2>1. work' \in {"none", "live", "lost"} /\ timer' \in BOOLEAN
    BY Zenon DEF Stop, IInv, TypeOK, Write
  <2>2. turns' \in Seq(Turn) /\ Len(turns') <= MaxTurns
    BY <1>3, Types DEF Moves, IInv
  <2>3. acts' \in Nat /\ rec' \subseteq Rows /\ todo' \subseteq Rows /\ past' \in Past /\ Rows' = Rows
    BY <1>1, <1>3, <1>5 DEF IInv, TypeOK
  <2>4. TypeOK
    BY DEF IInv
  <2>5. QED
    BY <1>2, <1>4, <2>1, <2>2, <2>3, <2>4 DEF TypeOK, Past
<1>7. OneOpen' /\ Continuations' /\ NoneWaits'
  BY <1>3, MovesKeep DEF NoneWaits
<1>8. PlanRows'
  BY <1>4 DEF PlanRows, Planned
<1>9. MarkRows'
  BY <1>1, <1>2, <1>3, <1>4, NoPlanIs, MovedMarks
<1>10. EndRows'
  BY <1>1, <1>2, <1>3, Types DEF EndRows, IInv, Sound, Active, StatusOf, Ended, Failed
<1>11. BootRows' /\ RecRows'
  BY <1>1, <1>2 DEF BootRows, RecRows, IInv, Sound
<1>12. CancelRows'
  <2>1. SUFFICES ASSUME NEW c \in past.cancelled \union PlanTurn \union rec
                 PROVE  /\ c \notin Active' /\ c \notin InEnd
                        /\ ~archived /\ c = LastTurn =>
                              turns'[c].status = "stopped" \/ entry'.handled = c
    BY <1>1, <1>2, <1>3, <1>4, <1>5 DEF CancelRows, InEnd, Planned
  <2>2. CASE c \in past.cancelled
    BY <1>3, <1>4, <2>2, Types DEF IInv, Sound, CancelRows
  <2>3. CASE c \in PlanTurn
    BY <1>1, <1>3, <1>4, <2>3, PlanTurnIs
  <2>4. CASE c \in rec
    <3>1. turns[c].status \in {"queued", "stopped"} /\ c \in Rows
      BY <1>1, <2>4, Types DEF IInv, Sound, RecRows
    <3>2. turns'[c].status = "stopped" /\ c \notin Active'
      BY <1>3, <3>1 DEF Active, Running, Ended, Failed
    <3>3. c \notin InEnd
      BY <1>1, <2>4, <3>1 DEF IInv, Sound, EndRows, InEnd
    <3>4. QED
      BY <3>2, <3>3
  <2>5. QED
    BY <2>1, <2>2, <2>3, <2>4
<1>13. QED
  BY <1>6, <1>7, <1>8, <1>9, <1>10, <1>11, <1>12 DEF IInv, Sound

LEMMA ArchiveStep ==
  ASSUME IInv, Archive
  PROVE  IInv'
<1>1. /\ core = "up" /\ firing = NotFiring /\ acts' = acts + 1 /\ entry' = Cancelled(entry)
      /\ work' = "none"
      /\ turns' = [t \in Rows |-> IF t \in Active \ Running
                                  THEN [turns[t] EXCEPT !.status = "stopped"] ELSE turns[t]]
      /\ past' = [NewRow EXCEPT !.stopped = @ \union Active, !.cancelled = @ \union PlanTurn]
  BY Zenon DEF Archive, Acts, Free, Write
<1>2. UNCHANGED <<selection, optIn, onPurpose, rec, core, cut, crashed, cutWork, todo, firing, after, reading,
                  window, cores>>
  BY Zenon DEF Archive
<1>3. /\ Moves /\ Active' = Running' /\ Rows' = Rows /\ LastTurn' = LastTurn /\ Active' \subseteq Active
      /\ \A t \in Rows : turns'[t].status = IF t \in Active \ Running THEN "stopped" ELSE turns[t].status
  BY <1>1, OpenStopped
<1>4. entry' \in Entry /\ entry'.plan = NoPlan
  BY <1>1, CancelledQuietly
<1>5. past' \in Past /\ past'.cancelled = past.cancelled \union PlanTurn
  <2>1. PlanTurn \subseteq Rows /\ Active \subseteq Rows
    BY <1>1, PlanTurnIs DEF IInv, Active
  <2>2. NewRow \in Past /\ NewRow.cancelled = past.cancelled
    BY PastIs DEF IInv
  <2>3. QED
    BY <1>1, <2>1, <2>2 DEF Past
<1>6. archived' = TRUE
  BY Zenon DEF Archive
<1>7. TypeOK'
  <2>1. archived' \in BOOLEAN /\ timer' \in BOOLEAN
    BY Zenon DEF Archive, Write
  <2>2. turns' \in Seq(Turn) /\ Len(turns') <= MaxTurns
    BY <1>3, Types DEF Moves, IInv
  <2>3. acts' \in Nat /\ past' \in Past /\ Rows' = Rows /\ work' = "none"
    BY <1>1, <1>3, <1>5 DEF IInv, TypeOK
  <2>4. TypeOK
    BY DEF IInv
  <2>5. QED
    BY <1>2, <1>4, <2>1, <2>2, <2>3, <2>4 DEF TypeOK, Past
<1>8. OneOpen' /\ Continuations' /\ NoneWaits'
  BY <1>3, MovesKeep DEF NoneWaits
<1>9. PlanRows'
  BY <1>4 DEF PlanRows, Planned
<1>10. MarkRows'
  BY <1>1, <1>2, <1>3, <1>4, NoPlanIs, MovedMarks
<1>11. EndRows'
  BY <1>1, <1>2, <1>3, Types DEF EndRows, IInv, Sound, Active, StatusOf, Ended, Failed
<1>12. BootRows' /\ RecRows'
  BY <1>1, <1>2, <1>3, Types DEF BootRows, RecRows, IInv, Sound
<1>13. CancelRows'
  <2>1. SUFFICES ASSUME NEW c \in past.cancelled \union PlanTurn
                 PROVE  c \notin Active' /\ c \notin InEnd /\ c \notin rec
    BY <1>2, <1>5, <1>6 DEF CancelRows, InEnd
  <2>2. CASE c \in past.cancelled
    BY <1>3, <2>2 DEF IInv, Sound, CancelRows
  <2>3. CASE c \in PlanTurn
    BY <1>1, <1>3, <2>3, PlanTurnIs
  <2>4. QED
    BY <2>1, <2>2, <2>3
<1>14. QED
  BY <1>7, <1>8, <1>9, <1>10, <1>11, <1>12, <1>13 DEF IInv, Sound

LEMMA UnarchiveStep ==
  ASSUME IInv, Unarchive
  PROVE  IInv'
<1>1. /\ core = "up" /\ firing = NotFiring /\ past' = [past EXCEPT !.cancelled = {}]
      /\ UNCHANGED <<turns, selection, optIn, entry, onPurpose, work, rec, core, cut, crashed, cutWork, todo, timer,
                     firing, after, reading, window, cores, acts>>
  BY Zenon DEF Unarchive, Free, memory
<1>2. archived' = FALSE /\ archived' \in BOOLEAN
  BY Zenon DEF Unarchive
<1>3. past' \in Past /\ past'.cancelled = {}
  <2>1. past \in Past
    BY Types DEF IInv
  <2>2. QED
    BY <1>1, <2>1 DEF Past
<1>4. TypeOK'
  BY <1>1, <1>2, <1>3, SameRows DEF TypeOK, Past, IInv
<1>5. OneOpen' /\ Continuations' /\ NoneWaits'
  BY <1>1, <1>2, SameRows DEF OneOpen, Continuations, NoneWaits, IInv, Sound
<1>6. PlanRows' /\ EndRows' /\ BootRows' /\ RecRows'
  BY <1>1, KeepsPlan, KeepsEnd, KeepsBoot, KeepsRec DEF IInv
<1>7. MarkRows'
  BY <1>1, NoneOut, QuietMarks
<1>8. CancelRows'
  BY <1>3 DEF CancelRows
<1>9. QED
  BY <1>4, <1>5, <1>6, <1>7, <1>8 DEF IInv, Sound

\* The clock, and another account or model: the rows know nothing of them.
LEMMA WindowOrSelectStep ==
  ASSUME IInv, WindowPasses \/ Select
  PROVE  IInv'
<1>1. UNCHANGED <<turns, archived, optIn, entry, onPurpose, work, rec, core, cut, crashed, cutWork, todo, timer,
                  firing, after, reading, cores, past>>
  BY Zenon DEF WindowPasses, Select, journal, memory
<1>2. selection' \in 1..2 /\ window' \in Nat /\ acts' \in Nat
  BY DEF WindowPasses, Select, journal, Acts, IInv, TypeOK
<1>3. TypeOK'
  BY <1>1, <1>2, SameRows DEF TypeOK, Past, IInv
<1>4. OneOpen' /\ Continuations' /\ NoneWaits' /\ PlanRows' /\ MarkRows' /\ EndRows' /\ BootRows'
      /\ RecRows' /\ CancelRows'
  BY <1>1, KeepsTurns, KeepsPlan, KeepsMark, KeepsEnd, KeepsBoot, KeepsRec, KeepsCancelled DEF IInv
<1>5. QED
  BY <1>3, <1>4 DEF IInv, Sound

-----------------------------------------------------------------------------
(* A plan fires                                                            *)

LEMMA FireYieldsStep ==
  ASSUME IInv, FireYields
  PROVE  IInv'
<1>1. /\ core = "up" /\ firing = NotFiring /\ after = NoAfter
      /\ turns' = [t \in Rows |-> IF t \in Pinging \ Running
                                  THEN [turns[t] EXCEPT !.status = "stopped"] ELSE turns[t]]
      /\ past' = [past EXCEPT !.stopped = @ \union Pinging]
      /\ UNCHANGED <<archived, selection, optIn, entry, onPurpose, work, rec, core, cut, crashed, cutWork, todo,
                     timer, firing, after, reading, window, cores, acts>>
  BY Zenon DEF FireYields, Due, Free, memory
<1>2. Pinging \subseteq Active /\ Active \subseteq Rows /\ \A t \in Pinging : turns[t].op = "ping"
  BY DEF Pinging, Active
<1>3. /\ Moves /\ Rows' = Rows /\ LastTurn' = LastTurn /\ Active' \subseteq Active
      /\ \A t \in Rows : turns'[t].status = IF t \in Pinging \ Running THEN "stopped" ELSE turns[t].status
  BY <1>1, <1>2, WaitingStopped, MovedRows DEF IInv
<1>4. past' \in Past /\ past'.cancelled = past.cancelled
  <2>1. past \in Past
    BY Types DEF IInv
  <2>2. QED
    BY <1>1, <1>2, <2>1 DEF Past
<1>5. TypeOK'
  <2>1. turns' \in Seq(Turn) /\ Len(turns') <= MaxTurns
    BY <1>3, Types DEF Moves, IInv
  <2>2. TypeOK
    BY DEF IInv
  <2>3. UNCHANGED <<archived, selection, optIn, entry, onPurpose, work, rec, core, cut, crashed, cutWork, todo,
                    timer, firing, after, reading, window, cores, acts>>
    BY <1>1
  <2>4. QED
    BY <1>3, <1>4, <2>1, <2>2, <2>3 DEF TypeOK, Past
<1>6. OneOpen' /\ Continuations'
  BY <1>3, MovesKeep
<1>7. NoneWaits'
  BY <1>1, <1>3 DEF NoneWaits, IInv, Sound, Active, Running, Ended, Failed
<1>8. PlanRows'
  BY <1>1, <1>2, <1>3 DEF PlanRows, Planned, IInv, Sound, Moves
<1>9. MarkRows'
  BY <1>1, <1>3, NoneOut, MovedMarks
<1>10. EndRows'
  BY <1>1, <1>2, <1>3, Types DEF EndRows, IInv, Sound, Active, Ended, Failed
<1>11. BootRows' /\ RecRows'
  BY <1>1, <1>3, Types DEF BootRows, RecRows, IInv, Sound
<1>12. CancelRows'
  BY <1>1, <1>2, <1>3, <1>4, Types DEF CancelRows, InEnd, Planned, IInv, Sound
<1>13. QED
  BY <1>5, <1>6, <1>7, <1>8, <1>9, <1>10, <1>11, <1>12 DEF IInv, Sound

LEMMA FireRefusedStep ==
  ASSUME IInv, NEW card, FireRefused(card)
  PROVE  IInv'
<1>1. /\ core = "up" /\ firing = NotFiring /\ Planned /\ entry' = Cancelled(entry)
      /\ UNCHANGED <<turns, archived, selection, optIn, onPurpose, work, rec, core, cut, crashed, cutWork, todo,
                     firing, after, reading, window, cores, acts, past>>
  BY Zenon DEF FireRefused, Due, Free, Write
<1>2. timer' \in BOOLEAN
  BY Zenon DEF FireRefused, Write
<1>3. entry' \in Entry /\ entry'.plan = NoPlan
  BY <1>1, CancelledQuietly
<1>4. TypeOK'
  BY <1>1, <1>2, <1>3, SameRows DEF TypeOK, Past, IInv
<1>5. OneOpen' /\ Continuations' /\ NoneWaits' /\ EndRows' /\ BootRows' /\ RecRows'
  BY <1>1, KeepsTurns, KeepsEnd, KeepsBoot, KeepsRec DEF IInv
<1>6. PlanRows'
  BY <1>3 DEF PlanRows, Planned
<1>7. MarkRows'
  BY <1>1, <1>3, NoPlanIs, QuietMarks
<1>8. CancelRows'
  BY <1>1, <1>3, SameRows DEF CancelRows, InEnd, Planned, IInv, Sound
<1>9. QED
  BY <1>4, <1>5, <1>6, <1>7, <1>8 DEF IInv, Sound

LEMMA FireMarksStep ==
  ASSUME IInv, FireMarks
  PROVE  IInv'
<1>1. /\ core = "up" /\ firing = NotFiring /\ Planned
      /\ ~archived /\ ~Busy /\ LastTurn = entry.plan.turn
      /\ firing' = [at |-> "marked", turn |-> 0]
      /\ UNCHANGED <<turns, archived, selection, optIn, onPurpose, work, rec, core, cut, crashed, cutWork, todo,
                     after, reading, window, cores, acts, past>>
  BY Zenon DEF FireMarks, Due, Free, Refused
<1>2. timer' \in BOOLEAN
  BY Zenon DEF FireMarks, Write
<1>3. /\ entry' \in Entry /\ entry'.plan.out
      /\ entry'.plan.turn = entry.plan.turn /\ entry'.plan.reason = entry.plan.reason
      /\ entry'.handled = entry.handled /\ entry'.streak = entry.streak
  <2> DEFINE yes == TRUE
  <2> DEFINE plan == [entry.plan EXCEPT !.out = yes]
  <2>1. entry' = [entry EXCEPT !.plan = plan]
    BY Zenon DEF FireMarks, Write
  <2>2. yes \in BOOLEAN /\ yes
    OBVIOUS
  <2> HIDE DEF yes
  <2>3. entry \in Entry /\ entry.plan \in Plan
    BY Types DEF IInv
  <2>4. plan \in Plan /\ plan.out = yes /\ plan.turn = entry.plan.turn /\ plan.reason = entry.plan.reason
    BY <2>2, <2>3 DEF Plan
  <2> HIDE DEF plan
  <2>5. entry' \in Entry /\ entry'.plan = plan /\ entry'.handled = entry.handled
        /\ entry'.streak = entry.streak
    BY <2>1, <2>3, <2>4 DEF Entry
  <2>6. QED
    BY <2>2, <2>4, <2>5
<1>4. /\ entry.plan.turn \in Rows /\ turns[entry.plan.turn].status \in Unanswered
      /\ entry.handled = entry.plan.turn /\ entry.plan.reason # "none"
      /\ turns[entry.plan.turn].op # "ping"
      /\ entry.plan.reason = "carry" => entry.streak < MaxStreak
  <2>1. /\ entry.plan.turn \in Rows /\ turns[entry.plan.turn].status \in {"queued"} \union Unanswered
        /\ entry.handled = entry.plan.turn /\ entry.plan.reason # "none"
        /\ turns[entry.plan.turn].op # "ping"
        /\ entry.plan.reason = "carry" => entry.streak < MaxStreak
    BY <1>1 DEF IInv, Sound, PlanRows
  <2>2. turns[entry.plan.turn].status \in Ended
    BY <1>1, <2>1 DEF Busy, Active
  <2>3. QED
    BY <2>1, <2>2 DEF Ended, Failed
<1>5. LastTurn \notin past.cancelled
  BY <1>1, <1>4 DEF IInv, Sound, CancelRows, Unanswered, Failed
<1>6. TypeOK'
  <2>1. firing' \in Call
    BY <1>1, BoundsAssumption DEF Call
  <2>2. TypeOK /\ Rows' = Rows /\ entry' \in Entry
    BY <1>1, <1>3, SameRows DEF IInv
  <2>3. UNCHANGED <<turns, archived, selection, optIn, onPurpose, work, rec, core, cut, crashed, cutWork, todo,
                    after, reading, window, cores, acts, past>>
    BY <1>1
  <2>4. QED
    BY <1>2, <2>1, <2>2, <2>3 DEF TypeOK, Past
<1>7. OneOpen' /\ Continuations' /\ NoneWaits' /\ EndRows' /\ BootRows' /\ RecRows'
  BY <1>1, KeepsTurns, KeepsEnd, KeepsBoot, KeepsRec DEF IInv
<1>8. PlanRows'
  BY <1>1, <1>3, <1>4, SameRows DEF PlanRows
<1>9. MarkRows'
  <2>1. 0 \in 0..Len(turns)
    BY Types DEF IInv
  <2>2. firing'.at = "marked" /\ firing'.turn = 0
    BY <1>1
  <2>3. QED
    BY <1>1, <1>3, <1>4, <1>5, <2>1, <2>2, SameRows DEF MarkRows
<1>10. CancelRows'
  BY <1>1, <1>5, SameRows DEF CancelRows, InEnd, IInv, Sound
<1>11. QED
  BY <1>6, <1>7, <1>8, <1>9, <1>10 DEF IInv, Sound

\* What a marked plan is about, while the timer's call goes on.
LEMMA MarkedPlan ==
  ASSUME IInv, firing.at # "no"
  PROVE  /\ Planned /\ core = "up" /\ entry.plan.out /\ entry.plan.turn \in Rows
         /\ turns[entry.plan.turn].status \in Unanswered /\ entry.plan.reason \in {"limit", "carry"}
         /\ LastTurn \notin past.cancelled
         /\ firing.at = "marked" => ~Busy /\ ~archived /\ LastTurn = entry.plan.turn
<1>1. entry.plan.out /\ core = "up" /\ entry.plan.reason \in {"none", "limit", "carry"}
  BY Types DEF IInv, Sound, MarkRows, Plan
<1>2. Planned
  BY <1>1, NoPlanIs DEF Planned
<1>3. QED
  BY <1>1, <1>2 DEF IInv, Sound, MarkRows, PlanRows

LEMMA FireStartsStep ==
  ASSUME IInv, FireStarts
  PROVE  IInv'
<1> DEFINE p == entry.plan.turn
<1>1. /\ core = "up" /\ firing.at = "marked"
      /\ UNCHANGED <<archived, selection, optIn, entry, onPurpose, work, rec, core, cut, crashed, cutWork, todo,
                     timer, after, reading, window, cores, acts, past>>
  BY Zenon DEF FireStarts
<1>2. /\ Planned /\ entry.plan.out /\ p \in Rows /\ turns[p].status \in Unanswered
      /\ entry.plan.reason \in {"limit", "carry"} /\ LastTurn \notin past.cancelled
      /\ ~Busy /\ ~archived /\ LastTurn = p
  BY <1>1, MarkedPlan
<1>3. CASE UNCHANGED turns /\ firing' = [at |-> "sent", turn |-> 0]
  <2>1. TypeOK'
    <3>1. firing' \in Call /\ Rows' = Rows
      BY <1>3, BoundsAssumption, SameRows DEF Call
    <3>2. QED
      BY <1>1, <1>3, <3>1 DEF TypeOK, Past, IInv
  <2>2. MarkRows'
    <3>1. 0 \in 0..Len(turns) /\ firing'.at = "sent" /\ firing'.turn = 0
      BY <1>3, Types DEF IInv
    <3>2. QED
      BY <1>1, <1>2, <1>3, <3>1, SameRows DEF MarkRows
  <2>3. QED
    BY <1>1, <1>3, <2>1, <2>2, KeepsTurns, KeepsPlan, KeepsEnd, KeepsBoot, KeepsRec, KeepsCancelled
    DEF IInv, Sound
<1>4. CASE /\ Len(turns) < MaxTurns /\ turns' = Append(turns, Row("resume", p, entry.plan.reason))
           /\ firing' = [at |-> "sent", turn |-> Len(turns) + 1]
  <2>1. Adds("resume", p, entry.plan.reason)
    <3>1. p \in 0..MaxTurns /\ entry.plan.reason \in {"none", "limit", "carry", "handoff"}
      BY <1>2, Types DEF IInv
    <3>2. QED
      BY <1>4, <3>1, RowAdded DEF IInv
  <2>2. /\ Rows' = Rows \union {Len(turns')} /\ Len(turns') \notin Rows
        /\ Active' = {Len(turns')} /\ Running' = {} /\ LastTurn' = Len(turns')
    BY <1>2, <2>1, AddedRows DEF IInv
  <2>3. /\ firing'.at = "sent" /\ firing'.turn = Len(turns') /\ Len(turns') \in 0..Len(turns')
        /\ firing' \in Call
    BY <1>4, <2>1, Types DEF IInv, Call, Adds
  <2>4. TypeOK'
    <3>1. Rows \subseteq Rows' /\ turns' \in Seq(Turn) /\ Len(turns') <= MaxTurns /\ TypeOK
      BY <2>1, TypesAdded DEF IInv
    <3>2. QED
      BY <1>1, <2>3, <3>1 DEF TypeOK, Past
  <2>5. OneOpen' /\ NoneWaits' /\ Continuations'
    BY <1>1, <1>2, <2>1, AddsKeep
  <2>6. PlanRows'
    BY <1>1, <1>2, <2>1, <2>2 DEF IInv, Sound, PlanRows, Planned, Adds
  <2>7. MarkRows'
    BY <1>1, <1>2, <2>1, <2>2, <2>3, Types DEF IInv, MarkRows, Adds
  <2>8. EndRows'
    BY <1>1, <2>1, <2>2, Types DEF IInv, Sound, EndRows, Adds
  <2>9. BootRows'
    BY <1>1, <2>1, <2>2 DEF IInv, Sound, BootRows, Adds
  <2>10. RecRows'
    BY <1>1, <2>1, <2>2, Types DEF IInv, Sound, RecRows, Adds
  <2>11. CancelRows'
    BY <1>1, <2>1, <2>2, Types DEF IInv, Sound, CancelRows, Adds, InEnd, Active
  <2>12. QED
    BY <2>4, <2>5, <2>6, <2>7, <2>8, <2>9, <2>10, <2>11 DEF IInv, Sound
<1>5. QED
  BY <1>3, <1>4, Zenon DEF FireStarts

LEMMA FireSettlesStep ==
  ASSUME IInv, FireSettles
  PROVE  IInv'
<1>1. /\ core = "up" /\ firing.at = "sent" /\ firing' = NotFiring
      /\ entry' = Settled(entry, firing.turn)
      /\ UNCHANGED <<turns, archived, selection, optIn, onPurpose, work, rec, core, cut, crashed, cutWork, todo,
                     after, reading, window, cores, acts, past>>
  BY Zenon DEF FireSettles, Write
<1>2. timer' \in BOOLEAN
  BY Zenon DEF FireSettles, Write
<1>3. Planned /\ LastTurn \notin past.cancelled
  BY <1>1, MarkedPlan
<1>4. entry' \in Entry /\ entry'.plan = NoPlan
  <2>1. firing.turn \in 0..MaxTurns /\ entry \in Entry
    BY Types DEF IInv, TypeOK, Call
  <2>2. entry.plan.reason # "none" /\ (entry.plan.reason = "carry" => entry.streak < MaxStreak)
    BY <1>3 DEF IInv, Sound, PlanRows
  <2>3. QED
    BY <1>1, <2>1, <2>2, SettledIs
<1>5. TypeOK'
  <2>1. firing' \in Call /\ Rows' = Rows
    BY <1>1, BoundsAssumption, SameRows DEF Call, NotFiring
  <2>2. QED
    BY <1>1, <1>2, <1>4, <2>1 DEF TypeOK, Past, IInv
<1>6. OneOpen' /\ Continuations' /\ NoneWaits' /\ EndRows' /\ BootRows' /\ RecRows'
  BY <1>1, KeepsTurns, KeepsEnd, KeepsBoot, KeepsRec DEF IInv
<1>7. PlanRows'
  BY <1>4 DEF PlanRows, Planned
<1>8. MarkRows'
  BY <1>1, <1>4, NoPlanIs, Types, SameRows DEF MarkRows, NotFiring, IInv
<1>9. CancelRows'
  BY <1>1, <1>3, SameRows DEF CancelRows, InEnd, IInv, Sound
<1>10. QED
  BY <1>5, <1>6, <1>7, <1>8, <1>9 DEF IInv, Sound

-----------------------------------------------------------------------------
(* The core stops, dies and starts                                         *)

LEMMA LeavesStep ==
  ASSUME IInv, ShutDown \/ HandOver
  PROVE  IInv'
<1>1. /\ core = "up" /\ firing = NotFiring /\ core' = "stopping"
      /\ UNCHANGED <<turns, archived, selection, optIn, entry, work, cut, crashed, cutWork, todo, firing, after,
                     reading, window, cores, acts, past>>
  BY Zenon DEF ShutDown, HandOver, Free
<1>2. onPurpose' \in BOOLEAN /\ timer' \in BOOLEAN
  BY Zenon DEF ShutDown, HandOver, IInv, TypeOK
<1>3. rec' \subseteq rec \union Active
  <2>1. CASE ShutDown
    BY <2>1 DEF ShutDown
  <2>2. CASE HandOver
    <3>1. rec' = rec \union {t \in Active : turns[t].op \in {"user", "resume"}}
      BY <2>2, Zenon DEF HandOver
    <3>2. QED
      BY <3>1
  <2>3. QED
    BY <2>1, <2>2
<1>4. TypeOK'
  <2>1. rec' \subseteq Rows /\ Rows' = Rows
    BY <1>1, <1>3, Types, SameRows DEF IInv, Active
  <2>2. QED
    BY <1>1, <1>2, <2>1 DEF TypeOK, Past, IInv
<1>5. OneOpen' /\ Continuations' /\ NoneWaits' /\ PlanRows'
  BY <1>1, KeepsTurns, KeepsPlan DEF IInv
<1>6. MarkRows'
  BY <1>1, NoneOut, QuietMarks
<1>7. EndRows' /\ BootRows'
  BY <1>1, SameRows DEF EndRows, BootRows, IInv, Sound
<1>8. RecRows'
  <2>1. \A t \in Active : turns[t].status \in {"queued", "running"}
    BY Types DEF IInv, Active, Turn
  <2>2. \A t \in rec : turns[t].status \in {"queued", "stopped"}
    BY <1>1 DEF IInv, Sound, RecRows
  <2>3. QED
    BY <1>1, <1>3, <2>1, <2>2 DEF RecRows
<1>9. CancelRows'
  BY <1>1, <1>3, SameRows DEF CancelRows, InEnd, Planned, IInv, Sound
<1>10. QED
  BY <1>4, <1>5, <1>6, <1>7, <1>8, <1>9 DEF IInv, Sound

LEMMA DiesStep ==
  ASSUME IInv, Dies
  PROVE  IInv'
<1>1. /\ core # "down" /\ core' = "down" /\ crashed' = 0 /\ todo' = {} /\ firing' = NotFiring
      /\ after' = NoAfter /\ reading' = {}
      /\ UNCHANGED <<turns, archived, selection, optIn, entry, onPurpose, work, rec, window, cores, acts>>
  BY Zenon DEF Dies, journal
<1>2. cut' \in BOOLEAN /\ cutWork' \in BOOLEAN /\ timer' \in BOOLEAN
  BY Zenon DEF Dies
<1>3. past' \in Past /\ past'.cancelled = past.cancelled
  <2>1. \/ past' = past \/ past' = [past EXCEPT !.onPurpose = @ \union Running]
        \/ past' = [past EXCEPT !.onPurpose = {}]
    BY Zenon DEF Dies
  <2>2. past \in Past /\ Running \subseteq Rows
    BY Types DEF IInv, Running
  <2>3. QED
    BY <2>1, <2>2 DEF Past
<1>4. TypeOK'
  <2>1. firing' \in Call /\ after' \in End /\ Rows' = Rows /\ crashed' \in 0..MaxTurns
    BY <1>1, BoundsAssumption, SameRows DEF Call, End, NotFiring, NoAfter
  <2>2. past' \in Past /\ TypeOK
    BY <1>3 DEF IInv
  <2>3. QED
    BY <1>1, <1>2, <2>1, <2>2 DEF TypeOK, Past
<1>5. OneOpen' /\ Continuations' /\ NoneWaits' /\ PlanRows'
  BY <1>1, KeepsTurns, KeepsPlan DEF IInv
<1>6. MarkRows'
  BY <1>1, <1>3, Types, SameRows DEF MarkRows, NotFiring, IInv, Sound
<1>7. EndRows' /\ BootRows'
  BY <1>1 DEF EndRows, BootRows
<1>8. RecRows'
  BY <1>1 DEF RecRows, IInv, Sound
<1>9. CancelRows'
  <2>1. InEnd' = {}
    BY <1>1 DEF InEnd
  <2>2. QED
    BY <1>1, <1>3, <2>1, SameRows DEF CancelRows, Planned, IInv, Sound
<1>10. QED
  BY <1>4, <1>5, <1>6, <1>7, <1>8, <1>9 DEF IInv, Sound

\* What recovery makes of the open turns: none runs, what the handoff keeps is
\* stopped or waits, and the turn it says is resumed is the last.
LEMMA Recovered ==
  ASSUME IInv, NEW recent \in BOOLEAN, NEW fresh \in BOOLEAN, Recover(recent, fresh)
  PROVE  /\ Moves /\ rec' \subseteq rec /\ crashed' \in {0} \union Running
         /\ \A t \in Running :
              /\ turns'[t].status \in {"stopped"} \union Failed
              /\ t \in rec' => turns'[t].status = "stopped"
              /\ crashed' = t => turns'[t].status = "told" /\ turns[t].op # "ping"
         /\ \A t \in Active \ Running :
              /\ turns'[t].status \in {"queued", "error"}
              /\ t \in rec' /\ ~archived => turns'[t].status = "queued"
<1> DEFINE isCut == IsCut(recent)
<1> DEFINE kept == IF fresh THEN rec ELSE {}
<1> DEFINE owed == Owed(kept, isCut)
<1> DEFINE waits == {t \in Active \ Running : ~archived /\ (t \in kept \/ (turns[t].by = "handoff" /\ turns[t].of \in kept))}
<1> DEFINE Closed(t) == IF t \in Running \cap kept THEN "stopped"
                        ELSE IF t \in owed THEN "told"
                        ELSE IF t \in Running \/ (turns[t].op # "user" /\ t \notin waits) THEN "error"
                        ELSE turns[t].status
<1>1. /\ rec' = kept /\ kept \subseteq rec
      /\ crashed' = IF owed = {} THEN 0 ELSE CHOOSE t \in owed : TRUE
      /\ turns' = [t \in Rows |-> IF t \in Active THEN [turns[t] EXCEPT !.status = Closed(t)] ELSE turns[t]]
  BY Zenon DEF Recover
<1>2. owed \subseteq Running \ kept /\ \A t \in owed : turns[t].op # "ping"
  <2> HIDE DEF kept, isCut
  <2>1. QED
    BY DEF Owed, Resumes, Eligible
<1>3. \A t \in waits : t \notin Running
  OBVIOUS
<1>4. \A t \in kept : t \in Active \ Running /\ ~archived => t \in waits
  OBVIOUS
<1> HIDE DEF owed, waits, kept
<1> DEFINE f == [t \in Rows |-> Closed(t)]
<1>5. Running \subseteq Active /\ Active \subseteq Rows
  BY DEF Running, Active, Ended, Failed
<1>6. \A t \in Rows : Closed(t) \in {"queued", "running"} \union Ended
  BY Types DEF IInv, Turn, Ended, Failed
<1>7. \A t \in Running :
        /\ Closed(t) \in {"stopped"} \union Failed
        /\ t \in kept => Closed(t) = "stopped"
        /\ t \in owed => Closed(t) = "told"
  BY <1>2 DEF Failed
<1>8. \A t \in Active \ Running :
        /\ Closed(t) \in {"queued", "error"}
        /\ t \in kept /\ ~archived => Closed(t) = "queued"
  <2>1. \A t \in Active \ Running : turns[t].status = "queued"
    BY <1>5, Types DEF IInv, Active, Running, Turn
  <2>2. QED
    BY <1>2, <1>4, <2>1
<1> HIDE DEF Closed
<1>9. f \in [Rows -> {"queued", "running"} \union Ended]
  BY <1>6
<1>10. turns' = [t \in Rows |-> IF t \in Active THEN [turns[t] EXCEPT !.status = f[t]] ELSE turns[t]]
  BY <1>1, <1>5
<1>11. \A t \in Active : f[t] = Closed(t)
  BY <1>5
<1> HIDE DEF f
<1>12. Moves /\ \A t \in Active : turns'[t].status = Closed(t)
  BY <1>9, <1>10, <1>11, StatusesGiven DEF IInv
<1>13. crashed' \in {0} \union owed
  BY <1>1
<1>14. \A t \in Running : crashed' = t => t \in owed
  BY <1>5, <1>13, Types DEF IInv
<1>15. QED
  BY <1>1, <1>2, <1>5, <1>7, <1>8, <1>12, <1>13, <1>14

LEMMA RecoverStep ==
  ASSUME IInv, NEW recent \in BOOLEAN, NEW fresh \in BOOLEAN, Recover(recent, fresh)
  PROVE  IInv'
<1>1. /\ core = "down" /\ core' = "recovered" /\ cores' = cores + 1 /\ work' = "none"
      /\ UNCHANGED <<archived, selection, optIn, entry, onPurpose, todo, timer, firing, after, reading, window,
                     acts, past>>
  BY Zenon DEF Recover
<1>2. cut' \in BOOLEAN /\ cutWork' \in BOOLEAN
  BY Zenon DEF Recover, IsCut
<1>3. /\ Moves /\ rec' \subseteq rec /\ crashed' \in {0} \union Running
      /\ \A t \in Running :
           /\ turns'[t].status \in {"stopped"} \union Failed
           /\ t \in rec' => turns'[t].status = "stopped"
           /\ crashed' = t => turns'[t].status = "told" /\ turns[t].op # "ping"
      /\ \A t \in Active \ Running :
           /\ turns'[t].status \in {"queued", "error"}
           /\ t \in rec' /\ ~archived => turns'[t].status = "queued"
  BY Recovered
<1>4. /\ Rows' = Rows /\ LastTurn' = LastTurn /\ Active' \subseteq Active /\ Running' = {}
      /\ \A u \in Rows : u \in Active \/ (turns'[u].status = turns[u].status /\ turns[u].status \in Ended)
  <2>1. Rows' = Rows /\ LastTurn' = LastTurn /\ Active' \subseteq Active /\ Running' \subseteq Active
    BY <1>3, MovedRows DEF IInv
  <2>2. \A t \in Active : turns'[t].status # "running"
    BY <1>3 DEF Failed
  <2>3. QED
    BY <1>3, <2>1, <2>2, MovedRows DEF IInv, Running
<1>5. TypeOK'
  <2>1. turns' \in Seq(Turn) /\ Len(turns') <= MaxTurns
    BY <1>3, Types DEF Moves, IInv
  <2>2. crashed' \in 0..MaxTurns /\ rec' \subseteq Rows
    BY <1>3, Types DEF Running, IInv
  <2>3. cores' \in Nat /\ TypeOK
    BY <1>1 DEF IInv, TypeOK
  <2>4. QED
    BY <1>1, <1>2, <1>4, <2>1, <2>2, <2>3 DEF TypeOK, Past
<1>6. OneOpen' /\ Continuations'
  BY <1>3, MovesKeep
<1>7. NoneWaits'
  <2>1. ASSUME archived
        PROVE  Active' = {}
    <3>1. Active = Running
      BY <2>1 DEF IInv, Sound, NoneWaits
    <3>2. QED
      BY <1>3, <1>4, <3>1 DEF Active, Ended
  <2>2. QED
    BY <1>1, <1>4, <2>1 DEF NoneWaits
<1>8. PlanRows'
  <2>1. ASSUME Planned
        PROVE  turns'[entry.plan.turn].status \in {"queued"} \union Unanswered
    <3>1. /\ entry.plan.turn \in Rows
          /\ turns[entry.plan.turn].status \in {"queued"} \union Unanswered
      BY <2>1 DEF IInv, Sound, PlanRows
    <3>2. entry.plan.turn \notin Running
      BY <3>1 DEF Running, Unanswered, Failed
    <3>3. QED
      BY <1>3, <1>4, <3>1, <3>2 DEF Unanswered, Failed
  <2>2. QED
    BY <1>1, <1>3, <1>4, <2>1 DEF PlanRows, Planned, IInv, Sound, Moves
<1>9. MarkRows'
  <2>1. firing.at = "no" /\ firing.turn \in 0..Len(turns')
    BY <1>1, <1>3 DEF IInv, Sound, MarkRows, Moves, TypeOK, Call
  <2>2. ASSUME entry.plan.out
        PROVE  turns'[entry.plan.turn].status \in Unanswered /\ LastTurn \notin past.cancelled
    <3>1. entry.plan.turn \in Rows /\ turns[entry.plan.turn].status \in Unanswered
          /\ LastTurn \notin past.cancelled
      BY <2>2, NoPlanIs DEF IInv, Sound, MarkRows, PlanRows, Planned
    <3>2. entry.plan.turn \notin Active
      BY <3>1 DEF Active, Unanswered, Ended
    <3>3. QED
      BY <1>4, <3>1, <3>2
  <2>3. QED
    BY <1>1, <1>4, <2>1, <2>2 DEF MarkRows
<1>10. EndRows'
  <2>1. after = NoAfter
    BY <1>1 DEF IInv, Sound, EndRows
  <2>2. QED
    BY <1>1, <1>4, <2>1, Types DEF IInv, Sound, EndRows, Active, Ended, Failed
<1>11. BootRows'
  <2>1. ASSUME crashed' # 0
        PROVE  crashed' = LastTurn
    <3>1. crashed' \in Running /\ turns[crashed'].op # "ping"
      BY <1>3, <2>1
    <3>2. crashed' \in Rows /\ crashed' = Len(turns)
      BY <3>1 DEF IInv, Sound, OneOpen, Active, Running, Ended, Failed
    <3>3. QED
      BY <3>1, <3>2, LastTurnIs, Types DEF IInv
  <2>2. QED
    BY <1>1, <1>3, <1>4, <2>1 DEF BootRows
<1>12. RecRows'
  <2>1. SUFFICES ASSUME NEW t \in rec'
                 PROVE  turns'[t].status \in {"queued", "stopped"}
    BY DEF RecRows
  <2>2. t \in Rows /\ turns[t].status \in {"queued", "stopped", "running"}
    BY <1>1, <1>3, Types DEF IInv, Sound, RecRows
  <2>3. CASE t \in Running
    BY <1>3, <2>3
  <2>4. CASE t \in Active \ Running
    <3>1. ~archived
      BY <2>4 DEF IInv, Sound, NoneWaits
    <3>2. QED
      BY <1>3, <2>4, <3>1
  <2>5. CASE t \notin Active
    BY <1>4, <2>2, <2>5 DEF Active, Ended, Failed
  <2>6. QED
    BY <2>3, <2>4, <2>5
<1>13. CancelRows'
  BY <1>1, <1>3, <1>4, Types DEF CancelRows, InEnd, Planned, IInv, Sound
<1>14. QED
  BY <1>5, <1>6, <1>7, <1>8, <1>9, <1>10, <1>11, <1>12, <1>13 DEF IInv, Sound

LEMMA ArmPlansStep ==
  ASSUME IInv, ArmPlans
  PROVE  IInv'
<1> DEFINE none == [NoEntry EXCEPT !.window = entry.window]
<1>1. /\ core = "recovered" /\ core' = "armed"
      /\ entry' = IF archived THEN none ELSE IF entry.plan.out THEN Settled(entry, 0) ELSE entry
      /\ UNCHANGED <<turns, archived, selection, optIn, onPurpose, work, rec, cut, crashed, cutWork, todo, firing,
                     after, reading, window, cores, acts>>
  BY Zenon DEF ArmPlans, Write
<1>2. timer' \in BOOLEAN
  BY Zenon DEF ArmPlans, Write
<1>3. past' \in Past /\ past'.cancelled = past.cancelled
  <2>1. past' = past \/ past' = [past EXCEPT !.lost = @ + 1]
    BY Zenon DEF ArmPlans
  <2>2. CASE past' = past
    BY <2>2, Types DEF IInv
  <2>3. CASE past' = [past EXCEPT !.lost = @ + 1]
    BY <2>3, PastIs DEF IInv
  <2>4. QED
    BY <2>1, <2>2, <2>3
<1>4. /\ entry' \in Entry /\ (entry' = entry \/ entry'.plan = NoPlan) /\ ~entry'.plan.out
      /\ entry' # entry => archived \/ entry.plan.out
  <2>1. entry \in Entry /\ entry.window \in Nat /\ 0 \in 0..MaxTurns
    BY Types, BoundsAssumption DEF IInv, Entry
  <2>2. none \in Entry /\ none.plan = NoPlan
    BY <2>1, NoEntryIs
  <2> HIDE DEF none
  <2>3. entry.plan.out => Settled(entry, 0) \in Entry /\ Settled(entry, 0).plan = NoPlan
    <3>1. entry.plan.out => /\ entry.plan.reason # "none"
                            /\ entry.plan.reason = "carry" => entry.streak < MaxStreak
      BY NoPlanIs DEF IInv, Sound, PlanRows, Planned
    <3>2. QED
      BY <2>1, <3>1, SettledIs
  <2>4. QED
    BY <1>1, <2>1, <2>2, <2>3, NoPlanIs
<1>5. TypeOK'
  <2>1. TypeOK /\ Rows' = Rows /\ entry' \in Entry /\ past' \in Past
    BY <1>1, <1>3, <1>4, SameRows DEF IInv
  <2>2. /\ core' = "armed"
        /\ UNCHANGED <<turns, archived, selection, optIn, onPurpose, work, rec, cut, crashed, cutWork, todo, firing,
                       after, reading, window, cores, acts>>
    BY <1>1
  <2>3. QED
    BY <1>2, <2>1, <2>2 DEF TypeOK, Past
<1>6. OneOpen' /\ Continuations' /\ NoneWaits'
  BY <1>1, KeepsTurns DEF IInv
<1>7. PlanRows'
  BY <1>1, <1>4, EntryMoves
<1>8. MarkRows'
  BY <1>1, <1>4, SameRows DEF MarkRows, IInv, Sound, TypeOK, Call
<1>9. EndRows' /\ BootRows' /\ RecRows'
  BY <1>1, SameRows DEF EndRows, BootRows, RecRows, IInv, Sound
<1>10. CancelRows'
  <2>1. entry' = entry \/ archived \/ LastTurn \notin past.cancelled
    BY <1>4 DEF IInv, Sound, MarkRows
  <2>2. QED
    BY <1>1, <1>3, <2>1, SameRows DEF CancelRows, InEnd, Planned, IInv, Sound
<1>11. QED
  BY <1>5, <1>6, <1>7, <1>8, <1>9, <1>10 DEF IInv, Sound

LEMMA StartPlansStep ==
  ASSUME IInv, StartPlans
  PROVE  IInv'
<1> DEFINE t == LastTurn
<1>1. /\ core = "armed" /\ core' = "up" /\ crashed' = 0 /\ todo' = rec
      /\ UNCHANGED <<turns, archived, selection, optIn, work, rec, cut, firing, after, reading, window, cores, acts>>
  BY Zenon DEF StartPlans
<1>2. onPurpose' \in BOOLEAN /\ cutWork' \in BOOLEAN
  BY Zenon DEF StartPlans
<1>3. firing.at = "no" /\ after = NoAfter /\ ~entry.plan.out /\ Running = {}
  BY <1>1 DEF IInv, Sound, MarkRows, EndRows, BootRows, TypeOK, Call
<1>4. (IF crashed # 0 THEN crashed ELSE LastTurn) = t
  BY DEF IInv, Sound, BootRows
<1>5. \/ UNCHANGED <<entry, timer>>
      \/ /\ t # 0 /\ (crashed # 0 \/ turns[t].status # "stopped") /\ Write(CarryOn(entry, t))
  BY <1>4, Zenon DEF StartPlans
<1>6. /\ entry' \in Entry /\ timer' \in BOOLEAN
      /\ \/ entry' = entry
         \/ /\ t \in Rows /\ turns[t].op # "ping" /\ turns[t].status \in {"queued"} \union Unanswered
            /\ entry.handled # t /\ (entry'.plan = NoPlan \/ PlansFor(entry', t))
  <2>1. CASE UNCHANGED <<entry, timer>>
    BY <2>1, Types DEF IInv, TypeOK
  <2>2. CASE t # 0 /\ (crashed # 0 \/ turns[t].status # "stopped") /\ Write(CarryOn(entry, t))
    <3>1. entry' = CarryOn(entry, t) /\ timer' \in BOOLEAN
      BY <2>2, Zenon DEF Write
    <3>2. t \in Rows /\ turns[t].op # "ping" /\ entry \in Entry
      BY <2>2, LastTurnIs, Types DEF IInv
    <3>3. turns[t].status # "stopped"
      BY <2>2 DEF IInv, Sound, BootRows
    <3>4. turns[t].status \in {"queued"} \union Unanswered
      BY <1>3, <3>2, <3>3, Types DEF IInv, Turn, Running, Unanswered, Ended
    <3> HIDE DEF t
    <3>5. QED
      BY <3>1, <3>2, <3>4, CarryOnIs DEF IInv
  <2>3. QED
    BY <1>5, <2>1, <2>2
<1>7. past' \in Past /\ past'.cancelled = past.cancelled
  <2>1. past' = past \/ \E n \in {0, 1} : past' = [NewRow EXCEPT !.lost = n]
    BY Zenon DEF StartPlans
  <2>2. CASE past' = past
    BY <2>2, Types DEF IInv
  <2>3. ASSUME NEW n \in {0, 1}, past' = [NewRow EXCEPT !.lost = n]
        PROVE  past' \in Past /\ past'.cancelled = past.cancelled
    BY <2>3, PastIs DEF IInv, Past
  <2>4. QED
    BY <2>1, <2>2, <2>3
<1>8. TypeOK'
  <2>1. TypeOK /\ Rows' = Rows /\ entry' \in Entry /\ timer' \in BOOLEAN /\ past' \in Past /\ crashed' \in 0..MaxTurns
    BY <1>1, <1>6, <1>7, Types, SameRows DEF IInv
  <2>2. QED
    BY <1>1, <1>2, <2>1 DEF TypeOK, Past
<1>9. OneOpen' /\ Continuations' /\ NoneWaits'
  BY <1>1, KeepsTurns DEF IInv
<1>10. PlanRows' /\ (entry'.plan.out => entry' = entry)
  <2> HIDE DEF t
  <2>1. QED
    BY <1>1, <1>6, EntryMoves
<1>11. MarkRows'
  BY <1>1, <1>3, <1>10, SameRows DEF MarkRows, IInv, Sound
<1>12. EndRows' /\ BootRows' /\ RecRows'
  BY <1>1, <1>3, SameRows DEF EndRows, BootRows, RecRows, IInv, Sound
<1>13. CancelRows'
  <2>1. ASSUME t \in past.cancelled, ~archived
        PROVE  turns[t].status = "stopped" \/ (entry' = entry /\ entry.handled = t /\ ~Planned)
    BY <1>6, <2>1 DEF CancelRows, IInv, Sound
  <2>2. QED
    BY <1>1, <1>7, <2>1, SameRows DEF CancelRows, InEnd, Planned, IInv, Sound
<1>14. QED
  BY <1>8, <1>9, <1>10, <1>11, <1>12, <1>13 DEF IInv, Sound

LEMMA ContinueStep ==
  ASSUME IInv, NEW t \in Rows, Continue(t)
  PROVE  IInv'
<1>1. /\ core = "up" /\ firing = NotFiring /\ todo' = todo \ {t}
      /\ UNCHANGED <<archived, selection, optIn, entry, onPurpose, work, core, cut, crashed, cutWork, timer, firing,
                     after, reading, window, cores, acts, past>>
  BY Zenon DEF Continue, Free
<1>2. ~entry.plan.out
  BY <1>1, NoneOut
<1>3. CASE UNCHANGED turns /\ rec' \subseteq rec
  <2>1. TypeOK'
    <3>1. Rows' = Rows /\ todo' \subseteq Rows /\ rec' \subseteq Rows
      BY <1>1, <1>3, Types, SameRows DEF IInv
    <3>2. QED
      BY <1>1, <1>3, <3>1 DEF TypeOK, Past, IInv
  <2>2. OneOpen' /\ Continuations' /\ NoneWaits' /\ PlanRows' /\ MarkRows' /\ BootRows'
    BY <1>1, <1>3, KeepsTurns, KeepsPlan, KeepsMark, KeepsBoot DEF IInv
  <2>3. EndRows' /\ RecRows' /\ CancelRows'
    BY <1>1, <1>3, SameRows DEF EndRows, RecRows, CancelRows, InEnd, Planned, IInv, Sound
  <2>4. QED
    BY <2>1, <2>2, <2>3 DEF IInv, Sound
<1>4. CASE /\ ~archived /\ turns[t].status = "stopped" /\ ~Busy /\ rec' = rec
           /\ Len(turns) < MaxTurns /\ turns' = Append(turns, Row("resume", t, "handoff"))
  <2>1. Adds("resume", t, "handoff")
    <3>1. t \in 0..MaxTurns
      BY Types DEF IInv
    <3>2. QED
      BY <1>4, <3>1, RowAdded DEF IInv
  <2>2. /\ Rows' = Rows \union {Len(turns')} /\ Len(turns') \notin Rows
        /\ Active' = {Len(turns')} /\ Running' = {} /\ LastTurn' = Len(turns')
    BY <1>4, <2>1, AddedRows DEF IInv
  <2>3. TypeOK'
    <3>1. Rows \subseteq Rows' /\ turns' \in Seq(Turn) /\ Len(turns') <= MaxTurns /\ TypeOK
      BY <2>1, TypesAdded DEF IInv
    <3>2. rec' = rec
      BY <1>4
    <3>3. QED
      BY <1>1, <3>1, <3>2 DEF TypeOK, Past
  <2>4. OneOpen' /\ NoneWaits' /\ Continuations'
    BY <1>1, <1>4, <2>1, AddsKeep
  <2>5. PlanRows'
    BY <1>1, <2>1, <2>2 DEF IInv, Sound, PlanRows, Planned, Adds
  <2>6. MarkRows'
    BY <1>1, <1>2, <2>1, Types DEF IInv, MarkRows, Adds, NotFiring
  <2>7. EndRows'
    BY <1>1, <1>4, <2>1, <2>2, Types DEF IInv, Sound, EndRows, Adds
  <2>8. BootRows'
    BY <1>1 DEF IInv, Sound, BootRows
  <2>9. RecRows'
    BY <1>1, <1>4, <2>1, <2>2, Types DEF IInv, Sound, RecRows, Adds
  <2>10. CancelRows'
    BY <1>1, <1>4, <2>1, <2>2, Types DEF IInv, Sound, CancelRows, Adds, InEnd, Active
  <2>11. QED
    BY <2>3, <2>4, <2>5, <2>6, <2>7, <2>8, <2>9, <2>10 DEF IInv, Sound
<1>5. QED
  <2>1. \/ UNCHANGED turns /\ rec' \in {rec, rec \ {t}}
        \/ /\ ~archived /\ turns[t].status = "stopped" /\ ~Busy /\ rec' = rec
           /\ Len(turns) < MaxTurns /\ turns' = Append(turns, Row("resume", t, "handoff"))
    BY Zenon DEF Continue
  <2>2. QED
    BY <1>3, <1>4, <2>1

-----------------------------------------------------------------------------
(* What a step may add to the rows                                         *)

Kept == Len(turns') = Len(turns) /\ \A t \in Rows : turns'[t].of = turns[t].of

\* A row is added for no turn, or for one that none continues and nobody cancelled.
AddsFresh(of) ==
  /\ \E op \in {"user", "wake", "ping", "resume"}, by \in {"none", "limit", "carry", "handoff"} : Adds(op, of, by)
  /\ of \notin past.cancelled
  /\ of # 0 => \A u \in Rows : turns[u].of # of

LEMMA AdmitAdds ==
  ASSUME IInv, NEW op \in Ops, Admit(op)
  PROVE  AddsFresh(0)
<1>1. Len(turns) < MaxTurns /\ turns' = Append(turns, Row(op, 0, "none"))
  BY Zenon DEF Admit
<1>2. op \in {"user", "wake", "ping", "resume"} /\ 0 \in 0..MaxTurns
  BY BoundsAssumption
<1>3. Adds(op, 0, "none")
  BY <1>1, <1>2, RowAdded DEF IInv
<1>4. 0 \notin past.cancelled
  BY Types DEF IInv
<1>5. QED
  BY <1>2, <1>3, <1>4 DEF AddsFresh

\* The turn of a marked plan is the last, and a resume of it would come later.
LEMMA FireAdds ==
  ASSUME IInv, FireStarts
  PROVE  Kept \/ \E of : AddsFresh(of)
<1> DEFINE p == entry.plan.turn
<1>1. firing.at = "marked"
  BY Zenon DEF FireStarts
<1>2. /\ p \in Rows /\ entry.plan.reason \in {"limit", "carry"}
      /\ LastTurn \notin past.cancelled /\ LastTurn = p
  BY <1>1, MarkedPlan
<1>3. CASE UNCHANGED turns
  BY <1>3 DEF Kept
<1>4. CASE Len(turns) < MaxTurns /\ turns' = Append(turns, Row("resume", p, entry.plan.reason))
  <2>1. p \in 0..MaxTurns /\ entry.plan.reason \in {"none", "limit", "carry", "handoff"}
    BY <1>2, Types DEF IInv
  <2>2. Adds("resume", p, entry.plan.reason)
    BY <1>4, <2>1, RowAdded DEF IInv
  <2>3. ASSUME NEW u \in Rows, turns[u].of = p
        PROVE  FALSE
    <3>1. turns[u].op = "resume" /\ p < u
      BY <1>2, <2>3, Types DEF IInv, Sound, Continuations
    <3>2. u <= p
      BY <1>2, <3>1, LastTurnIs DEF IInv
    <3>3. QED
      BY <1>2, <3>1, <3>2, Types DEF IInv
  <2>4. AddsFresh(p)
    BY <1>2, <2>1, <2>2, <2>3 DEF AddsFresh
  <2>5. QED
    BY <2>4
<1>5. QED
  BY <1>3, <1>4, Zenon DEF FireStarts

\* A turn the handoff continues was stopped: only the handoff continues such a turn.
LEMMA ContinueAdds ==
  ASSUME IInv, NEW t \in Rows, Continue(t)
  PROVE  Kept \/ \E of : AddsFresh(of)
<1>1. CASE UNCHANGED turns
  BY <1>1 DEF Kept
<1>2. CASE /\ t \in rec /\ turns[t].status = "stopped" /\ Requested(t, "handoff") = {}
           /\ Len(turns) < MaxTurns /\ turns' = Append(turns, Row("resume", t, "handoff"))
  <2>1. t \in 0..MaxTurns
    BY Types DEF IInv
  <2>2. Adds("resume", t, "handoff")
    BY <1>2, <2>1, RowAdded DEF IInv
  <2>3. ASSUME NEW u \in Rows, turns[u].of = t
        PROVE  FALSE
    <3>1. turns[t].status \in IF turns[u].by = "handoff" THEN {"stopped"} ELSE Unanswered
      BY <2>3, Types DEF IInv, Sound, Continuations
    <3>2. turns[u].by = "handoff"
      BY <1>2, <3>1 DEF Unanswered, Failed
    <3>3. QED
      BY <1>2, <2>3, <3>2 DEF Requested
  <2>4. t \notin past.cancelled
    BY <1>2 DEF IInv, Sound, CancelRows
  <2>5. AddsFresh(t)
    BY <2>2, <2>3, <2>4 DEF AddsFresh
  <2>6. QED
    BY <2>5
<1>3. QED
  BY <1>1, <1>2, Zenon DEF Continue

LEMMA OthersKeep ==
  ASSUME IInv,
         \/ \E t \in Rows : Starts(t)
         \/ \E t \in Rows, o \in Outcomes \union {"stopped"} : TurnEnds(t, o)
         \/ Finished \/ BackgroundLost \/ \E t \in Rows : QuotaRead(t)
         \/ UserStep \/ WindowPasses
         \/ FireYields \/ FireMarks \/ FireSettles \/ \E card \in BOOLEAN : FireRefused(card)
         \/ ShutDown \/ HandOver \/ Dies
         \/ \E recent, fresh \in BOOLEAN : Recover(recent, fresh)
         \/ ArmPlans \/ StartPlans \/ UNCHANGED vars
  PROVE  Kept
<1>1. Moves => Kept
  BY DEF Moves, Kept
<1>2. UNCHANGED turns => Kept
  BY DEF Kept
<1>3. ASSUME NEW t \in Rows, Starts(t)
      PROVE  Kept
  <2>1. t \in Active /\ turns' = [turns EXCEPT ![t].status = "running"]
    BY <1>3, Zenon DEF Starts
  <2>2. QED
    BY <1>1, <2>1, StatusMoved DEF IInv
<1>4. ASSUME NEW t \in Rows, NEW o \in Outcomes \union {"stopped"}, TurnEnds(t, o)
      PROVE  Kept
  <2>1. t \in Active /\ turns' = [turns EXCEPT ![t].status = StatusOf(o)]
    BY <1>4, SMT DEF TurnEnds, Running, Active, Ended, Failed
  <2>2. StatusOf(o) \in {"queued", "running"} \union Ended
    BY DEF StatusOf, Ended, Failed
  <2>3. QED
    BY <1>1, <2>1, <2>2, StatusMoved DEF IInv
<1>5. Stop \/ Archive => Kept
  <2>1. ASSUME Stop \/ Archive
        PROVE  turns' = [t \in Rows |-> IF t \in Active \ Running
                                       THEN [turns[t] EXCEPT !.status = "stopped"] ELSE turns[t]]
    BY <2>1, Zenon DEF Stop, Archive
  <2>2. QED
    BY <1>1, <2>1, WaitingStopped DEF IInv
<1>6. FireYields => Kept
  <2>1. ASSUME FireYields
        PROVE  turns' = [t \in Rows |-> IF t \in Pinging \ Running
                                       THEN [turns[t] EXCEPT !.status = "stopped"] ELSE turns[t]]
    BY <2>1, Zenon DEF FireYields
  <2>2. Pinging \subseteq Active
    BY DEF Pinging
  <2>3. QED
    BY <1>1, <2>1, <2>2, WaitingStopped DEF IInv
<1>7. ASSUME NEW recent \in BOOLEAN, NEW fresh \in BOOLEAN, Recover(recent, fresh)
      PROVE  Kept
  BY <1>1, <1>7, Recovered
<1>8. CancelRetry \/ Unarchive \/ Select \/ OptOut => UNCHANGED turns
  BY Zenon DEF CancelRetry, Unarchive, Select, OptOut
<1>9. Finished \/ BackgroundLost \/ WindowPasses \/ FireMarks \/ FireSettles => UNCHANGED turns
  BY Zenon DEF Finished, BackgroundLost, WindowPasses, FireMarks, FireSettles, journal
<1>10. (\E t \in Rows : QuotaRead(t)) \/ (\E card \in BOOLEAN : FireRefused(card)) => UNCHANGED turns
  BY Zenon DEF QuotaRead, FireRefused
<1>11. ShutDown \/ HandOver \/ Dies \/ ArmPlans \/ StartPlans => UNCHANGED turns
  BY Zenon DEF ShutDown, HandOver, Dies, ArmPlans, StartPlans, journal
<1>12. UNCHANGED vars => UNCHANGED turns
  BY Zenon DEF vars, journal
<1>13. QED
  BY <1>2, <1>3, <1>4, <1>5, <1>6, <1>7, <1>8, <1>9, <1>10, <1>11, <1>12 DEF UserStep

LEMMA RowsGrow ==
  ASSUME IInv, [Next]_vars
  PROVE  Kept \/ \E of : AddsFresh(of)
<1>1. CASE \E op \in Ops : Admit(op)
  BY <1>1, AdmitAdds
<1>2. CASE FireStarts
  BY <1>2, FireAdds
<1>3. CASE \E t \in Rows : Continue(t)
  BY <1>3, ContinueAdds
<1>4. QED
  BY <1>1, <1>2, <1>3, OthersKeep DEF Next, TurnStep, FireStep, BootStep

-----------------------------------------------------------------------------
(* The theorems                                                            *)

LEMMA Initially == Init => IInv
<1> SUFFICES ASSUME Init
             PROVE  IInv
  OBVIOUS
<1>1. /\ turns = <<>> /\ entry = NoEntry /\ rec = {} /\ core = "up" /\ crashed = 0 /\ todo = {}
      /\ firing = NotFiring /\ after = NoAfter /\ reading = {} /\ work = "none"
      /\ selection = 1 /\ window = 1 /\ cores = 1 /\ acts = 0
      /\ past = [stopped |-> {}, cancelled |-> {}, onPurpose |-> {}, row |-> 0, lost |-> 0]
  BY Zenon DEF Init, NoAfter
<1>2. /\ archived \in BOOLEAN /\ ~archived /\ optIn \in BOOLEAN /\ onPurpose \in BOOLEAN
      /\ cut \in BOOLEAN /\ cutWork \in BOOLEAN /\ timer \in BOOLEAN
  BY Zenon DEF Init
<1>3. Rows = {} /\ turns \in Seq(Turn) /\ Len(turns) = 0
  BY <1>1 DEF Rows
<1>4. entry \in Entry /\ entry.plan = NoPlan
  BY <1>1, NoPlanIs, BoundsAssumption DEF NoEntry, Entry
<1>5. TypeOK
  <2>1. firing \in Call /\ after \in End /\ past \in Past /\ crashed \in 0..MaxTurns
    BY <1>1, BoundsAssumption DEF Call, End, Past, NotFiring, NoAfter
  <2>2. QED
    BY <1>1, <1>2, <1>3, <1>4, <2>1, BoundsAssumption DEF TypeOK
<1>6. OneOpen /\ NoneWaits /\ Continuations /\ PlanRows
  BY <1>2, <1>3, <1>4 DEF OneOpen, NoneWaits, Continuations, PlanRows, Planned, Active
<1>7. MarkRows
  BY <1>1, <1>3, <1>4, NoPlanIs DEF MarkRows, NotFiring
<1>8. EndRows /\ BootRows /\ RecRows /\ CancelRows
  BY <1>1 DEF EndRows, BootRows, RecRows, CancelRows
<1>9. QED
  BY <1>5, <1>6, <1>7, <1>8 DEF IInv, Sound

LEMMA Steps ==
  ASSUME IInv, [Next]_vars
  PROVE  IInv'
<1>1. CASE TurnStep
  BY <1>1, AdmitStep, StartsStep, TurnEndsStep, FinishedStep, BackgroundLostStep, QuotaReadStep DEF TurnStep
<1>2. CASE UserStep
  BY <1>2, StopStep, CancelRetryStep, ArchiveStep, UnarchiveStep, WindowOrSelectStep, OptOutStep DEF UserStep
<1>3. CASE FireStep
  BY <1>3, FireYieldsStep, FireMarksStep, FireStartsStep, FireSettlesStep, FireRefusedStep DEF FireStep
<1>4. CASE BootStep
  BY <1>4, RecoverStep, ArmPlansStep, StartPlansStep, ContinueStep DEF BootStep
<1>5. CASE WindowPasses \/ ShutDown \/ HandOver \/ Dies
  BY <1>5, WindowOrSelectStep, LeavesStep, DiesStep
<1>6. CASE UNCHANGED vars
  <2>1. UNCHANGED <<turns, archived, selection, optIn, entry, onPurpose, work, rec, core, cut, crashed, cutWork,
                    todo, timer, firing, after, reading, window, cores, acts, past>>
    BY <1>6, Zenon DEF vars, journal, memory
  <2>2. TypeOK'
    BY <2>1, SameRows DEF TypeOK, Past, IInv
  <2>3. OneOpen' /\ Continuations' /\ NoneWaits' /\ PlanRows' /\ MarkRows' /\ EndRows' /\ BootRows'
        /\ RecRows' /\ CancelRows'
    BY <2>1, KeepsTurns, KeepsPlan, KeepsMark, KeepsEnd, KeepsBoot, KeepsRec, KeepsCancelled DEF IInv
  <2>4. QED
    BY <2>2, <2>3 DEF IInv, Sound
<1>7. QED
  BY <1>1, <1>2, <1>3, <1>4, <1>5, <1>6 DEF Next

\* The types and the rows above hold over any chain of cores: one turn open at a
\* time, and each ended turn, plan, mark and entry of the handoff as it says.
THEOREM Inductive == Spec => []IInv
BY Initially, Steps, PTL DEF Spec

LEMMA OnceSteps ==
  ASSUME IInv, ResumedOnce, [Next]_vars
  PROVE  ResumedOnce'
<1>1. CASE Kept
  BY <1>1 DEF Kept, ResumedOnce, Rows
<1>2. ASSUME NEW of, AddsFresh(of)
      PROVE  ResumedOnce'
  <2>1. /\ Rows' = Rows \union {Len(turns')} /\ \A t \in Rows : turns'[t] = turns[t]
        /\ turns'[Len(turns')].of = of
    BY <1>2, Types DEF AddsFresh, Adds, IInv, Rows
  <2>2. QED
    BY <1>2, <2>1 DEF AddsFresh, ResumedOnce
<1>3. QED
  BY <1>1, <1>2, RowsGrow

\* Whatever is planned, handed over, stopped, recovered and planned again, over
\* any chain of cores: a turn has one resume at most (threads/resume.ts,
\* threads/auto-continue.ts, threads/handoff.ts).
THEOREM Once == Spec => []ResumedOnce
<1>1. Init => ResumedOnce
  BY DEF Init, ResumedOnce, Rows
<1>2. QED
  BY <1>1, Inductive, OnceSteps, PTL DEF Spec

LEMMA CancelSteps ==
  ASSUME IInv, [Next]_vars
  PROVE  \A t \in DOMAIN turns' \ Rows : turns'[t].of \notin past.cancelled
<1>1. CASE Kept
  <2>1. TypeOK'
    BY Steps DEF IInv
  <2>2. turns' \in Seq(Turn)
    BY <2>1 DEF TypeOK
  <2>3. DOMAIN turns' = 1..Len(turns')
    BY <2>2
  <2>4. QED
    BY <1>1, <2>3 DEF Kept, Rows
<1>2. ASSUME NEW of, AddsFresh(of)
      PROVE  \A t \in DOMAIN turns' \ Rows : turns'[t].of \notin past.cancelled
  <2>1. turns' \in Seq(Turn) /\ Len(turns') = Len(turns) + 1 /\ turns'[Len(turns')].of = of
    BY <1>2 DEF AddsFresh, Adds
  <2>2. DOMAIN turns' = 1..Len(turns')
    BY <2>1
  <2>3. \A t \in DOMAIN turns' \ Rows : t = Len(turns')
    BY <2>1, <2>2, Types DEF IInv
  <2>4. QED
    BY <1>2, <2>1, <2>3 DEF AddsFresh
<1>3. QED
  BY <1>1, <1>2, RowsGrow

\* No turn is added that continues one whose resume the user cancelled, by a
\* Stop, by cancelling the wait, by turning the resumes off or by an archive, as
\* long as the thread is not brought back: not by what the journal keeps, lost
\* work, the handoff's record or a later core.
THEOREM CancelledStays == Spec => CancelledStaysCancelled
<1>1. IInv /\ [Next]_vars => [\A t \in DOMAIN turns' \ Rows : turns'[t].of \notin past.cancelled]_vars
  BY CancelSteps
<1>2. QED
  BY <1>1, Inductive, PTL DEF Spec, CancelledStaysCancelled

\* Every variable keeps its type, the rows of resumes within the delays there are.
THEOREM TypeCorrect == Spec => []TypeOK
BY Inductive, PTL DEF IInv
-----------------------------------------------------------------------------
(* What a core stopped on purpose left                                     *)

\* A turn it left, running or stopped, is closed and nothing has it at hand.
Over(t) ==
  /\ turns[t].status \in {"stopped", "error"} \/ (turns[t].status = "running" /\ core = "down" /\ onPurpose)
  /\ t \notin rec \union reading /\ t # crashed
  /\ Planned => entry.plan.turn # t
  /\ after.turn = t => after.outcome = "stopped"
  /\ \A u \in Rows : turns[u].of # t

\* The note of such a core is read by the next one, which takes no work of it
\* for cut.
PurposeRows ==
  /\ onPurpose => core # "up" /\ rec \intersect Running = {}
  /\ past.onPurpose # {} /\ core = "down" /\ ~onPurpose => work # "live"
  /\ past.onPurpose # {} /\ core \in {"recovered", "armed"} => ~(cut /\ cutWork)
  /\ \A t \in past.onPurpose : Over(t)

LEMMA PurposeIs ==
  ASSUME IInv, PurposeRows, NEW t \in past.onPurpose
  PROVE  /\ t \in Rows /\ t # 0 /\ Over(t)
         /\ core # "down" => turns[t].status \in {"stopped", "error"} /\ t \notin Active
BY Types DEF IInv, PurposeRows, Over, Past, Active, Ended, Failed

\* A running turn is in nobody's hands but the agent's.
LEMMA RunningIs ==
  ASSUME IInv, NEW t \in Running
  PROVE  /\ t \in Rows /\ t \notin reading /\ t # crashed /\ after.turn # t
         /\ Planned => entry.plan.turn # t
         /\ \A u \in Rows : turns[u].of # t
<1>1. t \in Rows /\ turns[t].status = "running" /\ t # 0
  BY Types DEF IInv, Running
<1>2. t \notin reading /\ t # crashed
  BY <1>1 DEF IInv, Sound, EndRows, BootRows
<1>3. after.turn # t
  <2>1. after # NoAfter => turns[after.turn].status = StatusOf(after.outcome)
    BY DEF IInv, Sound, EndRows
  <2>2. QED
    BY <1>1, <2>1 DEF StatusOf, NoAfter
<1>4. Planned => entry.plan.turn # t
  BY <1>1 DEF IInv, Sound, PlanRows, Unanswered, Failed
<1>5. \A u \in Rows : turns[u].of # t
  BY <1>1 DEF IInv, Sound, Continuations, Unanswered, Failed
<1>6. QED
  BY <1>1, <1>2, <1>3, <1>4, <1>5

\* A step that leaves what ended as it is, and takes such a turn nowhere.
LEMMA OverKept ==
  ASSUME IInv, NEW t \in Rows, Over(t), turns[t].status \in {"stopped", "error"},
         Moves \/ UNCHANGED turns, rec' \subseteq rec \union Active, t \notin reading',
         crashed' \in {0, crashed} \union Running, after' \in {after, NoAfter},
         Planned' => entry'.plan.turn # t
  PROVE  Over(t)'
<1>1. t # 0 /\ t \notin Active /\ t \notin Running
  BY Types DEF IInv, Active, Running, Ended, Failed
<1>2. Rows' = Rows /\ turns'[t].status = turns[t].status /\ \A u \in Rows : turns'[u].of = turns[u].of
  BY <1>1, MovedRows, SameRows DEF IInv, Moves
<1>3. after'.turn = t => after'.outcome = "stopped"
  BY <1>1 DEF Over, NoAfter
<1>4. QED
  BY <1>1, <1>2, <1>3 DEF Over

LEMMA OverAdded ==
  ASSUME IInv, NEW t \in Rows, Over(t), turns[t].status \in {"stopped", "error"},
         NEW op, NEW of, NEW by, Adds(op, of, by), of # t,
         UNCHANGED <<entry, rec, reading, crashed, after>>
  PROVE  Over(t)'
<1>1. turns'[t] = turns[t] /\ \A u \in Rows' : u \in Rows \/ turns'[u].of = of
  <2>1. Len(turns) \in Nat /\ Len(turns') = Len(turns) + 1 /\ turns'[Len(turns')].of = of
    BY Types DEF IInv, Adds
  <2>2. \A u \in Rows' : u \in Rows \/ u = Len(turns')
    BY <2>1 DEF Rows
  <2>3. QED
    BY <2>1, <2>2 DEF Adds
<1>2. \A u \in Rows' : turns'[u].of # t
  BY <1>1 DEF Over, Adds
<1>3. QED
  BY <1>1, <1>2 DEF Over, Planned

\* A plan dropped or made for another turn.
LEMMA OtherPlan ==
  ASSUME NEW t, Over(t), entry' = entry \/ entry'.plan = NoPlan \/ (\E u : PlansFor(entry', u) /\ u # t)
  PROVE  Planned' => entry'.plan.turn # t
BY DEF Over, Planned, PlansFor

\* A step of a core that is up, or is told to stop.
LEMMA UpKeeps ==
  ASSUME PurposeRows, core = "up", core' = "up" \/ (core' = "stopping" /\ (onPurpose' => rec' \intersect Running' = {})),
         onPurpose' = onPurpose \/ core' = "stopping", past'.onPurpose = past.onPurpose,
         \A t \in past.onPurpose : Over(t)'
  PROVE  PurposeRows'
BY DEF PurposeRows

\* The steps of a core that is up, and of one told to stop, that add no row.
LEMMA PurposeTurns ==
  ASSUME IInv, PurposeRows, NEW t \in Rows,
         Starts(t) \/ QuotaRead(t) \/ BackgroundLost
  PROVE  PurposeRows'
<1>1. /\ core = "up" /\ UNCHANGED <<core, onPurpose, crashed, after>> /\ reading' \subseteq reading
      /\ rec' \subseteq rec
  BY Zenon DEF Starts, QuotaRead, BackgroundLost, Free
<1>2. Moves \/ UNCHANGED turns
  <2>1. CASE Starts(t)
    <3>1. t \in Active /\ turns' = [turns EXCEPT ![t].status = "running"]
      BY <2>1, Zenon DEF Starts
    <3>2. QED
      BY <3>1, StatusMoved DEF IInv
  <2>2. CASE QuotaRead(t) \/ BackgroundLost
    BY <2>2, Zenon DEF QuotaRead, BackgroundLost
  <2>3. QED
    BY <2>1, <2>2
<1>3. past'.onPurpose = past.onPurpose
  <2>1. past' \in {past, NewRow, [past EXCEPT !.row = @ + 1]}
    BY Zenon DEF Starts, QuotaRead, BackgroundLost
  <2>2. past \in Past
    BY Types DEF IInv
  <2>3. QED
    BY <2>1, <2>2 DEF NewRow, Past
<1>4. \/ entry' = entry \/ entry'.plan = NoPlan
      \/ \E u \in Rows : PlansFor(entry', u) /\ (u \in reading \/ turns[u].status = "done")
  <2>1. entry \in Entry /\ TypeOK
    BY Types DEF IInv
  <2>2. CASE Starts(t)
    <3>1. entry' \in {entry, Forgotten(entry), Cancelled(entry)}
      BY <2>2, Zenon DEF Starts, Write
    <3>2. QED
      BY <2>1, <3>1, ForgottenIs, CancelledIs
  <2>3. CASE QuotaRead(t)
    <3>1. t \in reading /\ (entry' = entry \/ \E w \in Windows : entry' = LimitPlan(entry, t, w))
      BY <2>3, Zenon DEF QuotaRead, Write
    <3>2. QED
      BY <2>1, <3>1, LimitPlanIs
  <2>4. CASE BackgroundLost
    <3>1. \/ entry' = entry
          \/ LastTurn # 0 /\ turns[LastTurn].status = "done" /\ entry' = CarryOn(entry, LastTurn)
      BY <2>4, Zenon DEF BackgroundLost, Write
    <3>2. LastTurn # 0 => LastTurn \in Rows
      BY LastTurnIs, Types DEF IInv
    <3>3. CASE LastTurn # 0 /\ turns[LastTurn].status = "done" /\ entry' = CarryOn(entry, LastTurn)
      <4>1. \/ entry' = entry \/ entry'.plan = NoPlan
            \/ PlansFor(entry', LastTurn)
        BY <2>1, <3>2, <3>3, CarryOnIs
      <4>2. QED
        BY <3>2, <3>3, <4>1
    <3>4. QED
      BY <3>1, <3>3
  <2>5. QED
    BY <2>2, <2>3, <2>4
<1>5. ASSUME NEW o \in past.onPurpose
      PROVE  Over(o)'
  <2>1. o \in Rows /\ Over(o) /\ turns[o].status \in {"stopped", "error"} /\ o \notin reading
    BY <1>1, PurposeIs DEF Over
  <2>2. Planned' => entry'.plan.turn # o
    BY <1>4, <2>1, OtherPlan
  <2>3. QED
    BY <1>1, <1>2, <2>1, <2>2, OverKept
<1>6. QED
  BY <1>1, <1>3, <1>5, UpKeeps

LEMMA PurposeUser ==
  ASSUME IInv, PurposeRows, UserStep \/ FireYields \/ FireMarks \/ FireSettles \/ (\E card \in BOOLEAN : FireRefused(card))
  PROVE  PurposeRows'
<1>1. /\ core = "up" /\ UNCHANGED <<core, onPurpose, crashed, after, reading>> /\ rec' \subseteq rec
  BY Zenon DEF UserStep, Stop, CancelRetry, Archive, Unarchive, Select, OptOut, Acts, Free,
               FireYields, FireMarks, FireSettles, FireRefused, Due, journal, memory
<1>2. Moves \/ UNCHANGED turns
  <2>1. CASE Stop \/ Archive
    <3>1. turns' = [t \in Rows |-> IF t \in Active \ Running
                                   THEN [turns[t] EXCEPT !.status = "stopped"] ELSE turns[t]]
      BY <2>1, Zenon DEF Stop, Archive
    <3>2. QED
      BY <3>1, WaitingStopped DEF IInv
  <2>2. CASE FireYields
    <3>1. turns' = [t \in Rows |-> IF t \in Pinging \ Running
                                   THEN [turns[t] EXCEPT !.status = "stopped"] ELSE turns[t]]
      BY <2>2, Zenon DEF FireYields
    <3>2. Pinging \subseteq Active
      BY DEF Pinging
    <3>3. QED
      BY <3>1, <3>2, WaitingStopped DEF IInv
  <2>3. CASE CancelRetry \/ Unarchive \/ Select \/ OptOut \/ FireMarks \/ FireSettles
             \/ (\E card \in BOOLEAN : FireRefused(card))
    BY <2>3, Zenon DEF CancelRetry, Unarchive, Select, OptOut, FireMarks, FireSettles, FireRefused
  <2>4. QED
    BY <2>1, <2>2, <2>3 DEF UserStep
<1>3. past'.onPurpose = past.onPurpose
  <2>1. past \in Past
    BY Types DEF IInv
  <2>2. Stop => past' = [past EXCEPT !.stopped = @ \union Active, !.cancelled = @ \union PlanTurn \union rec]
    BY Zenon DEF Stop
  <2>3. Archive => past' = [NewRow EXCEPT !.stopped = @ \union Active, !.cancelled = @ \union PlanTurn]
    BY Zenon DEF Archive
  <2>4. CancelRetry \/ OptOut => past' = past \/ past' = [past EXCEPT !.cancelled = @ \union PlanTurn]
    BY Zenon DEF CancelRetry, OptOut
  <2>5. Unarchive => past' = [past EXCEPT !.cancelled = {}]
    BY Zenon DEF Unarchive
  <2>6. FireYields => past' = [past EXCEPT !.stopped = @ \union Pinging]
    BY Zenon DEF FireYields
  <2>7. Select \/ FireMarks \/ FireSettles \/ (\E card \in BOOLEAN : FireRefused(card)) => past' = past
    BY Zenon DEF Select, FireMarks, FireSettles, FireRefused
  <2>8. QED
    BY <2>1, <2>2, <2>3, <2>4, <2>5, <2>6, <2>7 DEF UserStep, Past, NewRow
<1>4. entry' = entry \/ entry'.plan = NoPlan \/ (Planned /\ entry'.plan.turn = entry.plan.turn)
  <2>1. entry \in Entry
    BY Types DEF IInv
  <2>2. CASE Stop \/ CancelRetry \/ Archive \/ OptOut \/ (\E card \in BOOLEAN : FireRefused(card))
    <3>1. entry' \in {entry, Cancelled(entry)}
      BY <2>2, Zenon DEF Stop, CancelRetry, Archive, OptOut, FireRefused, Write
    <3>2. QED
      BY <2>1, <3>1, CancelledIs
  <2>3. CASE Unarchive \/ Select \/ FireYields
    BY <2>3, Zenon DEF Unarchive, Select, FireYields
  <2>4. CASE FireMarks
    <3>1. Planned /\ entry' = [entry EXCEPT !.plan.out = TRUE]
      BY <2>4, Zenon DEF FireMarks, Write, Due
    <3>2. QED
      BY <2>1, <3>1 DEF Entry, Plan
  <2>5. CASE FireSettles
    <3>1. firing.at = "sent" /\ entry' = Settled(entry, firing.turn)
      BY <2>5, Zenon DEF FireSettles, Write
    <3>2. entry.plan.out /\ firing.turn \in 0..MaxTurns
      BY <3>1, Types DEF IInv, Sound, MarkRows
    <3>3. entry.plan.reason # "none" /\ (entry.plan.reason = "carry" => entry.streak < MaxStreak)
      BY <3>2, NoPlanIs DEF IInv, Sound, PlanRows, Planned
    <3>4. QED
      BY <2>1, <3>1, <3>2, <3>3, SettledIs
  <2>6. QED
    BY <2>2, <2>3, <2>4, <2>5 DEF UserStep
<1>5. ASSUME NEW o \in past.onPurpose
      PROVE  Over(o)'
  <2>1. o \in Rows /\ Over(o) /\ turns[o].status \in {"stopped", "error"}
    BY <1>1, PurposeIs
  <2>2. Planned' => entry'.plan.turn # o
    BY <1>4, <2>1 DEF Over, Planned
  <2>3. o \notin reading'
    BY <1>1, <2>1 DEF Over
  <2>4. QED
    BY <1>1, <1>2, <2>1, <2>2, <2>3, OverKept
<1>6. QED
  BY <1>1, <1>3, <1>5, UpKeeps

LEMMA PurposeEnds ==
  ASSUME IInv, PurposeRows, NEW t \in Rows, NEW o \in Outcomes \union {"stopped"}, TurnEnds(t, o)
  PROVE  PurposeRows'
<1>1. /\ core \in {"up", "stopping"} /\ t \in Running /\ rec' \subseteq rec
      /\ turns' = [turns EXCEPT ![t].status = StatusOf(o)] /\ after' = [turn |-> t, outcome |-> o]
      /\ past' = IF onPurpose /\ o = "stopped" THEN [past EXCEPT !.onPurpose = @ \union {t}] ELSE past
      /\ UNCHANGED <<entry, onPurpose, core, crashed, reading>>
  BY Zenon DEF TurnEnds
<1>2. Moves /\ turns'[t].status = StatusOf(o)
  <2>1. t \in Active /\ StatusOf(o) \in {"queued", "running"} \union Ended
    BY <1>1 DEF Running, Active, Ended, Failed, StatusOf
  <2>2. QED
    BY <1>1, <2>1, StatusMoved DEF IInv
<1>3. /\ Rows' = Rows /\ Running' \subseteq Running
      /\ \A u \in Rows : turns'[u].of = turns[u].of /\ (u # t => turns'[u].status = turns[u].status)
  <2>1. Rows' = Rows /\ \A u \in Rows : turns'[u].of = turns[u].of
    BY <1>2, MovedRows DEF Moves, IInv
  <2>2. \A u \in Rows \ {t} : turns'[u] = turns[u]
    BY <1>1, Types DEF IInv
  <2>3. QED
    BY <1>1, <2>1, <2>2 DEF Running
<1>4. past'.onPurpose = past.onPurpose
      \/ (past'.onPurpose = past.onPurpose \union {t} /\ onPurpose /\ o = "stopped")
  BY <1>1, Types DEF IInv, Past
<1>5. ASSUME NEW u \in past.onPurpose
      PROVE  Over(u)'
  <2>1. u \in Rows /\ Over(u) /\ turns[u].status \in {"stopped", "error"} /\ u # t
    BY <1>1, PurposeIs DEF Running
  <2>2. turns'[u].status \in {"stopped", "error"}
    BY <1>3, <2>1
  <2>3. QED
    BY <1>1, <1>3, <2>1, <2>2 DEF Over, Planned
<1>6. onPurpose /\ o = "stopped" => Over(t)'
  BY <1>1, <1>2, <1>3, RunningIs DEF Over, PurposeRows, Planned, StatusOf
<1>7. QED
  BY <1>1, <1>3, <1>4, <1>5, <1>6 DEF PurposeRows

LEMMA PurposeFinished ==
  ASSUME IInv, PurposeRows, Finished
  PROVE  PurposeRows'
<1> DEFINE t == after.turn
<1>1. /\ core \in {"up", "stopping"} /\ after # NoAfter /\ after' = NoAfter
      /\ UNCHANGED <<turns, core, onPurpose, rec, crashed>>
  BY Zenon DEF Finished
<1>2. t \in Rows /\ entry \in Entry /\ TypeOK
  BY <1>1, Types DEF IInv, Sound, EndRows
<1>3. past'.onPurpose = past.onPurpose
  <2>1. past' \in {past, NewRow} /\ past \in Past
    BY Types, Zenon DEF Finished, IInv
  <2>2. QED
    BY <2>1 DEF NewRow, Past
<1>4. /\ reading' = reading \/ (reading' = reading \union {t} /\ after.outcome = "limit")
      /\ entry' = entry \/ entry'.plan = NoPlan \/ (PlansFor(entry', t) /\ after.outcome # "stopped")
  <2>1. \/ UNCHANGED <<entry, reading>>
        \/ after.outcome = "limit" /\ reading' = reading \union {t} /\ entry' = entry
        \/ after.outcome = "limit" /\ reading' = reading /\ \E w \in Windows : entry' = LimitPlan(entry, t, w)
        \/ reading' = reading /\ entry' = AfterEnd(t, after.outcome)
    BY Zenon DEF Finished, Write
  <2> HIDE DEF t
  <2>2. ASSUME NEW w \in Windows, entry' = LimitPlan(entry, t, w)
        PROVE  entry' = entry \/ PlansFor(entry', t)
    BY <1>2, <2>2, LimitPlanIs
  <2>3. ASSUME entry' = AfterEnd(t, after.outcome)
        PROVE  entry' = entry \/ entry'.plan = NoPlan \/ (PlansFor(entry', t) /\ after.outcome # "stopped")
    BY <1>2, <2>3, AfterEndIs
  <2>4. QED
    BY <2>1, <2>2, <2>3
<1>5. ASSUME NEW u \in past.onPurpose
      PROVE  Over(u)'
  <2>1. u \in Rows /\ Over(u) /\ turns[u].status \in {"stopped", "error"}
    BY <1>1, PurposeIs
  <2>2. u = t => after.outcome = "stopped"
    BY <2>1 DEF Over
  <2>3. u \notin reading'
    BY <1>4, <2>1, <2>2 DEF Over
  <2>4. Planned' => entry'.plan.turn # u
    BY <1>4, <2>1, <2>2, OtherPlan
  <2>5. QED
    BY <1>1, <2>1, <2>3, <2>4, OverKept
<1>6. QED
  BY <1>1, <1>3, <1>5, SameRows DEF PurposeRows

LEMMA PurposeLeaves ==
  ASSUME IInv, PurposeRows, ShutDown \/ HandOver
  PROVE  PurposeRows'
<1>1. /\ core = "up" /\ core' = "stopping" /\ rec' \subseteq rec \union Active
      /\ UNCHANGED <<turns, entry, past, crashed, after, reading>>
      /\ (ShutDown /\ rec' = rec) \/ onPurpose' = onPurpose
  BY Zenon DEF ShutDown, HandOver, Free
<1>2. onPurpose' => rec' \intersect Running' = {}
  <2>1. ~onPurpose /\ rec \intersect Running = {}
    BY <1>1 DEF PurposeRows, IInv, Sound, RecRows, Running
  <2>2. QED
    BY <1>1, <2>1, SameRows
<1>3. ASSUME NEW u \in past.onPurpose
      PROVE  Over(u)'
  <2>1. u \in Rows /\ Over(u) /\ turns[u].status \in {"stopped", "error"}
    BY <1>1, PurposeIs
  <2>2. QED
    BY <1>1, <2>1, OverKept DEF Over, Planned
<1>4. QED
  BY <1>1, <1>2, <1>3 DEF PurposeRows

LEMMA PurposeDies ==
  ASSUME IInv, PurposeRows, Dies
  PROVE  PurposeRows'
<1>1. /\ core # "down" /\ core' = "down" /\ crashed' = 0 /\ after' = NoAfter /\ reading' = {}
      /\ past' = IF onPurpose THEN [past EXCEPT !.onPurpose = @ \union Running]
                 ELSE IF work = "live" THEN [past EXCEPT !.onPurpose = {}] ELSE past
      /\ UNCHANGED <<turns, entry, onPurpose, work, rec>>
  BY Zenon DEF Dies, journal
<1>2. past'.onPurpose = IF onPurpose THEN past.onPurpose \union Running
                        ELSE IF work = "live" THEN {} ELSE past.onPurpose
  BY <1>1, Types DEF IInv, Past
<1>3. ASSUME NEW u \in past.onPurpose
      PROVE  Over(u)'
  <2>1. u \in Rows /\ Over(u) /\ turns[u].status \in {"stopped", "error"}
    BY <1>1, PurposeIs
  <2>2. QED
    BY <1>1, <2>1, OverKept DEF Over, Planned
<1>4. ASSUME onPurpose, NEW u \in Running
      PROVE  Over(u)'
  <2>1. u \in Rows /\ u # 0 /\ turns[u].status = "running" /\ u \notin rec
    BY <1>4, Types DEF IInv, Running, PurposeRows
  <2>2. QED
    BY <1>1, <1>4, <2>1, RunningIs, SameRows DEF Over, Planned, NoAfter
<1>5. QED
  BY <1>1, <1>2, <1>3, <1>4, SameRows DEF PurposeRows

LEMMA PurposeRecovers ==
  ASSUME IInv, PurposeRows, NEW recent \in BOOLEAN, NEW fresh \in BOOLEAN, Recover(recent, fresh)
  PROVE  PurposeRows'
<1> DEFINE isCut == IsCut(recent)
<1> DEFINE kept == IF fresh THEN rec ELSE {}
<1> DEFINE owed == Owed(kept, isCut)
<1>1. /\ core = "down" /\ core' = "recovered" /\ cut' = isCut /\ cutWork' = (work = "live") /\ rec' = kept
      /\ crashed' = IF owed = {} THEN 0 ELSE CHOOSE t \in owed : TRUE
      /\ UNCHANGED <<entry, onPurpose, after, reading, past>>
  BY Zenon DEF Recover
<1>2. onPurpose => ~isCut /\ owed = {}
  BY DEF IsCut, Owed, Resumes
<1>3. onPurpose => ~cut' /\ crashed' = 0
  BY <1>1, <1>2
<1>4. rec' \subseteq rec
  BY <1>1
<1>5. \A t \in Running \ rec : onPurpose => turns'[t].status = "error"
  <2>1. SUFFICES ASSUME NEW t \in Running, t \notin rec, onPurpose
                 PROVE  turns'[t].status = "error"
    OBVIOUS
  <2>2. t \in Rows /\ t \in Active /\ turns[t] \in Turn
    BY <2>1, Types DEF IInv, Running, Active, Ended, Failed
  <2>3. turns'[t] = [turns[t] EXCEPT !.status = "error"]
    <3>1. t \notin kept /\ t \notin owed
      BY <1>2, <2>1
    <3> HIDE DEF kept, isCut, owed
    <3>2. turns' = [u \in Rows |-> IF u \in Active
                     THEN [turns[u] EXCEPT !.status =
                       IF u \in Running \cap kept THEN "stopped"
                       ELSE IF u \in owed THEN "told"
                       ELSE IF u \in Running \/ (turns[u].op # "user" /\ u \notin {w \in Active \ Running :
                              ~archived /\ (w \in kept \/ (turns[w].by = "handoff" /\ turns[w].of \in kept))}) THEN "error"
                       ELSE turns[u].status]
                     ELSE turns[u]]
      BY Zenon DEF Recover, kept, isCut, owed
    <3>3. QED
      BY <2>1, <2>2, <3>1, <3>2
  <2>4. QED
    BY <2>2, <2>3 DEF Turn
<1>6. /\ Moves /\ crashed' \in {0} \union Running /\ Rows' = Rows /\ Running' = {}
      /\ \A u \in Rows : u \in Active \/ turns'[u].status = turns[u].status
  <2>1. Moves /\ crashed' \in {0} \union Running /\ \A t \in Active : turns'[t].status # "running"
    <3>1. /\ Moves /\ crashed' \in {0} \union Running
          /\ \A t \in Running : turns'[t].status \in {"stopped"} \union Failed
          /\ \A t \in Active \ Running : turns'[t].status \in {"queued", "error"}
      BY Recovered
    <3>2. QED
      BY <3>1 DEF Failed
  <2>2. QED
    BY <2>1, MovedRows DEF IInv, Running
<1> HIDE DEF isCut, kept, owed
<1>7. ASSUME NEW t \in past.onPurpose
      PROVE  Over(t)'
  <2>1. t \in Rows /\ t # 0 /\ Over(t)
    BY PurposeIs
  <2>2. CASE turns[t].status \in {"stopped", "error"}
    BY <1>1, <1>4, <1>6, <2>1, <2>2, OverKept DEF Over, Planned
  <2>3. CASE turns[t].status = "running" /\ onPurpose
    <3>1. t \in Running /\ t \notin rec
      BY <2>1, <2>3 DEF Running, Over
    <3>2. turns'[t].status = "error" /\ crashed' # t
      BY <1>3, <1>5, <2>1, <2>3, <3>1
    <3>3. \A u \in Rows' : turns'[u].of # t
      BY <1>6, <2>1 DEF Over, Moves
    <3>4. QED
      BY <1>1, <1>4, <2>1, <3>2, <3>3 DEF Over, Planned
  <2>4. QED
    BY <2>1, <2>2, <2>3 DEF Over
<1>8. past.onPurpose # {} => ~(cut' /\ cutWork')
  <2>1. cut' => ~onPurpose
    BY <1>3
  <2>2. QED
    BY <1>1, <2>1 DEF PurposeRows
<1>9. QED
  BY <1>1, <1>6, <1>7, <1>8 DEF PurposeRows

LEMMA PurposeArms ==
  ASSUME IInv, PurposeRows, ArmPlans
  PROVE  PurposeRows'
<1>1. /\ core = "recovered" /\ core' = "armed"
      /\ entry' = IF archived THEN [NoEntry EXCEPT !.window = entry.window]
                  ELSE IF entry.plan.out THEN Settled(entry, 0) ELSE entry
      /\ past' \in {past, [past EXCEPT !.lost = @ + 1]}
      /\ UNCHANGED <<turns, onPurpose, rec, cut, cutWork, crashed, after, reading>>
  BY Zenon DEF ArmPlans, Write
<1>2. past'.onPurpose = past.onPurpose
  BY <1>1, Types DEF IInv, Past
<1>3. entry' = entry \/ entry'.plan = NoPlan
  <2>1. entry \in Entry /\ entry.window \in Nat /\ 0 \in 0..MaxTurns
    BY Types, BoundsAssumption DEF IInv, Entry
  <2>2. entry.plan.out => Settled(entry, 0).plan = NoPlan
    <3>1. entry.plan.out => /\ entry.plan.reason # "none"
                            /\ entry.plan.reason = "carry" => entry.streak < MaxStreak
      BY NoPlanIs DEF IInv, Sound, PlanRows, Planned
    <3>2. QED
      BY <2>1, <3>1, SettledIs
  <2>3. [NoEntry EXCEPT !.window = entry.window].plan = NoPlan
    BY <2>1, NoEntryIs
  <2>4. QED
    BY <1>1, <2>2, <2>3
<1>4. ASSUME NEW t \in past.onPurpose
      PROVE  Over(t)'
  <2>1. t \in Rows /\ Over(t) /\ turns[t].status \in {"stopped", "error"}
    BY <1>1, PurposeIs
  <2>2. Planned' => entry'.plan.turn # t
    BY <1>3, <2>1, OtherPlan
  <2>3. QED
    BY <1>1, <2>1, <2>2, OverKept DEF Over
<1>5. QED
  BY <1>1, <1>2, <1>4, SameRows DEF PurposeRows

\* The turn planned for is one told so, or the last one of a core whose work was cut.
LEMMA PurposeStarts ==
  ASSUME IInv, PurposeRows, StartPlans
  PROVE  PurposeRows'
<1> DEFINE t == LastTurn
<1>1. /\ core = "armed" /\ core' = "up" /\ ~onPurpose' /\ crashed' = 0
      /\ UNCHANGED <<turns, rec, after, reading>>
  BY Zenon DEF StartPlans
<1>2. past'.onPurpose = past.onPurpose
  <2>1. past' = past \/ \E n \in {0, 1} : past' = [NewRow EXCEPT !.lost = n]
    BY Zenon DEF StartPlans
  <2>2. QED
    BY <2>1, Types DEF IInv, Past, NewRow
<1>3. (IF crashed # 0 THEN crashed ELSE LastTurn) = t
  BY DEF IInv, Sound, BootRows
<1>4. \/ entry' = entry
      \/ /\ t # 0 /\ (crashed # 0 \/ (cut /\ cutWork)) /\ entry' = CarryOn(entry, t)
  BY <1>3, Zenon DEF StartPlans, Write
<1>5. \/ entry' = entry \/ entry'.plan = NoPlan
      \/ PlansFor(entry', t) /\ (t = crashed \/ (cut /\ cutWork))
  <2>1. t # 0 => t \in Rows
    BY LastTurnIs, Types DEF IInv
  <2>2. crashed # 0 => crashed = t
    BY <1>3
  <2>3. entry \in Entry /\ TypeOK
    BY Types DEF IInv
  <2> HIDE DEF t
  <2>4. QED
    BY <1>4, <2>1, <2>2, <2>3, CarryOnIs
<1>6. ASSUME NEW u \in past.onPurpose
      PROVE  Over(u)'
  <2>1. u \in Rows /\ Over(u) /\ turns[u].status \in {"stopped", "error"} /\ ~(cut /\ cutWork)
    BY <1>1, PurposeIs DEF PurposeRows
  <2>2. u # crashed
    BY <2>1 DEF Over
  <2> HIDE DEF t
  <2>3. Planned' => entry'.plan.turn # u
    BY <1>5, <2>1, <2>2, OtherPlan
  <2>4. QED
    BY <1>1, <2>1, <2>3, OverKept DEF Over
<1>7. QED
  BY <1>1, <1>2, <1>6 DEF PurposeRows

LEMMA PurposeAdds ==
  ASSUME IInv, PurposeRows, NEW op, NEW of, NEW by, Adds(op, of, by), of \notin past.onPurpose, core = "up",
         UNCHANGED <<entry, core, onPurpose, rec, crashed, after, reading, past>>
  PROVE  PurposeRows'
<1>1. ASSUME NEW t \in past.onPurpose
      PROVE  Over(t)'
  <2>1. t \in Rows /\ Over(t) /\ turns[t].status \in {"stopped", "error"}
    BY PurposeIs
  <2>2. QED
    BY <2>1, OverAdded
<1>2. QED
  BY <1>1, UpKeeps

LEMMA PurposeGrows ==
  ASSUME IInv, PurposeRows, (\E op \in Ops : Admit(op)) \/ FireStarts \/ (\E t \in Rows : Continue(t))
  PROVE  PurposeRows'
<1>1. CASE \E op \in Ops : Admit(op)
  <2>1. PICK op \in Ops : Admit(op)
    BY <1>1
  <2>2. /\ core = "up" /\ UNCHANGED <<entry, core, onPurpose, rec, crashed, after, reading, past>>
        /\ Len(turns) < MaxTurns /\ turns' = Append(turns, Row(op, 0, "none"))
    BY <2>1, Zenon DEF Admit, Free, memory
  <2>3. op \in {"user", "wake", "ping", "resume"} /\ 0 \in 0..MaxTurns
    BY BoundsAssumption
  <2>4. Adds(op, 0, "none") /\ 0 \notin past.onPurpose
    BY <2>2, <2>3, RowAdded, PurposeIs DEF IInv
  <2>5. QED
    BY <2>2, <2>4, PurposeAdds
<1>2. CASE FireStarts
  <2> DEFINE p == entry.plan.turn
  <2>1. /\ core = "up" /\ firing.at = "marked"
        /\ UNCHANGED <<entry, core, onPurpose, rec, crashed, after, reading, past>>
        /\ \/ UNCHANGED turns
           \/ Len(turns) < MaxTurns /\ turns' = Append(turns, Row("resume", p, entry.plan.reason))
    BY <1>2, Zenon DEF FireStarts
  <2>2. p \in Rows /\ entry.plan.reason \in {"limit", "carry"} /\ Planned
    BY <2>1, NoPlanIs, MarkedPlan DEF IInv, Sound, MarkRows, Planned
  <2>3. CASE UNCHANGED turns
    <3>1. ASSUME NEW u \in past.onPurpose
          PROVE  Over(u)'
      <4>1. u \in Rows /\ Over(u) /\ turns[u].status \in {"stopped", "error"}
        BY <2>1, PurposeIs
      <4>2. QED
        BY <2>1, <2>3, <4>1, OverKept DEF Over, Planned
    <3>2. QED
      BY <2>1, <3>1, UpKeeps
  <2>4. CASE Len(turns) < MaxTurns /\ turns' = Append(turns, Row("resume", p, entry.plan.reason))
    <3>1. p \in 0..MaxTurns /\ entry.plan.reason \in {"none", "limit", "carry", "handoff"}
      BY <2>2, Types DEF IInv
    <3>2. Adds("resume", p, entry.plan.reason)
      BY <2>4, <3>1, RowAdded DEF IInv
    <3>3. p \notin past.onPurpose
      BY <2>2, PurposeIs DEF Over
    <3>4. QED
      BY <2>1, <3>2, <3>3, PurposeAdds
  <2>5. QED
    BY <2>1, <2>3, <2>4
<1>3. ASSUME NEW t \in Rows, Continue(t)
      PROVE  PurposeRows'
  <2>1. /\ core = "up" /\ UNCHANGED <<entry, core, onPurpose, crashed, after, reading, past>>
        /\ \/ UNCHANGED turns /\ rec' \subseteq rec
           \/ /\ t \in rec /\ rec' = rec
              /\ Len(turns) < MaxTurns /\ turns' = Append(turns, Row("resume", t, "handoff"))
    BY <1>3, Zenon DEF Continue, Free
  <2>2. CASE UNCHANGED turns /\ rec' \subseteq rec
    <3>1. ASSUME NEW u \in past.onPurpose
          PROVE  Over(u)'
      <4>1. u \in Rows /\ Over(u) /\ turns[u].status \in {"stopped", "error"}
        BY <2>1, PurposeIs
      <4>2. QED
        BY <2>1, <2>2, <4>1, OverKept DEF Over, Planned
    <3>2. QED
      BY <2>1, <3>1, UpKeeps
  <2>3. CASE /\ t \in rec /\ rec' = rec
             /\ Len(turns) < MaxTurns /\ turns' = Append(turns, Row("resume", t, "handoff"))
    <3>1. t \in 0..MaxTurns
      BY Types DEF IInv
    <3>2. Adds("resume", t, "handoff")
      BY <2>3, <3>1, RowAdded DEF IInv
    <3>3. t \notin past.onPurpose
      BY <2>3, PurposeIs DEF Over
    <3>4. QED
      BY <2>1, <2>3, <3>2, <3>3, PurposeAdds
  <2>4. QED
    BY <2>1, <2>2, <2>3
<1>4. QED
  BY <1>1, <1>2, <1>3

LEMMA PurposeSteps ==
  ASSUME IInv, PurposeRows, [Next]_vars
  PROVE  PurposeRows'
<1>1. CASE TurnStep
  <2>1. CASE \E t \in Rows : Starts(t) \/ QuotaRead(t)
    BY <2>1, PurposeTurns
  <2>2. CASE BackgroundLost
    <3>1. LastTurn # 0
      BY <2>2, Zenon DEF BackgroundLost
    <3>2. LastTurn \in Rows
      BY <3>1, LastTurnIs, Types DEF IInv
    <3>3. QED
      BY <2>2, <3>2, PurposeTurns
  <2>3. QED
    BY <1>1, <2>1, <2>2, PurposeGrows, PurposeEnds, PurposeFinished DEF TurnStep
<1>2. CASE UserStep \/ FireStep
  BY <1>2, PurposeUser, PurposeGrows DEF FireStep
<1>3. CASE BootStep \/ ShutDown \/ HandOver \/ Dies
  BY <1>3, PurposeRecovers, PurposeArms, PurposeStarts, PurposeGrows, PurposeLeaves, PurposeDies DEF BootStep
<1>4. CASE WindowPasses \/ UNCHANGED vars
  <2>1. UNCHANGED <<turns, entry, onPurpose, work, rec, core, cut, crashed, cutWork, after, reading, past>>
    BY <1>4, Zenon DEF WindowPasses, vars, journal, memory
  <2>2. QED
    BY <2>1, SameRows DEF PurposeRows, Over, Planned
<1>5. QED
  BY <1>1, <1>2, <1>3, <1>4 DEF Next

\* Over any chain of cores: a turn that a core stopped on purpose, or left
\* running when it ended, is continued by nothing, as long as no later core
\* dies under work of the conversation (auto-continue.ts:78-84, recovery.ts).
THEOREM Deliberate == Spec => []PurposeStays
<1>1. Init => PurposeRows
  <2>1. ASSUME Init
        PROVE  past.onPurpose = {} /\ core = "up" /\ ~onPurpose
    BY <2>1, Zenon DEF Init
  <2>2. QED
    BY <2>1 DEF PurposeRows
<1>2. IInv /\ PurposeRows => PurposeStays
  BY PurposeIs DEF PurposeStays, Over
<1>3. QED
  BY <1>1, <1>2, Inductive, PurposeSteps, PTL DEF Spec

-----------------------------------------------------------------------------
(* How long a row of resumes is                                            *)

\* A resume that was sent and waits for its start is not in the history's row
\* yet; one that may have been sent is not in the journal's.
Waiting == {t \in Active \ Running : turns[t].by = "carry"}
ToStart == IF Waiting = {} THEN 0 ELSE 1
ToCount == IF entry.plan.out /\ entry.plan.reason = "carry"
              /\ (firing.at = "no" \/ (firing.at = "sent" /\ firing.turn # 0)) THEN 1 ELSE 0

RowCounts ==
  /\ past.row + ToStart <= entry.streak + past.lost + ToCount
  /\ archived => past.row = 0
  /\ firing.at = "marked" \/ Waiting # {} => after = NoAfter
  /\ \A t \in Rows : turns[t].by = "carry" => turns[t].op = "resume"

LEMMA RowIs ==
  ASSUME IInv
  PROVE  /\ past.row \in Nat /\ past.lost \in Nat /\ entry.streak \in 0..MaxStreak /\ MaxStreak \in Nat
         /\ entry.plan.reason \in {"none", "limit", "carry"} /\ entry \in Entry /\ past \in Past
         /\ ToStart \in {0, 1} /\ ToCount \in {0, 1}
BY Types, BoundsAssumption DEF IInv, Past, Entry, Plan, ToStart, ToCount

\* What an operation on the journal's row makes of its length.
LEMMA StreakIs ==
  ASSUME TypeOK, NEW e \in Entry, NEW t \in Rows, NEW w \in Windows, NEW sent \in 0..MaxTurns
  PROVE  /\ Cancelled(e).streak = e.streak /\ LimitPlan(e, t, w).streak = e.streak
         /\ e.plan.out => Forgotten(e) = e
         /\ CarryOn(e, t).streak = e.streak \/ (e.handled # t /\ e.streak >= MaxStreak)
         /\ CarryOn(e, t).streak \in Nat /\ Forgotten(e).streak \in Nat
         /\ e.plan.reason = "limit" \/ sent = 0 => Settled(e, sent).streak = e.streak
         /\ e.plan.reason = "carry" /\ sent # 0 => Settled(e, sent).streak = e.streak + 1
<1> DEFINE v == Without(e)
<1>1. v \in Entry /\ v.streak = e.streak
  BY WithoutIs
<1>2. CarryOn(e, t) \in Entry /\ Forgotten(e) \in Entry
  BY CarryOnIs, ForgottenIs
<1>3. e.streak \in Nat /\ MaxStreak \in Nat
  BY BoundsAssumption DEF Entry
<1>4. Cancelled(e).streak = e.streak
  <2>1. Cancelled(e) = e \/ Cancelled(e) = [v EXCEPT !.handled = e.plan.turn]
    BY Zenon DEF Cancelled
  <2> HIDE DEF v
  <2>2. QED
    BY <1>1, <2>1 DEF Entry
<1>5. \A u \in Rows, r \in {"limit", "carry"}, x \in Nat : Scheduled(e, u, r, x).streak = e.streak
  BY DEF Scheduled, Entry
<1>6. LimitPlan(e, t, w).streak = e.streak
  <2>1. w \in Nat
    BY BoundsAssumption DEF Windows
  <2>2. QED
    BY <1>5, <2>1 DEF LimitPlan
<1>7. CarryOn(e, t).streak = e.streak \/ (e.handled # t /\ e.streak >= MaxStreak)
  BY <1>5 DEF CarryOn
<1>8. /\ e.plan.reason = "limit" \/ sent = 0 => Settled(e, sent).streak = e.streak
      /\ e.plan.reason = "carry" /\ sent # 0 => Settled(e, sent).streak = e.streak + 1
  <2> DEFINE rest == [v EXCEPT !.handled = e.plan.turn]
  <2>1. rest.streak = e.streak /\ rest.sent = v.sent /\ rest \in Entry
    <3>1. e.plan.turn \in 0..MaxTurns
      BY DEF Entry, Plan
    <3> HIDE DEF v
    <3>2. QED
      BY <1>1, <3>1 DEF Entry
  <2>2. Settled(e, sent) = IF e.plan.reason = "limit" THEN [rest EXCEPT !.window = e.plan.window]
                           ELSE IF sent = 0 THEN rest
                           ELSE [rest EXCEPT !.streak = @ + 1, !.sent = sent]
    BY Zenon DEF Settled
  <2> HIDE DEF rest
  <2>3. QED
    BY <2>1, <2>2 DEF Entry
<1>9. QED
  BY <1>2, <1>3, <1>4, <1>6, <1>7, <1>8, ForgottenIs DEF Entry

\* No turn comes to wait where none is added.
LEMMA WaitingMoved ==
  ASSUME IInv, Moves \/ UNCHANGED turns, \A t \in Running : turns'[t].status # "queued"
  PROVE  Waiting' \subseteq Waiting /\ ToStart' <= ToStart
<1>1. Rows' = Rows /\ Active' \subseteq Active /\ \A t \in Rows : turns'[t].by = turns[t].by
  BY MovedRows, SameRows DEF IInv, Moves
<1>2. \A t \in Rows : turns[t] \in Turn /\ turns'[t] \in Turn
  BY Types DEF IInv, Moves
<1>3. Waiting' \subseteq Waiting
  <2>1. SUFFICES ASSUME NEW t \in Waiting'
                 PROVE  t \in Waiting
    OBVIOUS
  <2>2. t \in Rows /\ t \in Active /\ turns[t].by = "carry" /\ turns'[t].status = "queued"
    BY <1>1, <1>2, <2>1 DEF Waiting, Active, Running, Turn
  <2>3. t \notin Running
    BY <2>2
  <2>4. QED
    BY <2>2, <2>3 DEF Waiting
<1>4. QED
  BY <1>3 DEF ToStart

LEMMA ByKept ==
  ASSUME IInv, RowCounts, Moves \/ UNCHANGED turns
  PROVE  \A t \in Rows' : turns'[t].by = "carry" => turns'[t].op = "resume"
BY MovedRows, SameRows DEF IInv, Moves, RowCounts

\* A step that gives the row no more than the journal counts.
LEMMA RowKept ==
  ASSUME IInv, RowCounts, Moves \/ UNCHANGED turns, \A t \in Running : turns'[t].status # "queued",
         firing' = firing \/ firing' = NotFiring,
         after' = after \/ after' = NoAfter, archived' => archived \/ past'.row = 0,
         past'.row \in Nat /\ past'.lost \in Nat /\ entry'.streak \in Nat /\ ToCount' \in Nat,
         \/ past'.row = 0 /\ ToStart = 0
         \/ past'.row = 0 /\ ToStart' = 0
         \/ /\ past'.row = past.row
            /\ entry.streak + past.lost + ToCount <= entry'.streak + past'.lost + ToCount'
  PROVE  RowCounts'
<1>1. Waiting' \subseteq Waiting /\ ToStart' <= ToStart /\ ToStart' \in {0, 1}
  BY WaitingMoved DEF ToStart
<1>2. past'.row + ToStart' <= entry'.streak + past'.lost + ToCount'
  BY <1>1, RowIs DEF RowCounts
<1>3. archived' => past'.row = 0
  BY DEF RowCounts
<1>4. firing'.at = "marked" \/ Waiting' # {} => after' = NoAfter
  BY <1>1 DEF RowCounts, NotFiring
<1>5. QED
  BY <1>2, <1>3, <1>4, ByKept DEF RowCounts

\* Between two calls of the timer the journal counts what was sent.
LEMMA NothingToCount ==
  ASSUME ~entry.plan.out
  PROVE  ToCount = 0
BY DEF ToCount

LEMMA RowStarts ==
  ASSUME IInv, RowCounts, NEW t \in Rows, Starts(t)
  PROVE  RowCounts'
<1>1. /\ core = "up" /\ t \in Active \ Running /\ after = NoAfter
      /\ turns' = [turns EXCEPT ![t].status = "running"]
      /\ UNCHANGED <<archived, firing, after>>
  BY Zenon DEF Starts
<1>2. Moves /\ turns'[t].status = "running" /\ \A u \in Rows \ {t} : turns'[u] = turns[u]
  BY <1>1, StatusMoved DEF IInv
<1>3. Active = {t}
  <2>1. \A u \in Active : u = Len(turns)
    BY DEF IInv, Sound, OneOpen
  <2>2. QED
    BY <1>1, <2>1
<1>4. Waiting' = {}
  BY <1>1, <1>2, <1>3, MovedRows DEF Waiting, Running, IInv
<1>5. ToStart' = 0 /\ (turns[t].by = "carry" => ToStart = 1)
  BY <1>1, <1>4 DEF ToStart, Waiting
<1>6. \A u \in Running : turns'[u].status # "queued"
  BY <1>1, <1>3 DEF Running, Active, Ended, Failed
<1>7. ~archived
  BY <1>1 DEF IInv, Sound, NoneWaits
<1>8. past.row \in Nat /\ past.lost \in Nat /\ past \in Past /\ entry \in Entry /\ entry.streak \in Nat /\ TypeOK
  BY RowIs DEF IInv
<1>9. CASE turns[t].op = "user"
  <2>1. past' = NewRow /\ entry' = Forgotten(entry)
    <3>1. turns[t].op # "ping" /\ turns[t].by # "carry"
      BY <1>9 DEF RowCounts
    <3>2. QED
      BY <1>9, <3>1, Zenon DEF Starts, Write
  <2>2. past'.row = 0 /\ past'.lost = 0
    BY <1>8, <2>1 DEF NewRow, Past
  <2>3. entry'.streak \in Nat /\ ToCount' \in Nat
    BY <1>8, <2>1, ForgottenIs DEF Entry, ToCount
  <2>4. QED
    BY <1>1, <1>2, <1>4, <1>5, <1>7, <2>2, <2>3, ByKept DEF RowCounts
<1>10. CASE turns[t].op # "user"
  <2>1. /\ entry' \in {entry, Cancelled(entry)}
        /\ past' = IF turns[t].by = "carry" THEN [past EXCEPT !.row = @ + 1] ELSE past
    BY <1>10, Zenon DEF Starts, Write
  <2>2. entry'.streak = entry.streak /\ ToCount' = ToCount
    <3>1. Cancelled(entry).streak = entry.streak
      <4>1. DEFINE v == Without(entry)
      <4>2. v \in Entry /\ v.streak = entry.streak
        BY <1>8, WithoutIs
      <4>3. Cancelled(entry) = entry \/ Cancelled(entry) = [v EXCEPT !.handled = entry.plan.turn]
        BY Zenon DEF Cancelled
      <4> HIDE DEF v
      <4>4. QED
        BY <4>2, <4>3 DEF Entry
    <3>2. entry' = entry \/ (entry'.plan = NoPlan /\ ~entry.plan.out)
      BY <1>8, <2>1, CancelledIs
    <3>3. ToCount' = ToCount
      BY <1>1, <3>2, NoPlanIs DEF ToCount
    <3>4. QED
      BY <2>1, <3>1, <3>3
  <2>3. past'.lost = past.lost /\ past'.row = IF turns[t].by = "carry" THEN past.row + 1 ELSE past.row
    BY <1>8, <2>1 DEF Past
  <2>4. past'.row + ToStart' <= past.row + ToStart
    BY <1>5, <1>8, <2>3, RowIs
  <2>5. past'.row + ToStart' <= entry'.streak + past'.lost + ToCount'
    BY <1>5, <1>8, <2>2, <2>3, <2>4, RowIs DEF RowCounts
  <2>6. QED
    BY <1>1, <1>2, <1>4, <1>7, <2>5, ByKept DEF RowCounts
<1>11. QED
  BY <1>9, <1>10

LEMMA RowEnds ==
  ASSUME IInv, RowCounts, NEW t \in Rows, NEW o \in Outcomes \union {"stopped"}, TurnEnds(t, o)
  PROVE  RowCounts'
<1>1. /\ t \in Running /\ firing = NotFiring
      /\ turns' = [turns EXCEPT ![t].status = StatusOf(o)]
      /\ past' = IF onPurpose /\ o = "stopped" THEN [past EXCEPT !.onPurpose = @ \union {t}] ELSE past
      /\ UNCHANGED <<archived, entry, firing>>
  BY Zenon DEF TurnEnds
<1>2. Moves /\ turns'[t].status = StatusOf(o)
  <2>1. t \in Active /\ StatusOf(o) \in {"queued", "running"} \union Ended
    BY <1>1 DEF Running, Active, Ended, Failed, StatusOf
  <2>2. QED
    BY <1>1, <2>1, StatusMoved DEF IInv
<1>3. Waiting' = {}
  <2>1. Active = {t} /\ Running = {t}
    BY <1>1 DEF IInv, Sound, OneOpen, Running, Active, Ended, Failed
  <2>2. StatusOf(o) \in Ended
    BY DEF StatusOf, Ended, Failed
  <2>3. QED
    BY <1>2, <2>1, <2>2, MovedRows DEF Waiting, IInv, Active
<1>4. past'.row = past.row /\ past'.lost = past.lost
  BY <1>1, RowIs DEF Past
<1>5. ToStart' = 0 /\ ToCount' = ToCount
  BY <1>1, <1>3 DEF ToStart, ToCount
<1>6. past'.row + ToStart' <= entry'.streak + past'.lost + ToCount'
  BY <1>1, <1>4, <1>5, RowIs DEF RowCounts
<1>7. archived' => past'.row = 0
  BY <1>1, <1>4 DEF RowCounts
<1>8. QED
  BY <1>1, <1>2, <1>3, <1>6, <1>7, ByKept DEF RowCounts, NotFiring

LEMMA RowFinished ==
  ASSUME IInv, RowCounts, Finished
  PROVE  RowCounts'
<1> DEFINE t == after.turn
<1>1. /\ core \in {"up", "stopping"} /\ firing = NotFiring /\ after # NoAfter /\ after' = NoAfter
      /\ UNCHANGED <<turns, archived, firing>>
  BY Zenon DEF Finished
<1>2. t \in Rows /\ TypeOK
  BY <1>1 DEF IInv, Sound, EndRows
<1>3. ~entry.plan.out /\ ToCount = 0 /\ ToStart = 0
  BY <1>1, NoneOut, NothingToCount DEF RowCounts, ToStart
<1>4. \/ entry' = entry /\ past' = past
      \/ past' = past /\ \E w \in Windows : entry' = LimitPlan(entry, t, w)
      \/ /\ entry' = AfterEnd(t, after.outcome)
         /\ past' = IF EndsRow(t, after.outcome) THEN NewRow ELSE past
  BY Zenon DEF Finished, Write
<1> HIDE DEF t
<1>5. AfterEnd(t, after.outcome).streak = entry.streak \/ EndsRow(t, after.outcome)
  <2>1. entry \in Entry
    BY RowIs
  <2>2. CASE after.outcome = "done"
    <3> DEFINE e == IF entry.sent = t THEN entry ELSE Forgotten(entry)
    <3>1. AfterEnd(t, after.outcome) = IF work = "lost" /\ e.plan = NoPlan THEN CarryOn(e, t) ELSE e
      BY <2>2 DEF AfterEnd
    <3>2. CASE entry.sent = t
      <4>1. e = entry
        BY <3>2
      <4>2. CarryOn(entry, t).streak = entry.streak \/ Gives(entry, t)
        <5>1. 0 \in 0..MaxTurns
          BY BoundsAssumption
        <5>2. \A r \in {"carry"} : Scheduled(entry, t, r, 0).streak = entry.streak
          BY <2>1 DEF Scheduled, Entry
        <5>3. QED
          BY <5>2 DEF CarryOn, Gives
      <4>3. QED
        BY <2>2, <3>1, <4>1, <4>2 DEF EndsRow, Planned
    <3>3. QED
      BY <2>2, <3>2 DEF EndsRow
  <2>3. CASE after.outcome \in {"compacted", "error"}
    <3>1. \A r \in {"carry"} : Scheduled(entry, t, r, 0).streak = entry.streak
      BY <2>1 DEF Scheduled, Entry
    <3>2. CarryOn(entry, t).streak = entry.streak \/ Gives(entry, t)
      BY <3>1 DEF CarryOn, Gives
    <3>3. QED
      BY <2>3, <3>2 DEF AfterEnd, EndsRow
  <2>4. CASE after.outcome = "stopped"
    BY <2>4 DEF EndsRow
  <2>5. QED
    BY <2>2, <2>3, <2>4 DEF AfterEnd
<1>6. entry' \in Entry /\ entry'.streak \in Nat
  <2>1. entry' \in Entry
    BY <1>2, <1>4, RowIs, LimitPlanIs, AfterEndIs
  <2>2. QED
    BY <2>1 DEF Entry
<1>7. \/ past' = NewRow
      \/ past' = past /\ entry'.streak = entry.streak
  <2>1. \A w \in Windows : LimitPlan(entry, t, w).streak = entry.streak
    BY RowIs DEF LimitPlan, Scheduled, Entry
  <2>2. QED
    BY <1>4, <1>5, <2>1
<1>8. ToCount' \in {0, 1}
  BY DEF ToCount
<1>9. QED
  <2>1. \A u \in Running : turns'[u].status # "queued"
    BY <1>1 DEF Running
  <2>2. past' = NewRow => past'.row = 0 /\ past'.lost = 0
    BY RowIs DEF NewRow, Past
  <2>3. past' = past /\ entry'.streak = entry.streak =>
          entry.streak + past.lost + ToCount <= entry'.streak + past'.lost + ToCount'
    BY <1>3, <1>8, RowIs
  <2>4. past'.row \in Nat /\ past'.lost \in Nat /\ ToCount' \in Nat
    BY <1>7, <1>8, <2>2, RowIs
  <2>5. QED
    BY <1>1, <1>3, <1>6, <1>7, <2>1, <2>2, <2>3, <2>4, RowKept

\* The row of the journal alone, and the history with it.
LEMMA RowPlans ==
  ASSUME IInv, RowCounts, NEW t \in Rows, QuotaRead(t) \/ BackgroundLost
  PROVE  RowCounts'
<1>1. /\ core = "up" /\ firing = NotFiring /\ UNCHANGED <<turns, archived, firing, after>>
  BY Zenon DEF QuotaRead, BackgroundLost, Free
<1>2. ~entry.plan.out /\ ToCount = 0 /\ ToCount' \in {0, 1} /\ entry \in Entry /\ TypeOK
  BY <1>1, NoneOut, NothingToCount, RowIs DEF IInv, ToCount
<1>3. /\ entry'.streak \in Nat
      /\ \/ past' = past /\ entry'.streak = entry.streak
         \/ past' = NewRow /\ ToStart = 0
  <2>1. CASE QuotaRead(t)
    <3>1. past' = past /\ (entry' = entry \/ \E w \in Windows : entry' = LimitPlan(entry, t, w))
      BY <2>1, Zenon DEF QuotaRead, Write
    <3>2. 0 \in 0..MaxTurns
      BY BoundsAssumption
    <3>3. entry'.streak = entry.streak
      BY <1>2, <3>1, <3>2, StreakIs
    <3>4. QED
      BY <3>1, <3>3, RowIs
  <2>2. CASE BackgroundLost
    <3>1. \/ past' = past /\ entry' = entry
          \/ /\ ~Busy /\ LastTurn # 0 /\ entry' = CarryOn(entry, LastTurn)
             /\ past' = IF Gives(entry, LastTurn) THEN NewRow ELSE past
      BY <2>2, Zenon DEF BackgroundLost, Write
    <3>2. ~Busy => ToStart = 0
      BY DEF Busy, ToStart, Waiting
    <3>3. LastTurn # 0 => LastTurn \in Rows
      BY LastTurnIs, Types DEF IInv
    <3>4. LastTurn # 0 => /\ CarryOn(entry, LastTurn).streak \in Nat
                          /\ CarryOn(entry, LastTurn).streak = entry.streak \/ Gives(entry, LastTurn)
      <4>1. ASSUME LastTurn # 0
            PROVE  CarryOn(entry, LastTurn) \in Entry
        BY <1>2, <3>3, <4>1, CarryOnIs
      <4>2. Scheduled(entry, LastTurn, "carry", 0).streak = entry.streak
        BY <1>2 DEF Scheduled, Entry
      <4>3. CarryOn(entry, LastTurn).streak = entry.streak \/ Gives(entry, LastTurn)
        BY <4>2 DEF CarryOn, Gives
      <4>4. QED
        BY <4>1, <4>3 DEF Entry
    <3>5. QED
      BY <3>1, <3>2, <3>4, RowIs
  <2>3. QED
    BY <2>1, <2>2
<1>4. past' = NewRow => past'.row = 0 /\ past'.lost = 0
  BY RowIs DEF NewRow, Past
<1>5. \A u \in Running : turns'[u].status # "queued"
  BY <1>1 DEF Running
<1>6. past'.row \in Nat /\ past'.lost \in Nat /\ ToCount' \in Nat
  BY <1>2, <1>3, <1>4, RowIs
<1>7. \/ past'.row = 0 /\ ToStart = 0
      \/ /\ past'.row = past.row
         /\ entry.streak + past.lost + ToCount <= entry'.streak + past'.lost + ToCount'
  BY <1>2, <1>3, <1>4, RowIs
<1>8. QED
  BY <1>1, <1>3, <1>5, <1>6, <1>7, RowKept

\* The turns that wait are stopped, or stay.
LEMMA RowUser ==
  ASSUME IInv, RowCounts,
         UserStep \/ FireYields \/ \E card \in BOOLEAN : FireRefused(card)
  PROVE  RowCounts'
<1>1. /\ core = "up" /\ firing = NotFiring /\ UNCHANGED <<firing, after>>
      /\ archived' => archived \/ Archive
  <2>1. CASE Archive
    BY <2>1, Zenon DEF Archive, Acts, Free
  <2>2. CASE Stop \/ CancelRetry \/ Unarchive \/ Select \/ OptOut
    <3>1. core = "up" /\ firing = NotFiring /\ UNCHANGED <<firing, after>>
      BY <2>2, Zenon DEF Stop, CancelRetry, Unarchive, Select, OptOut, Acts, Free, memory
    <3>2. archived' => archived
      BY <2>2, Zenon DEF Stop, CancelRetry, Unarchive, Select, OptOut
    <3>3. QED
      BY <3>1, <3>2
  <2>3. CASE FireYields
    BY <2>3, Zenon DEF FireYields, Due, Free, memory
  <2>4. ASSUME NEW card \in BOOLEAN, FireRefused(card)
        PROVE  core = "up" /\ firing = NotFiring /\ UNCHANGED <<firing, after, archived>>
    BY <2>4, Zenon DEF FireRefused, Due, Free
  <2>5. QED
    BY <2>1, <2>2, <2>3, <2>4, Zenon DEF UserStep
<1>2. ~entry.plan.out /\ ToCount = 0 /\ ToCount' \in {0, 1} /\ entry \in Entry /\ TypeOK
  BY <1>1, NoneOut, NothingToCount, RowIs DEF IInv, ToCount
<1>3. /\ Moves \/ UNCHANGED turns
      /\ \A t \in Running : turns'[t].status # "queued"
      /\ Archive => ToStart' = 0
  <2>1. CASE Stop \/ Archive
    <3>1. turns' = [t \in Rows |-> IF t \in Active \ Running
                                   THEN [turns[t] EXCEPT !.status = "stopped"] ELSE turns[t]]
      BY <2>1, Zenon DEF Stop, Archive
    <3>2. Moves /\ \A t \in Rows : turns'[t].status = IF t \in Active \ Running THEN "stopped" ELSE turns[t].status
      BY <3>1, WaitingStopped DEF IInv
    <3>3. \A t \in Running : turns'[t].status # "queued"
      BY <3>2 DEF Running
    <3>4. Waiting' = {}
      <4>1. Rows' = Rows /\ Active' \subseteq Active
        BY <3>2, MovedRows DEF IInv
      <4>2. QED
        BY <3>2, <4>1 DEF Waiting, Active, Running, Ended
    <3>5. QED
      BY <3>2, <3>3, <3>4 DEF ToStart
  <2>2. CASE FireYields
    <3>1. turns' = [t \in Rows |-> IF t \in Pinging \ Running
                                   THEN [turns[t] EXCEPT !.status = "stopped"] ELSE turns[t]]
      BY <2>2, Zenon DEF FireYields
    <3>2. Pinging \subseteq Active
      BY DEF Pinging
    <3>3. Moves /\ \A t \in Rows : turns'[t].status = IF t \in Pinging \ Running THEN "stopped" ELSE turns[t].status
      BY <3>1, <3>2, WaitingStopped DEF IInv
    <3>4. ~Archive
      <4>1. Archive => ~archived /\ archived'
        BY Zenon DEF Archive
      <4>2. FireYields => archived' = archived
        BY Zenon DEF FireYields
      <4>3. QED
        BY <2>2, <4>1, <4>2
    <3>5. \A t \in Running : turns'[t].status # "queued"
      BY <3>3 DEF Running
    <3>6. QED
      BY <3>3, <3>4, <3>5
  <2>3. CASE CancelRetry \/ Unarchive \/ Select \/ OptOut \/ (\E card \in BOOLEAN : FireRefused(card))
    <3>1. UNCHANGED turns
      BY <2>3, Zenon DEF CancelRetry, Unarchive, Select, OptOut, FireRefused
    <3>2. ~Archive
      <4>1. Archive => ~archived /\ archived'
        BY Zenon DEF Archive
      <4>2. CancelRetry \/ Unarchive \/ Select \/ OptOut \/ (\E card \in BOOLEAN : FireRefused(card))
              => archived' = archived \/ ~archived'
        BY Zenon DEF CancelRetry, Unarchive, Select, OptOut, FireRefused
      <4>3. QED
        BY <2>3, <4>1, <4>2
    <3>3. QED
      BY <3>1, <3>2 DEF Running
  <2>4. QED
    BY <2>1, <2>2, <2>3 DEF UserStep
<1>4. /\ past'.lost \in Nat /\ past'.row \in Nat
      /\ (past'.row = past.row /\ past'.lost = past.lost) \/ (Archive /\ past'.row = 0)
      /\ Archive => past'.row = 0
  <2>1. past \in Past
    BY RowIs
  <2>2. Stop => past' = [past EXCEPT !.stopped = @ \union Active, !.cancelled = @ \union PlanTurn \union rec]
    BY Zenon DEF Stop
  <2>3. Archive => past' = [NewRow EXCEPT !.stopped = @ \union Active, !.cancelled = @ \union PlanTurn]
    BY Zenon DEF Archive
  <2>4. CancelRetry \/ OptOut => past' = past \/ past' = [past EXCEPT !.cancelled = @ \union PlanTurn]
    BY Zenon DEF CancelRetry, OptOut
  <2>5. Unarchive => past' = [past EXCEPT !.cancelled = {}]
    BY Zenon DEF Unarchive
  <2>6. FireYields => past' = [past EXCEPT !.stopped = @ \union Pinging]
    BY Zenon DEF FireYields
  <2>7. Select \/ (\E card \in BOOLEAN : FireRefused(card)) => past' = past
    BY Zenon DEF Select, FireRefused
  <2>8. CASE Archive
    <3>1. NewRow \in Past /\ NewRow.row = 0 /\ NewRow.lost = 0
      BY <1>2, <2>1, PastIs DEF Past, NewRow
    <3>2. past'.row = 0 /\ past'.lost = 0
      BY <2>3, <2>8, <3>1 DEF Past
    <3>3. QED
      BY <2>8, <3>2
  <2>9. past.row \in Nat /\ past.lost \in Nat
    BY <2>1 DEF Past
  <2>10. CASE Stop \/ CancelRetry \/ Unarchive \/ Select \/ OptOut \/ FireYields \/ \E card \in BOOLEAN : FireRefused(card)
    <3>1. past'.row = past.row /\ past'.lost = past.lost
      BY <2>1, <2>2, <2>4, <2>5, <2>6, <2>7, <2>10 DEF Past
    <3>2. ~Archive
      <4>1. Archive => ~archived /\ archived'
        BY Zenon DEF Archive
      <4>2. archived' => archived
        BY <2>10, Zenon DEF Stop, CancelRetry, Unarchive, Select, OptOut, FireYields, FireRefused
      <4>3. QED
        BY <4>1, <4>2
    <3>3. QED
      BY <2>9, <3>1, <3>2
  <2>11. QED
    BY <2>8, <2>10, Zenon DEF UserStep
<1>5. entry'.streak = entry.streak /\ entry.streak \in Nat
  <2>1. entry' \in {entry, Cancelled(entry)}
    BY Zenon DEF UserStep, Stop, CancelRetry, Archive, Unarchive, Select, OptOut, FireYields, FireRefused, Write
  <2>2. Cancelled(entry).streak = entry.streak
    <3> DEFINE v == Without(entry)
    <3>1. v \in Entry /\ v.streak = entry.streak
      BY <1>2, WithoutIs
    <3>2. Cancelled(entry) = entry \/ Cancelled(entry) = [v EXCEPT !.handled = entry.plan.turn]
      BY Zenon DEF Cancelled
    <3> HIDE DEF v
    <3>3. QED
      BY <3>1, <3>2 DEF Entry
  <2>3. QED
    BY <2>1, <2>2, RowIs
<1>6. ToCount' \in Nat
  BY <1>2
<1>7. \/ past'.row = 0 /\ ToStart' = 0
      \/ /\ past'.row = past.row
         /\ entry.streak + past.lost + ToCount <= entry'.streak + past'.lost + ToCount'
  BY <1>2, <1>3, <1>4, <1>5, RowIs
<1>8. archived' => archived \/ past'.row = 0
  BY <1>1, <1>4
<1>9. QED
  BY <1>1, <1>3, <1>4, <1>5, <1>6, <1>7, <1>8, RowKept

LEMMA RowFires ==
  ASSUME IInv, RowCounts, FireMarks \/ FireSettles
  PROVE  RowCounts'
<1>1. UNCHANGED <<turns, archived, after, past>>
  BY Zenon DEF FireMarks, FireSettles
<1>2. entry \in Entry /\ TypeOK
  BY RowIs DEF IInv
<1>3. Waiting' = Waiting /\ ToStart' = ToStart
  BY <1>1, SameRows DEF Waiting, ToStart
<1>4. CASE FireMarks
  <2>1. /\ after = NoAfter /\ firing = NotFiring /\ core = "up" /\ firing' = [at |-> "marked", turn |-> 0]
        /\ entry' = [entry EXCEPT !.plan.out = TRUE]
    BY <1>4, Zenon DEF FireMarks, Write, Due, Free
  <2>2. ToCount = 0 /\ ToCount' = 0
    BY <2>1, NoneOut, NothingToCount DEF ToCount
  <2>3. entry'.streak = entry.streak
    BY <1>2, <2>1 DEF Entry
  <2>4. QED
    BY <1>1, <1>3, <2>1, <2>2, <2>3, SameRows DEF RowCounts
<1>5. CASE FireSettles
  <2>1. firing.at = "sent" /\ firing' = NotFiring /\ entry' = Settled(entry, firing.turn)
    BY <1>5, Zenon DEF FireSettles, Write
  <2>2. entry.plan.out /\ firing.turn \in 0..MaxTurns
    BY <2>1, Types DEF IInv, Sound, MarkRows
  <2>3. entry.plan.reason \in {"limit", "carry"} /\ (entry.plan.reason = "carry" => entry.streak < MaxStreak)
    BY <2>2, NoPlanIs, RowIs DEF IInv, Sound, PlanRows, Planned
  <2>4. entry'.plan = NoPlan
    BY <1>2, <2>1, <2>2, <2>3, SettledIs
  <2>5. ToCount' = 0
    BY <2>4, NoPlanIs DEF ToCount
  <2>6. entry'.streak = entry.streak + ToCount
    <3> DEFINE v == Without(entry)
    <3> DEFINE rest == [v EXCEPT !.handled = entry.plan.turn]
    <3>1. v \in Entry /\ v.streak = entry.streak /\ entry.plan.turn \in 0..MaxTurns
      BY <1>2, WithoutIs DEF Entry, Plan
    <3>2. rest \in Entry /\ rest.streak = entry.streak
      <4> HIDE DEF v
      <4>1. QED
        BY <3>1 DEF Entry
    <3>3. entry' = IF entry.plan.reason = "limit" THEN [rest EXCEPT !.window = entry.plan.window]
                   ELSE IF firing.turn = 0 THEN rest
                   ELSE [rest EXCEPT !.streak = @ + 1, !.sent = firing.turn]
      BY <2>1, Zenon DEF Settled
    <3>4. ToCount = IF entry.plan.reason = "carry" /\ firing.turn # 0 THEN 1 ELSE 0
      BY <2>1, <2>2 DEF ToCount
    <3> HIDE DEF rest
    <3>5. QED
      BY <2>3, <3>2, <3>3, <3>4, RowIs DEF Entry
  <2>7. QED
    BY <1>1, <1>3, <2>1, <2>5, <2>6, SameRows, RowIs DEF RowCounts, NotFiring
<1>6. QED
  BY <1>4, <1>5

\* A row that the user, a wake or the handoff adds is not in the plans' row.
LEMMA RowAdds ==
  ASSUME IInv, RowCounts, ~Busy, NEW op, NEW of, NEW by, Adds(op, of, by), by # "carry",
         UNCHANGED <<archived, entry, firing, after, past>>, firing = NotFiring
  PROVE  RowCounts'
<1>1. /\ Rows' = Rows \union {Len(turns')} /\ Active' = {Len(turns')}
      /\ turns'[Len(turns')].by = by /\ \A t \in Rows : turns'[t] = turns[t]
  BY AddedRows DEF IInv, Adds
<1>2. Waiting' = {} /\ ToStart' = 0
  BY <1>1 DEF Waiting, ToStart
<1>3. ToCount' = ToCount
  BY DEF ToCount
<1>4. past'.row + ToStart' <= entry'.streak + past'.lost + ToCount'
  BY <1>2, <1>3, RowIs DEF RowCounts
<1>5. firing'.at # "marked"
  BY DEF NotFiring
<1>6. QED
  BY <1>1, <1>2, <1>4, <1>5 DEF RowCounts

LEMMA RowAdmits ==
  ASSUME IInv, RowCounts, \/ \E op \in Ops : Admit(op)
                          \/ \E t \in Rows : Continue(t)
  PROVE  RowCounts'
<1>1. CASE UNCHANGED <<turns, archived, entry, firing, after, past>>
  BY <1>1, SameRows DEF RowCounts, ToStart, ToCount, Waiting
<1>2. ASSUME NEW op \in Ops, Admit(op)
      PROVE  RowCounts'
  <2>1. Adds(op, 0, "none")
    <3>1. op \in {"user", "wake", "ping", "resume"} /\ 0 \in 0..MaxTurns
      BY BoundsAssumption
    <3>2. Len(turns) < MaxTurns /\ turns' = Append(turns, Row(op, 0, "none"))
      BY <1>2, Zenon DEF Admit
    <3>3. QED
      BY <3>1, <3>2, RowAdded DEF IInv
  <2>2. ~Busy /\ firing = NotFiring /\ UNCHANGED <<archived, entry, firing, after, past>>
    BY <1>2, Zenon DEF Admit, Free, memory
  <2>3. QED
    BY <2>1, <2>2, RowAdds
<1>3. ASSUME NEW t \in Rows, Continue(t)
      PROVE  RowCounts'
  <2>1. /\ firing = NotFiring /\ UNCHANGED <<archived, entry, firing, after, past>>
        /\ \/ UNCHANGED turns
           \/ ~Busy /\ Len(turns) < MaxTurns /\ turns' = Append(turns, Row("resume", t, "handoff"))
    BY <1>3, Zenon DEF Continue, Free
  <2>2. CASE UNCHANGED turns
    BY <1>1, <2>1, <2>2
  <2>3. CASE ~Busy /\ Len(turns) < MaxTurns /\ turns' = Append(turns, Row("resume", t, "handoff"))
    <3>1. t \in 0..MaxTurns
      BY Types DEF IInv
    <3>2. Adds("resume", t, "handoff")
      BY <2>3, <3>1, RowAdded DEF IInv
    <3>3. QED
      BY <2>1, <2>3, <3>2, RowAdds
  <2>4. QED
    BY <2>1, <2>2, <2>3
<1>4. QED
  BY <1>2, <1>3

\* A resume that is sent waits for its start, and for the journal to count it.
LEMMA RowSent ==
  ASSUME IInv, RowCounts, FireStarts
  PROVE  RowCounts'
<1> DEFINE p == entry.plan.turn
<1> DEFINE r == entry.plan.reason
<1>1. firing.at = "marked" /\ UNCHANGED <<archived, entry, after, past>>
  BY Zenon DEF FireStarts
<1>2. p \in Rows /\ r \in {"limit", "carry"} /\ entry.plan.out /\ ~Busy
  BY <1>1, MarkedPlan
<1>3. ToStart = 0 /\ ToCount = 0 /\ after = NoAfter
  BY <1>1, <1>2 DEF ToStart, ToCount, Waiting, Busy, RowCounts
<1>4. past'.row <= entry'.streak + past'.lost /\ past'.row \in Nat /\ past'.lost \in Nat /\ entry'.streak \in Nat
  BY <1>1, <1>3, RowIs DEF RowCounts
<1>5. CASE UNCHANGED turns /\ firing' = [at |-> "sent", turn |-> 0]
  <2>1. Waiting' = {} /\ ToStart' = 0 /\ ToCount' = 0 /\ firing'.at # "marked"
    BY <1>2, <1>5, SameRows DEF Waiting, ToStart, ToCount, Busy
  <2>2. QED
    BY <1>1, <1>4, <1>5, <2>1, SameRows DEF RowCounts
<1>6. CASE /\ Len(turns) < MaxTurns /\ turns' = Append(turns, Row("resume", p, r))
           /\ firing' = [at |-> "sent", turn |-> Len(turns) + 1]
  <2>1. Adds("resume", p, r)
    <3>1. p \in 0..MaxTurns /\ r \in {"none", "limit", "carry", "handoff"}
      BY <1>2, Types DEF IInv
    <3>2. QED
      BY <1>6, <3>1, RowAdded DEF IInv
  <2>2. /\ Rows' = Rows \union {Len(turns')} /\ Active' = {Len(turns')}
        /\ turns'[Len(turns')].by = r /\ turns'[Len(turns')].op = "resume"
        /\ \A t \in Rows : turns'[t] = turns[t]
    BY <1>2, <2>1, AddedRows DEF IInv, Adds
  <2>3. r # "carry" => ToStart' = 0
    BY <2>2 DEF ToStart, Waiting
  <2>4. firing'.at = "sent" /\ firing'.turn # 0
    BY <1>6, Types DEF IInv
  <2>5. r = "carry" => ToCount' = 1
    BY <1>1, <1>2, <2>4 DEF ToCount
  <2>6. ToStart' \in {0, 1} /\ ToCount' \in {0, 1}
    BY DEF ToStart, ToCount
  <2>7. past'.row + ToStart' <= entry'.streak + past'.lost + ToCount'
    BY <1>4, <2>3, <2>5, <2>6
  <2>8. QED
    BY <1>1, <1>3, <2>2, <2>4, <2>7 DEF RowCounts
<1>7. QED
  BY <1>5, <1>6, Zenon DEF FireStarts

\* A core that dies, is started, or goes.
LEMMA RowBoots ==
  ASSUME IInv, RowCounts, Dies \/ (\E recent, fresh \in BOOLEAN : Recover(recent, fresh)) \/ ArmPlans
  PROVE  RowCounts'
<1>1. entry.streak \in Nat /\ past.row \in Nat /\ past.lost \in Nat /\ entry \in Entry /\ past \in Past
  BY RowIs
<1>2. CASE Dies
  <2>1. /\ firing' = NotFiring /\ after' = NoAfter /\ UNCHANGED <<turns, archived, entry>>
        /\ \/ past' = past \/ past' = [past EXCEPT !.onPurpose = @ \union Running]
           \/ past' = [past EXCEPT !.onPurpose = {}]
    BY <1>2, Zenon DEF Dies, journal
  <2>2. past'.row = past.row /\ past'.lost = past.lost
    BY <1>1, <2>1 DEF Past
  <2>3. ToCount' \in {0, 1} /\ (ToCount = 1 => ToCount' = 1)
    BY <2>1 DEF ToCount, NotFiring
  <2>4. ToCount \in {0, 1} /\ \A t \in Running : turns'[t].status # "queued"
    BY <2>1, RowIs DEF Running
  <2>5. entry.streak + past.lost + ToCount <= entry'.streak + past'.lost + ToCount'
    BY <1>1, <2>1, <2>2, <2>3, <2>4
  <2>6. archived' => archived \/ past'.row = 0
    BY <2>1
  <2>7. QED
    BY <1>1, <2>1, <2>2, <2>3, <2>4, <2>5, <2>6, RowKept
<1>3. ASSUME NEW recent \in BOOLEAN, NEW fresh \in BOOLEAN, Recover(recent, fresh)
      PROVE  RowCounts'
  <2>1. UNCHANGED <<archived, entry, firing, after, past>>
    BY <1>3, Zenon DEF Recover
  <2>2. Moves /\ \A t \in Running : turns'[t].status # "queued"
    BY <1>3, Recovered DEF Failed
  <2>3. ToCount' = ToCount /\ ToCount \in Nat
    BY <2>1, RowIs DEF ToCount
  <2>4. entry.streak + past.lost + ToCount <= entry'.streak + past'.lost + ToCount'
    BY <1>1, <2>1, <2>3
  <2>5. QED
    BY <1>1, <2>1, <2>2, <2>3, <2>4, RowKept
<1>4. CASE ArmPlans
  <2>1. /\ core = "recovered" /\ UNCHANGED <<turns, archived, firing, after>>
        /\ entry' = IF archived THEN [NoEntry EXCEPT !.window = entry.window]
                    ELSE IF entry.plan.out THEN Settled(entry, 0) ELSE entry
        /\ past' = IF ~archived /\ entry.plan.out /\ entry.plan.reason = "carry"
                   THEN [past EXCEPT !.lost = @ + 1] ELSE past
    BY <1>4, Zenon DEF ArmPlans, Write
  <2>2. ToCount \in {0, 1} /\ ToCount' \in {0, 1} /\ \A t \in Running : turns'[t].status # "queued"
    BY <2>1, RowIs DEF Running, ToCount
  <2>3. CASE archived
    <3>1. past' = past /\ past.row = 0
      BY <2>1, <2>3 DEF RowCounts
    <3>2. ToStart = 0
      BY <2>3 DEF IInv, Sound, NoneWaits, ToStart, Waiting
    <3>3. entry'.streak \in Nat
      <4>1. entry.window \in Nat /\ 0 \in 0..MaxTurns
        BY <1>1, BoundsAssumption DEF Entry
      <4>2. entry' \in Entry
        BY <2>1, <2>3, <4>1, NoEntryIs
      <4>3. QED
        BY <4>2 DEF Entry
    <3>4. QED
      BY <1>1, <2>1, <2>2, <3>1, <3>2, <3>3, RowKept
  <2>4. CASE ~archived /\ entry.plan.out
    <3>1. entry' = Settled(entry, 0) /\ 0 \in 0..MaxTurns
      BY <2>1, <2>4, BoundsAssumption
    <3>2. entry.plan.reason \in {"limit", "carry"} /\ (entry.plan.reason = "carry" => entry.streak < MaxStreak)
      BY <2>4, NoPlanIs, RowIs DEF IInv, Sound, PlanRows, Planned
    <3>3. entry'.streak = entry.streak
      <4> DEFINE v == Without(entry)
      <4> DEFINE rest == [v EXCEPT !.handled = entry.plan.turn]
      <4>1. v \in Entry /\ v.streak = entry.streak /\ entry.plan.turn \in 0..MaxTurns
        BY <1>1, WithoutIs DEF Entry, Plan
      <4>2. rest \in Entry /\ rest.streak = entry.streak
        <5> HIDE DEF v
        <5>1. QED
          BY <4>1 DEF Entry
      <4>3. entry' = IF entry.plan.reason = "limit" THEN [rest EXCEPT !.window = entry.plan.window] ELSE rest
        BY <3>1, Zenon DEF Settled
      <4> HIDE DEF rest
      <4>4. QED
        BY <4>2, <4>3 DEF Entry
    <3>4. past'.row = past.row /\ past'.lost = IF entry.plan.reason = "carry" THEN past.lost + 1 ELSE past.lost
      BY <1>1, <2>1, <2>4 DEF Past
    <3>5. entry.plan.reason # "carry" => ToCount = 0
      BY DEF ToCount
    <3>6. entry.streak + past.lost + ToCount <= entry'.streak + past'.lost + ToCount'
      BY <1>1, <2>2, <3>3, <3>4, <3>5
    <3>7. past'.lost \in Nat
      BY <1>1, <3>4
    <3>8. QED
      BY <1>1, <2>1, <2>2, <3>3, <3>4, <3>6, <3>7, RowKept
  <2>5. CASE ~archived /\ ~entry.plan.out
    <3>1. entry' = entry /\ past' = past /\ ToCount = 0
      BY <2>1, <2>5, NothingToCount
    <3>2. entry.streak + past.lost + ToCount <= entry'.streak + past'.lost + ToCount'
      BY <1>1, <2>2, <3>1
    <3>3. /\ past'.row \in Nat /\ past'.lost \in Nat /\ entry'.streak \in Nat /\ ToCount' \in Nat
          /\ past'.row = past.row
      BY <1>1, <2>2, <3>1
    <3>4. archived' => archived \/ past'.row = 0
      BY <2>1
    <3>5. QED
      BY <2>1, <2>2, <3>2, <3>3, <3>4, RowKept
  <2>6. QED
    BY <2>3, <2>4, <2>5
<1>5. QED
  BY <1>2, <1>3, <1>4

\* A core that gives up on the latest turn ends the row; a resume that waits is
\* that turn, and still to come.
LEMMA RowGivesUp ==
  ASSUME IInv, RowCounts, StartPlans
  PROVE  RowCounts'
<1> DEFINE t == LastTurn
<1>1. core = "armed" /\ UNCHANGED <<turns, archived, firing, after>>
  BY Zenon DEF StartPlans
<1>2. ~entry.plan.out
  BY <1>1 DEF IInv, Sound, MarkRows, TypeOK, Call
<1>3. (IF crashed # 0 THEN crashed ELSE LastTurn) = t
  BY DEF IInv, Sound, BootRows
<1>4. \/ entry' = entry /\ past' = past
      \/ /\ t # 0 /\ entry' = CarryOn(entry, t) /\ Gives(entry, t)
         /\ past' = [NewRow EXCEPT !.lost = IF t \in Active THEN 1 ELSE 0]
      \/ t # 0 /\ entry' = CarryOn(entry, t) /\ ~Gives(entry, t) /\ past' = past
  BY <1>3, Zenon DEF StartPlans, Write
<1>5. TypeOK /\ entry \in Entry /\ past \in Past
  BY RowIs DEF IInv
<1>6. t # 0 => t \in Rows
  BY <1>5, LastTurnIs, Types
<1>7. \A w \in Waiting : w = t
  <2>1. SUFFICES ASSUME NEW w \in Waiting
                 PROVE  w = t
    OBVIOUS
  <2>2. w \in Rows /\ w \in Active /\ turns[w].op = "resume" /\ w = Len(turns)
    BY DEF Waiting, RowCounts, Active, IInv, Sound, OneOpen
  <2>3. w <= t /\ t <= Len(turns) /\ t \in Nat
    BY <1>5, <2>2, LastTurnIs, Types
  <2>4. QED
    BY <1>5, <2>2, <2>3, Types
<1>8. ToStart \in {0, 1} /\ (ToStart = 1 => t \in Active)
  BY <1>7 DEF ToStart, Waiting
<1>9. ToStart' = ToStart /\ Waiting' = Waiting /\ ToCount = 0 /\ ToCount' \in {0, 1}
  BY <1>1, <1>2, SameRows DEF ToStart, Waiting, ToCount
<1> HIDE DEF t
<1>10. CASE /\ t # 0 /\ entry' = CarryOn(entry, t) /\ Gives(entry, t)
            /\ past' = [NewRow EXCEPT !.lost = IF t \in Active THEN 1 ELSE 0]
  <2>1. past'.row = 0 /\ past'.lost = IF t \in Active THEN 1 ELSE 0
    <3>1. NewRow \in Past /\ NewRow.row = 0
      BY <1>5, PastIs DEF Past, NewRow
    <3>2. QED
      BY <1>10, <3>1 DEF Past
  <2>2. entry'.streak \in Nat
    <3>1. CarryOn(entry, t) \in Entry
      BY <1>5, <1>6, <1>10, CarryOnIs
    <3>2. QED
      BY <1>10, <3>1 DEF Entry
  <2>3. past'.row + ToStart' <= entry'.streak + past'.lost + ToCount'
    BY <1>8, <1>9, <2>1, <2>2
  <2>4. QED
    BY <1>1, <1>9, <2>1, <2>3, SameRows DEF RowCounts
<1>11. CASE past' = past /\ entry'.streak = entry.streak
  <2>1. past'.row + ToStart' <= entry'.streak + past'.lost + ToCount'
    BY <1>8, <1>9, <1>11, RowIs DEF RowCounts
  <2>2. QED
    BY <1>1, <1>9, <1>11, <2>1, SameRows DEF RowCounts
<1>12. t # 0 => CarryOn(entry, t).streak = entry.streak \/ Gives(entry, t)
  <2>1. \A u \in {"carry"} : Scheduled(entry, t, u, 0).streak = entry.streak
    BY <1>5 DEF Scheduled, Entry
  <2>2. QED
    BY <2>1 DEF CarryOn, Gives
<1>13. QED
  BY <1>4, <1>10, <1>11, <1>12

LEMMA RowSteps ==
  ASSUME IInv, RowCounts, [Next]_vars
  PROVE  RowCounts'
<1>1. CASE UNCHANGED <<turns, archived, entry, firing, after, past>>
  BY <1>1, SameRows DEF RowCounts, ToStart, ToCount, Waiting
<1>2. CASE ShutDown \/ HandOver \/ WindowPasses \/ UNCHANGED vars
  <2>1. UNCHANGED <<turns, archived, entry, firing, after, past>>
    BY <1>2, Zenon DEF ShutDown, HandOver, WindowPasses, vars, journal, memory
  <2>2. QED
    BY <1>1, <2>1
<1>3. CASE TurnStep
  <2>1. ASSUME NEW t \in Rows, QuotaRead(t)
        PROVE  RowCounts'
    BY <2>1, RowPlans
  <2>2. CASE BackgroundLost
    <3>1. LastTurn \in Rows
      <4>1. LastTurn # 0
        BY <2>2, Zenon DEF BackgroundLost
      <4>2. QED
        BY <4>1, LastTurnIs, Types DEF IInv
    <3>2. QED
      BY <2>2, <3>1, RowPlans
  <2>3. QED
    BY <1>3, <2>1, <2>2, RowAdmits, RowStarts, RowEnds, RowFinished DEF TurnStep
<1>4. CASE UserStep
  BY <1>4, RowUser
<1>5. CASE FireStep
  BY <1>5, RowUser, RowFires, RowSent DEF FireStep
<1>6. CASE BootStep
  BY <1>6, RowBoots, RowGivesUp, RowAdmits DEF BootStep
<1>7. CASE Dies
  BY <1>7, RowBoots
<1>8. QED
  BY <1>2, <1>3, <1>4, <1>5, <1>6, <1>7 DEF Next

\* However an agent fails and whatever cores die, a row of resumes is no longer
\* than there are delays, but for the resumes whose core died while it sent one or
\* gave up on one that waited.
THEOREM RowBounded == Spec => []RowIsBounded
<1>1. Init => RowCounts
  <2>1. SUFFICES ASSUME Init
                 PROVE  RowCounts
    OBVIOUS
  <2>2. turns = <<>> /\ entry = NoEntry /\ firing = NotFiring /\ past.row = 0 /\ past.lost = 0 /\ archived = FALSE
    BY <2>1 DEF Init
  <2>3. Rows = {} /\ ~entry.plan.out /\ entry.streak = 0
    BY <2>2, NoPlanIs DEF Rows, NoEntry
  <2>4. Waiting = {} /\ ToStart = 0 /\ ToCount = 0
    BY <2>3 DEF Waiting, Active, ToStart, ToCount
  <2>5. QED
    BY <2>2, <2>3, <2>4 DEF RowCounts, NotFiring
<1>2. IInv /\ RowCounts => RowIsBounded
  <2>1. SUFFICES ASSUME IInv, RowCounts
                 PROVE  RowIsBounded
    OBVIOUS
  <2>2. ToCount = 1 => entry.streak < MaxStreak
    <3>1. ToCount = 1 => entry.plan.out /\ entry.plan.reason = "carry"
      BY DEF ToCount
    <3>2. QED
      BY <2>1, <3>1, NoPlanIs DEF IInv, Sound, PlanRows, Planned
  <2>3. QED
    BY <2>1, <2>2, RowIs DEF RowCounts, RowIsBounded
<1>3. QED
  BY <1>1, <1>2, Inductive, RowSteps, PTL DEF Spec
=============================================================================
