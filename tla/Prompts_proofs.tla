---------------------------- MODULE Prompts_proofs ----------------------------
(***************************************************************************)
(* A prompt on its way to an agent: the attempts of the turn that carries  *)
(* it (TurnAttempts), for every set of modes, number of tries and number   *)
(* of mode changes and updates, and before that the queue it waits in      *)
(* (ComposerOutbox), for every set of devices and inputs and number of     *)
(* failures.                                                               *)
(***************************************************************************)
EXTENDS TurnAttempts, ComposerOutbox, SequenceTheorems, WellFoundedInduction, TLAPS

-----------------------------------------------------------------------------
(* The attempts of a turn.                                                 *)

(* Type correctness.                                                       *)

\* The types of what the loop sets as an attempt or the turn begins or ends.
ControlTypes ==
  /\ at \in {"opening", "gap", "live", "waiting", "paused", "closed"}
  /\ outcome \in {"none", "done", "stopped", "error"}
  /\ stopReq \in BOOLEAN /\ handle \in {"none", "live", "past"}
  /\ attempt \in Nat
  /\ deadline \in {"none", "armed", "killed"} /\ told \in BOOLEAN
  /\ busy \in {"no", "tool", "card"}
  /\ pauseWanted \in BOOLEAN /\ tick \in BOOLEAN /\ pausing \in BOOLEAN /\ pauseStop \in BOOLEAN
  /\ mode \in Modes /\ applied \in Modes /\ setting \in Seq(Modes) /\ restarting \in BOOLEAN
  /\ stale \in BOOLEAN

\* The types of the rest.
OtherTypes ==
  /\ setter \in BOOLEAN /\ protected \in BOOLEAN
  /\ retried \in BOOLEAN /\ tries \in 0..Tries
  /\ update \in {"none", "pause", "idle", "run"} /\ handing \in BOOLEAN /\ stopping \in BOOLEAN
  /\ changes \in 0..MaxChanges /\ updates \in 0..MaxUpdates
  /\ accepted \in BOOLEAN /\ missed \in BOOLEAN

LEMMA TypeParts == TypeOK <=> ControlTypes /\ OtherTypes
  BY DEF TypeOK, ControlTypes, OtherTypes

LEMMA TypePartsNext == ControlTypes' /\ OtherTypes' => TypeOK'
  BY DEF TypeOK, ControlTypes, OtherTypes

LEMMA TypeInit == Init => TypeOK
  <1> SUFFICES ASSUME Init PROVE TypeOK
    OBVIOUS
  <1>1. /\ setter \in BOOLEAN /\ protected \in BOOLEAN
        /\ stopReq \in BOOLEAN /\ retried \in BOOLEAN /\ told \in BOOLEAN
        /\ pauseWanted \in BOOLEAN /\ tick \in BOOLEAN /\ pausing \in BOOLEAN
        /\ pauseStop \in BOOLEAN /\ restarting \in BOOLEAN /\ stale \in BOOLEAN
        /\ handing \in BOOLEAN /\ stopping \in BOOLEAN
        /\ accepted \in BOOLEAN /\ missed \in BOOLEAN
    BY FlagAssumption, Zenon DEF Init
  <1>2. tries \in 0..Tries /\ changes \in 0..MaxChanges /\ updates \in 0..MaxUpdates
    BY BoundAssumption DEF Init
  <1>3. mode \in Modes /\ applied \in Modes /\ setting \in Seq(Modes)
    BY ModeAssumption DEF Init
  <1> QED BY <1>1, <1>2, <1>3 DEF Init, TypeOK

LEMMA TypeOthers ==
  ASSUME OtherTypes, UNCHANGED <<retried, tries, around, history>>
  PROVE  OtherTypes'
  BY DEF OtherTypes, around, given, history

\* The end of a turn leaves typed controls.
LEMMA TypeClose ==
  ASSUME ControlTypes, NEW r \in {"done", "stopped", "error"}, Close(r)
  PROVE  ControlTypes'
  <1>1. /\ stopReq' \in BOOLEAN /\ told' \in BOOLEAN /\ pauseWanted' \in BOOLEAN /\ tick' \in BOOLEAN
        /\ pausing' \in BOOLEAN /\ pauseStop' \in BOOLEAN /\ restarting' \in BOOLEAN
        /\ stale' \in BOOLEAN
    BY Zenon DEF ControlTypes, Close
  <1> QED BY <1>1 DEF ControlTypes, Close

\* So does the start of an attempt.
LEMMA TypeBegin ==
  ASSUME ControlTypes, Begin, pausing' \in BOOLEAN
  PROVE  ControlTypes'
  <1>1. /\ stopReq' \in BOOLEAN /\ told' \in BOOLEAN /\ tick' \in BOOLEAN
        /\ pauseStop' \in BOOLEAN /\ restarting' \in BOOLEAN /\ stale' \in BOOLEAN
    BY Zenon DEF ControlTypes, Begin
  <1>2. pauseWanted' \in BOOLEAN
    BY DEF Begin, WantsPause
  <1> QED BY <1>1, <1>2 DEF ControlTypes, Begin

\* So does the head of the loop.
LEMMA TypeGoRound ==
  ASSUME ControlTypes, NEW h \in {"none", "past"}, NEW p \in BOOLEAN, GoRound(h, p)
  PROVE  ControlTypes'
  <1>1. CASE Renew(h) /\ pausing' = p
    <2>1. /\ stopReq' \in BOOLEAN /\ told' \in BOOLEAN /\ pauseWanted' \in BOOLEAN
          /\ pausing' \in BOOLEAN /\ pauseStop' \in BOOLEAN /\ restarting' \in BOOLEAN
          /\ stale' \in BOOLEAN
      BY <1>1, Zenon DEF ControlTypes, Renew
    <2>2. tick' \in BOOLEAN
      BY <1>1 DEF ControlTypes, Renew
    <2> QED BY <1>1, <2>1, <2>2 DEF ControlTypes, Renew
  <1>2. CASE Begin /\ pausing' = p
    BY <1>2, TypeBegin
  <1>3. CASE Close("error")
    BY <1>3, TypeClose
  <1> QED BY <1>1, <1>2, <1>3 DEF GoRound

\* So does a wait.
LEMMA TypeParks ==
  ASSUME ControlTypes, NEW w \in {"waiting", "paused"}, Parks(w), stale' = stale, pausing' \in BOOLEAN
  PROVE  ControlTypes'
  <1>1. /\ stopReq' \in BOOLEAN /\ told' \in BOOLEAN /\ pauseWanted' \in BOOLEAN /\ tick' \in BOOLEAN
        /\ pauseStop' \in BOOLEAN /\ restarting' \in BOOLEAN /\ stale' \in BOOLEAN
    BY Zenon DEF ControlTypes, Parks
  <1> QED BY <1>1 DEF ControlTypes, Parks

LEMMA TypeGoesOn ==
  ASSUME ControlTypes, GoesOn
  PROVE  ControlTypes'
  BY TypeClose, TypeGoRound DEF GoesOn

\* The end of an attempt, by the driver or by the deadline.
LEMMA TypeAttemptEnds ==
  ASSUME TypeOK, NEW r \in Reports, AttemptEnds(r)
  PROVE  TypeOK'
  <1> ControlTypes /\ OtherTypes /\ pausing \in BOOLEAN
    BY TypeParts DEF ControlTypes
  <1>0. Status(r) \in {"done", "stopped", "error"}
    BY DEF Status, Reports
  <1>1. ControlTypes'
    <2>1. CASE AttemptStopped(r) \/ AttemptCloses(r)
      BY <1>0, <2>1, TypeClose DEF AttemptStopped, AttemptCloses
    <2>2. CASE AttemptLost(r) \/ AttemptReplaced(r)
      BY <2>2, TypeGoRound DEF AttemptLost, AttemptReplaced
    <2>3. CASE AttemptRefused(r)
      BY <2>3, TypeParks DEF AttemptRefused
    <2>4. CASE AttemptPaused(r)
      BY <2>4, TypeParks, TypeGoesOn DEF AttemptPaused
    <2> QED BY <2>1, <2>2, <2>3, <2>4 DEF AttemptEnds
  <1>2. UNCHANGED <<around, history>>
    BY DEF AttemptEnds
  <1>3. retried' \in BOOLEAN /\ tries' \in 0..Tries
    <2>1. CASE UNCHANGED <<retried, tries>>
      BY <2>1 DEF OtherTypes
    <2>2. CASE AttemptLost(r)
      BY <2>2 DEF AttemptLost, OtherTypes
    <2>3. CASE AttemptRefused(r)
      BY <2>3, BoundAssumption DEF AttemptRefused, Retries, OtherTypes
    <2> QED BY <2>1, <2>2, <2>3
        DEF AttemptEnds, AttemptStopped, AttemptPaused, AttemptReplaced, AttemptCloses
  <1>4. OtherTypes'
    BY <1>2, <1>3 DEF OtherTypes, around, given, history
  <1> QED BY <1>1, <1>4, TypePartsNext

\* Telling a driver to stop.
LEMMA TypeTell ==
  ASSUME ControlTypes, Tell
  PROVE  told' \in BOOLEAN /\ busy' \in {"no", "tool", "card"} /\ deadline' \in {"none", "armed", "killed"}
  BY DEF ControlTypes, Tell

\* The steps of the loop, of Stop and of the deadline.
LEMMA TypeLoop ==
  ASSUME TypeOK,
         OpeningEnds \/ GapEnds \/ Stop \/ DeadlineKills \/ DeadlineForces \/ WaitOver \/ CancelRetry
  PROVE  TypeOK'
  <1> ControlTypes /\ OtherTypes /\ pausing \in BOOLEAN
    BY TypeParts DEF ControlTypes
  <1> USE DEF around, given, history
  <1>1. CASE OpeningEnds
    <2>1. ControlTypes'
      BY <1>1, TypeClose, TypeGoRound DEF OpeningEnds
    <2>2. OtherTypes'
      BY <1>1, TypeOthers DEF OpeningEnds
    <2> QED BY <2>1, <2>2, TypePartsNext
  <1>2. CASE GapEnds
    <2>1. ControlTypes'
      BY <1>2, TypeClose, TypeBegin DEF GapEnds
    <2>2. OtherTypes'
      BY <1>2, TypeOthers DEF GapEnds
    <2> QED BY <2>1, <2>2, TypePartsNext
  <1>3. CASE Stop
    <2>1. CASE at \in {"waiting", "paused"} /\ Close("stopped") /\ accepted' = TRUE
               /\ UNCHANGED <<retried, tries, around, missed>>
      <3>1. OtherTypes'
        BY <2>1 DEF OtherTypes
      <3> QED BY <2>1, <3>1, TypeClose, TypePartsNext
    <2>2. CASE at = "live" /\ stopReq' = TRUE /\ pauseWanted' = FALSE /\ Tell /\ accepted' = TRUE
               /\ UNCHANGED <<at, outcome, handle, attempt, retried, tries, tick, pausing, pauseStop,
                             perms, around, missed>>
      <3>1. /\ stopReq' \in BOOLEAN /\ pauseWanted' \in BOOLEAN /\ accepted' \in BOOLEAN
            /\ tick' \in BOOLEAN /\ pausing' \in BOOLEAN /\ pauseStop' \in BOOLEAN
        BY <2>2, Zenon DEF ControlTypes
      <3>2. ControlTypes'
        BY <2>2, <3>1, TypeTell DEF ControlTypes, perms
      <3>3. OtherTypes'
        BY <2>2, <3>1 DEF OtherTypes
      <3> QED BY <3>2, <3>3, TypePartsNext
    <2>3. CASE at \in {"opening", "gap"} /\ pauseWanted' = FALSE
               /\ UNCHANGED <<at, outcome, handle, attempt, retried, tries, driver, tick, pausing,
                             pauseStop, perms, around>>
      <3>1. stopReq' \in BOOLEAN /\ accepted' \in BOOLEAN /\ missed' \in BOOLEAN
        BY <1>3, <2>3 DEF Stop, ControlTypes, OtherTypes
      <3>2. pauseWanted' \in BOOLEAN
        BY <2>3, Zenon
      <3>3. ControlTypes'
        BY <2>3, <3>1, <3>2 DEF ControlTypes, perms, driver
      <3>4. OtherTypes'
        BY <2>3, <3>1 DEF OtherTypes
      <3> QED BY <3>3, <3>4, TypePartsNext
    <2> QED BY <1>3, <2>1, <2>2, <2>3 DEF Stop
  <1>4. CASE DeadlineKills
    BY <1>4 DEF DeadlineKills, TypeOK, loop, pause, perms
  <1>5. CASE DeadlineForces
    BY <1>5, TypeAttemptEnds DEF DeadlineForces, Reports
  <1>6. CASE WaitOver \/ CancelRetry
    <2>1. ControlTypes'
      BY <1>6, TypeClose, TypeGoRound DEF WaitOver, CancelRetry
    <2>2. OtherTypes'
      BY <1>6, TypeOthers DEF WaitOver, CancelRetry
    <2> QED BY <2>1, <2>2, TypePartsNext
  <1> QED BY <1>1, <1>2, <1>3, <1>4, <1>5, <1>6

\* The pause of the turn and the update behind it.
LEMMA TypePause ==
  ASSUME TypeOK, PauseTick \/ UpdateAsked \/ UpdateRuns \/ UpdatePostponed \/ UpdateEnds
  PROVE  TypeOK'
  <1> ControlTypes /\ OtherTypes
    BY TypeParts
  <1> USE DEF around, given, history, loop, driver, pause, perms
  <1>0. PauseOver \/ NoPause => ControlTypes' /\ retried' \in BOOLEAN /\ tries' \in 0..Tries
    <2>1. CASE PauseOver
      BY <2>1, TypeGoesOn DEF PauseOver, OtherTypes
    <2>2. CASE NoPause
      BY <2>2 DEF NoPause, ControlTypes, OtherTypes
    <2> QED BY <2>1, <2>2
  <1>1. CASE PauseTick
    <2>1. tick' \in BOOLEAN /\ pauseWanted' \in BOOLEAN /\ pausing' \in BOOLEAN /\ pauseStop' \in BOOLEAN
      BY <1>1 DEF PauseTick, ControlTypes
    <2>2. told' \in BOOLEAN /\ busy' \in {"no", "tool", "card"} /\ deadline' \in {"none", "armed", "killed"}
      BY <1>1, TypeTell DEF PauseTick, ControlTypes
    <2> QED BY <1>1, <2>1, <2>2 DEF PauseTick, TypeOK
  <1>2. CASE UpdateAsked
    <2>1. tick' \in BOOLEAN /\ pauseWanted' \in BOOLEAN
      BY <1>2 DEF UpdateAsked, ToolBoundary, ControlTypes
    <2>2. updates' \in 0..MaxUpdates
      BY <1>2, BoundAssumption DEF UpdateAsked, TypeOK
    <2>3. busy' = busy
      BY <1>2 DEF UpdateAsked
    <2>4. UNCHANGED <<loop, deadline, told, pausing, pauseStop, perms, given, handing, stopping, changes, history>>
          /\ update' = "pause"
      BY <1>2 DEF UpdateAsked
    <2> QED BY <2>1, <2>2, <2>3, <2>4 DEF TypeOK
  <1>3. CASE UpdateRuns
    <2>1. stale' \in BOOLEAN
      BY <1>3 DEF UpdateRuns
    <2> QED BY <1>3, <2>1 DEF UpdateRuns, TypeOK
  <1>4. CASE UpdatePostponed
    <2>1. ControlTypes' /\ retried' \in BOOLEAN /\ tries' \in 0..Tries
      <3>1. CASE PauseOver
        BY <1>0, <3>1
      <3>2. CASE ~PauseOver
        <4>1. pauseWanted' \in BOOLEAN
          BY <1>4, <3>2, Zenon DEF UpdatePostponed
        <4> QED BY <1>4, <3>2, <4>1 DEF UpdatePostponed, ControlTypes, OtherTypes
      <3> QED BY <3>1, <3>2
    <2>2. OtherTypes'
      BY <1>4, <2>1 DEF UpdatePostponed, OtherTypes
    <2> QED BY <2>1, <2>2, TypePartsNext
  <1>5. CASE UpdateEnds
    <2>1. OtherTypes'
      BY <1>0, <1>5 DEF UpdateEnds, OtherTypes
    <2> QED BY <1>0, <1>5, <2>1, TypePartsNext DEF UpdateEnds
  <1> QED BY <1>1, <1>2, <1>3, <1>4, <1>5

\* The modes, the agent at work, and the core around the turn.
LEMMA TypeAround ==
  ASSUME TypeOK,
         \/ \E m \in Modes : ChangeMode(m)
         \/ SetterAnswers \/ ToolStarts \/ ToolEnds \/ Card \/ HandoffBegins \/ CoreStops
  PROVE  TypeOK'
  <1> ControlTypes /\ OtherTypes
    BY TypeParts
  <1> USE DEF around, given, history, loop, driver, pause, perms
  <1>1. ASSUME NEW m \in Modes, ChangeMode(m) PROVE TypeOK'
    <2>1. changes' \in 0..MaxChanges
      BY <1>1, BoundAssumption DEF ChangeMode, TypeOK
    <2>2. stale' \in BOOLEAN /\ restarting' \in BOOLEAN
      BY <1>1 DEF ChangeMode, Replace, ControlTypes
    <2>3. setting' \in Seq(Modes)
      <3>1. setting \in Seq(Modes) /\ Append(setting, m) \in Seq(Modes) /\ <<>> \in Seq(Modes)
        BY AppendProperties, EmptySeq DEF ControlTypes
      <3> QED BY <1>1, <3>1 DEF ChangeMode, Replace
    <2>4. told' \in BOOLEAN /\ busy' \in {"no", "tool", "card"} /\ deadline' \in {"none", "armed", "killed"}
      BY <1>1, TypeTell DEF ChangeMode, Replace, ControlTypes
    <2> QED BY <1>1, <2>1, <2>2, <2>3, <2>4 DEF ChangeMode, TypeOK
  <1>2. CASE SetterAnswers
    <2>1. setting' \in Seq(Modes) /\ applied' \in Modes
      <3>1. /\ setting \in Seq(Modes) /\ applied \in Modes /\ <<>> \in Seq(Modes)
            /\ setting # <<>> => Head(setting) \in Modes /\ Tail(setting) \in Seq(Modes)
        BY HeadTailProperties, EmptySeq DEF ControlTypes
      <3> QED BY <1>2, <3>1 DEF SetterAnswers, Replace
    <2>3. restarting' \in BOOLEAN
      BY <1>2 DEF SetterAnswers, Replace, ControlTypes
    <2>2. told' \in BOOLEAN /\ busy' \in {"no", "tool", "card"} /\ deadline' \in {"none", "armed", "killed"}
      BY <1>2, TypeTell DEF SetterAnswers, Replace, ControlTypes
    <2> QED BY <1>2, <2>1, <2>2, <2>3 DEF SetterAnswers, TypeOK
  <1>3. CASE ToolStarts \/ Card
    BY <1>3 DEF ToolStarts, Card, TypeOK
  <1>4. CASE ToolEnds
    <2>1. tick' \in BOOLEAN /\ pauseWanted' \in BOOLEAN
      BY <1>4 DEF ToolEnds, ToolBoundary, ControlTypes
    <2> QED BY <1>4, <2>1 DEF ToolEnds, TypeOK
  <1>5. CASE HandoffBegins
    <2>1. handing' \in BOOLEAN
      BY <1>5, Zenon DEF HandoffBegins
    <2> QED BY <1>5, <2>1 DEF HandoffBegins, TypeOK
  <1>6. CASE CoreStops
    <2>1. stopping' \in BOOLEAN
      BY <1>6, Zenon DEF CoreStops
    <2>2. ControlTypes' /\ retried' \in BOOLEAN /\ tries' \in 0..Tries
      <3>1. CASE PauseOver
        BY <3>1, TypeGoesOn DEF PauseOver, OtherTypes
      <3>2. CASE NoPause
        BY <3>2 DEF NoPause, ControlTypes, OtherTypes
      <3> QED BY <1>6, <3>1, <3>2 DEF CoreStops
    <2>3. OtherTypes'
      BY <1>6, <2>1, <2>2 DEF CoreStops, OtherTypes
    <2> QED BY <2>2, <2>3, TypePartsNext
  <1> QED BY <1>1, <1>2, <1>3, <1>4, <1>5, <1>6

LEMMA TypeStep == TypeOK /\ [Next]_vars => TypeOK'
  <1> SUFFICES ASSUME TypeOK, [Next]_vars PROVE TypeOK'
    OBVIOUS
  <1>1. CASE UNCHANGED vars
    BY <1>1 DEF vars, loop, driver, pause, perms, around, given, history, TypeOK
  <1>2. CASE Over
    BY <1>1, <1>2 DEF Over
  <1> QED BY <1>1, <1>2, TypeAttemptEnds, TypeLoop, TypePause, TypeAround DEF Next

(* Every variable of the loop keeps its type, whatever the driver reports. *)
THEOREM TypeCorrect == Spec => []TypeOK
  BY TypeInit, TypeStep, PTL DEF Spec

-----------------------------------------------------------------------------
(* The inductive invariant.                                                *)

\* An accepted Stop is remembered until the turn closes.
StopKept == accepted /\ at # "closed" => stopReq
\* A Stop ends the waits at once, and the capability is renewed for some threads only.
Places ==
  /\ at \in {"waiting", "paused"} => ~stopReq
  /\ at = "gap" => protected
  /\ at # "closed" => outcome = "none"
\* The setter's queue ends with the mode of the user.
QueueEnds ==
  at = "live" /\ ~restarting =>
    IF setting = <<>> THEN applied = mode ELSE setting[Len(setting)] = mode
\* A live attempt is told to stop for one of three reasons, which are remembered.
Reasons == at = "live" /\ told => stopReq \/ pausing \/ restarting

Decided == StopKept /\ Places /\ StopDecides
IInv == TypeOK /\ Decided /\ QueueEnds /\ Reasons

\* The turn goes on after an attempt or a wait: the places it may come to.
LEMMA GoRoundPlaces ==
  ASSUME NEW h, NEW p, GoRound(h, p)
  PROVE  \/ at' = "gap" /\ protected /\ UNCHANGED <<stopReq, outcome, attempt>>
         \/ at' = "live" /\ UNCHANGED <<stopReq, outcome>>
         \/ Close("error")
  BY DEF GoRound, Renew, Begin

LEMMA GoesOnPlaces ==
  ASSUME GoesOn
  PROVE  \/ at' = "gap" /\ protected /\ UNCHANGED <<stopReq, outcome, attempt>>
         \/ at' = "live" /\ UNCHANGED <<stopReq, outcome>>
         \/ Close("error")
         \/ stopping' /\ Close("stopped")
  BY GoRoundPlaces DEF GoesOn

LEMMA DecidedInit == Init => Decided
  BY DEF Init, Decided, StopKept, Places, StopDecides

\* A Stop decides the turn: no end of an attempt closes it otherwise.
LEMMA DecidedAttempt ==
  ASSUME Decided, NEW r \in Reports, AttemptEnds(r)
  PROVE  Decided'
  <1> USE DEF Decided, StopKept, Places, StopDecides, around, given, history
  <1>0. UNCHANGED <<accepted, protected, stopping>> /\ at = "live"
    BY DEF AttemptEnds
  <1>1. CASE AttemptStopped(r)
    BY <1>0, <1>1 DEF AttemptStopped, Close
  <1>2. CASE ~StopsTurn(r)
    <2>1. ~stopReq /\ ~accepted
      BY <1>0, <1>2 DEF StopsTurn
    <2>2. CASE AttemptLost(r) \/ AttemptReplaced(r)
      BY <1>0, <2>1, <2>2, GoRoundPlaces DEF AttemptLost, AttemptReplaced, Close
    <2>3. CASE AttemptRefused(r)
      BY <1>0, <2>1, <2>3 DEF AttemptRefused, Parks
    <2>4. CASE AttemptPaused(r)
      <3>1. CASE Parks("paused")
        BY <1>0, <2>1, <3>1 DEF Parks
      <3>2. CASE GoesOn
        BY <1>0, <2>1, <3>2, GoesOnPlaces DEF Close
      <3> QED BY <2>4, <3>1, <3>2 DEF AttemptPaused
    <2>5. CASE AttemptCloses(r)
      BY <1>0, <2>1, <2>5 DEF AttemptCloses, Close
    <2> QED BY <1>2, <2>2, <2>3, <2>4, <2>5 DEF AttemptEnds, AttemptStopped
  <1> QED BY <1>1, <1>2 DEF AttemptEnds, AttemptStopped, AttemptLost, AttemptRefused, AttemptPaused,
                            AttemptReplaced, AttemptCloses

\* Nor does any other step.
LEMMA DecidedStep == Decided /\ TypeOK /\ [Next]_vars => Decided'
  <1> SUFFICES ASSUME Decided, TypeOK, [Next]_vars PROVE Decided'
    OBVIOUS
  <1> USE DEF Decided, StopKept, Places, StopDecides, around, given, history, loop
  <1>1. CASE UNCHANGED vars \/ Over
    BY <1>1 DEF vars, Over
  <1>2. CASE OpeningEnds
    BY <1>2, GoRoundPlaces DEF OpeningEnds, Close
  <1>3. CASE GapEnds
    BY <1>3 DEF GapEnds, Begin, Close
  <1>4. CASE Stop
    <2>1. CASE at \in {"waiting", "paused"} /\ Close("stopped")
      BY <1>4, <2>1 DEF Stop, Close
    <2>2. CASE at \in {"live", "opening", "gap"}
      BY <1>4, <2>2 DEF Stop
    <2> QED BY <1>4, <2>1, <2>2 DEF Stop
  <1>5. CASE WaitOver \/ CancelRetry
    <2>1. at = "waiting" /\ ~stopReq /\ ~accepted /\ UNCHANGED <<accepted, protected>>
      BY <1>5 DEF WaitOver, CancelRetry
    <2>2. CASE Close("stopped") \/ Close("error")
      BY <2>1, <2>2 DEF Close
    <2>3. CASE GoRound("none", pausing)
      BY <2>1, <2>3, GoRoundPlaces DEF Close
    <2> QED BY <1>5, <2>2, <2>3 DEF WaitOver, CancelRetry
  <1>6. CASE DeadlineForces
    BY <1>6, DecidedAttempt DEF DeadlineForces, Reports
  <1>7. CASE UpdatePostponed \/ UpdateEnds \/ CoreStops
    <2>1. UNCHANGED <<accepted, protected>>
      BY <1>7 DEF UpdatePostponed, UpdateEnds, CoreStops
    <2>2. CASE PauseOver
      BY <2>1, <2>2, GoesOnPlaces DEF PauseOver, Close
    <2>3. CASE UNCHANGED loop
      BY <2>1, <2>3
    <2> QED BY <1>7, <2>2, <2>3 DEF UpdatePostponed, UpdateEnds, CoreStops, NoPause
  <1>8. CASE \/ DeadlineKills \/ PauseTick \/ UpdateAsked \/ UpdateRuns
             \/ \E m \in Modes : ChangeMode(m)
             \/ SetterAnswers \/ ToolStarts \/ ToolEnds \/ Card \/ HandoffBegins
    <2>1. UNCHANGED <<at, outcome, stopReq, accepted, protected>>
      <3>1. CASE DeadlineKills \/ PauseTick
        BY <3>1 DEF DeadlineKills, PauseTick
      <3>2. CASE UpdateAsked \/ UpdateRuns
        BY <3>2 DEF UpdateAsked, UpdateRuns
      <3>3. CASE SetterAnswers \/ \E m \in Modes : ChangeMode(m)
        BY <3>3 DEF SetterAnswers, ChangeMode
      <3>4. CASE ToolStarts \/ ToolEnds \/ Card \/ HandoffBegins
        BY <3>4 DEF ToolStarts, ToolEnds, Card, HandoffBegins
      <3> QED BY <1>8, <3>1, <3>2, <3>3, <3>4
    <2> QED BY <2>1
  <1> QED BY <1>1, <1>2, <1>3, <1>4, <1>5, <1>6, <1>7, <1>8, DecidedAttempt DEF Next

\* What the steps that go round the loop do to the modes and to the marks of a stop.
Started == at' = "live" => applied' = mode' /\ setting' = <<>> /\ ~restarting' /\ ~told'

LEMMA GoRoundStarts ==
  ASSUME NEW h, NEW p, GoRound(h, p)
  PROVE  Started
  BY DEF GoRound, Renew, Begin, Close, Started

\* A step that ends an attempt or a wait leaves no live attempt or a fresh one.
LEMMA LoopStarts ==
  ASSUME \/ OpeningEnds \/ GapEnds \/ WaitOver \/ CancelRetry \/ PauseOver \/ DeadlineForces
         \/ \E r \in Reports : AttemptEnds(r)
  PROVE  Started
  <1>1. CASE OpeningEnds \/ GapEnds
    BY <1>1, GoRoundStarts DEF OpeningEnds, GapEnds, Begin, Close, Started
  <1>2. CASE WaitOver \/ CancelRetry
    BY <1>2, GoRoundStarts DEF WaitOver, CancelRetry, Close, Started
  <1>3. CASE PauseOver
    BY <1>3, GoRoundStarts DEF PauseOver, GoesOn, Close, Started
  <1>4. ASSUME NEW r \in Reports, AttemptEnds(r) PROVE Started
    <2>1. CASE AttemptStopped(r) \/ AttemptCloses(r)
      BY <2>1 DEF AttemptStopped, AttemptCloses, Close, Started
    <2>2. CASE AttemptLost(r) \/ AttemptReplaced(r)
      BY <2>2, GoRoundStarts DEF AttemptLost, AttemptReplaced
    <2>3. CASE AttemptRefused(r)
      BY <2>3 DEF AttemptRefused, Parks, Started
    <2>4. CASE AttemptPaused(r)
      BY <2>4, GoRoundStarts DEF AttemptPaused, GoesOn, Parks, Close, Started
    <2> QED BY <1>4, <2>1, <2>2, <2>3, <2>4 DEF AttemptEnds
  <1> QED BY <1>1, <1>2, <1>3, <1>4 DEF DeadlineForces, Reports

LEMMA AboveOne == \A n \in Nat : n # 0 /\ n # 1 => n > 1
  OBVIOUS

\* The mode: the setter's queue ends with it, or the restart picks it up.
LEMMA QueueStep == TypeOK /\ QueueEnds /\ [Next]_vars => QueueEnds'
  <1> SUFFICES ASSUME TypeOK, QueueEnds, [Next]_vars, at' = "live", ~restarting'
               PROVE  IF setting' = <<>> THEN applied' = mode' ELSE setting'[Len(setting')] = mode'
    BY DEF QueueEnds
  <1> USE DEF QueueEnds, loop, perms
  <1>1. CASE UNCHANGED <<at, perms>>
    BY <1>1
  <1>2. CASE Started
    BY <1>2 DEF Started
  <1>3. ASSUME NEW m \in Modes, ChangeMode(m)
        PROVE  IF setting' = <<>> THEN applied' = mode' ELSE setting'[Len(setting')] = mode'
    <2>1. at = "live" /\ mode' = m /\ applied' = applied
      BY <1>3 DEF ChangeMode
    <2>2. ~restarting /\ setter
      BY <1>3, <2>1 DEF ChangeMode, Replace
    <2>3. setting' = Append(setting, m)
      BY <1>3, <2>1, <2>2 DEF ChangeMode
    <2>4. setting' # <<>> /\ setting'[Len(setting')] = m
      BY <2>3, AppendProperties DEF TypeOK
    <2> QED BY <2>1, <2>4
  <1>4. CASE SetterAnswers
    <2>1. /\ setting # <<>> /\ mode' = mode /\ applied' = Head(setting) /\ setting' = Tail(setting)
          /\ ~restarting
      BY <1>4 DEF SetterAnswers, Replace
    <2>2. setting \in Seq(Modes) /\ Len(setting) \in Nat /\ setting[Len(setting)] = mode
      BY <1>4, <2>1, LenProperties DEF TypeOK, SetterAnswers
    <2>3. CASE Len(setting) = 1
      BY <2>1, <2>2, <2>3, HeadTailProperties, EmptySeq
    <2>4. CASE Len(setting) # 1
      <3>0. Len(setting) # 0
        BY <2>1, <2>2, EmptySeq
      <3>1. Len(setting) > 1
        BY <2>2, <2>4, <3>0, AboveOne, Zenon
      <3>2. Tail(setting) \in Seq(Modes) /\ Len(Tail(setting)) = Len(setting) - 1
            /\ \A i \in 1..Len(Tail(setting)) : Tail(setting)[i] = setting[i + 1]
        BY <2>1, <2>2, HeadTailProperties
      <3>3. Tail(setting)[Len(setting) - 1] = setting[Len(setting)]
        BY <2>2, <3>1, <3>2
      <3>4. Tail(setting) # <<>>
        BY <2>2, <3>1, <3>2, EmptySeq
      <3> QED BY <2>1, <2>2, <3>2, <3>3, <3>4
    <2> QED BY <2>3, <2>4
  <1>5. CASE Stop
    BY <1>1, <1>5 DEF Stop, Close
  <1>6. CASE UpdatePostponed \/ UpdateEnds \/ CoreStops
    BY <1>1, <1>2, <1>6, LoopStarts DEF UpdatePostponed, UpdateEnds, CoreStops, NoPause
  <1>7. CASE DeadlineKills \/ PauseTick \/ UpdateAsked \/ UpdateRuns
    BY <1>1, <1>7 DEF DeadlineKills, PauseTick, UpdateAsked, UpdateRuns
  <1>8. CASE ToolStarts \/ ToolEnds \/ Card \/ HandoffBegins \/ Over \/ UNCHANGED vars
    BY <1>1, <1>8 DEF ToolStarts, ToolEnds, Card, HandoffBegins, Over, vars
  <1> QED BY <1>2, <1>3, <1>4, <1>5, <1>6, <1>7, <1>8, LoopStarts DEF Next

\* A live attempt's driver is told to stop with its reason, which outlives it.
LEMMA ReasonsStep == Reasons /\ [Next]_vars => Reasons'
  <1> SUFFICES ASSUME Reasons, [Next]_vars, at' = "live", told' PROVE stopReq' \/ pausing' \/ restarting'
    BY DEF Reasons
  <1> USE DEF Reasons, loop, perms, driver, pause
  <1>1. CASE UNCHANGED <<at, told, stopReq, pausing, restarting>>
    BY <1>1
  <1>2. CASE Started
    BY <1>2 DEF Started
  <1>3. CASE Stop
    BY <1>3 DEF Stop, Close
  <1>4. CASE PauseTick
    BY <1>4 DEF PauseTick
  <1>5. CASE SetterAnswers \/ \E m \in Modes : ChangeMode(m)
    BY <1>5 DEF SetterAnswers, ChangeMode, Replace
  <1>6. CASE UpdatePostponed \/ UpdateEnds \/ CoreStops
    BY <1>1, <1>2, <1>6, LoopStarts DEF UpdatePostponed, UpdateEnds, CoreStops, NoPause
  <1>7. CASE DeadlineKills \/ UpdateAsked \/ UpdateRuns
    BY <1>1, <1>7 DEF DeadlineKills, UpdateAsked, UpdateRuns
  <1>8. CASE ToolStarts \/ ToolEnds \/ Card \/ HandoffBegins \/ Over \/ UNCHANGED vars
    BY <1>1, <1>8 DEF ToolStarts, ToolEnds, Card, HandoffBegins, Over, vars
  <1> QED BY <1>2, <1>3, <1>4, <1>5, <1>6, <1>7, <1>8, LoopStarts DEF Next

LEMMA InvInit == Init => IInv
  BY TypeInit, DecidedInit DEF Init, IInv, QueueEnds, Reasons

LEMMA InvStep == IInv /\ [Next]_vars => IInv'
  BY TypeStep, DecidedStep, QueueStep, ReasonsStep DEF IInv

(* The invariant the theorems below rest on. *)
THEOREM Inductive == Spec => []IInv
  BY InvInit, InvStep, PTL DEF Spec

(* A turn whose Stop was accepted closes as stopped, whatever its driver    *)
(* reports and whichever retry, wait or pause the Stop met.                 *)
THEOREM StopHonoured == Spec => []StopDecides
  <1>1. IInv => StopDecides
    BY DEF IInv, Decided
  <1> QED BY <1>1, Inductive, PTL

(* The agent works on the user's mode, or the change is on its way to it.  *)
THEOREM ModeFollowed == Spec => []ModeFollows
  <1>1. IInv => ModeFollows
    BY DEF IInv, QueueEnds, ModeFollows
  <1> QED BY <1>1, Inductive, PTL

-----------------------------------------------------------------------------
(* What a step may do once a Stop was accepted, or one of the core's own   *)
(* stops went out.                                                         *)

\* The steps that end no attempt, no wait and no preparation start no attempt.
LEMMA OtherSteps ==
  ASSUME \/ DeadlineKills \/ PauseTick \/ UpdateAsked \/ UpdateRuns \/ NoPause
         \/ \E m \in Modes : ChangeMode(m)
         \/ SetterAnswers \/ ToolStarts \/ ToolEnds \/ Card \/ HandoffBegins \/ Over \/ UNCHANGED vars
  PROVE  UNCHANGED <<at, outcome, stopReq, attempt>>
  <1> USE DEF loop
  <1>1. CASE DeadlineKills \/ PauseTick \/ NoPause
    BY <1>1 DEF DeadlineKills, PauseTick, NoPause
  <1>2. CASE UpdateAsked \/ UpdateRuns
    BY <1>2 DEF UpdateAsked, UpdateRuns
  <1>3. CASE SetterAnswers \/ \E m \in Modes : ChangeMode(m)
    BY <1>3 DEF SetterAnswers, ChangeMode
  <1>4. CASE ToolStarts \/ ToolEnds \/ Card \/ HandoffBegins \/ Over \/ UNCHANGED vars
    BY <1>4 DEF ToolStarts, ToolEnds, Card, HandoffBegins, Over, vars
  <1> QED BY <1>1, <1>2, <1>3, <1>4

\* An update or the end of the core ends a pause, or leaves the loop alone.
LEMMA PauseSteps ==
  ASSUME UpdatePostponed \/ UpdateEnds \/ CoreStops
  PROVE  (at = "paused" /\ GoesOn) \/ UNCHANGED <<at, outcome, stopReq, attempt>>
  BY DEF UpdatePostponed, UpdateEnds, CoreStops, PauseOver, NoPause, loop

\* An attempt that ends with a Stop heard closes the turn.
LEMMA StoppedAttempt ==
  ASSUME NEW r \in Reports, AttemptEnds(r), StopsTurn(r)
  PROVE  Close("stopped")
  BY DEF AttemptEnds, AttemptStopped, AttemptLost, AttemptRefused, AttemptPaused, AttemptReplaced, AttemptCloses

\* With a Stop heard, no step starts an attempt but the renewal of a capability.
LEMMA StopStep == IInv /\ [Next]_vars /\ stopReq /\ at # "gap" => attempt' = attempt
  <1> SUFFICES ASSUME IInv, [Next]_vars, stopReq, at # "gap" PROVE attempt' = attempt
    OBVIOUS
  <1>0. at \notin {"waiting", "paused"}
    BY DEF IInv, Decided, Places
  <1>1. CASE OpeningEnds
    BY <1>1 DEF OpeningEnds, Close
  <1>2. ASSUME NEW r \in Reports, AttemptEnds(r) PROVE attempt' = attempt
    BY <1>2, StoppedAttempt DEF StopsTurn, Close
  <1>3. CASE DeadlineForces
    BY <1>2, <1>3 DEF DeadlineForces, Reports
  <1>4. CASE GapEnds \/ WaitOver \/ CancelRetry
    BY <1>0, <1>4 DEF GapEnds, WaitOver, CancelRetry
  <1>5. CASE Stop
    BY <1>5 DEF Stop, Close
  <1>6. CASE UpdatePostponed \/ UpdateEnds \/ CoreStops
    BY <1>0, <1>6, PauseSteps
  <1> QED BY <1>1, <1>2, <1>3, <1>4, <1>5, <1>6, OtherSteps DEF Next

(* No attempt starts once a Stop was accepted, whichever of the reasons to *)
(* go round the loop the last one ended with.                              *)
THEOREM NoneAfterStop == Spec => NoAttemptAfterStop
  <1>1. IInv /\ [Next]_vars => [stopReq /\ at # "gap" => attempt' = attempt]_vars
    BY StopStep
  <1> QED BY <1>1, Inductive, PTL DEF Spec, NoAttemptAfterStop

\* A stop of the core's own does not close the turn as stopped.
OwnStopHidden == at = "live" /\ told /\ ~stopReq /\ ~handing /\ ~stopping => outcome' # "stopped"

LEMMA OwnStopStep == IInv /\ [Next]_vars => OwnStopHidden
  <1> SUFFICES ASSUME IInv, [Next]_vars, at = "live", told, ~stopReq, ~handing, ~stopping
               PROVE  outcome' # "stopped"
    BY DEF OwnStopHidden
  <1>0. outcome = "none" /\ (pausing \/ restarting)
    BY DEF IInv, Decided, Places, Reasons
  <1>1. ASSUME NEW r \in Reports, AttemptEnds(r) PROVE outcome' # "stopped"
    <2>0. ~StopsTurn(r) /\ ~stopping'
      BY <1>1 DEF StopsTurn, Cut, AttemptEnds, around
    <2>1. CASE AttemptLost(r) \/ AttemptReplaced(r)
      BY <1>0, <2>1, GoRoundPlaces DEF AttemptLost, AttemptReplaced, Close
    <2>2. CASE AttemptRefused(r)
      BY <1>0, <2>2 DEF AttemptRefused, Parks
    <2>3. CASE AttemptPaused(r)
      BY <1>0, <2>0, <2>3, GoesOnPlaces DEF AttemptPaused, Parks, Close
    <2>4. CASE AttemptCloses(r)
      <3>1. r # "stopped" /\ outcome' = Status(r)
        BY <1>0, <2>4 DEF AttemptCloses, Close
      <3> QED BY <3>1 DEF Status
    <2> QED BY <1>1, <2>0, <2>1, <2>2, <2>3, <2>4 DEF AttemptEnds, AttemptStopped
  <1>2. CASE DeadlineForces
    BY <1>1, <1>2 DEF DeadlineForces, Reports
  <1>3. CASE OpeningEnds \/ GapEnds \/ WaitOver \/ CancelRetry
    BY <1>3 DEF OpeningEnds, GapEnds, WaitOver, CancelRetry
  <1>4. CASE Stop
    BY <1>0, <1>4 DEF Stop
  <1>5. CASE UpdatePostponed \/ UpdateEnds \/ CoreStops
    BY <1>0, <1>5, PauseSteps
  <1> QED BY <1>0, <1>1, <1>2, <1>3, <1>4, <1>5, OtherSteps DEF Next

(* The core's own stops, for an update or another mode, never surface as a *)
(* stopped turn.                                                           *)
THEOREM OwnStopsSilent == Spec => OwnStopsHidden
  <1>1. IInv /\ [Next]_vars => [OwnStopHidden]_vars
    BY OwnStopStep
  <1> QED BY <1>1, Inductive, PTL DEF Spec, OwnStopsHidden, OwnStopHidden

-----------------------------------------------------------------------------
(* Refinement: the loop as a runner of TurnLifecycle sees it.              *)

Running == {"live", "waiting", "paused"}
Verdict(r) == Close(r) /\ (stopReq => r = "stopped")

\* What a step of the loop of a turn without a capability comes to.
RunnerStep ==
  \/ UNCHANGED <<at, outcome, stopReq>>
  \/ at \in {"opening", "live"} /\ stopReq' = TRUE /\ UNCHANGED <<at, outcome>>
  \/ at = "opening" /\ ~stopReq /\ at' = "live" /\ UNCHANGED <<outcome, stopReq>>
  \/ at = "opening" /\ Close(IF stopReq THEN "stopped" ELSE "error")
  \/ at \in Running /\ at' \in Running /\ UNCHANGED <<outcome, stopReq>>
  \/ at \in Running /\ \E r \in {"done", "stopped", "error"} : Verdict(r)

\* Going on after an attempt or a wait that no Stop met.
LEMMA GoesOnStep ==
  ASSUME at \in Running, ~protected, ~stopReq, GoesOn \/ \E h, p : GoRound(h, p)
  PROVE  RunnerStep
  BY GoesOnPlaces, GoRoundPlaces DEF RunnerStep, Running, Verdict

LEMMA AttemptRunner ==
  ASSUME ~protected, NEW r \in Reports, AttemptEnds(r)
  PROVE  RunnerStep
  <1>0. at = "live"
    BY DEF AttemptEnds
  <1>1. CASE StopsTurn(r)
    BY <1>0, <1>1, StoppedAttempt DEF RunnerStep, Running, Verdict
  <1>2. CASE ~StopsTurn(r)
    <2>0. ~stopReq
      BY <1>2 DEF StopsTurn
    <2>1. CASE AttemptLost(r) \/ AttemptReplaced(r)
      <3>1. \E h, p : GoRound(h, p)
        BY <2>1 DEF AttemptLost, AttemptReplaced
      <3> QED BY <1>0, <2>0, <3>1, GoesOnStep DEF Running
    <2>2. CASE AttemptRefused(r)
      BY <1>0, <2>2 DEF AttemptRefused, Parks, RunnerStep, Running
    <2>3. CASE AttemptPaused(r)
      BY <1>0, <2>0, <2>3, GoesOnStep DEF AttemptPaused, Parks, RunnerStep, Running
    <2>4. CASE AttemptCloses(r)
      BY <1>0, <2>0, <2>4 DEF AttemptCloses, Status, Reports, RunnerStep, Running, Verdict
    <2> QED BY <1>2, <2>1, <2>2, <2>3, <2>4 DEF AttemptEnds, AttemptStopped
  <1> QED BY <1>1, <1>2

LEMMA RunnerSteps == IInv /\ [Next]_vars /\ ~protected => RunnerStep
  <1> SUFFICES ASSUME IInv, [Next]_vars, ~protected PROVE RunnerStep
    OBVIOUS
  <1>0. at # "gap" /\ (at \in {"waiting", "paused"} => ~stopReq)
    BY DEF IInv, Decided, Places
  <1>1. CASE OpeningEnds
    <2>1. CASE stopReq
      BY <1>1, <2>1 DEF OpeningEnds, RunnerStep
    <2>2. CASE ~stopReq
      BY <1>1, <2>2, GoRoundPlaces DEF OpeningEnds, RunnerStep
    <2> QED BY <2>1, <2>2
  <1>2. CASE DeadlineForces \/ \E r \in Reports : AttemptEnds(r)
    BY <1>2, AttemptRunner DEF DeadlineForces, Reports
  <1>3. CASE Stop
    BY <1>0, <1>3 DEF Stop, RunnerStep, Running, Verdict
  <1>4. CASE WaitOver
    <2>1. at = "waiting" /\ (Close("stopped") \/ \E h, p : GoRound(h, p))
      BY <1>4 DEF WaitOver
    <2>2. CASE Close("stopped")
      BY <2>1, <2>2 DEF RunnerStep, Running, Verdict
    <2> QED BY <1>0, <2>1, <2>2, GoesOnStep DEF Running
  <1>5. CASE CancelRetry
    BY <1>0, <1>5 DEF CancelRetry, RunnerStep, Running, Verdict
  <1>6. CASE UpdatePostponed \/ UpdateEnds \/ CoreStops
    <2>1. CASE at = "paused" /\ GoesOn
      BY <1>0, <2>1, GoesOnStep DEF Running
    <2> QED BY <1>6, <2>1, PauseSteps DEF RunnerStep
  <1>7. CASE GapEnds
    BY <1>0, <1>7 DEF GapEnds
  <1> QED BY <1>1, <1>2, <1>3, <1>4, <1>5, <1>6, <1>7, OtherSteps DEF Next, RunnerStep

\* What a step comes to for the runner: nothing, for a turn with a capability.
LEMMA GivenStep == [Next]_vars => protected' = protected
  <1> USE DEF around, given
  <1>1. ASSUME NEW r \in Reports, AttemptEnds(r) PROVE protected' = protected
    BY <1>1 DEF AttemptEnds
  <1>2. CASE DeadlineForces
    BY <1>1, <1>2 DEF DeadlineForces, Reports
  <1>3. CASE OpeningEnds \/ GapEnds \/ WaitOver \/ CancelRetry \/ Stop
    BY <1>3 DEF OpeningEnds, GapEnds, WaitOver, CancelRetry, Stop
  <1>4. CASE DeadlineKills \/ PauseTick \/ UpdateAsked \/ UpdateRuns
    BY <1>4 DEF DeadlineKills, PauseTick, UpdateAsked, UpdateRuns
  <1>5. CASE UpdatePostponed \/ UpdateEnds \/ CoreStops
    BY <1>5 DEF UpdatePostponed, UpdateEnds, CoreStops
  <1>6. CASE SetterAnswers \/ \E m \in Modes : ChangeMode(m)
    BY <1>6 DEF SetterAnswers, ChangeMode
  <1>7. CASE ToolStarts \/ ToolEnds \/ Card \/ HandoffBegins \/ Over \/ UNCHANGED vars
    BY <1>7 DEF ToolStarts, ToolEnds, Card, HandoffBegins, Over, vars
  <1> QED BY <1>1, <1>2, <1>3, <1>4, <1>5, <1>6, <1>7 DEF Next

(* The loop of a turn that needs no capability implements the runner that  *)
(* TurnLifecycle takes for granted: it closes once, it hears a Stop until  *)
(* then, and a Stop it heard decides.                                      *)
THEOREM RunRefined == Spec => ImplementsRun
  <1> DEFINE Phase == IF protected \/ at = "opening" THEN "preparing"
                      ELSE IF at = "closed" THEN "closing" ELSE "attempt"
             Heard == stopReq /\ ~protected
             Result == IF protected THEN "none" ELSE outcome
  <1>1. Init => Run!Init
    BY DEF Init, Run!Init
  <1>2. IInv /\ [Next]_vars => [Run!Next]_<<Phase, Heard, Result>>
    <2> SUFFICES ASSUME IInv, [Next]_vars PROVE [Run!Next]_<<Phase, Heard, Result>>
      OBVIOUS
    <2>0. protected' = protected
      BY GivenStep
    <2>1. CASE protected
      BY <2>0, <2>1
    <2>2. CASE ~protected
      <3>0. stopReq \in BOOLEAN /\ RunnerStep
        BY <2>2, RunnerSteps DEF IInv, TypeOK
      <3>1. CASE UNCHANGED <<at, outcome, stopReq>>
        BY <2>0, <3>1
      <3>2. CASE at \in {"opening", "live"} /\ stopReq' = TRUE /\ UNCHANGED <<at, outcome>>
        BY <2>0, <2>2, <3>2 DEF Run!Next, Run!Stop
      <3>3. CASE at = "opening" /\ ~stopReq /\ at' = "live" /\ UNCHANGED <<outcome, stopReq>>
        BY <2>0, <2>2, <3>3 DEF Run!Next, Run!Attach
      <3>4. CASE at = "opening" /\ Close(IF stopReq THEN "stopped" ELSE "error")
        BY <2>0, <2>2, <3>4 DEF Close, Run!Next, Run!PreparationEnds, Run!Closes
      <3>5. CASE at \in Running /\ at' \in Running /\ UNCHANGED <<outcome, stopReq>>
        BY <2>0, <2>2, <3>5 DEF Running
      <3>6. ASSUME NEW r \in {"done", "stopped", "error"}, at \in Running, Verdict(r)
            PROVE  Run!AttemptEnds
        BY <2>0, <2>2, <3>6 DEF Running, Verdict, Close, Run!AttemptEnds, Run!Closes, Run!Closed
      <3> QED BY <3>0, <3>1, <3>2, <3>3, <3>4, <3>5, <3>6 DEF RunnerStep, Run!Next
    <2> QED BY <2>1, <2>2
  <1> QED BY <1>1, <1>2, Inductive, PTL DEF Spec, ImplementsRun, Run!Spec, Run!vars

-----------------------------------------------------------------------------
(* The queue of a conversation: what its copies, its record, its journals  *)
(* and its pump have to do with each other.                                *)

\* An input stands once in a queue; one stands before another.
Distinct(queue) == \A k, l \in DOMAIN queue : queue[k].id = queue[l].id => k = l
Before(queue, i, j) == \E k, l \in DOMAIN queue : k < l /\ queue[k].id = i /\ queue[l].id = j
\* Whoever shows the input shows it with a request the core may have.
Asks(queue, i) == \A k \in DOMAIN queue : queue[k].id = i => queue[k].asked = "sent"

\* The inputs a device's copy has of the record it last saw stand in the
\* record's order, and next to each other.
Follows(queue, base) ==
  /\ \A i, j \in Ids(base) : Before(queue, i, j) => Before(base, i, j)
  /\ \A i, j \in Ids(base), x \in Items \ Ids(base) : ~(Before(queue, i, x) /\ Before(queue, x, j))

Steering == pc \in {"steer", "steered"}
AllSent(i) ==
  /\ \A d \in Devices : Asks(local[d].queue, i) /\ Asks(known[d].queue, i)
  /\ Asks(rec.queue, i) /\ Asks(captured, i)
Nowhere(i) ==
  /\ \A d \in Devices : i \notin Ids(local[d].queue) /\ i \notin Ids(known[d].queue)
  /\ i \notin Ids(rec.queue) /\ i \notin Ids(captured)

\* The copies.
InStep == \A d \in Devices : known[d].current => Value(known[d]) = rec
Single == /\ \A d \in Devices : Distinct(local[d].queue) /\ Distinct(known[d].queue)
          /\ Distinct(rec.queue)
Ordered == \A d \in Devices : Follows(local[d].queue, known[d].queue)

\* The pump.
Placed ==
  /\ ~up => pc = "idle"
  /\ captured # <<>> <=> pc \in {"discover", "steer", "steered"}
  /\ pc = "discover" => Len(captured) = 1 \/ \A k \in DOMAIN captured : Plain(captured[k])
  /\ Steering => \A k \in DOMAIN captured : Plain(captured[k])
  /\ Steering => Ids(captured) \subseteq Ids(rec.queue)
  /\ Steering => \A x, i \in Items : Before(rec.queue, x, i) /\ i \in Ids(captured) \ overtaken
                    => x \in Ids(captured)

\* The journals.
Untold == \A i \in Items : start[i] \in {"no", "flying"} =>
            Nowhere(i) /\ handed[i] = 0 /\ delivery[i] = "none" /\ receipt[i] = "none"
Late == \A i \in Items : start[i] = "late" =>
          AllSent(i) /\ receipt[i] \in {"none", "started"} /\ (delivery[i] # "none" => receipt[i] = "started")
Begun == \A i \in Items : receipt[i] = "started" =>
           AllSent(i) \/ (delivery[i] = "delivered" /\ i \notin Ids(rec.queue) /\ i \notin Ids(captured))
Submitting ==
  /\ \A i \in Items : delivery[i] = "submitting" => receipt[i] \in {"pending", "accepted"}
  /\ \A i \in Items : up /\ delivery[i] = "submitting" => Steering /\ i \in Ids(captured)
  /\ Steering => \A i \in Ids(captured) : delivery[i] = "submitting"
  /\ pc = "steered" => \A i \in Ids(captured) : receipt[i] = "accepted"
  /\ pc = "discover" => \A i \in Ids(captured) \ overtaken : delivery[i] = "none"
\* What reached an agent.
Reached ==
  /\ \A i \in Items : receipt[i] \in {"accepted", "started"} \/ delivery[i] = "delivered" => handed[i] > 0
  /\ Steering /\ took => \A i \in Ids(captured) : handed[i] > 0
  /\ pc = "steered" => took
\* What stands in the queue that may go.
Goable == ~rec.paused =>
  /\ \A i, j \in Items : Before(rec.queue, i, j) /\ j \notin overtaken /\ delivery[j] # "none"
       => delivery[i] # "none"
  /\ Steering => \A i \in Ids(rec.queue) \ overtaken : delivery[i] # "none" => i \in Ids(captured)
Marked == \A i \in Items \ overtaken : handed[i] > 0 =>
  \/ receipt[i] = "started"
  \/ delivery[i] # "none" /\ (delivery[i] = "submitting" /\ pc = "steer" => took)

\* What a copy lacks.
Lacks ==
  /\ \A d \in Devices, i \in Items :
       i \in Ids(known[d].queue) /\ i \notin Ids(local[d].queue) => gone[i] # "no"
  /\ \A d \in Devices, i \in Items :
       i \in Ids(known[d].queue) /\ i \notin Ids(rec.queue) => gone[i] # "no" \/ handed[i] > 0

Copies == InStep /\ Single /\ Ordered
Told == Untold /\ Late /\ Begun
Reach == Submitting /\ Reached /\ Goable /\ Marked /\ HandedOnce
Lost == Lacks /\ NothingIsLost

OutboxInv == QueueTypeOK /\ Copies /\ Placed /\ Told /\ Reach /\ Lost

-----------------------------------------------------------------------------
(* Numbers.                                                                *)

\* A set of numbers has a least one.
LEMMA LeastNumber ==
  ASSUME NEW T, T \subseteq Nat, T # {}
  PROVE  \E k \in T : \A j \in T : k <= j
<1> DEFINE R == OpToRel(<, Nat)
<1>1. IsWellFoundedOn(R, Nat)
  BY NatLessThanWellFounded
<1>2. PICK k \in T : \A j \in T : ~ (<<j, k>> \in R)
  <2> HIDE DEF R
  <2> QED BY <1>1, WFMin
<1>3. R = {ss \in Nat \X Nat : ss[1] < ss[2]}
  BY Zenon DEF OpToRel
<1>4. ASSUME NEW j \in T
      PROVE  k <= j
  <2> HIDE DEF R
  <2>1. j < k => <<j, k>> \in R
    BY <1>3
  <2> QED BY <1>2, <2>1
<1> QED BY <1>4

\* Induction over the lengths 0 .. n.
LEMMA UpTo ==
  ASSUME NEW n \in Nat, NEW T, 0 \in T, \A m \in 1 .. n : m - 1 \in T => m \in T
  PROVE  0 .. n \subseteq T
<1> SUFFICES ASSUME NEW x \in 0 .. n, x \notin T
             PROVE  FALSE
  OBVIOUS
<1> DEFINE U == {m \in 0 .. n : m \notin T}
<1>1. PICK k \in U : \A j \in U : k <= j
  <2>1. x \in U /\ U \subseteq Nat
    OBVIOUS
  <2> HIDE DEF U
  <2> QED BY <2>1, LeastNumber
<1>2. k # 0
  OBVIOUS
<1>3. k - 1 \in 0 .. n /\ k \in 1 .. n
  BY <1>1, <1>2
<1>4. k - 1 \notin U
  BY <1>1, <1>3
<1> QED BY <1>1, <1>3, <1>4

-----------------------------------------------------------------------------
(* Queues.                                                                 *)

\* What one needs to know of a sequence of entries.
LEMMA QueueFacts ==
  ASSUME NEW q \in Queues
  PROVE  /\ Len(q) \in Nat /\ DOMAIN q = 1 .. Len(q)
         /\ \A k \in DOMAIN q : q[k] \in Entries /\ q[k].id \in Items
         /\ Ids(q) \subseteq Items
         /\ q = <<>> <=> Len(q) = 0
<1>1. Len(q) \in Nat /\ DOMAIN q = 1 .. Len(q)
  BY LenProperties DEF Queues
<1>2. \A k \in DOMAIN q : q[k] \in Entries
  BY <1>1, ElementOfSeq DEF Queues
<1>3. \A e \in Entries : e.id \in Items
  BY DEF Entries
<1>4. Ids(q) \subseteq Items
  BY <1>2, <1>3 DEF Ids
<1>5. q = <<>> <=> Len(q) = 0
  BY EmptySeq DEF Queues
<1> QED BY <1>1, <1>2, <1>3, <1>4, <1>5

LEMMA EmptyQueue ==
  /\ <<>> \in Queues /\ Ids(<<>>) = {} /\ Distinct(<<>>)
  /\ \A i, j : ~ Before(<<>>, i, j)
  /\ \A i : Asks(<<>>, i)
<1>1. DOMAIN <<>> = {} /\ <<>> \in Queues
  BY EmptySeq DEF Queues
<1> QED BY <1>1 DEF Ids, Distinct, Before, Asks

\* r keeps entries of the first n of q, in their order and once each, and all
\* those whose input is not in S.
Sifted(r, q, n, S) ==
  /\ r \in Queues
  /\ \A a \in DOMAIN r : r[a].id \notin S /\ \E k \in 1 .. n : q[k] = r[a]
  /\ \A a, b \in DOMAIN r : a < b => \E k, l \in 1 .. n : k < l /\ q[k] = r[a] /\ q[l] = r[b]
  /\ \A k \in 1 .. n : q[k].id \notin S => \E a \in DOMAIN r : r[a] = q[k]

LEMMA SiftNext ==
  ASSUME NEW q \in Queues, NEW n \in 1 .. Len(q), NEW S, NEW r, Sifted(r, q, n - 1, S)
  PROVE  /\ q[n].id \in S => Sifted(r, q, n, S)
         /\ q[n].id \notin S => Sifted(Append(r, q[n]), q, n, S)
<1>1. Len(q) \in Nat /\ q[n] \in Entries /\ n \in Nat /\ n - 1 \in Nat /\ r \in Queues
  BY QueueFacts DEF Sifted
<1>2. Len(r) \in Nat /\ DOMAIN r = 1 .. Len(r)
  BY <1>1, QueueFacts
<1>3. \A k : k \in 1 .. n <=> k \in 1 .. (n - 1) \/ k = n
  BY <1>1
<1>4. \A k \in 1 .. (n - 1) : k \in 1 .. n /\ k < n
  BY <1>1
<1>5. n \in 1 .. n
  BY <1>1
<1>6. q[n].id \in S => Sifted(r, q, n, S)
  BY <1>1, <1>3, <1>4 DEF Sifted
<1>7. ASSUME q[n].id \notin S PROVE Sifted(Append(r, q[n]), q, n, S)
  <2> DEFINE t == Append(r, q[n])
  <2>1. /\ t \in Queues /\ Len(t) = Len(r) + 1
        /\ (\A a \in 1 .. Len(r) : t[a] = r[a]) /\ t[Len(r) + 1] = q[n]
    BY <1>1, AppendProperties DEF Queues
  <2>2. DOMAIN t = 1 .. (Len(r) + 1)
    BY <2>1, QueueFacts
  <2> HIDE DEF t
  <2>3. \A a \in DOMAIN t : (a \in DOMAIN r /\ t[a] = r[a]) \/ (a = Len(r) + 1 /\ t[a] = q[n])
    BY <1>2, <2>1, <2>2
  <2>4. \A a \in DOMAIN r : a \in DOMAIN t /\ t[a] = r[a] /\ a < Len(r) + 1
    BY <1>2, <2>1, <2>2
  <2>5. \A a \in DOMAIN t : t[a].id \notin S /\ \E k \in 1 .. n : q[k] = t[a]
    BY <1>4, <1>5, <1>7, <2>3 DEF Sifted
  <2>6. ASSUME NEW a \in DOMAIN t, NEW b \in DOMAIN t, a < b
        PROVE  \E k, l \in 1 .. n : k < l /\ q[k] = t[a] /\ q[l] = t[b]
    <3>1. a \in DOMAIN r /\ t[a] = r[a]
      BY <1>2, <2>2, <2>3, <2>6
    <3>2. CASE b \in DOMAIN r /\ t[b] = r[b]
      <4>1. PICK k \in 1 .. (n - 1), l \in 1 .. (n - 1) : k < l /\ q[k] = r[a] /\ q[l] = r[b]
        BY <2>6, <3>1, <3>2 DEF Sifted
      <4> QED BY <1>4, <3>1, <3>2, <4>1
    <3>3. CASE t[b] = q[n]
      <4>1. PICK k \in 1 .. (n - 1) : q[k] = r[a]
        BY <3>1 DEF Sifted
      <4> QED BY <1>4, <1>5, <3>1, <3>3, <4>1
    <3> QED BY <2>3, <3>2, <3>3
  <2>7. \A k \in 1 .. n : q[k].id \notin S => \E a \in DOMAIN t : t[a] = q[k]
    <3>1. Len(r) + 1 \in DOMAIN t
      BY <1>2, <2>2
    <3> QED BY <1>3, <2>1, <2>4, <3>1 DEF Sifted
  <2>8. Sifted(t, q, n, S)
    BY <2>1, <2>5, <2>6, <2>7 DEF Sifted
  <2> QED BY <2>8 DEF t
<1> QED BY <1>6, <1>7

\* The function Without is defined with exists.
Sieve(f, q, S) == f = [n \in 0 .. Len(q) |->
                         IF n = 0 THEN <<>>
                         ELSE IF q[n].id \in S THEN f[n - 1] ELSE Append(f[n - 1], q[n])]

LEMMA SieveExists ==
  ASSUME NEW q \in Queues, NEW S
  PROVE  \E f : Sieve(f, q, S)
<1> DEFINE Body(f, n) == IF n = 0 THEN <<>>
                         ELSE IF q[n].id \in S THEN f[n - 1] ELSE Append(f[n - 1], q[n])
<1> DEFINE T == {m \in 0 .. Len(q) : \E f : f = [n \in 0 .. m |-> Body(f, n)]}
<1>1. Len(q) \in Nat
  BY QueueFacts
<1>2. 0 \in T
  <2> DEFINE f == [n \in 0 .. 0 |-> <<>>]
  <2>1. f = [n \in 0 .. 0 |-> Body(f, n)]
    OBVIOUS
  <2>2. \E g : g = [n \in 0 .. 0 |-> Body(g, n)]
    BY <2>1
  <2> QED BY <1>1, <2>2
<1>3. ASSUME NEW m \in 1 .. Len(q), m - 1 \in T PROVE m \in T
  <2>1. PICK g : g = [n \in 0 .. (m - 1) |-> Body(g, n)]
    BY <1>3
  <2> DEFINE f == [n \in 0 .. m |-> IF n < m THEN g[n] ELSE Body(g, m)]
  <2>2. ASSUME NEW n \in 0 .. m PROVE f[n] = Body(f, n)
    <3>1. CASE n < m
      <4>1. f[n] = g[n] /\ n \in 0 .. (m - 1)
        BY <1>1, <3>1
      <4>2. g[n] = Body(g, n)
        BY <2>1, <4>1
      <4>3. n # 0 => f[n - 1] = g[n - 1]
        BY <1>1, <3>1
      <4> QED BY <4>1, <4>2, <4>3
    <3>2. CASE n = m
      <4>1. f[n] = Body(g, m)
        BY <1>1, <3>2
      <4>2. f[m - 1] = g[m - 1]
        BY <1>1
      <4> QED BY <1>1, <3>2, <4>1, <4>2
    <3> QED BY <1>1, <3>1, <3>2
  <2>3. f = [n \in 0 .. m |-> Body(f, n)]
    BY <2>2
  <2>4. \E h : h = [n \in 0 .. m |-> Body(h, n)]
    BY <2>3
  <2> QED BY <1>1, <2>4
<1>4. 0 .. Len(q) \subseteq T
  <2> HIDE DEF T
  <2> QED BY <1>1, <1>2, <1>3, UpTo
<1>5. Len(q) \in T
  BY <1>1, <1>4
<1> QED BY <1>5 DEF Sieve

LEMMA SiftedWhole ==
  ASSUME NEW q \in Queues, NEW S
  PROVE  Sifted(Without(q, S), q, Len(q), S)
<1> DEFINE f == CHOOSE g : Sieve(g, q, S)
<1>1. Sieve(f, q, S)
  BY SieveExists
<1>2. Without(q, S) = f[Len(q)]
  BY DEF Without, Sieve
<1> HIDE DEF f
<1> DEFINE T == {n \in 0 .. Len(q) : Sifted(f[n], q, n, S)}
<1>3. Len(q) \in Nat
  BY QueueFacts
<1>4. 0 \in T
  <2>1. f[0] = <<>>
    BY <1>1, <1>3 DEF Sieve
  <2>2. DOMAIN <<>> = {} /\ 1 .. 0 = {} /\ <<>> \in Queues
    BY EmptyQueue
  <2>3. Sifted(<<>>, q, 0, S)
    BY <2>2 DEF Sifted
  <2> QED BY <1>3, <2>1, <2>3
<1>5. ASSUME NEW m \in 1 .. Len(q), m - 1 \in T PROVE m \in T
  <2>1. Sifted(f[m - 1], q, m - 1, S)
    BY <1>5
  <2>2. f[m] = IF q[m].id \in S THEN f[m - 1] ELSE Append(f[m - 1], q[m])
    <3>1. m \in 0 .. Len(q) /\ m # 0
      BY <1>3
    <3> QED BY <1>1, <3>1, Zenon DEF Sieve
  <2>3. Sifted(f[m], q, m, S)
    BY <2>1, <2>2, SiftNext
  <2> QED BY <1>3, <2>3
<1>6. 0 .. Len(q) \subseteq T
  <2> HIDE DEF T
  <2> QED BY <1>3, <1>4, <1>5, UpTo
<1> QED BY <1>2, <1>3, <1>6

\* A queue some inputs are taken out of keeps the others as they stood.
Shortens(r, q, S) ==
  /\ r \in Queues /\ Ids(r) = Ids(q) \ S
  /\ Distinct(q) => Distinct(r)
  /\ \A i, j : Before(r, i, j) => Before(q, i, j)
  /\ \A i : Asks(q, i) => Asks(r, i)

LEMMA WithoutShortens ==
  ASSUME NEW q \in Queues, NEW S
  PROVE  Shortens(Without(q, S), q, S) /\ ToSet(Without(q, S)) \subseteq ToSet(q)
<1> DEFINE r == Without(q, S)
<1>1. Sifted(r, q, Len(q), S)
  BY SiftedWhole
<1> HIDE DEF r
<1>2. Len(q) \in Nat /\ DOMAIN q = 1 .. Len(q)
  BY QueueFacts
<1>3. r \in Queues
  BY <1>1 DEF Sifted
<1>4. Len(r) \in Nat /\ DOMAIN r = 1 .. Len(r)
  BY <1>3, QueueFacts
<1>5. Ids(r) = Ids(q) \ S
  BY <1>1, <1>2 DEF Sifted, Ids
<1>6. ASSUME Distinct(q) PROVE Distinct(r)
  <2> SUFFICES ASSUME NEW a \in DOMAIN r, NEW b \in DOMAIN r, r[a].id = r[b].id, a < b
               PROVE  FALSE
    BY <1>4 DEF Distinct
  <2>1. PICK k \in 1 .. Len(q), l \in 1 .. Len(q) : k < l /\ q[k] = r[a] /\ q[l] = r[b]
    BY <1>1 DEF Sifted
  <2> QED BY <1>2, <1>6, <2>1 DEF Distinct
<1>7. ASSUME NEW i, NEW j, Before(r, i, j) PROVE Before(q, i, j)
  <2>1. PICK a \in DOMAIN r, b \in DOMAIN r : a < b /\ r[a].id = i /\ r[b].id = j
    BY <1>7 DEF Before
  <2>2. PICK k \in 1 .. Len(q), l \in 1 .. Len(q) : k < l /\ q[k] = r[a] /\ q[l] = r[b]
    BY <1>1, <2>1 DEF Sifted
  <2> QED BY <1>2, <2>1, <2>2 DEF Before
<1>8. ASSUME NEW i, Asks(q, i) PROVE Asks(r, i)
  BY <1>1, <1>2, <1>8 DEF Sifted, Asks
<1>9. ToSet(r) \subseteq ToSet(q)
  BY <1>1, <1>2 DEF Sifted, ToSet
<1>10. Shortens(r, q, S)
  BY <1>3, <1>5, <1>6, <1>7, <1>8 DEF Shortens
<1> QED BY <1>9, <1>10 DEF r

LEMMA BeforeIds ==
  ASSUME NEW q, NEW i, NEW j, Before(q, i, j)
  PROVE  i \in Ids(q) /\ j \in Ids(q)
  BY DEF Before, Ids

\* Two inputs of a queue stand in one order.
LEMMA OneOrder ==
  ASSUME NEW q \in Queues, Distinct(q), NEW i, NEW j, Before(q, i, j)
  PROVE  i # j /\ ~ Before(q, j, i)
<1>1. DOMAIN q = 1 .. Len(q) /\ Len(q) \in Nat
  BY QueueFacts
<1> QED BY <1>1 DEF Before, Distinct

LEMMA FirstBefore ==
  ASSUME NEW q \in Queues, q # <<>>
  PROVE  /\ 1 \in DOMAIN q /\ q[1].id \in Ids(q) /\ Head(q) = q[1]
         /\ \A j \in Ids(q) : j # q[1].id => Before(q, q[1].id, j)
<1>1. DOMAIN q = 1 .. Len(q) /\ Len(q) \in Nat /\ Len(q) # 0
  BY QueueFacts
<1>2. 1 \in DOMAIN q /\ \A k \in DOMAIN q : k # 1 => 1 < k
  BY <1>1
<1>3. Head(q) = q[1]
  BY <1>1
<1> QED BY <1>2, <1>3 DEF Ids, Before

\* The same inputs in the same order, one asked for still asked for.
LEMMA MarkedShortens ==
  ASSUME NEW q \in Queues, NEW r \in Queues, DOMAIN r = DOMAIN q,
         \A k \in DOMAIN q : r[k].id = q[k].id /\ (q[k].asked = "sent" => r[k].asked = "sent")
  PROVE  Shortens(r, q, {})
<1>1. Ids(r) = Ids(q) /\ (Distinct(q) => Distinct(r))
  BY DEF Ids, Distinct
<1>2. \A i, j : Before(r, i, j) => Before(q, i, j)
  BY DEF Before
<1>3. \A i : Asks(q, i) => Asks(r, i)
  BY DEF Asks
<1> QED BY <1>1, <1>2, <1>3 DEF Shortens

LEMMA FailingEntry ==
  ASSUME NEW e \in Entries
  PROVE  /\ Failing(e) \in Entries /\ Failing(e).id = e.id
         /\ e.asked = "sent" => Failing(e).asked = "sent"
  BY DEF Failing, Entries

LEMMA MapQueue ==
  ASSUME NEW q \in Queues, NEW T
  PROVE  LET r == [k \in DOMAIN q |-> IF q[k].id \in T THEN Failing(q[k]) ELSE q[k]]
         IN  r \in Queues /\ DOMAIN r = DOMAIN q /\ Shortens(r, q, {})
<1> DEFINE r == [k \in DOMAIN q |-> IF q[k].id \in T THEN Failing(q[k]) ELSE q[k]]
<1>1. Len(q) \in Nat /\ DOMAIN q = 1 .. Len(q) /\ \A k \in DOMAIN q : q[k] \in Entries
  BY QueueFacts
<1>2. \A k \in DOMAIN q : r[k] \in Entries /\ r[k].id = q[k].id /\ (q[k].asked = "sent" => r[k].asked = "sent")
  BY <1>1, FailingEntry
<1>3. r \in [1 .. Len(q) -> Entries]
  BY <1>1, <1>2
<1>4. DOMAIN r = DOMAIN q
  OBVIOUS
<1> HIDE DEF r
<1>5. r \in Queues
  BY <1>1, <1>3, SeqDef DEF Queues
<1>6. Shortens(r, q, {})
  BY <1>2, <1>4, <1>5, MarkedShortens
<1> QED BY <1>4, <1>5, <1>6 DEF r

\* Two queues without a common input, one behind the other.
LEMMA Joined ==
  ASSUME NEW a \in Queues, NEW b \in Queues, Ids(a) \cap Ids(b) = {}
  PROVE  /\ a \o b \in Queues /\ Ids(a \o b) = Ids(a) \union Ids(b)
         /\ Distinct(a) /\ Distinct(b) => Distinct(a \o b)
         /\ \A i, j : Before(a \o b, i, j) =>
              Before(a, i, j) \/ Before(b, i, j) \/ (i \in Ids(a) /\ j \in Ids(b))
         /\ \A i : Asks(a, i) /\ Asks(b, i) => Asks(a \o b, i)
<1> DEFINE r == a \o b
<1>1. /\ r \in Queues /\ Len(r) = Len(a) + Len(b)
      /\ \A k \in 1 .. Len(a) + Len(b) : r[k] = IF k <= Len(a) THEN a[k] ELSE b[k - Len(a)]
  BY ConcatProperties DEF Queues
<1> HIDE DEF r
<1>2. /\ Len(a) \in Nat /\ Len(b) \in Nat
      /\ DOMAIN a = 1 .. Len(a) /\ DOMAIN b = 1 .. Len(b) /\ DOMAIN r = 1 .. (Len(a) + Len(b))
  BY <1>1, QueueFacts
<1>3. \A k \in DOMAIN r : (k \in DOMAIN a /\ r[k] = a[k])
                          \/ (k > Len(a) /\ k - Len(a) \in DOMAIN b /\ r[k] = b[k - Len(a)])
  BY <1>1, <1>2
<1>4. \A k \in DOMAIN a : k \in DOMAIN r /\ r[k] = a[k]
  BY <1>1, <1>2
<1>5. \A k \in DOMAIN b : k + Len(a) \in DOMAIN r /\ r[k + Len(a)] = b[k]
  BY <1>1, <1>2
<1>6. Ids(r) = Ids(a) \union Ids(b)
  BY <1>3, <1>4, <1>5 DEF Ids
<1>7. ASSUME NEW k \in DOMAIN r, NEW l \in DOMAIN r, k < l
      PROVE  \/ k \in DOMAIN a /\ l \in DOMAIN a /\ r[k] = a[k] /\ r[l] = a[l]
             \/ /\ k - Len(a) \in DOMAIN b /\ l - Len(a) \in DOMAIN b /\ k - Len(a) < l - Len(a)
                /\ r[k] = b[k - Len(a)] /\ r[l] = b[l - Len(a)]
             \/ r[k].id \in Ids(a) /\ r[l].id \in Ids(b)
  <2>1. CASE l \in DOMAIN a
    BY <1>1, <1>2, <1>7, <2>1
  <2>2. CASE k \notin DOMAIN a
    BY <1>1, <1>2, <1>7, <2>2
  <2>3. CASE k \in DOMAIN a /\ l \notin DOMAIN a
    BY <1>3, <2>3 DEF Ids
  <2> QED BY <2>1, <2>2, <2>3
<1>8. ASSUME Distinct(a), Distinct(b) PROVE Distinct(r)
  <2> SUFFICES ASSUME NEW k \in DOMAIN r, NEW l \in DOMAIN r, r[k].id = r[l].id, k < l
               PROVE  FALSE
    BY <1>2 DEF Distinct
  <2>1. CASE k \in DOMAIN a /\ l \in DOMAIN a /\ r[k] = a[k] /\ r[l] = a[l]
    BY <1>2, <1>8, <2>1 DEF Distinct
  <2>2. CASE /\ k - Len(a) \in DOMAIN b /\ l - Len(a) \in DOMAIN b /\ k - Len(a) < l - Len(a)
             /\ r[k] = b[k - Len(a)] /\ r[l] = b[l - Len(a)]
    BY <1>2, <1>8, <2>2 DEF Distinct
  <2>3. CASE r[k].id \in Ids(a) /\ r[l].id \in Ids(b)
    BY <2>3
  <2> QED BY <1>7, <2>1, <2>2, <2>3
<1>9. ASSUME NEW i, NEW j, Before(r, i, j)
      PROVE  Before(a, i, j) \/ Before(b, i, j) \/ (i \in Ids(a) /\ j \in Ids(b))
  <2>1. PICK k \in DOMAIN r, l \in DOMAIN r : k < l /\ r[k].id = i /\ r[l].id = j
    BY <1>9 DEF Before
  <2>2. CASE k \in DOMAIN a /\ l \in DOMAIN a /\ r[k] = a[k] /\ r[l] = a[l]
    BY <2>1, <2>2 DEF Before
  <2>3. CASE /\ k - Len(a) \in DOMAIN b /\ l - Len(a) \in DOMAIN b /\ k - Len(a) < l - Len(a)
             /\ r[k] = b[k - Len(a)] /\ r[l] = b[l - Len(a)]
    BY <2>1, <2>3 DEF Before
  <2>4. CASE r[k].id \in Ids(a) /\ r[l].id \in Ids(b)
    BY <2>1, <2>4
  <2> QED BY <1>7, <2>1, <2>2, <2>3, <2>4
<1>10. ASSUME NEW i, Asks(a, i), Asks(b, i) PROVE Asks(r, i)
  BY <1>3, <1>10 DEF Asks
<1> QED BY <1>1, <1>6, <1>8, <1>9, <1>10 DEF r

LEMMA Alone ==
  ASSUME NEW e \in Entries
  PROVE  /\ <<e>> \in Queues /\ <<e>> # <<>> /\ Ids(<<e>>) = {e.id} /\ Distinct(<<e>>)
         /\ \A i, j : ~ Before(<<e>>, i, j)
         /\ \A i : (i = e.id => e.asked = "sent") => Asks(<<e>>, i)
<1>1. <<e>> \in Queues /\ DOMAIN <<e>> = {1} /\ <<e>>[1] = e /\ <<e>> # <<>>
  BY DEF Queues
<1> HIDE DEF Entries
<1>2. Ids(<<e>>) = {e.id} /\ Distinct(<<e>>)
  BY <1>1 DEF Ids, Distinct
<1>3. \A i, j : ~ Before(<<e>>, i, j)
  BY <1>1 DEF Before
<1>4. \A i : (i = e.id => e.asked = "sent") => Asks(<<e>>, i)
  BY <1>1 DEF Asks
<1> QED BY <1>1, <1>2, <1>3, <1>4

LEMMA AtTheEnd ==
  ASSUME NEW q \in Queues, NEW e \in Entries, e.id \notin Ids(q)
  PROVE  /\ Append(q, e) \in Queues /\ Ids(Append(q, e)) = Ids(q) \union {e.id}
         /\ Distinct(q) => Distinct(Append(q, e))
         /\ \A i, j : Before(Append(q, e), i, j) => Before(q, i, j) \/ (i \in Ids(q) /\ j = e.id)
         /\ \A i : Asks(q, i) /\ (i = e.id => e.asked = "sent") => Asks(Append(q, e), i)
<1>1. Append(q, e) = q \o <<e>>
  BY AppendIsConcat DEF Queues
<1>2. /\ <<e>> \in Queues /\ Ids(<<e>>) = {e.id} /\ Distinct(<<e>>)
      /\ (\A i, j : ~ Before(<<e>>, i, j))
      /\ \A i : (i = e.id => e.asked = "sent") => Asks(<<e>>, i)
  BY Alone
<1>3. Ids(q) \cap Ids(<<e>>) = {}
  BY <1>2
<1> DEFINE s == <<e>>
<1> HIDE DEF s
<1>4. /\ q \o s \in Queues /\ Ids(q \o s) = Ids(q) \union Ids(s)
      /\ Distinct(q) /\ Distinct(s) => Distinct(q \o s)
      /\ (\A i, j : Before(q \o s, i, j) =>
              Before(q, i, j) \/ Before(s, i, j) \/ (i \in Ids(q) /\ j \in Ids(s)))
      /\ \A i : Asks(q, i) /\ Asks(s, i) => Asks(q \o s, i)
  BY <1>2, <1>3, Joined, Zenon DEF s
<1> QED BY <1>1, <1>2, <1>4 DEF s

LEMMA AtTheHead ==
  ASSUME NEW q \in Queues, NEW e \in Entries, e.id \notin Ids(q)
  PROVE  /\ <<e>> \o q \in Queues /\ Ids(<<e>> \o q) = Ids(q) \union {e.id}
         /\ Distinct(q) => Distinct(<<e>> \o q)
         /\ \A i, j : Before(<<e>> \o q, i, j) => Before(q, i, j) \/ (i = e.id /\ j \in Ids(q))
         /\ \A i : Asks(q, i) /\ (i = e.id => e.asked = "sent") => Asks(<<e>> \o q, i)
<1>1. /\ <<e>> \in Queues /\ Ids(<<e>>) = {e.id} /\ Distinct(<<e>>)
      /\ (\A i, j : ~ Before(<<e>>, i, j))
      /\ \A i : (i = e.id => e.asked = "sent") => Asks(<<e>>, i)
  BY Alone
<1>2. Ids(<<e>>) \cap Ids(q) = {}
  BY <1>1
<1> DEFINE s == <<e>>
<1> HIDE DEF s
<1>3. /\ s \o q \in Queues /\ Ids(s \o q) = Ids(s) \union Ids(q)
      /\ Distinct(s) /\ Distinct(q) => Distinct(s \o q)
      /\ (\A i, j : Before(s \o q, i, j) =>
              Before(s, i, j) \/ Before(q, i, j) \/ (i \in Ids(s) /\ j \in Ids(q)))
      /\ \A i : Asks(s, i) /\ Asks(q, i) => Asks(s \o q, i)
  BY <1>1, <1>2, Joined, Zenon DEF s
<1> QED BY <1>1, <1>3 DEF s

\* The first n entries.
LEMMA FirstOf ==
  ASSUME NEW q \in Queues, NEW n \in 1 .. Len(q)
  PROVE  LET b == SubSeq(q, 1, n) IN
         /\ b \in Queues /\ b # <<>> /\ Len(b) = n /\ DOMAIN b = 1 .. n
         /\ \A k \in DOMAIN b : b[k] = q[k]
         /\ Ids(b) \subseteq Ids(q) /\ b[1] = q[1]
         /\ \A i : Asks(q, i) => Asks(b, i)
         /\ Distinct(q) => \A i, j : Before(q, i, j) /\ j \in Ids(b) => i \in Ids(b)
<1> DEFINE b == SubSeq(q, 1, n)
<1>1. Len(q) \in Nat /\ DOMAIN q = 1 .. Len(q) /\ \A k \in DOMAIN q : q[k] \in Entries
  BY QueueFacts
<1>2. /\ b \in Queues /\ Len(b) = n /\ \A k \in 1 .. n : b[k] = q[k]
  <2>1. 1 \in Int /\ n \in Int /\ 1 <= n /\ n - 1 + 1 = n /\ \A k \in 1 .. n : q[k] \in Entries /\ 1 + k - 1 = k
    BY <1>1
  <2>2. /\ b \in Seq(Entries) /\ Len(b) = (IF 1 <= n THEN n - 1 + 1 ELSE 0)
        /\ \A k \in 1 .. n - 1 + 1 : b[k] = q[1 + k - 1]
    BY <2>1, SubSeqProperties
  <2> QED BY <2>1, <2>2 DEF Queues
<1> HIDE DEF b
<1>3. DOMAIN b = 1 .. n /\ b # <<>> /\ 1 \in DOMAIN b /\ \A k \in DOMAIN b : b[k] = q[k] /\ k \in DOMAIN q
  BY <1>1, <1>2, QueueFacts
<1>4. Ids(b) \subseteq Ids(q)
  BY <1>3 DEF Ids
<1>5. \A i : Asks(q, i) => Asks(b, i)
  BY <1>3 DEF Asks
<1>6. ASSUME Distinct(q), NEW i, NEW j, Before(q, i, j), j \in Ids(b) PROVE i \in Ids(b)
  <2>1. PICK k \in DOMAIN q, l \in DOMAIN q : k < l /\ q[k].id = i /\ q[l].id = j
    BY <1>6 DEF Before
  <2>2. PICK m \in DOMAIN b : b[m].id = j
    BY <1>6 DEF Ids
  <2>3. m = l
    BY <1>3, <1>6, <2>1, <2>2 DEF Distinct
  <2>4. k \in DOMAIN b
    BY <1>1, <1>3, <2>1, <2>2, <2>3
  <2> QED BY <1>3, <2>1, <2>4 DEF Ids
<1> QED BY <1>2, <1>3, <1>4, <1>5, <1>6 DEF b

-----------------------------------------------------------------------------
(* Merging and keeping.                                                    *)

LEMMA Shaped ==
  ASSUME NEW v \in Copied
  PROVE  Shape(v) \in Copied /\ Shape(v).queue = v.queue /\ (v.paused = FALSE => Shape(v).paused = FALSE)
         /\ (~ Shape(v).paused => ~ v.paused \/ v.queue = <<>>)
  BY EmptyQueue DEF Shape, Copied, Empty

LEMMA FollowsItself == ASSUME NEW q \in Queues PROVE Follows(q, q)
  BY BeforeIds DEF Follows

\* What a merge gives.
Reconciles(m, mine, base, theirs) ==
  /\ m \in Copied
  /\ Ids(m.queue) \subseteq Ids(mine.queue) \union Ids(theirs.queue)
  /\ Ids(theirs.queue) \ Ids(m.queue) \subseteq Ids(base.queue) \ Ids(mine.queue)
  /\ Ids(mine.queue) \ Ids(m.queue) \subseteq Ids(base.queue) \ Ids(theirs.queue)
  /\ Ids(m.queue) \cap Ids(base.queue) \subseteq Ids(theirs.queue)
  /\ Distinct(mine.queue) /\ Distinct(theirs.queue) => Distinct(m.queue)
  /\ Follows(mine.queue, base.queue) => Follows(m.queue, theirs.queue)
  /\ \A i : Asks(mine.queue, i) /\ Asks(theirs.queue, i) => Asks(m.queue, i)

LEMMA TakesTheirs ==
  ASSUME NEW mine \in Copied, NEW base \in Synced, NEW theirs \in Copied, NEW m \in Copied,
         m.queue = theirs.queue, mine.queue \in {theirs.queue, base.queue}
  PROVE  Reconciles(m, mine, base, theirs)
<1>1. theirs.queue \in Queues
  BY DEF Copied
<1>2. Follows(m.queue, theirs.queue)
  BY <1>1, FollowsItself
<1> QED BY <1>2 DEF Reconciles

LEMMA TakesMine ==
  ASSUME NEW mine \in Copied, NEW base \in Synced, NEW theirs \in Copied, NEW m \in Copied,
         m.queue = mine.queue, theirs.queue = base.queue
  PROVE  Reconciles(m, mine, base, theirs)
  BY DEF Reconciles

LEMMA TakesBoth ==
  ASSUME NEW mine \in Copied, NEW base \in Synced, NEW theirs \in Copied, NEW m \in Copied,
         NEW S, S \subseteq Ids(base.queue) \ Ids(mine.queue),
         m.queue = Without(theirs.queue, S)
                     \o Without(mine.queue, Ids(theirs.queue) \union Ids(base.queue))
  PROVE  Reconciles(m, mine, base, theirs)
<1> DEFINE a == Without(theirs.queue, S)
           b == Without(mine.queue, Ids(theirs.queue) \union Ids(base.queue))
<1>1. mine.queue \in Queues /\ base.queue \in Queues /\ theirs.queue \in Queues
  BY DEF Copied, Synced
<1>2. Shortens(a, theirs.queue, S) /\ Shortens(b, mine.queue, Ids(theirs.queue) \union Ids(base.queue))
  BY <1>1, WithoutShortens
<1>3. m.queue = a \o b
  OBVIOUS
<1> HIDE DEF a, b
<1>4. /\ a \in Queues /\ b \in Queues
      /\ Ids(a) = Ids(theirs.queue) \ S
      /\ Ids(b) = Ids(mine.queue) \ (Ids(theirs.queue) \union Ids(base.queue))
  BY <1>2 DEF Shortens
<1>5. Ids(a) \cap Ids(b) = {}
  BY <1>4
<1>6. /\ Ids(m.queue) = Ids(a) \union Ids(b)
      /\ Distinct(a) /\ Distinct(b) => Distinct(m.queue)
      /\ (\A i, j : Before(m.queue, i, j) =>
              Before(a, i, j) \/ Before(b, i, j) \/ (i \in Ids(a) /\ j \in Ids(b)))
      /\ \A i : Asks(a, i) /\ Asks(b, i) => Asks(m.queue, i)
  <2>1. /\ Ids(a \o b) = Ids(a) \union Ids(b)
        /\ Distinct(a) /\ Distinct(b) => Distinct(a \o b)
        /\ (\A i, j : Before(a \o b, i, j) =>
              Before(a, i, j) \/ Before(b, i, j) \/ (i \in Ids(a) /\ j \in Ids(b)))
        /\ \A i : Asks(a, i) /\ Asks(b, i) => Asks(a \o b, i)
    BY <1>4, <1>5, Joined, Zenon
  <2> QED BY <1>3, <2>1, Zenon
<1>7. Follows(m.queue, theirs.queue)
  <2>1. ASSUME NEW i \in Ids(theirs.queue), NEW j \in Ids(theirs.queue), Before(m.queue, i, j)
        PROVE  Before(theirs.queue, i, j)
    <3>1. i \notin Ids(b) /\ j \notin Ids(b)
      BY <1>4
    <3>2. Before(a, i, j)
      BY <1>6, <2>1, <3>1, BeforeIds
    <3> QED BY <1>2, <3>2 DEF Shortens
  <2>2. ASSUME NEW i \in Ids(theirs.queue), NEW j \in Ids(theirs.queue), NEW x \in Items \ Ids(theirs.queue),
               Before(m.queue, i, x), Before(m.queue, x, j)
        PROVE  FALSE
    <3>1. j \notin Ids(b) /\ x \notin Ids(a)
      BY <1>4
    <3> QED BY <1>6, <2>2, <3>1, BeforeIds
  <2> QED BY <2>1, <2>2 DEF Follows
<1>8. Ids(theirs.queue) \ Ids(m.queue) \subseteq Ids(base.queue) \ Ids(mine.queue)
  BY <1>4, <1>6
<1>9. Ids(mine.queue) \ Ids(m.queue) \subseteq Ids(base.queue) \ Ids(theirs.queue)
  BY <1>4, <1>6
<1>10. Ids(m.queue) \subseteq Ids(mine.queue) \union Ids(theirs.queue)
  BY <1>4, <1>6
<1>11. Distinct(mine.queue) /\ Distinct(theirs.queue) => Distinct(m.queue)
  BY <1>2, <1>6 DEF Shortens
<1>12. \A i : Asks(mine.queue, i) /\ Asks(theirs.queue, i) => Asks(m.queue, i)
  BY <1>2, <1>6 DEF Shortens
<1>13. Ids(m.queue) \cap Ids(base.queue) \subseteq Ids(theirs.queue)
  BY <1>4, <1>6
<1> QED BY <1>7, <1>8, <1>9, <1>10, <1>11, <1>12, <1>13 DEF Reconciles

LEMMA MergeReconciles ==
  ASSUME NEW mine \in Copied, NEW base \in Synced, NEW theirs \in Copied, NEW strict \in BOOLEAN
  PROVE  Reconciles(Merge(mine, base, theirs, strict), mine, base, theirs)
<1> DEFINE paused == IF mine.paused = base.paused THEN theirs.paused ELSE mine.paused
           S == IF strict THEN {} ELSE Ids(base.queue) \ Ids(mine.queue)
           both == Without(theirs.queue, S)
                     \o Without(mine.queue, Ids(theirs.queue) \union Ids(base.queue))
           m == Merge(mine, base, theirs, strict)
<1> SUFFICES Reconciles(m, mine, base, theirs)
  OBVIOUS
<1>1. /\ mine.queue \in Queues /\ base.queue \in Queues /\ theirs.queue \in Queues
      /\ paused \in BOOLEAN
  BY DEF Copied, Synced
<1>2. both \in Queues
  <2>1. Without(theirs.queue, S) \in Queues
    BY <1>1, WithoutShortens DEF Shortens
  <2>2. Without(mine.queue, Ids(theirs.queue) \union Ids(base.queue)) \in Queues
    BY <1>1, WithoutShortens DEF Shortens
  <2> HIDE DEF S
  <2> QED BY <2>1, <2>2, ConcatProperties DEF Queues
<1>3. CASE mine.queue \in {theirs.queue, base.queue}
  <2>1. m = Shape([queue |-> theirs.queue, paused |-> paused])
    BY <1>3 DEF Merge
  <2>2. [queue |-> theirs.queue, paused |-> paused] \in Copied
    BY <1>1 DEF Copied
  <2>3. m \in Copied /\ m.queue = theirs.queue
    <3> DEFINE v == [queue |-> theirs.queue, paused |-> paused]
    <3>1. v.queue = theirs.queue
      OBVIOUS
    <3> HIDE DEF v, m
    <3> QED BY <2>1, <2>2, <3>1, Shaped DEF v
  <2> HIDE DEF m
  <2> QED BY <1>3, <2>3, TakesTheirs
<1>4. CASE ~ strict /\ mine.queue \notin {theirs.queue, base.queue} /\ theirs.queue = base.queue
  <2>1. m = Shape([queue |-> mine.queue, paused |-> paused])
    BY <1>4 DEF Merge
  <2>2. [queue |-> mine.queue, paused |-> paused] \in Copied
    BY <1>1 DEF Copied
  <2>3. m \in Copied /\ m.queue = mine.queue
    <3> DEFINE v == [queue |-> mine.queue, paused |-> paused]
    <3>1. v.queue = mine.queue
      OBVIOUS
    <3> HIDE DEF v, m
    <3> QED BY <2>1, <2>2, <3>1, Shaped DEF v
  <2> HIDE DEF m
  <2> QED BY <1>4, <2>3, TakesMine
<1>5. CASE /\ mine.queue \notin {theirs.queue, base.queue}
           /\ ~ (~ strict /\ mine.queue \notin {theirs.queue, base.queue} /\ theirs.queue = base.queue)
  <2>1. m = Shape([queue |-> both, paused |-> paused])
    BY <1>5 DEF Merge
  <2>2. [queue |-> both, paused |-> paused] \in Copied
    BY <1>1, <1>2 DEF Copied
  <2>3. m \in Copied /\ m.queue = both
    <3> DEFINE v == [queue |-> both, paused |-> paused]
    <3>1. v.queue = both
      OBVIOUS
    <3> HIDE DEF v, m
    <3> QED BY <2>1, <2>2, <3>1, Shaped DEF v
  <2>4. S \subseteq Ids(base.queue) \ Ids(mine.queue)
    OBVIOUS
  <2> HIDE DEF m, S
  <2> QED BY <2>3, <2>4, TakesBoth
<1> QED BY <1>3, <1>4, <1>5

\* A put is kept but for what was delivered, and waits when its delivery is
\* not confirmed.
LEMMA KeptShortens ==
  ASSUME NEW v \in Copied, delivery \in [Items -> {"none", "submitting", "uncertain", "delivered"}]
  PROVE  LET gets == {i \in Items : delivery[i] = "delivered"} IN
         /\ Kept(v) \in Copied
         /\ Shortens(Kept(v).queue, v.queue, gets)
         /\ ~ Kept(v).paused => \A i \in Ids(Kept(v).queue) : delivery[i] \in {"none", "submitting"}
<1> DEFINE gets == {i \in Items : delivery[i] = "delivered"}
           T == {i \in Items : delivery[i] = "uncertain"}
           marked == [k \in DOMAIN v.queue |-> IF v.queue[k].id \in T THEN Failing(v.queue[k]) ELSE v.queue[k]]
           held == [k \in DOMAIN v.queue |->
                      IF delivery[v.queue[k].id] = "uncertain" THEN Failing(v.queue[k]) ELSE v.queue[k]]
           kept == Without(marked, gets)
<1>1. v.queue \in Queues /\ v.paused \in BOOLEAN
  BY DEF Copied
<1>2. \A k \in DOMAIN v.queue : v.queue[k].id \in T <=> delivery[v.queue[k].id] = "uncertain"
  BY <1>1, QueueFacts
<1>3. held = marked
  BY <1>2
<1>4. marked \in Queues /\ Shortens(marked, v.queue, {})
  BY <1>1, MapQueue
<1>5. Kept(v) = [queue |-> kept, paused |-> v.paused \/ \E i \in Ids(kept) : delivery[i] = "uncertain"]
  <2>1. Kept(v) = [queue |-> Without(held, gets),
                   paused |-> v.paused \/ \E i \in Ids(Without(held, gets)) : delivery[i] = "uncertain"]
    BY DEF Kept
  <2> HIDE DEF held, marked, gets
  <2> QED BY <1>3, <2>1
<1> HIDE DEF held, marked
<1>6. Shortens(kept, marked, gets)
  BY <1>4, WithoutShortens
<1> HIDE DEF kept, T
<1>7. Shortens(kept, v.queue, gets)
  BY <1>4, <1>6 DEF Shortens
<1>8. kept \in Queues /\ Ids(kept) \subseteq Items /\ Ids(kept) \cap gets = {}
  BY <1>7, QueueFacts DEF Shortens
<1>9. Kept(v) \in Copied
  BY <1>1, <1>5, <1>8 DEF Copied
<1>10. ASSUME ~ Kept(v).paused, NEW i \in Ids(kept) PROVE delivery[i] \in {"none", "submitting"}
  <2>1. ~ \E j \in Ids(kept) : delivery[j] = "uncertain"
    <3>1. Kept(v).paused = (v.paused \/ \E j \in Ids(kept) : delivery[j] = "uncertain")
      BY <1>5
    <3> QED BY <1>10, <3>1, Zenon
  <2> QED BY <1>8, <2>1
<1> QED BY <1>5, <1>7, <1>9, <1>10

\* What is held keeps its place.
LEMMA HeldShortens ==
  ASSUME NEW i \in Items, rec \in Copied
  PROVE  LET q == [k \in DOMAIN rec.queue |->
                     IF rec.queue[k].id = i THEN Failing(rec.queue[k]) ELSE rec.queue[k]]
         IN  q \in Queues /\ Shortens(q, rec.queue, {})
<1> DEFINE p == [k \in DOMAIN rec.queue |->
                   IF rec.queue[k].id \in {i} THEN Failing(rec.queue[k]) ELSE rec.queue[k]]
           q == [k \in DOMAIN rec.queue |->
                   IF rec.queue[k].id = i THEN Failing(rec.queue[k]) ELSE rec.queue[k]]
<1>1. rec.queue \in Queues
  BY DEF Copied
<1>2. p = q
  OBVIOUS
<1>3. p \in Queues /\ Shortens(p, rec.queue, {})
  BY <1>1, MapQueue
<1> HIDE DEF p, q
<1> QED BY <1>2, <1>3 DEF q

-----------------------------------------------------------------------------
(* What the steps do to the copies and the record.                         *)

\* One device's copy changes.
OnlyLocal(d, q) ==
  /\ d \in Devices
  /\ local' \in [Devices -> Copied] /\ local'[d].queue = q
  /\ \A e \in Devices : e # d => local'[e] = local[e]

LEMMA EditsEffect ==
  ASSUME QueueTypeOK, NEW d \in Devices, NEW v \in Copied, local' = [local EXCEPT ![d] = Shape(v)]
  PROVE  OnlyLocal(d, v.queue)
<1>1. Shape(v) \in Copied /\ Shape(v).queue = v.queue
  BY Shaped
<1>2. local \in [Devices -> Copied]
  BY DEF QueueTypeOK
<1> QED BY <1>1, <1>2 DEF OnlyLocal

LEMMA EntryOf ==
  ASSUME NEW i \in Items, NEW asked \in {"no", "again", "sent"}
  PROVE  /\ Entry(i) \in Entries /\ Entry(i).id = i
         /\ [Entry(i) EXCEPT !.asked = asked] \in Entries
         /\ [Entry(i) EXCEPT !.asked = asked].id = i
         /\ [Entry(i) EXCEPT !.asked = asked].asked = asked
  BY DEF Entry, Entries

LEMMA TypeEffect ==
  ASSUME QueueTypeOK, NEW i \in Items, Type(i)
  PROVE  OnlyLocal(Author[i], Append(local[Author[i]].queue, Entry(i)))
<1> DEFINE d == Author[i]
           v == [local[d] EXCEPT !.queue = Append(@, Entry(i))]
<1>1. d \in Devices /\ local[d] \in Copied
  BY OutboxAssumption DEF QueueTypeOK
<1>2. Append(local[d].queue, Entry(i)) \in Queues
  BY <1>1, EntryOf, AppendProperties DEF Copied, Queues
<1>3. v \in Copied /\ v.queue = Append(local[d].queue, Entry(i))
  BY <1>1, <1>2 DEF Copied
<1>4. local' = [local EXCEPT ![d] = Shape(v)]
  BY DEF Type, Edits
<1> HIDE DEF v
<1> QED BY <1>1, <1>3, <1>4, EditsEffect

LEMMA RemovesEffect ==
  ASSUME QueueTypeOK, NEW d \in Devices, NEW i \in Items, Removes(d, i)
  PROVE  OnlyLocal(d, Without(local[d].queue, {i}))
<1> DEFINE v == [local[d] EXCEPT !.queue = Without(@, {i})]
<1>1. local[d] \in Copied /\ local[d].queue \in Queues
  BY DEF QueueTypeOK, Copied
<1>2. Without(local[d].queue, {i}) \in Queues
  BY <1>1, WithoutShortens DEF Shortens
<1>3. v \in Copied /\ v.queue = Without(local[d].queue, {i})
  BY <1>1, <1>2 DEF Copied
<1>4. local' = [local EXCEPT ![d] = Shape(v)]
  BY DEF Removes, Edits
<1> HIDE DEF v
<1> QED BY <1>3, <1>4, EditsEffect

\* A refused head goes again: the same inputs, and the same marks.
LEMMA RetryEffect ==
  ASSUME QueueTypeOK, NEW d \in Devices, Retry(d)
  PROVE  /\ OnlyLocal(d, local'[d].queue)
         /\ Shortens(local'[d].queue, local[d].queue, {})
<1> DEFINE q == local[d].queue
           r == [q EXCEPT ![1].failed = FALSE]
           v == [queue |-> r, paused |-> FALSE]
<1>1. q \in Queues
  BY DEF QueueTypeOK, Copied
<1>2. Len(q) \in Nat /\ DOMAIN q = 1 .. Len(q) /\ \A k \in DOMAIN q : q[k] \in Entries
  BY <1>1, QueueFacts
<1>3. \A e \in Entries : LET f == [e EXCEPT !.failed = FALSE] IN
        f \in Entries /\ f.id = e.id /\ f.asked = e.asked
  BY DEF Entries
<1>4. DOMAIN r = DOMAIN q /\ \A k \in DOMAIN q : r[k] = IF k = 1 THEN [q[k] EXCEPT !.failed = FALSE] ELSE q[k]
  BY <1>2
<1>5. \A k \in DOMAIN q : r[k] \in Entries /\ r[k].id = q[k].id /\ (q[k].asked = "sent" => r[k].asked = "sent")
  <2> HIDE DEF q, r
  <2> QED BY <1>2, <1>3, <1>4
<1>6. r \in Queues
  <2>1. r \in [1 .. Len(q) -> Entries]
    <3>1. r = [k \in DOMAIN q |-> r[k]]
      BY <1>2
    <3> HIDE DEF q, r
    <3> QED BY <1>2, <1>4, <1>5, <3>1
  <2> HIDE DEF r
  <2> QED BY <1>2, <2>1, SeqDef DEF Queues
<1>7. local' = [local EXCEPT ![d] = Shape(v)]
  BY DEF Retry, Edits
<1> HIDE DEF r
<1>8. Shortens(r, q, {})
  BY <1>1, <1>4, <1>5, <1>6, MarkedShortens
<1>9. v \in Copied /\ v.queue = r
  BY <1>6 DEF Copied
<1> HIDE DEF v, q
<1>10. OnlyLocal(d, r)
  BY <1>7, <1>9, EditsEffect
<1>11. local'[d].queue = r
  BY <1>10 DEF OnlyLocal
<1> QED BY <1>8, <1>10, <1>11 DEF q

LEMMA RequeuedEffect ==
  ASSUME QueueTypeOK, NEW i \in Items, NEW asked \in {"no", "again", "sent"}, Requeued(i, asked)
  PROVE  OnlyLocal(Author[i], <<[Entry(i) EXCEPT !.asked = asked]>> \o local[Author[i]].queue)
<1> DEFINE d == Author[i]
           e == [Entry(i) EXCEPT !.asked = asked]
<1>1. d \in Devices /\ local \in [Devices -> Copied] /\ local[d] \in Copied /\ local[d].queue \in Queues
  BY OutboxAssumption DEF QueueTypeOK, Copied
<1>2. e \in Entries
  BY EntryOf
<1>3. <<e>> \o local[d].queue \in Queues
  BY <1>1, <1>2, Alone, ConcatProperties DEF Queues
<1>4. local' = [local EXCEPT ![d].queue = <<e>> \o @]
  BY DEF Requeued
<1> HIDE DEF e
<1>5. \A v \in Copied, q \in Queues : [v EXCEPT !.queue = q] \in Copied /\ [v EXCEPT !.queue = q].queue = q
  BY DEF Copied
<1>6. local' = [local EXCEPT ![d] = [local[d] EXCEPT !.queue = <<e>> \o local[d].queue]]
  BY <1>1, <1>4
<1> QED BY <1>1, <1>3, <1>5, <1>6 DEF OnlyLocal, e

\* A device hears of the record.
LEMMA ReceivesEffect ==
  ASSUME QueueTypeOK, NEW d \in Devices, Receives(d)
  PROVE  /\ OnlyLocal(d, local'[d].queue) /\ Reconciles(local'[d], local[d], known[d], rec)
         /\ known' = [known EXCEPT ![d] = Copy(rec)]
<1>1. /\ local \in [Devices -> Copied] /\ known \in [Devices -> Synced] /\ rec \in Copied
      /\ local[d] \in Copied /\ known[d] \in Synced
  BY DEF QueueTypeOK
<1>2. local' = [local EXCEPT ![d] = IF local[d] \in {Value(known[d]), rec} THEN rec
                                    ELSE Merge(local[d], known[d], rec, FALSE)]
  BY DEF Receives
<1>3. known' = [known EXCEPT ![d] = Copy(rec)]
  BY DEF Receives
<1>4. Reconciles(local'[d], local[d], known[d], rec)
  <2>1. CASE local[d] \in {Value(known[d]), rec}
    <3>1. local'[d] = rec
      BY <1>1, <1>2, <2>1
    <3>2. local[d].queue \in {rec.queue, known[d].queue}
      BY <2>1 DEF Value
    <3> QED BY <1>1, <3>1, <3>2, TakesTheirs
  <2>2. CASE local[d] \notin {Value(known[d]), rec}
    <3>1. local'[d] = Merge(local[d], known[d], rec, FALSE)
      BY <1>1, <1>2, <2>2
    <3> QED BY <1>1, <3>1, MergeReconciles
  <2> QED BY <2>1, <2>2
<1>5. local'[d] \in Copied
  BY <1>4 DEF Reconciles
<1>6. \A e \in Devices : local'[e] = (IF e = d THEN local'[d] ELSE local[e])
  BY <1>1, <1>2
<1>7. local' \in [Devices -> Copied]
  <2>1. local' = [e \in Devices |-> local'[e]]
    BY <1>1, <1>2
  <2> QED BY <1>1, <1>5, <1>6, <2>1
<1> QED BY <1>3, <1>4, <1>6, <1>7 DEF OnlyLocal

\* Another revision of the record.
NewRecord == /\ known' \in [Devices -> Synced]
             /\ \A d \in Devices : known'[d].queue = known[d].queue /\ ~ known'[d].current

LEMMA BehindEffect ==
  ASSUME QueueTypeOK, known' = Behind
  PROVE  NewRecord
<1>1. known \in [Devices -> Synced]
  BY DEF QueueTypeOK
<1>2. \A k \in Synced : LET b == [k EXCEPT !.current = FALSE] IN
        b \in Synced /\ b.queue = k.queue /\ ~ b.current
  BY DEF Synced
<1>3. \A d \in Devices : known'[d] = [known[d] EXCEPT !.current = FALSE] /\ known[d] \in Synced
  BY <1>1 DEF Behind
<1>4. known' = [d \in Devices |-> known'[d]]
  BY DEF Behind
<1> QED BY <1>2, <1>3, <1>4 DEF NewRecord

LEMMA CompleteEffect ==
  ASSUME QueueTypeOK, NEW ids \in SUBSET Items, Complete(ids)
  PROVE  /\ rec' \in Copied /\ Shortens(rec'.queue, rec.queue, ids)
         /\ ~ rec'.paused => ~ rec.paused \/ rec'.queue = <<>>
         /\ NewRecord /\ local' = local /\ start' = start
         /\ delivery' = [i \in Items |-> IF i \in ids THEN "delivered" ELSE delivery[i]]
<1> DEFINE v == [rec EXCEPT !.queue = Without(@, ids)]
<1>1. rec \in Copied /\ rec.queue \in Queues
  BY DEF QueueTypeOK, Copied
<1>2. Shortens(Without(rec.queue, ids), rec.queue, ids)
  BY <1>1, WithoutShortens
<1>3. v \in Copied /\ v.queue = Without(rec.queue, ids) /\ v.paused = rec.paused
  BY <1>1, <1>2 DEF Copied, Shortens
<1>4. rec' = Shape(v) /\ known' = Behind /\ local' = local /\ start' = start
  BY DEF Complete, Saves
<1> HIDE DEF v
<1>5. rec' \in Copied /\ rec'.queue = v.queue /\ (~ rec'.paused => ~ v.paused \/ v.queue = <<>>)
  BY <1>3, <1>4, Shaped
<1>6. NewRecord
  BY <1>4, BehindEffect
<1>7. delivery' = [i \in Items |-> IF i \in ids THEN "delivered" ELSE delivery[i]]
  BY DEF Complete
<1> QED BY <1>2, <1>3, <1>4, <1>5, <1>6, <1>7

LEMMA HeldEffect ==
  ASSUME QueueTypeOK, NEW i \in Items, Held(i)
  PROVE  /\ rec' \in Copied /\ Shortens(rec'.queue, rec.queue, {})
         /\ rec'.paused \/ rec'.queue = <<>>
         /\ NewRecord /\ local' = local /\ start' = start
<1> DEFINE q == [k \in DOMAIN rec.queue |->
                   IF rec.queue[k].id = i THEN Failing(rec.queue[k]) ELSE rec.queue[k]]
           v == [queue |-> q, paused |-> TRUE]
<1>1. rec \in Copied
  BY DEF QueueTypeOK
<1>2. q \in Queues /\ Shortens(q, rec.queue, {})
  BY <1>1, HeldShortens
<1>3. rec' = Shape(v) /\ known' = Behind /\ local' = local /\ start' = start
  BY DEF Held, Saves
<1> HIDE DEF q
<1>4. v \in Copied /\ v.queue = q /\ v.paused
  BY <1>2 DEF Copied
<1> HIDE DEF v
<1>5. rec' \in Copied /\ rec'.queue = v.queue /\ (~ rec'.paused => ~ v.paused \/ v.queue = <<>>)
  BY <1>3, <1>4, Shaped
<1>6. NewRecord
  BY <1>3, BehindEffect
<1> QED BY <1>2, <1>3, <1>4, <1>5, <1>6

\* A device follows the record, or merges its copy with it.
Resyncs(d) ==
  /\ OnlyLocal(d, local'[d].queue) /\ Reconciles(local'[d], local[d], known[d], rec)
  /\ known' = [known EXCEPT ![d] = Copy(rec)]
  /\ UNCHANGED <<start, rec, delivery, receipt, up, pc, captured, took, handed, gone, overtaken>>

\* A put takes an input out of the queue, and its author's device knows it was there.
Drops(d, i) == /\ i \in Ids(rec.queue) \ Ids(local[d].queue)
               /\ start[i] # "late" /\ i \in Ids(known[Author[i]].queue)

\* The core keeps what a device put; the answer may be lost.
Taken(d) ==
  /\ up /\ known[d].current /\ KeepsCaptured(local[d])
  /\ rec' = Shape(Kept(local[d]))
  /\ gone' \in [Items -> {"no", "removed", "dropped"}]
  /\ \A i \in Items : gone'[i] = "no" <=> gone[i] = "no"
  /\ \A i \in Items : gone'[i] = "dropped" => gone[i] = "dropped" \/ Drops(d, i)
  /\ overtaken' = overtaken \union (IF captured # <<>> /\ Kept(local[d]).queue # <<>>
                                       /\ Head(Kept(local[d]).queue) # Head(captured)
                                    THEN Ids(captured) ELSE {})
  /\ \/ local' = local /\ known' = Behind
     \/ local' = [local EXCEPT ![d] = rec'] /\ known' = [Behind EXCEPT ![d] = Copy(rec')]
  /\ UNCHANGED <<start, delivery, receipt, up, pc, captured, took, handed>>

LEMMA HearsResyncs ==
  ASSUME QueueTypeOK, NEW d \in Devices, Hears(d) \/ (Reconnect(d) /\ ~ known[d].current)
  PROVE  Resyncs(d)
<1>1. Receives(d)
  BY DEF Hears, Reconnect
<1>2. UNCHANGED <<start, rec, delivery, receipt, up, pc, captured, took, handed, gone, overtaken>>
  BY DEF Hears, Reconnect, journal, memory
<1> QED BY <1>1, <1>2, ReceivesEffect DEF Resyncs

LEMMA PutTakenOrRefused ==
  ASSUME QueueTypeOK, NEW d \in Devices, NEW sendNow \in BOOLEAN, NEW lost \in BOOLEAN, Put(d, sendNow, lost)
  PROVE  Taken(d) \/ Resyncs(d)
<1>1. /\ local \in [Devices -> Copied] /\ known \in [Devices -> Synced] /\ rec \in Copied
      /\ local[d] \in Copied /\ known[d] \in Synced /\ known[d].current \in BOOLEAN
      /\ gone \in [Items -> {"no", "removed", "dropped"}]
  BY DEF QueueTypeOK, Synced
<1>2. UNCHANGED <<start, delivery, receipt, up, pc, captured, took, handed>> /\ up
  BY DEF Put
<1>3. CASE known[d].current /\ KeepsCaptured(local[d])
  <2> DEFINE dropped == {i \in Ids(rec.queue) \ Ids(local[d].queue) :
                           gone[i] = "removed" /\ start[i] # "late" /\ i \in Ids(known[Author[i]].queue)}
  <2>1. /\ rec' = Shape(Kept(local[d]))
        /\ gone' = [i \in Items |-> IF i \in dropped THEN "dropped" ELSE gone[i]]
        /\ overtaken' = overtaken \union (IF captured # <<>> /\ Kept(local[d]).queue # <<>>
                                       /\ Head(Kept(local[d]).queue) # Head(captured)
                                    THEN Ids(captured) ELSE {})
        /\ \/ local' = local /\ known' = Behind
           \/ local' = [local EXCEPT ![d] = rec'] /\ known' = [Behind EXCEPT ![d] = Copy(rec')]
    BY <1>3 DEF Put
  <2>2. \A i \in dropped : gone[i] = "removed" /\ Drops(d, i)
    BY DEF Drops
  <2> HIDE DEF dropped
  <2>3. /\ gone' \in [Items -> {"no", "removed", "dropped"}]
        /\ \A i \in Items : gone'[i] = "no" <=> gone[i] = "no"
        /\ \A i \in Items : gone'[i] = "dropped" => gone[i] = "dropped" \/ Drops(d, i)
    BY <1>1, <2>1, <2>2
  <2> QED BY <1>2, <1>3, <2>1, <2>3 DEF Taken
<1>4. CASE ~ (known[d].current /\ KeepsCaptured(local[d]))
  <2>1. /\ local' = [local EXCEPT ![d] = Merge(local[d], known[d], rec, known[d].current)]
        /\ known' = [known EXCEPT ![d] = Copy(rec)]
        /\ UNCHANGED <<rec, gone, overtaken>>
    BY <1>1, <1>4 DEF Put
  <2>2. Reconciles(Merge(local[d], known[d], rec, known[d].current), local[d], known[d], rec)
    BY <1>1, MergeReconciles
  <2>3. Merge(local[d], known[d], rec, known[d].current) \in Copied
    BY <2>2 DEF Reconciles
  <2>4. OnlyLocal(d, local'[d].queue) /\ local'[d] = Merge(local[d], known[d], rec, known[d].current)
    BY <1>1, <2>1, <2>3 DEF OnlyLocal
  <2> QED BY <1>2, <2>1, <2>2, <2>4 DEF Resyncs
<1> QED BY <1>3, <1>4

\* The record and the copies after a put the core keeps.
LEMMA TakenEffect ==
  ASSUME QueueTypeOK, NEW d \in Devices, Taken(d)
  PROVE  /\ rec' \in Copied
         /\ Shortens(rec'.queue, local[d].queue, {i \in Items : delivery[i] = "delivered"})
         /\ rec'.queue = Kept(local[d]).queue
         /\ ~ rec'.paused => \A i \in Ids(rec'.queue) : delivery[i] \in {"none", "submitting"}
         /\ local' \in [Devices -> Copied] /\ known' \in [Devices -> Synced]
         /\ \A e \in Devices :
              \/ e = d /\ local'[e] = rec' /\ known'[e] = Copy(rec')
              \/ local'[e] = local[e] /\ known'[e].queue = known[e].queue /\ ~ known'[e].current
<1>1. /\ local \in [Devices -> Copied] /\ known \in [Devices -> Synced] /\ local[d] \in Copied
      /\ delivery \in [Items -> {"none", "submitting", "uncertain", "delivered"}]
  BY DEF QueueTypeOK
<1> DEFINE v == Kept(local[d])
<1>2. /\ v \in Copied /\ Shortens(v.queue, local[d].queue, {i \in Items : delivery[i] = "delivered"})
      /\ ~ v.paused => \A i \in Ids(v.queue) : delivery[i] \in {"none", "submitting"}
  BY <1>1, KeptShortens
<1>3. rec' = Shape(v)
  BY DEF Taken
<1> HIDE DEF v
<1>4. rec' \in Copied /\ rec'.queue = v.queue /\ (~ rec'.paused => ~ v.paused \/ v.queue = <<>>)
  BY <1>2, <1>3, Shaped
<1>5. ~ rec'.paused => \A i \in Ids(rec'.queue) : delivery[i] \in {"none", "submitting"}
  BY <1>2, <1>4, EmptyQueue
<1>6. Copy(rec') \in Synced
  BY <1>4 DEF Copy, Copied, Synced
<1>7. \A k \in Synced : LET b == [k EXCEPT !.current = FALSE] IN
        b \in Synced /\ b.queue = k.queue /\ ~ b.current
  BY DEF Synced
<1>8. /\ Behind \in [Devices -> Synced]
      /\ \A e \in Devices : Behind[e].queue = known[e].queue /\ ~ Behind[e].current
  BY <1>1, <1>7 DEF Behind
<1>9. CASE local' = local /\ known' = Behind
  BY <1>1, <1>2, <1>4, <1>5, <1>8, <1>9 DEF v
<1>10. CASE local' = [local EXCEPT ![d] = rec'] /\ known' = [Behind EXCEPT ![d] = Copy(rec')]
  <2>1. local' \in [Devices -> Copied] /\ known' \in [Devices -> Synced]
    BY <1>1, <1>4, <1>6, <1>8, <1>10
  <2>2. ASSUME NEW e \in Devices
        PROVE  \/ e = d /\ local'[e] = rec' /\ known'[e] = Copy(rec')
               \/ local'[e] = local[e] /\ known'[e].queue = known[e].queue /\ ~ known'[e].current
    <3>1. CASE e = d
      BY <1>1, <1>8, <1>10, <3>1
    <3>2. CASE e # d
      BY <1>1, <1>8, <1>10, <3>2
    <3> QED BY <3>1, <3>2
  <2> QED BY <1>2, <1>4, <1>5, <2>1, <2>2 DEF v
<1> QED BY <1>9, <1>10 DEF Taken

LEMMA BatchFacts ==
  ASSUME QueueTypeOK, NEW batch \in Batches, rec.queue # <<>>
  PROVE  /\ batch \in Queues /\ batch # <<>> /\ batch[1] = Head1
         /\ Ids(batch) \subseteq Ids(rec.queue) /\ Ids(batch) \subseteq Items
         /\ \A i : Asks(rec.queue, i) => Asks(batch, i)
         /\ Distinct(rec.queue) => \A i, j : Before(rec.queue, i, j) /\ j \in Ids(batch) => i \in Ids(batch)
         /\ Len(batch) = 1 \/ \A k \in DOMAIN batch : Plain(batch[k])
         /\ Plain(Head1) => \A k \in DOMAIN batch : Plain(batch[k])
<1>1. rec.queue \in Queues
  BY DEF QueueTypeOK, Copied
<1>2. PICK n \in 1 .. Len(rec.queue) :
        /\ batch = SubSeq(rec.queue, 1, n)
        /\ n = 1 \/ \A k \in 1 .. n : Plain(rec.queue[k])
  BY DEF Batches
<1>3. /\ batch \in Queues /\ batch # <<>> /\ Len(batch) = n /\ DOMAIN batch = 1 .. n
      /\ (\A k \in DOMAIN batch : batch[k] = rec.queue[k])
      /\ Ids(batch) \subseteq Ids(rec.queue) /\ batch[1] = rec.queue[1]
      /\ (\A i : Asks(rec.queue, i) => Asks(batch, i))
      /\ (Distinct(rec.queue) => \A i, j : Before(rec.queue, i, j) /\ j \in Ids(batch) => i \in Ids(batch))
  BY <1>1, <1>2, FirstOf
<1>4. Ids(batch) \subseteq Items
  BY <1>3, QueueFacts
<1>5. Len(batch) = 1 \/ \A k \in DOMAIN batch : Plain(batch[k])
  BY <1>2, <1>3
<1>6. Plain(Head1) => \A k \in DOMAIN batch : Plain(batch[k])
  BY <1>2, <1>3 DEF Head1
<1> QED BY <1>3, <1>4, <1>5, <1>6 DEF Head1

-----------------------------------------------------------------------------
(* Type correctness.                                                       *)

LEMMA QueueTypeInit == QueueInit => QueueTypeOK
<1> SUFFICES ASSUME QueueInit PROVE QueueTypeOK
  OBVIOUS
<1>1. <<>> \in Queues
  BY EmptyQueue
<1>2. Empty \in Copied /\ [queue |-> <<>>, paused |-> FALSE, current |-> TRUE] \in Synced
  BY <1>1 DEF Empty, Copied, Synced
<1>3. Idle \in [state : {"none", "queued", "running", "held"}, carries : SUBSET Items]
  BY DEF Idle
<1>4. MaxEvents \in Nat
  BY OutboxAssumption
<1> QED BY <1>1, <1>2, <1>3, <1>4 DEF QueueInit, QueueTypeOK

LEMMA EventTypes == ASSUME left \in Nat, Event PROVE left' \in Nat
  BY DEF Event

LEMMA HandsTypes ==
  ASSUME handed \in [Items -> Nat], NEW ids, Hands(ids)
  PROVE  handed' \in [Items -> Nat]
  BY DEF Hands

LEMMA AdmitsTypes ==
  ASSUME NEW ids \in SUBSET Items, Admits(ids)
  PROVE  turn' \in [state : {"none", "queued", "running", "held"}, carries : SUBSET Items]
  BY DEF Admits

LEMMA CopyTypes == ASSUME rec \in Copied PROVE Copy(rec) \in Synced
  BY DEF Copy, Copied, Synced

LEMMA ScheduleTypes ==
  ASSUME pending \in BOOLEAN, dirty \in BOOLEAN, NEW q, Schedule(q)
  PROVE  pending' \in BOOLEAN /\ dirty' \in BOOLEAN
<1>1. pending' = (pending \/ (q # <<>> /\ pc = "idle")) /\ dirty' = (dirty \/ (q # <<>> /\ pc # "idle"))
  BY DEF Schedule
<1> QED BY <1>1

LEMMA UiTypes == QueueTypeOK /\ Ui => QueueTypeOK'
<1> SUFFICES ASSUME QueueTypeOK, Ui PROVE QueueTypeOK'
  OBVIOUS
<1> USE DEF device, journal, memory
<1>1. ASSUME NEW i \in Items, Type(i) PROVE QueueTypeOK'
  <2>1. local' \in [Devices -> Copied]
    BY <1>1, TypeEffect DEF OnlyLocal
  <2> QED BY <1>1, <2>1 DEF Type, Edits, QueueTypeOK
<1>2. ASSUME NEW i \in Items, Send(i) PROVE QueueTypeOK'
  BY <1>2 DEF Send, QueueTypeOK
<1>3. ASSUME NEW i \in Items, GivesUp(i) PROVE QueueTypeOK'
  <2>1. local' \in [Devices -> Copied]
    BY <1>3, RequeuedEffect DEF OnlyLocal, GivesUp
  <2>2. left' \in Nat
    BY <1>3, EventTypes DEF GivesUp, QueueTypeOK
  <2> QED BY <1>3, <2>1, <2>2 DEF GivesUp, QueueTypeOK
<1>4. ASSUME NEW d \in Devices, NEW i \in Items, Removes(d, i) PROVE QueueTypeOK'
  <2>1. local' \in [Devices -> Copied]
    BY <1>4, RemovesEffect DEF OnlyLocal
  <2>2. gone' \in [Items -> {"no", "removed", "dropped"}]
    BY <1>4 DEF Removes, QueueTypeOK
  <2> QED BY <1>4, <2>1, <2>2 DEF Removes, Edits, QueueTypeOK
<1>5. ASSUME NEW d \in Devices, Retry(d) PROVE QueueTypeOK'
  <2>1. local' \in [Devices -> Copied]
    BY <1>5, RetryEffect DEF OnlyLocal
  <2> QED BY <1>5, <2>1 DEF Retry, Edits, QueueTypeOK
<1>6. ASSUME NEW d \in Devices, Hears(d) \/ Reconnect(d) PROVE QueueTypeOK'
  <2>1. local' \in [Devices -> Copied] /\ known' \in [Devices -> Synced]
    <3>1. CASE Hears(d) \/ ~ known[d].current
      <4>1. OnlyLocal(d, local'[d].queue) /\ known' = [known EXCEPT ![d] = Copy(rec)]
        BY <1>6, <3>1, HearsResyncs DEF Resyncs
      <4>2. known \in [Devices -> Synced] /\ Copy(rec) \in Synced
        BY CopyTypes DEF QueueTypeOK
      <4> QED BY <4>1, <4>2 DEF OnlyLocal
    <3>2. CASE Reconnect(d) /\ known[d].current
      BY <3>2 DEF Reconnect, QueueTypeOK
    <3> QED BY <1>6, <3>1, <3>2
  <2>2. online' \in [Devices -> BOOLEAN]
    BY <1>6 DEF Hears, Reconnect, QueueTypeOK
  <2> QED BY <1>6, <2>1, <2>2 DEF Hears, Reconnect, QueueTypeOK
<1>7. ASSUME NEW d \in Devices, Disconnect(d) PROVE QueueTypeOK'
  <2>1. left' \in Nat
    BY <1>7, EventTypes DEF Disconnect, QueueTypeOK
  <2> QED BY <1>7, <2>1 DEF Disconnect, QueueTypeOK
<1> QED BY <1>1, <1>2, <1>3, <1>4, <1>5, <1>6, <1>7 DEF Ui

LEMMA RpcTypes == QueueTypeOK /\ Rpc => QueueTypeOK'
<1> SUFFICES ASSUME QueueTypeOK, Rpc PROVE QueueTypeOK'
  OBVIOUS
<1> USE DEF device, journal, memory
<1>1. ASSUME NEW d \in Devices, NEW sendNow \in BOOLEAN, NEW lost \in BOOLEAN, Put(d, sendNow, lost)
      PROVE  QueueTypeOK'
  <2>1. left' \in Nat /\ online' \in [Devices -> BOOLEAN]
    BY <1>1, EventTypes DEF Put, QueueTypeOK
  <2>2. pending' \in BOOLEAN /\ dirty' \in BOOLEAN /\ boundary' \in BOOLEAN
    <3>1. \/ Schedule(Kept(local[d]).queue) /\ boundary' = (Kept(local[d]).queue # <<>> /\ (boundary \/ sendNow))
          \/ UNCHANGED <<boundary, pending, dirty>>
      BY <1>1, Zenon DEF Put
    <3> QED BY <3>1, ScheduleTypes DEF QueueTypeOK
  <2>3. UNCHANGED <<start, delivery, receipt, turn, archived, up, pc, captured, took, handed>>
    BY <1>1 DEF Put
  <2>4. /\ local' \in [Devices -> Copied] /\ known' \in [Devices -> Synced] /\ rec' \in Copied
        /\ gone' \in [Items -> {"no", "removed", "dropped"}] /\ overtaken' \in SUBSET Items
    <3>1. CASE Taken(d)
      <4>1. Ids(captured) \subseteq Items
        BY QueueFacts DEF QueueTypeOK
      <4> QED BY <3>1, <4>1, TakenEffect DEF Taken, QueueTypeOK
    <3>2. CASE Resyncs(d)
      BY <3>2, CopyTypes DEF Resyncs, OnlyLocal, QueueTypeOK
    <3> QED BY <1>1, <3>1, <3>2, PutTakenOrRefused
  <2> QED BY <2>1, <2>2, <2>3, <2>4 DEF QueueTypeOK
<1>2. ASSUME NEW i \in Items, NEW lost \in BOOLEAN, HandleStart(i, lost) PROVE QueueTypeOK'
  <2>1. left' \in Nat
    BY <1>2, EventTypes DEF HandleStart, QueueTypeOK
  <2>2. local' \in [Devices -> Copied]
    <3>1. Requeued(i, "sent") \/ Requeued(i, "no") \/ local' = local
      BY <1>2 DEF HandleStart
    <3> QED BY <3>1, RequeuedEffect DEF OnlyLocal, QueueTypeOK
  <2>3. /\ turn' \in [state : {"none", "queued", "running", "held"}, carries : SUBSET Items]
        /\ handed' \in [Items -> Nat]
        /\ receipt' \in [Items -> {"none", "pending", "accepted", "started"}]
    <3>1. \/ Admits({i}) /\ Hands({i}) /\ receipt' = [receipt EXCEPT ![i] = "started"]
          \/ UNCHANGED <<turn, handed, receipt>>
      BY <1>2 DEF HandleStart
    <3>2. {i} \in SUBSET Items
      OBVIOUS
    <3> QED BY <3>1, <3>2, AdmitsTypes, HandsTypes DEF QueueTypeOK
  <2>4. start' \in [Items -> {"no", "queued", "flying", "answered", "late"}]
    BY <1>2 DEF HandleStart, QueueTypeOK
  <2>5. UNCHANGED <<known, online, rec, delivery, archived, up, memory, gone, overtaken>>
    BY <1>2 DEF HandleStart
  <2> QED BY <2>1, <2>2, <2>3, <2>4, <2>5 DEF QueueTypeOK
<1> QED BY <1>1, <1>2 DEF Rpc

\* Types of what the pump sets when it is done with the head.
LEMMA ReturnsTypes ==
  ASSUME Returns PROVE pc' = "done" /\ captured' \in Queues
  BY EmptyQueue DEF Returns

LEMMA HeldTypes ==
  ASSUME QueueTypeOK, NEW i \in Items, Held(i)
  PROVE  /\ rec' \in Copied /\ known' \in [Devices -> Synced] /\ UNCHANGED <<local, online, start>>
  BY HeldEffect DEF NewRecord, Held, Saves

LEMMA CompleteTypes ==
  ASSUME QueueTypeOK, NEW ids \in SUBSET Items, Complete(ids)
  PROVE  /\ rec' \in Copied /\ known' \in [Devices -> Synced] /\ UNCHANGED <<local, online, start>>
         /\ delivery' \in [Items -> {"none", "submitting", "uncertain", "delivered"}]
  BY CompleteEffect DEF NewRecord, Complete, Saves, QueueTypeOK

LEMMA Head1Item ==
  ASSUME QueueTypeOK, rec.queue # <<>>
  PROVE  Head1 \in Entries /\ Head1.id \in Items /\ Head1.id \in Ids(rec.queue)
<1>1. rec.queue \in Queues
  BY DEF QueueTypeOK, Copied
<1>2. 1 \in DOMAIN rec.queue /\ rec.queue[1].id \in Ids(rec.queue)
  BY <1>1, FirstBefore
<1> QED BY <1>1, <1>2, QueueFacts DEF Head1

LEMMA CapturedItem ==
  ASSUME QueueTypeOK
  PROVE  /\ Ids(captured) \subseteq Items
         /\ captured # <<>> => captured[1].id \in Items /\ captured[1].id \in Ids(captured) /\ 1 \in DOMAIN captured
<1>1. captured \in Queues
  BY DEF QueueTypeOK
<1> QED BY <1>1, QueueFacts, FirstBefore

LEMMA PumpTypes == QueueTypeOK /\ Placed /\ (Pump \/ Refused \/ AgentTakes) => QueueTypeOK'
<1> SUFFICES ASSUME QueueTypeOK, Placed, Pump \/ Refused \/ AgentTakes PROVE QueueTypeOK'
  OBVIOUS
<1> USE DEF device, journal, memory
<1>1. Ids(captured) \in SUBSET Items
  BY CapturedItem
<1>2. pc \in {"discover", "steer", "steered"} => captured # <<>> /\ captured[1].id \in Items
  BY CapturedItem DEF Placed
<1>3. CASE Wakes
  BY <1>3 DEF Wakes, QueueTypeOK
<1>4. CASE Rests
  BY <1>4, ReturnsTypes DEF Rests, QueueTypeOK
<1>5. CASE FindsDelivered
  <2>1. rec.queue # <<>> /\ Complete({Head1.id})
    BY <1>5 DEF FindsDelivered, Ready
  <2>2. {Head1.id} \in SUBSET Items
    BY <2>1, Head1Item
  <2> QED BY <1>5, <2>1, <2>2, CompleteTypes DEF FindsDelivered, QueueTypeOK
<1>6. CASE Holds
  <2>1. rec.queue # <<>> /\ Held(Head1.id)
    BY <1>6 DEF Holds, Ready
  <2> QED BY <1>6, <2>1, Head1Item, HeldTypes, ReturnsTypes DEF Holds, QueueTypeOK
<1>7. CASE Waits
  BY <1>7, ReturnsTypes DEF Waits, QueueTypeOK
<1>8. CASE Refused
  <2>1. rec.queue # <<>> /\ Held(Head1.id)
    BY <1>8 DEF Refused, Goes, Ready
  <2>2. left' \in Nat
    BY <1>8, EventTypes DEF Refused, QueueTypeOK
  <2> QED BY <1>8, <2>1, <2>2, Head1Item, HeldTypes, ReturnsTypes DEF Refused, QueueTypeOK
<1>9. ASSUME NEW batch \in Batches, Steers(batch) PROVE QueueTypeOK'
  <2>1. batch \in Queues
    BY <1>9, BatchFacts DEF Steers, Goes, Ready
  <2>2. /\ delivery' \in [Items -> {"none", "submitting", "uncertain", "delivered"}]
        /\ receipt' \in [Items -> {"none", "pending", "accepted", "started"}]
    BY <1>9 DEF Steers, QueueTypeOK
  <2> QED BY <1>9, <2>1, <2>2 DEF Steers, QueueTypeOK
<1>10. ASSUME NEW batch \in Batches, Discovers(batch) PROVE QueueTypeOK'
  <2>1. batch \in Queues
    BY <1>10, BatchFacts DEF Discovers, Goes, Ready
  <2> QED BY <1>10, <2>1 DEF Discovers, QueueTypeOK
<1>11. CASE AgentTakes
  <2>1. handed' \in [Items -> Nat]
    BY <1>11, HandsTypes DEF AgentTakes, QueueTypeOK
  <2> QED BY <1>11, <2>1 DEF AgentTakes, QueueTypeOK
<1>12. CASE SteerPublished
  BY <1>12 DEF SteerPublished, QueueTypeOK
<1>13. CASE SteerCompleted
  <2>1. Complete(Ids(captured)) /\ captured' = <<>>
    BY <1>13 DEF SteerCompleted
  <2> QED BY <1>1, <1>13, <2>1, CompleteTypes, EmptyQueue DEF SteerCompleted, QueueTypeOK
<1>14. CASE SteerDeclined
  BY <1>14, ReturnsTypes DEF SteerDeclined, QueueTypeOK
<1>15. CASE SteerFailed
  <2>1. Held(captured[1].id) /\ captured[1].id \in Items
    BY <1>2, <1>15 DEF SteerFailed
  <2>2. delivery' \in [Items -> {"none", "submitting", "uncertain", "delivered"}]
    BY <1>15 DEF SteerFailed, QueueTypeOK
  <2> QED BY <1>15, <2>1, <2>2, HeldTypes, ReturnsTypes DEF SteerFailed, QueueTypeOK
<1>16. CASE Starts
  <2>1. Complete(Ids(captured)) /\ captured' = <<>>
    BY <1>16 DEF Starts
  <2>2. /\ turn' \in [state : {"none", "queued", "running", "held"}, carries : SUBSET Items]
        /\ handed' \in [Items -> Nat]
        /\ receipt' \in [Items -> {"none", "pending", "accepted", "started"}]
    <3>1. \/ UNCHANGED <<receipt, turn, handed>>
          \/ /\ receipt' = [i \in Items |-> IF i \in Ids(captured) THEN "started" ELSE receipt[i]]
             /\ Admits(Ids(captured)) /\ Hands(Ids(captured))
      BY <1>16 DEF Starts
    <3> QED BY <1>1, <3>1, AdmitsTypes, HandsTypes DEF QueueTypeOK
  <2> QED BY <1>1, <1>16, <2>1, <2>2, CompleteTypes, EmptyQueue DEF Starts, QueueTypeOK
<1>17. CASE FindsArchived
  BY <1>17, ReturnsTypes DEF FindsArchived, QueueTypeOK
<1>18. CASE StartRefused
  <2>1. Held(captured[1].id) /\ captured[1].id \in Items
    BY <1>2, <1>18 DEF StartRefused
  <2>2. left' \in Nat
    BY <1>18, EventTypes DEF StartRefused, QueueTypeOK
  <2> QED BY <1>18, <2>1, <2>2, HeldTypes, ReturnsTypes DEF StartRefused, QueueTypeOK
<1>19. CASE Ends
  <2>1. pending' \in BOOLEAN
    BY <1>19, Zenon DEF Ends, QueueTypeOK
  <2> QED BY <1>19, <2>1 DEF Ends, QueueTypeOK
<1> QED BY <1>3, <1>4, <1>5, <1>6, <1>7, <1>8, <1>9, <1>10, <1>11, <1>12, <1>13, <1>14, <1>15, <1>16,
           <1>17, <1>18, <1>19 DEF Pump

LEMMA AroundTypes ==
  QueueTypeOK /\ (Turns \/ OtherStarts \/ ToolCompleted \/ Archive \/ UserRecovers \/ Crash \/ StartUp)
    => QueueTypeOK'
<1> SUFFICES ASSUME QueueTypeOK,
                    Turns \/ OtherStarts \/ ToolCompleted \/ Archive \/ UserRecovers \/ Crash \/ StartUp
             PROVE  QueueTypeOK'
  OBVIOUS
<1> USE DEF device, journal, memory
<1>1. turn \in [state : {"none", "queued", "running", "held"}, carries : SUBSET Items]
  BY DEF QueueTypeOK
<1>2. \A s \in {"none", "queued", "running", "held"} :
        [turn EXCEPT !.state = s] \in [state : {"none", "queued", "running", "held"}, carries : SUBSET Items]
  BY <1>1
<1>3. Idle \in [state : {"none", "queued", "running", "held"}, carries : SUBSET Items]
  BY DEF Idle
<1>4. CASE TurnRuns
  BY <1>2, <1>4 DEF TurnRuns, Same, QueueTypeOK
<1>5. CASE TurnEnds
  <2>1. pending' \in BOOLEAN /\ dirty' \in BOOLEAN
    BY <1>5, ScheduleTypes DEF TurnEnds, QueueTypeOK
  <2> QED BY <1>3, <1>5, <2>1 DEF TurnEnds, Same, QueueTypeOK
<1>6. CASE OtherStarts
  <2>1. left' \in Nat
    BY <1>6, EventTypes DEF OtherStarts, QueueTypeOK
  <2>2. turn' \in [state : {"none", "queued", "running", "held"}, carries : SUBSET Items]
    <3>1. {} \in SUBSET Items
      OBVIOUS
    <3> QED BY <1>6, <3>1, AdmitsTypes DEF OtherStarts
  <2> QED BY <1>6, <2>1, <2>2 DEF OtherStarts, Same, QueueTypeOK
<1>7. CASE ToolCompleted
  <2>1. pending' \in BOOLEAN /\ dirty' \in BOOLEAN
    BY <1>7, ScheduleTypes DEF ToolCompleted, QueueTypeOK
  <2> QED BY <1>7, <2>1 DEF ToolCompleted, Same, QueueTypeOK
<1>8. CASE Archive
  <2>1. pending' \in BOOLEAN /\ dirty' \in BOOLEAN
    BY <1>8, ScheduleTypes DEF Archive, QueueTypeOK
  <2>2. left' \in Nat
    BY <1>8, EventTypes DEF Archive, QueueTypeOK
  <2>3. archived' \in BOOLEAN
    BY <1>8 DEF Archive, QueueTypeOK
  <2> QED BY <1>8, <2>1, <2>2, <2>3 DEF Archive, Same, QueueTypeOK
<1>9. CASE UserRecovers
  <2>1. pending' \in BOOLEAN /\ dirty' \in BOOLEAN
    BY <1>9, ScheduleTypes DEF UserRecovers, QueueTypeOK
  <2>2. turn' \in [state : {"none", "queued", "running", "held"}, carries : SUBSET Items]
    BY <1>2, <1>3, <1>9 DEF UserRecovers
  <2> QED BY <1>9, <2>1, <2>2 DEF UserRecovers, Same, QueueTypeOK
<1>10. CASE Crash
  <2>1. left' \in Nat
    BY <1>10, EventTypes DEF Crash, QueueTypeOK
  <2>2. turn' \in [state : {"none", "queued", "running", "held"}, carries : SUBSET Items]
    BY <1>1, <1>2, <1>3, <1>10 DEF Crash
  <2>3. captured' \in Queues
    BY <1>10, EmptyQueue DEF Crash
  <2>4. UNCHANGED <<local, known, start, rec, delivery, receipt, archived, handed, gone, overtaken>>
    BY <1>10 DEF Crash
  <2>5. /\ up' = FALSE /\ pending' = FALSE /\ dirty' = FALSE /\ pc' = "idle" /\ took' = FALSE /\ boundary' = FALSE
        /\ online' \in [Devices -> BOOLEAN]
    BY <1>10 DEF Crash
  <2> QED BY <2>1, <2>2, <2>3, <2>4, <2>5 DEF QueueTypeOK
<1>11. CASE StartUp
  <2>1. turn' \in [state : {"none", "queued", "running", "held"}, carries : SUBSET Items]
    BY <1>1, <1>2, <1>11 DEF StartUp
  <2>2. delivery' \in [Items -> {"none", "submitting", "uncertain", "delivered"}]
    <3>1. \A i \in Items : Settled(i) \in {"none", "submitting", "uncertain", "delivered"}
      BY DEF Settled, QueueTypeOK
    <3> QED BY <1>11, <3>1 DEF StartUp
  <2>3. pending' \in BOOLEAN /\ up' = TRUE
    BY <1>11, Zenon DEF StartUp
  <2>4. UNCHANGED <<device, rec, receipt, archived, dirty, pc, captured, took, boundary, left, handed, gone, overtaken>>
    BY <1>11 DEF StartUp
  <2> QED BY <2>1, <2>2, <2>3, <2>4 DEF QueueTypeOK
<1> QED BY <1>4, <1>5, <1>6, <1>7, <1>8, <1>9, <1>10, <1>11 DEF Turns

LEMMA QueueTypeStep == QueueTypeOK /\ Placed /\ [QueueNext]_queueVars => QueueTypeOK'
<1>1. QueueTypeOK /\ UNCHANGED queueVars => QueueTypeOK'
  BY DEF queueVars, device, journal, memory, QueueTypeOK
<1> QED BY <1>1, UiTypes, RpcTypes, PumpTypes, AroundTypes DEF QueueNext

-----------------------------------------------------------------------------
(* What the steps leave of the order of the copies, of an input that is    *)
(* nowhere, and of one that is shown as asked for everywhere.              *)

CapturesFrom ==
  /\ Ids(captured') \subseteq Ids(captured) \union Ids(rec.queue)
  /\ \A j : Asks(captured, j) /\ Asks(rec.queue, j) => Asks(captured', j)

LEMMA CapturesNothing == ASSUME captured' = <<>> \/ captured' = captured PROVE CapturesFrom
  BY EmptyQueue DEF CapturesFrom

LEMMA QueueTypes ==
  ASSUME QueueTypeOK
  PROVE  /\ rec \in Copied /\ rec.queue \in Queues /\ Ids(rec.queue) \subseteq Items
         /\ \A d \in Devices :
              /\ local[d] \in Copied /\ local[d].queue \in Queues /\ Ids(local[d].queue) \subseteq Items
              /\ known[d] \in Synced /\ known[d].queue \in Queues /\ Ids(known[d].queue) \subseteq Items
         /\ captured \in Queues /\ Ids(captured) \subseteq Items
<1>1. rec \in Copied /\ rec.queue \in Queues /\ captured \in Queues
  BY DEF QueueTypeOK, Copied
<1>2. \A d \in Devices : /\ local[d] \in Copied /\ local[d].queue \in Queues
                         /\ known[d] \in Synced /\ known[d].queue \in Queues
  BY DEF QueueTypeOK, Copied, Synced
<1> QED BY <1>1, <1>2, QueueFacts

LEMMA AbsentAsks == ASSUME NEW q, NEW i, i \notin Ids(q) PROVE Asks(q, i)
  BY DEF Asks, Ids

LEMMA NowhereSent == ASSUME NEW i \in Items, Nowhere(i) PROVE AllSent(i)
  BY AbsentAsks DEF Nowhere, AllSent

\* One input is new in its author's copy.
Added(i, asked) ==
  LET d == Author[i] IN
  /\ OnlyLocal(d, local'[d].queue)
  /\ Distinct(local'[d].queue) /\ Follows(local'[d].queue, known[d].queue)
  /\ Ids(local'[d].queue) = Ids(local[d].queue) \union {i}
  /\ \A j \in Items : Asks(local[d].queue, j) /\ (j = i => asked = "sent") => Asks(local'[d].queue, j)

LEMMA TypeAdds ==
  ASSUME QueueTypeOK, Copies, NEW i \in Items, Nowhere(i), Type(i)
  PROVE  Added(i, "no")
<1> DEFINE d == Author[i]
           q == local[d].queue
           r == Append(q, Entry(i))
<1>1. OnlyLocal(d, r) /\ d \in Devices
  BY TypeEffect DEF OnlyLocal
<1>2. q \in Queues /\ Distinct(q) /\ Follows(q, known[d].queue) /\ i \notin Ids(q) /\ i \notin Ids(known[d].queue)
  BY <1>1, QueueTypes DEF Copies, Single, Ordered, Nowhere
<1> HIDE DEF q
<1>3. Entry(i) \in Entries /\ Entry(i).id = i
  BY EntryOf
<1>4. /\ r \in Queues /\ Ids(r) = Ids(q) \union {i} /\ Distinct(r)
      /\ (\A j, k : Before(r, j, k) => Before(q, j, k) \/ (j \in Ids(q) /\ k = i))
      /\ \A j : Asks(q, j) /\ (j = i => Entry(i).asked = "sent") => Asks(r, j)
  BY <1>2, <1>3, AtTheEnd
<1> HIDE DEF r
<1>5. Follows(r, known[d].queue)
  BY <1>2, <1>4, BeforeIds DEF Follows
<1>6. local'[d].queue = r
  BY <1>1 DEF OnlyLocal
<1>7. \A j \in Items : Asks(q, j) /\ (j = i => "no" = "sent") => Asks(r, j)
  BY <1>4
<1> QED BY <1>1, <1>4, <1>5, <1>6, <1>7 DEF Added, q

LEMMA RequeuedAdds ==
  ASSUME QueueTypeOK, Copies, NEW i \in Items, Nowhere(i), NEW asked \in {"no", "again", "sent"},
         Requeued(i, asked)
  PROVE  Added(i, asked)
<1> DEFINE d == Author[i]
           q == local[d].queue
           e == [Entry(i) EXCEPT !.asked = asked]
           r == <<e>> \o q
<1>1. OnlyLocal(d, r) /\ d \in Devices
  BY RequeuedEffect DEF OnlyLocal
<1>2. q \in Queues /\ Distinct(q) /\ Follows(q, known[d].queue) /\ i \notin Ids(q) /\ i \notin Ids(known[d].queue)
  BY <1>1, QueueTypes DEF Copies, Single, Ordered, Nowhere
<1> HIDE DEF q
<1>3. e \in Entries /\ e.id = i /\ e.asked = asked
  BY EntryOf
<1> HIDE DEF e
<1>4. /\ r \in Queues /\ Ids(r) = Ids(q) \union {i} /\ Distinct(r)
      /\ (\A j, k : Before(r, j, k) => Before(q, j, k) \/ (j = i /\ k \in Ids(q)))
      /\ \A j : Asks(q, j) /\ (j = i => asked = "sent") => Asks(r, j)
  BY <1>2, <1>3, AtTheHead
<1> HIDE DEF r
<1>5. Follows(r, known[d].queue)
  BY <1>2, <1>4, BeforeIds DEF Follows
<1>6. local'[d].queue = r
  BY <1>1 DEF OnlyLocal
<1> QED BY <1>1, <1>4, <1>5, <1>6 DEF Added, q

LEMMA AddedLeaves ==
  ASSUME QueueTypeOK, Copies, NEW i \in Items, NEW asked, Added(i, asked), UNCHANGED <<known, rec, captured>>
  PROVE  /\ Copies'
         /\ \A j \in Items : j # i /\ Nowhere(j) => Nowhere(j)'
         /\ \A j \in Items : AllSent(j) /\ (j = i => asked = "sent") => AllSent(j)'
         /\ \A d \in Devices : Ids(local[d].queue) \subseteq Ids(local'[d].queue)
<1> DEFINE d == Author[i]
<1>1. /\ d \in Devices /\ \A e \in Devices : e # d => local'[e] = local[e]
  BY DEF Added, OnlyLocal
<1>2. /\ Distinct(local'[d].queue) /\ Follows(local'[d].queue, known[d].queue)
      /\ Ids(local'[d].queue) = Ids(local[d].queue) \union {i}
      /\ \A j \in Items : Asks(local[d].queue, j) /\ (j = i => asked = "sent") => Asks(local'[d].queue, j)
  BY DEF Added
<1> HIDE DEF d
<1>3. Copies'
  BY <1>1, <1>2 DEF Copies, InStep, Single, Ordered, Value
<1>4. \A j \in Items : j # i /\ Nowhere(j) => Nowhere(j)'
  BY <1>1, <1>2 DEF Nowhere
<1>5. \A j \in Items : AllSent(j) /\ (j = i => asked = "sent") => AllSent(j)'
  BY <1>1, <1>2 DEF AllSent
<1>6. \A e \in Devices : Ids(local[e].queue) \subseteq Ids(local'[e].queue)
  BY <1>1, <1>2
<1> QED BY <1>3, <1>4, <1>5, <1>6

\* What the others leave.
Leaves == /\ Copies'
          /\ \A j \in Items : Nowhere(j) => Nowhere(j)'
          /\ \A j \in Items : AllSent(j) => AllSent(j)'

LEMMA CutLeaves ==
  ASSUME QueueTypeOK, Copies, NEW d, NEW S, OnlyLocal(d, local'[d].queue),
         Shortens(local'[d].queue, local[d].queue, S), UNCHANGED <<known, rec, captured>>
  PROVE  Leaves
<1>1. d \in Devices /\ \A e \in Devices : e # d => local'[e] = local[e]
  BY DEF OnlyLocal
<1>2. /\ Distinct(local'[d].queue) /\ Follows(local'[d].queue, known[d].queue)
      /\ Ids(local'[d].queue) \subseteq Ids(local[d].queue)
      /\ \A j : Asks(local[d].queue, j) => Asks(local'[d].queue, j)
  BY <1>1 DEF Shortens, Copies, Single, Ordered, Follows
<1>3. Copies'
  BY <1>1, <1>2 DEF Copies, InStep, Single, Ordered, Value
<1>4. \A j \in Items : Nowhere(j) => Nowhere(j)'
  BY <1>1, <1>2 DEF Nowhere
<1>5. \A j \in Items : AllSent(j) => AllSent(j)'
  BY <1>1, <1>2 DEF AllSent
<1> QED BY <1>3, <1>4, <1>5 DEF Leaves

LEMMA CopyOf == ASSUME NEW r \in Copied PROVE Value(Copy(r)) = r /\ Copy(r).queue = r.queue
  BY DEF Copy, Value, Copied

LEMMA ResyncsLeaves ==
  ASSUME QueueTypeOK, Copies, NEW d, Resyncs(d)
  PROVE  Leaves
<1>1. /\ d \in Devices /\ (\A e \in Devices : e # d => local'[e] = local[e])
      /\ known' = [known EXCEPT ![d] = Copy(rec)] /\ UNCHANGED <<rec, captured>>
      /\ Reconciles(local'[d], local[d], known[d], rec)
  BY DEF Resyncs, OnlyLocal
<1>2. known \in [Devices -> Synced] /\ rec \in Copied
  BY DEF QueueTypeOK
<1>3. known'[d] = Copy(rec) /\ known'[d].queue = rec.queue /\ Value(known'[d]) = rec
  BY <1>1, <1>2, CopyOf
<1>4. \A e \in Devices : e # d => known'[e] = known[e]
  BY <1>1, <1>2
<1>5. /\ Distinct(local'[d].queue) /\ Follows(local'[d].queue, rec.queue) /\ Distinct(rec.queue)
      /\ Ids(local'[d].queue) \subseteq Ids(local[d].queue) \union Ids(rec.queue)
      /\ \A j : Asks(local[d].queue, j) /\ Asks(rec.queue, j) => Asks(local'[d].queue, j)
  BY <1>1 DEF Reconciles, Copies, Single, Ordered
<1>6. InStep'
  <2>1. ASSUME NEW e \in Devices, known'[e].current PROVE Value(known'[e]) = rec
    BY <1>3, <1>4, <2>1 DEF Copies, InStep
  <2> QED BY <1>1, <2>1 DEF InStep, Value
<1>7. Single' /\ Ordered'
  BY <1>1, <1>3, <1>4, <1>5 DEF Copies, Single, Ordered
<1>8. \A j \in Items : Nowhere(j) => Nowhere(j)'
  BY <1>1, <1>3, <1>4, <1>5 DEF Nowhere
<1>9. \A j \in Items : AllSent(j) => AllSent(j)'
  BY <1>1, <1>3, <1>4, <1>5 DEF AllSent
<1> QED BY <1>6, <1>7, <1>8, <1>9 DEF Leaves, Copies

LEMMA TakenLeaves ==
  ASSUME QueueTypeOK, Copies, NEW d \in Devices, Taken(d)
  PROVE  Leaves
<1>1. /\ rec' \in Copied
      /\ Shortens(rec'.queue, local[d].queue, {i \in Items : delivery[i] = "delivered"})
      /\ \A e \in Devices :
           \/ local'[e] = rec' /\ known'[e] = Copy(rec')
           \/ local'[e] = local[e] /\ known'[e].queue = known[e].queue /\ ~ known'[e].current
      /\ captured' = captured
  BY TakenEffect DEF Taken
<1>2. /\ rec'.queue \in Queues /\ Distinct(rec'.queue) /\ Ids(rec'.queue) \subseteq Ids(local[d].queue)
      /\ \A j : Asks(local[d].queue, j) => Asks(rec'.queue, j)
  BY <1>1 DEF Shortens, Copies, Single
<1>3. Value(Copy(rec')) = rec' /\ Copy(rec').queue = rec'.queue /\ Follows(rec'.queue, rec'.queue)
  BY <1>1, <1>2, CopyOf, FollowsItself
<1>4. InStep'
  <2>1. ASSUME NEW e \in Devices, known'[e].current PROVE Value(known'[e]) = rec'
    BY <1>1, <1>3, <2>1
  <2> QED BY <2>1 DEF InStep, Value
<1>5. Single' /\ Ordered'
  BY <1>1, <1>2, <1>3 DEF Copies, Single, Ordered
<1>6. \A j \in Items : Nowhere(j) => Nowhere(j)'
  BY <1>1, <1>2, <1>3 DEF Nowhere
<1>7. \A j \in Items : AllSent(j) => AllSent(j)'
  BY <1>1, <1>2, <1>3 DEF AllSent
<1> QED BY <1>4, <1>5, <1>6, <1>7 DEF Leaves, Copies

LEMMA RecordLeaves ==
  ASSUME QueueTypeOK, Copies, NEW S, rec' \in Copied, Shortens(rec'.queue, rec.queue, S), NewRecord,
         local' = local, CapturesFrom
  PROVE  Leaves
<1>1. /\ Distinct(rec'.queue) /\ Ids(rec'.queue) \subseteq Ids(rec.queue)
      /\ \A j : Asks(rec.queue, j) => Asks(rec'.queue, j)
  BY DEF Shortens, Copies, Single
<1>2. \A d \in Devices : known'[d].queue = known[d].queue /\ ~ known'[d].current
  BY DEF NewRecord
<1>3. Copies'
  BY <1>1, <1>2 DEF Copies, InStep, Single, Ordered
<1>4. \A j \in Items : Nowhere(j) => Nowhere(j)'
  BY <1>1, <1>2 DEF Nowhere, CapturesFrom
<1>5. \A j \in Items : AllSent(j) => AllSent(j)'
  BY <1>1, <1>2 DEF AllSent, CapturesFrom
<1> QED BY <1>3, <1>4, <1>5 DEF Leaves

LEMMA CaptureLeaves ==
  ASSUME QueueTypeOK, Copies, UNCHANGED <<local, known, rec>>, CapturesFrom
  PROVE  Leaves
<1>1. Copies'
  BY DEF Copies, InStep, Single, Ordered, Value
<1>2. \A j \in Items : Nowhere(j) => Nowhere(j)'
  BY DEF Nowhere, CapturesFrom
<1>3. \A j \in Items : AllSent(j) => AllSent(j)'
  BY DEF AllSent, CapturesFrom
<1> QED BY <1>1, <1>2, <1>3 DEF Leaves

-----------------------------------------------------------------------------
(* The steps of the devices.                                               *)

LEMMA OutboxInit == QueueInit => OutboxInv
<1> SUFFICES ASSUME QueueInit PROVE OutboxInv
  OBVIOUS
<1>1. QueueTypeOK
  BY QueueTypeInit
<1>2. /\ <<>> \in Queues /\ Ids(<<>>) = {} /\ Distinct(<<>>)
      /\ (\A i, j : ~ Before(<<>>, i, j)) /\ (\A i : Asks(<<>>, i)) /\ Follows(<<>>, <<>>)
  BY EmptyQueue, FollowsItself
<1>3. /\ \A d \in Devices : /\ local[d].queue = <<>> /\ known[d].queue = <<>>
                            /\ Value(known[d]) = Empty
      /\ rec = Empty /\ rec.queue = <<>> /\ captured = <<>>
  BY DEF QueueInit, Empty, Value
<1>4. /\ \A i \in Items : /\ start[i] = "no" /\ delivery[i] = "none" /\ receipt[i] = "none"
                          /\ handed[i] = 0 /\ gone[i] = "no"
      /\ up = TRUE /\ pc = "idle" /\ took = FALSE
  BY DEF QueueInit
<1>5. Copies
  BY <1>2, <1>3 DEF Copies, InStep, Single, Ordered
<1>6. Placed
  BY <1>3, <1>4 DEF Placed, Steering
<1>7. Told
  BY <1>2, <1>3, <1>4 DEF Told, Untold, Late, Begun, Nowhere
<1>8. Reach
  <2>1. Submitting /\ Reached
    BY <1>4 DEF Submitting, Reached, Steering
  <2>2. Goable /\ Marked /\ HandedOnce
    BY <1>2, <1>3, <1>4 DEF Goable, Marked, HandedOnce, Steering
  <2> QED BY <2>1, <2>2 DEF Reach
<1>9. Lost
  BY <1>2, <1>3, <1>4 DEF Lost, Lacks, NothingIsLost
<1> QED BY <1>1, <1>5, <1>6, <1>7, <1>8, <1>9 DEF OutboxInv

\* The devices leave the core alone.
CoreAlone == UNCHANGED <<rec, delivery, receipt, up, pc, captured, took, handed, overtaken>>

LEMMA CoreAloneKeeps ==
  ASSUME CoreAlone, Placed, Reach
  PROVE  Placed' /\ Reach'
<1>1. Placed'
  BY DEF CoreAlone, Placed, Steering
<1>2. Submitting' /\ Reached'
  BY DEF CoreAlone, Reach, Submitting, Reached, Steering
<1>3. Goable' /\ Marked' /\ HandedOnce'
  BY DEF CoreAlone, Reach, Goable, Marked, HandedOnce, Steering
<1> QED BY <1>1, <1>2, <1>3 DEF Reach

LEMMA NothingChanges ==
  ASSUME OutboxInv,
         UNCHANGED <<local, known, start, rec, delivery, receipt, up, pc, captured, took, handed, gone, overtaken>>
  PROVE  Copies' /\ Placed' /\ Told' /\ Reach' /\ Lost'
<1>1. Placed' /\ Reach'
  BY CoreAloneKeeps DEF CoreAlone, OutboxInv
<1>2. Leaves
  BY CapturesNothing, CaptureLeaves DEF OutboxInv
<1>3. Copies'
  BY <1>2 DEF Leaves
<1>4. Told'
  BY <1>2 DEF Leaves, OutboxInv, Told, Untold, Late, Begun
<1>5. Lost'
  BY DEF OutboxInv, Lost, Lacks, NothingIsLost
<1> QED BY <1>1, <1>3, <1>4, <1>5

LEMMA SendStep ==
  ASSUME OutboxInv, NEW i \in Items, Send(i)
  PROVE  Copies' /\ Placed' /\ Told' /\ Reach' /\ Lost'
<1>1. /\ start[i] = "no" /\ UNCHANGED <<local, known, gone>> /\ CoreAlone
      /\ start' = [start EXCEPT ![i] = "flying"]
  BY DEF Send, Untyped, CoreAlone, journal, memory
<1>2. start \in [Items -> {"no", "queued", "flying", "answered", "late"}]
  BY DEF OutboxInv, QueueTypeOK
<1>3. start'[i] = "flying" /\ \A j \in Items : j # i => start'[j] = start[j]
  BY <1>1, <1>2
<1>4. Placed' /\ Reach'
  BY <1>1, CoreAloneKeeps DEF OutboxInv
<1>5. Leaves
  BY <1>1, CapturesNothing, CaptureLeaves DEF OutboxInv, CoreAlone
<1>6. Told'
  <2>1. Untold'
    BY <1>1, <1>3, <1>5 DEF Leaves, CoreAlone, OutboxInv, Told, Untold
  <2>2. Late' /\ Begun'
    BY <1>1, <1>3, <1>5 DEF Leaves, CoreAlone, OutboxInv, Told, Late, Begun
  <2> QED BY <2>1, <2>2 DEF Told
<1>7. Lost'
  BY <1>1, <1>3 DEF CoreAlone, OutboxInv, Lost, Lacks, NothingIsLost
<1> QED BY <1>4, <1>5, <1>6, <1>7 DEF Leaves

LEMMA TypedStep ==
  ASSUME OutboxInv, NEW i \in Items, Type(i)
  PROVE  Copies' /\ Placed' /\ Told' /\ Reach' /\ Lost'
<1>1. /\ start[i] = "no" /\ UNCHANGED <<known, gone>> /\ CoreAlone
      /\ start' = [start EXCEPT ![i] = "queued"]
  BY DEF Type, Edits, Untyped, CoreAlone, journal, memory
<1>2. start \in [Items -> {"no", "queued", "flying", "answered", "late"}]
  BY DEF OutboxInv, QueueTypeOK
<1>3. start'[i] = "queued" /\ \A j \in Items : j # i => start'[j] = start[j]
  BY <1>1, <1>2
<1>4. Nowhere(i) /\ receipt[i] = "none"
  BY <1>1 DEF OutboxInv, Told, Untold
<1>5. Added(i, "no")
  BY <1>4, TypeAdds DEF OutboxInv
<1>6. /\ Copies'
      /\ \A j \in Items : j # i /\ Nowhere(j) => Nowhere(j)'
      /\ \A j \in Items : AllSent(j) /\ j # i => AllSent(j)'
      /\ \A d \in Devices : Ids(local[d].queue) \subseteq Ids(local'[d].queue)
  BY <1>1, <1>5, AddedLeaves DEF OutboxInv, CoreAlone
<1>7. Placed' /\ Reach'
  BY <1>1, CoreAloneKeeps DEF OutboxInv
<1>8. Told'
  <2>1. Untold'
    BY <1>1, <1>3, <1>6 DEF CoreAlone, OutboxInv, Told, Untold
  <2>2. Late'
    BY <1>1, <1>3, <1>6 DEF CoreAlone, OutboxInv, Told, Late
  <2>3. Begun'
    BY <1>1, <1>3, <1>4, <1>6 DEF CoreAlone, OutboxInv, Told, Begun
  <2> QED BY <2>1, <2>2, <2>3 DEF Told
<1>9. Lacks'
  BY <1>1, <1>6 DEF CoreAlone, OutboxInv, Lost, Lacks
<1>10. NothingIsLost'
  <2>1. i \in Ids(local'[Author[i]].queue)
    BY <1>5 DEF Added
  <2>2. \A j \in Items : Author[j] \in Devices
    BY OutboxAssumption
  <2> QED BY <1>1, <1>3, <1>6, <2>1, <2>2 DEF CoreAlone, OutboxInv, Lost, NothingIsLost
<1> QED BY <1>6, <1>7, <1>8, <1>9, <1>10 DEF Lost

LEMMA GivesUpStep ==
  ASSUME OutboxInv, NEW i \in Items, GivesUp(i)
  PROVE  Copies' /\ Placed' /\ Told' /\ Reach' /\ Lost'
<1>1. /\ start[i] = "flying" /\ UNCHANGED <<known, gone>> /\ CoreAlone
      /\ start' = [start EXCEPT ![i] = "late"] /\ Requeued(i, "sent")
  BY DEF GivesUp, CoreAlone, journal, memory
<1>2. start \in [Items -> {"no", "queued", "flying", "answered", "late"}]
  BY DEF OutboxInv, QueueTypeOK
<1>3. start'[i] = "late" /\ \A j \in Items : j # i => start'[j] = start[j]
  BY <1>1, <1>2
<1>4. Nowhere(i) /\ receipt[i] = "none" /\ delivery[i] = "none"
  BY <1>1 DEF OutboxInv, Told, Untold
<1>5. Added(i, "sent")
  BY <1>1, <1>4, RequeuedAdds DEF OutboxInv
<1>6. /\ Copies'
      /\ \A j \in Items : j # i /\ Nowhere(j) => Nowhere(j)'
      /\ \A j \in Items : AllSent(j) => AllSent(j)'
      /\ \A d \in Devices : Ids(local[d].queue) \subseteq Ids(local'[d].queue)
  BY <1>1, <1>5, AddedLeaves DEF OutboxInv, CoreAlone
<1>7. Placed' /\ Reach'
  BY <1>1, CoreAloneKeeps DEF OutboxInv
<1>8. Told'
  <2>1. Untold'
    BY <1>1, <1>3, <1>6 DEF CoreAlone, OutboxInv, Told, Untold
  <2>2. AllSent(i)'
    BY <1>4, <1>6, NowhereSent
  <2>3. Late'
    BY <1>1, <1>3, <1>4, <1>6, <2>2 DEF CoreAlone, OutboxInv, Told, Late
  <2>4. Begun'
    BY <1>1, <1>3, <1>4, <1>6 DEF CoreAlone, OutboxInv, Told, Begun
  <2> QED BY <2>1, <2>3, <2>4 DEF Told
<1>9. Lacks'
  BY <1>1, <1>6 DEF CoreAlone, OutboxInv, Lost, Lacks
<1>10. NothingIsLost'
  <2>1. i \in Ids(local'[Author[i]].queue)
    BY <1>5 DEF Added
  <2>2. \A j \in Items : Author[j] \in Devices
    BY OutboxAssumption
  <2> QED BY <1>1, <1>3, <1>6, <2>1, <2>2 DEF CoreAlone, OutboxInv, Lost, NothingIsLost
<1> QED BY <1>6, <1>7, <1>8, <1>9, <1>10 DEF Lost

\* The x of the queue, and a refused head that goes again.
LEMMA CutStep ==
  ASSUME OutboxInv, NEW d \in Devices, NEW S \in SUBSET Items, OnlyLocal(d, local'[d].queue),
         Shortens(local'[d].queue, local[d].queue, S),
         UNCHANGED <<known, start>>, CoreAlone,
         \A i \in Items : (gone[i] # "no" \/ i \in S) => gone'[i] # "no"
  PROVE  Copies' /\ Placed' /\ Told' /\ Reach' /\ Lost'
<1>1. Leaves
  BY CutLeaves DEF OutboxInv, CoreAlone
<1>2. Placed' /\ Reach'
  BY CoreAloneKeeps DEF OutboxInv
<1>3. Told'
  BY <1>1 DEF Leaves, CoreAlone, OutboxInv, Told, Untold, Late, Begun
<1>4. \A e \in Devices : Ids(local'[e].queue) \subseteq Ids(local[e].queue)
                         /\ Ids(local[e].queue) \ S \subseteq Ids(local'[e].queue)
  <2>1. \A e \in Devices : e # d => local'[e] = local[e]
    BY DEF OnlyLocal
  <2> QED BY <2>1 DEF Shortens
<1>5. Lacks'
  BY <1>4 DEF CoreAlone, OutboxInv, Lost, Lacks
<1>6. NothingIsLost'
  <2>1. \A j \in Items : Author[j] \in Devices
    BY OutboxAssumption
  <2> QED BY <1>4, <2>1 DEF CoreAlone, OutboxInv, Lost, NothingIsLost
<1> QED BY <1>1, <1>2, <1>3, <1>5, <1>6 DEF Leaves, Lost

LEMMA RemovesStep ==
  ASSUME OutboxInv, NEW d \in Devices, NEW i \in Items, Removes(d, i)
  PROVE  Copies' /\ Placed' /\ Told' /\ Reach' /\ Lost'
<1>1. OnlyLocal(d, Without(local[d].queue, {i}))
  BY RemovesEffect DEF OutboxInv
<1>2. local'[d].queue = Without(local[d].queue, {i})
  BY <1>1 DEF OnlyLocal
<1>3. Shortens(local'[d].queue, local[d].queue, {i})
  BY <1>2, WithoutShortens, QueueTypes DEF OutboxInv
<1>4. UNCHANGED <<known, start>> /\ CoreAlone
  BY DEF Removes, Edits, CoreAlone, journal, memory
<1>5. \A j \in Items : (gone[j] # "no" \/ j \in {i}) => gone'[j] # "no"
  BY DEF Removes, OutboxInv, QueueTypeOK
<1> HIDE DEF OutboxInv
<1> QED BY <1>1, <1>2, <1>3, <1>4, <1>5, CutStep

LEMMA RetryStep ==
  ASSUME OutboxInv, NEW d \in Devices, Retry(d)
  PROVE  Copies' /\ Placed' /\ Told' /\ Reach' /\ Lost'
<1>1. OnlyLocal(d, local'[d].queue) /\ Shortens(local'[d].queue, local[d].queue, {})
  BY RetryEffect DEF OutboxInv
<1>2. UNCHANGED <<known, start, gone>> /\ CoreAlone
  BY DEF Retry, Edits, CoreAlone, journal, memory
<1> QED BY <1>1, <1>2, CutStep

\* What a device hears of loses nothing it knows of.
LEMMA ResyncsStep ==
  ASSUME OutboxInv, NEW d \in Devices, Resyncs(d)
  PROVE  Copies' /\ Placed' /\ Told' /\ Reach' /\ Lost'
<1>1. CoreAlone /\ UNCHANGED <<start, gone>>
  BY DEF Resyncs, CoreAlone
<1>2. Leaves
  BY ResyncsLeaves DEF OutboxInv
<1>3. Placed' /\ Reach'
  BY <1>1, CoreAloneKeeps DEF OutboxInv
<1>4. Told'
  BY <1>1, <1>2 DEF Leaves, CoreAlone, OutboxInv, Told, Untold, Late, Begun
<1>5. /\ \A e \in Devices : e # d => local'[e] = local[e] /\ known'[e] = known[e]
      /\ known'[d].queue = rec.queue
      /\ Ids(rec.queue) \ Ids(local'[d].queue) \subseteq Ids(known[d].queue) \ Ids(local[d].queue)
      /\ Ids(local[d].queue) \ Ids(local'[d].queue) \subseteq Ids(known[d].queue) \ Ids(rec.queue)
  <2>1. /\ (\A e \in Devices : e # d => local'[e] = local[e])
        /\ known' = [known EXCEPT ![d] = Copy(rec)]
        /\ Reconciles(local'[d], local[d], known[d], rec)
    BY DEF Resyncs, OnlyLocal
  <2>2. known \in [Devices -> Synced] /\ Copy(rec).queue = rec.queue
    BY CopyOf DEF OutboxInv, QueueTypeOK
  <2> QED BY <2>1, <2>2 DEF Reconciles
<1>6. Lacks'
  <2>1. ASSUME NEW e \in Devices, NEW i \in Items, i \in Ids(known'[e].queue), i \notin Ids(local'[e].queue)
        PROVE  gone'[i] # "no"
    BY <1>1, <1>5, <2>1 DEF CoreAlone, OutboxInv, Lost, Lacks
  <2>2. ASSUME NEW e \in Devices, NEW i \in Items, i \in Ids(known'[e].queue), i \notin Ids(rec'.queue)
        PROVE  gone'[i] # "no" \/ handed'[i] > 0
    BY <1>1, <1>5, <2>2 DEF CoreAlone, OutboxInv, Lost, Lacks
  <2> QED BY <2>1, <2>2 DEF Lacks
<1>7. NothingIsLost'
  <2> SUFFICES ASSUME NEW i \in Items, start[i] \notin {"no", "flying"}, gone[i] = "no"
               PROVE  i \in Ids(local'[Author[i]].queue) \/ i \in Ids(rec.queue) \/ handed[i] > 0
    BY <1>1 DEF NothingIsLost, CoreAlone
  <2>1. i \in Ids(local[Author[i]].queue) \/ i \in Ids(rec.queue) \/ handed[i] > 0
    BY DEF OutboxInv, Lost, NothingIsLost
  <2>2. Author[i] \in Devices
    BY OutboxAssumption
  <2> QED BY <1>5, <2>1, <2>2 DEF OutboxInv, Lost, Lacks
<1> QED BY <1>2, <1>3, <1>4, <1>6, <1>7 DEF Leaves, Lost

-----------------------------------------------------------------------------
(* The calls.                                                              *)

\* A put keeps the inputs that are being handed over at the head, or they were
\* overtaken.
LEMMA TakenPlaced ==
  ASSUME OutboxInv, NEW d \in Devices, Taken(d)
  PROVE  Placed'
<1>1. /\ up /\ known[d].current /\ KeepsCaptured(local[d])
      /\ overtaken' = overtaken \union (IF captured # <<>> /\ Kept(local[d]).queue # <<>>
                                       /\ Head(Kept(local[d]).queue) # Head(captured)
                                    THEN Ids(captured) ELSE {})
      /\ UNCHANGED <<start, delivery, receipt, up, pc, captured, took, handed>>
  BY DEF Taken
<1>2. /\ rec'.queue = Kept(local[d]).queue /\ rec' \in Copied
      /\ Shortens(rec'.queue, local[d].queue, {i \in Items : delivery[i] = "delivered"})
  BY TakenEffect DEF OutboxInv
<1>3. /\ Ids(rec'.queue) = Ids(local[d].queue) \ {i \in Items : delivery[i] = "delivered"}
      /\ rec'.queue \in Queues /\ \A i, j : Before(rec'.queue, i, j) => Before(local[d].queue, i, j)
  BY <1>2 DEF Shortens
<1>4. known[d].queue = rec.queue
  BY <1>1 DEF OutboxInv, Copies, InStep, Value
<1>5. Follows(local[d].queue, rec.queue)
  BY <1>4 DEF OutboxInv, Copies, Ordered
<1>6. Steering => Ids(captured) \subseteq Ids(rec'.queue)
  <2> SUFFICES ASSUME Steering, NEW k \in DOMAIN captured PROVE captured[k].id \in Ids(rec'.queue)
    BY DEF Ids
  <2>1. captured[k].id \in Ids(local[d].queue)
    BY <1>1 DEF KeepsCaptured, ToSet, Ids
  <2>2. captured[k].id \in Ids(captured)
    BY DEF Ids
  <2>3. delivery[captured[k].id] = "submitting"
    BY <2>2 DEF OutboxInv, Reach, Submitting
  <2> QED BY <1>3, <2>1, <2>3
<1>7. ASSUME Steering, NEW x \in Items, NEW i \in Items, Before(rec'.queue, x, i),
             i \in Ids(captured) \ overtaken'
      PROVE  x \in Ids(captured)
  <2>1. captured # <<>> /\ Ids(captured) \subseteq Ids(rec.queue)
    BY <1>7 DEF OutboxInv, Placed, Steering
  <2>2. x \in Ids(rec'.queue) /\ rec'.queue # <<>>
    BY <1>7, BeforeIds, EmptyQueue
  <2>3. Head(rec'.queue) = Head(captured)
    BY <1>1, <1>2, <1>7, <2>1, <2>2
  <2>4. captured \in Queues
    BY QueueTypes DEF OutboxInv
  <2>5. rec'.queue[1].id = captured[1].id /\ captured[1].id \in Ids(captured)
    BY <1>3, <2>1, <2>2, <2>3, <2>4, FirstBefore
  <2>6. i \notin overtaken /\ Before(local[d].queue, x, i)
    BY <1>1, <1>3, <1>7
  <2>7. CASE x \in Ids(rec.queue)
    <3>1. Before(rec.queue, x, i)
      BY <1>5, <1>7, <2>1, <2>6, <2>7 DEF Follows
    <3> QED BY <1>7, <2>6, <3>1 DEF OutboxInv, Placed
  <2>8. CASE x \notin Ids(rec.queue)
    <3>1. x # captured[1].id
      BY <2>1, <2>5, <2>8
    <3>2. Before(rec'.queue, captured[1].id, x)
      BY <1>3, <2>2, <2>5, <3>1, FirstBefore
    <3>3. Before(local[d].queue, captured[1].id, x)
      BY <1>3, <3>2
    <3> QED BY <1>5, <1>7, <2>1, <2>5, <2>6, <2>8, <3>3 DEF Follows
  <2> QED BY <2>7, <2>8
<1> QED BY <1>1, <1>6, <1>7 DEF OutboxInv, Placed, Steering

LEMMA TakenStep ==
  ASSUME OutboxInv, NEW d \in Devices, Taken(d)
  PROVE  Copies' /\ Placed' /\ Told' /\ Reach' /\ Lost'
<1>1. /\ up /\ known[d].current
      /\ (\A i \in Items : gone'[i] = "no" <=> gone[i] = "no")
      /\ overtaken \subseteq overtaken'
      /\ UNCHANGED <<start, delivery, receipt, up, pc, captured, took, handed>>
  BY DEF Taken
<1>2. /\ rec' \in Copied
      /\ Shortens(rec'.queue, local[d].queue, {i \in Items : delivery[i] = "delivered"})
      /\ ~ rec'.paused => \A i \in Ids(rec'.queue) : delivery[i] \in {"none", "submitting"}
      /\ \A e \in Devices :
           \/ e = d /\ local'[e] = rec' /\ known'[e] = Copy(rec')
           \/ local'[e] = local[e] /\ known'[e].queue = known[e].queue /\ ~ known'[e].current
  BY TakenEffect DEF OutboxInv
<1>3. Ids(rec'.queue) = Ids(local[d].queue) \ {i \in Items : delivery[i] = "delivered"}
  BY <1>2 DEF Shortens
<1>4. known[d].queue = rec.queue /\ Copy(rec').queue = rec'.queue
  BY <1>1, <1>2, CopyOf DEF OutboxInv, Copies, InStep, Value
<1>5. Leaves
  BY TakenLeaves DEF OutboxInv
<1>6. Placed'
  BY TakenPlaced
<1>7. Told'
  <2>1. Untold' /\ Late'
    BY <1>1, <1>5 DEF Leaves, OutboxInv, Told, Untold, Late
  <2>2. Begun'
    BY <1>1, <1>3, <1>5 DEF Leaves, OutboxInv, Told, Begun
  <2> QED BY <2>1, <2>2 DEF Told
<1>8. Submitting' /\ Reached'
  BY <1>1 DEF OutboxInv, Reach, Submitting, Reached, Steering
<1>9. Goable'
  <2>1. ASSUME ~ rec'.paused, NEW j \in Ids(rec'.queue), delivery[j] # "none"
        PROVE  Steering /\ j \in Ids(captured)
    <3>1. j \in Items
      BY <1>2, QueueFacts DEF Copied
    <3> QED BY <1>1, <1>2, <2>1, <3>1 DEF OutboxInv, Reach, Submitting
  <2>2. ASSUME ~ rec'.paused, NEW i \in Items, NEW j \in Items, Before(rec'.queue, i, j), j \notin overtaken',
               delivery[j] # "none"
        PROVE  delivery[i] # "none"
    <3>1. Steering /\ j \in Ids(captured)
      BY <2>1, <2>2, BeforeIds
    <3>2. i \in Ids(captured)
      BY <1>1, <1>6, <2>2, <3>1 DEF Placed, Steering
    <3> QED BY <3>1, <3>2 DEF OutboxInv, Reach, Submitting
  <2> QED BY <1>1, <2>1, <2>2 DEF Goable, Steering
<1>10. Marked' /\ HandedOnce'
  BY <1>1 DEF OutboxInv, Reach, Marked, HandedOnce
<1>11. ASSUME NEW i \in Items, i \in Ids(rec.queue), i \notin Ids(rec'.queue)
       PROVE  gone[i] # "no" \/ handed[i] > 0
  <2>1. CASE i \in Ids(local[d].queue)
    BY <1>3, <1>11, <2>1 DEF OutboxInv, Reach, Reached
  <2>2. CASE i \notin Ids(local[d].queue)
    BY <1>4, <1>11, <2>2 DEF OutboxInv, Lost, Lacks
  <2> QED BY <2>1, <2>2
<1>12. Lacks'
  <2>1. ASSUME NEW e \in Devices, NEW i \in Items, i \in Ids(known'[e].queue), i \notin Ids(local'[e].queue)
        PROVE  gone'[i] # "no"
    BY <1>1, <1>2, <1>4, <2>1 DEF OutboxInv, Lost, Lacks
  <2>2. ASSUME NEW e \in Devices, NEW i \in Items, i \in Ids(known'[e].queue), i \notin Ids(rec'.queue)
        PROVE  gone'[i] # "no" \/ handed'[i] > 0
    BY <1>1, <1>2, <1>4, <1>11, <2>2 DEF OutboxInv, Lost, Lacks
  <2> QED BY <2>1, <2>2 DEF Lacks
<1>13. NothingIsLost'
  <2> SUFFICES ASSUME NEW i \in Items, start[i] \notin {"no", "flying"}, gone[i] = "no"
               PROVE  i \in Ids(local'[Author[i]].queue) \/ i \in Ids(rec'.queue) \/ handed[i] > 0
    BY <1>1 DEF NothingIsLost
  <2>1. i \in Ids(local[Author[i]].queue) \/ i \in Ids(rec.queue) \/ handed[i] > 0
    BY DEF OutboxInv, Lost, NothingIsLost
  <2>2. Author[i] \in Devices
    BY OutboxAssumption
  <2>3. CASE i \in Ids(local[Author[i]].queue)
    <3>1. delivery[i] = "delivered" => handed[i] > 0
      BY DEF OutboxInv, Reach, Reached
    <3> QED BY <1>2, <1>3, <2>2, <2>3, <3>1
  <2> QED BY <1>11, <2>1, <2>3
<1> QED BY <1>5, <1>6, <1>7, <1>8, <1>9, <1>10, <1>12, <1>13 DEF Leaves, Reach, Lost

LEMMA HandleStartStep ==
  ASSUME OutboxInv, NEW i \in Items, NEW lost \in BOOLEAN, HandleStart(i, lost)
  PROVE  Copies' /\ Placed' /\ Told' /\ Reach' /\ Lost'
<1> DEFINE Takes == /\ receipt[i] # "started"
                    /\ Hands({i}) /\ receipt' = [receipt EXCEPT ![i] = "started"]
<1>1. /\ up /\ start[i] \in {"flying", "late"} /\ start' = [start EXCEPT ![i] = "answered"]
      /\ UNCHANGED <<known, rec, delivery, up, pc, captured, took, gone, overtaken>>
  BY DEF HandleStart, memory
<1>2. Takes \/ UNCHANGED <<handed, receipt>>
  BY DEF HandleStart
<1>3. \/ start[i] = "flying" /\ Requeued(i, "sent")
      \/ start[i] = "flying" /\ Requeued(i, "no") /\ UNCHANGED <<handed, receipt>>
      \/ local' = local /\ (start[i] = "late" \/ Takes \/ receipt[i] = "started")
  <2>1. CASE lost
    BY <2>1 DEF HandleStart
  <2>2. CASE ~ lost /\ start[i] = "flying" /\ ~ (receipt[i] = "started" \/ ~ Busy)
    <3>1. Requeued(i, "no") /\ UNCHANGED <<handed, receipt>>
      BY <2>2 DEF HandleStart
    <3> QED BY <2>2, <3>1
  <2>3. CASE ~ lost /\ ~ (start[i] = "flying" /\ ~ (receipt[i] = "started" \/ ~ Busy))
    <3>1. local' = local
      BY <2>3 DEF HandleStart
    <3>2. start[i] = "late" \/ Takes \/ receipt[i] = "started"
      BY <1>1, <2>3 DEF HandleStart
    <3> QED BY <3>1, <3>2
  <2> QED BY <2>1, <2>2, <2>3
<1>4. /\ start \in [Items -> {"no", "queued", "flying", "answered", "late"}]
      /\ receipt \in [Items -> {"none", "pending", "accepted", "started"}] /\ handed \in [Items -> Nat]
  BY DEF OutboxInv, QueueTypeOK
<1>5. start'[i] = "answered" /\ \A j \in Items : j # i => start'[j] = start[j]
  BY <1>1, <1>4
<1>6. \A j \in Items : j # i => handed'[j] = handed[j] /\ receipt'[j] = receipt[j]
  BY <1>2, <1>4 DEF Hands
<1>7. \/ receipt[i] # "started" /\ receipt'[i] = "started" /\ handed'[i] = handed[i] + 1
      \/ receipt'[i] = receipt[i] /\ handed'[i] = handed[i]
  BY <1>2, <1>4 DEF Hands
<1> HIDE DEF Takes
<1>8. start[i] = "flying" => Nowhere(i) /\ handed[i] = 0 /\ delivery[i] = "none" /\ receipt[i] = "none"
  BY DEF OutboxInv, Told, Untold
<1>9. start[i] = "late" => AllSent(i) /\ (delivery[i] # "none" => receipt[i] = "started")
  BY DEF OutboxInv, Told, Late
<1>10. /\ Copies'
       /\ \A j \in Items : j # i /\ Nowhere(j) => Nowhere(j)'
       /\ \A j \in Items : j # i /\ AllSent(j) => AllSent(j)'
       /\ \A d \in Devices : Ids(local[d].queue) \subseteq Ids(local'[d].queue)
       /\ receipt'[i] = "started" => AllSent(i)'
  <2>1. CASE start[i] = "flying" /\ Requeued(i, "sent")
    <3>1. Added(i, "sent") /\ AllSent(i)
      BY <1>8, <2>1, RequeuedAdds, NowhereSent DEF OutboxInv
    <3> QED BY <1>1, <3>1, AddedLeaves DEF OutboxInv
  <2>2. CASE start[i] = "flying" /\ Requeued(i, "no") /\ UNCHANGED <<handed, receipt>>
    <3>1. Added(i, "no")
      BY <1>8, <2>2, RequeuedAdds DEF OutboxInv
    <3>2. receipt'[i] # "started"
      BY <1>8, <2>2
    <3> QED BY <1>1, <3>1, <3>2, AddedLeaves DEF OutboxInv
  <2>3. CASE local' = local
    <3>1. Leaves
      BY <1>1, <2>3, CapturesNothing, CaptureLeaves DEF OutboxInv
    <3>2. AllSent(i)
      BY <1>1, <1>8, <1>9, NowhereSent
    <3> QED BY <2>3, <3>1, <3>2 DEF Leaves
  <2> QED BY <1>3, <2>1, <2>2, <2>3
<1>11. Placed'
  BY <1>1 DEF OutboxInv, Placed, Steering
<1>12. Told'
  <2>1. Untold'
    BY <1>1, <1>5, <1>6, <1>10 DEF OutboxInv, Told, Untold
  <2>2. Late'
    BY <1>1, <1>5, <1>6, <1>10 DEF OutboxInv, Told, Late
  <2>3. Begun'
    BY <1>1, <1>6, <1>10 DEF OutboxInv, Told, Begun
  <2> QED BY <2>1, <2>2, <2>3 DEF Told
<1>13. Submitting'
  <2>1. delivery[i] = "submitting" => receipt'[i] = receipt[i]
    BY <1>1, <1>7, <1>8, <1>9
  <2>2. pc = "steered" /\ i \in Ids(captured) => receipt'[i] = receipt[i]
    BY <2>1 DEF OutboxInv, Reach, Submitting, Steering
  <2>3. \A j \in Ids(captured) : j \in Items
    BY QueueTypes DEF OutboxInv
  <2> QED BY <1>1, <1>6, <2>1, <2>2, <2>3 DEF OutboxInv, Reach, Submitting, Steering
<1>14. \A j \in Items : handed'[j] >= handed[j]
  BY <1>4, <1>6, <1>7
<1>15. Reached'
  <2>1. ASSUME NEW j \in Items, receipt'[j] \in {"accepted", "started"} \/ delivery[j] = "delivered"
        PROVE  handed'[j] > 0
    <3>1. CASE receipt'[j] = receipt[j]
      BY <1>4, <1>6, <1>7, <1>14, <2>1, <3>1 DEF OutboxInv, Reach, Reached
    <3>2. CASE receipt'[j] # receipt[j]
      BY <1>4, <1>6, <1>7, <3>2
    <3> QED BY <3>1, <3>2
  <2>2. ASSUME Steering, took, NEW j \in Ids(captured) PROVE handed'[j] > 0
    <3>1. j \in Items
      BY QueueTypes DEF OutboxInv
    <3> QED BY <1>4, <1>6, <1>7, <2>2, <3>1 DEF OutboxInv, Reach, Reached
  <2> QED BY <1>1, <2>1, <2>2 DEF OutboxInv, Reach, Reached, Steering
<1>16. Goable'
  BY <1>1 DEF OutboxInv, Reach, Goable, Steering
<1>17. Marked'
  BY <1>1, <1>6, <1>7 DEF OutboxInv, Reach, Marked
<1>18. HandedOnce'
  <2>1. i \notin overtaken /\ receipt[i] # "started" => handed[i] = 0
    <3> SUFFICES ASSUME i \notin overtaken, receipt[i] # "started", handed[i] # 0 PROVE FALSE
      OBVIOUS
    <3>1. handed[i] > 0
      BY <1>4
    <3>2. delivery[i] # "none"
      BY <3>1 DEF OutboxInv, Reach, Marked
    <3> QED BY <1>1, <1>8, <1>9, <3>2
  <2> QED BY <1>1, <1>4, <1>6, <1>7, <2>1 DEF OutboxInv, Reach, HandedOnce
<1>19. Lacks'
  BY <1>1, <1>4, <1>6, <1>7, <1>10 DEF OutboxInv, Lost, Lacks
<1>20. NothingIsLost'
  <2>1. \A j \in Items : Author[j] \in Devices
    BY OutboxAssumption
  <2>2. ASSUME NEW j \in Items, start[j] \notin {"no", "flying"}, gone[j] = "no"
        PROVE  j \in Ids(local'[Author[j]].queue) \/ j \in Ids(rec.queue) \/ handed'[j] > 0
    <3>1. j \in Ids(local[Author[j]].queue) \/ j \in Ids(rec.queue) \/ handed[j] > 0
      BY <2>2 DEF OutboxInv, Lost, NothingIsLost
    <3> QED BY <1>4, <1>6, <1>7, <1>10, <2>1, <3>1
  <2>3. CASE start[i] = "flying"
    <3>1. i \in Ids(local'[Author[i]].queue) \/ handed'[i] > 0
      <4>1. CASE Requeued(i, "sent") \/ Requeued(i, "no")
        <5>1. Added(i, "sent") \/ Added(i, "no")
          BY <1>8, <2>3, <4>1, RequeuedAdds DEF OutboxInv
        <5> QED BY <5>1 DEF Added
      <4>2. CASE Takes
        BY <1>4, <4>2 DEF Takes, Hands
      <4> QED BY <1>3, <1>8, <2>3, <4>1, <4>2
    <3> QED BY <1>1, <1>5, <2>2, <3>1 DEF NothingIsLost
  <2>4. CASE start[i] = "late"
    BY <1>1, <1>5, <2>2, <2>4 DEF NothingIsLost
  <2> QED BY <1>1, <2>3, <2>4
<1> QED BY <1>10, <1>11, <1>12, <1>13, <1>15, <1>16, <1>17, <1>18, <1>19, <1>20 DEF Reach, Lost

-----------------------------------------------------------------------------
(* The steps of the pump.                                                  *)

\* The pump comes, rests or goes.
LEMMA PassesStep ==
  ASSUME OutboxInv, up, ~ Steering, pc' \in {"idle", "loop", "done"}, captured' = <<>>,
         UNCHANGED <<local, known, start, rec, delivery, receipt, up, took, handed, gone, overtaken>>
  PROVE  Copies' /\ Placed' /\ Told' /\ Reach' /\ Lost'
<1>1. Leaves
  BY CapturesNothing, CaptureLeaves DEF OutboxInv
<1>2. Ids(<<>>) = {}
  BY EmptyQueue
<1>3. Placed'
  BY DEF Placed, Steering
<1>4. Told'
  BY <1>1, <1>2 DEF Leaves, OutboxInv, Told, Untold, Late, Begun
<1>5. Submitting' /\ Reached'
  BY DEF OutboxInv, Reach, Submitting, Reached, Steering
<1>6. Goable' /\ Marked' /\ HandedOnce'
  BY DEF OutboxInv, Reach, Goable, Marked, HandedOnce, Steering
<1>7. Lost'
  BY DEF OutboxInv, Lost, Lacks, NothingIsLost
<1> QED BY <1>1, <1>3, <1>4, <1>5, <1>6, <1>7 DEF Leaves, Reach

\* What is shown as asked for everywhere is not being steered.
LEMMA SteeredAsksNothing ==
  ASSUME OutboxInv, Steering, NEW i \in Ids(captured)
  PROVE  i \in Items /\ ~ AllSent(i) /\ receipt[i] # "started" /\ start[i] # "late"
<1>1. i \in Items
  BY QueueTypes DEF OutboxInv
<1>2. PICK k \in DOMAIN captured : captured[k].id = i
  BY DEF Ids
<1>3. captured[k].asked = "no"
  BY DEF OutboxInv, Placed, Plain
<1>4. ~ AllSent(i)
  BY <1>2, <1>3 DEF AllSent, Asks
<1>5. receipt[i] # "started"
  BY <1>1, <1>4 DEF OutboxInv, Told, Begun
<1>6. start[i] # "late"
  BY <1>1, <1>4 DEF OutboxInv, Told, Late
<1> QED BY <1>1, <1>4, <1>5, <1>6

\* The queue's head is held, and the queue with it.
LEMMA HoldsStep ==
  ASSUME OutboxInv, up, ~ Steering, NEW i \in Items, Held(i), Returns,
         UNCHANGED <<delivery, receipt, up, took, handed, gone, overtaken>>
  PROVE  Copies' /\ Placed' /\ Told' /\ Reach' /\ Lost'
<1>1. pc' = "done" /\ captured' = <<>>
  BY DEF Returns
<1>2. /\ rec' \in Copied /\ Shortens(rec'.queue, rec.queue, {})
      /\ rec'.paused \/ rec'.queue = <<>>
      /\ NewRecord /\ local' = local /\ start' = start
  BY HeldEffect DEF OutboxInv
<1>3. Leaves
  BY <1>1, <1>2, CapturesNothing, RecordLeaves DEF OutboxInv
<1>4. Ids(rec'.queue) = Ids(rec.queue) /\ \A d \in Devices : known'[d].queue = known[d].queue
  BY <1>2 DEF Shortens, NewRecord
<1>5. Ids(<<>>) = {} /\ \A j, k : ~ Before(<<>>, j, k)
  BY EmptyQueue
<1>6. Placed'
  BY <1>1 DEF Placed, Steering
<1>7. Told'
  BY <1>1, <1>2, <1>3, <1>4, <1>5 DEF Leaves, OutboxInv, Told, Untold, Late, Begun
<1>8. Submitting' /\ Reached'
  BY <1>1 DEF OutboxInv, Reach, Submitting, Reached, Steering
<1>9. Goable'
  BY <1>1, <1>2, <1>5 DEF Goable, Steering
<1>10. Marked' /\ HandedOnce'
  BY <1>1 DEF OutboxInv, Reach, Marked, HandedOnce
<1>11. Lost'
  BY <1>2, <1>4 DEF OutboxInv, Lost, Lacks, NothingIsLost
<1> QED BY <1>3, <1>6, <1>7, <1>8, <1>9, <1>10, <1>11 DEF Leaves, Reach

LEMMA SteerFailedStep ==
  ASSUME OutboxInv, SteerFailed
  PROVE  Copies' /\ Placed' /\ Told' /\ Reach' /\ Lost'
<1>1. /\ up /\ pc = "steer" /\ pc' = "done" /\ captured' = <<>>
      /\ delivery' = [i \in Items |-> IF i \in Ids(captured) THEN "uncertain" ELSE delivery[i]]
      /\ Held(captured[1].id)
      /\ UNCHANGED <<receipt, up, took, handed, gone, overtaken>>
  BY DEF SteerFailed, Returns
<1>2. captured[1].id \in Items
  BY <1>1, CapturedItem DEF OutboxInv, Placed
<1>3. /\ rec' \in Copied /\ Shortens(rec'.queue, rec.queue, {})
      /\ rec'.paused \/ rec'.queue = <<>>
      /\ NewRecord /\ local' = local /\ start' = start
  BY <1>1, <1>2, HeldEffect DEF OutboxInv
<1>4. Leaves
  BY <1>1, <1>3, CapturesNothing, RecordLeaves DEF OutboxInv
<1>5. Ids(rec'.queue) = Ids(rec.queue) /\ \A d \in Devices : known'[d].queue = known[d].queue
  BY <1>3 DEF Shortens, NewRecord
<1>6. Ids(<<>>) = {} /\ \A j, k : ~ Before(<<>>, j, k)
  BY EmptyQueue
<1>7. /\ \A i \in Items \ Ids(captured) : delivery'[i] = delivery[i]
      /\ \A i \in Ids(captured) : i \in Items /\ delivery'[i] = "uncertain"
  BY <1>1, CapturedItem DEF OutboxInv
<1>8. \A i \in Ids(captured) : receipt[i] # "started" /\ start[i] # "late"
  BY <1>1, SteeredAsksNothing DEF Steering
<1>9. Placed'
  BY <1>1 DEF Placed, Steering
<1>10. Told'
  <2>1. Untold'
    BY <1>1, <1>3, <1>4, <1>7 DEF Leaves, OutboxInv, Told, Untold, Nowhere
  <2>2. Late'
    BY <1>1, <1>3, <1>4, <1>7, <1>8 DEF Leaves, OutboxInv, Told, Late
  <2>3. Begun'
    BY <1>1, <1>4, <1>5, <1>6, <1>7 DEF Leaves, OutboxInv, Told, Begun
  <2> QED BY <2>1, <2>2, <2>3 DEF Told
<1>11. Submitting' /\ Reached'
  BY <1>1, <1>7 DEF OutboxInv, Reach, Submitting, Reached, Steering
<1>12. Goable'
  BY <1>1, <1>3, <1>6 DEF Goable, Steering
<1>13. Marked' /\ HandedOnce'
  BY <1>1, <1>7 DEF OutboxInv, Reach, Marked, HandedOnce
<1>14. Lost'
  BY <1>1, <1>3, <1>5 DEF OutboxInv, Lost, Lacks, NothingIsLost
<1> QED BY <1>4, <1>9, <1>10, <1>11, <1>12, <1>13, <1>14 DEF Leaves, Reach

\* What the pump completes leaves the queue, and nothing else does.
LEMMA CompleteStep ==
  ASSUME OutboxInv, up, NEW ids \in SUBSET Items, Complete(ids), captured' = <<>>, pc' = "loop",
         UNCHANGED <<up, took, gone, overtaken>>,
         handed' \in [Items -> Nat], \A i \in Items : handed'[i] >= handed[i],
         \A i \in Items \ ids : handed'[i] = handed[i] /\ receipt'[i] = receipt[i],
         \A i \in ids : ~ Nowhere(i) /\ handed'[i] > 0,
         \A i \in ids : start[i] = "late" => receipt'[i] = "started",
         \A i \in ids \ overtaken : handed'[i] <= 1,
         \A i \in Items : delivery[i] = "submitting" => i \in ids
  PROVE  Copies' /\ Placed' /\ Told' /\ Reach' /\ Lost'
<1>1. /\ rec' \in Copied /\ Shortens(rec'.queue, rec.queue, ids)
      /\ ~ rec'.paused => ~ rec.paused \/ rec'.queue = <<>>
      /\ NewRecord /\ local' = local /\ start' = start
      /\ delivery' = [i \in Items |-> IF i \in ids THEN "delivered" ELSE delivery[i]]
  BY CompleteEffect DEF OutboxInv
<1>2. Leaves
  BY <1>1, CapturesNothing, RecordLeaves DEF OutboxInv
<1>3. /\ Ids(rec'.queue) = Ids(rec.queue) \ ids
      /\ \A i, j : Before(rec'.queue, i, j) => Before(rec.queue, i, j)
      /\ \A d \in Devices : known'[d].queue = known[d].queue
  BY <1>1 DEF Shortens, NewRecord
<1>4. /\ \A i \in Items \ ids : delivery'[i] = delivery[i]
      /\ \A i \in ids : delivery'[i] = "delivered"
  BY <1>1
<1>5. Ids(<<>>) = {} /\ \A j, k : ~ Before(<<>>, j, k)
  BY EmptyQueue
<1>6. Placed'
  BY DEF Placed, Steering
<1>7. Told'
  <2>1. Untold'
    BY <1>1, <1>2, <1>4 DEF Leaves, OutboxInv, Told, Untold
  <2>2. Late'
    <3>1. ASSUME NEW i \in Items, start[i] = "late"
          PROVE  /\ AllSent(i)' /\ receipt'[i] \in {"none", "started"}
                 /\ delivery'[i] # "none" => receipt'[i] = "started"
      <4>1. AllSent(i)'
        BY <1>2, <3>1 DEF Leaves, OutboxInv, Told, Late
      <4>2. CASE i \in ids
        BY <3>1, <4>1, <4>2
      <4>3. CASE i \notin ids
        BY <1>4, <3>1, <4>1, <4>3 DEF OutboxInv, Told, Late
      <4> QED BY <4>2, <4>3
    <3> QED BY <1>1, <3>1 DEF Late
  <2>3. Begun'
    BY <1>2, <1>3, <1>4, <1>5 DEF Leaves, OutboxInv, Told, Begun
  <2> QED BY <2>1, <2>2, <2>3 DEF Told
<1>8. Submitting'
  <2>1. \A i \in Items : delivery'[i] # "submitting"
    BY <1>4
  <2> QED BY <2>1 DEF Submitting, Steering
<1>9. Reached'
  <2>1. ASSUME NEW i \in Items, receipt'[i] \in {"accepted", "started"} \/ delivery'[i] = "delivered"
        PROVE  handed'[i] > 0
    <3>1. CASE i \in ids
      BY <3>1
    <3>2. CASE i \notin ids
      BY <1>4, <2>1, <3>2 DEF OutboxInv, Reach, Reached
    <3> QED BY <3>1, <3>2
  <2> QED BY <2>1 DEF Reached, Steering
<1>10. Goable'
  <2>1. ASSUME ~ rec'.paused, NEW i \in Items, NEW j \in Items, Before(rec'.queue, i, j), j \notin overtaken,
               delivery'[j] # "none"
        PROVE  delivery'[i] # "none"
    <3>1. i \in Ids(rec'.queue) /\ j \in Ids(rec'.queue) /\ rec'.queue # <<>>
      BY <1>5, <2>1, BeforeIds
    <3> QED BY <1>1, <1>3, <1>4, <2>1, <3>1 DEF OutboxInv, Reach, Goable
  <2> QED BY <2>1 DEF Goable, Steering
<1>11. Marked'
  BY <1>4 DEF OutboxInv, Reach, Marked
<1>12. HandedOnce'
  BY DEF OutboxInv, Reach, HandedOnce
<1>13. Lacks'
  <2>1. ASSUME NEW d \in Devices, NEW i \in Items, i \in Ids(known'[d].queue), i \notin Ids(local'[d].queue)
        PROVE  gone'[i] # "no"
    BY <1>1, <1>3, <2>1 DEF OutboxInv, Lost, Lacks
  <2>2. ASSUME NEW d \in Devices, NEW i \in Items, i \in Ids(known'[d].queue), i \notin Ids(rec'.queue)
        PROVE  gone'[i] # "no" \/ handed'[i] > 0
    BY <1>3, <2>2 DEF OutboxInv, Lost, Lacks
  <2> QED BY <2>1, <2>2 DEF Lacks
<1>14. NothingIsLost'
  BY <1>1, <1>3 DEF OutboxInv, Lost, NothingIsLost
<1> QED BY <1>2, <1>6, <1>7, <1>8, <1>9, <1>10, <1>11, <1>12, <1>13, <1>14 DEF Leaves, Reach, Lost

LEMMA FindsDeliveredStep ==
  ASSUME OutboxInv, FindsDelivered
  PROVE  Copies' /\ Placed' /\ Told' /\ Reach' /\ Lost'
<1> DEFINE h == Head1.id
<1>1. /\ up /\ pc = "loop" /\ rec.queue # <<>> /\ Known(Head1) /\ Complete({h})
      /\ UNCHANGED <<receipt, up, pc, captured, took, handed, gone, overtaken>>
  BY DEF FindsDelivered, Ready, Looks, memory
<1>2. h \in Items /\ h \in Ids(rec.queue)
  BY <1>1, Head1Item DEF OutboxInv
<1>3. captured = <<>> /\ ~ Steering
  BY <1>1 DEF OutboxInv, Placed, Steering
<1>4. delivery[h] = "delivered" \/ receipt[h] \in {"accepted", "started"}
  BY <1>1 DEF Known
<1>5. handed \in [Items -> Nat] /\ handed[h] > 0
  BY <1>2, <1>4 DEF OutboxInv, QueueTypeOK, Reach, Reached
<1>6. start[h] = "late" => receipt[h] = "started"
  BY <1>2, <1>4 DEF OutboxInv, Told, Late
<1>7. \A i \in Items : delivery[i] # "submitting"
  BY <1>1, <1>3 DEF OutboxInv, Reach, Submitting
<1>8. h \notin overtaken => handed[h] <= 1
  BY <1>2 DEF OutboxInv, Reach, HandedOnce
<1>9. ~ Nowhere(h)
  BY <1>2 DEF Nowhere
<1> HIDE DEF h
<1> QED BY <1>1, <1>2, <1>3, <1>5, <1>6, <1>7, <1>8, <1>9, CompleteStep

LEMMA SteerCompletedStep ==
  ASSUME OutboxInv, SteerCompleted
  PROVE  Copies' /\ Placed' /\ Told' /\ Reach' /\ Lost'
<1>1. /\ up /\ pc = "steered" /\ Complete(Ids(captured)) /\ captured' = <<>> /\ pc' = "loop"
      /\ UNCHANGED <<receipt, up, took, handed, gone, overtaken>>
  BY DEF SteerCompleted
<1>2. Steering /\ took
  BY <1>1 DEF Steering, OutboxInv, Reach, Reached
<1>3. Ids(captured) \in SUBSET Items /\ handed \in [Items -> Nat]
  BY CapturedItem DEF OutboxInv, QueueTypeOK
<1>4. \A i \in Ids(captured) : ~ Nowhere(i) /\ handed[i] > 0
  BY <1>2 DEF Nowhere, OutboxInv, Reach, Reached
<1>5. \A i \in Ids(captured) : start[i] # "late"
  BY <1>2, SteeredAsksNothing
<1>6. \A i \in Ids(captured) \ overtaken : handed[i] <= 1
  BY <1>3 DEF OutboxInv, Reach, HandedOnce
<1>7. \A i \in Items : delivery[i] = "submitting" => i \in Ids(captured)
  BY <1>1 DEF OutboxInv, Reach, Submitting
<1> QED BY <1>1, <1>3, <1>4, <1>5, <1>6, <1>7, CompleteStep

LEMMA StartsStep ==
  ASSUME OutboxInv, Starts
  PROVE  Copies' /\ Placed' /\ Told' /\ Reach' /\ Lost'
<1> DEFINE ids == Ids(captured)
           first == captured[1].id
<1>1. /\ up /\ pc = "discover" /\ Complete(ids) /\ captured' = <<>> /\ pc' = "loop"
      /\ UNCHANGED <<up, took, gone, overtaken>>
      /\ \/ receipt[first] = "started" /\ UNCHANGED <<receipt, handed>>
         \/ /\ receipt[first] # "started"
            /\ receipt' = [i \in Items |-> IF i \in ids THEN "started" ELSE receipt[i]]
            /\ Hands(ids)
  BY DEF Starts
<1>2. captured # <<>> /\ ~ Steering
  BY <1>1 DEF OutboxInv, Placed, Steering
<1>3. /\ ids \in SUBSET Items /\ first \in ids /\ 1 \in DOMAIN captured
      /\ handed \in [Items -> Nat] /\ receipt \in [Items -> {"none", "pending", "accepted", "started"}]
      /\ captured \in Queues
  BY <1>2, CapturedItem DEF OutboxInv, QueueTypeOK
\* What was started before goes alone.
<1>4. ASSUME NEW i \in ids, receipt[i] = "started" PROVE i = first /\ ids = {i}
  <2>1. AllSent(i)
    BY <1>3, <1>4 DEF OutboxInv, Told, Begun
  <2>2. PICK k \in DOMAIN captured : captured[k].id = i
    BY DEF Ids
  <2>3. captured[k].asked = "sent"
    BY <2>1, <2>2 DEF AllSent, Asks
  <2>4. Len(captured) = 1
    BY <1>1, <2>3 DEF OutboxInv, Placed, Plain
  <2>5. DOMAIN captured = {1}
    BY <1>3, <2>4, QueueFacts
  <2> QED BY <2>2, <2>5 DEF Ids
<1> HIDE DEF ids, first
<1>5. /\ \A i \in Items \ ids : handed'[i] = handed[i] /\ receipt'[i] = receipt[i]
      /\ \A i \in ids : receipt'[i] = "started"
      /\ \A i \in ids : handed'[i] = handed[i] + 1 \/ (receipt[i] = "started" /\ handed'[i] = handed[i])
      /\ handed' \in [Items -> Nat]
  <2>1. CASE receipt[first] = "started" /\ UNCHANGED <<receipt, handed>>
    <3>1. ids = {first}
      BY <1>3, <1>4, <2>1
    <3> QED BY <1>3, <2>1, <3>1
  <2>2. CASE /\ receipt[first] # "started"
             /\ receipt' = [i \in Items |-> IF i \in ids THEN "started" ELSE receipt[i]]
             /\ Hands(ids)
    BY <1>3, <2>2 DEF Hands
  <2> QED BY <1>1, <2>1, <2>2
<1>6. \A i \in Items : handed'[i] >= handed[i]
  BY <1>3, <1>5
<1>7. \A i \in ids : ~ Nowhere(i) /\ handed'[i] > 0
  <2>1. \A i \in ids : receipt[i] = "started" => handed[i] > 0
    BY <1>3 DEF OutboxInv, Reach, Reached
  <2> QED BY <1>3, <1>5, <2>1 DEF Nowhere, ids
<1>8. ASSUME NEW i \in ids \ overtaken PROVE handed'[i] <= 1
  <2>1. i \in Items /\ handed[i] \in Nat /\ handed[i] <= 1
    BY <1>3 DEF OutboxInv, Reach, HandedOnce
  <2>2. CASE receipt[i] = "started"
    <3>1. first = i
      BY <1>4, <2>2
    <3>2. handed' = handed
      BY <1>1, <2>2, <3>1
    <3> QED BY <2>1, <3>2
  <2>3. CASE receipt[i] # "started"
    <3>1. delivery[i] = "none"
      BY <1>1 DEF OutboxInv, Reach, Submitting, ids
    <3>2. ~ (handed[i] > 0)
      BY <2>1, <2>3, <3>1 DEF OutboxInv, Reach, Marked
    <3> QED BY <1>5, <2>1, <2>3, <3>2
  <2> QED BY <2>2, <2>3
<1>9. \A i \in Items : delivery[i] # "submitting"
  BY <1>1, <1>2 DEF OutboxInv, Reach, Submitting
<1> QED BY <1>1, <1>3, <1>5, <1>6, <1>7, <1>8, <1>9, CompleteStep

\* When the head may go, nothing behind it is journaled, and nothing is being handed over.
LEMMA GoesClear ==
  ASSUME OutboxInv, Goes
  PROVE  /\ up /\ pc = "loop" /\ captured = <<>> /\ ~ Steering /\ rec.queue # <<>> /\ ~ rec.paused
         /\ \A j \in Items : delivery[j] # "submitting"
         /\ \A j \in Ids(rec.queue) \ overtaken : delivery[j] = "none"
<1> DEFINE h == Head1.id
<1>1. up /\ pc = "loop" /\ rec.queue # <<>> /\ ~ rec.paused /\ ~ Known(Head1) /\ ~ Review(Head1)
  BY DEF Goes, Ready, Looks
<1>2. captured = <<>> /\ ~ Steering
  BY <1>1 DEF OutboxInv, Placed, Steering
<1>3. \A j \in Items : delivery[j] # "submitting"
  BY <1>1, <1>2 DEF OutboxInv, Reach, Submitting
<1>4. h \in Items /\ Ids(rec.queue) \subseteq Items /\ rec.queue \in Queues
  BY <1>1, Head1Item, QueueTypes DEF OutboxInv
<1>5. delivery[h] = "none"
  <2>1. delivery[h] \in {"none", "submitting", "uncertain", "delivered"}
    BY <1>4 DEF OutboxInv, QueueTypeOK
  <2> QED BY <1>1, <1>3, <1>4, <2>1 DEF Known, Review
<1>6. \A j \in Ids(rec.queue) : j # h => Before(rec.queue, h, j)
  BY <1>1, <1>4, FirstBefore DEF Head1
<1> HIDE DEF h
<1>7. \A j \in Ids(rec.queue) \ overtaken : delivery[j] = "none"
  BY <1>1, <1>4, <1>5, <1>6 DEF OutboxInv, Reach, Goable
<1> QED BY <1>1, <1>2, <1>3, <1>7

\* What the batch holds has reached nobody.
LEMMA SteersStep ==
  ASSUME OutboxInv, NEW batch \in Batches, Steers(batch)
  PROVE  Copies' /\ Placed' /\ Told' /\ Reach' /\ Lost'
<1> DEFINE ids == Ids(batch)
<1>1. /\ Goes /\ Plain(Head1)
      /\ delivery' = [i \in Items |-> IF i \in ids THEN "submitting" ELSE delivery[i]]
      /\ receipt' = [i \in Items |-> IF i \in ids THEN "pending" ELSE receipt[i]]
      /\ captured' = batch /\ pc' = "steer" /\ took' = FALSE
      /\ UNCHANGED <<local, known, start, rec, up, handed, gone, overtaken>>
  BY DEF Steers, device
<1>2. /\ up /\ ~ Steering /\ rec.queue # <<>>
      /\ \A j \in Items : delivery[j] # "submitting"
      /\ \A j \in Ids(rec.queue) \ overtaken : delivery[j] = "none"
  BY <1>1, GoesClear
<1>3. /\ batch \in Queues /\ batch # <<>> /\ ids \subseteq Ids(rec.queue) /\ ids \subseteq Items
      /\ \A i : Asks(rec.queue, i) => Asks(batch, i)
      /\ \A i, j : Before(rec.queue, i, j) /\ j \in ids => i \in ids
      /\ \A k \in DOMAIN batch : Plain(batch[k])
  BY <1>1, <1>2, BatchFacts DEF OutboxInv, Copies, Single
<1>4. ASSUME NEW i \in ids
      PROVE  /\ receipt[i] # "started" /\ start[i] \notin {"no", "flying", "late"}
             /\ i \notin overtaken => handed[i] = 0
  <2>1. i \in Items /\ i \in Ids(rec.queue) /\ ~ Nowhere(i) /\ handed[i] \in Nat
    BY <1>3 DEF Nowhere, OutboxInv, QueueTypeOK
  <2>2. ~ Asks(batch, i)
    <3>1. PICK k \in DOMAIN batch : batch[k].id = i
      BY DEF Ids
    <3> QED BY <1>3, <3>1 DEF Asks, Plain
  <2>3. ~ AllSent(i)
    BY <1>3, <2>2 DEF AllSent
  <2>4. receipt[i] # "started"
    BY <2>1, <2>3 DEF OutboxInv, Told, Begun
  <2>5. start[i] \notin {"no", "flying", "late"}
    BY <2>1, <2>3 DEF OutboxInv, Told, Untold, Late
  <2>6. i \notin overtaken => ~ (handed[i] > 0)
    BY <1>2, <2>1, <2>4 DEF OutboxInv, Reach, Marked
  <2> QED BY <2>1, <2>4, <2>5, <2>6
<1> HIDE DEF ids
<1>5. /\ \A i \in Items \ ids : delivery'[i] = delivery[i] /\ receipt'[i] = receipt[i]
      /\ \A i \in ids : i \in Items /\ delivery'[i] = "submitting" /\ receipt'[i] = "pending"
  BY <1>1, <1>3
<1>6. Ids(captured') = ids
  BY <1>1 DEF ids
<1>7. Leaves
  <2>1. CapturesFrom
    BY <1>1, <1>3, <1>6 DEF CapturesFrom
  <2> QED BY <1>1, <2>1, CaptureLeaves DEF OutboxInv
<1>8. Placed'
  BY <1>1, <1>2, <1>3, <1>6 DEF Placed, Steering
<1>9. Told'
  <2>1. Untold'
    BY <1>1, <1>4, <1>5, <1>7 DEF Leaves, OutboxInv, Told, Untold
  <2>2. Late'
    BY <1>1, <1>4, <1>5, <1>7 DEF Leaves, OutboxInv, Told, Late
  <2>3. Begun'
    BY <1>1, <1>3, <1>5, <1>6, <1>7 DEF Leaves, OutboxInv, Told, Begun
  <2> QED BY <2>1, <2>2, <2>3 DEF Told
<1>10. Submitting'
  BY <1>1, <1>2, <1>5, <1>6 DEF OutboxInv, Reach, Submitting, Steering
<1>11. Reached'
  BY <1>1, <1>5 DEF OutboxInv, Reach, Reached
<1>12. Goable'
  <2>1. \A i \in Ids(rec.queue) \ overtaken : delivery'[i] # "none" => i \in ids
    BY <1>2, <1>5, QueueTypes DEF OutboxInv
  <2>2. ASSUME NEW i \in Items, NEW j \in Items, Before(rec.queue, i, j), j \notin overtaken, delivery'[j] # "none"
        PROVE  delivery'[i] # "none"
    <3>1. i \in ids
      BY <1>3, <2>1, <2>2, BeforeIds
    <3> QED BY <1>5, <3>1
  <2> QED BY <1>1, <1>6, <2>1, <2>2 DEF Goable
<1>13. Marked' /\ HandedOnce'
  BY <1>1, <1>2, <1>4, <1>5 DEF OutboxInv, Reach, Marked, HandedOnce
<1>14. Lost'
  BY <1>1 DEF OutboxInv, Lost, Lacks, NothingIsLost
<1> QED BY <1>7, <1>8, <1>9, <1>10, <1>11, <1>12, <1>13, <1>14 DEF Leaves, Reach

LEMMA DiscoversStep ==
  ASSUME OutboxInv, NEW batch \in Batches, Discovers(batch)
  PROVE  Copies' /\ Placed' /\ Told' /\ Reach' /\ Lost'
<1>1. /\ Goes /\ captured' = batch /\ pc' = "discover"
      /\ UNCHANGED <<local, known, start, rec, delivery, receipt, up, took, handed, gone, overtaken>>
  BY DEF Discovers, device, journal
<1>2. /\ up /\ ~ Steering /\ rec.queue # <<>>
      /\ \A j \in Items : delivery[j] # "submitting"
      /\ \A j \in Ids(rec.queue) \ overtaken : delivery[j] = "none"
  BY <1>1, GoesClear
<1>3. /\ batch \in Queues /\ batch # <<>> /\ Ids(batch) \subseteq Ids(rec.queue)
      /\ \A i : Asks(rec.queue, i) => Asks(batch, i)
      /\ Len(batch) = 1 \/ \A k \in DOMAIN batch : Plain(batch[k])
  BY <1>2, BatchFacts DEF OutboxInv
<1>4. Leaves
  <2>1. CapturesFrom
    BY <1>1, <1>3 DEF CapturesFrom
  <2> QED BY <1>1, <2>1, CaptureLeaves DEF OutboxInv
<1>5. Placed'
  BY <1>1, <1>2, <1>3 DEF Placed, Steering
<1>6. Told'
  BY <1>1, <1>3, <1>4 DEF Leaves, OutboxInv, Told, Untold, Late, Begun
<1>7. Submitting' /\ Reached'
  BY <1>1, <1>2, <1>3 DEF OutboxInv, Reach, Submitting, Reached, Steering
<1>8. Goable' /\ Marked' /\ HandedOnce'
  BY <1>1, <1>2 DEF OutboxInv, Reach, Goable, Marked, HandedOnce, Steering
<1>9. Lost'
  BY <1>1 DEF OutboxInv, Lost, Lacks, NothingIsLost
<1> QED BY <1>4, <1>5, <1>6, <1>7, <1>8, <1>9 DEF Leaves, Reach

\* Until the agent takes it, what is steered has reached nobody.
LEMMA UntakenReachedNobody ==
  ASSUME OutboxInv, pc = "steer", ~ took, NEW i \in Ids(captured) \ overtaken
  PROVE  handed[i] = 0
<1>1. i \in Items /\ receipt[i] # "started"
  BY SteeredAsksNothing DEF Steering
<1>2. delivery[i] = "submitting"
  BY DEF OutboxInv, Reach, Submitting, Steering
<1>3. handed[i] \in Nat
  BY <1>1 DEF OutboxInv, QueueTypeOK
<1>4. ~ (handed[i] > 0)
  BY <1>1, <1>2 DEF OutboxInv, Reach, Marked
<1> QED BY <1>3, <1>4

LEMMA AgentTakesStep ==
  ASSUME OutboxInv, AgentTakes
  PROVE  Copies' /\ Placed' /\ Told' /\ Reach' /\ Lost'
<1>1. /\ up /\ pc = "steer" /\ ~ took /\ took' = TRUE
      /\ handed' = [i \in Items |-> IF i \in Ids(captured) THEN handed[i] + 1 ELSE handed[i]]
      /\ UNCHANGED <<local, known, start, rec, delivery, receipt, up, pc, captured, gone, overtaken>>
  BY DEF AgentTakes, Hands, device, journal
<1>2. Steering
  BY <1>1 DEF Steering
<1>3. Ids(captured) \subseteq Items /\ handed \in [Items -> Nat]
  BY CapturedItem DEF OutboxInv, QueueTypeOK
<1>4. /\ \A i \in Items \ Ids(captured) : handed'[i] = handed[i]
      /\ \A i \in Ids(captured) : i \in Items /\ handed'[i] = handed[i] + 1 /\ handed'[i] > 0
      /\ \A i \in Items : handed[i] > 0 => handed'[i] > 0
      /\ \A i \in Ids(captured) \ overtaken : handed'[i] <= 1
  BY <1>1, <1>3, UntakenReachedNobody
<1>5. Leaves
  BY <1>1, CapturesNothing, CaptureLeaves DEF OutboxInv
<1>6. Placed'
  BY <1>1 DEF OutboxInv, Placed, Steering
<1>7. Told'
  <2>1. \A i \in Ids(captured) : ~ Nowhere(i)
    BY DEF Nowhere
  <2>2. Untold'
    BY <1>1, <1>3, <1>4, <1>5, <2>1 DEF Leaves, OutboxInv, Told, Untold
  <2>3. Late' /\ Begun'
    BY <1>1, <1>5 DEF Leaves, OutboxInv, Told, Late, Begun
  <2> QED BY <2>2, <2>3 DEF Told
<1>8. Submitting' /\ Goable'
  BY <1>1 DEF OutboxInv, Reach, Submitting, Goable, Steering
<1>9. Reached'
  BY <1>1, <1>3, <1>4 DEF OutboxInv, Reach, Reached, Steering
<1>10. Marked'
  BY <1>1, <1>2, <1>3, <1>4 DEF OutboxInv, Reach, Marked, Submitting
<1>11. HandedOnce'
  BY <1>1, <1>4 DEF OutboxInv, Reach, HandedOnce
<1>12. Lost'
  BY <1>1, <1>4 DEF OutboxInv, Lost, Lacks, NothingIsLost
<1> QED BY <1>5, <1>6, <1>7, <1>8, <1>9, <1>10, <1>11, <1>12 DEF Leaves, Reach

LEMMA SteerPublishedStep ==
  ASSUME OutboxInv, SteerPublished
  PROVE  Copies' /\ Placed' /\ Told' /\ Reach' /\ Lost'
<1>1. /\ up /\ pc = "steer" /\ took /\ pc' = "steered"
      /\ receipt' = [i \in Items |-> IF i \in Ids(captured) THEN "accepted" ELSE receipt[i]]
      /\ UNCHANGED <<local, known, start, rec, delivery, up, captured, took, handed, gone, overtaken>>
  BY DEF SteerPublished, device
<1>2. Steering
  BY <1>1 DEF Steering
<1>3. \A i \in Ids(captured) : i \in Items /\ receipt[i] # "started" /\ start[i] # "late" /\ ~ Nowhere(i)
  BY <1>2, SteeredAsksNothing DEF Nowhere
<1>4. /\ \A i \in Items \ Ids(captured) : receipt'[i] = receipt[i]
      /\ \A i \in Ids(captured) : receipt'[i] = "accepted"
  BY <1>1, <1>3
<1>5. Leaves
  BY <1>1, CapturesNothing, CaptureLeaves DEF OutboxInv
<1>6. Placed'
  BY <1>1 DEF OutboxInv, Placed, Steering
<1>7. Told'
  <2>1. Untold'
    BY <1>1, <1>3, <1>4, <1>5 DEF Leaves, OutboxInv, Told, Untold
  <2>2. Late' /\ Begun'
    BY <1>1, <1>3, <1>4, <1>5 DEF Leaves, OutboxInv, Told, Late, Begun
  <2> QED BY <2>1, <2>2 DEF Told
<1>8. Submitting'
  BY <1>1, <1>4 DEF OutboxInv, Reach, Submitting, Steering
<1>9. Goable'
  BY <1>1 DEF OutboxInv, Reach, Goable, Steering
<1>10. Reached'
  BY <1>1, <1>2, <1>4 DEF OutboxInv, Reach, Reached
<1>11. Marked' /\ HandedOnce'
  BY <1>1, <1>3, <1>4 DEF OutboxInv, Reach, Marked, HandedOnce
<1>12. Lost'
  BY <1>1 DEF OutboxInv, Lost, Lacks, NothingIsLost
<1> QED BY <1>5, <1>6, <1>7, <1>8, <1>9, <1>10, <1>11, <1>12 DEF Leaves, Reach

LEMMA SteerDeclinedStep ==
  ASSUME OutboxInv, SteerDeclined
  PROVE  Copies' /\ Placed' /\ Told' /\ Reach' /\ Lost'
<1>1. /\ up /\ pc = "steer" /\ ~ took /\ pc' = "done" /\ captured' = <<>>
      /\ receipt' = [i \in Items |-> IF i \in Ids(captured) THEN "none" ELSE receipt[i]]
      /\ delivery' = [i \in Items |-> IF i \in Ids(captured) THEN "none" ELSE delivery[i]]
      /\ UNCHANGED <<local, known, start, rec, up, took, handed, gone, overtaken>>
  BY DEF SteerDeclined, Returns, device
<1>2. Steering
  BY <1>1 DEF Steering
<1>3. \A i \in Ids(captured) : i \in Items /\ receipt[i] # "started" /\ start[i] # "late"
  BY <1>2, SteeredAsksNothing
<1>4. /\ \A i \in Items \ Ids(captured) : delivery'[i] = delivery[i] /\ receipt'[i] = receipt[i]
      /\ \A i \in Ids(captured) : delivery'[i] = "none" /\ receipt'[i] = "none"
  BY <1>1, <1>3
<1>5. \A i \in Ids(captured) \ overtaken : handed[i] = 0
  BY <1>1, UntakenReachedNobody
<1>6. Leaves
  BY <1>1, CapturesNothing, CaptureLeaves DEF OutboxInv
<1>7. Ids(<<>>) = {}
  BY EmptyQueue
<1>8. Placed'
  BY <1>1 DEF Placed, Steering
<1>9. Told'
  <2>1. Untold'
    BY <1>1, <1>4, <1>6 DEF Leaves, OutboxInv, Told, Untold
  <2>2. Late'
    BY <1>1, <1>3, <1>4, <1>6 DEF Leaves, OutboxInv, Told, Late
  <2>3. Begun'
    BY <1>1, <1>4, <1>6, <1>7 DEF Leaves, OutboxInv, Told, Begun
  <2> QED BY <2>1, <2>2, <2>3 DEF Told
<1>10. Submitting' /\ Reached'
  BY <1>1, <1>4 DEF OutboxInv, Reach, Submitting, Reached, Steering
<1>11. Goable'
  <2>1. ASSUME ~ rec.paused, NEW i \in Items, NEW j \in Items, Before(rec.queue, i, j), j \notin overtaken,
               delivery'[j] # "none"
        PROVE  delivery'[i] # "none"
    <3>1. j \in Ids(rec.queue) \ overtaken /\ j \notin Ids(captured) /\ delivery[j] # "none"
      BY <1>4, <2>1, BeforeIds
    <3> QED BY <1>2, <2>1, <3>1 DEF OutboxInv, Reach, Goable
  <2> QED BY <1>1, <2>1 DEF Goable, Steering
<1>12. Marked' /\ HandedOnce'
  BY <1>1, <1>4, <1>5 DEF OutboxInv, Reach, Marked, HandedOnce
<1>13. Lost'
  BY <1>1 DEF OutboxInv, Lost, Lacks, NothingIsLost
<1> QED BY <1>6, <1>8, <1>9, <1>10, <1>11, <1>12, <1>13 DEF Leaves, Reach

-----------------------------------------------------------------------------
(* The core dies, and the next one reads the journals.                     *)

LEMMA CrashStep ==
  ASSUME OutboxInv, Crash
  PROVE  Copies' /\ Placed' /\ Told' /\ Reach' /\ Lost'
<1>1. /\ up' = FALSE /\ pc' = "idle" /\ captured' = <<>> /\ took' = FALSE
      /\ UNCHANGED <<local, known, start, rec, delivery, receipt, handed, gone, overtaken>>
  BY DEF Crash
<1>2. Leaves
  BY <1>1, CapturesNothing, CaptureLeaves DEF OutboxInv
<1>3. Ids(<<>>) = {}
  BY EmptyQueue
<1>4. Placed'
  BY <1>1 DEF Placed, Steering
<1>5. Told'
  BY <1>1, <1>2, <1>3 DEF Leaves, OutboxInv, Told, Untold, Late, Begun
<1>6. Submitting' /\ Reached'
  BY <1>1 DEF OutboxInv, Reach, Submitting, Reached, Steering
<1>7. Goable' /\ Marked' /\ HandedOnce'
  BY <1>1 DEF OutboxInv, Reach, Goable, Marked, HandedOnce, Steering
<1>8. Lost'
  BY <1>1 DEF OutboxInv, Lost, Lacks, NothingIsLost
<1> QED BY <1>2, <1>4, <1>5, <1>6, <1>7, <1>8 DEF Leaves, Reach

LEMMA StartUpStep ==
  ASSUME OutboxInv, StartUp
  PROVE  Copies' /\ Placed' /\ Told' /\ Reach' /\ Lost'
<1>1. /\ ~ up /\ up' = TRUE /\ delivery' = [i \in Items |-> Settled(i)]
      /\ UNCHANGED <<local, known, start, rec, receipt, pc, captured, took, handed, gone, overtaken>>
  BY DEF StartUp, device
<1>2. pc = "idle" /\ captured = <<>>
  BY <1>1 DEF OutboxInv, Placed
<1>3. ASSUME NEW i \in Items
      PROVE  /\ delivery'[i] # "submitting"
             /\ delivery'[i] = "none" <=> delivery[i] = "none"
             /\ delivery'[i] = "delivered" => delivery[i] = "delivered" \/ receipt[i] = "accepted"
             /\ receipt[i] = "started" => delivery'[i] = delivery[i]
  <2>1. delivery[i] = "submitting" => receipt[i] \in {"pending", "accepted"}
    BY DEF OutboxInv, Reach, Submitting
  <2>2. delivery'[i] = Settled(i)
    BY <1>1
  <2>3. CASE delivery[i] # "submitting"
    BY <2>2, <2>3 DEF Settled
  <2>4. CASE delivery[i] = "submitting"
    BY <2>1, <2>2, <2>4 DEF Settled
  <2> QED BY <2>3, <2>4
<1>4. Leaves
  BY <1>1, CapturesNothing, CaptureLeaves DEF OutboxInv
<1>5. Placed'
  BY <1>1, <1>2 DEF Placed, Steering
<1>6. Told'
  <2>1. Untold'
    BY <1>1, <1>3, <1>4 DEF Leaves, OutboxInv, Told, Untold
  <2>2. Late'
    BY <1>1, <1>3, <1>4 DEF Leaves, OutboxInv, Told, Late
  <2>3. Begun'
    BY <1>1, <1>3, <1>4 DEF Leaves, OutboxInv, Told, Begun
  <2> QED BY <2>1, <2>2, <2>3 DEF Told
<1>7. Submitting'
  BY <1>1, <1>2, <1>3 DEF Submitting, Steering
<1>8. Reached'
  BY <1>1, <1>2, <1>3 DEF OutboxInv, Reach, Reached, Steering
<1>9. Goable' /\ Marked' /\ HandedOnce'
  BY <1>1, <1>2, <1>3 DEF OutboxInv, Reach, Goable, Marked, HandedOnce, Steering
<1>10. Lost'
  BY <1>1 DEF OutboxInv, Lost, Lacks, NothingIsLost
<1> QED BY <1>4, <1>5, <1>6, <1>7, <1>8, <1>9, <1>10 DEF Leaves, Reach

-----------------------------------------------------------------------------
(* Every step.                                                             *)

LEMMA UiStep == ASSUME OutboxInv, Ui PROVE Copies' /\ Placed' /\ Told' /\ Reach' /\ Lost'
<1>1. ASSUME NEW d \in Devices, Reconnect(d), known[d].current
      PROVE  Copies' /\ Placed' /\ Told' /\ Reach' /\ Lost'
  <2>1. UNCHANGED <<local, known, start, rec, delivery, receipt, up, pc, captured, took, handed, gone, overtaken>>
    BY <1>1 DEF Reconnect, journal, memory
  <2> QED BY <2>1, NothingChanges
<1>2. ASSUME NEW d \in Devices, Disconnect(d)
      PROVE  Copies' /\ Placed' /\ Told' /\ Reach' /\ Lost'
  <2>1. UNCHANGED <<local, known, start, rec, delivery, receipt, up, pc, captured, took, handed, gone, overtaken>>
    BY <1>2 DEF Disconnect, journal, memory
  <2> QED BY <2>1, NothingChanges
<1>3. ASSUME NEW d \in Devices, Hears(d) \/ (Reconnect(d) /\ ~ known[d].current)
      PROVE  Copies' /\ Placed' /\ Told' /\ Reach' /\ Lost'
  BY <1>3, HearsResyncs, ResyncsStep DEF OutboxInv
<1>4. CASE \E i \in Items : Type(i) \/ Send(i) \/ GivesUp(i)
  BY <1>4, TypedStep, SendStep, GivesUpStep
<1>5. CASE \E d \in Devices, i \in Items : Removes(d, i)
  BY <1>5, RemovesStep
<1>6. CASE \E d \in Devices : Retry(d) \/ Hears(d) \/ Disconnect(d) \/ Reconnect(d)
  BY <1>1, <1>2, <1>3, <1>6, RetryStep
<1> QED BY <1>4, <1>5, <1>6 DEF Ui

LEMMA RpcStep == ASSUME OutboxInv, Rpc PROVE Copies' /\ Placed' /\ Told' /\ Reach' /\ Lost'
<1>1. ASSUME NEW d \in Devices, NEW sendNow \in BOOLEAN, NEW lost \in BOOLEAN, Put(d, sendNow, lost)
      PROVE  Copies' /\ Placed' /\ Told' /\ Reach' /\ Lost'
  BY <1>1, PutTakenOrRefused, TakenStep, ResyncsStep DEF OutboxInv
<1> QED BY <1>1, HandleStartStep DEF Rpc

LEMMA PumpStep ==
  ASSUME OutboxInv, Pump \/ Refused \/ AgentTakes
  PROVE  Copies' /\ Placed' /\ Told' /\ Reach' /\ Lost'
<1> USE DEF device, journal, memory
<1>1. CASE Wakes
  <2>1. up /\ pc = "idle" /\ captured = <<>> /\ ~ Steering
    BY <1>1 DEF Wakes, OutboxInv, Placed, Steering
  <2>2. pc' = "loop" /\ captured' = <<>>
    BY <1>1, <2>1 DEF Wakes
  <2>3. UNCHANGED <<local, known, start, rec, delivery, receipt, up, took, handed, gone, overtaken>>
    BY <1>1 DEF Wakes
  <2> QED BY <2>1, <2>2, <2>3, PassesStep
<1>2. CASE Rests \/ Waits \/ FindsArchived
  <2>1. /\ up /\ ~ Steering /\ pc' = "done" /\ captured' = <<>>
        /\ UNCHANGED <<local, known, start, rec, delivery, receipt, up, took, handed, gone, overtaken>>
    BY <1>2 DEF Rests, Waits, FindsArchived, Returns, Goes, Ready, Looks, Steering
  <2> QED BY <2>1, PassesStep
<1>3. CASE Ends
  <2>1. up /\ pc = "done" /\ captured = <<>> /\ ~ Steering
    BY <1>3 DEF Ends, OutboxInv, Placed, Steering
  <2>2. /\ pc' = "idle" /\ captured' = <<>>
        /\ UNCHANGED <<local, known, start, rec, delivery, receipt, up, took, handed, gone, overtaken>>
    BY <1>3, <2>1 DEF Ends
  <2> QED BY <2>1, <2>2, PassesStep
<1>4. CASE Holds \/ Refused
  <2>1. /\ up /\ ~ Steering /\ rec.queue # <<>> /\ Held(Head1.id) /\ Returns
        /\ UNCHANGED <<delivery, receipt, up, took, handed, gone, overtaken>>
    BY <1>4 DEF Holds, Refused, Goes, Ready, Looks, Steering
  <2>2. Head1.id \in Items
    BY <2>1, Head1Item DEF OutboxInv
  <2> QED BY <2>1, <2>2, HoldsStep
<1>5. CASE StartRefused
  <2>1. /\ up /\ pc = "discover" /\ ~ Steering /\ Held(captured[1].id) /\ Returns
        /\ UNCHANGED <<delivery, receipt, up, took, handed, gone, overtaken>>
    BY <1>5 DEF StartRefused, Steering
  <2>2. captured[1].id \in Items
    BY <2>1, CapturedItem DEF OutboxInv, Placed
  <2> QED BY <2>1, <2>2, HoldsStep
<1>6. CASE \E batch \in Batches : Steers(batch) \/ Discovers(batch)
  BY <1>6, SteersStep, DiscoversStep
<1>7. CASE FindsDelivered \/ SteerPublished \/ SteerCompleted \/ SteerDeclined \/ SteerFailed \/ Starts \/ AgentTakes
  BY <1>7, FindsDeliveredStep, SteerPublishedStep, SteerCompletedStep, SteerDeclinedStep, SteerFailedStep,
     StartsStep, AgentTakesStep
<1> QED BY <1>1, <1>2, <1>3, <1>4, <1>5, <1>6, <1>7 DEF Pump

\* The conversation around the pump.
LEMMA AroundStep ==
  ASSUME OutboxInv, Turns \/ OtherStarts \/ ToolCompleted \/ Archive \/ UserRecovers
  PROVE  Copies' /\ Placed' /\ Told' /\ Reach' /\ Lost'
<1>1. Same
  BY DEF Turns, TurnRuns, TurnEnds, OtherStarts, ToolCompleted, Archive, UserRecovers
<1>2. UNCHANGED <<local, known, start, rec, delivery, receipt, up, pc, captured, took, handed, gone, overtaken>>
  BY <1>1 DEF Same, device
<1> QED BY <1>2, NothingChanges

LEMMA OutboxStep == OutboxInv /\ [QueueNext]_queueVars => OutboxInv'
<1> SUFFICES ASSUME OutboxInv, [QueueNext]_queueVars PROVE OutboxInv'
  OBVIOUS
<1>1. QueueTypeOK'
  BY QueueTypeStep DEF OutboxInv
<1>2. CASE queueVars' = queueVars
  <2>1. UNCHANGED <<local, known, start, rec, delivery, receipt, up, pc, captured, took, handed, gone, overtaken>>
    BY <1>2 DEF queueVars, device, journal, memory
  <2>2. Copies' /\ Placed' /\ Told' /\ Reach' /\ Lost'
    BY <2>1, NothingChanges
  <2> QED BY <1>1, <2>2 DEF OutboxInv
<1>3. CASE QueueNext
  <2>1. Copies' /\ Placed' /\ Told' /\ Reach' /\ Lost'
    BY <1>3, UiStep, RpcStep, PumpStep, AroundStep, CrashStep, StartUpStep DEF QueueNext
  <2> QED BY <1>1, <2>1 DEF OutboxInv
<1> QED BY <1>2, <1>3

\* The copies, the record, the journals and the pump always fit together: what a
\* copy lacks was removed or handed over, what stands in the queue that may go
\* is journaled in its order, and what reached an agent is marked as such.
THEOREM OutboxInductive == QueueSpec => []OutboxInv
<1> QED BY OutboxInit, OutboxStep, PTL DEF QueueSpec

\* Every copy, the record and the journals hold what the code may write in them.
THEOREM OutboxTypeCorrect == QueueSpec => []QueueTypeOK
<1>1. OutboxInv => QueueTypeOK
  BY DEF OutboxInv
<1> QED BY <1>1, OutboxInductive, PTL

\* composer.ts #pump: whatever is put again after a lost answer, a restart or an
\* edit on another device, an input reaches an agent at most once.
THEOREM HandedOnceAlways == QueueSpec => []HandedOnce
<1>1. OutboxInv => HandedOnce
  BY DEF OutboxInv, Reach
<1> QED BY <1>1, OutboxInductive, PTL

\* composer-sync.svelte.ts #merge, composer.put: an input nobody removed is shown
\* by the device it was typed on, or waits in the core's queue, or has reached
\* an agent.
THEOREM NothingLostAlways == QueueSpec => []NothingIsLost
<1>1. OutboxInv => NothingIsLost
  BY DEF OutboxInv, Lost
<1> QED BY <1>1, OutboxInductive, PTL

-----------------------------------------------------------------------------
(* What the core agreed to drop.                                           *)

\* A copy has an input its record never had only on the device it was typed on.
Owned == \A d \in Devices, i \in Items :
           i \in Ids(local[d].queue) /\ i \notin Ids(known[d].queue) => d = Author[i]

\* What was dropped is in no place an agent gets it from, and a copy that still
\* shows it has it of an older record.
Dropped(i) ==
  /\ start[i] \in {"queued", "answered"} /\ i \notin Ids(rec.queue) /\ i \notin Ids(captured)
  /\ \A d \in Devices : i \in Ids(local[d].queue) => i \in Ids(known[d].queue)

DropInv == Owned /\ \A i \in Items : gone[i] = "dropped" => Dropped(i)

\* What the core does by itself brings nothing into a queue or a copy.
Quiet == /\ UNCHANGED <<local, start, gone>>
         /\ \A d \in Devices : known'[d].queue = known[d].queue
         /\ Ids(rec'.queue) \subseteq Ids(rec.queue)
         /\ Ids(captured') \subseteq Ids(captured) \union Ids(rec.queue)

LEMMA QuietKeeps == ASSUME DropInv, Quiet PROVE DropInv'
<1>1. Owned'
  BY DEF DropInv, Quiet, Owned
<1>2. \A i \in Items : gone'[i] = "dropped" => Dropped(i)'
  BY DEF DropInv, Quiet, Dropped
<1> QED BY <1>1, <1>2 DEF DropInv

\* A device's copy gains what is its own at most, and nothing dropped.
LEMMA GainsKeeps ==
  ASSUME DropInv, NEW d \in Devices, UNCHANGED <<known, rec, captured>>,
         \A e \in Devices : e # d => local'[e] = local[e],
         \A j \in Ids(local'[d].queue) \ Ids(local[d].queue) : d = Author[j] /\ gone[j] # "dropped",
         \A j \in Items : gone'[j] = "dropped" => gone[j] = "dropped",
         \A j \in Items : start[j] \in {"queued", "answered"} => start'[j] \in {"queued", "answered"}
  PROVE  DropInv'
<1>1. Owned'
  BY DEF DropInv, Owned
<1>2. ASSUME NEW i \in Items, gone'[i] = "dropped" PROVE Dropped(i)'
  <2>1. gone[i] = "dropped" /\ Dropped(i)
    BY <1>2 DEF DropInv
  <2>2. \A e \in Devices : i \in Ids(local'[e].queue) => i \in Ids(known[e].queue)
    BY <2>1 DEF Dropped
  <2> QED BY <2>1, <2>2 DEF Dropped
<1> QED BY <1>1, <1>2 DEF DropInv

\* A device follows the record: what is new to it is of the record, or its own.
LEMMA ResyncsDrops ==
  ASSUME QueueTypeOK, DropInv, NEW d \in Devices, Resyncs(d)
  PROVE  DropInv'
<1>1. /\ UNCHANGED <<start, rec, captured, gone>> /\ Reconciles(local'[d], local[d], known[d], rec)
      /\ \A e \in Devices : e # d => local'[e] = local[e] /\ known'[e] = known[e]
      /\ known'[d].queue = rec.queue
  <2>1. rec \in Copied /\ known \in [Devices -> Synced] /\ known' = [known EXCEPT ![d] = Copy(rec)]
    BY DEF QueueTypeOK, Resyncs
  <2> QED BY <2>1, CopyOf DEF Resyncs, OnlyLocal
<1>2. /\ Ids(local'[d].queue) \subseteq Ids(local[d].queue) \union Ids(rec.queue)
      /\ Ids(local'[d].queue) \cap Ids(known[d].queue) \subseteq Ids(rec.queue)
  BY <1>1 DEF Reconciles
<1>3. Owned'
  BY <1>1, <1>2 DEF DropInv, Owned
<1>4. \A i \in Items : gone'[i] = "dropped" => Dropped(i)'
  BY <1>1, <1>2 DEF DropInv, Dropped
<1> QED BY <1>3, <1>4 DEF DropInv

\* What a put the core keeps drops is nowhere but in copies of an older record.
LEMMA TakenDrops ==
  ASSUME OutboxInv, DropInv, NEW d \in Devices, Taken(d)
  PROVE  DropInv'
<1>1. /\ known[d].current /\ KeepsCaptured(local[d]) /\ UNCHANGED <<start, captured>>
      /\ \A i \in Items : gone'[i] = "dropped" => gone[i] = "dropped" \/ Drops(d, i)
  BY DEF Taken
<1>2. /\ Ids(rec'.queue) \subseteq Ids(local[d].queue)
      /\ \A e \in Devices :
           \/ e = d /\ Ids(local'[e].queue) = Ids(rec'.queue) /\ Ids(known'[e].queue) = Ids(rec'.queue)
           \/ local'[e] = local[e] /\ known'[e].queue = known[e].queue
  <2>1. \A r \in Copied : Copy(r).queue = r.queue
    BY CopyOf
  <2> QED BY <2>1, TakenEffect DEF OutboxInv, Shortens
<1>3. Ids(known[d].queue) = Ids(rec.queue)
  BY <1>1 DEF OutboxInv, Copies, InStep, Value
<1>4. Owned'
  BY <1>2 DEF DropInv, Owned
<1>5. ASSUME NEW i \in Items, gone'[i] = "dropped" PROVE Dropped(i)'
  <2>1. CASE gone[i] = "dropped"
    <3>1. Dropped(i)
      BY <2>1 DEF DropInv
    <3>2. i \notin Ids(local[d].queue)
      BY <1>3, <3>1 DEF Dropped
    <3> QED BY <1>1, <1>2, <3>1, <3>2 DEF Dropped
  <2>2. CASE Drops(d, i)
    <3>1. /\ i \in Ids(rec.queue) /\ i \notin Ids(local[d].queue)
          /\ start[i] # "late" /\ i \in Ids(known[Author[i]].queue)
      BY <2>2 DEF Drops
    <3>2. start[i] \in {"queued", "answered"}
      <4>1. start[i] \in {"no", "queued", "flying", "answered", "late"}
        BY DEF OutboxInv, QueueTypeOK
      <4>2. start[i] \notin {"no", "flying"}
        BY <3>1 DEF OutboxInv, Told, Untold, Nowhere
      <4> QED BY <3>1, <4>1, <4>2
    <3>3. i \notin Ids(captured)
      <4>1. Ids(captured) \subseteq Ids(local[d].queue)
        BY <1>1 DEF KeepsCaptured, Ids, ToSet
      <4> QED BY <3>1, <4>1
    <3>4. \A e \in Devices : i \in Ids(local[e].queue) => i \in Ids(known[e].queue)
      BY <3>1 DEF DropInv, Owned
    <3> QED BY <1>1, <1>2, <3>1, <3>2, <3>3, <3>4 DEF Dropped
  <2> QED BY <1>1, <1>5, <2>1, <2>2
<1> QED BY <1>4, <1>5 DEF DropInv

LEMMA UiDrops == ASSUME OutboxInv, DropInv, Ui PROVE DropInv'
<1>1. QueueTypeOK /\ Copies /\ start \in [Items -> {"no", "queued", "flying", "answered", "late"}]
      /\ gone \in [Items -> {"no", "removed", "dropped"}]
  BY DEF OutboxInv, QueueTypeOK
<1>2. ASSUME NEW i \in Items, start[i] \in {"no", "flying"} PROVE Nowhere(i) /\ gone[i] # "dropped"
  BY <1>2 DEF OutboxInv, Told, Untold, DropInv, Dropped
<1>3. ASSUME NEW i \in Items, Type(i) PROVE DropInv'
  <2>1. /\ start[i] = "no" /\ start' = [start EXCEPT ![i] = "queued"]
        /\ UNCHANGED <<known, rec, captured, gone>>
    BY <1>3 DEF Type, Untyped, Edits, journal, memory
  <2>2. Added(i, "no") /\ gone[i] # "dropped"
    BY <1>1, <1>2, <1>3, <2>1, TypeAdds
  <2>3. \A j \in Items : start[j] \in {"queued", "answered"} => start'[j] \in {"queued", "answered"}
    BY <1>1, <2>1
  <2> QED BY <2>1, <2>2, <2>3, GainsKeeps DEF Added, OnlyLocal
<1>4. ASSUME NEW i \in Items, Send(i) PROVE DropInv'
  <2>1. /\ start[i] = "no" /\ start' = [start EXCEPT ![i] = "flying"]
        /\ UNCHANGED <<local, known, rec, captured, gone>>
    BY <1>4 DEF Send, Untyped, journal, memory
  <2>2. \A j \in Items : start[j] \in {"queued", "answered"} => start'[j] \in {"queued", "answered"}
    BY <1>1, <2>1
  <2>3. Author[i] \in Devices
    BY OutboxAssumption
  <2> QED BY <2>1, <2>2, <2>3, GainsKeeps
<1>5. ASSUME NEW i \in Items, GivesUp(i) PROVE DropInv'
  <2>1. /\ start[i] = "flying" /\ start' = [start EXCEPT ![i] = "late"] /\ Requeued(i, "sent")
        /\ UNCHANGED <<known, rec, captured, gone>>
    BY <1>5 DEF GivesUp, journal, memory
  <2>2. Added(i, "sent") /\ gone[i] # "dropped"
    BY <1>1, <1>2, <2>1, RequeuedAdds
  <2>3. \A j \in Items : start[j] \in {"queued", "answered"} => start'[j] \in {"queued", "answered"}
    BY <1>1, <2>1
  <2> QED BY <2>1, <2>2, <2>3, GainsKeeps DEF Added, OnlyLocal
<1>6. ASSUME NEW d \in Devices, NEW i \in Items, Removes(d, i) PROVE DropInv'
  <2>1. /\ UNCHANGED <<known, rec, captured, start>>
        /\ gone' = [gone EXCEPT ![i] = IF @ = "no" THEN "removed" ELSE @]
    BY <1>6 DEF Removes, Edits, journal, memory
  <2>2. OnlyLocal(d, Without(local[d].queue, {i}))
    BY <1>1, <1>6, RemovesEffect
  <2>3. Ids(local'[d].queue) \subseteq Ids(local[d].queue)
    BY <1>1, <2>2, QueueTypes, WithoutShortens DEF OnlyLocal, Shortens
  <2>4. \A j \in Items : gone'[j] = "dropped" => gone[j] = "dropped"
    BY <1>1, <2>1
  <2> QED BY <2>1, <2>2, <2>3, <2>4, GainsKeeps DEF OnlyLocal
<1>7. ASSUME NEW d \in Devices, Retry(d) PROVE DropInv'
  <2>1. UNCHANGED <<known, rec, captured, start, gone>>
    BY <1>7 DEF Retry, Edits, journal, memory
  <2>2. OnlyLocal(d, local'[d].queue) /\ Ids(local'[d].queue) \subseteq Ids(local[d].queue)
    BY <1>1, <1>7, RetryEffect DEF Shortens
  <2> QED BY <2>1, <2>2, GainsKeeps DEF OnlyLocal
<1>8. ASSUME NEW d \in Devices, Hears(d) \/ (Reconnect(d) /\ ~ known[d].current) PROVE DropInv'
  BY <1>1, <1>8, HearsResyncs, ResyncsDrops
<1>9. ASSUME NEW d \in Devices, Disconnect(d) \/ (Reconnect(d) /\ known[d].current) PROVE DropInv'
  <2>1. UNCHANGED <<local, known, start, rec, captured, gone>>
    BY <1>9 DEF Disconnect, Reconnect, journal, memory
  <2> QED BY <2>1, QuietKeeps DEF Quiet
<1>10. CASE \E i \in Items : Type(i) \/ Send(i) \/ GivesUp(i)
  BY <1>3, <1>4, <1>5, <1>10
<1>11. CASE \E d \in Devices, i \in Items : Removes(d, i)
  BY <1>6, <1>11
<1>12. CASE \E d \in Devices : Retry(d) \/ Hears(d) \/ Disconnect(d) \/ Reconnect(d)
  BY <1>7, <1>8, <1>9, <1>12
<1> QED BY <1>10, <1>11, <1>12 DEF Ui

LEMMA RpcDrops == ASSUME OutboxInv, DropInv, Rpc PROVE DropInv'
<1>1. QueueTypeOK /\ Copies /\ start \in [Items -> {"no", "queued", "flying", "answered", "late"}]
  BY DEF OutboxInv, QueueTypeOK
<1>2. ASSUME NEW d \in Devices, NEW sendNow \in BOOLEAN, NEW lost \in BOOLEAN, Put(d, sendNow, lost)
      PROVE  DropInv'
  BY <1>1, <1>2, PutTakenOrRefused, TakenDrops, ResyncsDrops
<1>3. ASSUME NEW i \in Items, NEW lost \in BOOLEAN, HandleStart(i, lost) PROVE DropInv'
  <2>1. /\ start[i] \in {"flying", "late"} /\ start' = [start EXCEPT ![i] = "answered"]
        /\ UNCHANGED <<known, rec, captured, gone>>
        /\ \/ local' = local
           \/ start[i] = "flying" /\ (Requeued(i, "sent") \/ Requeued(i, "no"))
    BY <1>3 DEF HandleStart, memory
  <2>2. Author[i] \in Devices
    BY OutboxAssumption
  <2>3. \A j \in Items : start[j] \in {"queued", "answered"} => start'[j] \in {"queued", "answered"}
    BY <1>1, <2>1
  <2>4. CASE local' = local
    BY <2>1, <2>2, <2>3, <2>4, GainsKeeps
  <2>5. ASSUME start[i] = "flying", NEW asked \in {"no", "again", "sent"}, Requeued(i, asked) PROVE DropInv'
    <3>1. Nowhere(i) /\ gone[i] # "dropped"
      BY <2>5 DEF OutboxInv, Told, Untold, DropInv, Dropped
    <3>2. Added(i, asked)
      BY <1>1, <2>5, <3>1, RequeuedAdds
    <3> QED BY <2>1, <2>2, <2>3, <3>1, <3>2, GainsKeeps DEF Added, OnlyLocal
  <2> QED BY <2>1, <2>4, <2>5
<1> QED BY <1>2, <1>3 DEF Rpc

\* What the core does is quiet.
LEMMA CoreDrops ==
  ASSUME OutboxInv, DropInv,
         Pump \/ Refused \/ AgentTakes \/ Turns \/ OtherStarts \/ ToolCompleted \/ Archive \/ UserRecovers
           \/ Crash \/ StartUp
  PROVE  DropInv'
<1> SUFFICES Quiet
  BY QuietKeeps
<1> USE DEF device, journal, memory
<1>1. QueueTypeOK /\ Ids(<<>>) = {}
  BY EmptyQueue DEF OutboxInv
<1>2. ASSUME NEW i \in Items, Held(i), captured' = <<>>, UNCHANGED gone PROVE Quiet
  BY <1>1, <1>2, HeldEffect DEF Shortens, NewRecord, Quiet
<1>3. ASSUME NEW ids \in SUBSET Items, Complete(ids), captured' \in {<<>>, captured}, UNCHANGED gone PROVE Quiet
  BY <1>1, <1>3, CompleteEffect DEF Shortens, NewRecord, Quiet
<1>4. CASE Holds \/ Refused
  <2>1. Held(Head1.id) /\ captured' = <<>> /\ gone' = gone /\ rec.queue # <<>>
    BY <1>4 DEF Holds, Refused, Goes, Ready, Returns
  <2> QED BY <1>1, <1>2, <2>1, Head1Item
<1>5. CASE SteerFailed \/ StartRefused
  <2>1. Held(captured[1].id) /\ captured' = <<>> /\ gone' = gone /\ pc \in {"steer", "discover"}
    BY <1>5 DEF SteerFailed, StartRefused, Returns
  <2>2. captured[1].id \in Items
    BY <1>1, <2>1, CapturedItem DEF OutboxInv, Placed
  <2> QED BY <1>2, <2>1, <2>2
<1>6. CASE FindsDelivered
  <2>1. Complete({Head1.id}) /\ captured' = captured /\ gone' = gone /\ rec.queue # <<>>
    BY <1>6 DEF FindsDelivered, Ready
  <2>2. {Head1.id} \in SUBSET Items
    BY <1>1, <2>1, Head1Item
  <2> QED BY <1>3, <2>1, <2>2
<1>7. CASE SteerCompleted \/ Starts
  <2>1. Complete(Ids(captured)) /\ captured' = <<>> /\ gone' = gone
    BY <1>7 DEF SteerCompleted, Starts
  <2>2. Ids(captured) \in SUBSET Items
    BY <1>1, CapturedItem
  <2> QED BY <1>3, <2>1, <2>2
<1>8. ASSUME NEW batch \in Batches, Steers(batch) \/ Discovers(batch) PROVE Quiet
  <2>1. captured' = batch /\ rec.queue # <<>> /\ UNCHANGED <<local, known, start, rec, gone>>
    BY <1>8 DEF Steers, Discovers, Goes, Ready
  <2>2. Ids(batch) \subseteq Ids(rec.queue)
    BY <1>1, <2>1, BatchFacts
  <2> QED BY <2>1, <2>2 DEF Quiet
<1>9. CASE Wakes \/ Rests \/ Waits \/ SteerPublished \/ SteerDeclined \/ FindsArchived \/ Ends
  <2>1. UNCHANGED <<local, known, start, rec, gone>> /\ captured' \in {<<>>, captured}
    BY <1>9 DEF Wakes, Rests, Waits, SteerPublished, SteerDeclined, FindsArchived, Ends, Returns
  <2> QED BY <1>1, <2>1 DEF Quiet
<1>10. CASE AgentTakes \/ Turns \/ OtherStarts \/ ToolCompleted \/ Archive \/ UserRecovers \/ StartUp
  <2>1. UNCHANGED <<local, known, start, rec, gone, captured>>
    BY <1>10 DEF AgentTakes, Turns, TurnRuns, TurnEnds, OtherStarts, ToolCompleted, Archive, UserRecovers,
                 StartUp, Same
  <2> QED BY <2>1 DEF Quiet
<1>11. CASE Crash
  BY <1>1, <1>11 DEF Crash, Quiet
<1> QED BY <1>4, <1>5, <1>6, <1>7, <1>8, <1>9, <1>10, <1>11 DEF Pump

LEMMA DropInit == QueueInit => DropInv
<1>1. Ids(<<>>) = {}
  BY EmptyQueue
<1> QED BY <1>1 DEF QueueInit, Empty, DropInv, Owned

LEMMA DropStep == OutboxInv /\ DropInv /\ [QueueNext]_queueVars => DropInv'
<1> SUFFICES ASSUME OutboxInv, DropInv, [QueueNext]_queueVars PROVE DropInv'
  OBVIOUS
<1>1. CASE queueVars' = queueVars
  BY <1>1, QuietKeeps DEF queueVars, device, journal, memory, Quiet
<1>2. CASE QueueNext
  BY <1>2, UiDrops, RpcDrops, CoreDrops DEF QueueNext
<1> QED BY <1>1, <1>2

\* What a step hands to an agent was captured, or is a turns.start on its way.
LEMMA HandsWhat ==
  ASSUME OutboxInv, [QueueNext]_queueVars, NEW i \in Items, handed'[i] # handed[i]
  PROVE  i \in Ids(captured) \/ start[i] \in {"flying", "late"}
<1> USE DEF device, journal, memory
<1>1. handed \in [Items -> Nat]
  BY DEF OutboxInv, QueueTypeOK
<1>2. CASE queueVars' = queueVars
  BY <1>2 DEF queueVars
<1>3. CASE Ui
  <2>1. handed' = handed
    BY <1>3 DEF Ui, Type, Send, GivesUp, Removes, Retry, Hears, Disconnect, Reconnect, Edits
  <2> QED BY <2>1
<1>4. CASE Rpc
  <2>1. ASSUME NEW j \in Items, NEW lost \in BOOLEAN, HandleStart(j, lost)
        PROVE  start[i] \in {"flying", "late"}
    <3>1. start[j] \in {"flying", "late"} /\ (Hands({j}) \/ handed' = handed)
      BY <2>1 DEF HandleStart
    <3>2. i = j
      BY <1>1, <3>1 DEF Hands
    <3> QED BY <3>1, <3>2
  <2>2. ASSUME NEW d \in Devices, NEW sendNow \in BOOLEAN, NEW lost \in BOOLEAN, Put(d, sendNow, lost) PROVE FALSE
    BY <2>2 DEF Put
  <2> QED BY <1>4, <2>1, <2>2 DEF Rpc
<1>5. CASE AgentTakes \/ Starts
  <2>1. Hands(Ids(captured)) \/ handed' = handed
    BY <1>5 DEF AgentTakes, Starts
  <2> QED BY <1>1, <2>1 DEF Hands
<1>6. CASE (Pump /\ ~ Starts) \/ Refused
  <2>1. handed' = handed
    BY <1>6 DEF Pump, Refused, Wakes, Rests, FindsDelivered, Holds, Waits, Steers, Discovers, SteerPublished,
                SteerCompleted, SteerDeclined, SteerFailed, FindsArchived, StartRefused, Ends
  <2> QED BY <2>1
<1>7. CASE Turns \/ OtherStarts \/ ToolCompleted \/ Archive \/ UserRecovers \/ Crash \/ StartUp
  <2>1. handed' = handed
    BY <1>7 DEF Turns, TurnRuns, TurnEnds, OtherStarts, ToolCompleted, Archive, UserRecovers, Crash, StartUp, Same
  <2> QED BY <2>1
<1> QED BY <1>2, <1>3, <1>4, <1>5, <1>6, <1>7 DEF QueueNext

LEMMA DroppedStep ==
  OutboxInv /\ DropInv /\ [QueueNext]_queueVars =>
    [\A i \in Items : gone[i] = "dropped" => handed'[i] = handed[i]]_queueVars
<1> SUFFICES ASSUME OutboxInv, DropInv, [QueueNext]_queueVars, NEW i \in Items, gone[i] = "dropped"
             PROVE  handed'[i] = handed[i]
  OBVIOUS
<1>1. Dropped(i)
  BY DEF DropInv
<1> QED BY <1>1, HandsWhat DEF Dropped

\* composer.put, composer.ts #pump: an input the core agreed to drop, and its
\* author's device knew to be queued, reaches no agent afterwards: no other copy,
\* no late answer and no next core brings it back.
THEOREM DroppedAlways == QueueSpec => DroppedStaysOut
<1> QED BY OutboxInductive, OutboxInit, DropInit, DropStep, DroppedStep, PTL DEF QueueSpec, DroppedStaysOut

-----------------------------------------------------------------------------
(* What is not confirmed.                                                  *)

\* The receipt of an input whose hand-over is not confirmed says so.
Unconfirmed ==
  /\ \A i \in Items : delivery[i] = "uncertain" => receipt[i] = "pending"
  /\ pc = "steer" => \A i \in Ids(captured) : receipt[i] = "pending"

\* What a step leaves of it that neither hands over nor settles anything.
LEMMA UnconfirmedKept ==
  ASSUME Unconfirmed, UNCHANGED <<delivery, receipt>>, pc' # "steer" \/ UNCHANGED <<pc, captured>>
  PROVE  Unconfirmed'
  BY DEF Unconfirmed

\* An input whose turns.start the core may still read is not marked unconfirmed,
\* and not being steered.
LEMMA AskedIsConfirmed ==
  ASSUME OutboxInv, Unconfirmed, NEW i \in Items, start[i] \in {"flying", "late"}
  PROVE  /\ delivery[i] # "uncertain"
         /\ pc = "steer" => i \notin Ids(captured)
<1>1. CASE start[i] = "flying"
  BY <1>1 DEF OutboxInv, Told, Untold, Nowhere
<1>2. CASE start[i] = "late"
  <2>1. delivery[i] # "uncertain"
    BY <1>2 DEF OutboxInv, Told, Late, Unconfirmed
  <2>2. pc = "steer" => i \notin Ids(captured)
    BY <1>2, SteeredAsksNothing DEF Steering
  <2> QED BY <2>1, <2>2
<1> QED BY <1>1, <1>2

LEMMA UnconfirmedStep == OutboxInv /\ Unconfirmed /\ [QueueNext]_queueVars => Unconfirmed'
<1> SUFFICES ASSUME OutboxInv, Unconfirmed, [QueueNext]_queueVars PROVE Unconfirmed'
  OBVIOUS
<1> USE DEF device, journal, memory
<1>1. /\ delivery \in [Items -> {"none", "submitting", "uncertain", "delivered"}]
      /\ receipt \in [Items -> {"none", "pending", "accepted", "started"}]
      /\ Ids(captured) \subseteq Items
  BY CapturedItem DEF OutboxInv, QueueTypeOK
<1>2. pc = "steer" => \A i \in Ids(captured) : delivery[i] = "submitting" /\ receipt[i] = "pending"
  BY DEF OutboxInv, Reach, Submitting, Steering, Unconfirmed
<1>3. CASE queueVars' = queueVars \/ Ui
  <2>1. UNCHANGED <<delivery, receipt, pc, captured>>
    BY <1>3 DEF queueVars, Ui, Type, Send, GivesUp, Removes, Retry, Hears, Disconnect, Reconnect, Edits
  <2> QED BY <2>1, UnconfirmedKept
<1>4. CASE Rpc
  <2>1. ASSUME NEW d \in Devices, NEW sendNow \in BOOLEAN, NEW lost \in BOOLEAN, Put(d, sendNow, lost)
        PROVE  Unconfirmed'
    BY <2>1, UnconfirmedKept DEF Put
  <2>2. ASSUME NEW i \in Items, NEW lost \in BOOLEAN, HandleStart(i, lost) PROVE Unconfirmed'
    <3>1. /\ start[i] \in {"flying", "late"} /\ UNCHANGED <<delivery, pc, captured>>
          /\ receipt' = [receipt EXCEPT ![i] = "started"] \/ receipt' = receipt
      BY <2>2 DEF HandleStart
    <3>2. \A j \in Items : j # i => receipt'[j] = receipt[j]
      BY <1>1, <3>1
    <3> QED BY <1>1, <3>1, <3>2, AskedIsConfirmed DEF Unconfirmed
  <2> QED BY <1>4, <2>1, <2>2 DEF Rpc
<1>5. CASE Wakes \/ Rests \/ Holds \/ Waits \/ Refused \/ FindsArchived \/ StartRefused \/ Ends \/ AgentTakes
           \/ (\E batch \in Batches : Discovers(batch)) \/ Crash
  <2>1. UNCHANGED <<delivery, receipt>> /\ (pc' # "steer" \/ UNCHANGED <<pc, captured>>)
    BY <1>5 DEF Wakes, Rests, Holds, Waits, Refused, FindsArchived, StartRefused, Ends, AgentTakes, Discovers,
                Crash, Returns
  <2> QED BY <2>1, UnconfirmedKept
<1>6. CASE Turns \/ OtherStarts \/ ToolCompleted \/ Archive \/ UserRecovers
  <2>1. UNCHANGED <<delivery, receipt, pc, captured>>
    BY <1>6 DEF Turns, TurnRuns, TurnEnds, OtherStarts, ToolCompleted, Archive, UserRecovers, Same
  <2> QED BY <2>1, UnconfirmedKept
<1>7. CASE FindsDelivered
  <2>1. /\ pc' = "loop" /\ UNCHANGED receipt
        /\ delivery' = [i \in Items |-> IF i \in {Head1.id} THEN "delivered" ELSE delivery[i]]
    BY <1>7 DEF FindsDelivered, Ready, Looks, Complete
  <2> QED BY <2>1 DEF Unconfirmed
<1>8. ASSUME NEW batch \in Batches, Steers(batch) PROVE Unconfirmed'
  <2>1. /\ captured' = batch /\ pc' = "steer" /\ rec.queue # <<>>
        /\ delivery' = [i \in Items |-> IF i \in Ids(batch) THEN "submitting" ELSE delivery[i]]
        /\ receipt' = [i \in Items |-> IF i \in Ids(batch) THEN "pending" ELSE receipt[i]]
    BY <1>8 DEF Steers, Goes, Ready
  <2>2. Ids(batch) \subseteq Items
    BY <2>1, BatchFacts DEF OutboxInv
  <2>3. \A i \in Items : delivery'[i] = "uncertain" => receipt'[i] = "pending"
    BY <2>1 DEF Unconfirmed
  <2>4. \A i \in Ids(captured') : receipt'[i] = "pending"
    BY <2>1, <2>2
  <2> QED BY <2>3, <2>4 DEF Unconfirmed
<1>9. CASE SteerPublished \/ SteerDeclined \/ SteerFailed
  <2>1. /\ pc = "steer" /\ pc' # "steer"
        /\ \A i \in Items \ Ids(captured) : delivery'[i] = delivery[i] /\ receipt'[i] = receipt[i]
        /\ \A i \in Ids(captured) : delivery'[i] = "uncertain" => receipt'[i] = "pending"
    <3>1. CASE SteerPublished
      BY <1>1, <1>2, <3>1 DEF SteerPublished
    <3>2. CASE SteerDeclined
      BY <1>1, <3>2 DEF SteerDeclined, Returns
    <3>3. CASE SteerFailed
      BY <1>1, <1>2, <3>3 DEF SteerFailed, Returns
    <3> QED BY <1>9, <3>1, <3>2, <3>3
  <2> QED BY <2>1 DEF Unconfirmed
<1>10. CASE SteerCompleted \/ Starts
  <2>1. /\ pc' = "loop"
        /\ delivery' = [i \in Items |-> IF i \in Ids(captured) THEN "delivered" ELSE delivery[i]]
        /\ \/ receipt' = receipt
           \/ receipt' = [i \in Items |-> IF i \in Ids(captured) THEN "started" ELSE receipt[i]]
    BY <1>10 DEF SteerCompleted, Starts, Complete
  <2> QED BY <2>1 DEF Unconfirmed
<1>11. CASE StartUp
  <2>1. delivery' = [i \in Items |-> Settled(i)] /\ UNCHANGED <<receipt, pc>> /\ ~ up
    BY <1>11 DEF StartUp
  <2>2. pc = "idle"
    BY <2>1 DEF OutboxInv, Placed
  <2>3. \A i \in Items : Settled(i) = "uncertain" => receipt[i] = "pending"
    BY DEF Settled, Unconfirmed
  <2> QED BY <2>1, <2>2, <2>3 DEF Unconfirmed
<1> QED BY <1>3, <1>4, <1>5, <1>6, <1>7, <1>8, <1>9, <1>10, <1>11 DEF QueueNext, Pump

\* Nothing the pump holds is unconfirmed, unless another was put ahead of it.
LEMMA CapturedIsConfirmed ==
  ASSUME OutboxInv, NEW i \in Ids(captured) \ overtaken
  PROVE  delivery[i] # "uncertain"
<1>1. captured # <<>>
  BY EmptyQueue
<1> QED BY <1>1 DEF OutboxInv, Placed, Reach, Submitting, Steering

LEMMA ReviewedStep ==
  OutboxInv /\ Unconfirmed /\ [QueueNext]_queueVars =>
    [\A i \in Items \ overtaken :
       delivery[i] = "uncertain" => delivery'[i] = "uncertain" /\ handed'[i] = handed[i]]_queueVars
<1> SUFFICES ASSUME OutboxInv, Unconfirmed, [QueueNext]_queueVars,
                    NEW i \in Items \ overtaken, delivery[i] = "uncertain"
             PROVE  delivery'[i] = "uncertain" /\ handed'[i] = handed[i]
  OBVIOUS
<1> USE DEF device, journal, memory
<1>1. i \notin Ids(captured) /\ receipt[i] = "pending" /\ start[i] \notin {"flying", "late"}
  BY CapturedIsConfirmed, AskedIsConfirmed DEF Unconfirmed
<1>2. handed'[i] = handed[i]
  BY <1>1, HandsWhat
<1>3. ASSUME NEW ids, delivery' = [j \in Items |-> IF j \in ids THEN "delivered" ELSE delivery[j]], i \notin ids
      PROVE  delivery'[i] = "uncertain"
  BY <1>3
<1>4. CASE queueVars' = queueVars \/ Ui \/ Rpc
  <2>1. delivery' = delivery
    BY <1>4 DEF queueVars, Ui, Type, Send, GivesUp, Removes, Retry, Hears, Disconnect, Reconnect, Edits,
                Rpc, Put, HandleStart
  <2> QED BY <1>2, <2>1
<1>5. CASE Wakes \/ Rests \/ Holds \/ Waits \/ Refused \/ FindsArchived \/ StartRefused \/ Ends \/ AgentTakes
           \/ SteerPublished \/ (\E batch \in Batches : Discovers(batch)) \/ Crash
  <2>1. delivery' = delivery
    BY <1>5 DEF Wakes, Rests, Holds, Waits, Refused, FindsArchived, StartRefused, Ends, AgentTakes,
                SteerPublished, Discovers, Crash
  <2> QED BY <1>2, <2>1
<1>6. CASE Turns \/ OtherStarts \/ ToolCompleted \/ Archive \/ UserRecovers
  <2>1. delivery' = delivery
    BY <1>6 DEF Turns, TurnRuns, TurnEnds, OtherStarts, ToolCompleted, Archive, UserRecovers, Same
  <2> QED BY <1>2, <2>1
<1>7. CASE FindsDelivered
  <2>1. Known(Head1) /\ delivery' = [j \in Items |-> IF j \in {Head1.id} THEN "delivered" ELSE delivery[j]]
    BY <1>7 DEF FindsDelivered, Complete
  <2>2. i # Head1.id
    BY <1>1, <2>1 DEF Known
  <2> QED BY <1>2, <2>1, <2>2
<1>8. ASSUME NEW batch \in Batches, Steers(batch) PROVE delivery'[i] = "uncertain"
  <2>1. Goes /\ delivery' = [j \in Items |-> IF j \in Ids(batch) THEN "submitting" ELSE delivery[j]]
    BY <1>8 DEF Steers
  <2>2. Ids(batch) \subseteq Ids(rec.queue)
    BY <2>1, GoesClear, BatchFacts DEF OutboxInv
  <2>3. i \notin Ids(batch)
    BY <2>1, <2>2, GoesClear
  <2> QED BY <2>1, <2>3
<1>9. CASE SteerDeclined \/ SteerFailed \/ SteerCompleted \/ Starts
  <2>1. \E s \in {"none", "uncertain", "delivered"} :
          delivery' = [j \in Items |-> IF j \in Ids(captured) THEN s ELSE delivery[j]]
    BY <1>9 DEF SteerDeclined, SteerFailed, SteerCompleted, Starts, Complete
  <2> QED BY <1>1, <1>2, <2>1
<1>10. CASE StartUp
  BY <1>2, <1>10 DEF StartUp, Settled
<1> QED BY <1>2, <1>4, <1>5, <1>6, <1>7, <1>8, <1>9, <1>10 DEF QueueNext, Pump

\* Composer.start, composer.ts #pump: an unconfirmed delivery is never retried
\* and never taken for a confirmed one, as long as nothing was put ahead of the
\* input while it was handed over.
THEOREM ReviewedFirstAlways == QueueSpec => ReviewedFirst
<1>1. QueueInit => Unconfirmed
  BY DEF QueueInit, Unconfirmed
<1> QED BY <1>1, OutboxInductive, OutboxInit, UnconfirmedStep, ReviewedStep, PTL DEF QueueSpec, ReviewedFirst
=============================================================================
