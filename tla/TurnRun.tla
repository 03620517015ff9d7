------------------------------- MODULE TurnRun -------------------------------
(***************************************************************************)
(* What TurnLifecycle takes for granted of the runner of one turn: it      *)
(* prepares, it runs, it closes once, a Stop is heard until then, and a    *)
(* Stop that was heard decides what the turn came to.  TurnAttempts, the   *)
(* loop behind it, implements this where no capability has to be renewed   *)
(* between two attempts.                                                   *)
(***************************************************************************)

VARIABLES
  phase,    \* TurnLifecycle's phase of a runner: preparing, attempt, closing
  stopReq,  \* a Stop was heard
  result    \* what the turn came to

vars == <<phase, stopReq, result>>

Closed == {"done", "stopped", "error"}

Init == phase = "preparing" /\ stopReq = FALSE /\ result = "none"

Stop == phase # "closing" /\ stopReq' = TRUE /\ UNCHANGED <<phase, result>>

Attach == phase = "preparing" /\ ~stopReq /\ phase' = "attempt" /\ UNCHANGED <<stopReq, result>>

Closes(r) == phase' = "closing" /\ stopReq' = FALSE /\ result' = r

PreparationEnds == phase = "preparing" /\ Closes(IF stopReq THEN "stopped" ELSE "error")

AttemptEnds ==
  /\ phase = "attempt"
  /\ \E r \in IF stopReq THEN {"stopped"} ELSE Closed : Closes(r)

Next == Stop \/ Attach \/ PreparationEnds \/ AttemptEnds

Spec == Init /\ [][Next]_vars
=============================================================================
