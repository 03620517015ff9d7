----------------------------- MODULE TurnLedger -----------------------------
(***************************************************************************)
(* What the turns table of the journal promises, whatever process reads or *)
(* writes it and however often the core stops: a thread has at most one    *)
(* turn that is not closed, a turn begins to run at most once, and a       *)
(* closed turn is closed for good.  TurnLifecycle implements this module.  *)
(***************************************************************************)
CONSTANTS
  Turns,
  Home       \* the thread of each turn

VARIABLE stage      \* how far each turn got

Open(t) == stage[t] \in {"queued", "running"}

LedgerTypeOK == stage \in [Turns -> {"none", "queued", "running", "closed"}]

OneOpenTurn ==
  \A t, u \in Turns : Open(t) /\ Open(u) /\ Home[t] = Home[u] => t = u

-----------------------------------------------------------------------------
Init == stage = [t \in Turns |-> "none"]

\* A prompt, a wake or a continuation is admitted on a thread with no open turn.
Accept(t) ==
  /\ stage[t] = "none"
  /\ \A u \in Turns : Home[u] = Home[t] => ~Open(u)
  /\ stage' = [stage EXCEPT ![t] = "queued"]

\* Its runner takes it.
Begin(t) ==
  /\ stage[t] = "queued"
  /\ stage' = [stage EXCEPT ![t] = "running"]

\* It ends: it was answered, stopped or failed, or a restarted core closed it.
Close(t) ==
  /\ Open(t)
  /\ stage' = [stage EXCEPT ![t] = "closed"]

Next == \E t \in Turns : Accept(t) \/ Begin(t) \/ Close(t)

Spec == Init /\ [][Next]_stage
=============================================================================
