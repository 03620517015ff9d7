-------------------------- MODULE MCTurnLifecycle --------------------------
(* Instances of TurnLifecycle small enough to be explored whole.           *)
EXTENDS TurnLifecycle

CONSTANTS a, b

\* One thread and two admissions; two threads with one each; one thread and three.
HomeSmall == [t \in 1..2 |-> a]
HomePair == [t \in 1..2 |-> IF t = 1 THEN a ELSE b]
HomeOne == [t \in 1..3 |-> a]
=============================================================================
