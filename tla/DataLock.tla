------------------------------ MODULE DataLock ------------------------------
(***************************************************************************)
(* What data-lock.ts promises of a data directory: one core on it at a     *)
(* time ("One core per data directory, taken before the journal is         *)
(* opened").                                                               *)
(***************************************************************************)
CONSTANT Procs

VARIABLE holders    \* the processes that were told the directory is theirs

Init == holders = {}

Take(p)  == holders = {} /\ holders' = {p}
Leave(p) == holders = {p} /\ holders' = {}

Next == \E p \in Procs : Take(p) \/ Leave(p)
Spec == Init /\ [][Next]_holders
=============================================================================
