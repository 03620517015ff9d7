------------------------------ MODULE Rosters ------------------------------
(***************************************************************************)
(* The roster of a group of machines as a value (group/roster.ts, group/   *)
(* device-keys.ts): what it says, how two of them merge, and when one is   *)
(* readable.                                                               *)
(*                                                                         *)
(* A machine's id is a number, since ids are compared; 0 stands for no     *)
(* machine.  An entry says under which epoch it stands, who signed for     *)
(* it, its revision, whether it is a tombstone, and `card', what the       *)
(* machine says of itself.  A device's entry has the same fields, with one *)
(* epoch for ever.  Signatures are genuine: an entry's `by' did sign it.   *)
(* The group's name converges by the rule of the settings home, the served *)
(* origins by that of a machine's revisions: neither is repeated here.     *)
(***************************************************************************)
EXTENDS Naturals, FiniteSets

CONSTANTS
  Core,     \* machines
  Device,   \* devices with a key of their own
  Founder   \* the machine that started the group

ASSUME RosterAssumption == Core \subseteq Nat \ {0} /\ Founder \in Core

None == 0

Entry == [epoch : Nat \ {0}, by : Core, rev : Nat, removed : BOOLEAN, card : Nat]
IsRoster(r) ==
  /\ DOMAIN r.cores \subseteq Core /\ IsFiniteSet(DOMAIN r.cores)
  /\ DOMAIN r.devices \subseteq Device /\ IsFiniteSet(DOMAIN r.devices)
  /\ r \in [cores : [DOMAIN r.cores -> Entry], devices : [DOMAIN r.devices -> Entry],
            home : Core \union {None}, homeRev : Nat]

Live(r) == {c \in DOMAIN r.cores : ~r.cores[c].removed}

\* A device counts while the member that signed for it is one.
LiveDevices(r) ==
  {d \in DOMAIN r.devices : ~r.devices[d].removed /\ r.devices[d].by \in Live(r)}

Revisions(r) == {0} \union {r.cores[c].rev : c \in DOMAIN r.cores}
                    \union {r.devices[d].rev : d \in DOMAIN r.devices}
Clock(r) == CHOOSE n \in Revisions(r) : \A m \in Revisions(r) : m <= n

\* A mutant of Wins: the later revision counts more than the removal.
WinsLatest(a, b) ==
  IF a.rev # b.rev THEN a.rev > b.rev
  ELSE a.card > b.card \/ (a.card = b.card /\ a.by > b.by)

\* Inside one epoch: the removal, then the later revision, then a fixed order.
Wins(a, b) ==
  IF a.removed # b.removed THEN a.removed
  ELSE IF a.rev # b.rev THEN a.rev > b.rev
  ELSE a.card > b.card \/ (a.card = b.card /\ a.by > b.by)

(***************************************************************************)
(* The merge.                                                              *)
(***************************************************************************)

Later(local, remote) ==
  {c \in DOMAIN remote : c \in DOMAIN local => remote[c].epoch > local[c].epoch}

\* A mutant of Accepted: the machines the other roster counts may sign as well.
AcceptedTheirs(local, remote) ==
  {c \in Later(local, remote) :
     \/ remote[c].removed
     \/ /\ remote[c].by \in DOMAIN remote
        /\ ~remote[remote[c].by].removed}

\* A later epoch is taken when it has ended already, or when a machine counted
\* before the merge, or one that was taken before, signed it.
Vouched(local, remote, taken) ==
  {c \in Later(local, remote) :
     \/ remote[c].removed
     \/ remote[c].by \in {m \in DOMAIN local : ~local[m].removed}
     \/ remote[c].by \in taken /\ ~remote[remote[c].by].removed}

\* The rounds of mergeCores, which end when one adds nothing.
Rounds(local, remote) ==
  LET round[n \in Nat] == IF n = 0 THEN {} ELSE Vouched(local, remote, round[n - 1])
  IN round
Accepted(local, remote) == Rounds(local, remote)[Cardinality(Later(local, remote))]

MergeCores(local, remote) ==
  LET accepted == Accepted(local, remote)
      replaced == {c \in DOMAIN local \intersect DOMAIN remote :
                     remote[c].epoch = local[c].epoch /\ Wins(remote[c], local[c])}
  IN [c \in DOMAIN local \union accepted |->
        IF c \in accepted \union replaced THEN remote[c] ELSE local[c]]

MergeDevices(local, remote) ==
  [d \in DOMAIN local \union DOMAIN remote |->
     IF \/ d \notin DOMAIN local
        \/ d \in DOMAIN remote /\ Wins(remote[d], local[d])
     THEN remote[d] ELSE local[d]]

\* A settings home that leaves is cleared, at a revision that outranks the choice.
HomeGone(r, c) ==
  IF r.home = c THEN [r EXCEPT !.home = None, !.homeRev = @ + 1] ELSE r

Merge(local, remote) ==
  LET theirs == \/ remote.homeRev > local.homeRev
                \/ remote.homeRev = local.homeRev /\ remote.home > local.home
      merged == [cores |-> MergeCores(local.cores, remote.cores),
                 devices |-> MergeDevices(local.devices, remote.devices),
                 home |-> IF theirs THEN remote.home ELSE local.home,
                 homeRev |-> IF theirs THEN remote.homeRev ELSE local.homeRev]
  IN IF merged.home # None /\ merged.home \notin Live(merged)
     THEN HomeGone(merged, merged.home) ELSE merged

\* checkRoster: whoever counts was signed in by a machine the roster lists.
Readable(r) ==
  /\ DOMAIN r.cores # {}
  /\ \A c \in Live(r) :
       /\ r.cores[c].by \in DOMAIN r.cores
       /\ r.cores[c].by = c => c = Founder /\ r.cores[c].epoch = 1
  /\ \A d \in DOMAIN r.devices :
       ~r.devices[d].removed => r.devices[d].by \in DOMAIN r.cores
=============================================================================
