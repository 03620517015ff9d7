---------------------------- MODULE GroupRoster ----------------------------
(***************************************************************************)
(* A group of machines keeps one roster, each member a whole copy of it    *)
(* (group.ts).  A member changes its own copy and offers it to the others; *)
(* who receives an offer merges it, keeps the result if it is readable,    *)
(* and answers with what it then holds.  A member that finds itself        *)
(* removed forgets the group.                                              *)
(*                                                                         *)
(* One group: a machine outside it holds NoGroup.  Offers are made at any  *)
(* tick: what a member agreed on last (#acked) and how long a silent one   *)
(* waits (SyncBackoff) only delay them, and a full round every twentieth   *)
(* tick offers whatever was agreed.  An expired invitation is one nobody   *)
(* comes with; a member keeps its latest one.                              *)
(***************************************************************************)
EXTENDS Rosters

CONSTANTS
  Members,    \* the machines of the group at the start
  Out,        \* those the founder may just have removed, which nobody heard yet
  Acts,       \* bound: which of AllActs happen
  MaxEvents,  \* bound: how many of them happen, together
  MaxRounds   \* bound: members with a round of offers out at once; each has one

\* What owners do, and the faults.
AllActs == {"invite", "remove", "leave", "home", "republish", "admit", "revoke", "lose", "crash"}

ASSUME GroupAssumption ==
  /\ Members \subseteq Core /\ IsFiniteSet(Members)
  /\ Founder \in Members /\ Out \subseteq Members \ {Founder}
  /\ Acts \subseteq AllActs
  /\ MaxEvents \in Nat /\ MaxRounds \in Nat

VARIABLES
  roster,     \* each machine's copy, persisted by commit
  card,       \* what each machine would say of itself: a name, addresses
  invite,     \* its invitation, and the machine that came with it
  leaving,    \* the epoch a leave under way began in, or 0
  wire,       \* requests and answers on the way
  eventsLeft

vars == <<roster, card, invite, leaving, wire, eventsLeft>>

NoGroup == [cores |-> [c \in {} |-> 0], devices |-> [d \in {} |-> 0],
            home |-> None, homeRev |-> 0]
NoInvite == [open |-> FALSE, joined |-> None]

In(m) == DOMAIN roster[m].cores # {}
Counts(m, c) == c \in Live(roster[m])
HasOthers(m) == Live(roster[m]) \ {m} # {}
Mutual(m, n) == m # n /\ Counts(m, n) /\ Counts(n, m)
EpochAt(m, c) == roster[m].cores[c].epoch

Message(kind, from, to, r) == [kind |-> kind, from |-> from, to |-> to, roster |-> r]
Replies == {"answer", "gone"}
Offering == {w.from : w \in {v \in wire : v.kind = "offer"}}
              \union {w.to : w \in {v \in wire : v.kind \in Replies}}

Act(kind) == kind \in Acts /\ eventsLeft > 0 /\ eventsLeft' = eventsLeft - 1

\* The founder let every other member in, one after the other, and all have heard.
Started(out) ==
  [cores |-> [c \in Members |->
     [epoch |-> 1, by |-> Founder, removed |-> c \in out, card |-> 0,
      rev |-> IF c \in out THEN Cardinality(Members) + 1
              ELSE Cardinality({x \in Members \ {Founder} : x <= c}) + 1]],
   devices |-> NoGroup.devices, home |-> None, homeRev |-> 0]

Init ==
  /\ \E out \in SUBSET Out :
       roster = [m \in Core |-> IF m = Founder THEN Started(out)
                                ELSE IF m \in Members THEN Started({}) ELSE NoGroup]
  /\ card = [m \in Core |-> 0]
  /\ invite = [m \in Core |-> NoInvite]
  /\ leaving = [m \in Core |-> 0]
  /\ wire = {} /\ eventsLeft = MaxEvents

(***************************************************************************)
(* What a copy becomes.                                                    *)
(***************************************************************************)

\* A mutant of Published: what others say of this machine is left as it is.
PublishedNever(m, r) == r

\* #publishSelf: a machine's entry is its own to rewrite, one revision up.
Published(m, r) ==
  IF r.cores[m].card = card[m] THEN r
  ELSE [r EXCEPT !.cores[m].card = card[m], !.cores[m].rev = Clock(r) + 1]

\* absorb: a result that could not be read back is not kept.
Absorbed(m, theirs) ==
  LET merged == Merge(roster[m], theirs)
  IN IF ~Readable(theirs) \/ ~Readable(merged) THEN roster[m]
     ELSE IF m \notin Live(merged) THEN NoGroup
     ELSE Published(m, merged)

Becomes(m, r) ==
  /\ roster' = [roster EXCEPT ![m] = r]
  /\ invite' = IF r = NoGroup THEN [invite EXCEPT ![m] = NoInvite] ELSE invite

(***************************************************************************)
(* What the owner of a member does.                                        *)
(***************************************************************************)

Invite(m) ==
  /\ In(m) /\ Act("invite")
  /\ invite' = [invite EXCEPT ![m] = [open |-> TRUE, joined |-> None]]
  /\ UNCHANGED <<roster, card, leaving, wire>>

Ended(entry, rev) == [entry EXCEPT !.removed = TRUE, !.rev = rev]

\* The devices the removed machine let in are signed for by the one that removes it.
Removed(m, c) ==
  LET r == HomeGone(roster[m], c)
      rev == Clock(r) + 1
  IN [r EXCEPT !.cores[c] = Ended(@, rev),
               !.devices = [d \in DOMAIN @ |->
                  IF @[d].removed \/ @[d].by # c THEN @[d] ELSE [@[d] EXCEPT !.by = m, !.rev = rev]]]

Remove(m, c) ==
  /\ In(m) /\ c # m /\ Counts(m, c) /\ Act("remove")
  /\ roster' = [roster EXCEPT ![m] = Removed(m, c)]
  /\ wire' = wire \union {Message("told", m, c, Removed(m, c))}
  /\ UNCHANGED <<card, invite, leaving>>

Farewell(m) ==
  LET r == HomeGone(roster[m], m)
  IN [r EXCEPT !.cores[m] = Ended(@, Clock(roster[m]) + 1)]

\* leave: the others are told first, as long as they answer within six seconds.
Leave(m) ==
  /\ In(m) /\ leaving[m] = 0 /\ Act("leave")
  /\ leaving' = [leaving EXCEPT ![m] = EpochAt(m, m)]
  /\ wire' = wire \union {Message("told", m, n, Farewell(m)) : n \in Live(roster[m]) \ {m}}
  /\ UNCHANGED <<roster, card, invite>>

FinishLeave(m) ==
  /\ leaving[m] # 0
  /\ leaving' = [leaving EXCEPT ![m] = 0]
  /\ Becomes(m, NoGroup)
  /\ UNCHANGED <<card, wire, eventsLeft>>

SettingsHome(m, c) ==
  /\ In(m) /\ c \in Live(roster[m]) \union {None} /\ c # roster[m].home /\ Act("home")
  /\ roster' = [roster EXCEPT ![m].home = c, ![m].homeRev = @ + 1]
  /\ UNCHANGED <<card, invite, leaving, wire>>

\* A name or an address changed.
Republish(m) ==
  /\ Act("republish")
  /\ card' = [card EXCEPT ![m] = @ + 1]
  /\ roster' = IF ~In(m) THEN roster
               ELSE [roster EXCEPT ![m].cores[m].card = card[m] + 1,
                                   ![m].cores[m].rev = Clock(roster[m]) + 1]
  /\ UNCHANGED <<invite, leaving, wire>>

DeviceEntry(m, removed, by) ==
  [epoch |-> 1, by |-> by, rev |-> Clock(roster[m]) + 1, removed |-> removed, card |-> 0]

WithDevice(m, d, entry) ==
  roster' = [roster EXCEPT ![m].devices =
    [x \in DOMAIN roster[m].devices \union {d} |-> IF x = d THEN entry ELSE roster[m].devices[x]]]

\* #admitKey: a revoked key never comes back, a live one is left alone.
AdmitDevice(m, d) ==
  /\ In(m) /\ d \notin LiveDevices(roster[m])
  /\ d \in DOMAIN roster[m].devices => ~roster[m].devices[d].removed
  /\ Act("admit")
  /\ WithDevice(m, d, DeviceEntry(m, FALSE, m))
  /\ UNCHANGED <<card, invite, leaving, wire>>

RevokeDevice(m, d) ==
  /\ In(m) /\ d \in DOMAIN roster[m].devices /\ ~roster[m].devices[d].removed /\ Act("revoke")
  /\ WithDevice(m, d, DeviceEntry(m, TRUE, roster[m].devices[d].by))
  /\ UNCHANGED <<card, invite, leaving, wire>>

(***************************************************************************)
(* Joining.                                                                *)
(***************************************************************************)

\* #admitCore: a new epoch, signed by this member.
Let(n, j) ==
  LET known == roster[n].cores
      epoch == IF j \in DOMAIN known THEN known[j].epoch + 1 ELSE 1
      entry == [epoch |-> epoch, by |-> n, rev |-> Clock(roster[n]) + 1,
                removed |-> FALSE, card |-> card[j]]
  IN [roster[n] EXCEPT !.cores =
        [c \in DOMAIN known \union {j} |-> IF c = j THEN entry ELSE known[c]]]

\* A machine outside the group comes with the invitation.
Admit(n, j) ==
  /\ In(n) /\ j # n /\ ~In(j) /\ invite[n].open /\ invite[n].joined = None
  /\ roster' = [roster EXCEPT ![n] = Let(n, j)]
  /\ invite' = [invite EXCEPT ![n].joined = j]
  /\ wire' = wire \union {Message("welcome", n, j, Let(n, j))}
  /\ UNCHANGED <<card, leaving, eventsLeft>>

\* It asks again after a lost answer, unless it was removed since.
Welcome(n, j) ==
  /\ ~In(j) /\ invite[n].joined = j /\ Counts(n, j)
  /\ ~\E w \in wire : w.kind = "welcome" /\ w.to = j
  /\ wire' = wire \union {Message("welcome", n, j, roster[n])}
  /\ UNCHANGED <<roster, card, invite, leaving, eventsLeft>>

\* The reply is taken whole, unless the machine entered another way meanwhile.
Enter(w) ==
  /\ w.kind = "welcome"
  /\ wire' = wire \ {w}
  /\ roster' = IF In(w.to) THEN roster ELSE [roster EXCEPT ![w.to] = Published(w.to, w.roster)]
  /\ UNCHANGED <<card, invite, leaving, eventsLeft>>

(***************************************************************************)
(* The exchange.                                                           *)
(***************************************************************************)

\* syncPending: every other member is offered the roster as it is now.
Round(m) ==
  /\ HasOthers(m)
  /\ m \notin Offering /\ Cardinality(Offering) < MaxRounds
  /\ wire' = wire \union {Message("offer", m, n, roster[m]) : n \in Live(roster[m]) \ {m}}
  /\ UNCHANGED <<roster, card, invite, leaving, eventsLeft>>

\* Nobody reads the answer to what leave and remove send.
Answer(w, kind, r) ==
  wire' = (wire \ {w}) \union
          (IF w.kind = "offer" THEN {Message(kind, w.to, w.from, r)} ELSE {})

ReceiveFromMember(w) ==
  /\ Counts(w.to, w.from)
  /\ LET next == Absorbed(w.to, w.roster)
     IN /\ Becomes(w.to, next)
        /\ Answer(w, "answer", next)

\* A mutant of ReceiveFromRemoved: such a machine gets no answer.
ReceiveSilently(w) ==
  /\ w.from \in DOMAIN roster[w.to].cores /\ ~Counts(w.to, w.from)
  /\ wire' = wire \ {w}
  /\ UNCHANGED <<roster, invite>>

\* A machine this one holds removed is told so, whatever it says.
ReceiveFromRemoved(w) ==
  /\ w.from \in DOMAIN roster[w.to].cores /\ ~Counts(w.to, w.from)
  /\ Answer(w, "gone", NoGroup)
  /\ UNCHANGED <<roster, invite>>

\* Outside the group, or not heard of yet: the request fails.
ReceiveFromStranger(w) ==
  /\ w.from \notin DOMAIN roster[w.to].cores
  /\ wire' = wire \ {w}
  /\ UNCHANGED <<roster, invite>>

Receive(w) ==
  /\ w.kind \in {"offer", "told"}
  /\ ReceiveFromMember(w) \/ ReceiveFromRemoved(w) \/ ReceiveFromStranger(w)
  /\ UNCHANGED <<card, leaving, eventsLeft>>

\* stillMember: an answer counts only from a machine that is one when it arrives.
Hear(w) ==
  /\ w.kind \in Replies
  /\ wire' = wire \ {w}
  /\ Becomes(w.to, CASE ~Counts(w.to, w.from) -> roster[w.to]
                     [] Counts(w.to, w.from) /\ w.kind = "gone" -> NoGroup
                     [] OTHER -> Absorbed(w.to, w.roster))
  /\ UNCHANGED <<card, leaving, eventsLeft>>

(***************************************************************************)
(* Faults.                                                                 *)
(***************************************************************************)

Lose(w) ==
  /\ Act("lose")
  /\ wire' = wire \ {w}
  /\ UNCHANGED <<roster, card, invite, leaving>>

\* The copy of the roster is in the journal, the rest was in memory.
Crash(m) ==
  /\ Act("crash")
  /\ invite[m] # NoInvite \/ leaving[m] # 0
  /\ invite' = [invite EXCEPT ![m] = NoInvite]
  /\ leaving' = [leaving EXCEPT ![m] = 0]
  /\ wire' = {w \in wire : w.to # m \/ w.kind \in {"offer", "told"}}
  /\ UNCHANGED <<roster, card>>

Owner ==
  \E m \in Core :
    \/ Invite(m) \/ Leave(m) \/ Republish(m)
    \/ \E c \in Core : Remove(m, c)
    \/ \E c \in Core \union {None} : SettingsHome(m, c)
    \/ \E d \in Device : AdmitDevice(m, d) \/ RevokeDevice(m, d)

Next ==
  \/ Owner
  \/ \E m \in Core : FinishLeave(m) \/ Crash(m) \/ Round(m)
  \/ \E m, n \in Core : Admit(m, n) \/ Welcome(m, n)
  \/ \E w \in wire : Receive(w) \/ Hear(w) \/ Enter(w) \/ Lose(w)

\* What arrives is handled, unless it is lost: weak fairness of Receive, Hear and
\* Enter together, one of which can always take a message.
Handled == \E w \in wire : w \notin wire' /\ eventsLeft' = eventsLeft

\* Every tick of a member that has others offers them its roster: weak fairness
\* of Round, with the bounded room left out of what enables it.
Fairness ==
  /\ \A m \in Core : []<>~HasOthers(m) \/ []<><<Round(m)>>_vars
  /\ \A m \in Core : WF_vars(FinishLeave(m))
  /\ []<>(wire = {}) \/ []<><<Handled>>_vars

Safe == Init /\ [][Next]_vars
Spec == Safe /\ Fairness

(***************************************************************************)
(* Correctness.                                                            *)
(***************************************************************************)

TypeOK ==
  /\ DOMAIN roster = Core /\ \A m \in Core : IsRoster(roster[m])
  /\ card \in [Core -> Nat]
  /\ invite \in [Core -> [open : BOOLEAN, joined : Core \union {None}]]
  /\ leaving \in [Core -> Nat]
  /\ \A w \in wire :
       /\ w.kind \in Replies \union {"offer", "told", "welcome"}
       /\ w.from \in Core /\ w.to \in Core /\ IsRoster(w.roster)
  /\ eventsLeft \in 0..MaxEvents

\* A roster a member can hold: readable, with itself in it, and no home but a
\* machine of the group.
Settled(m, r) == Readable(r) /\ m \in Live(r) /\ r.home \in Live(r) \union {None}

\* What a member holds is such a roster, and has what it says of itself now:
\* whatever was merged, adopted or cleared on the way (absorb, #publishSelf, homeGone).
HoldsItself ==
  \A m \in Core : In(m) => Settled(m, roster[m]) /\ roster[m].cores[m].card = card[m]

\* So is what a machine that comes in is given.
Welcomes == \A w \in wire : w.kind = "welcome" => Settled(w.to, w.roster)

\* What HoldsItself, RemovalStands and Grounded rest on.
IInv == TypeOK /\ HoldsItself /\ Welcomes

\* A removal stands (roster.ts:8): while a member stays in the group, no entry
\* is dropped or goes back to an earlier epoch, a machine removed in an epoch
\* never counts in it again, and a revoked device never counts again.
Stands(old, new) ==
  /\ \A c \in DOMAIN old.cores :
       /\ c \in DOMAIN new.cores /\ new.cores[c].epoch >= old.cores[c].epoch
       /\ new.cores[c].epoch = old.cores[c].epoch /\ old.cores[c].removed => new.cores[c].removed
  /\ \A d \in DOMAIN old.devices :
       d \in DOMAIN new.devices /\ (old.devices[d].removed => new.devices[d].removed)
RemovalStands ==
  [][\A m \in Core : In(m) /\ In(m)' => Stands(roster[m], roster'[m])]_vars

\* Nobody writes itself in (roster.ts:9): the machines a member starts to count
\* at once, or counts in a new epoch, are signed in by machines it counted
\* before, or by each other in an order that starts from those: no set of them
\* vouches for itself.
Grounded ==
  [][\A m \in Core : In(m) /\ In(m)' =>
       LET new == {c \in Live(roster[m])' : Counts(m, c) => EpochAt(m, c)' > EpochAt(m, c)}
       IN \A S \in (SUBSET new) \ {{}} :
            \E c \in S : roster'[m].cores[c].by \in Live(roster[m]) \union (new \ S)]_vars

\* A machine removed by a member it still counts.
Untold(m, c) ==
  /\ c \in DOMAIN roster[m].cores /\ ~Counts(m, c)
  /\ Counts(c, m) /\ EpochAt(m, c) >= EpochAt(c, c)

\* A member counts a machine that another, with which it exchanges, holds removed.
Behind(n, m) ==
  /\ Mutual(m, n)
  /\ \E c \in DOMAIN roster[m].cores :
       ~Counts(m, c) /\ Counts(n, c) /\ EpochAt(m, c) >= EpochAt(n, c)
Refuses(n, m) == ~Readable(Merge(roster[n], roster[m]))

\* Once owners, crashes and losses have ended, every machine removed by a member
\* it counts has learned it and left (group.ts:544), and every removal has reached
\* the members that exchange with one that holds it, but for a member that
\* cannot keep the merge of the two rosters.
RemovalsSettle ==
  <>[](\A m, n \in Core : ~Untold(m, n) /\ (Behind(n, m) => Refuses(n, m)))

\* No member refuses what another holds (docs/groups.md: one round trip leaves
\* both equal).
NoneRefused == \A m, n \in Core : Mutual(m, n) => ~Refuses(n, m)

\* A home that leaves stops being one for good (roster.ts:389): a machine that
\* comes back, in a later epoch, is not the default it was.
HomeGoneForGood ==
  [][\A m, c \in Core : /\ In(m) /\ In(m)'
                        /\ c \in DOMAIN roster[m].cores /\ EpochAt(m, c)' > EpochAt(m, c)
                        => roster'[m].home # c]_vars

\* A machine forgets the group when its owner leaves, in the membership it
\* left, or when a member holds it removed from the one it has.
LeavesForCause ==
  [][\A m \in Core : In(m) /\ ~In(m)' =>
       \/ leaving[m] = EpochAt(m, m)
       \/ \E n \in Core : /\ m \in DOMAIN roster[n].cores /\ ~Counts(n, m)
                          /\ EpochAt(n, m) >= EpochAt(m, m)
       \/ \E w \in wire : /\ w.to = m /\ m \in DOMAIN w.roster.cores
                          /\ w.roster.cores[m].removed
                          /\ w.roster.cores[m].epoch >= EpochAt(m, m)]_vars
=============================================================================
