-------------------------- MODULE GroupRoster_proofs --------------------------
(***************************************************************************)
(* Proofs about GroupRoster, for any machines, devices and members, any    *)
(* number of changes, exchanges, losses and deaths: a removal stands, and  *)
(* nobody writes itself in.                                                *)
(*                                                                         *)
(* First what a merge makes of two rosters, which needs facts about least  *)
(* numbers and about the rounds mergeCores goes through; then what each    *)
(* change a member makes to its own copy does to it; then that a step      *)
(* leaves each copy kept, cleared, changed in one of these ways, or        *)
(* entered from a welcome.                                                 *)
(***************************************************************************)
EXTENDS GroupRoster, FiniteSetTheorems, WellFoundedInduction, TLAPS

-----------------------------------------------------------------------------
(* Numbers.                                                                *)

\* A set of numbers has a least one.
LEMMA Least ==
  ASSUME NEW T, T \subseteq Nat, T # {}
  PROVE  \E k \in T : \A j \in T : k <= j
<1> DEFINE R == OpToRel(<, Nat)
<1>1. IsWellFoundedOn(R, Nat)
  BY NatLessThanWellFounded
<1>2. PICK k \in T : \A j \in T : ~ (<<j, k>> \in R)
  <2> HIDE DEF R
  <2>1. QED
    BY <1>1, WFMin
<1>3. R = {ss \in Nat \X Nat : ss[1] < ss[2]}
  BY Zenon DEF OpToRel
<1>4. ASSUME NEW j \in T
      PROVE  k <= j
  <2> HIDE DEF R
  <2>1. j < k => <<j, k>> \in R
    BY <1>3
  <2>2. QED
    BY <1>2, <2>1
<1>5. QED
  BY <1>4

\* Induction over the numbers, for the members of a set.
LEMMA Induct ==
  ASSUME NEW T, 0 \in T, \A n \in Nat : n \in T => n + 1 \in T
  PROVE  Nat \subseteq T
<1> SUFFICES ASSUME NEW x \in Nat, x \notin T
             PROVE  FALSE
  OBVIOUS
<1> DEFINE U == {n \in Nat : n \notin T}
<1>1. PICK k \in U : \A j \in U : k <= j
  <2>1. x \in U /\ U \subseteq Nat
    OBVIOUS
  <2> HIDE DEF U
  <2>2. QED
    BY <2>1, Least
<1>2. k # 0
  OBVIOUS
<1>3. k - 1 \in Nat /\ k - 1 \notin U
  BY <1>1, <1>2
<1>4. QED
  BY <1>3

\* A finite set of numbers has a greatest one.
LEMMA Greatest ==
  ASSUME NEW S, S \subseteq Nat, IsFiniteSet(S), S # {}
  PROVE  \E n \in S : \A m \in S : m <= n
<1> DEFINE N == Cardinality(S)
<1>1. N \in Nat /\ ExistsBijection(1..N, S)
  BY FS_CardinalityType
<1>2. PICK f \in [1..N -> S] : \A s \in S : \E i \in 1..N : f[i] = s
  <2> HIDE DEF N
  <2>1. QED
    BY <1>1 DEF ExistsBijection, Bijection, Surjection, Injection
<1> DEFINE T == {k \in Nat : k <= N => \E b \in Nat : \A i \in 1..k : f[i] <= b}
<1> HIDE DEF N
<1>3. 0 \in T
  <2>1. \A i \in 1..0 : f[i] <= 0
    OBVIOUS
  <2>2. QED
    BY <2>1
<1>4. ASSUME NEW k \in Nat, k \in T
      PROVE  k + 1 \in T
  <2> SUFFICES ASSUME k + 1 <= N
               PROVE  \E b \in Nat : \A i \in 1..k + 1 : f[i] <= b
    OBVIOUS
  <2>1. PICK b \in Nat : \A i \in 1..k : f[i] <= b
    BY <1>1, <1>4
  <2>2. f[k + 1] \in S /\ f[k + 1] \in Nat
    <3>1. k + 1 \in 1..N
      BY <1>1
    <3>2. QED
      BY <1>2, <3>1
  <2>3. PICK d \in Nat : b <= d /\ f[k + 1] <= d
    BY <2>2
  <2>4. ASSUME NEW i \in 1..k + 1
        PROVE  f[i] <= d
    <3>1. f[i] \in S /\ f[i] \in Nat
      <4>1. i \in 1..N
        BY <1>1
      <4>2. QED
        BY <1>2, <4>1
    <3>2. i = k + 1 \/ i \in 1..k
      OBVIOUS
    <3>3. QED
      BY <2>1, <2>2, <2>3, <3>1, <3>2
  <2>5. QED
    BY <2>4
<1>5. PICK b \in Nat : \A s \in S : s <= b
  <2>1. N \in T
    <3> HIDE DEF T
    <3>1. QED
      BY <1>1, <1>3, <1>4, Induct
  <2>2. PICK b \in Nat : \A i \in 1..N : f[i] <= b
    BY <1>1, <2>1
  <2>3. QED
    BY <1>2, <2>2
<1> DEFINE U == {n \in Nat : \A s \in S : s <= n}
<1>6. PICK n \in U : \A j \in U : n <= j
  <2>1. b \in U /\ U \subseteq Nat
    BY <1>5
  <2> HIDE DEF U
  <2>2. QED
    BY <2>1, Least
<1>7. n \in S
  <2> SUFFICES ASSUME n \notin S
               PROVE  FALSE
    OBVIOUS
  <2>1. PICK s \in S : TRUE
    OBVIOUS
  <2>2. s < n
    BY <1>6
  <2>3. n - 1 \in Nat /\ \A x \in S : x <= n - 1
    BY <1>6, <2>2
  <2>4. QED
    BY <1>6, <2>3
<1>8. QED
  BY <1>6, <1>7

-----------------------------------------------------------------------------
(* The rounds of a merge.                                                  *)

\* The functions that agree with the rounds up to the n-th.
NextRound(local, remote, f, n) == IF n = 0 THEN {} ELSE Vouched(local, remote, f[n - 1])
Upto(local, remote, n) ==
  {f \in [0..n -> SUBSET Later(local, remote)] :
     \A k \in 0..n : f[k] = NextRound(local, remote, f, k)}

LEMMA Agree ==
  ASSUME NEW local, NEW remote, NEW n \in Nat, NEW m \in Nat,
         NEW f \in Upto(local, remote, n), NEW g \in Upto(local, remote, m)
  PROVE  \A k \in 0..n : k <= m => f[k] = g[k]
<1> DEFINE T == {k \in Nat : k <= n /\ k <= m => f[k] = g[k]}
<1>1. 0 \in T
  <2>1. 0 \in 0..n /\ 0 \in 0..m
    OBVIOUS
  <2>2. f[0] = {} /\ g[0] = {}
    BY <2>1 DEF Upto, NextRound
  <2>3. QED
    BY <2>2
<1>2. ASSUME NEW k \in Nat, k \in T
      PROVE  k + 1 \in T
  <2> SUFFICES ASSUME k + 1 <= n, k + 1 <= m
               PROVE  f[k + 1] = g[k + 1]
    OBVIOUS
  <2>1. f[k] = g[k]
    BY <1>2
  <2>2. f[k + 1] = NextRound(local, remote, f, k + 1) /\ g[k + 1] = NextRound(local, remote, g, k + 1)
    BY DEF Upto
  <2>3. QED
    BY <2>1, <2>2 DEF NextRound
<1>3. Nat \subseteq T
  <2> HIDE DEF T
  <2>1. QED
    BY <1>1, <1>2, Induct
<1>4. QED
  BY <1>3

LEMMA SomeUpto ==
  ASSUME NEW local, NEW remote
  PROVE  \A n \in Nat : Upto(local, remote, n) # {}
<1> DEFINE T == {n \in Nat : Upto(local, remote, n) # {}}
<1>1. 0 \in T
  <2>1. [k \in 0..0 |-> {}] \in Upto(local, remote, 0)
    BY DEF Upto, NextRound
  <2>2. QED
    BY <2>1
<1>2. ASSUME NEW n \in Nat, n \in T
      PROVE  n + 1 \in T
  <2>1. PICK f \in Upto(local, remote, n) : TRUE
    BY <1>2
  <2> DEFINE g == [k \in 0..n + 1 |-> IF k = n + 1 THEN Vouched(local, remote, f[n]) ELSE f[k]]
  <2>2. g \in [0..n + 1 -> SUBSET Later(local, remote)]
    BY DEF Upto, Vouched
  <2>3. ASSUME NEW k \in 0..n + 1
        PROVE  g[k] = NextRound(local, remote, g, k)
    <3>1. CASE k = n + 1
      BY <3>1 DEF NextRound
    <3>2. CASE k # n + 1
      <4>1. g[k] = f[k] /\ (k # 0 => g[k - 1] = f[k - 1])
        BY <3>2
      <4>2. f[k] = NextRound(local, remote, f, k)
        BY <3>2 DEF Upto
      <4>3. QED
        BY <4>1, <4>2 DEF NextRound
    <3>3. QED
      BY <3>1, <3>2
  <2>4. g \in Upto(local, remote, n + 1)
    BY <2>2, <2>3 DEF Upto
  <2>5. QED
    BY <2>4
<1>3. Nat \subseteq T
  <2> HIDE DEF T
  <2>1. QED
    BY <1>1, <1>2, Induct
<1>4. QED
  BY <1>3

\* The recursive function is what it says.
LEMMA RoundsAre ==
  ASSUME NEW local, NEW remote
  PROVE  Rounds(local, remote) =
           [n \in Nat |-> IF n = 0 THEN {} ELSE Vouched(local, remote, Rounds(local, remote)[n - 1])]
<1> DEFINE some(n) == CHOOSE f \in Upto(local, remote, n) : TRUE
<1> DEFINE g == [n \in Nat |-> some(n)[n]]
<1>1. \A n \in Nat : some(n) \in Upto(local, remote, n)
  BY SomeUpto
<1>2. ASSUME NEW n \in Nat
      PROVE  g[n] = IF n = 0 THEN {} ELSE Vouched(local, remote, g[n - 1])
  <2>1. g[n] = NextRound(local, remote, some(n), n)
    <3>1. some(n) \in Upto(local, remote, n) /\ n \in 0..n
      BY <1>1
    <3> HIDE DEF some
    <3>2. some(n)[n] = NextRound(local, remote, some(n), n)
      BY <3>1 DEF Upto
    <3>3. QED
      BY <3>2
  <2>2. ASSUME n # 0
        PROVE  some(n)[n - 1] = g[n - 1]
    <3>1. n - 1 \in Nat /\ some(n) \in Upto(local, remote, n) /\ some(n - 1) \in Upto(local, remote, n - 1)
      BY <1>1, <2>2
    <3> HIDE DEF some
    <3>2. some(n)[n - 1] = some(n - 1)[n - 1]
      BY <3>1, Agree
    <3>3. QED
      BY <3>1, <3>2
  <2>3. QED
    BY <2>1, <2>2 DEF NextRound
<1>3. g = [n \in Nat |-> IF n = 0 THEN {} ELSE Vouched(local, remote, g[n - 1])]
  <2> HIDE DEF some
  <2>1. QED
    BY <1>2
<1>4. Rounds(local, remote) =
        CHOOSE h : h = [n \in Nat |-> IF n = 0 THEN {} ELSE Vouched(local, remote, h[n - 1])]
  BY DEF Rounds
<1>5. QED
  <2> HIDE DEF g
  <2>1. QED
    BY <1>3, <1>4

LEMMA RoundsGrow ==
  ASSUME NEW local, NEW remote, NEW k \in Nat, NEW n \in Nat, k <= n
  PROVE  Rounds(local, remote)[k] \subseteq Rounds(local, remote)[n]
<1> DEFINE R == Rounds(local, remote)
<1> DEFINE T == {i \in Nat : R[i] \subseteq R[i + 1]}
<1>1. R[0] = {} /\ \A i \in Nat : R[i + 1] = Vouched(local, remote, R[i])
  <2>1. R = [i \in Nat |-> IF i = 0 THEN {} ELSE Vouched(local, remote, R[i - 1])]
    BY RoundsAre
  <2> HIDE DEF R
  <2>2. \A i \in Nat : R[i] = IF i = 0 THEN {} ELSE Vouched(local, remote, R[i - 1])
    BY <2>1
  <2>3. QED
    BY <2>2
<1> HIDE DEF R
<1>2. Nat \subseteq T
  <2>1. 0 \in T
    BY <1>1
  <2>2. ASSUME NEW i \in Nat, i \in T
        PROVE  i + 1 \in T
    <3>1. R[i] \subseteq R[i + 1]
      BY <2>2
    <3>2. Vouched(local, remote, R[i]) \subseteq Vouched(local, remote, R[i + 1])
      BY <3>1 DEF Vouched
    <3>3. QED
      BY <1>1, <3>2
  <2> HIDE DEF T
  <2>3. QED
    BY <2>1, <2>2, Induct
<1> DEFINE U == {i \in Nat : R[k] \subseteq R[k + i]}
<1>3. Nat \subseteq U
  <2>1. 0 \in U
    OBVIOUS
  <2>2. ASSUME NEW i \in Nat, i \in U
        PROVE  i + 1 \in U
    <3>1. R[k] \subseteq R[k + i]
      BY <2>2
    <3>2. k + i \in T
      BY <1>2
    <3>3. R[k + i] \subseteq R[k + i + 1]
      BY <3>2
    <3>4. k + i + 1 = k + (i + 1)
      OBVIOUS
    <3>5. QED
      BY <3>1, <3>3, <3>4
  <2> HIDE DEF U
  <2>3. QED
    BY <2>1, <2>2, Induct
<1>4. n - k \in U /\ k + (n - k) = n
  BY <1>3
<1>5. QED
  BY <1>4 DEF R

\* What is taken came later, and starts from what was counted: in any set of
\* those taken there is one that another vouched for.
LEMMA AcceptedAre ==
  ASSUME NEW local, NEW remote, IsFiniteSet(DOMAIN remote)
  PROVE  /\ Accepted(local, remote) \subseteq Later(local, remote)
         /\ \A S \in SUBSET {c \in Accepted(local, remote) : ~remote[c].removed} : S # {} =>
              \E c \in S :
                \/ remote[c].by \in DOMAIN local /\ ~local[remote[c].by].removed
                \/ remote[c].by \in Accepted(local, remote) \ S /\ ~remote[remote[c].by].removed
<1> DEFINE R == Rounds(local, remote)
<1> DEFINE N == Cardinality(Later(local, remote))
<1>1. N \in Nat
  <2>1. Later(local, remote) \subseteq DOMAIN remote
    BY DEF Later
  <2>2. QED
    BY <2>1, FS_Subset, FS_CardinalityType
<1>2. Accepted(local, remote) = R[N]
  BY DEF Accepted
<1>3. \A n \in Nat : R[n] = IF n = 0 THEN {} ELSE Vouched(local, remote, R[n - 1])
  <2>1. R = [n \in Nat |-> IF n = 0 THEN {} ELSE Vouched(local, remote, R[n - 1])]
    BY RoundsAre
  <2> HIDE DEF R
  <2>2. QED
    BY <2>1
<1>4. \A k \in Nat, n \in Nat : k <= n => R[k] \subseteq R[n]
  BY RoundsGrow
<1> HIDE DEF R, N
<1>5. R[N] \subseteq Later(local, remote)
  BY <1>1, <1>3 DEF Vouched
<1>6. ASSUME NEW S \in SUBSET {c \in R[N] : ~remote[c].removed}, S # {}
      PROVE  \E c \in S :
               \/ remote[c].by \in DOMAIN local /\ ~local[remote[c].by].removed
               \/ remote[c].by \in R[N] \ S /\ ~remote[remote[c].by].removed
  <2> DEFINE U == {n \in Nat : \E c \in S : c \in R[n]}
  <2>1. N \in U
    BY <1>1, <1>6
  <2>2. PICK n \in U : \A j \in U : n <= j
    <3>1. U \subseteq Nat /\ U # {}
      BY <2>1
    <3> HIDE DEF U
    <3>2. QED
      BY <3>1, Least
  <2>3. PICK c \in S : c \in R[n]
    BY <2>2
  <2>4. n \in Nat /\ n # 0 /\ n <= N
    BY <1>3, <2>1, <2>2, <2>3
  <2>5. n - 1 \in Nat /\ n - 1 \notin U /\ n - 1 <= N
    BY <1>1, <2>2, <2>4
  <2>6. c \in Vouched(local, remote, R[n - 1])
    BY <1>3, <2>3, <2>4
  <2>7. R[n - 1] \subseteq R[N] /\ R[n - 1] \intersect S = {}
    BY <1>1, <1>4, <2>5
  <2>8. ~remote[c].removed
    BY <1>6, <2>3
  <2>9. QED
    BY <2>3, <2>6, <2>7, <2>8 DEF Vouched
<1>7. QED
  BY <1>2, <1>5, <1>6

-----------------------------------------------------------------------------
(* Rosters.                                                                *)

\* A roster is its four parts.
LEMMA Parts ==
  ASSUME NEW r, IsRoster(r)
  PROVE  /\ r = [cores |-> r.cores, devices |-> r.devices, home |-> r.home, homeRev |-> r.homeRev]
         /\ DOMAIN r.cores \subseteq Core /\ IsFiniteSet(DOMAIN r.cores)
         /\ DOMAIN r.devices \subseteq Device /\ IsFiniteSet(DOMAIN r.devices)
         /\ r.cores \in [DOMAIN r.cores -> Entry] /\ r.devices \in [DOMAIN r.devices -> Entry]
         /\ r.home \in Core \union {None} /\ r.homeRev \in Nat
BY DEF IsRoster

LEMMA Whole ==
  ASSUME NEW r, NEW cores, NEW devices, NEW home \in Core \union {None}, NEW homeRev \in Nat,
         r = [cores |-> cores, devices |-> devices, home |-> home, homeRev |-> homeRev],
         DOMAIN cores \subseteq Core, IsFiniteSet(DOMAIN cores),
         DOMAIN devices \subseteq Device, IsFiniteSet(DOMAIN devices),
         cores \in [DOMAIN cores -> Entry], devices \in [DOMAIN devices -> Entry]
  PROVE  IsRoster(r)
BY DEF IsRoster

LEMMA NoGroupIs == IsRoster(NoGroup) /\ DOMAIN NoGroup.cores = {}
<1>1. [c \in {} |-> 0] \in [{} -> Entry] /\ IsFiniteSet({})
  BY FS_EmptySet
<1>2. DOMAIN [c \in {} |-> 0] = {}
  OBVIOUS
<1>3. QED
  BY <1>1, <1>2, Whole DEF NoGroup

\* The clock is a number: some entry has the latest revision.
LEMMA ClockIs ==
  ASSUME NEW r, IsRoster(r)
  PROVE  Clock(r) \in Nat
<1> DEFINE C == {r.cores[c].rev : c \in DOMAIN r.cores}
<1> DEFINE D == {r.devices[d].rev : d \in DOMAIN r.devices}
<1>1. C \subseteq Nat /\ IsFiniteSet(C)
  <2>1. C \subseteq Nat
    BY Parts DEF Entry
  <2>2. [c \in DOMAIN r.cores |-> r.cores[c].rev] \in Surjection(DOMAIN r.cores, C)
    BY DEF Surjection
  <2>3. IsFiniteSet(DOMAIN r.cores)
    BY Parts
  <2> HIDE DEF C
  <2>4. QED
    BY <2>1, <2>2, <2>3, FS_Surjection
<1>2. D \subseteq Nat /\ IsFiniteSet(D)
  <2>1. D \subseteq Nat
    BY Parts DEF Entry
  <2>2. [d \in DOMAIN r.devices |-> r.devices[d].rev] \in Surjection(DOMAIN r.devices, D)
    BY DEF Surjection
  <2>3. IsFiniteSet(DOMAIN r.devices)
    BY Parts
  <2> HIDE DEF D
  <2>4. QED
    BY <2>1, <2>2, <2>3, FS_Surjection
<1>3. Revisions(r) = {0} \union C \union D
  BY DEF Revisions
<1> HIDE DEF C, D
<1>4. Revisions(r) \subseteq Nat /\ Revisions(r) # {}
  BY <1>1, <1>2, <1>3
<1>5. IsFiniteSet(Revisions(r))
  <2>1. IsFiniteSet({0})
    BY FS_Singleton
  <2>2. IsFiniteSet({0} \union C)
    BY <1>1, <2>1, FS_Union
  <2>3. QED
    BY <1>2, <1>3, <2>2, FS_Union
<1>6. \E n \in Revisions(r) : \A m \in Revisions(r) : m <= n
  BY <1>4, <1>5, Greatest
<1>7. QED
  BY <1>4, <1>6 DEF Clock

\* A roster whose machines or devices are others.
WithCores(r, f)   == [r EXCEPT !.cores = f]
WithDevices(r, f) == [r EXCEPT !.devices = f]
WithHome(r, h, n) == [r EXCEPT !.home = h, !.homeRev = n]

LEMMA OtherParts ==
  ASSUME NEW r, IsRoster(r), NEW f, NEW h, NEW n
  PROVE  /\ WithCores(r, f) = [cores |-> f, devices |-> r.devices, home |-> r.home, homeRev |-> r.homeRev]
         /\ WithDevices(r, f) = [cores |-> r.cores, devices |-> f, home |-> r.home, homeRev |-> r.homeRev]
         /\ WithHome(r, h, n) = [cores |-> r.cores, devices |-> r.devices, home |-> h, homeRev |-> n]
<1>1. PICK a, b, c, d : /\ r = [cores |-> a, devices |-> b, home |-> c, homeRev |-> d]
                        /\ r.cores = a /\ r.devices = b /\ r.home = c /\ r.homeRev = d
  BY Parts
<1>2. WithCores(r, f) = [cores |-> f, devices |-> b, home |-> c, homeRev |-> d]
  BY <1>1 DEF WithCores
<1>3. WithDevices(r, f) = [cores |-> a, devices |-> f, home |-> c, homeRev |-> d]
  BY <1>1 DEF WithDevices
<1>4. WithHome(r, h, n) = [cores |-> a, devices |-> b, home |-> h, homeRev |-> n]
  <2>1. WithHome(r, h, n) = [[cores |-> a, devices |-> b, home |-> c, homeRev |-> d] EXCEPT !.home = h, !.homeRev = n]
    BY <1>1, Zenon DEF WithHome
  <2>2. QED
    BY <2>1
<1>5. QED
  BY <1>1, <1>2, <1>3, <1>4

LEMMA OthersAre ==
  ASSUME NEW r, IsRoster(r)
  PROVE  /\ \A f : /\ DOMAIN f \subseteq Core /\ IsFiniteSet(DOMAIN f) /\ f \in [DOMAIN f -> Entry]
                   => IsRoster(WithCores(r, f))
         /\ \A f : /\ DOMAIN f \subseteq Device /\ IsFiniteSet(DOMAIN f) /\ f \in [DOMAIN f -> Entry]
                   => IsRoster(WithDevices(r, f))
         /\ \A h \in Core \union {None}, n \in Nat : IsRoster(WithHome(r, h, n))
<1>1. ASSUME NEW f, DOMAIN f \subseteq Core, IsFiniteSet(DOMAIN f), f \in [DOMAIN f -> Entry]
      PROVE  IsRoster(WithCores(r, f))
  BY <1>1, OtherParts, Parts, Whole
<1>2. ASSUME NEW f, DOMAIN f \subseteq Device, IsFiniteSet(DOMAIN f), f \in [DOMAIN f -> Entry]
      PROVE  IsRoster(WithDevices(r, f))
  BY <1>2, OtherParts, Parts, Whole
<1>3. ASSUME NEW h \in Core \union {None}, NEW n \in Nat
      PROVE  IsRoster(WithHome(r, h, n))
  BY <1>3, OtherParts, Parts, Whole
<1>4. QED
  BY <1>1, <1>2, <1>3

\* An entry of a machine rewritten.
LEMMA Rewritten ==
  ASSUME NEW r, IsRoster(r), NEW c \in DOMAIN r.cores, NEW e \in Entry
  PROVE  IsRoster(WithCores(r, [r.cores EXCEPT ![c] = e]))
<1>1. /\ DOMAIN [r.cores EXCEPT ![c] = e] = DOMAIN r.cores
      /\ [r.cores EXCEPT ![c] = e] \in [DOMAIN r.cores -> Entry]
  BY Parts
<1>2. QED
  BY <1>1, Parts, OthersAre

-----------------------------------------------------------------------------
(* What becomes of a copy: it stays a roster.                              *)

PublishedEntry(m, r) == [r.cores[m] EXCEPT !.card = card[m], !.rev = Clock(r) + 1]

LEMMA PublishedAs ==
  ASSUME NEW m, NEW r, IsRoster(r), m \in DOMAIN r.cores
  PROVE  \/ Published(m, r) = r /\ r.cores[m].card = card[m]
         \/ Published(m, r) = WithCores(r, [r.cores EXCEPT ![m] = PublishedEntry(m, r)])
<1>1. r.cores \in [DOMAIN r.cores -> Entry]
  BY Parts
<1>2. [r EXCEPT !.cores[m].card = card[m], !.cores[m].rev = Clock(r) + 1]
        = WithCores(r, [r.cores EXCEPT ![m] = PublishedEntry(m, r)])
  BY <1>1, Parts DEF WithCores, PublishedEntry
<1>3. QED
  BY <1>2 DEF Published

LEMMA PublishedIs ==
  ASSUME NEW m \in Core, NEW r, IsRoster(r), m \in DOMAIN r.cores, card \in [Core -> Nat]
  PROVE  IsRoster(Published(m, r))
<1>1. PublishedEntry(m, r) \in Entry
  <2>1. r.cores[m] \in Entry /\ card[m] \in Nat /\ Clock(r) + 1 \in Nat
    BY Parts, ClockIs
  <2>2. QED
    BY <2>1 DEF PublishedEntry, Entry
<1>2. QED
  BY <1>1, PublishedAs, Rewritten

LEMMA HomeGoneIs ==
  ASSUME NEW r, IsRoster(r), NEW c
  PROVE  /\ IsRoster(HomeGone(r, c))
         /\ HomeGone(r, c).cores = r.cores /\ HomeGone(r, c).devices = r.devices
         /\ HomeGone(r, c).home \in {r.home, None} \ {c} \/ c = None
<1>1. HomeGone(r, c) = IF r.home = c THEN WithHome(r, None, r.homeRev + 1) ELSE r
  BY Parts DEF HomeGone, WithHome
<1>2. r.homeRev + 1 \in Nat /\ None \in Core \union {None}
  BY Parts
<1>3. IsRoster(WithHome(r, None, r.homeRev + 1))
  BY <1>2, OthersAre
<1>4. QED
  BY <1>1, <1>3, OtherParts

LEMMA MergeCoresIs ==
  ASSUME NEW l, IsRoster(l), NEW r, IsRoster(r)
  PROVE  LET f == MergeCores(l.cores, r.cores)
         IN  DOMAIN f \subseteq Core /\ IsFiniteSet(DOMAIN f) /\ f \in [DOMAIN f -> Entry]
<1> DEFINE f == MergeCores(l.cores, r.cores)
<1>1. Accepted(l.cores, r.cores) \subseteq DOMAIN r.cores
  <2>1. IsFiniteSet(DOMAIN r.cores)
    BY Parts
  <2>2. QED
    BY <2>1, AcceptedAre DEF Later
<1>2. DOMAIN f = DOMAIN l.cores \union Accepted(l.cores, r.cores)
  BY DEF MergeCores
<1>3. \A c \in DOMAIN f : f[c] \in Entry
  <2>1. \A c \in DOMAIN l.cores : l.cores[c] \in Entry
    BY Parts
  <2>2. \A c \in DOMAIN r.cores : r.cores[c] \in Entry
    BY Parts
  <2>3. QED
    BY <1>1, <2>1, <2>2 DEF MergeCores
<1>4. f = [c \in DOMAIN f |-> f[c]]
  BY DEF MergeCores
<1>5. IsFiniteSet(DOMAIN f)
  BY <1>1, <1>2, Parts, FS_Subset, FS_Union
<1> HIDE DEF f
<1>6. f \in [DOMAIN f -> Entry]
  BY <1>3, <1>4
<1>7. DOMAIN f \subseteq Core
  BY <1>1, <1>2, Parts
<1>8. QED
  BY <1>5, <1>6, <1>7 DEF f

LEMMA MergeDevicesIs ==
  ASSUME NEW l, IsRoster(l), NEW r, IsRoster(r)
  PROVE  LET f == MergeDevices(l.devices, r.devices)
         IN  DOMAIN f \subseteq Device /\ IsFiniteSet(DOMAIN f) /\ f \in [DOMAIN f -> Entry]
<1> DEFINE f == MergeDevices(l.devices, r.devices)
<1>1. DOMAIN f = DOMAIN l.devices \union DOMAIN r.devices
  BY DEF MergeDevices
<1>2. \A d \in DOMAIN f : f[d] \in Entry
  <2>1. \A d \in DOMAIN l.devices : l.devices[d] \in Entry
    BY Parts
  <2>2. \A d \in DOMAIN r.devices : r.devices[d] \in Entry
    BY Parts
  <2>3. QED
    BY <2>1, <2>2 DEF MergeDevices
<1>3. f = [d \in DOMAIN f |-> f[d]]
  BY DEF MergeDevices
<1>4. IsFiniteSet(DOMAIN f)
  <2>1. IsFiniteSet(DOMAIN l.devices) /\ IsFiniteSet(DOMAIN r.devices)
    BY Parts
  <2>2. QED
    BY <1>1, <2>1, FS_Union
<1> HIDE DEF f
<1>5. f \in [DOMAIN f -> Entry]
  BY <1>2, <1>3
<1>6. DOMAIN f \subseteq Device
  BY <1>1, Parts
<1>7. QED
  BY <1>4, <1>5, <1>6 DEF f

\* A merge is a roster, and its home, if any, is one of its machines.
LEMMA MergeIs ==
  ASSUME NEW l, IsRoster(l), NEW r, IsRoster(r)
  PROVE  /\ IsRoster(Merge(l, r))
         /\ Merge(l, r).cores = MergeCores(l.cores, r.cores)
         /\ Merge(l, r).devices = MergeDevices(l.devices, r.devices)
         /\ Merge(l, r).home \in Live(Merge(l, r)) \union {None}
<1> DEFINE theirs == \/ r.homeRev > l.homeRev
                     \/ r.homeRev = l.homeRev /\ r.home > l.home
<1> DEFINE home == IF theirs THEN r.home ELSE l.home
<1> DEFINE homeRev == IF theirs THEN r.homeRev ELSE l.homeRev
<1> DEFINE merged == [cores |-> MergeCores(l.cores, r.cores), devices |-> MergeDevices(l.devices, r.devices),
                      home |-> home, homeRev |-> homeRev]
<1>1. Merge(l, r) = IF merged.home # None /\ merged.home \notin Live(merged)
                    THEN HomeGone(merged, merged.home) ELSE merged
  BY DEF Merge
<1>2. home \in Core \union {None} /\ homeRev \in Nat
  BY Parts
<1>3. IsRoster(merged)
  <2> HIDE DEF home, homeRev
  <2>1. QED
    BY <1>2, MergeCoresIs, MergeDevicesIs, Whole
<1>4. /\ merged.cores = MergeCores(l.cores, r.cores) /\ merged.devices = MergeDevices(l.devices, r.devices)
      /\ merged.home = home
  OBVIOUS
<1> HIDE DEF merged, home, homeRev
<1>5. CASE merged.home # None /\ merged.home \notin Live(merged)
  <2>1. Merge(l, r) = HomeGone(merged, merged.home)
    BY <1>1, <1>5
  <2>2. HomeGone(merged, merged.home).home = None
    BY <1>3, <1>5, HomeGoneIs
  <2>3. QED
    BY <1>3, <1>4, <2>1, <2>2, HomeGoneIs
<1>6. CASE ~(merged.home # None /\ merged.home \notin Live(merged))
  BY <1>1, <1>3, <1>4, <1>6
<1>7. QED
  BY <1>5, <1>6

-----------------------------------------------------------------------------
(* What becomes of a copy: what it said stands, and nobody writes itself   *)
(* in.                                                                     *)

\* The machines that s counts and r did not, or not in that epoch.
NewIn(r, s) == {c \in Live(s) : c \in Live(r) => s.cores[c].epoch > r.cores[c].epoch}
Vouches(r, s) ==
  \A S \in SUBSET NewIn(r, s) :
    S # {} => \E c \in S : s.cores[c].by \in Live(r) \union (NewIn(r, s) \ S)

\* The copy s of the machine m, made from r.
Follows(m, r, s) == IsRoster(s) /\ Settled(m, s) /\ Stands(r, s) /\ Vouches(r, s)

LEMMA EntryIs ==
  ASSUME NEW r, IsRoster(r)
  PROVE  /\ \A c \in DOMAIN r.cores :
              /\ r.cores[c] \in Entry /\ r.cores[c].epoch \in Nat \ {0} /\ r.cores[c].by \in Core
              /\ r.cores[c].removed \in BOOLEAN
         /\ \A d \in DOMAIN r.devices :
              r.devices[d] \in Entry /\ r.devices[d].removed \in BOOLEAN /\ r.devices[d].by \in Core
BY Parts DEF Entry

\* A copy in which nobody is new.
LEMMA NoneNew ==
  ASSUME NEW r, IsRoster(r), NEW s, IsRoster(s), NEW m, Settled(m, r),
         DOMAIN s.cores = DOMAIN r.cores,
         \A c \in DOMAIN r.cores : /\ s.cores[c].epoch = r.cores[c].epoch /\ s.cores[c].by = r.cores[c].by
                                   /\ r.cores[c].removed => s.cores[c].removed,
         \A d \in DOMAIN r.devices : d \in DOMAIN s.devices /\ (r.devices[d].removed => s.devices[d].removed),
         \A d \in DOMAIN s.devices : ~s.devices[d].removed => s.devices[d].by \in DOMAIN r.cores,
         m \in Live(s), s.home \in Live(s) \union {None}
  PROVE  Follows(m, r, s)
<1>1. Live(s) \subseteq Live(r)
  BY DEF Live
<1>2. Readable(s)
  BY <1>1 DEF Settled, Readable, Live
<1>3. Stands(r, s)
  BY EntryIs DEF Stands
<1>4. \A c \in Live(s) : s.cores[c].epoch = r.cores[c].epoch /\ r.cores[c].epoch \in Nat
  BY EntryIs DEF Live
<1>5. NewIn(r, s) = {}
  BY <1>1, <1>4 DEF NewIn
<1>6. \A S \in SUBSET NewIn(r, s) : S = {}
  BY <1>5
<1>7. Vouches(r, s)
  BY <1>6 DEF Vouches
<1>8. QED
  BY <1>2, <1>3, <1>7 DEF Follows, Settled

\* A machine that rewrites its own entry stands where it stood.
SelfEntry(r, m, x, y) == [r.cores[m] EXCEPT !.card = x, !.rev = y]
WithSelf(r, m, x, y)  == WithCores(r, [r.cores EXCEPT ![m] = SelfEntry(r, m, x, y)])

LEMMA SelfRewritten ==
  ASSUME NEW r, IsRoster(r), NEW m, Settled(m, r), NEW x \in Nat, NEW y \in Nat
  PROVE  Follows(m, r, WithSelf(r, m, x, y)) /\ WithSelf(r, m, x, y).cores[m].card = x
<1> DEFINE e == SelfEntry(r, m, x, y)
<1> DEFINE s == WithCores(r, [r.cores EXCEPT ![m] = e])
<1>1. m \in DOMAIN r.cores
  BY DEF Settled, Live
<1>2. /\ e \in Entry /\ e.epoch = r.cores[m].epoch /\ e.by = r.cores[m].by
      /\ e.removed = r.cores[m].removed /\ e.card = x
  BY <1>1, EntryIs DEF Entry, SelfEntry
<1> HIDE DEF e
<1>3. IsRoster(s)
  BY <1>1, <1>2, Rewritten
<1>4. /\ s.cores = [r.cores EXCEPT ![m] = e] /\ s.devices = r.devices /\ s.home = r.home
  BY OtherParts
<1> HIDE DEF s
<1>5. /\ DOMAIN s.cores = DOMAIN r.cores /\ s.cores[m] = e
      /\ \A c \in DOMAIN r.cores : c # m => s.cores[c] = r.cores[c]
  BY <1>1, <1>4
<1>6. Live(s) = Live(r)
  BY <1>2, <1>5 DEF Live
<1>7. Follows(m, r, s)
  BY <1>2, <1>3, <1>4, <1>5, <1>6, NoneNew DEF Settled, Readable
<1>8. QED
  BY <1>2, <1>5, <1>7 DEF s, e, WithSelf

LEMMA PublishedFollows ==
  ASSUME NEW m \in Core, NEW r, IsRoster(r), Settled(m, r), card \in [Core -> Nat]
  PROVE  Follows(m, r, Published(m, r)) /\ Published(m, r).cores[m].card = card[m]
<1>1. m \in DOMAIN r.cores
  BY DEF Settled, Live
<1>2. CASE Published(m, r) = r /\ r.cores[m].card = card[m]
  <2>1. Follows(m, r, r)
    BY NoneNew DEF Settled, Readable
  <2>2. QED
    BY <1>2, <2>1
<1>3. CASE Published(m, r) = WithCores(r, [r.cores EXCEPT ![m] = PublishedEntry(m, r)])
  <2>1. card[m] \in Nat /\ Clock(r) + 1 \in Nat
    BY ClockIs
  <2>2. Published(m, r) = WithSelf(r, m, card[m], Clock(r) + 1)
    BY <1>3 DEF PublishedEntry, WithSelf, SelfEntry
  <2>3. QED
    BY <2>1, <2>2, SelfRewritten
<1>4. QED
  BY <1>1, <1>2, <1>3, PublishedAs

LEMMA EndedIs ==
  ASSUME NEW e \in Entry, NEW n \in Nat
  PROVE  /\ Ended(e, n) \in Entry /\ Ended(e, n).epoch = e.epoch /\ Ended(e, n).by = e.by
         /\ Ended(e, n).removed
<1> DEFINE yes == TRUE
<1>1. yes \in BOOLEAN /\ yes /\ Ended(e, n) = [e EXCEPT !.removed = yes, !.rev = n]
  BY DEF Ended
<1> HIDE DEF yes
<1>2. [e EXCEPT !.removed = yes, !.rev = n] \in Entry
  BY <1>1 DEF Entry
<1>3. /\ [e EXCEPT !.removed = yes, !.rev = n].epoch = e.epoch
      /\ [e EXCEPT !.removed = yes, !.rev = n].by = e.by
      /\ [e EXCEPT !.removed = yes, !.rev = n].removed = yes
  BY DEF Entry
<1>4. QED
  BY <1>1, <1>2, <1>3

SignedBy(e, m, n) == [e EXCEPT !.by = m, !.rev = n]

LEMMA SignedIs ==
  ASSUME NEW e \in Entry, NEW m \in Core, NEW n \in Nat
  PROVE  /\ SignedBy(e, m, n) \in Entry /\ SignedBy(e, m, n).by = m
         /\ SignedBy(e, m, n).removed = e.removed
BY DEF Entry, SignedBy

\* The devices a removed machine let in, signed for by the one that removes it.
Signed(r, c, m, rev) ==
  [d \in DOMAIN r.devices |->
     IF r.devices[d].removed \/ r.devices[d].by # c THEN r.devices[d]
     ELSE [r.devices[d] EXCEPT !.by = m, !.rev = rev]]

LEMMA DevicesSigned ==
  ASSUME NEW r, IsRoster(r), NEW c, NEW m \in Core, NEW rev \in Nat
  PROVE  /\ Signed(r, c, m, rev) \in [DOMAIN r.devices -> Entry]
         /\ \A d \in DOMAIN r.devices :
              /\ Signed(r, c, m, rev)[d].removed = r.devices[d].removed
              /\ Signed(r, c, m, rev)[d].by \in {r.devices[d].by, m}
<1>1. ASSUME NEW d \in DOMAIN r.devices
      PROVE  /\ Signed(r, c, m, rev)[d] \in Entry
             /\ Signed(r, c, m, rev)[d].removed = r.devices[d].removed
             /\ Signed(r, c, m, rev)[d].by \in {r.devices[d].by, m}
  <2>1. r.devices[d] \in Entry
    BY EntryIs
  <2>2. Signed(r, c, m, rev)[d] \in {r.devices[d], SignedBy(r.devices[d], m, rev)}
    BY DEF Signed, SignedBy
  <2>3. CASE Signed(r, c, m, rev)[d] = r.devices[d]
    BY <2>1, <2>3
  <2>4. CASE Signed(r, c, m, rev)[d] = SignedBy(r.devices[d], m, rev)
    BY <2>1, <2>4, SignedIs
  <2>5. QED
    BY <2>2, <2>3, <2>4
<1>2. Signed(r, c, m, rev) = [d \in DOMAIN r.devices |-> Signed(r, c, m, rev)[d]]
  BY DEF Signed
<1>3. QED
  BY <1>1, <1>2

LEMMA RemovedIs ==
  ASSUME NEW m \in Core, NEW c \in Core, c # m, NEW r, IsRoster(r), Settled(m, r), c \in Live(r), roster[m] = r
  PROVE  Follows(m, r, Removed(m, c)) /\ Removed(m, c).cores[m] = r.cores[m]
<1> DEFINE h == HomeGone(r, c)
<1> DEFINE rev == Clock(h) + 1
<1> DEFINE e == Ended(r.cores[c], rev)
<1> DEFINE f == Signed(h, c, m, rev)
<1> DEFINE s == Removed(m, c)
<1>1. IsRoster(h) /\ h.cores = r.cores /\ h.devices = r.devices /\ h.home \in {r.home, None} \ {c}
  <2>1. c # None
    BY RosterAssumption DEF None
  <2>2. QED
    BY <2>1, HomeGoneIs
<1>2. s = [h EXCEPT !.cores[c] = Ended(@, rev),
             !.devices = [d \in DOMAIN @ |->
                IF @[d].removed \/ @[d].by # c THEN @[d] ELSE [@[d] EXCEPT !.by = m, !.rev = rev]]]
  BY DEF Removed
<1> HIDE DEF h, s
<1>3. rev \in Nat
  BY <1>1, ClockIs
<1> HIDE DEF rev
<1>4. c \in DOMAIN r.cores /\ m \in DOMAIN r.cores
  BY DEF Live, Settled
<1>5. e \in Entry /\ e.epoch = r.cores[c].epoch /\ e.by = r.cores[c].by /\ e.removed
  BY <1>3, <1>4, EntryIs, EndedIs
<1>6. f \in [DOMAIN r.devices -> Entry] /\ \A d \in DOMAIN r.devices :
        f[d].removed = r.devices[d].removed /\ f[d].by \in {r.devices[d].by, m}
  <2>1. f \in [DOMAIN h.devices -> Entry] /\ \A d \in DOMAIN h.devices :
          f[d].removed = h.devices[d].removed /\ f[d].by \in {h.devices[d].by, m}
    BY <1>1, <1>3, DevicesSigned
  <2>2. QED
    BY <1>1, <2>1
<1>7. s = WithDevices(WithCores(h, [r.cores EXCEPT ![c] = e]), f)
  <2>1. s = [h EXCEPT !.cores[c] = Ended(h.cores[c], rev), !.devices = f]
    BY <1>1, <1>2, Parts DEF Signed
  <2> HIDE DEF e, f
  <2>2. QED
    BY <1>1, <2>1, Parts DEF WithDevices, WithCores, e
<1> HIDE DEF e, f
<1>8. IsRoster(WithCores(h, [r.cores EXCEPT ![c] = e]))
  BY <1>1, <1>4, <1>5, Rewritten
<1>9. IsRoster(s)
  <2>1. DOMAIN f = DOMAIN r.devices
    BY <1>6
  <2>2. QED
    BY <1>6, <1>7, <1>8, <2>1, Parts, OthersAre
<1>10. s.cores = [r.cores EXCEPT ![c] = e] /\ s.devices = f /\ s.home = h.home
  BY <1>1, <1>7, <1>8, OtherParts
<1>11. /\ DOMAIN s.cores = DOMAIN r.cores /\ s.cores[c] = e
       /\ \A x \in DOMAIN r.cores : x # c => s.cores[x] = r.cores[x]
  BY <1>4, <1>10
<1>12. Live(s) = Live(r) \ {c}
  BY <1>5, <1>11 DEF Live
<1>13. \A d \in DOMAIN r.devices : ~f[d].removed => f[d].by \in DOMAIN r.cores
  BY <1>4, <1>6 DEF Settled, Readable
<1>14. s.home \in Live(s) \union {None} /\ m \in Live(s)
  BY <1>1, <1>10, <1>12 DEF Settled
<1>15. DOMAIN s.devices = DOMAIN r.devices
  BY <1>6, <1>10
<1>16. Follows(m, r, s)
  BY <1>5, <1>6, <1>9, <1>10, <1>11, <1>13, <1>14, <1>15, NoneNew
<1>17. QED
  BY <1>4, <1>11, <1>16 DEF s

LEMMA FarewellIs ==
  ASSUME NEW m \in Core, NEW r, IsRoster(r), m \in DOMAIN r.cores, roster[m] = r
  PROVE  IsRoster(Farewell(m))
<1> DEFINE h == HomeGone(r, m)
<1> DEFINE e == Ended(r.cores[m], Clock(r) + 1)
<1>1. IsRoster(h) /\ h.cores = r.cores
  BY HomeGoneIs
<1>2. Farewell(m) = [h EXCEPT !.cores[m] = Ended(@, Clock(r) + 1)]
  BY DEF Farewell
<1> HIDE DEF h
<1>3. e \in Entry
  BY ClockIs, EntryIs, EndedIs
<1>4. Farewell(m) = WithCores(h, [h.cores EXCEPT ![m] = e])
  BY <1>1, <1>2, Parts DEF WithCores
<1> HIDE DEF e
<1>5. QED
  BY <1>1, <1>3, <1>4, Rewritten

\* Another home.
LEMMA HomeFollows ==
  ASSUME NEW r, IsRoster(r), NEW m, Settled(m, r), NEW c \in Live(r) \union {None}
  PROVE  /\ Follows(m, r, WithHome(r, c, r.homeRev + 1))
         /\ WithHome(r, c, r.homeRev + 1).cores = r.cores
<1> DEFINE s == WithHome(r, c, r.homeRev + 1)
<1>1. c \in Core \union {None} /\ r.homeRev + 1 \in Nat
  BY Parts DEF Live
<1>2. IsRoster(s) /\ s.cores = r.cores /\ s.devices = r.devices /\ s.home = c
  <2>1. IsRoster(s)
    BY <1>1, OthersAre
  <2>2. s = [cores |-> r.cores, devices |-> r.devices, home |-> c, homeRev |-> r.homeRev + 1]
    BY OtherParts
  <2>3. QED
    BY <2>1, <2>2
<1> HIDE DEF s
<1>3. Live(s) = Live(r)
  BY <1>2 DEF Live
<1>4. Follows(m, r, s)
  BY <1>2, <1>3, NoneNew DEF Settled, Readable
<1>5. QED
  BY <1>2, <1>4 DEF s

\* A device let in, or taken back.
DeviceSet(r, d, e) == [x \in DOMAIN r.devices \union {d} |-> IF x = d THEN e ELSE r.devices[x]]

LEMMA DeviceFollows ==
  ASSUME NEW r, IsRoster(r), NEW m, Settled(m, r), NEW d \in Device, NEW e \in Entry,
         e.by \in DOMAIN r.cores \/ e.removed,
         d \in DOMAIN r.devices /\ r.devices[d].removed => e.removed
  PROVE  /\ Follows(m, r, WithDevices(r, DeviceSet(r, d, e)))
         /\ WithDevices(r, DeviceSet(r, d, e)).cores = r.cores
<1> DEFINE f == DeviceSet(r, d, e)
<1> DEFINE s == WithDevices(r, f)
<1>1. DOMAIN f = DOMAIN r.devices \union {d} /\ f \in [DOMAIN f -> Entry]
  BY EntryIs DEF DeviceSet
<1>2. DOMAIN f \subseteq Device /\ IsFiniteSet(DOMAIN f)
  BY <1>1, Parts, FS_AddElement
<1>3. f[d] = e /\ \A x \in DOMAIN r.devices : x # d => f[x] = r.devices[x]
  BY DEF DeviceSet
<1> HIDE DEF f
<1>4. IsRoster(s) /\ s.cores = r.cores /\ s.devices = f /\ s.home = r.home
  <2>1. IsRoster(s)
    BY <1>1, <1>2, OthersAre
  <2>2. s = [cores |-> r.cores, devices |-> f, home |-> r.home, homeRev |-> r.homeRev]
    BY OtherParts
  <2>3. QED
    BY <2>1, <2>2
<1> HIDE DEF s
<1>5. Live(s) = Live(r)
  BY <1>4 DEF Live
<1>6. Follows(m, r, s)
  BY <1>1, <1>3, <1>4, <1>5, NoneNew DEF Settled, Readable
<1>7. QED
  BY <1>4, <1>6 DEF s, f

-----------------------------------------------------------------------------
(* A machine let in, and a merge.                                          *)

Admitted(r, n, j, e) ==
  WithCores(r, [c \in DOMAIN r.cores \union {j} |-> IF c = j THEN e ELSE r.cores[c]])

LEMMA LetFollows ==
  ASSUME NEW r, IsRoster(r), NEW n, Settled(n, r), NEW j \in Core, j # n,
         NEW e \in Entry, e.by = n, ~e.removed,
         j \in DOMAIN r.cores => e.epoch > r.cores[j].epoch
  PROVE  /\ Follows(n, r, Admitted(r, n, j, e)) /\ Admitted(r, n, j, e).cores[n] = r.cores[n]
         /\ Settled(j, Admitted(r, n, j, e))
<1> DEFINE f == [c \in DOMAIN r.cores \union {j} |-> IF c = j THEN e ELSE r.cores[c]]
<1> DEFINE s == WithCores(r, f)
<1>1. DOMAIN f = DOMAIN r.cores \union {j} /\ f \in [DOMAIN f -> Entry]
  BY EntryIs
<1>2. DOMAIN f \subseteq Core /\ IsFiniteSet(DOMAIN f)
  BY <1>1, Parts, FS_AddElement
<1>3. f[j] = e /\ \A x \in DOMAIN r.cores : x # j => f[x] = r.cores[x]
  OBVIOUS
<1> HIDE DEF f
<1>4. IsRoster(s) /\ s.cores = f /\ s.devices = r.devices /\ s.home = r.home
  <2>1. IsRoster(s)
    BY <1>1, <1>2, OthersAre
  <2>2. s = [cores |-> f, devices |-> r.devices, home |-> r.home, homeRev |-> r.homeRev]
    BY OtherParts
  <2>3. QED
    BY <2>1, <2>2
<1>5. Admitted(r, n, j, e) = s
  BY DEF Admitted, f
<1> HIDE DEF s
<1>6. Live(s) = Live(r) \union {j}
  BY <1>1, <1>3, <1>4 DEF Live
<1>7. n \in Live(r) /\ n \in DOMAIN r.cores /\ Readable(r) /\ r.home \in Live(r) \union {None}
  BY DEF Settled, Live
<1>8. Readable(s)
  <2>1. s.cores[j].by \in DOMAIN s.cores /\ s.cores[j].by # j
    BY <1>1, <1>3, <1>4, <1>7
  <2>2. \A c \in Live(r) : c # j => s.cores[c] = r.cores[c]
    BY <1>3, <1>4 DEF Live
  <2>3. \A c \in Live(s) :
          /\ s.cores[c].by \in DOMAIN s.cores
          /\ s.cores[c].by = c => c = Founder /\ s.cores[c].epoch = 1
    BY <1>1, <1>4, <1>6, <1>7, <2>1, <2>2 DEF Readable
  <2>4. \A d \in DOMAIN s.devices : ~s.devices[d].removed => s.devices[d].by \in DOMAIN s.cores
    BY <1>1, <1>4, <1>7 DEF Readable
  <2>5. DOMAIN s.cores # {}
    BY <1>1, <1>4
  <2> HIDE DEF Live
  <2>6. QED
    BY <2>3, <2>4, <2>5 DEF Readable
<1>9. Settled(n, s) /\ Settled(j, s)
  BY <1>4, <1>6, <1>7, <1>8 DEF Settled
<1>10. Stands(r, s)
  <2>1. \A c \in DOMAIN r.cores : r.cores[c].epoch \in Nat
    BY EntryIs
  <2>2. e.epoch \in Nat
    BY DEF Entry
  <2>3. QED
    BY <1>1, <1>3, <1>4, <2>1, <2>2 DEF Stands
<1>11. NewIn(r, s) \subseteq {j}
  <2>1. \A c \in Live(r) : r.cores[c].epoch \in Nat /\ (c # j => s.cores[c] = r.cores[c])
    BY <1>3, <1>4, EntryIs DEF Live
  <2>2. QED
    BY <1>6, <2>1 DEF NewIn
<1>12. s.cores[j].by \in Live(r)
  BY <1>3, <1>4, <1>7
<1>13. Vouches(r, s)
  BY <1>11, <1>12 DEF Vouches
<1>14. QED
  BY <1>3, <1>4, <1>5, <1>7, <1>9, <1>10, <1>13 DEF Follows

\* A removal and an epoch outrank whatever an other roster says.
LEMMA MergeStands ==
  ASSUME NEW l, IsRoster(l), NEW r, IsRoster(r)
  PROVE  Stands(l, Merge(l, r))
<1> DEFINE s == Merge(l, r)
<1>1. s.cores = MergeCores(l.cores, r.cores) /\ s.devices = MergeDevices(l.devices, r.devices)
  BY MergeIs
<1>2. Accepted(l.cores, r.cores) \subseteq Later(l.cores, r.cores)
  BY Parts, AcceptedAre
<1>3. ASSUME NEW c \in DOMAIN l.cores
      PROVE  /\ c \in DOMAIN s.cores /\ s.cores[c].epoch >= l.cores[c].epoch
             /\ s.cores[c].epoch = l.cores[c].epoch /\ l.cores[c].removed => s.cores[c].removed
  <2>1. c \in DOMAIN s.cores
    BY <1>1 DEF MergeCores
  <2>2. l.cores[c].epoch \in Nat /\ l.cores[c].removed \in BOOLEAN
    BY EntryIs
  <2>3. CASE c \in Accepted(l.cores, r.cores)
    <3>1. s.cores[c] = r.cores[c]
      BY <1>1, <2>3 DEF MergeCores
    <3>2. c \in DOMAIN r.cores /\ r.cores[c].epoch > l.cores[c].epoch
      BY <1>2, <2>3 DEF Later
    <3>3. r.cores[c].epoch \in Nat
      BY <3>2, EntryIs
    <3>4. QED
      BY <2>1, <2>2, <3>1, <3>2, <3>3
  <2>4. CASE /\ c \in DOMAIN r.cores /\ r.cores[c].epoch = l.cores[c].epoch
             /\ Wins(r.cores[c], l.cores[c]) /\ s.cores[c] = r.cores[c]
    <3>1. r.cores[c].removed \in BOOLEAN
      BY <2>4, EntryIs
    <3>2. l.cores[c].removed => r.cores[c].removed
      BY <2>2, <2>4, <3>1 DEF Wins
    <3>3. QED
      BY <2>1, <2>2, <2>4, <3>2
  <2>5. CASE s.cores[c] = l.cores[c]
    BY <2>1, <2>2, <2>5
  <2>6. QED
    BY <1>1, <2>3, <2>4, <2>5 DEF MergeCores
<1>4. ASSUME NEW d \in DOMAIN l.devices
      PROVE  d \in DOMAIN s.devices /\ (l.devices[d].removed => s.devices[d].removed)
  <2>1. d \in DOMAIN s.devices
    BY <1>1 DEF MergeDevices
  <2>2. CASE s.devices[d] = l.devices[d]
    BY <2>1, <2>2
  <2>3. CASE d \in DOMAIN r.devices /\ Wins(r.devices[d], l.devices[d]) /\ s.devices[d] = r.devices[d]
    <3>1. r.devices[d].removed \in BOOLEAN /\ l.devices[d].removed \in BOOLEAN
      BY <2>3, EntryIs
    <3>2. l.devices[d].removed => r.devices[d].removed
      BY <2>3, <3>1 DEF Wins
    <3>3. QED
      BY <2>1, <2>3, <3>2
  <2>4. QED
    BY <1>1, <2>2, <2>3 DEF MergeDevices
<1>5. QED
  BY <1>3, <1>4 DEF Stands

\* The machines a merge makes new were vouched for, from those counted before.
LEMMA MergeVouches ==
  ASSUME NEW l, IsRoster(l), NEW r, IsRoster(r)
  PROVE  Vouches(l, Merge(l, r))
<1> DEFINE s == Merge(l, r)
<1> DEFINE A == Accepted(l.cores, r.cores)
<1>1. s.cores = MergeCores(l.cores, r.cores)
  BY MergeIs
<1>2. IsFiniteSet(DOMAIN r.cores)
  BY Parts
<1>3. A \subseteq Later(l.cores, r.cores)
  BY <1>2, AcceptedAre
<1>4. \A c \in A : c \in DOMAIN s.cores /\ s.cores[c] = r.cores[c]
  BY <1>1 DEF MergeCores
<1>5. \A c \in A : ~r.cores[c].removed => c \in NewIn(l, s)
  BY <1>3, <1>4 DEF NewIn, Live, Later
<1>6. ASSUME NEW c \in NewIn(l, s), c \notin A
      PROVE  FALSE
  <2>1. c \in DOMAIN s.cores /\ ~s.cores[c].removed
    BY DEF NewIn, Live
  <2>2. c \in DOMAIN l.cores
    BY <1>1, <1>6, <2>1 DEF MergeCores
  <2>3. l.cores[c].epoch \in Nat /\ l.cores[c].removed \in BOOLEAN
    BY <2>2, EntryIs
  <2>4. s.cores[c].epoch = l.cores[c].epoch /\ ~l.cores[c].removed
    <3>1. CASE s.cores[c] = l.cores[c]
      BY <2>1, <3>1
    <3>2. CASE /\ c \in DOMAIN r.cores /\ r.cores[c].epoch = l.cores[c].epoch
               /\ Wins(r.cores[c], l.cores[c]) /\ s.cores[c] = r.cores[c]
      <4>1. r.cores[c].removed \in BOOLEAN
        BY <3>2, EntryIs
      <4>2. l.cores[c].removed => r.cores[c].removed
        BY <2>3, <3>2, <4>1 DEF Wins
      <4>3. QED
        BY <2>1, <3>2, <4>2
    <3>3. QED
      BY <1>1, <1>6, <2>2, <3>1, <3>2 DEF MergeCores
  <2>5. c \in Live(l)
    BY <2>2, <2>4 DEF Live
  <2>6. QED
    BY <2>3, <2>4, <2>5 DEF NewIn
<1>7. ASSUME NEW S \in SUBSET NewIn(l, s), S # {}
      PROVE  \E c \in S : s.cores[c].by \in Live(l) \union (NewIn(l, s) \ S)
  <2>1. \A c \in S : c \in A /\ s.cores[c] = r.cores[c] /\ ~r.cores[c].removed
    BY <1>4, <1>6 DEF NewIn, Live
  <2>2. PICK c \in S :
          \/ r.cores[c].by \in DOMAIN l.cores /\ ~l.cores[r.cores[c].by].removed
          \/ r.cores[c].by \in A \ S /\ ~r.cores[r.cores[c].by].removed
    <3>1. S \in SUBSET {c \in A : ~r.cores[c].removed}
      BY <2>1
    <3>2. QED
      BY <1>2, <1>7, <3>1, AcceptedAre
  <2> HIDE DEF A, s
  <2>3. CASE r.cores[c].by \in DOMAIN l.cores /\ ~l.cores[r.cores[c].by].removed
    BY <2>1, <2>3 DEF Live
  <2>4. CASE r.cores[c].by \in A \ S /\ ~r.cores[r.cores[c].by].removed
    BY <1>5, <2>1, <2>4
  <2>5. QED
    BY <2>2, <2>3, <2>4
<1>8. QED
  BY <1>7 DEF Vouches

\* A copy that differs only in what its machines say of themselves.
Alike(r, s) ==
  /\ DOMAIN s.cores = DOMAIN r.cores /\ s.devices = r.devices
  /\ \A c \in DOMAIN r.cores :
       /\ s.cores[c].epoch = r.cores[c].epoch /\ s.cores[c].by = r.cores[c].by
       /\ s.cores[c].removed = r.cores[c].removed

LEMMA PublishedAlike ==
  ASSUME NEW m \in Core, NEW r, IsRoster(r), m \in DOMAIN r.cores, card \in [Core -> Nat]
  PROVE  Alike(r, Published(m, r))
<1>1. CASE Published(m, r) = r
  BY <1>1 DEF Alike
<1>2. CASE Published(m, r) = WithCores(r, [r.cores EXCEPT ![m] = PublishedEntry(m, r)])
  <2> DEFINE e == PublishedEntry(m, r)
  <2> DEFINE s == Published(m, r)
  <2>1. e.epoch = r.cores[m].epoch /\ e.by = r.cores[m].by /\ e.removed = r.cores[m].removed
    BY EntryIs DEF Entry, PublishedEntry
  <2>2. s.cores = [r.cores EXCEPT ![m] = e] /\ s.devices = r.devices
    BY <1>2, OtherParts
  <2> HIDE DEF e, s
  <2>3. /\ DOMAIN s.cores = DOMAIN r.cores /\ s.cores[m] = e
        /\ \A c \in DOMAIN r.cores : c # m => s.cores[c] = r.cores[c]
    BY <2>2
  <2>4. Alike(r, s)
    BY <2>1, <2>2, <2>3 DEF Alike
  <2>5. QED
    BY <2>4 DEF s
<1>3. QED
  BY <1>1, <1>2, PublishedAs

\* What a member keeps of a merge follows from what it held.
LEMMA AbsorbedFollows ==
  ASSUME NEW m \in Core, NEW l, IsRoster(l), NEW r, IsRoster(r), card \in [Core -> Nat],
         Readable(Merge(l, r)), m \in Live(Merge(l, r))
  PROVE  /\ Follows(m, l, Published(m, Merge(l, r)))
         /\ Published(m, Merge(l, r)).cores[m].card = card[m]
<1> DEFINE g == Merge(l, r)
<1> DEFINE s == Published(m, g)
<1>1. IsRoster(g) /\ Settled(m, g)
  BY MergeIs DEF Settled
<1>2. Stands(l, g) /\ Vouches(l, g)
  BY MergeStands, MergeVouches
<1>3. Follows(m, g, s) /\ s.cores[m].card = card[m]
  <2> HIDE DEF g
  <2>1. QED
    BY <1>1, PublishedFollows
<1>4. Alike(g, s)
  <2>1. m \in DOMAIN g.cores
    BY DEF Live
  <2> HIDE DEF g
  <2>2. QED
    BY <1>1, <2>1, PublishedAlike
<1> HIDE DEF g, s
<1>5. Live(s) = Live(g) /\ \A c \in Live(s) : s.cores[c].epoch = g.cores[c].epoch /\ s.cores[c].by = g.cores[c].by
  BY <1>4 DEF Alike, Live
<1>6. Stands(l, s)
  BY <1>2, <1>4 DEF Stands, Alike
<1>7. NewIn(l, s) = NewIn(l, g)
  BY <1>5 DEF NewIn
<1>8. Vouches(l, s)
  <2>1. \A c \in NewIn(l, g) : s.cores[c].by = g.cores[c].by
    BY <1>5 DEF NewIn
  <2>2. QED
    BY <1>2, <1>7, <2>1 DEF Vouches
<1>9. QED
  BY <1>3, <1>6, <1>8 DEF Follows, s, g

-----------------------------------------------------------------------------
(* What a step makes of each copy.                                         *)

Kept(m)    == roster'[m] = roster[m] /\ (In(m) => card'[m] = card[m])
Cleared(m) == roster'[m] = NoGroup
Changed(m) == In(m) /\ Follows(m, roster[m], roster'[m]) /\ roster'[m].cores[m].card = card'[m]
Entered(m) == /\ ~In(m) /\ IsRoster(roster'[m]) /\ Settled(m, roster'[m])
              /\ roster'[m].cores[m].card = card'[m]

\* Of all copies.
Turned == DOMAIN roster' = Core /\ \A m \in Core : Kept(m) \/ Cleared(m) \/ Changed(m) \/ Entered(m)

Sound(w) ==
  /\ w.kind \in Replies \union {"offer", "told", "welcome"}
  /\ w.from \in Core /\ w.to \in Core /\ IsRoster(w.roster)
  /\ w.kind = "welcome" => Settled(w.to, w.roster)

Invitation == [open : BOOLEAN, joined : Core \union {None}]

\* Of the rest.
Typed ==
  /\ card' \in [Core -> Nat] /\ invite' \in [Core -> Invitation] /\ leaving' \in [Core -> Nat]
  /\ \A w \in wire' : Sound(w)
  /\ eventsLeft' \in 0..MaxEvents

LEMMA Holds ==
  ASSUME IInv
  PROVE  /\ DOMAIN roster = Core /\ \A m \in Core : IsRoster(roster[m])
         /\ \A m \in Core : In(m) => Settled(m, roster[m]) /\ roster[m].cores[m].card = card[m]
         /\ card \in [Core -> Nat] /\ invite \in [Core -> Invitation] /\ leaving \in [Core -> Nat]
         /\ \A w \in wire : Sound(w)
         /\ eventsLeft \in 0..MaxEvents
BY DEF IInv, TypeOK, HoldsItself, Welcomes, Sound, Invitation

LEMMA NoInviteIs == NoInvite \in Invitation /\ [open |-> TRUE, joined |-> None] \in Invitation
<1>1. FALSE \in BOOLEAN /\ TRUE \in BOOLEAN /\ None \in Core \union {None}
  OBVIOUS
<1>2. QED
  BY <1>1, Zenon DEF NoInvite, Invitation

LEMMA Counted ==
  ASSUME NEW kind, Act(kind), eventsLeft \in 0..MaxEvents
  PROVE  eventsLeft' \in 0..MaxEvents
<1>1. MaxEvents \in Nat
  BY GroupAssumption
<1>2. eventsLeft > 0 /\ eventsLeft' = eventsLeft - 1
  BY DEF Act
<1>3. QED
  BY <1>1, <1>2

\* No copy changes.
LEMMA NoneTurns ==
  ASSUME IInv, roster' = roster, card' = card
  PROVE  Turned
BY Holds DEF Turned, Kept

\* One copy changes.
LEMMA OneTurns ==
  ASSUME IInv, NEW m \in Core, NEW r, roster' = [roster EXCEPT ![m] = r],
         \A n \in Core : n # m => card'[n] = card[n],
         \/ r = roster[m] /\ card'[m] = card[m]
         \/ r = NoGroup
         \/ In(m) /\ Follows(m, roster[m], r) /\ r.cores[m].card = card'[m]
         \/ ~In(m) /\ IsRoster(r) /\ Settled(m, r) /\ r.cores[m].card = card'[m]
  PROVE  Turned
<1>1. DOMAIN roster = Core
  BY Holds
<1>2. DOMAIN roster' = Core /\ roster'[m] = r /\ \A n \in Core : n # m => roster'[n] = roster[n]
  BY <1>1
<1>3. ASSUME NEW n \in Core, n # m
      PROVE  Kept(n)
  BY <1>2, <1>3 DEF Kept
<1>4. Kept(m) \/ Cleared(m) \/ Changed(m) \/ Entered(m)
  BY <1>2 DEF Kept, Cleared, Changed, Entered
<1>5. QED
  BY <1>2, <1>3, <1>4 DEF Turned

LEMMA BecomesTurns ==
  ASSUME IInv, NEW m \in Core, NEW r, Becomes(m, r), card' = card,
         \/ r = roster[m]
         \/ r = NoGroup
         \/ In(m) /\ Follows(m, roster[m], r) /\ r.cores[m].card = card[m]
  PROVE  Turned /\ invite' \in [Core -> Invitation]
<1>1. Turned
  <2>1. roster' = [roster EXCEPT ![m] = r]
    BY DEF Becomes
  <2>2. QED
    BY <2>1, OneTurns
<1>2. invite' = [invite EXCEPT ![m] = NoInvite] \/ invite' = invite
  BY DEF Becomes
<1>3. QED
  BY <1>1, <1>2, Holds, NoInviteIs

\* A member's copy after a merge.
LEMMA AbsorbedIs ==
  ASSUME IInv, NEW m \in Core, In(m), NEW theirs, IsRoster(theirs)
  PROVE  /\ IsRoster(Absorbed(m, theirs))
         /\ \/ Absorbed(m, theirs) = roster[m]
            \/ Absorbed(m, theirs) = NoGroup
            \/ /\ Follows(m, roster[m], Absorbed(m, theirs))
               /\ Absorbed(m, theirs).cores[m].card = card[m]
<1> DEFINE merged == Merge(roster[m], theirs)
<1>1. Absorbed(m, theirs) = IF ~Readable(theirs) \/ ~Readable(merged) THEN roster[m]
                            ELSE IF m \notin Live(merged) THEN NoGroup
                            ELSE Published(m, merged)
  BY DEF Absorbed
<1>2. IsRoster(roster[m]) /\ card \in [Core -> Nat]
  BY Holds
<1>3. ASSUME Readable(merged), m \in Live(merged)
      PROVE  /\ Follows(m, roster[m], Published(m, merged))
             /\ Published(m, merged).cores[m].card = card[m]
  BY <1>2, <1>3, AbsorbedFollows
<1> HIDE DEF merged
<1>4. QED
  BY <1>1, <1>2, <1>3, NoGroupIs DEF Follows

LEMMA MessageIs ==
  ASSUME NEW kind \in Replies \union {"offer", "told"}, NEW from \in Core, NEW to \in Core, NEW r, IsRoster(r)
  PROVE  Sound(Message(kind, from, to, r))
<1> DEFINE w == Message(kind, from, to, r)
<1>1. w.kind = kind /\ w.from = from /\ w.to = to /\ w.roster = r
  BY DEF Message
<1>2. kind # "welcome"
  BY DEF Replies
<1> HIDE DEF w
<1>3. Sound(w)
  BY <1>1, <1>2 DEF Sound
<1>4. QED
  BY <1>3 DEF w

LEMMA WelcomeIs ==
  ASSUME NEW from \in Core, NEW to \in Core, NEW r, IsRoster(r), Settled(to, r)
  PROVE  Sound(Message("welcome", from, to, r))
<1> DEFINE w == Message("welcome", from, to, r)
<1>1. w.kind = "welcome" /\ w.from = from /\ w.to = to /\ w.roster = r
  BY DEF Message
<1> HIDE DEF w
<1>2. Sound(w)
  BY <1>1 DEF Sound
<1>3. QED
  BY <1>2 DEF w

-----------------------------------------------------------------------------
(* The actions.                                                            *)

LEMMA InviteMoves ==
  ASSUME IInv, NEW m \in Core, Invite(m)
  PROVE  Turned /\ Typed
<1>1. roster' = roster /\ card' = card /\ leaving' = leaving /\ wire' = wire /\ Act("invite")
  BY DEF Invite
<1>2. invite' = [invite EXCEPT ![m] = [open |-> TRUE, joined |-> None]]
  BY DEF Invite
<1>3. invite' \in [Core -> Invitation]
  BY <1>2, Holds, NoInviteIs
<1>4. eventsLeft' \in 0..MaxEvents
  BY <1>1, Holds, Counted
<1>5. QED
  BY <1>1, <1>3, <1>4, NoneTurns, Holds DEF Typed

LEMMA RemoveMoves ==
  ASSUME IInv, NEW m \in Core, NEW c \in Core, Remove(m, c)
  PROVE  Turned /\ Typed
<1> DEFINE r == Removed(m, c)
<1>1. /\ In(m) /\ c # m /\ c \in Live(roster[m]) /\ Act("remove")
      /\ roster' = [roster EXCEPT ![m] = r] /\ wire' = wire \union {Message("told", m, c, r)}
      /\ card' = card /\ invite' = invite /\ leaving' = leaving
  BY DEF Remove, Counts
<1>2. IsRoster(roster[m]) /\ Settled(m, roster[m]) /\ roster[m].cores[m].card = card[m]
  BY <1>1, Holds
<1>3. Follows(m, roster[m], r) /\ r.cores[m] = roster[m].cores[m]
  BY <1>1, <1>2, RemovedIs
<1> HIDE DEF r
<1>4. Turned
  BY <1>1, <1>2, <1>3, OneTurns
<1>5. Sound(Message("told", m, c, r))
  BY <1>3, MessageIs DEF Follows
<1>6. eventsLeft' \in 0..MaxEvents
  BY <1>1, Holds, Counted
<1>7. QED
  BY <1>1, <1>4, <1>5, <1>6, Holds DEF Typed

LEMMA LeaveMoves ==
  ASSUME IInv, NEW m \in Core, Leave(m)
  PROVE  Turned /\ Typed
<1>1. /\ In(m) /\ Act("leave") /\ leaving' = [leaving EXCEPT ![m] = EpochAt(m, m)]
      /\ wire' = wire \union {Message("told", m, n, Farewell(m)) : n \in Live(roster[m]) \ {m}}
      /\ roster' = roster /\ card' = card /\ invite' = invite
  BY DEF Leave
<1>2. IsRoster(roster[m]) /\ m \in DOMAIN roster[m].cores
  BY <1>1, Holds DEF Settled, Live
<1>3. EpochAt(m, m) \in Nat
  BY <1>2, EntryIs DEF EpochAt
<1>4. \A n \in Live(roster[m]) : Sound(Message("told", m, n, Farewell(m)))
  <2>1. IsRoster(Farewell(m))
    BY <1>2, FarewellIs
  <2>2. Live(roster[m]) \subseteq Core
    BY <1>2, Parts DEF Live
  <2>3. QED
    BY <2>1, <2>2, MessageIs
<1>5. eventsLeft' \in 0..MaxEvents
  BY <1>1, Holds, Counted
<1>6. leaving' \in [Core -> Nat]
  BY <1>1, <1>3, Holds
<1>7. QED
  BY <1>1, <1>4, <1>5, <1>6, NoneTurns, Holds DEF Typed

LEMMA FinishLeaveMoves ==
  ASSUME IInv, NEW m \in Core, FinishLeave(m)
  PROVE  Turned /\ Typed
<1>1. /\ leaving' = [leaving EXCEPT ![m] = 0] /\ Becomes(m, NoGroup)
      /\ card' = card /\ wire' = wire /\ eventsLeft' = eventsLeft
  BY DEF FinishLeave
<1>2. Turned /\ invite' \in [Core -> Invitation]
  BY <1>1, BecomesTurns
<1>3. leaving' \in [Core -> Nat]
  BY <1>1, Holds
<1>4. QED
  BY <1>1, <1>2, <1>3, Holds DEF Typed

LEMMA SettingsHomeMoves ==
  ASSUME IInv, NEW m \in Core, NEW c \in Core \union {None}, SettingsHome(m, c)
  PROVE  Turned /\ Typed
<1> DEFINE r == WithHome(roster[m], c, roster[m].homeRev + 1)
<1>1. /\ In(m) /\ c \in Live(roster[m]) \union {None} /\ Act("home")
      /\ roster' = [roster EXCEPT ![m].home = c, ![m].homeRev = @ + 1]
      /\ card' = card /\ invite' = invite /\ leaving' = leaving /\ wire' = wire
  BY DEF SettingsHome
<1>2. IsRoster(roster[m]) /\ Settled(m, roster[m]) /\ roster[m].cores[m].card = card[m]
  BY <1>1, Holds
<1>3. roster' = [roster EXCEPT ![m] = r]
  <2>1. m \in DOMAIN roster
    BY Holds
  <2>2. QED
    BY <1>1, <1>2, <2>1, Parts DEF WithHome
<1>4. Follows(m, roster[m], r) /\ r.cores = roster[m].cores
  BY <1>1, <1>2, HomeFollows
<1> HIDE DEF r
<1>5. Turned
  BY <1>1, <1>2, <1>3, <1>4, OneTurns
<1>6. eventsLeft' \in 0..MaxEvents
  BY <1>1, Holds, Counted
<1>7. QED
  BY <1>1, <1>5, <1>6, Holds DEF Typed

LEMMA RepublishMoves ==
  ASSUME IInv, NEW m \in Core, Republish(m)
  PROVE  Turned /\ Typed
<1> DEFINE r == WithSelf(roster[m], m, card[m] + 1, Clock(roster[m]) + 1)
<1>1. /\ Act("republish") /\ card' = [card EXCEPT ![m] = @ + 1]
      /\ roster' = IF ~In(m) THEN roster
                   ELSE [roster EXCEPT ![m].cores[m].card = card[m] + 1,
                                       ![m].cores[m].rev = Clock(roster[m]) + 1]
      /\ invite' = invite /\ leaving' = leaving /\ wire' = wire
  BY DEF Republish
<1>2. card[m] + 1 \in Nat /\ card' \in [Core -> Nat] /\ card'[m] = card[m] + 1
  BY <1>1, Holds
<1>3. \A n \in Core : n # m => card'[n] = card[n]
  BY <1>1, Holds
<1>4. Turned
  <2>1. CASE ~In(m)
    <3>1. \A n \in Core : Kept(n)
      BY <1>1, <1>3, <2>1 DEF Kept
    <3>2. QED
      BY <1>1, <2>1, <3>1, Holds DEF Turned
  <2>2. CASE In(m)
    <3>1. IsRoster(roster[m]) /\ Settled(m, roster[m])
      BY <2>2, Holds
    <3>2. m \in DOMAIN roster /\ m \in DOMAIN roster[m].cores
      BY <3>1, Holds DEF Settled, Live
    <3>3. roster' = [roster EXCEPT ![m] = r]
      <4>1. roster' = [roster EXCEPT ![m].cores[m].card = card[m] + 1,
                                     ![m].cores[m].rev = Clock(roster[m]) + 1]
        BY <1>1, <2>2
      <4>2. QED
        BY <3>1, <3>2, <4>1, Parts DEF WithSelf, WithCores, SelfEntry
    <3>4. Clock(roster[m]) + 1 \in Nat
      BY <3>1, ClockIs
    <3>5. Follows(m, roster[m], r) /\ r.cores[m].card = card[m] + 1
      BY <1>2, <3>1, <3>4, SelfRewritten
    <3> HIDE DEF r
    <3>6. QED
      BY <1>2, <1>3, <2>2, <3>3, <3>5, OneTurns
  <2>3. QED
    BY <2>1, <2>2
<1>5. eventsLeft' \in 0..MaxEvents
  BY <1>1, Holds, Counted
<1>6. QED
  BY <1>1, <1>2, <1>4, <1>5, Holds DEF Typed

LEMMA DeviceEntryIs ==
  ASSUME NEW m, IsRoster(roster[m]), NEW removed \in BOOLEAN, NEW by \in Core
  PROVE  /\ DeviceEntry(m, removed, by) \in Entry /\ DeviceEntry(m, removed, by).by = by
         /\ DeviceEntry(m, removed, by).removed = removed
<1>1. Clock(roster[m]) + 1 \in Nat
  BY ClockIs
<1>2. QED
  BY <1>1 DEF DeviceEntry, Entry

LEMMA DeviceTurns ==
  ASSUME IInv, NEW m \in Core, In(m), NEW d \in Device, NEW e \in Entry, WithDevice(m, d, e), card' = card,
         e.by \in DOMAIN roster[m].cores \/ e.removed,
         d \in DOMAIN roster[m].devices /\ roster[m].devices[d].removed => e.removed
  PROVE  Turned
<1> DEFINE r == WithDevices(roster[m], DeviceSet(roster[m], d, e))
<1>1. IsRoster(roster[m]) /\ Settled(m, roster[m]) /\ roster[m].cores[m].card = card[m]
  BY Holds
<1>2. roster' = [roster EXCEPT ![m] = r]
  <2>1. m \in DOMAIN roster
    BY Holds
  <2>2. roster' = [roster EXCEPT ![m].devices = DeviceSet(roster[m], d, e)]
    BY DEF WithDevice, DeviceSet
  <2>3. QED
    BY <1>1, <2>1, <2>2 DEF WithDevices
<1>3. Follows(m, roster[m], r) /\ r.cores = roster[m].cores
  BY <1>1, DeviceFollows
<1> HIDE DEF r
<1>4. QED
  BY <1>1, <1>2, <1>3, OneTurns

LEMMA AdmitDeviceMoves ==
  ASSUME IInv, NEW m \in Core, NEW d \in Device, AdmitDevice(m, d)
  PROVE  Turned /\ Typed
<1> DEFINE no == FALSE
<1>1. /\ In(m) /\ Act("admit") /\ card' = card /\ invite' = invite /\ leaving' = leaving /\ wire' = wire
      /\ d \in DOMAIN roster[m].devices => ~roster[m].devices[d].removed
  BY DEF AdmitDevice
<1>2. WithDevice(m, d, DeviceEntry(m, no, m)) /\ no \in BOOLEAN
  BY DEF AdmitDevice
<1> HIDE DEF no
<1>3. IsRoster(roster[m]) /\ m \in DOMAIN roster[m].cores
  BY <1>1, Holds DEF Settled, Live
<1>4. Turned
  BY <1>1, <1>2, <1>3, DeviceEntryIs, DeviceTurns
<1>5. eventsLeft' \in 0..MaxEvents
  BY <1>1, Holds, Counted
<1>6. QED
  BY <1>1, <1>4, <1>5, Holds DEF Typed

LEMMA RevokeDeviceMoves ==
  ASSUME IInv, NEW m \in Core, NEW d \in Device, RevokeDevice(m, d)
  PROVE  Turned /\ Typed
<1> DEFINE yes == TRUE
<1>1. /\ In(m) /\ Act("revoke") /\ card' = card /\ invite' = invite /\ leaving' = leaving /\ wire' = wire
      /\ d \in DOMAIN roster[m].devices /\ ~roster[m].devices[d].removed
  BY DEF RevokeDevice
<1>2. WithDevice(m, d, DeviceEntry(m, yes, roster[m].devices[d].by)) /\ yes \in BOOLEAN /\ yes
  BY DEF RevokeDevice
<1> HIDE DEF yes
<1>3. IsRoster(roster[m]) /\ roster[m].devices[d].by \in Core
  BY <1>1, Holds, EntryIs
<1>4. Turned
  BY <1>1, <1>2, <1>3, DeviceEntryIs, DeviceTurns
<1>5. eventsLeft' \in 0..MaxEvents
  BY <1>1, Holds, Counted
<1>6. QED
  BY <1>1, <1>4, <1>5, Holds DEF Typed

LetEntry(n, j) ==
  [epoch |-> IF j \in DOMAIN roster[n].cores THEN roster[n].cores[j].epoch + 1 ELSE 1,
   by |-> n, rev |-> Clock(roster[n]) + 1, removed |-> FALSE, card |-> card[j]]

LEMMA LetIs ==
  ASSUME IInv, NEW n \in Core, NEW j \in Core, In(n), j # n
  PROVE  /\ Follows(n, roster[n], Let(n, j)) /\ Let(n, j).cores[n] = roster[n].cores[n]
         /\ Settled(j, Let(n, j))
<1> DEFINE e == LetEntry(n, j)
<1>1. IsRoster(roster[n]) /\ Settled(n, roster[n]) /\ card[j] \in Nat
  BY Holds
<1>2. j \in DOMAIN roster[n].cores => roster[n].cores[j].epoch \in Nat
  BY <1>1, EntryIs
<1>3. Clock(roster[n]) + 1 \in Nat
  BY <1>1, ClockIs
<1>4. e \in Entry /\ e.by = n /\ ~e.removed /\ (j \in DOMAIN roster[n].cores => e.epoch > roster[n].cores[j].epoch)
  <2> DEFINE no == FALSE
  <2> DEFINE epoch == IF j \in DOMAIN roster[n].cores THEN roster[n].cores[j].epoch + 1 ELSE 1
  <2>1. /\ no \in BOOLEAN /\ ~no
        /\ e = [epoch |-> epoch, by |-> n, rev |-> Clock(roster[n]) + 1, removed |-> no, card |-> card[j]]
    BY DEF LetEntry
  <2>2. epoch \in Nat \ {0} /\ (j \in DOMAIN roster[n].cores => epoch > roster[n].cores[j].epoch)
    BY <1>2
  <2> HIDE DEF no, epoch, e
  <2>3. e \in Entry /\ e.by = n /\ e.removed = no /\ e.epoch = epoch
    BY <1>1, <1>3, <2>1, <2>2 DEF Entry
  <2>4. QED
    BY <2>1, <2>2, <2>3
<1>5. Let(n, j) = Admitted(roster[n], n, j, e)
  BY DEF Let, Admitted, WithCores, LetEntry
<1> HIDE DEF e
<1>6. QED
  BY <1>1, <1>4, <1>5, LetFollows

LEMMA AdmitMoves ==
  ASSUME IInv, NEW n \in Core, NEW j \in Core, Admit(n, j)
  PROVE  Turned /\ Typed
<1> DEFINE r == Let(n, j)
<1>1. /\ In(n) /\ j # n /\ roster' = [roster EXCEPT ![n] = r]
      /\ invite' = [invite EXCEPT ![n].joined = j]
      /\ wire' = wire \union {Message("welcome", n, j, r)}
      /\ card' = card /\ leaving' = leaving /\ eventsLeft' = eventsLeft
  BY DEF Admit
<1>2. Follows(n, roster[n], r) /\ r.cores[n] = roster[n].cores[n] /\ Settled(j, r)
  BY <1>1, LetIs
<1> HIDE DEF r
<1>3. roster[n].cores[n].card = card[n]
  BY <1>1, Holds
<1>4. Turned
  BY <1>1, <1>2, <1>3, OneTurns
<1>5. Sound(Message("welcome", n, j, r))
  BY <1>2, WelcomeIs DEF Follows
<1>6. invite' \in [Core -> Invitation]
  BY <1>1, Holds DEF Invitation
<1>7. QED
  BY <1>1, <1>4, <1>5, <1>6, Holds DEF Typed

LEMMA WelcomeMoves ==
  ASSUME IInv, NEW n \in Core, NEW j \in Core, Welcome(n, j)
  PROVE  Turned /\ Typed
<1>1. /\ j \in Live(roster[n]) /\ wire' = wire \union {Message("welcome", n, j, roster[n])}
      /\ roster' = roster /\ card' = card /\ invite' = invite /\ leaving' = leaving
      /\ eventsLeft' = eventsLeft
  BY DEF Welcome, Counts
<1>2. IsRoster(roster[n]) /\ Settled(n, roster[n])
  BY <1>1, Holds DEF In, Live
<1>3. Settled(j, roster[n])
  BY <1>1, <1>2 DEF Settled
<1>4. Sound(Message("welcome", n, j, roster[n]))
  BY <1>2, <1>3, WelcomeIs
<1>5. QED
  BY <1>1, <1>4, NoneTurns, Holds DEF Typed

LEMMA EnterMoves ==
  ASSUME IInv, NEW w \in wire, Enter(w)
  PROVE  Turned /\ Typed
<1>1. /\ w.kind = "welcome" /\ wire' = wire \ {w}
      /\ card' = card /\ invite' = invite /\ leaving' = leaving /\ eventsLeft' = eventsLeft
  BY DEF Enter
<1>2. w.to \in Core /\ IsRoster(w.roster) /\ Settled(w.to, w.roster)
  BY <1>1, Holds DEF Sound
<1>3. Turned
  <2>1. CASE In(w.to)
    <3>1. roster' = roster
      BY <2>1 DEF Enter
    <3>2. QED
      BY <1>1, <3>1, NoneTurns
  <2>2. CASE ~In(w.to)
    <3> DEFINE r == Published(w.to, w.roster)
    <3>1. roster' = [roster EXCEPT ![w.to] = r]
      BY <2>2 DEF Enter
    <3>2. Follows(w.to, w.roster, r) /\ r.cores[w.to].card = card[w.to]
      BY <1>2, Holds, PublishedFollows
    <3> HIDE DEF r
    <3>3. IsRoster(r) /\ Settled(w.to, r)
      BY <3>2 DEF Follows
    <3>4. QED
      BY <1>1, <1>2, <2>2, <3>1, <3>2, <3>3, OneTurns
  <2>3. QED
    BY <2>1, <2>2
<1>4. QED
  BY <1>1, <1>3, Holds DEF Typed

LEMMA RoundMoves ==
  ASSUME IInv, NEW m \in Core, Round(m)
  PROVE  Turned /\ Typed
<1>1. /\ wire' = wire \union {Message("offer", m, n, roster[m]) : n \in Live(roster[m]) \ {m}}
      /\ roster' = roster /\ card' = card /\ invite' = invite /\ leaving' = leaving
      /\ eventsLeft' = eventsLeft
  BY DEF Round
<1>2. IsRoster(roster[m])
  BY Holds
<1>3. \A n \in Live(roster[m]) : Sound(Message("offer", m, n, roster[m]))
  <2>1. Live(roster[m]) \subseteq Core
    BY <1>2, Parts DEF Live
  <2>2. QED
    BY <1>2, <2>1, MessageIs
<1>4. QED
  BY <1>1, <1>3, NoneTurns, Holds DEF Typed

LEMMA AnswerIs ==
  ASSUME IInv, NEW w \in wire, NEW kind \in Replies, NEW r, IsRoster(r), Answer(w, kind, r)
  PROVE  \A v \in wire' : Sound(v)
<1>1. w.to \in Core /\ w.from \in Core
  BY Holds DEF Sound
<1>2. Sound(Message(kind, w.to, w.from, r))
  BY <1>1, MessageIs
<1>3. wire' \subseteq wire \union {Message(kind, w.to, w.from, r)}
  BY DEF Answer
<1>4. QED
  BY <1>2, <1>3, Holds

LEMMA ReceiveMoves ==
  ASSUME IInv, NEW w \in wire, Receive(w)
  PROVE  Turned /\ Typed
<1>1. card' = card /\ leaving' = leaving /\ eventsLeft' = eventsLeft
  BY DEF Receive
<1>2. w.to \in Core /\ IsRoster(w.roster)
  BY Holds DEF Sound
<1>3. CASE ReceiveFromMember(w)
  <2> DEFINE next == Absorbed(w.to, w.roster)
  <2>1. In(w.to) /\ Becomes(w.to, next) /\ Answer(w, "answer", next)
    BY <1>3 DEF ReceiveFromMember, Counts, Live, In
  <2>2. /\ IsRoster(next)
        /\ \/ next = roster[w.to]
           \/ next = NoGroup
           \/ Follows(w.to, roster[w.to], next) /\ next.cores[w.to].card = card[w.to]
    BY <1>2, <2>1, AbsorbedIs
  <2> HIDE DEF next
  <2>3. Turned /\ invite' \in [Core -> Invitation]
    BY <1>1, <1>2, <2>1, <2>2, BecomesTurns
  <2>4. \A v \in wire' : Sound(v)
    BY <2>1, <2>2, AnswerIs DEF Replies
  <2>5. QED
    BY <1>1, <2>3, <2>4, Holds DEF Typed
<1>4. CASE ReceiveFromRemoved(w)
  <2>1. Answer(w, "gone", NoGroup) /\ roster' = roster /\ invite' = invite
    BY <1>4 DEF ReceiveFromRemoved
  <2>2. \A v \in wire' : Sound(v)
    BY <2>1, AnswerIs, NoGroupIs DEF Replies
  <2>3. QED
    BY <1>1, <2>1, <2>2, NoneTurns, Holds DEF Typed
<1>5. CASE ReceiveFromStranger(w)
  <2>1. wire' = wire \ {w} /\ roster' = roster /\ invite' = invite
    BY <1>5 DEF ReceiveFromStranger
  <2>2. QED
    BY <1>1, <2>1, NoneTurns, Holds DEF Typed
<1>6. QED
  BY <1>3, <1>4, <1>5 DEF Receive

LEMMA HearMoves ==
  ASSUME IInv, NEW w \in wire, Hear(w)
  PROVE  Turned /\ Typed
<1> DEFINE next == CASE ~Counts(w.to, w.from) -> roster[w.to]
                     [] Counts(w.to, w.from) /\ w.kind = "gone" -> NoGroup
                     [] OTHER -> Absorbed(w.to, w.roster)
<1>1. /\ wire' = wire \ {w} /\ Becomes(w.to, next)
      /\ card' = card /\ leaving' = leaving /\ eventsLeft' = eventsLeft
  BY DEF Hear
<1>2. w.to \in Core /\ IsRoster(w.roster) /\ w.kind \in Replies
  BY Holds DEF Sound, Hear
<1>3. \/ next = roster[w.to]
      \/ next = NoGroup
      \/ In(w.to) /\ Follows(w.to, roster[w.to], next) /\ next.cores[w.to].card = card[w.to]
  <2>1. CASE ~Counts(w.to, w.from) /\ w.kind # "gone"
    BY <2>1
  <2>2. CASE ~Counts(w.to, w.from) /\ w.kind = "gone"
    <3>1. next = roster[w.to] \/ next = NoGroup
      BY <2>2
    <3>2. QED
      BY <3>1
  <2>3. CASE Counts(w.to, w.from) /\ w.kind = "gone"
    BY <2>3
  <2>4. CASE Counts(w.to, w.from) /\ w.kind # "gone"
    <3>1. next = Absorbed(w.to, w.roster)
      BY <2>4
    <3>2. In(w.to)
      BY <2>4 DEF Counts, Live, In
    <3> HIDE DEF next
    <3>3. QED
      BY <1>2, <3>1, <3>2, AbsorbedIs
  <2>5. QED
    BY <2>1, <2>2, <2>3, <2>4
<1> HIDE DEF next
<1>4. Turned /\ invite' \in [Core -> Invitation]
  BY <1>1, <1>2, <1>3, BecomesTurns
<1>5. QED
  BY <1>1, <1>4, Holds DEF Typed

LEMMA LoseMoves ==
  ASSUME IInv, NEW w \in wire, Lose(w)
  PROVE  Turned /\ Typed
<1>1. /\ Act("lose") /\ wire' = wire \ {w}
      /\ roster' = roster /\ card' = card /\ invite' = invite /\ leaving' = leaving
  BY DEF Lose
<1>2. eventsLeft' \in 0..MaxEvents
  BY <1>1, Holds, Counted
<1>3. QED
  BY <1>1, <1>2, NoneTurns, Holds DEF Typed

LEMMA CrashMoves ==
  ASSUME IInv, NEW m \in Core, Crash(m)
  PROVE  Turned /\ Typed
<1>1. /\ Act("crash") /\ invite' = [invite EXCEPT ![m] = NoInvite]
      /\ leaving' = [leaving EXCEPT ![m] = 0]
      /\ wire' = {w \in wire : w.to # m \/ w.kind \in {"offer", "told"}}
      /\ roster' = roster /\ card' = card
  BY DEF Crash
<1>2. eventsLeft' \in 0..MaxEvents
  BY <1>1, Holds, Counted
<1>3. invite' \in [Core -> Invitation] /\ leaving' \in [Core -> Nat]
  BY <1>1, Holds, NoInviteIs
<1>4. QED
  BY <1>1, <1>2, <1>3, NoneTurns, Holds DEF Typed

LEMMA Moves ==
  ASSUME IInv, [Next]_vars
  PROVE  Turned /\ Typed
<1>1. CASE Owner
  BY <1>1, InviteMoves, LeaveMoves, RepublishMoves, RemoveMoves, SettingsHomeMoves, AdmitDeviceMoves,
     RevokeDeviceMoves DEF Owner
<1>2. CASE \E m \in Core : FinishLeave(m) \/ Crash(m) \/ Round(m)
  BY <1>2, FinishLeaveMoves, CrashMoves, RoundMoves
<1>3. CASE \E m, n \in Core : Admit(m, n) \/ Welcome(m, n)
  BY <1>3, AdmitMoves, WelcomeMoves
<1>4. CASE \E w \in wire : Receive(w) \/ Hear(w) \/ Enter(w) \/ Lose(w)
  BY <1>4, ReceiveMoves, HearMoves, EnterMoves, LoseMoves
<1>5. CASE UNCHANGED vars
  <2>1. /\ roster' = roster /\ card' = card /\ invite' = invite /\ leaving' = leaving
        /\ wire' = wire /\ eventsLeft' = eventsLeft
    BY <1>5 DEF vars
  <2>2. QED
    BY <2>1, NoneTurns, Holds DEF Typed
<1>6. QED
  BY <1>1, <1>2, <1>3, <1>4, <1>5 DEF Next

-----------------------------------------------------------------------------
(* The theorems.                                                           *)

LEMMA StartedIs ==
  ASSUME NEW out \in SUBSET Members
  PROVE  /\ IsRoster(Started(out)) /\ Readable(Started(out)) /\ Started(out).home = None
         /\ Live(Started(out)) = Members \ out
         /\ \A c \in Members : Started(out).cores[c].card = 0
<1> DEFINE s == Started(out)
<1> DEFINE gone(c) == c \in out
<1> DEFINE rev(c) == IF c \in out THEN Cardinality(Members) + 1
                     ELSE Cardinality({x \in Members \ {Founder} : x <= c}) + 1
<1>1. s = [cores |-> [c \in Members |->
             [epoch |-> 1, by |-> Founder, removed |-> gone(c), card |-> 0, rev |-> rev(c)]],
           devices |-> NoGroup.devices, home |-> None, homeRev |-> 0]
  BY DEF Started
<1>2. \A c \in Members : gone(c) \in BOOLEAN /\ rev(c) \in Nat
  <2>1. IsFiniteSet(Members)
    BY GroupAssumption
  <2>2. ASSUME NEW c \in Members
        PROVE  Cardinality({x \in Members \ {Founder} : x <= c}) \in Nat
    <3>1. {x \in Members \ {Founder} : x <= c} \subseteq Members
      OBVIOUS
    <3>2. QED
      BY <2>1, <3>1, FS_Subset, FS_CardinalityType
  <2>3. Cardinality(Members) \in Nat
    BY <2>1, FS_CardinalityType
  <2>4. QED
    BY <2>2, <2>3
<1>3. \A c \in Members : gone(c) <=> c \in out
  OBVIOUS
<1>4. Members \subseteq Core /\ IsFiniteSet(Members) /\ Founder \in Members
  BY GroupAssumption
<1> HIDE DEF s, gone, rev
<1>5. /\ DOMAIN s.cores = Members /\ s.devices = NoGroup.devices /\ s.home = None /\ s.homeRev = 0
      /\ s = [cores |-> s.cores, devices |-> NoGroup.devices, home |-> None, homeRev |-> 0]
  BY <1>1
<1>6. \A c \in Members :
        s.cores[c] = [epoch |-> 1, by |-> Founder, removed |-> gone(c), card |-> 0, rev |-> rev(c)]
  BY <1>1
<1>7. \A c \in Members :
        /\ s.cores[c] \in Entry /\ s.cores[c].epoch = 1 /\ s.cores[c].by = Founder
        /\ s.cores[c].removed = gone(c) /\ s.cores[c].card = 0
  <2>1. ASSUME NEW c \in Members, NEW g \in BOOLEAN, NEW n \in Nat,
               s.cores[c] = [epoch |-> 1, by |-> Founder, removed |-> g, card |-> 0, rev |-> n]
        PROVE  /\ s.cores[c] \in Entry /\ s.cores[c].epoch = 1 /\ s.cores[c].by = Founder
               /\ s.cores[c].removed = g /\ s.cores[c].card = 0
    BY <1>4, <2>1 DEF Entry
  <2>2. QED
    BY <1>2, <1>6, <2>1
<1>8. IsRoster(s)
  <2>1. s.cores \in [DOMAIN s.cores -> Entry]
    <3>1. s.cores = [c \in Members |-> s.cores[c]]
      BY <1>1
    <3>2. QED
      BY <1>5, <1>7, <3>1
  <2>2. /\ DOMAIN NoGroup.devices \subseteq Device /\ IsFiniteSet(DOMAIN NoGroup.devices)
        /\ NoGroup.devices \in [DOMAIN NoGroup.devices -> Entry]
    BY NoGroupIs, Parts
  <2>3. None \in Core \union {None} /\ 0 \in Nat
    OBVIOUS
  <2>4. QED
    BY <1>4, <1>5, <2>1, <2>2, <2>3, Whole
<1>9. Live(s) = Members \ out
  BY <1>3, <1>5, <1>7 DEF Live
<1>10. DOMAIN s.devices = {}
  BY <1>5 DEF NoGroup
<1>11. Readable(s)
  BY <1>4, <1>5, <1>7, <1>9, <1>10 DEF Readable
<1>12. QED
  BY <1>5, <1>7, <1>8, <1>9, <1>11 DEF s

LEMMA InitHolds ==
  ASSUME Init
  PROVE  IInv
<1>1. PICK out \in SUBSET Out :
        roster = [m \in Core |-> IF m = Founder THEN Started(out)
                                 ELSE IF m \in Members THEN Started({}) ELSE NoGroup]
  BY DEF Init
<1>2. /\ card = [m \in Core |-> 0] /\ invite = [m \in Core |-> NoInvite] /\ leaving = [m \in Core |-> 0]
      /\ wire = {} /\ eventsLeft = MaxEvents
  BY DEF Init
<1>3. out \in SUBSET Members /\ {} \in SUBSET Members /\ Founder \notin out /\ MaxEvents \in Nat
  BY GroupAssumption
<1>4. ASSUME NEW m \in Core
      PROVE  IsRoster(roster[m]) /\ (In(m) => Settled(m, roster[m]) /\ roster[m].cores[m].card = card[m])
  <2>1. card[m] = 0
    BY <1>2
  <2>2. CASE m = Founder
    <3>1. roster[m] = Started(out)
      BY <1>1, <2>2
    <3>2. m \in Members /\ m \notin out
      BY <1>3, <2>2, GroupAssumption
    <3>3. QED
      BY <1>3, <2>1, <3>1, <3>2, StartedIs DEF Settled
  <2>3. CASE m # Founder /\ m \in Members
    <3>1. roster[m] = Started({})
      BY <1>1, <2>3
    <3>2. QED
      BY <1>3, <2>1, <2>3, <3>1, StartedIs DEF Settled
  <2>4. CASE m \notin Members
    <3>1. roster[m] = NoGroup
      BY <1>1, <2>4, GroupAssumption
    <3>2. QED
      BY <3>1, NoGroupIs DEF In
  <2>5. QED
    BY <2>2, <2>3, <2>4
<1>5. DOMAIN roster = Core
  BY <1>1
<1>6. invite \in [Core -> Invitation]
  BY <1>2, NoInviteIs
<1>7. card \in [Core -> Nat] /\ leaving \in [Core -> Nat] /\ eventsLeft \in 0..MaxEvents
  BY <1>2, <1>3
<1>8. QED
  BY <1>2, <1>4, <1>5, <1>6, <1>7 DEF IInv, TypeOK, HoldsItself, Welcomes, Invitation

LEMMA StepHolds ==
  ASSUME IInv, [Next]_vars
  PROVE  IInv'
<1>1. DOMAIN roster' = Core /\ Typed
  BY Moves DEF Turned
<1>2. ASSUME NEW m \in Core
      PROVE  /\ IsRoster(roster'[m])
             /\ DOMAIN roster'[m].cores # {} => Settled(m, roster'[m]) /\ roster'[m].cores[m].card = card'[m]
  <2>1. CASE Kept(m)
    BY <2>1, Holds DEF Kept, In
  <2>2. CASE Cleared(m)
    BY <2>2, NoGroupIs DEF Cleared
  <2>3. CASE Changed(m)
    BY <2>3 DEF Changed, Follows
  <2>4. CASE Entered(m)
    BY <2>4 DEF Entered
  <2>5. QED
    BY <2>1, <2>2, <2>3, <2>4, Moves DEF Turned
<1>3. TypeOK'
  BY <1>1, <1>2 DEF TypeOK, Typed, Sound, Invitation
<1>4. HoldsItself'
  BY <1>2 DEF HoldsItself, In
<1>5. Welcomes'
  BY <1>1 DEF Typed, Sound, Welcomes
<1>6. QED
  BY <1>3, <1>4, <1>5 DEF IInv

\* Every state of the group is as IInv says.
THEOREM Inductive == Spec => []IInv
<1>1. Init => IInv
  BY InitHolds
<1>2. IInv /\ [Next]_vars => IInv'
  BY StepHolds
<1>3. QED
  BY <1>1, <1>2, PTL DEF Spec, Safe

\* Every roster a machine holds, or sends, is one.
THEOREM TypeCorrect == Spec => []TypeOK
<1>1. IInv => TypeOK
  BY DEF IInv
<1>2. QED
  BY <1>1, Inductive, PTL

\* What a member holds is readable, lists it, and has what it says of itself now.
THEOREM HoldsItselfAlways == Spec => []HoldsItself
<1>1. IInv => HoldsItself
  BY DEF IInv
<1>2. QED
  BY <1>1, Inductive, PTL

LEMMA NotEmpty ==
  ASSUME NEW T, NEW S \in (SUBSET T) \ {{}}
  PROVE  S \in SUBSET T /\ S # {}
<1>1. S \in SUBSET T /\ S \notin {{}}
  BY Zenon
<1>2. QED
  BY <1>1, Zenon

\* A member that stays has made its copy from the one it had.
LEMMA StepFollows ==
  ASSUME IInv, [Next]_vars, NEW m \in Core, In(m), DOMAIN roster'[m].cores # {}
  PROVE  Stands(roster[m], roster'[m]) /\ Vouches(roster[m], roster'[m])
<1>1. CASE Kept(m)
  <2>1. IsRoster(roster[m]) /\ Settled(m, roster[m])
    BY Holds
  <2>2. Follows(m, roster[m], roster[m])
    BY <2>1, NoneNew DEF Settled, Readable
  <2>3. QED
    BY <1>1, <2>2 DEF Kept, Follows
<1>2. CASE Cleared(m)
  BY <1>2, NoGroupIs DEF Cleared
<1>3. CASE Changed(m)
  BY <1>3 DEF Changed, Follows
<1>4. CASE Entered(m)
  BY <1>4 DEF Entered
<1>5. QED
  BY <1>1, <1>2, <1>3, <1>4, Moves DEF Turned

\* A removal stands: whatever is merged into the copy of a member that stays,
\* nobody is dropped from it or goes back, and who was removed stays removed.
THEOREM RemovalStandsAlways == Spec => RemovalStands
<1>1. IInv /\ [Next]_vars => [\A m \in Core : In(m) /\ In(m)' => Stands(roster[m], roster'[m])]_vars
  BY StepFollows DEF In
<1>2. QED
  BY <1>1, Inductive, PTL DEF Spec, Safe, RemovalStands

\* Nobody writes itself in: those a member comes to count were vouched for, in
\* an order that starts from machines it counted.
THEOREM GroundedAlways == Spec => Grounded
<1> DEFINE new(m) == {c \in Live(roster[m])' : Counts(m, c) => EpochAt(m, c)' > EpochAt(m, c)}
<1> DEFINE Founded ==
      \A m \in Core : In(m) /\ In(m)' =>
        LET n == {c \in Live(roster[m])' : Counts(m, c) => EpochAt(m, c)' > EpochAt(m, c)}
        IN \A S \in (SUBSET n) \ {{}} :
             \E c \in S : roster'[m].cores[c].by \in Live(roster[m]) \union (n \ S)
<1>1. ASSUME IInv, [Next]_vars
      PROVE  Founded
  <2>1. ASSUME NEW m \in Core, In(m), In(m)', NEW S \in (SUBSET new(m)) \ {{}}
        PROVE  \E c \in S : roster'[m].cores[c].by \in Live(roster[m]) \union (new(m) \ S)
    <3>1. Vouches(roster[m], roster'[m])
      BY <1>1, <2>1, StepFollows DEF In
    <3>2. new(m) = NewIn(roster[m], roster'[m])
      BY DEF NewIn, Counts, EpochAt, Live
    <3>3. S \in SUBSET NewIn(roster[m], roster'[m]) /\ S # {}
      <4> HIDE DEF new
      <4>1. QED
        BY <2>1, <3>2, NotEmpty
    <3> HIDE DEF new
    <3>4. QED
      BY <3>1, <3>2, <3>3 DEF Vouches
  <2>2. QED
    BY <2>1
<1>2. IInv /\ [Next]_vars => [Founded]_vars
  BY <1>1
<1>3. QED
  BY <1>2, Inductive, PTL DEF Spec, Safe, Grounded

=============================================================================
