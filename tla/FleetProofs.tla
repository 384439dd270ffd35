----------------------------- MODULE FleetProofs -----------------------------
(***************************************************************************)
(* Plans and the campaigns that follow them, for every finite fleet, every *)
(* set of requests and any number of campaigns, changes and restarts: the  *)
(* stages of an executable plan are sound, one member of a group is out of *)
(* service at a time, an activation is reported once for each record of    *)
(* its attempt, and no downgrade is claimed that the engine could have     *)
(* seen.                                                                   *)
(***************************************************************************)
EXTENDS CampaignFleet, FiniteSetTheorems, SequenceTheorems, TLAPS

-----------------------------------------------------------------------------
(***************************************************************************)
(* Induction over numbers. The library's induction theorems range over     *)
(* predicates; these range over sets, which every prover can instantiate.  *)
(***************************************************************************)
LEMMA Least ==
  ASSUME NEW T, T \subseteq Nat, T # {}
  PROVE  \E n \in T : \A m \in T : n <= m
<1> DEFINE R == OpToRel(<, Nat)
<1>1. IsWellFoundedOn(R, Nat)
  BY NatLessThanWellFounded
<1>2. \A m, n \in Nat : <<m, n>> \in R <=> m < n
  BY DEF OpToRel
<1> HIDE DEF R
<1>3. PICK x \in T : \A y \in T : ~ (<<y, x>> \in R)
  BY <1>1, WFMin
<1>4. x \in Nat /\ \A y \in T : y \in Nat /\ ~(y < x)
  BY <1>2, <1>3
<1>5. \A y \in T : x <= y
  BY <1>4
<1> QED BY <1>5

LEMMA Greatest ==
  ASSUME NEW k \in Nat, NEW T, T \subseteq 0..k, T # {}
  PROVE  \E n \in T : \A m \in T : m <= n
<1> DEFINE D == {k - n : n \in T}
<1>1. D \subseteq Nat /\ D # {}
  <2>1. PICK n \in T : TRUE
    OBVIOUS
  <2>2. k - n \in D
    OBVIOUS
  <2>3. \A m \in T : k - m \in Nat
    OBVIOUS
  <2> QED BY <2>2, <2>3
<1>2. PICK d \in D : \A e \in D : d <= e
  <2> HIDE DEF D
  <2> QED BY <1>1, Least
<1>3. PICK n \in T : d = k - n
  OBVIOUS
<1>4. \A m \in T : k - n <= k - m
  BY <1>2, <1>3
<1> QED BY <1>4

-----------------------------------------------------------------------------
(***************************************************************************)
(* Ranks: the place of a number in a finite set of numbers.                *)
(***************************************************************************)
UpTo(t, G) == {u \in G : u <= t}

Rank(t, G) == Cardinality(UpTo(t, G))

LEMMA RankType ==
  ASSUME NEW G, IsFiniteSet(G), NEW t
  PROVE  /\ IsFiniteSet(UpTo(t, G))
         /\ Rank(t, G) \in Nat /\ Rank(t, G) <= Cardinality(G)
         /\ Cardinality(G) \in Nat
<1>1. UpTo(t, G) \in SUBSET G
  BY DEF UpTo
<1> QED BY <1>1, FS_Subset, FS_CardinalityType DEF Rank

LEMMA RankPositive ==
  ASSUME NEW G, G \subseteq Nat, IsFiniteSet(G), NEW t \in G
  PROVE  Rank(t, G) >= 1
<1>1. t \in UpTo(t, G)
  BY DEF UpTo
<1>2. UpTo(t, G) # {}
  BY <1>1
<1>3. IsFiniteSet(UpTo(t, G)) /\ Rank(t, G) \in Nat
  BY RankType
<1>4. Cardinality(UpTo(t, G)) # 0
  BY <1>2, <1>3, FS_EmptySet
<1> QED BY <1>3, <1>4 DEF Rank

\* Two members of a set have different places in it.
LEMMA RankGrows ==
  ASSUME NEW G, G \subseteq Nat, IsFiniteSet(G), NEW t \in G, NEW u \in G, t < u
  PROVE  Rank(t, G) < Rank(u, G)
<1>1. UpTo(t, G) \in SUBSET UpTo(u, G)
  <2> SUFFICES ASSUME NEW n \in UpTo(t, G) PROVE n \in UpTo(u, G)
    OBVIOUS
  <2>1. n \in G /\ n \in Nat /\ t \in Nat /\ u \in Nat /\ n <= t /\ t < u
    BY DEF UpTo
  <2>2. n <= u
    BY <2>1
  <2> QED BY <2>1, <2>2 DEF UpTo
<1>2. u \in UpTo(u, G) /\ u \notin UpTo(t, G)
  BY DEF UpTo
<1>3. UpTo(t, G) # UpTo(u, G)
  BY <1>2
<1>4. IsFiniteSet(UpTo(u, G)) /\ Rank(t, G) \in Nat /\ Rank(u, G) \in Nat
  BY RankType
<1> QED BY <1>1, <1>3, <1>4, FS_Subset DEF Rank

LEMMA RankInjective ==
  ASSUME NEW G, G \subseteq Nat, IsFiniteSet(G), NEW t \in G, NEW u \in G,
         Rank(t, G) = Rank(u, G)
  PROVE  t = u
<1>1. t \in Nat /\ u \in Nat
  OBVIOUS
<1>2. Rank(t, G) \in Nat
  BY RankType
<1>3. t < u => Rank(t, G) < Rank(u, G)
  BY RankGrows
<1>4. u < t => Rank(u, G) < Rank(t, G)
  BY RankGrows
<1> QED BY <1>1, <1>2, <1>3, <1>4

\* Whoever is not the first has someone right before.
LEMMA RankBefore ==
  ASSUME NEW G, G \subseteq Nat, IsFiniteSet(G), NEW t \in G, Rank(t, G) > 1
  PROVE  \E m \in G : Rank(m, G) = Rank(t, G) - 1
<1> DEFINE B == UpTo(t, G) \ {t}
<1>1. t \in UpTo(t, G) /\ IsFiniteSet(UpTo(t, G)) /\ Rank(t, G) \in Nat
  BY RankType DEF UpTo
<1>2. IsFiniteSet(B) /\ Cardinality(B) = Rank(t, G) - 1
  BY <1>1, FS_RemoveElement DEF Rank
<1>3. B # {}
  BY <1>1, <1>2, FS_EmptySet
<1>4. B \subseteq 0..t
  <2>1. \A n \in B : n \in Nat /\ t \in Nat /\ n <= t
    BY DEF UpTo
  <2> QED BY <2>1
<1>5. PICK m \in B : \A n \in B : n <= m
  <2> HIDE DEF B
  <2> QED BY <1>3, <1>4, Greatest
<1>6. UpTo(m, G) = B
  <2>1. m \in G /\ m < t /\ t \in Nat /\ m \in Nat
    BY <1>5 DEF UpTo
  <2>2. ASSUME NEW n \in B PROVE n \in UpTo(m, G)
    BY <1>5, <2>2 DEF UpTo
  <2>3. ASSUME NEW n \in UpTo(m, G) PROVE n \in B
    BY <2>1, <2>3 DEF UpTo
  <2> QED BY <2>2, <2>3
<1>7. m \in G
  BY <1>5 DEF UpTo
<1> QED BY <1>2, <1>6, <1>7 DEF Rank

\* Every place up to the number of members is taken.
LEMMA RankOnto ==
  ASSUME NEW G, G \subseteq Nat, IsFiniteSet(G), NEW i \in 1..Cardinality(G)
  PROVE  \E t \in G : Rank(t, G) = i
<1> DEFINE n == Cardinality(G)
           place == [t \in G |-> Rank(t, G)]
<1>1. n \in Nat
  BY FS_CardinalityType
<1>2. \A t \in G : Rank(t, G) \in 1..n
  <2> SUFFICES ASSUME NEW t \in G PROVE Rank(t, G) \in 1..n
    OBVIOUS
  <2>1. Rank(t, G) \in Nat /\ Rank(t, G) <= n
    BY RankType
  <2>2. Rank(t, G) >= 1
    BY RankPositive
  <2> QED BY <1>1, <2>1, <2>2
<1>3. place \in Injection(G, 1..n)
  BY <1>2, RankInjective DEF Injection, IsInjective
<1>4. IsFiniteSet(1..n) /\ Cardinality(1..n) = n
  BY <1>1, FS_Interval
<1>5. place \in Surjection(G, 1..n)
  BY <1>3, <1>4, FS_Injection
<1> QED BY <1>5 DEF Surjection

-----------------------------------------------------------------------------
(***************************************************************************)
(* The stages of build_plan.                                               *)
(***************************************************************************)
GroupIn(t, S, inv) == {u \in S : inv[u].group = inv[t].group}

LEMMA RankInGroup ==
  ASSUME NEW S, NEW inv, NEW t \in S
  PROVE  RankIn(t, S, inv) = Rank(t, GroupIn(t, S, inv))
<1>1. {u \in S : u <= t /\ inv[u].group = inv[t].group} = UpTo(t, GroupIn(t, S, inv))
  BY DEF UpTo, GroupIn
<1> QED BY <1>1 DEF RankIn, Rank

LEMMA GroupFinite ==
  ASSUME NEW S, S \subseteq Nat, IsFiniteSet(S), NEW inv, NEW t \in S
  PROVE  /\ GroupIn(t, S, inv) \subseteq Nat /\ t \in GroupIn(t, S, inv)
         /\ IsFiniteSet(GroupIn(t, S, inv))
         /\ Cardinality(GroupIn(t, S, inv)) \in Nat /\ Cardinality(S) \in Nat
         /\ Cardinality(GroupIn(t, S, inv)) <= Cardinality(S)
<1>1. GroupIn(t, S, inv) \in SUBSET S /\ t \in GroupIn(t, S, inv)
  BY DEF GroupIn
<1>2. IsFiniteSet(GroupIn(t, S, inv)) /\ Cardinality(GroupIn(t, S, inv)) <= Cardinality(S)
  BY <1>1, FS_Subset
<1>3. Cardinality(GroupIn(t, S, inv)) \in Nat /\ Cardinality(S) \in Nat
  BY <1>2, FS_CardinalityType
<1> QED BY <1>1, <1>2, <1>3

LEMMA RankInRange ==
  ASSUME NEW S, S \subseteq Nat, IsFiniteSet(S), NEW inv, NEW t \in S
  PROVE  RankIn(t, S, inv) \in 1..Cardinality(S)
<1> DEFINE G == GroupIn(t, S, inv)
<1>1. G \subseteq Nat /\ t \in G /\ IsFiniteSet(G)
  BY GroupFinite
<1>2. Cardinality(G) \in Nat /\ Cardinality(S) \in Nat /\ Cardinality(G) <= Cardinality(S)
  BY GroupFinite
<1>3. Rank(t, G) \in Nat /\ Rank(t, G) <= Cardinality(G)
  BY <1>1, RankType
<1>4. Rank(t, G) >= 1
  BY <1>1, RankPositive
<1>5. RankIn(t, S, inv) = Rank(t, G)
  BY RankInGroup
<1> HIDE DEF G
<1> QED BY <1>2, <1>3, <1>4, <1>5

\* No two members of a group are in one wave.
LEMMA WaveParts ==
  ASSUME NEW S, S \subseteq Nat, IsFiniteSet(S), NEW inv, NEW k,
         NEW t \in Wave(k, S, inv), NEW u \in Wave(k, S, inv),
         inv[t].group = inv[u].group
  PROVE  t = u
<1> DEFINE G == GroupIn(t, S, inv)
<1>1. t \in S /\ u \in S /\ RankIn(t, S, inv) = RankIn(u, S, inv)
  BY DEF Wave
<1>2. GroupIn(u, S, inv) = G
  BY DEF GroupIn
<1>3. G \subseteq Nat /\ IsFiniteSet(G) /\ t \in G
  BY <1>1, GroupFinite
<1>4. u \in G
  BY <1>1 DEF GroupIn
<1>5. Rank(t, G) = Rank(u, G)
  BY <1>1, <1>2, RankInGroup
<1> HIDE DEF G
<1> QED BY <1>3, <1>4, <1>5, RankInjective

\* A wave that is not the first follows one that is not empty.
LEMMA WaveFollows ==
  ASSUME NEW S, S \subseteq Nat, IsFiniteSet(S), NEW inv, NEW k \in Nat, k > 1,
         Wave(k, S, inv) # {}
  PROVE  Wave(k - 1, S, inv) # {}
<1>1. PICK t \in S : inv[t].group # NoGroup /\ RankIn(t, S, inv) = k
  BY DEF Wave
<1> DEFINE G == GroupIn(t, S, inv)
<1>2. G \subseteq Nat /\ IsFiniteSet(G) /\ t \in G
  BY GroupFinite
<1>3. Rank(t, G) = k
  BY <1>1, RankInGroup
<1>4. PICK m \in G : Rank(m, G) = k - 1
  <2> HIDE DEF G
  <2>1. Rank(t, G) > 1
    BY <1>3
  <2>2. \E m \in G : Rank(m, G) = Rank(t, G) - 1
    BY <1>2, <2>1, RankBefore
  <2> QED BY <1>3, <2>2
<1>5. m \in S /\ inv[m].group = inv[t].group
  BY <1>4 DEF GroupIn
<1>6. GroupIn(m, S, inv) = G
  BY <1>5 DEF GroupIn
<1>7. RankIn(m, S, inv) = k - 1
  BY <1>4, <1>5, <1>6, RankInGroup
<1>8. m \in Wave(k - 1, S, inv)
  BY <1>1, <1>5, <1>7 DEF Wave
<1> QED BY <1>8

\* The waves that are not empty are the first ones.
LEMMA WavesCounted ==
  ASSUME NEW S, S \subseteq Nat, IsFiniteSet(S), NEW inv
  PROVE  /\ WaveCount(S, inv) \in 0..Cardinality(S)
         /\ \A k \in 1..Cardinality(S) : Wave(k, S, inv) # {} <=> k <= WaveCount(S, inv)
<1> DEFINE n == Cardinality(S)
           K == {k \in 1..n : Wave(k, S, inv) # {}}
           Free == {k \in Nat : k + 1 \notin K}
<1>1. n \in Nat
  BY FS_CardinalityType
<1>2. \A k \in K : k > 1 => k - 1 \in K
  <2> SUFFICES ASSUME NEW k \in K, k > 1 PROVE k - 1 \in K
    OBVIOUS
  <2>1. k \in 1..n /\ k \in Nat /\ k - 1 \in 1..n
    BY <1>1
  <2>2. Wave(k - 1, S, inv) # {}
    BY <2>1, WaveFollows
  <2> QED BY <2>1, <2>2
<1>3. PICK m \in Free : \A k \in Free : m <= k
  <2>1. n \in Free
    BY <1>1
  <2>2. Free \subseteq Nat /\ Free # {}
    BY <2>1
  <2> HIDE DEF Free
  <2> QED BY <2>2, Least
<1>4. m \in 0..n
  <2>1. n \in Free
    BY <1>1
  <2>2. m <= n
    BY <1>3, <2>1
  <2> QED BY <1>1, <1>3, <2>2
<1>5. ASSUME NEW k \in 1..n, k <= m PROVE k \in K
  <2>1. k \in Nat /\ k - 1 \in Nat /\ m \in Nat /\ k - 1 < m
    BY <1>1, <1>4, <1>5
  <2>2. k - 1 \notin Free
    BY <1>3, <2>1
  <2> QED BY <2>1, <2>2
<1>6. ASSUME NEW k \in K, k > m PROVE FALSE
  <2> DEFINE T == {j \in K : j > m}
  <2>1. T \subseteq Nat /\ k \in T
    BY <1>1, <1>6
  <2>2. PICK j \in T : \A i \in T : j <= i
    <3> HIDE DEF T
    <3> QED BY <2>1, Least
  <2>3. j \in K /\ j > m /\ j \in Nat /\ m \in Nat
    BY <1>1, <1>4
  <2>4. m + 1 \notin K
    BY <1>3
  <2>5. j > m + 1 /\ j > 1
    BY <2>3, <2>4
  <2>6. j - 1 \in K
    BY <1>2, <2>3, <2>5
  <2>7. j - 1 \in T
    BY <2>3, <2>5, <2>6
  <2>8. j <= j - 1
    BY <2>2, <2>7
  <2> QED BY <2>3, <2>8
<1>7. \A k \in 1..n : Wave(k, S, inv) # {} <=> k <= m
  <2> SUFFICES ASSUME NEW k \in 1..n PROVE Wave(k, S, inv) # {} <=> k <= m
    OBVIOUS
  <2>1. k \in Nat /\ m \in Nat
    BY <1>1, <1>4
  <2>2. k <= m \/ k > m
    BY <2>1
  <2> QED BY <1>5, <1>6, <2>2
<1>8. WaveCount(S, inv) = CHOOSE i \in 0..n : \A k \in 1..n : Wave(k, S, inv) # {} <=> k <= i
  BY DEF WaveCount
<1> HIDE DEF n, K, Free
<1>9. \E i \in 0..n : \A k \in 1..n : Wave(k, S, inv) # {} <=> k <= i
  BY <1>4, <1>7
<1>10. WaveCount(S, inv) \in 0..n /\ \A k \in 1..n : Wave(k, S, inv) # {} <=> k <= WaveCount(S, inv)
  BY <1>8, <1>9
<1> QED BY <1>10 DEF n

\* Each number up to the size of a set stands for one of its targets.
LEMMA NthTargets ==
  ASSUME NEW S, S \subseteq Nat, IsFiniteSet(S), NEW i \in 1..Cardinality(S)
  PROVE  NthTarget(i, S) \in S /\ Rank(NthTarget(i, S), S) = i
<1>1. \E t \in S : Rank(t, S) = i
  BY RankOnto
<1>2. \A t \in S : Rank(t, S) = Cardinality({u \in S : u <= t})
  BY DEF Rank, UpTo
<1>3. \E t \in S : Cardinality({u \in S : u <= t}) = i
  BY <1>1, <1>2
<1>4. NthTarget(i, S) \in S /\ Cardinality({u \in S : u <= NthTarget(i, S)}) = i
  BY <1>3 DEF NthTarget
<1> QED BY <1>2, <1>4

\* The sets of targets of the stages: taken from those selected, apart from each
\* other, one by one for restarts, apart within a group for a rolling replacement.
StageSetsSound(sets, strategy, S, inv) ==
  /\ sets \in Seq(SUBSET S)
  /\ \A j, k \in DOMAIN sets : j # k => sets[j] \cap sets[k] = {}
  /\ strategy = "restart_based" => \A k \in DOMAIN sets : Cardinality(sets[k]) = 1
  /\ strategy = "redundant_pair_rolling" =>
       \A k \in DOMAIN sets : \A t, u \in sets[k] : inv[t].group = inv[u].group => t = u
  /\ (strategy = "redundant_pair_rolling" => \A t \in S : inv[t].group # NoGroup)
       => \A t \in S : \E k \in DOMAIN sets : t \in sets[k]

LEMMA AtOnceStages ==
  ASSUME NEW strategy \in {"in_place", "control_plane_generation_handoff"}, NEW S, NEW inv
  PROVE  StageSetsSound(StageSets(strategy, S, inv), strategy, S, inv)
<1>1. StageSets(strategy, S, inv) = <<S>>
  BY DEF StageSets
<1>2. <<S>> \in Seq(SUBSET S) /\ DOMAIN <<S>> = {1} /\ <<S>>[1] = S
  OBVIOUS
<1>3. strategy # "restart_based" /\ strategy # "redundant_pair_rolling"
  OBVIOUS
<1> QED BY <1>1, <1>2, <1>3 DEF StageSetsSound

LEMMA RestartStages ==
  ASSUME NEW S, S \subseteq Nat, IsFiniteSet(S), NEW inv
  PROVE  StageSetsSound(StageSets("restart_based", S, inv), "restart_based", S, inv)
<1> DEFINE n == Cardinality(S)
           sets == [i \in 1..n |-> {NthTarget(i, S)}]
<1>1. StageSets("restart_based", S, inv) = sets
  BY DEF StageSets
<1>2. n \in Nat
  BY FS_CardinalityType
<1>3. \A i \in 1..n : NthTarget(i, S) \in S /\ Rank(NthTarget(i, S), S) = i
  BY NthTargets
<1>4. sets \in Seq(SUBSET S) /\ DOMAIN sets = 1..n
  <2>1. \A i \in 1..n : {NthTarget(i, S)} \in SUBSET S
    BY <1>3
  <2> HIDE DEF n
  <2>2. sets \in [1..n -> SUBSET S]
    BY <2>1
  <2> QED BY <1>2, <2>2
<1>5. \A j, k \in DOMAIN sets : j # k => sets[j] \cap sets[k] = {}
  BY <1>3
<1>6. \A k \in DOMAIN sets : Cardinality(sets[k]) = 1
  BY FS_Singleton
<1>7. ASSUME NEW t \in S PROVE \E k \in DOMAIN sets : t \in sets[k]
  <2>1. Rank(t, S) \in Nat /\ Rank(t, S) <= n
    BY RankType
  <2>2. Rank(t, S) >= 1
    BY RankPositive
  <2>3. Rank(t, S) \in 1..n
    BY <1>2, <2>1, <2>2
  <2>4. NthTarget(Rank(t, S), S) \in S /\ Rank(NthTarget(Rank(t, S), S), S) = Rank(t, S)
    BY <1>3, <2>3
  <2>5. NthTarget(Rank(t, S), S) = t
    BY <2>4, RankInjective
  <2> QED BY <2>3, <2>5
<1> HIDE DEF sets
<1>8. StageSetsSound(sets, "restart_based", S, inv)
  BY <1>4, <1>5, <1>6, <1>7 DEF StageSetsSound
<1> QED BY <1>1, <1>8

LEMMA RollingStages ==
  ASSUME NEW S, S \subseteq Nat, IsFiniteSet(S), NEW inv
  PROVE  StageSetsSound(StageSets("redundant_pair_rolling", S, inv),
                        "redundant_pair_rolling", S, inv)
<1> DEFINE n == WaveCount(S, inv)
           sets == [k \in 1..n |-> Wave(k, S, inv)]
<1>1. StageSets("redundant_pair_rolling", S, inv) = sets
  BY DEF StageSets
<1>2. n \in 0..Cardinality(S) /\ Cardinality(S) \in Nat
  BY WavesCounted, FS_CardinalityType
<1>3. \A k \in 1..Cardinality(S) : Wave(k, S, inv) # {} <=> k <= n
  BY WavesCounted
<1>4. sets \in Seq(SUBSET S) /\ DOMAIN sets = 1..n
  <2>1. \A i \in 1..n : Wave(i, S, inv) \in SUBSET S
    BY DEF Wave
  <2> HIDE DEF n
  <2>2. sets \in [1..n -> SUBSET S]
    BY <2>1
  <2>3. n \in Nat
    BY <1>2
  <2> QED BY <2>2, <2>3
<1>5. \A j, k \in DOMAIN sets : j # k => sets[j] \cap sets[k] = {}
  BY DEF Wave
<1>6. ASSUME NEW k \in DOMAIN sets, NEW t \in sets[k], NEW u \in sets[k],
             inv[t].group = inv[u].group
      PROVE  t = u
  BY <1>6, WaveParts
<1>7. ASSUME NEW t \in S, inv[t].group # NoGroup PROVE \E k \in DOMAIN sets : t \in sets[k]
  <2> DEFINE k == RankIn(t, S, inv)
  <2>1. k \in 1..Cardinality(S)
    BY RankInRange
  <2>2. t \in Wave(k, S, inv)
    BY <1>7 DEF Wave
  <2>3. k <= n
    BY <1>3, <2>1, <2>2
  <2> HIDE DEF k, n
  <2>4. k \in 1..n
    BY <1>2, <2>1, <2>3
  <2> QED BY <2>2, <2>4
<1> HIDE DEF sets
<1>8. StageSetsSound(sets, "redundant_pair_rolling", S, inv)
  BY <1>4, <1>5, <1>6, <1>7 DEF StageSetsSound
<1> QED BY <1>1, <1>8

LEMMA StagesOfAnyStrategy ==
  ASSUME NEW strategy \in Strategies, NEW S, S \subseteq Nat, IsFiniteSet(S), NEW inv
  PROVE  StageSetsSound(StageSets(strategy, S, inv), strategy, S, inv)
BY AtOnceStages, RestartStages, RollingStages DEF Strategies

-----------------------------------------------------------------------------
(***************************************************************************)
(* The plans of build_plan. An inventory is faithful when it lists targets *)
(* of the fleet, with the redundancy groups they have.                     *)
(***************************************************************************)
Faithful(inv) ==
  /\ DOMAIN inv \subseteq Targets
  /\ \A t \in DOMAIN inv : inv[t].group = Catalog[t].group

LEMMA FiniteTargets == Targets \subseteq Nat /\ IsFiniteSet(Targets)
BY FleetAssumption

LEMMA RequestTypes ==
  ASSUME NEW r \in Requests
  PROVE  /\ r.targets \in Seq(Nat) /\ r.strategy \in Strategies /\ r.max_parallel \in Nat
         /\ r.artifact.version \in Version
BY FleetAssumption

LEMMA SelectedFromFleet ==
  ASSUME NEW r \in Requests, NEW inv, Faithful(inv)
  PROVE  /\ Selected(r, inv) \subseteq DOMAIN inv /\ Selected(r, inv) \subseteq Targets
         /\ Selected(r, inv) \subseteq Nat /\ IsFiniteSet(Selected(r, inv))
<1>1. Selected(r, inv) \subseteq DOMAIN inv
  BY DEF Selected, Entries
<1>2. Selected(r, inv) \in SUBSET Targets
  BY <1>1 DEF Faithful
<1>3. IsFiniteSet(Selected(r, inv))
  BY <1>2, FiniteTargets, FS_Subset
<1> QED BY <1>1, <1>2, <1>3, FiniteTargets

LEMMA PlanStages ==
  ASSUME NEW r \in Requests, NEW inv, Faithful(inv)
  PROVE  LET S == Selected(r, inv)
             sets == StageSets(r.strategy, S, inv)
             st == BuildPlan(r, inv, Policy).stages
         IN /\ StageSetsSound(sets, r.strategy, S, inv)
            /\ st \in Seq(Stages) /\ DOMAIN st = DOMAIN sets
            /\ \A k \in DOMAIN st : st[k].targets = sets[k]
<1> DEFINE S == Selected(r, inv)
           sets == StageSets(r.strategy, S, inv)
           st == BuildPlan(r, inv, Policy).stages
<1>1. S \subseteq Targets /\ S \subseteq Nat /\ IsFiniteSet(S)
  BY SelectedFromFleet
<1>2. StageSetsSound(sets, r.strategy, S, inv)
  BY <1>1, RequestTypes, StagesOfAnyStrategy
<1>3. st = [k \in DOMAIN sets |-> MakeStage(sets[k], r, inv)]
  BY DEF BuildPlan
<1>4. sets \in Seq(SUBSET S)
  BY <1>2 DEF StageSetsSound
<1> HIDE DEF sets, S, st
<1>5. Len(sets) \in Nat /\ DOMAIN sets = 1..Len(sets) /\ \A k \in DOMAIN sets : sets[k] \in SUBSET Targets
  <2>1. Len(sets) \in Nat /\ DOMAIN sets = 1..Len(sets)
    BY <1>4
  <2>2. \A k \in DOMAIN sets : sets[k] \in SUBSET S
    BY <1>4
  <2>3. \A k \in DOMAIN sets : sets[k] \in SUBSET Targets
    BY <1>1, <2>2
  <2> QED BY <2>1, <2>3
<1>6. \A k \in DOMAIN sets : MakeStage(sets[k], r, inv) \in Stages
  BY <1>5, RequestTypes DEF MakeStage, Stages
<1>7. st \in [1..Len(sets) -> Stages]
  BY <1>3, <1>5, <1>6
<1>8. st \in Seq(Stages)
  BY <1>5, <1>7
<1>9. \A k \in DOMAIN st : st[k].targets = sets[k]
  BY <1>3 DEF MakeStage
<1> QED BY <1>2, <1>3, <1>8, <1>9 DEF S, sets, st

\* What build_plan rejects is not there in an executable plan.
LEMMA NothingRejected ==
  ASSUME NEW r \in Requests, NEW inv, Faithful(inv), Executable(BuildPlan(r, inv, Policy))
  PROVE  /\ Selected(r, inv) # {}
         /\ r.strategy = "redundant_pair_rolling" =>
              \A t \in Selected(r, inv) :
                /\ inv[t].group # NoGroup
                /\ \E u \in Selected(r, inv) : inv[u].group = inv[t].group /\ u # t
<1> DEFINE S == Selected(r, inv)
<1>1. RequestRejections(r, inv, Policy) = {} /\ GroupRejections(r, inv) = {}
  <2>1. BuildPlan(r, inv, Policy).rejections = {}
    BY DEF Executable
  <2>2. /\ RequestRejections(r, inv, Policy) \subseteq BuildPlan(r, inv, Policy).rejections
        /\ GroupRejections(r, inv) \subseteq BuildPlan(r, inv, Policy).rejections
    <3>1. ASSUME NEW x \in RequestRejections(r, inv, Policy)
          PROVE  x \in BuildPlan(r, inv, Policy).rejections
      BY <3>1 DEF BuildPlan
    <3>2. ASSUME NEW x \in GroupRejections(r, inv)
          PROVE  x \in BuildPlan(r, inv, Policy).rejections
      BY <3>2 DEF BuildPlan
    <3> QED BY <3>1, <3>2
  <2> QED BY <2>1, <2>2
<1>2. S # {}
  <2>1. (IF S = {} THEN {<<"no_targets", r.component>>} ELSE {}) = {}
    BY <1>1 DEF RequestRejections
  <2> QED BY <2>1
<1>3. ASSUME r.strategy = "redundant_pair_rolling", NEW t \in S
      PROVE  inv[t].group # NoGroup /\ \E u \in S : inv[u].group = inv[t].group /\ u # t
  <2> DEFINE lonely(x) == \A u \in S : inv[u].group = inv[x].group => u = x
  <2>1. /\ {<<"strategy_unsupported", x>> : x \in {u \in S : inv[u].group = NoGroup}} = {}
        /\ {<<"strategy_unsupported", inv[x].group>> :
              x \in {u \in S : inv[u].group # NoGroup /\ lonely(u)}} = {}
    BY <1>1, <1>3 DEF GroupRejections
  <2> HIDE DEF lonely
  <2>2. {u \in S : inv[u].group = NoGroup} = {}
    BY <2>1
  <2>3. {u \in S : inv[u].group # NoGroup /\ lonely(u)} = {}
    BY <2>1
  <2>4. ~lonely(t)
    BY <2>2, <2>3
  <2> QED BY <2>2, <2>4 DEF lonely
<1> QED BY <1>2, <1>3

\* Whatever the inventory holds, a request has sound stages in it or its plan is
\* rejected.
LEMMA ExecutableIsSound ==
  ASSUME NEW r \in Requests, NEW inv, Faithful(inv), Executable(BuildPlan(r, inv, Policy))
  PROVE  SoundStages(BuildPlan(r, inv, Policy), r.strategy)
<1> DEFINE S == Selected(r, inv)
           sets == StageSets(r.strategy, S, inv)
           plan == BuildPlan(r, inv, Policy)
           st == plan.stages
           rolling == r.strategy = "redundant_pair_rolling"
<1>1. StageSetsSound(sets, r.strategy, S, inv)
  BY PlanStages
<1>2. DOMAIN st = DOMAIN sets /\ \A k \in DOMAIN st : st[k].targets = sets[k]
  BY PlanStages
<1>3. S # {}
  BY NothingRejected
<1>4. rolling => \A t \in S : inv[t].group # NoGroup /\ \E u \in S : inv[u].group = inv[t].group /\ u # t
  BY NothingRejected
<1>5. S \subseteq DOMAIN inv /\ S \subseteq Targets
  BY SelectedFromFleet
<1>6. \A k \in DOMAIN st : st[k].targets \subseteq S
  BY <1>1, <1>2 DEF StageSetsSound
<1>7. PlannedTargets(plan) = S
  <2>1. \A t \in S : \E k \in DOMAIN sets : t \in sets[k]
    BY <1>1, <1>4 DEF StageSetsSound
  <2>2. PlannedTargets(plan) = UNION {st[k].targets : k \in DOMAIN st}
    BY DEF PlannedTargets
  <2> HIDE DEF st, sets, S, plan
  <2> QED BY <1>2, <1>6, <2>1, <2>2
<1>8. \A t \in S : inv[t].group = Group(t)
  BY <1>5 DEF Faithful, Group
<1>9. \A j, k \in DOMAIN st : j # k => st[j].targets \cap st[k].targets = {}
  BY <1>1, <1>2 DEF StageSetsSound
<1>10. r.strategy = "restart_based" => \A k \in DOMAIN st : Cardinality(st[k].targets) = 1
  BY <1>1, <1>2 DEF StageSetsSound
<1>11. ASSUME rolling, NEW k \in DOMAIN st, NEW t \in st[k].targets
       PROVE  Partners(t) \cap st[k].targets = {}
  <2>1. \A u \in st[k].targets : inv[t].group = inv[u].group => t = u
    BY <1>1, <1>2, <1>11 DEF StageSetsSound
  <2>2. t \in S /\ \A u \in st[k].targets : u \in S
    BY <1>6
  <2> HIDE DEF st, S
  <2> QED BY <1>8, <2>1, <2>2 DEF Partners
<1>12. ASSUME rolling, NEW t \in S PROVE Partners(t) \cap S # {}
  <2>1. PICK u \in S : inv[u].group = inv[t].group /\ u # t
    BY <1>4, <1>12
  <2>2. inv[t].group # NoGroup
    BY <1>4, <1>12
  <2>3. u \in Partners(t)
    BY <1>5, <1>8, <2>1, <2>2 DEF Partners
  <2> QED BY <2>3
<1>13. rolling => /\ \A k \in DOMAIN st : \A t \in st[k].targets :
                        Partners(t) \cap st[k].targets = {}
                  /\ \A t \in S : Partners(t) \cap S # {}
  BY <1>11, <1>12
<1> HIDE DEF S, plan
<1> QED BY <1>3, <1>7, <1>9, <1>10, <1>13 DEF SoundStages, plan

-----------------------------------------------------------------------------
(***************************************************************************)
(* The inductive invariant. Its parts speak of the record r of a campaign, *)
(* of its attempts a and, where it matters, of what it may not know.       *)
(***************************************************************************)
AttemptRecords ==
  [st : AttemptStates, gen : 0..MaxGeneration, item : 0..MaxGeneration,
   named : BOOLEAN, fresh : BOOLEAN]

\* The fleet, what the engine keeps for all campaigns, and the counters.
Typed ==
  /\ version \in [Targets -> Version]
  /\ listing \in [Targets -> Listings]
  /\ inv_fresh \in BOOLEAN
  /\ att \in [CampaignIds -> [Targets -> AttemptRecords]]
  /\ inc \in 1..MaxIncarnation /\ changes \in 0..MaxChanges
  /\ unseen \subseteq Targets
  /\ stale \in [CampaignIds -> SUBSET Targets]
  /\ reported \in [CampaignIds -> [Targets -> Nat]]
  /\ lost \in [CampaignIds -> [Targets -> Nat]]
  /\ camp = [c \in CampaignIds |-> camp[c]]

\* The inventory lists targets of the fleet; but for those that changed since, it
\* has the version they run or none.
Seen ==
  /\ Faithful(inventory)
  /\ \A t \in DOMAIN inventory \ unseen : inventory[t].installed \in {NoVersion, version[t]}

IsCampaign(r) ==
  r = [state |-> r.state, request |-> r.request, plan |-> r.plan, gen |-> r.gen,
       ticket |-> r.ticket, active |-> r.active, stages |-> r.stages]

\* A campaign with a valid ticket, or past its preflight, has an executable plan,
\* and executable plans have sound stages.
Checked(r) ==
  /\ Executable(r.plan) => SoundStages(r.plan, r.request.strategy)
  /\ (r.ticket # 0 \/ r.state \notin {"proposed", "blocked"}) => Executable(r.plan)

\* What is touched belongs to a stage up to the active one, and what belongs to
\* an earlier one is verified.
Placed(r, a) ==
  \A t \in Targets : a[t].st # "none" =>
    /\ Executable(r.plan)
    /\ \E k \in DOMAIN r.plan.stages :
         /\ t \in r.plan.stages[k].targets
         /\ k <= r.active
         /\ k < r.active => a[t].st = "verified"

\* While a campaign activates, a prepared target is no newer than its artifact,
\* as far as its last assessment of the skew could tell: v are the versions, blind
\* the targets that changed since.
Informed(r, a, blind, v) ==
  r.state = "activating" =>
    \A t \in Targets : a[t].st = "prepared" =>
      \/ t \in blind
      \/ ~Less(r.request.artifact.version, v[t])
      \/ PairAllowed(r.request.budget, v[t], r.request.artifact.version)

Sound(r, a, blind, v) ==
  IF r = NoCampaign THEN \A t \in Targets : a[t].st = "none"
  ELSE /\ IsCampaign(r) /\ TypeOKOfCampaign(r) /\ Checked(r)
       /\ Placed(r, a) /\ Informed(r, a, blind, v)

\* An item is out for an attempt that is activating.
Out(a) == \A t \in Targets : a[t].item # 0 => a[t].st = "activating"

\* Before an attempt is activated its activation is not in the ledger: n are the
\* reports, m the lost records.
Told(a, n, m) ==
  \A t \in Targets :
    n[t] <= m[t] + (IF a[t].st \in {"none", "prepared", "activating"} THEN 0 ELSE 1)

Good(c) ==
  /\ Sound(camp[c], att[c], stale[c], version)
  /\ Out(att[c])
  /\ Told(att[c], reported[c], lost[c])

IInv == Typed /\ Seen /\ \A c \in CampaignIds : Good(c)

-----------------------------------------------------------------------------
(* The constants. *)

LEMMA Bounds == MaxChanges \in Nat /\ MaxGeneration \in Nat \ {0} /\ MaxIncarnation \in Nat \ {0}
BY FleetAssumption

LEMMA FleetTypes ==
  /\ Unsteady \subseteq Targets
  /\ \A c \in CampaignIds : RequestsOf[c] \subseteq Requests
  /\ Listings \subseteq {"version", "blank", "absent"} /\ "version" \in Listings
  /\ Installed \in [Targets -> Version] /\ DriftVersions \subseteq Version
BY FleetAssumption

LEMMA NoVersionType == NoVersion \in Version
BY DEF NoVersion, V, Version

LEMMA NoAttemptType == NoAttempt \in AttemptRecords
<1>1. 0 \in 0..MaxGeneration
  BY Bounds
<1> QED BY <1>1 DEF NoAttempt, AttemptRecords, AttemptStates

-----------------------------------------------------------------------------
(* The record of a campaign. *)

\* A record with its parts replaced.
LEMMA Parts ==
  ASSUME NEW r, IsCampaign(r), NEW s, NEW g, NEW k, NEW x, NEW sg
  PROVE  LET q == [state |-> s, request |-> r.request, plan |-> r.plan, gen |-> g,
                   ticket |-> k, active |-> x, stages |-> sg]
         IN /\ IsCampaign(q)
            /\ q.state = s /\ q.gen = g /\ q.ticket = k /\ q.active = x /\ q.stages = sg
            /\ q.request = r.request /\ q.plan = r.plan
BY DEF IsCampaign

LEMMA StateReplaced ==
  ASSUME NEW r, IsCampaign(r), NEW s
  PROVE  LET q == [r EXCEPT !.state = s]
         IN /\ IsCampaign(q) /\ q.state = s
            /\ q.request = r.request /\ q.plan = r.plan /\ q.gen = r.gen
            /\ q.ticket = r.ticket /\ q.active = r.active /\ q.stages = r.stages
BY DEF IsCampaign

LEMMA TicketReplaced ==
  ASSUME NEW r, IsCampaign(r), NEW k
  PROVE  LET q == [r EXCEPT !.ticket = k]
         IN /\ IsCampaign(q) /\ q.ticket = k
            /\ q.state = r.state /\ q.request = r.request /\ q.plan = r.plan
            /\ q.gen = r.gen /\ q.active = r.active /\ q.stages = r.stages
BY DEF IsCampaign

LEMMA GenReplaced ==
  ASSUME NEW r, IsCampaign(r), NEW g
  PROVE  LET q == [r EXCEPT !.gen = g]
         IN /\ IsCampaign(q) /\ q.gen = g
            /\ q.state = r.state /\ q.request = r.request /\ q.plan = r.plan
            /\ q.ticket = r.ticket /\ q.active = r.active /\ q.stages = r.stages
BY DEF IsCampaign

LEMMA StagesReplaced ==
  ASSUME NEW r, IsCampaign(r), NEW sg
  PROVE  LET q == [r EXCEPT !.stages = sg]
         IN /\ IsCampaign(q) /\ q.stages = sg
            /\ q.state = r.state /\ q.request = r.request /\ q.plan = r.plan
            /\ q.gen = r.gen /\ q.ticket = r.ticket /\ q.active = r.active
BY DEF IsCampaign

LEMMA ActiveReplaced ==
  ASSUME NEW r, IsCampaign(r), NEW x
  PROVE  LET q == [r EXCEPT !.active = x]
         IN /\ IsCampaign(q) /\ q.active = x
            /\ q.state = r.state /\ q.request = r.request /\ q.plan = r.plan
            /\ q.gen = r.gen /\ q.ticket = r.ticket /\ q.stages = r.stages
BY DEF IsCampaign

WithTicketAndState(r, k, s) == [r EXCEPT !.ticket = k, !.state = s]

LEMMA TicketAndState ==
  ASSUME NEW r, IsCampaign(r), NEW k, NEW s
  PROVE  LET q == WithTicketAndState(r, k, s)
         IN /\ IsCampaign(q) /\ q.ticket = k /\ q.state = s
            /\ q.request = r.request /\ q.plan = r.plan /\ q.gen = r.gen /\ q.active = r.active /\ q.stages = r.stages
<1> DEFINE r1 == [r EXCEPT !.ticket = k]
           q == [r1 EXCEPT !.state = s]
<1>1. IsCampaign(r1) /\ r1.ticket = k /\ r1.state = r.state /\ r1.request = r.request /\ r1.plan = r.plan
     /\ r1.gen = r.gen /\ r1.active = r.active /\ r1.stages = r.stages
  BY TicketReplaced
<1> HIDE DEF r1
<1>2. IsCampaign(q) /\ q.state = s /\ q.request = r1.request /\ q.plan = r1.plan /\ q.gen = r1.gen
     /\ q.ticket = r1.ticket /\ q.active = r1.active /\ q.stages = r1.stages
  BY StateReplaced, <1>1
<1> HIDE DEF q
<1>3. WithTicketAndState(r, k, s) = q
  BY DEF r1, q, WithTicketAndState
<1> QED BY <1>1, <1>2, <1>3

WithGeneration(r, g, k, s) == [r EXCEPT !.gen = g, !.ticket = k, !.state = s]

LEMMA GenerationAndState ==
  ASSUME NEW r, IsCampaign(r), NEW g, NEW k, NEW s
  PROVE  LET q == WithGeneration(r, g, k, s)
         IN /\ IsCampaign(q) /\ q.gen = g /\ q.ticket = k /\ q.state = s
            /\ q.request = r.request /\ q.plan = r.plan /\ q.active = r.active /\ q.stages = r.stages
<1> DEFINE r1 == [r EXCEPT !.gen = g]
           r2 == [r1 EXCEPT !.ticket = k]
           q == [r2 EXCEPT !.state = s]
<1>1. IsCampaign(r1) /\ r1.gen = g /\ r1.state = r.state /\ r1.request = r.request /\ r1.plan = r.plan
     /\ r1.ticket = r.ticket /\ r1.active = r.active /\ r1.stages = r.stages
  BY GenReplaced
<1> HIDE DEF r1
<1>2. IsCampaign(r2) /\ r2.ticket = k /\ r2.state = r1.state /\ r2.request = r1.request /\ r2.plan = r1.plan
     /\ r2.gen = r1.gen /\ r2.active = r1.active /\ r2.stages = r1.stages
  BY TicketReplaced, <1>1
<1> HIDE DEF r2
<1>3. IsCampaign(q) /\ q.state = s /\ q.request = r2.request /\ q.plan = r2.plan /\ q.gen = r2.gen
     /\ q.ticket = r2.ticket /\ q.active = r2.active /\ q.stages = r2.stages
  BY StateReplaced, <1>2
<1> HIDE DEF q
<1>4. WithGeneration(r, g, k, s) = q
  BY DEF r1, r2, q, WithGeneration
<1> QED BY <1>1, <1>2, <1>3, <1>4

WithStages(r, sg, s) == [r EXCEPT !.stages = sg, !.state = s]

LEMMA StagesAndState ==
  ASSUME NEW r, IsCampaign(r), NEW sg, NEW s
  PROVE  LET q == WithStages(r, sg, s)
         IN /\ IsCampaign(q) /\ q.stages = sg /\ q.state = s
            /\ q.request = r.request /\ q.plan = r.plan /\ q.gen = r.gen /\ q.ticket = r.ticket /\ q.active = r.active
<1> DEFINE r1 == [r EXCEPT !.stages = sg]
           q == [r1 EXCEPT !.state = s]
<1>1. IsCampaign(r1) /\ r1.stages = sg /\ r1.state = r.state /\ r1.request = r.request /\ r1.plan = r.plan
     /\ r1.gen = r.gen /\ r1.ticket = r.ticket /\ r1.active = r.active
  BY StagesReplaced
<1> HIDE DEF r1
<1>2. IsCampaign(q) /\ q.state = s /\ q.request = r1.request /\ q.plan = r1.plan /\ q.gen = r1.gen
     /\ q.ticket = r1.ticket /\ q.active = r1.active /\ q.stages = r1.stages
  BY StateReplaced, <1>1
<1> HIDE DEF q
<1>3. WithStages(r, sg, s) = q
  BY DEF r1, q, WithStages
<1> QED BY <1>1, <1>2, <1>3

WithAdvance(r, sg, x, s) == [r EXCEPT !.stages = sg, !.active = x, !.state = s]

LEMMA AdvanceAndState ==
  ASSUME NEW r, IsCampaign(r), NEW sg, NEW x, NEW s
  PROVE  LET q == WithAdvance(r, sg, x, s)
         IN /\ IsCampaign(q) /\ q.stages = sg /\ q.active = x /\ q.state = s
            /\ q.request = r.request /\ q.plan = r.plan /\ q.gen = r.gen /\ q.ticket = r.ticket
<1> DEFINE r1 == [r EXCEPT !.stages = sg]
           r2 == [r1 EXCEPT !.active = x]
           q == [r2 EXCEPT !.state = s]
<1>1. IsCampaign(r1) /\ r1.stages = sg /\ r1.state = r.state /\ r1.request = r.request /\ r1.plan = r.plan
     /\ r1.gen = r.gen /\ r1.ticket = r.ticket /\ r1.active = r.active
  BY StagesReplaced
<1> HIDE DEF r1
<1>2. IsCampaign(r2) /\ r2.active = x /\ r2.state = r1.state /\ r2.request = r1.request /\ r2.plan = r1.plan
     /\ r2.gen = r1.gen /\ r2.ticket = r1.ticket /\ r2.stages = r1.stages
  BY ActiveReplaced, <1>1
<1> HIDE DEF r2
<1>3. IsCampaign(q) /\ q.state = s /\ q.request = r2.request /\ q.plan = r2.plan /\ q.gen = r2.gen
     /\ q.ticket = r2.ticket /\ q.active = r2.active /\ q.stages = r2.stages
  BY StateReplaced, <1>2
<1> HIDE DEF q
<1>4. WithAdvance(r, sg, x, s) = q
  BY DEF r1, r2, q, WithAdvance
<1> QED BY <1>1, <1>2, <1>3, <1>4

LEMMA NotNone ==
  ASSUME NEW r, TypeOKOfCampaign(r)
  PROVE  r # NoCampaign
BY DEF TypeOKOfCampaign, NoCampaign, UpgradeStates

LEMMA TryIsEither ==
  ASSUME NEW from, NEW to, NEW guards
  PROVE  Try(from, to, guards) \in {from, to}
BY DEF Try

\* A campaign whose state alone changes.
LEMMA MovedKeeps ==
  ASSUME NEW r, TypeOKOfCampaign(r), Checked(r), NEW q, IsCampaign(q),
         q.request = r.request, q.plan = r.plan, q.gen = r.gen, q.ticket = r.ticket,
         q.active = r.active, q.stages = r.stages,
         q.state \in UpgradeStates,
         q.state \in {"proposed", "blocked"} \/ Executable(r.plan)
  PROVE  /\ TypeOKOfCampaign(q) /\ Checked(q) /\ q # NoCampaign
         /\ \A a : Placed(r, a) => Placed(q, a)
<1>1. TypeOKOfCampaign(q)
  BY DEF TypeOKOfCampaign
<1>2. Checked(q)
  BY DEF Checked
<1>3. \A a : Placed(r, a) => Placed(q, a)
  BY DEF Placed
<1> QED BY <1>1, <1>2, <1>3, NotNone

\* An executable campaign has stages, and one of them is active.
LEMMA ActiveStage ==
  ASSUME NEW r, TypeOKOfCampaign(r), Checked(r), Executable(r.plan)
  PROVE  /\ r.active \in DOMAIN r.stages /\ DOMAIN r.stages = DOMAIN r.plan.stages
         /\ r.active \in Nat /\ DOMAIN r.stages = 1..Len(r.stages) /\ Len(r.stages) \in Nat
         /\ SoundStages(r.plan, r.request.strategy)
<1>1. SoundStages(r.plan, r.request.strategy)
  BY DEF Checked
<1>2. PlannedTargets(r.plan) # {}
  BY <1>1 DEF SoundStages
<1>3. DOMAIN r.plan.stages # {}
  BY <1>2 DEF PlannedTargets
<1>4. r.plan.stages \in Seq(Stages) /\ r.stages \in Seq({"pending", "prepared", "completed"})
      /\ Len(r.stages) = Len(r.plan.stages)
  BY DEF TypeOKOfCampaign
<1>5. DOMAIN r.stages = 1..Len(r.stages) /\ DOMAIN r.stages = DOMAIN r.plan.stages /\ Len(r.stages) \in Nat
  BY <1>4
<1>6. r.stages # <<>>
  BY <1>3, <1>5
<1> QED BY <1>1, <1>5, <1>6 DEF TypeOKOfCampaign

-----------------------------------------------------------------------------
(***************************************************************************)
(* What a step leaves alone: a campaign keeps its record, its attempts and *)
(* its reports, and knows of every version that changes.                   *)
(***************************************************************************)
Undisturbed(d) ==
  /\ camp'[d] = camp[d] /\ att'[d] = att[d]
  /\ reported'[d] = reported[d] /\ lost'[d] = lost[d]
  /\ Created(d) => \A t \in Targets : t \in stale'[d] \/ (t \notin stale[d] /\ version'[t] = version[t])

LEMMA UndisturbedGood ==
  ASSUME NEW d, Good(d), Undisturbed(d)
  PROVE  Good(d)'
<1>1. Out(att'[d]) /\ Told(att'[d], reported'[d], lost'[d])
  BY DEF Good, Undisturbed
<1>2. ASSUME camp[d] = NoCampaign PROVE Sound(camp'[d], att'[d], stale'[d], version')
  BY <1>2 DEF Good, Undisturbed, Sound
<1>3. ASSUME camp[d] # NoCampaign PROVE Sound(camp'[d], att'[d], stale'[d], version')
  <2>1. Informed(camp[d], att[d], stale[d], version) /\ IsCampaign(camp[d])
        /\ TypeOKOfCampaign(camp[d]) /\ Checked(camp[d]) /\ Placed(camp[d], att[d])
    BY <1>3 DEF Good, Sound
  <2>2. \A t \in Targets : t \in stale'[d] \/ (t \notin stale[d] /\ version'[t] = version[t])
    BY <1>3 DEF Undisturbed, Created
  <2>3. Informed(camp[d], att[d], stale'[d], version')
    BY <2>1, <2>2 DEF Informed
  <2>4. camp'[d] = camp[d] /\ att'[d] = att[d]
    BY DEF Undisturbed
  <2> QED BY <1>3, <2>1, <2>3, <2>4 DEF Sound
<1> QED BY <1>1, <1>2, <1>3 DEF Good

\* The campaign of a step, when it has a record afterwards.
LEMMA BecomesGood ==
  ASSUME NEW c,
         IsCampaign(camp'[c]), TypeOKOfCampaign(camp'[c]), Checked(camp'[c]),
         Placed(camp'[c], att'[c]), Informed(camp'[c], att'[c], stale'[c], version'),
         Out(att'[c]), Told(att'[c], reported'[c], lost'[c])
  PROVE  Good(c)'
<1>1. camp'[c] # NoCampaign
  BY NotNone
<1> QED BY <1>1 DEF Good, Sound

\* What is known of a campaign that has a record.
LEMMA CreatedIsGood ==
  ASSUME IInv, NEW c \in CampaignIds, Created(c)
  PROVE  /\ IsCampaign(camp[c]) /\ TypeOKOfCampaign(camp[c]) /\ Checked(camp[c])
         /\ Placed(camp[c], att[c]) /\ Informed(camp[c], att[c], stale[c], version)
         /\ Out(att[c]) /\ Told(att[c], reported[c], lost[c])
<1>1. Good(c)
  BY DEF IInv
<1> QED BY <1>1 DEF Good, Sound, Created

-----------------------------------------------------------------------------
(* The initial states. *)

LEMMA InitKeeps == Init => IInv
<1> SUFFICES ASSUME Init PROVE IInv
  OBVIOUS
<1>1. Typed
  <2>1. version \in [Targets -> Version] /\ listing \in [Targets -> Listings]
    BY FleetTypes DEF Init
  <2>2. att \in [CampaignIds -> [Targets -> AttemptRecords]]
    BY NoAttemptType DEF Init
  <2>3. inc \in 1..MaxIncarnation /\ changes \in 0..MaxChanges
    BY Bounds DEF Init
  <2>4. /\ stale \in [CampaignIds -> SUBSET Targets]
        /\ reported \in [CampaignIds -> [Targets -> Nat]] /\ lost \in [CampaignIds -> [Targets -> Nat]]
    BY DEF Init
  <2> QED BY <2>1, <2>2, <2>3, <2>4 DEF Init, Typed
<1>2. Seen
  BY DEF Init, Seen, Faithful, NoInventory
<1>3. ASSUME NEW c \in CampaignIds PROVE Good(c)
  <2>1. camp[c] = NoCampaign /\ \A t \in Targets : att[c][t] = NoAttempt
    BY DEF Init
  <2>2. \A t \in Targets : reported[c][t] = 0 /\ lost[c][t] = 0
    BY DEF Init
  <2>3. \A t \in Targets : att[c][t].st = "none" /\ att[c][t].item = 0
    BY <2>1 DEF NoAttempt
  <2> QED BY <2>1, <2>2, <2>3 DEF Good, Sound, Out, Told
<1> QED BY <1>1, <1>2, <1>3 DEF IInv

-----------------------------------------------------------------------------
(***************************************************************************)
(* The inventory and the environment.                                      *)
(***************************************************************************)
LEMMA ResolveTells ==
  /\ Faithful(Resolve)
  /\ \A t \in DOMAIN Resolve : Resolve[t].installed \in {NoVersion, version[t]}
<1>1. DOMAIN Resolve = Listed /\ Listed \subseteq Targets
  BY DEF Resolve, Listed
<1>2. \A t \in Listed : Resolve[t].group = Catalog[t].group
  BY DEF Resolve
<1>3. \A t \in Listed : Resolve[t].installed \in {NoVersion, version[t]}
  BY DEF Resolve
<1> QED BY <1>1, <1>2, <1>3 DEF Faithful

LEMMA RefreshTells ==
  ASSUME Typed, Seen, NEW force, Refresh(force), UNCHANGED version
  PROVE  Seen' /\ Faithful(inventory') /\ inv_fresh' \in BOOLEAN /\ unseen' \subseteq Targets
<1>1. CASE inv_fresh /\ ~force
  <2>1. UNCHANGED <<inventory, inv_fresh, unseen>>
    BY <1>1 DEF Refresh
  <2> QED BY <2>1 DEF Seen, Faithful, Typed
<1>2. CASE ~(inv_fresh /\ ~force)
  <2>1. inventory' = Resolve /\ inv_fresh' = TRUE /\ unseen' = {}
    BY <1>2 DEF Refresh
  <2>2. Faithful(inventory') /\ \A t \in DOMAIN inventory' : inventory'[t].installed \in {NoVersion, version'[t]}
    BY <2>1, ResolveTells
  <2> QED BY <2>1, <2>2 DEF Seen, Faithful
<1> QED BY <1>1, <1>2

\* A step that leaves every campaign and every version alone.
LEMMA NothingDisturbed ==
  ASSUME IInv, UNCHANGED <<camp, att, reported, lost, stale, version>>
  PROVE  \A c \in CampaignIds : Good(c)'
<1> SUFFICES ASSUME NEW c \in CampaignIds PROVE Good(c)'
  OBVIOUS
<1>1. Undisturbed(c)
  BY DEF Undisturbed
<1> QED BY <1>1, UndisturbedGood DEF IInv

LEMMA StutterKeeps ==
  ASSUME IInv, UNCHANGED vars
  PROVE  IInv'
<1>1. \A c \in CampaignIds : Good(c)'
  BY NothingDisturbed DEF vars
<1>2. Typed' /\ Seen'
  BY DEF IInv, Typed, Seen, Faithful, vars
<1> QED BY <1>1, <1>2 DEF IInv

LEMMA PlanOnlyKeeps ==
  ASSUME IInv, PlanOnly
  PROVE  IInv'
<1>1. Refresh(FALSE) /\ UNCHANGED <<fleetVars, resolved, camp, att, inc, stale, reported, lost>>
  BY DEF PlanOnly
<1>2. UNCHANGED <<version, listing, changes, camp, att, inc, stale, reported, lost>>
  BY <1>1 DEF fleetVars
<1>3. \A c \in CampaignIds : Good(c)'
  BY <1>2, NothingDisturbed
<1>4. Seen' /\ inv_fresh' \in BOOLEAN /\ unseen' \subseteq Targets
  BY <1>1, <1>2, RefreshTells DEF IInv
<1>5. Typed'
  BY <1>2, <1>4 DEF IInv, Typed
<1> QED BY <1>3, <1>4, <1>5 DEF IInv

LEMMA InventoryAgesKeeps ==
  ASSUME IInv, InventoryAges
  PROVE  IInv'
<1>1. /\ inv_fresh' = FALSE
      /\ UNCHANGED <<version, listing, changes, inventory, inc, camp, att, unseen, stale, reported, lost>>
  BY DEF InventoryAges, fleetVars, historyVars
<1>2. \A c \in CampaignIds : Good(c)'
  BY <1>1, NothingDisturbed
<1>3. Typed' /\ Seen'
  BY <1>1 DEF IInv, Typed, Seen, Faithful
<1> QED BY <1>2, <1>3 DEF IInv

LEMMA RelistKeeps ==
  ASSUME IInv, NEW t \in Unsteady, NEW how \in Listings, Relist(t, how)
  PROVE  IInv'
<1>1. /\ changes < MaxChanges /\ changes' = changes + 1 /\ listing' = [listing EXCEPT ![t] = how]
      /\ UNCHANGED <<version, inventory, inv_fresh, inc, camp, att, unseen, stale, reported, lost>>
  BY DEF Relist, engineVars, historyVars
<1>2. \A c \in CampaignIds : Good(c)'
  BY <1>1, NothingDisturbed
<1>3. changes' \in 0..MaxChanges
  BY <1>1, Bounds DEF IInv, Typed
<1>4. listing' \in [Targets -> Listings]
  BY <1>1, FleetTypes DEF IInv, Typed
<1>5. Typed' /\ Seen'
  BY <1>1, <1>3, <1>4 DEF IInv, Typed, Seen, Faithful
<1> QED BY <1>2, <1>5 DEF IInv

\* Everyone who has a record knows of a change.
LEMMA ChangeTold ==
  ASSUME NEW t, NEW v, version' = [version EXCEPT ![t] = v], Typed,
         NEW d \in CampaignIds, stale'[d] = Change(t)[d],
         camp'[d] = camp[d], att'[d] = att[d], reported'[d] = reported[d], lost'[d] = lost[d]
  PROVE  Undisturbed(d)
<1>1. Created(d) => stale'[d] = stale[d] \cup {t}
  BY DEF Change
<1>2. \A u \in Targets : u # t => version'[u] = version[u]
  BY DEF Typed
<1> QED BY <1>1, <1>2 DEF Undisturbed

LEMMA ChangeTyped ==
  ASSUME Typed, NEW t \in Targets
  PROVE  Change(t) \in [CampaignIds -> SUBSET Targets]
BY DEF Typed, Change

LEMMA ChangeSeen ==
  ASSUME Typed, Seen, NEW t, NEW v, version' = [version EXCEPT ![t] = v],
         unseen' = unseen \cup {t}, UNCHANGED inventory
  PROVE  Seen'
<1>1. \A u \in DOMAIN inventory' \ unseen' : u \in DOMAIN inventory \ unseen /\ u # t /\ u \in Targets
  BY DEF Seen, Faithful
<1>2. \A u \in DOMAIN inventory' \ unseen' : version'[u] = version[u]
  BY <1>1 DEF Typed
<1> QED BY <1>1, <1>2 DEF Seen, Faithful

LEMMA DriftKeeps ==
  ASSUME IInv, NEW t \in Unsteady, NEW v \in DriftVersions, Drift(t, v)
  PROVE  IInv'
<1>1. /\ changes < MaxChanges /\ changes' = changes + 1
      /\ version' = [version EXCEPT ![t] = v]
      /\ unseen' = unseen \cup {t} /\ stale' = Change(t)
      /\ UNCHANGED <<listing, inventory, inv_fresh, inc, camp, att, reported, lost>>
  BY DEF Drift, engineVars
<1>2. t \in Targets /\ v \in Version
  BY FleetTypes
<1>3. Typed /\ Seen /\ \A c \in CampaignIds : Good(c)
  BY DEF IInv
<1>4. ASSUME NEW c \in CampaignIds PROVE Good(c)'
  <2>1. Undisturbed(c)
    BY <1>1, <1>3, ChangeTold
  <2> QED BY <1>3, <2>1, UndisturbedGood
<1>5. Seen'
  BY <1>1, <1>3, ChangeSeen
<1>6. changes' \in 0..MaxChanges
  BY <1>1, <1>3, Bounds DEF Typed
<1>7. version' \in [Targets -> Version] /\ stale' \in [CampaignIds -> SUBSET Targets]
  BY <1>1, <1>2, <1>3, ChangeTyped DEF Typed
<1>8. Typed'
  BY <1>1, <1>2, <1>3, <1>6, <1>7 DEF Typed
<1> QED BY <1>4, <1>5, <1>8 DEF IInv

-----------------------------------------------------------------------------
(***************************************************************************)
(* What operators do.                                                      *)
(***************************************************************************)
\* The record of a campaign is replaced by one of the same kind.
LEMMA CampTyped ==
  ASSUME Typed, NEW c \in CampaignIds, NEW q, camp' = [camp EXCEPT ![c] = q]
  PROVE  /\ camp' = [d \in CampaignIds |-> camp'[d]]
         /\ camp'[c] = q
         /\ \A d \in CampaignIds \ {c} : camp'[d] = camp[d]
BY DEF Typed

\* Nothing but the record of c changes.
LEMMA OthersUndisturbed ==
  ASSUME IInv, NEW c \in CampaignIds, \A d \in CampaignIds \ {c} : camp'[d] = camp[d],
         UNCHANGED <<att, reported, lost, stale, version>>
  PROVE  \A d \in CampaignIds \ {c} : Good(d)'
<1> SUFFICES ASSUME NEW d \in CampaignIds \ {c} PROVE Good(d)'
  OBVIOUS
<1>1. Undisturbed(d)
  BY DEF Undisturbed
<1> QED BY <1>1, UndisturbedGood DEF IInv

LEMMA NewCampaign ==
  ASSUME NEW r \in Requests, NEW inv, Faithful(inv)
  PROVE  LET plan == BuildPlan(r, inv, Policy)
             q == [state |-> "proposed", request |-> r, plan |-> plan, gen |-> 1, ticket |-> 0,
                   active |-> 1, stages |-> Progress(plan)]
         IN IsCampaign(q) /\ TypeOKOfCampaign(q) /\ Checked(q)
<1> DEFINE plan == BuildPlan(r, inv, Policy)
           q == [state |-> "proposed", request |-> r, plan |-> plan, gen |-> 1, ticket |-> 0,
                 active |-> 1, stages |-> Progress(plan)]
<1>1. plan.stages \in Seq(Stages)
  BY PlanStages
<1>2. Executable(plan) => SoundStages(plan, r.strategy)
  BY ExecutableIsSound
<1> HIDE DEF plan
<1>3. /\ Progress(plan) \in Seq({"pending", "prepared", "completed"})
      /\ Len(Progress(plan)) = Len(plan.stages)
      /\ Progress(plan) # <<>> => 1 \in DOMAIN Progress(plan)
  <2>1. Len(plan.stages) \in Nat /\ DOMAIN plan.stages = 1..Len(plan.stages)
    BY <1>1
  <2>2. Progress(plan) = [k \in 1..Len(plan.stages) |-> "pending"]
    BY <2>1 DEF Progress
  <2>3. Progress(plan) \in Seq({"pending", "prepared", "completed"}) /\ Len(Progress(plan)) = Len(plan.stages)
    BY <2>1, <2>2
  <2>4. Progress(plan) # <<>> => 1 \in DOMAIN Progress(plan)
    BY <2>1, <2>2, <2>3
  <2> QED BY <2>3, <2>4
<1>4. /\ q.state = "proposed" /\ q.request = r /\ q.plan = plan /\ q.gen = 1 /\ q.ticket = 0
      /\ q.active = 1 /\ q.stages = Progress(plan)
  OBVIOUS
<1>5. IsCampaign(q)
  BY DEF IsCampaign
<1> HIDE DEF q
<1>6. 1 \in 1..MaxGeneration /\ 0 \in 0..MaxGeneration
  BY Bounds
<1>7. TypeOKOfCampaign(q)
  BY <1>1, <1>3, <1>4, <1>6 DEF TypeOKOfCampaign, UpgradeStates
<1>8. Checked(q)
  BY <1>2, <1>4 DEF Checked
<1> QED BY <1>5, <1>7, <1>8 DEF q, plan

LEMMA CreateKeeps ==
  ASSUME IInv, NEW c \in CampaignIds, NEW r \in Requests, Create(c, r)
  PROVE  IInv'
<1> DEFINE q == [state |-> "proposed", request |-> r, plan |-> BuildPlan(r, inventory', Policy),
                 gen |-> 1, ticket |-> 0, active |-> 1,
                 stages |-> Progress(BuildPlan(r, inventory', Policy))]
<1>1. /\ ~Created(c) /\ Refresh(FALSE)
      /\ camp' = [camp EXCEPT ![c] = q]
      /\ UNCHANGED <<version, listing, changes, att, inc, stale, reported, lost>>
  BY DEF Create, fleetVars
<1>2. Typed /\ Seen /\ Good(c)
  BY DEF IInv
<1>3. Seen' /\ Faithful(inventory') /\ inv_fresh' \in BOOLEAN /\ unseen' \subseteq Targets
  BY <1>1, <1>2, RefreshTells
<1>4. IsCampaign(q) /\ TypeOKOfCampaign(q) /\ Checked(q) /\ q.state = "proposed"
  BY <1>3, NewCampaign
<1> HIDE DEF q
<1>5. camp'[c] = q /\ camp' = [d \in CampaignIds |-> camp'[d]] /\ \A d \in CampaignIds \ {c} : camp'[d] = camp[d]
  BY <1>1, <1>2, CampTyped
<1>6. \A d \in CampaignIds \ {c} : Good(d)'
  BY <1>1, <1>5, OthersUndisturbed
<1>7. Good(c)'
  <2>1. \A t \in Targets : att[c][t].st = "none"
    BY <1>1, <1>2 DEF Good, Sound, Created
  <2>2. Out(att'[c]) /\ Told(att'[c], reported'[c], lost'[c])
    BY <1>1, <1>2 DEF Good
  <2>3. Placed(camp'[c], att'[c]) /\ Informed(camp'[c], att'[c], stale'[c], version')
    BY <1>1, <1>4, <1>5, <2>1 DEF Placed, Informed
  <2> QED BY <1>4, <1>5, <2>2, <2>3, BecomesGood
<1>8. Typed'
  BY <1>1, <1>2, <1>3, <1>5 DEF Typed
<1> QED BY <1>3, <1>6, <1>7, <1>8 DEF IInv

\* A campaign whose record changes and nothing else of it: neither its plan, nor
\* the stage it is at, nor into the state activating.
LEMMA RecordKeeps ==
  ASSUME IInv, NEW c \in CampaignIds, Created(c), NEW q, IsCampaign(q),
         q.request = camp[c].request, q.plan = camp[c].plan,
         q.active = camp[c].active, q.stages = camp[c].stages,
         q.gen \in 1..MaxGeneration, q.ticket \in 0..MaxGeneration, q.state \in UpgradeStates,
         q.ticket # 0 \/ q.state \notin {"proposed", "blocked"} => Executable(camp[c].plan),
         q.state = "activating" => camp[c].state = "activating",
         camp' = [camp EXCEPT ![c] = q],
         UNCHANGED <<att, reported, lost, stale, version>>
  PROVE  /\ \A d \in CampaignIds : Good(d)'
         /\ camp' = [d \in CampaignIds |-> camp'[d]]
<1>1. Typed
  BY DEF IInv
<1>2. camp'[c] = q /\ camp' = [d \in CampaignIds |-> camp'[d]] /\ \A d \in CampaignIds \ {c} : camp'[d] = camp[d]
  BY <1>1, CampTyped
<1>3. /\ IsCampaign(camp[c]) /\ TypeOKOfCampaign(camp[c]) /\ Checked(camp[c])
      /\ Placed(camp[c], att[c]) /\ Informed(camp[c], att[c], stale[c], version)
      /\ Out(att[c]) /\ Told(att[c], reported[c], lost[c])
  BY CreatedIsGood
<1>4. TypeOKOfCampaign(q)
  BY <1>3 DEF TypeOKOfCampaign
<1>5. Checked(q)
  BY <1>3 DEF Checked
<1>6. Placed(q, att[c])
  BY <1>3 DEF Placed
<1>7. Informed(q, att[c], stale[c], version)
  BY <1>3 DEF Informed
<1>8. Good(c)'
  BY <1>2, <1>3, <1>4, <1>5, <1>6, <1>7, BecomesGood
<1>9. \A d \in CampaignIds \ {c} : Good(d)'
  BY <1>2, OthersUndisturbed
<1> QED BY <1>2, <1>8, <1>9

LEMMA PreflightKeeps ==
  ASSUME IInv, NEW c \in CampaignIds, NEW compatible, Preflight(c, compatible)
  PROVE  IInv'
<1> DEFINE r == camp[c]
           guards == {"preflight_current", "artifact_integrity_verified", "failure_recorded"}
           passes == PreflightPasses(r.plan, r.request, inventory', compatible, TRUE, FALSE)
           k == IF passes THEN r.gen ELSE 0
           s == IF passes
                  THEN IF r.state \in {"proposed", "blocked", "paused"}
                         THEN Try(r.state, "validated", guards) ELSE r.state
                  ELSE IF r.state = "proposed" THEN Try(r.state, "blocked", guards) ELSE r.state
           q == WithTicketAndState(r, k, s)
<1>1. /\ Created(c) /\ Refresh(TRUE)
      /\ UNCHANGED <<version, listing, changes, att, inc, stale, reported, lost>>
  BY DEF Preflight, fleetVars
<1>2. camp' = [camp EXCEPT ![c] = q]
  <2>1. CASE passes
    BY <2>1 DEF Preflight, WithTicketAndState
  <2>2. CASE ~passes
    BY <2>2 DEF Preflight, WithTicketAndState
  <2> QED BY <2>1, <2>2
<1>3. Typed /\ Seen
  BY DEF IInv
<1>4. Seen' /\ inv_fresh' \in BOOLEAN /\ unseen' \subseteq Targets
  BY <1>1, <1>3, RefreshTells
<1>5. IsCampaign(r) /\ TypeOKOfCampaign(r) /\ Checked(r)
  BY <1>1, CreatedIsGood
<1>6. passes => Executable(r.plan)
  BY DEF PreflightPasses
<1> HIDE DEF guards, passes
<1>7. s \in {r.state, "validated", "blocked"} /\ (passes \/ s \in {r.state, "blocked"})
  <2>1. /\ Try(r.state, "validated", guards) \in {r.state, "validated"}
        /\ Try(r.state, "blocked", guards) \in {r.state, "blocked"}
    BY TryIsEither
  <2> QED BY <2>1
<1>8. k \in 0..MaxGeneration /\ (~passes => k = 0) /\ r.gen \in 1..MaxGeneration
  <2>1. r.gen \in 1..MaxGeneration
    BY <1>5 DEF TypeOKOfCampaign
  <2>2. r.gen \in 0..MaxGeneration /\ 0 \in 0..MaxGeneration
    BY <2>1, Bounds
  <2> QED BY <2>1, <2>2
<1> HIDE DEF s, k
<1>9. /\ IsCampaign(q) /\ q.ticket = k /\ q.state = s /\ q.request = r.request /\ q.plan = r.plan
      /\ q.gen = r.gen /\ q.active = r.active /\ q.stages = r.stages
  BY <1>5, TicketAndState
<1>10. s \in UpgradeStates
  BY <1>5, <1>7 DEF TypeOKOfCampaign, UpgradeStates
<1>11. k # 0 \/ s \notin {"proposed", "blocked"} => Executable(r.plan)
  BY <1>5, <1>6, <1>7, <1>8 DEF Checked
<1> HIDE DEF q
<1>12. (\A d \in CampaignIds : Good(d)') /\ camp' = [d \in CampaignIds |-> camp'[d]]
  BY <1>1, <1>2, <1>7, <1>8, <1>9, <1>10, <1>11, RecordKeeps
<1>13. Typed'
  BY <1>1, <1>3, <1>4, <1>12 DEF Typed
<1> QED BY <1>4, <1>12, <1>13 DEF IInv

LEMMA StartKeeps ==
  ASSUME IInv, NEW c \in CampaignIds, Start(c)
  PROVE  IInv'
<1> DEFINE r == camp[c]
           guards == Guards(c) \cup {"rollback_plan_recorded"}
           s1 == IF r.state \in {"paused", "blocked"} THEN Try(r.state, "validated", guards) ELSE r.state
           s == IF s1 = "validated" THEN Try(s1, "prepared", guards) ELSE s1
           q == WithGeneration(r, r.gen + 1, r.gen + 1, s)
<1>1. /\ Created(c) /\ r.gen < MaxGeneration /\ r.state \notin ActiveStates /\ Executable(r.plan)
      /\ UNCHANGED <<version, listing, changes, inventory, inv_fresh, inc, att,
                     unseen, stale, reported, lost>>
  BY DEF Start, fleetVars, engineVars, historyVars
<1>2. camp' = [camp EXCEPT ![c] = q]
  BY DEF Start, WithGeneration
<1>3. Typed /\ Seen
  BY DEF IInv
<1>4. IsCampaign(r) /\ TypeOKOfCampaign(r)
  BY <1>1, CreatedIsGood
<1>5. s \in {r.state, "validated", "prepared"}
  BY TryIsEither
<1>6. r.state # "activating"
  BY <1>1 DEF ActiveStates
<1>7. r.gen + 1 \in 1..MaxGeneration /\ r.gen + 1 \in 0..MaxGeneration
  BY <1>1, <1>4, Bounds DEF TypeOKOfCampaign
<1> HIDE DEF s, s1, guards
<1>8. /\ IsCampaign(q) /\ q.gen = r.gen + 1 /\ q.ticket = r.gen + 1 /\ q.state = s
      /\ q.request = r.request /\ q.plan = r.plan /\ q.active = r.active /\ q.stages = r.stages
  BY <1>4, GenerationAndState
<1>9. s \in UpgradeStates /\ s # "activating"
  BY <1>4, <1>5, <1>6 DEF TypeOKOfCampaign, UpgradeStates
<1> HIDE DEF q
<1>10. (\A d \in CampaignIds : Good(d)') /\ camp' = [d \in CampaignIds |-> camp'[d]]
  BY <1>1, <1>2, <1>7, <1>8, <1>9, RecordKeeps
<1>11. Typed' /\ Seen'
  BY <1>1, <1>3, <1>10 DEF Typed, Seen, Faithful
<1> QED BY <1>10, <1>11 DEF IInv

LEMMA ResumeKeeps ==
  ASSUME IInv, NEW c \in CampaignIds, Resume(c)
  PROVE  IInv'
<1> DEFINE r == camp[c]
           s1 == IF r.state \in {"paused", "blocked"} THEN Try(r.state, "validated", Guards(c))
                 ELSE r.state
           s == Try(s1, "prepared", Guards(c))
           q == [r EXCEPT !.state = s]
<1>1. /\ Created(c) /\ r.state \in {"paused", "blocked", "validated", "prepared"} /\ r.ticket = r.gen
      /\ UNCHANGED <<version, listing, changes, inventory, inv_fresh, inc, att,
                     unseen, stale, reported, lost>>
  BY DEF Resume, fleetVars, engineVars, historyVars, ticket_current
<1>2. camp' = [camp EXCEPT ![c] = q]
  BY DEF Resume, Moves
<1>3. Typed /\ Seen
  BY DEF IInv
<1>4. IsCampaign(r) /\ TypeOKOfCampaign(r) /\ Checked(r)
  BY <1>1, CreatedIsGood
<1>5. s \in {r.state, "validated", "prepared"}
  BY TryIsEither
<1>6. r.gen \in 1..MaxGeneration /\ r.ticket \in 0..MaxGeneration /\ r.ticket # 0
  BY <1>1, <1>4, Bounds DEF TypeOKOfCampaign
<1>7. Executable(r.plan)
  BY <1>4, <1>6 DEF Checked
<1> HIDE DEF s, s1
<1>8. /\ IsCampaign(q) /\ q.state = s /\ q.request = r.request /\ q.plan = r.plan /\ q.gen = r.gen
      /\ q.ticket = r.ticket /\ q.active = r.active /\ q.stages = r.stages
  BY <1>4, StateReplaced
<1>9. s \in UpgradeStates /\ s # "activating"
  BY <1>1, <1>5 DEF UpgradeStates
<1> HIDE DEF q
<1>10. (\A d \in CampaignIds : Good(d)') /\ camp' = [d \in CampaignIds |-> camp'[d]]
  BY <1>1, <1>2, <1>6, <1>7, <1>8, <1>9, RecordKeeps
<1>11. Typed' /\ Seen'
  BY <1>1, <1>3, <1>10 DEF Typed, Seen, Faithful
<1> QED BY <1>10, <1>11 DEF IInv

-----------------------------------------------------------------------------
(***************************************************************************)
(* Restarts.                                                               *)
(***************************************************************************)
\* What an engine that opens the store makes of an attempt record.
LEMMA RereadTells ==
  ASSUME NEW a \in AttemptRecords
  PROVE  /\ Reread(a) \in AttemptRecords
         /\ Reread(a).item # 0 => Reread(a).st = "activating"
                                   \/ (Reread(a).item = a.item /\ a.st # "activating")
         /\ ~a.named => Reread(a).st = "none" /\ Reread(a).item = 0
         /\ a.named => \/ Reread(a).st = a.st /\ a.st # "activating"
                       \/ Reread(a).st = "abandoned" /\ InFlight(a.st)
<1>1. CASE ~a.named
  <2>1. Reread(a) = NoAttempt
    BY <1>1 DEF Reread
  <2> QED BY <1>1, <2>1, NoAttemptType DEF NoAttempt
<1>2. CASE a.named /\ InFlight(a.st)
  <2>1. Reread(a) = [a EXCEPT !.st = "abandoned", !.item = 0, !.fresh = FALSE]
    BY <1>2 DEF Reread
  <2>2. 0 \in 0..MaxGeneration
    BY Bounds
  <2>3. Reread(a).st = "abandoned" /\ Reread(a).item = 0
    BY <2>1 DEF AttemptRecords
  <2>4. Reread(a) \in AttemptRecords
    BY <2>1, <2>2 DEF AttemptRecords, AttemptStates
  <2> QED BY <1>2, <2>3, <2>4
<1>3. CASE a.named /\ ~InFlight(a.st)
  <2>1. Reread(a) = [a EXCEPT !.fresh = FALSE]
    BY <1>3 DEF Reread
  <2>2. Reread(a).st = a.st /\ Reread(a).item = a.item /\ Reread(a) \in AttemptRecords
    BY <2>1 DEF AttemptRecords
  <2>3. a.st # "activating"
    BY <1>3 DEF InFlight
  <2> QED BY <1>3, <2>2, <2>3
<1> QED BY <1>1, <1>2, <1>3

\* An active campaign is blocked, or stays where it is when it rolls back.
LEMMA BlockedAtRestart ==
  ASSUME NEW s
  PROVE  LET t == IF s \in ActiveStates THEN Try(s, "blocked", {"failure_recorded"}) ELSE s
         IN t \in {s, "blocked"} /\ t # "activating"
<1>1. Try(s, "blocked", {"failure_recorded"}) \in {s, "blocked"}
  BY TryIsEither
<1>2. ASSUME s = "activating" PROVE Try(s, "blocked", {"failure_recorded"}) = "blocked"
  <2>1. <<"activating", "blocked", {"failure_recorded"}>> \in Rules
    BY DEF Rules, BlockRules
  <2>2. Allowed(s, "blocked", {"failure_recorded"})
    BY <1>2, <2>1 DEF Allowed, TerminalStates
  <2> QED BY <2>2 DEF Try
<1> QED BY <1>1, <1>2 DEF ActiveStates

LEMMA RestartKeeps ==
  ASSUME IInv, Restart
  PROVE  IInv'
<1> DEFINE state(r) == IF r.state \in ActiveStates
                         THEN Try(r.state, "blocked", {"failure_recorded"}) ELSE r.state
<1>1. /\ inc < MaxIncarnation /\ inc' = inc + 1
      /\ inventory' = NoInventory /\ inv_fresh' = FALSE /\ unseen' = Targets
      /\ UNCHANGED <<version, listing, changes, stale, reported>>
  BY DEF Restart, fleetVars
<1>2. /\ att' = [c \in CampaignIds |-> [t \in Targets |-> Reread(att[c][t])]]
      /\ lost' = [c \in CampaignIds |-> [t \in Targets |->
                    IF att[c][t].named THEN lost[c][t] ELSE lost[c][t] + 1]]
  BY DEF Restart
<1>3. camp' = [c \in CampaignIds |->
                 IF ~Created(c) THEN camp[c] ELSE WithTicketAndState(camp[c], 0, state(camp[c]))]
  BY DEF Restart, WithTicketAndState
<1>4. Typed
  BY DEF IInv
<1>5. att' \in [CampaignIds -> [Targets -> AttemptRecords]]
  BY <1>2, <1>4, RereadTells DEF Typed
<1>6. lost' \in [CampaignIds -> [Targets -> Nat]]
  BY <1>2, <1>4 DEF Typed
<1>7. inc' \in 1..MaxIncarnation
  BY <1>1, <1>4, Bounds DEF Typed
<1>8. ASSUME NEW c \in CampaignIds
      PROVE  Out(att'[c]) /\ Told(att'[c], reported'[c], lost'[c])
  <2>1. Out(att[c]) /\ Told(att[c], reported[c], lost[c])
    BY DEF IInv, Good
  <2>2. \A t \in Targets : att[c][t] \in AttemptRecords /\ reported[c][t] \in Nat /\ lost[c][t] \in Nat
    BY <1>4 DEF Typed
  <2>3. \A t \in Targets : att'[c][t] = Reread(att[c][t])
    BY <1>2
  <2>4. \A t \in Targets : lost'[c][t] = IF att[c][t].named THEN lost[c][t] ELSE lost[c][t] + 1
    BY <1>2
  <2>5. Out(att'[c])
    BY <2>1, <2>2, <2>3, RereadTells DEF Out
  <2>6. ASSUME NEW t \in Targets
        PROVE  reported'[c][t] <= lost'[c][t]
                 + (IF att'[c][t].st \in {"none", "prepared", "activating"} THEN 0 ELSE 1)
    <3>1. reported[c][t] <= lost[c][t] + (IF att[c][t].st \in {"none", "prepared", "activating"} THEN 0 ELSE 1)
      BY <2>1 DEF Told
    <3>2. CASE ~att[c][t].named
      BY <1>1, <2>2, <2>3, <2>4, <3>1, <3>2, RereadTells
    <3>3. CASE att[c][t].named
      <4>1. \/ att'[c][t].st = att[c][t].st
            \/ att'[c][t].st = "abandoned"
        BY <2>2, <2>3, <3>3, RereadTells
      <4> QED BY <1>1, <2>2, <2>4, <3>1, <3>3, <4>1
    <3> QED BY <3>2, <3>3
  <2> QED BY <2>5, <2>6 DEF Told
<1>9. ASSUME NEW c \in CampaignIds, Created(c) PROVE Good(c)'
  <2> DEFINE r == camp[c]
             q == WithTicketAndState(r, 0, state(r))
  <2>1. /\ IsCampaign(r) /\ TypeOKOfCampaign(r) /\ Checked(r) /\ Placed(r, att[c])
    BY <1>9, CreatedIsGood
  <2>2. state(r) \in {r.state, "blocked"} /\ state(r) # "activating"
    BY BlockedAtRestart
  <2> HIDE DEF state
  <2>3. /\ IsCampaign(q) /\ q.ticket = 0 /\ q.state = state(r) /\ q.request = r.request
        /\ q.plan = r.plan /\ q.gen = r.gen /\ q.active = r.active /\ q.stages = r.stages
    BY <2>1, TicketAndState
  <2>4. camp'[c] = q
    BY <1>3, <1>9
  <2> HIDE DEF q
  <2>5. TypeOKOfCampaign(q)
    <3>1. 0 \in 0..MaxGeneration
      BY Bounds
    <3>2. q.state \in UpgradeStates
      BY <2>1, <2>2, <2>3 DEF TypeOKOfCampaign, UpgradeStates
    <3> QED BY <2>1, <2>3, <3>1, <3>2 DEF TypeOKOfCampaign
  <2>6. Checked(q)
    BY <2>1, <2>2, <2>3 DEF Checked
  <2>7. Placed(q, att'[c])
    <3>1. \A t \in Targets : att'[c][t].st # "none" =>
            att[c][t].st # "none" /\ (att[c][t].st = "verified" => att'[c][t].st = "verified")
      <4> SUFFICES ASSUME NEW t \in Targets, att'[c][t].st # "none"
                   PROVE  att[c][t].st # "none" /\ (att[c][t].st = "verified" => att'[c][t].st = "verified")
        OBVIOUS
      <4>1. att[c][t] \in AttemptRecords /\ att'[c][t] = Reread(att[c][t])
        BY <1>2, <1>4 DEF Typed
      <4>2. att[c][t].named
        BY <4>1, RereadTells
      <4> QED BY <4>1, <4>2, RereadTells DEF InFlight
    <3> QED BY <2>1, <2>3, <3>1 DEF Placed
  <2>8. Informed(q, att'[c], stale'[c], version')
    BY <2>2, <2>3 DEF Informed
  <2> QED BY <1>8, <2>3, <2>4, <2>5, <2>6, <2>7, <2>8, BecomesGood
<1>10. ASSUME NEW c \in CampaignIds, ~Created(c) PROVE Good(c)'
  <2>1. camp'[c] = NoCampaign
    BY <1>3, <1>10 DEF Created
  <2>2. \A t \in Targets : att[c][t].st = "none"
    BY <1>10 DEF IInv, Good, Sound, Created
  <2>3. \A t \in Targets : att'[c][t].st = "none"
    <3> SUFFICES ASSUME NEW t \in Targets PROVE att'[c][t].st = "none"
      OBVIOUS
    <3>1. att[c][t] \in AttemptRecords /\ att'[c][t] = Reread(att[c][t])
      BY <1>2, <1>4 DEF Typed
    <3> QED BY <2>2, <3>1, RereadTells DEF InFlight
  <2> QED BY <1>8, <2>1, <2>3 DEF Good, Sound
<1>11. Seen'
  BY <1>1 DEF Seen, Faithful, NoInventory
<1>12. camp' = [c \in CampaignIds |-> camp'[c]]
  BY <1>3
<1>13. Typed'
  BY <1>1, <1>4, <1>5, <1>6, <1>7, <1>12 DEF Typed
<1> QED BY <1>9, <1>10, <1>11, <1>13 DEF IInv

-----------------------------------------------------------------------------
(***************************************************************************)
(* What the driver decides.                                                *)
(***************************************************************************)
LEMMA WithinIsNotNewer ==
  ASSUME NEW budget, NEW v \in Version, NEW newest \in Version, TargetWithin(budget, v, newest)
  PROVE  ~v.empty /\ (~Less(newest, v) \/ PairAllowed(budget, v, newest))
<1>1. Equal(v, newest) => ~Less(newest, v)
  BY DEF Version, Equal, Less, SameNumbers, SameLine
<1> QED BY <1>1 DEF TargetWithin

\* An assessment of the skew within the budget tells the truth of every planned
\* target that is not yet activated and has not changed since the inventory.
LEMMA SkewInforms ==
  ASSUME Typed, Seen, NEW c \in CampaignIds, TypeOKOfCampaign(camp[c]), NEW a,
         AssessCurrent(c, a),
         NEW t \in Targets, t \in Planned(c), ~Upgraded(a[t]), t \notin unseen
  PROVE  \/ ~Less(Newest(c), version[t])
         \/ PairAllowed(camp[c].request.budget, version[t], Newest(c))
<1> DEFINE budget == camp[c].request.budget
<1>1. Newest(c) \in Version /\ version[t] \in Version
  <2>1. camp[c].request \in Requests
    BY DEF TypeOKOfCampaign
  <2> QED BY <2>1, RequestTypes DEF Newest, Typed
<1>2. TargetWithin(budget, LiveVersion(c, a, t), Newest(c))
  BY DEF AssessCurrent, SkewWithin
<1>3. LiveVersion(c, a, t) \in {NoVersion, version[t]}
  BY DEF LiveVersion, Seen
<1>4. LiveVersion(c, a, t) \in Version
  BY <1>1, <1>3, NoVersionType
<1>5. NoVersion.empty
  BY DEF NoVersion, V
<1>6. LiveVersion(c, a, t) = version[t]
  BY <1>1, <1>2, <1>3, <1>4, <1>5, WithinIsNotNewer
<1> QED BY <1>1, <1>2, <1>6, WithinIsNotNewer

\* Anyone but a campaign that ended or rolls back can be blocked.
LEMMA CanBlock ==
  ASSUME NEW s \in {"prepared", "staged", "activating", "verifying"}
  PROVE  Try(s, "blocked", {"failure_recorded"}) = "blocked"
<1>1. <<s, "blocked", {"failure_recorded"}>> \in Rules
  BY DEF Rules, BlockRules
<1>2. Allowed(s, "blocked", {"failure_recorded"})
  BY <1>1 DEF Allowed, TerminalStates
<1> QED BY <1>2 DEF Try

\* Once all its activations are done a campaign that activates can verify.
LEMMA CanVerify ==
  ASSUME NEW guards, "activation_complete" \in guards
  PROVE  Try("activating", "verifying", guards) = "verifying"
<1>1. <<"activating", "verifying", {"activation_complete"}>> \in Rules
  BY DEF Rules, ForwardRules
<1>2. Allowed("activating", "verifying", guards)
  BY <1>1 DEF Allowed, TerminalStates
<1> QED BY <1>2 DEF Try

\* What a pass of the planner makes of the state of a running campaign.
LEMMA PlannedStates ==
  ASSUME NEW c, Running(c)
  PROVE  /\ PlannedState(c) \in {"prepared", "staged", "activating", "verifying", "blocked"}
         /\ PlannedState(c) = "activating" => camp[c].state = "activating"
         /\ PlannedState(c) = "staged" => AssessCurrent(c, att[c])
<1> DEFINE s == camp[c].state
           ts1 == Try(s, "staged", Guards(c) \cup {"staging_complete"})
           s1 == IF s = "prepared" /\ camp[c].stages[camp[c].active] = "prepared" THEN ts1 ELSE s
           sa == IF s1 = "staged" THEN Try(s1, "activating", Guards(c)) ELSE s1
           tv == Try(sa, "verifying", Guards(c))
           s2 == IF s1 \in {"staged", "activating"} /\ ActivationComplete(c, att[c]) THEN tv ELSE s1
           tb == Try(s2, "blocked", {"failure_recorded"})
<1>1. s \in {"prepared", "staged", "activating", "verifying"}
  BY DEF Running
<1>2. PlannedState(c) = IF s2 = "staged" /\ ~AssessCurrent(c, att[c]) THEN tb ELSE s2
  BY DEF PlannedState
<1>3. s1 \in {s, "staged"} /\ (s1 = "activating" => s = "activating")
  <2>1. ts1 \in {s, "staged"}
    BY TryIsEither
  <2> HIDE DEF ts1
  <2> QED BY <2>1
<1> HIDE DEF s1
<1>4. sa \in {s1, "activating"}
  <2>1. Try(s1, "activating", Guards(c)) \in {s1, "activating"}
    BY TryIsEither
  <2> QED BY <2>1
<1>5. ActivationComplete(c, att[c]) => "activation_complete" \in Guards(c)
  BY DEF ActivationComplete, Guards, GuardsOf, StageTargets
<1> HIDE DEF sa
<1>6. tv \in {sa, "verifying"}
  BY TryIsEither
<1>7. ActivationComplete(c, att[c]) /\ sa = "activating" => tv = "verifying"
  BY <1>5, CanVerify
<1> HIDE DEF tv
<1>8. s2 \in {s1, "staged", "verifying"} /\ (s2 = "activating" => s = "activating")
  BY <1>3, <1>4, <1>6, <1>7
<1> HIDE DEF s2
<1>9. s2 = "staged" => tb = "blocked"
  BY CanBlock
<1> HIDE DEF tb
<1> QED BY <1>1, <1>2, <1>3, <1>8, <1>9

\* A running campaign has an executable plan.
LEMMA RunningIsExecutable ==
  ASSUME IInv, NEW c \in CampaignIds, Running(c)
  PROVE  /\ Created(c) /\ Executable(camp[c].plan)
         /\ camp[c].state \in {"prepared", "staged", "activating", "verifying"}
         /\ camp[c].active \in DOMAIN camp[c].plan.stages
         /\ StageTargets(c) \subseteq Planned(c)
<1>1. Created(c) /\ camp[c].state \in {"prepared", "staged", "activating", "verifying"}
  BY DEF Running
<1>2. TypeOKOfCampaign(camp[c]) /\ Checked(camp[c])
  BY <1>1, CreatedIsGood
<1>3. Executable(camp[c].plan)
  BY <1>1, <1>2 DEF Checked
<1>4. camp[c].active \in DOMAIN camp[c].plan.stages
  BY <1>2, <1>3, ActiveStage
<1>5. StageTargets(c) \subseteq Planned(c)
  BY <1>4 DEF StageTargets, Planned, PlannedTargets
<1> QED BY <1>1, <1>3, <1>4, <1>5

\* What is touched is planned.
LEMMA PlacedIsPlanned ==
  ASSUME NEW c, NEW a, Placed(camp[c], a), NEW t \in Targets, a[t].st # "none"
  PROVE  t \in Planned(c)
BY DEF Placed, Planned, PlannedTargets

\* A step of the driver replaces the record of c and its attempts.
LEMMA DriverStep ==
  ASSUME IInv, NEW c \in CampaignIds, Created(c), NEW q, NEW a \in [Targets -> AttemptRecords],
         camp' = [camp EXCEPT ![c] = q], att' = [att EXCEPT ![c] = a]
  PROVE  /\ camp'[c] = q /\ att'[c] = a
         /\ \A d \in CampaignIds \ {c} : camp'[d] = camp[d] /\ att'[d] = att[d]
         /\ camp' = [d \in CampaignIds |-> camp'[d]]
         /\ att' \in [CampaignIds -> [Targets -> AttemptRecords]]
<1>1. Typed
  BY DEF IInv
<1>2. att'[c] = a /\ \A d \in CampaignIds \ {c} : att'[d] = att[d]
  BY <1>1 DEF Typed
<1>3. att' \in [CampaignIds -> [Targets -> AttemptRecords]]
  BY <1>1 DEF Typed
<1> QED BY <1>1, <1>2, <1>3, CampTyped

\* An attempt with its state and item replaced.
Touched(a, t, st, item) == [a EXCEPT ![t].st = st, ![t].item = item]

LEMMA AttemptReplaced ==
  ASSUME NEW a \in [Targets -> AttemptRecords], NEW t \in Targets,
         NEW st \in AttemptStates, NEW item \in 0..MaxGeneration
  PROVE  LET b == Touched(a, t, st, item)
         IN /\ b \in [Targets -> AttemptRecords]
            /\ b[t].st = st /\ b[t].item = item
            /\ \A u \in Targets \ {t} : b[u] = a[u]
<1> DEFINE b1 == [a EXCEPT ![t].st = st]
           b == [b1 EXCEPT ![t].item = item]
<1>1. b1 \in [Targets -> AttemptRecords] /\ b1[t].st = st /\ \A u \in Targets \ {t} : b1[u] = a[u]
  BY DEF AttemptRecords
<1> HIDE DEF b1
<1>2. /\ b \in [Targets -> AttemptRecords] /\ b[t].st = b1[t].st /\ b[t].item = item
      /\ \A u \in Targets \ {t} : b[u] = b1[u]
  BY <1>1 DEF AttemptRecords
<1>3. Touched(a, t, st, item) = b
  BY DEF b1, b, Touched
<1> HIDE DEF b
<1> QED BY <1>1, <1>2, <1>3

LEMMA ClaimKeeps ==
  ASSUME IInv, NEW c \in CampaignIds, Claim(c)
  PROVE  IInv'
<1> DEFINE r == camp[c]
           s == PlannedState(c)
<1>1. PICK ts \in SUBSET Claimable(c, s) :
        /\ Moves(c, s)
        /\ att' = [att EXCEPT ![c] =
                     [t \in Targets |->
                        IF t \in ts THEN [att[c][t] EXCEPT !.st = "activating", !.item = camp[c].gen]
                        ELSE att[c][t]]]
        /\ stale' = IF s \in {"staged", "blocked"} THEN Assessed(c, unseen) ELSE stale
  BY DEF Claim
<1> DEFINE q == [r EXCEPT !.state = s]
           a == [t \in Targets |->
                   IF t \in ts THEN [att[c][t] EXCEPT !.st = "activating", !.item = camp[c].gen]
                   ELSE att[c][t]]
<1>2. /\ Running(c)
      /\ UNCHANGED <<version, listing, changes, inventory, inv_fresh, inc, unseen, reported, lost>>
  BY DEF Claim, fleetVars, engineVars
<1>3. Typed /\ Seen
  BY DEF IInv
<1>4. Created(c) /\ Executable(r.plan) /\ r.active \in DOMAIN r.plan.stages
  BY <1>2, RunningIsExecutable
<1>5. /\ IsCampaign(r) /\ TypeOKOfCampaign(r) /\ Checked(r) /\ Placed(r, att[c])
      /\ Informed(r, att[c], stale[c], version) /\ Out(att[c]) /\ Told(att[c], reported[c], lost[c])
  BY <1>4, CreatedIsGood
<1>6. /\ s \in {"prepared", "staged", "activating", "verifying", "blocked"}
      /\ s = "activating" => r.state = "activating"
  BY <1>2, PlannedStates
<1>7. \A t \in ts : t \in StageTargets(c) /\ att[c][t].st = "prepared"
  BY DEF Claimable
<1> HIDE DEF s
<1>8. /\ IsCampaign(q) /\ q.state = s /\ q.request = r.request /\ q.plan = r.plan /\ q.gen = r.gen
      /\ q.ticket = r.ticket /\ q.active = r.active /\ q.stages = r.stages
  BY <1>5, StateReplaced
<1>9. s \in UpgradeStates
  BY <1>6 DEF UpgradeStates
<1>10. camp' = [camp EXCEPT ![c] = q]
  BY <1>1 DEF Moves
<1> HIDE DEF q
<1>11. TypeOKOfCampaign(q) /\ Checked(q) /\ (Placed(r, a) => Placed(q, a))
  BY <1>4, <1>5, <1>8, <1>9, MovedKeeps
<1>12. /\ a \in [Targets -> AttemptRecords]
       /\ \A t \in ts : a[t].st = "activating"
       /\ \A t \in Targets \ ts : a[t] = att[c][t]
  <2>1. r.gen \in 0..MaxGeneration
    BY <1>5, Bounds DEF TypeOKOfCampaign
  <2>2. att[c] \in [Targets -> AttemptRecords]
    BY <1>3 DEF Typed
  <2>3. ASSUME NEW t \in Targets
        PROVE  /\ [att[c][t] EXCEPT !.st = "activating", !.item = camp[c].gen] \in AttemptRecords
               /\ [att[c][t] EXCEPT !.st = "activating", !.item = camp[c].gen].st = "activating"
    BY <2>1, <2>2 DEF AttemptRecords, AttemptStates
  <2>4. ts \subseteq Targets
    <3>1. r.plan.stages \in Seq(Stages)
      BY <1>5 DEF TypeOKOfCampaign
    <3>2. r.plan.stages[r.active] \in Stages
      BY <1>4, <3>1
    <3> QED BY <1>7, <3>2 DEF StageTargets, Stages
  <2> QED BY <2>2, <2>3, <2>4
<1> HIDE DEF a
<1>13. att' = [att EXCEPT ![c] = a]
  BY <1>1 DEF a
<1>14. /\ camp'[c] = q /\ att'[c] = a
       /\ \A d \in CampaignIds \ {c} : camp'[d] = camp[d] /\ att'[d] = att[d]
       /\ camp' = [d \in CampaignIds |-> camp'[d]]
       /\ att' \in [CampaignIds -> [Targets -> AttemptRecords]]
  BY <1>4, <1>10, <1>12, <1>13, DriverStep
<1>15. /\ stale' \in [CampaignIds -> SUBSET Targets]
       /\ \A d \in CampaignIds \ {c} : stale'[d] = stale[d]
       /\ s = "activating" => stale'[c] = stale[c]
  BY <1>1, <1>3 DEF Assessed, Typed
<1>16. Placed(r, a)
  <2> SUFFICES ASSUME NEW t \in Targets, a[t].st # "none"
               PROVE  \E k \in DOMAIN r.plan.stages :
                        /\ t \in r.plan.stages[k].targets
                        /\ k <= r.active
                        /\ k < r.active => a[t].st = "verified"
    BY <1>4 DEF Placed
  <2>1. CASE t \in ts
    <3>1. t \in r.plan.stages[r.active].targets
      BY <1>7, <2>1 DEF StageTargets
    <3>2. r.active \in Nat
      BY <1>5 DEF TypeOKOfCampaign
    <3> QED BY <1>4, <3>1, <3>2
  <2>2. CASE t \notin ts
    BY <1>5, <1>12, <2>2 DEF Placed
  <2> QED BY <2>1, <2>2
<1>17. Informed(q, a, stale'[c], version)
  <2> SUFFICES ASSUME s = "activating", NEW t \in Targets, a[t].st = "prepared"
               PROVE  \/ t \in stale'[c]
                      \/ ~Less(r.request.artifact.version, version[t])
                      \/ PairAllowed(r.request.budget, version[t], r.request.artifact.version)
    BY <1>8 DEF Informed
  <2>1. a[t] = att[c][t]
    BY <1>12
  <2> QED BY <1>5, <1>6, <1>15, <2>1 DEF Informed
<1>18. Out(a) /\ Told(a, reported[c], lost[c])
  <2>1. Out(a)
    BY <1>5, <1>12 DEF Out
  <2>2. Told(a, reported[c], lost[c])
    <3> SUFFICES ASSUME NEW t \in Targets
                 PROVE  reported[c][t] <= lost[c][t]
                          + (IF a[t].st \in {"none", "prepared", "activating"} THEN 0 ELSE 1)
      BY DEF Told
    <3>1. reported[c][t] <= lost[c][t]
            + (IF att[c][t].st \in {"none", "prepared", "activating"} THEN 0 ELSE 1)
      BY <1>5 DEF Told
    <3>2. CASE t \in ts
      BY <1>7, <1>12, <3>1, <3>2
    <3>3. CASE t \notin ts
      BY <1>12, <3>1, <3>3
    <3> QED BY <3>2, <3>3
  <2> QED BY <2>1, <2>2
<1>19. Good(c)'
  BY <1>2, <1>8, <1>11, <1>14, <1>16, <1>17, <1>18, BecomesGood
<1>20. ASSUME NEW d \in CampaignIds \ {c} PROVE Good(d)'
  <2>1. Undisturbed(d)
    BY <1>2, <1>14, <1>15 DEF Undisturbed
  <2> QED BY <2>1, UndisturbedGood DEF IInv
<1>21. Typed' /\ Seen'
  BY <1>2, <1>3, <1>14, <1>15 DEF Typed, Seen, Faithful
<1> QED BY <1>19, <1>20, <1>21 DEF IInv

-----------------------------------------------------------------------------
(***************************************************************************)
(* One attempt at a time.                                                  *)
(***************************************************************************)
\* A target that is neither untouched nor verified belongs to the active stage.
LEMMA HalfWay ==
  ASSUME NEW r, TypeOKOfCampaign(r), NEW a, Placed(r, a),
         NEW t \in Targets, a[t].st \notin {"none", "verified"}
  PROVE  /\ Executable(r.plan) /\ r.active \in DOMAIN r.plan.stages
         /\ t \in r.plan.stages[r.active].targets
<1>1. Executable(r.plan)
  BY DEF Placed
<1>2. PICK k \in DOMAIN r.plan.stages :
        /\ t \in r.plan.stages[k].targets
        /\ k <= r.active
        /\ k < r.active => a[t].st = "verified"
  BY DEF Placed
<1>3. r.active \in Nat /\ r.plan.stages \in Seq(Stages)
  BY DEF TypeOKOfCampaign
<1>4. k \in Nat
  BY <1>3
<1>5. k = r.active
  BY <1>2, <1>3, <1>4
<1> QED BY <1>1, <1>2, <1>5

\* Whatever happens to a target of the active stage, every target keeps its place.
LEMMA PlacedTouched ==
  ASSUME NEW r, TypeOKOfCampaign(r), Executable(r.plan), r.active \in DOMAIN r.plan.stages,
         NEW b, Placed(r, b), NEW t, t \in r.plan.stages[r.active].targets,
         NEW a, \A u \in Targets \ {t} : a[u] = b[u]
  PROVE  Placed(r, a)
<1> SUFFICES ASSUME NEW u \in Targets, a[u].st # "none"
             PROVE  \E k \in DOMAIN r.plan.stages :
                      /\ u \in r.plan.stages[k].targets
                      /\ k <= r.active
                      /\ k < r.active => a[u].st = "verified"
  BY DEF Placed
<1>1. CASE u = t
  <2>1. r.active \in Nat
    BY DEF TypeOKOfCampaign
  <2> QED BY <1>1, <2>1
<1>2. CASE u # t
  BY <1>2 DEF Placed
<1> QED BY <1>1, <1>2

\* What is made of the attempt on t tells nothing of the others.
LEMMA OutTouched ==
  ASSUME NEW b, Out(b), NEW t, NEW a, \A u \in Targets \ {t} : a[u] = b[u], a[t].item = 0
  PROVE  Out(a)
BY DEF Out

LEMMA ToldTouched ==
  ASSUME NEW b, NEW n \in [Targets -> Nat], NEW m \in [Targets -> Nat], Told(b, n, m),
         NEW t \in Targets, NEW a, \A u \in Targets \ {t} : a[u] = b[u],
         a[t].st \in {"none", "prepared", "activating"} =>
           b[t].st \in {"none", "prepared", "activating"}
  PROVE  Told(a, n, m)
<1> SUFFICES ASSUME NEW u \in Targets
             PROVE  n[u] <= m[u] + (IF a[u].st \in {"none", "prepared", "activating"} THEN 0 ELSE 1)
  BY DEF Told
<1>1. n[u] <= m[u] + (IF b[u].st \in {"none", "prepared", "activating"} THEN 0 ELSE 1)
  BY DEF Told
<1>2. n[u] \in Nat /\ m[u] \in Nat
  OBVIOUS
<1>3. CASE u = t
  BY <1>1, <1>2, <1>3
<1>4. CASE u # t
  BY <1>1, <1>4
<1> QED BY <1>3, <1>4

\* The activation of t is recorded.
LEMMA ToldOnce ==
  ASSUME NEW b, NEW n \in [Targets -> Nat], NEW m \in [Targets -> Nat], Told(b, n, m),
         NEW t \in Targets, NEW a, \A u \in Targets \ {t} : a[u] = b[u],
         b[t].st = "activating", a[t].st = "activated",
         NEW n1, n1[t] = n[t] + 1, \A u \in Targets \ {t} : n1[u] = n[u]
  PROVE  Told(a, n1, m)
<1> SUFFICES ASSUME NEW u \in Targets
             PROVE  n1[u] <= m[u] + (IF a[u].st \in {"none", "prepared", "activating"} THEN 0 ELSE 1)
  BY DEF Told
<1>1. n[u] <= m[u] + (IF b[u].st \in {"none", "prepared", "activating"} THEN 0 ELSE 1)
  BY DEF Told
<1>2. n[u] \in Nat /\ m[u] \in Nat
  OBVIOUS
<1>3. CASE u = t
  BY <1>1, <1>2, <1>3
<1>4. CASE u # t
  BY <1>1, <1>4
<1> QED BY <1>3, <1>4

\* A campaign knows no less of what is prepared when less is prepared.
LEMMA InformedTouched ==
  ASSUME NEW r, NEW b, NEW blind, NEW v, Informed(r, b, blind, v),
         NEW t, NEW a, \A u \in Targets \ {t} : a[u] = b[u],
         a[t].st = "prepared" => b[t].st = "prepared",
         NEW q, q.request = r.request, q.state = "activating" => r.state = "activating"
  PROVE  Informed(q, a, blind, v)
<1> SUFFICES ASSUME q.state = "activating", NEW u \in Targets, a[u].st = "prepared"
             PROVE  \/ u \in blind
                    \/ ~Less(q.request.artifact.version, v[u])
                    \/ PairAllowed(q.request.budget, v[u], q.request.artifact.version)
  BY DEF Informed
<1>1. b[u].st = "prepared"
  OBVIOUS
<1> QED BY <1>1 DEF Informed

\* The types after a step that changes neither the inventory nor the counters.
LEMMA DriverTyped ==
  ASSUME Typed,
         UNCHANGED <<listing, changes, inv_fresh, inc, lost>>,
         version' \in [Targets -> Version], unseen' \subseteq Targets,
         camp' = [d \in CampaignIds |-> camp'[d]],
         att' \in [CampaignIds -> [Targets -> AttemptRecords]],
         stale' \in [CampaignIds -> SUBSET Targets],
         reported' \in [CampaignIds -> [Targets -> Nat]]
  PROVE  Typed'
BY DEF Typed

\* A commit that is not accepted only gives up its item.
LEMMA ActivateFailsKeeps ==
  ASSUME IInv, NEW c \in CampaignIds, NEW t \in Targets, ActivateFails(c, t)
  PROVE  IInv'
<1> DEFINE r == camp[c]
           fence == Fence(c, t, ActivationStates)
           st == IF fence THEN "failed" ELSE att[c][t].st
           s == IF fence THEN Try(r.state, "failed", {"failure_recorded"}) ELSE r.state
           a == Touched(att[c], t, st, 0)
           q == [r EXCEPT !.state = s]
<1>1. /\ Created(c) /\ att[c][t].item # 0
      /\ UNCHANGED <<version, listing, changes, inventory, inv_fresh, inc, unseen, stale, reported, lost>>
  BY DEF ActivateFails, fleetVars, engineVars, historyVars
<1>2. Typed /\ Seen
  BY DEF IInv
<1>3. att[c] \in [Targets -> AttemptRecords] /\ att[c][t] \in AttemptRecords
  BY <1>2 DEF Typed
<1>4. /\ IsCampaign(r) /\ TypeOKOfCampaign(r) /\ Checked(r) /\ Placed(r, att[c])
      /\ Informed(r, att[c], stale[c], version) /\ Out(att[c]) /\ Told(att[c], reported[c], lost[c])
  BY <1>1, CreatedIsGood
<1>5. att[c][t].st = "activating"
  BY <1>1, <1>4 DEF Out
<1>6. Executable(r.plan) /\ r.active \in DOMAIN r.plan.stages /\ t \in r.plan.stages[r.active].targets
  BY <1>4, <1>5, HalfWay
<1>7. camp' = [camp EXCEPT ![c] = q] /\ att' = [att EXCEPT ![c] = a]
  <2>1. CASE fence
    BY <2>1 DEF ActivateFails, Moves, Becomes, Touched
  <2>2. CASE ~fence
    <3>1. att' = [att EXCEPT ![c][t].item = 0] /\ camp' = camp
      BY <2>2 DEF ActivateFails
    <3>2. [att[c] EXCEPT ![t].item = 0] = a
      BY <1>3, <2>2 DEF AttemptRecords, Touched
    <3>3. att' = [att EXCEPT ![c] = a]
      BY <3>1, <3>2
    <3>4. q = r
      BY <1>4, <2>2 DEF IsCampaign
    <3>5. camp' = [camp EXCEPT ![c] = r]
      BY <1>2, <3>1 DEF Typed
    <3> QED BY <3>3, <3>4, <3>5
  <2> QED BY <2>1, <2>2
<1>8. st \in {"failed", "activating"} /\ s \in {r.state, "failed"}
  <2>1. Try(r.state, "failed", {"failure_recorded"}) \in {r.state, "failed"}
    BY TryIsEither
  <2> QED BY <1>5, <2>1
<1> HIDE DEF st, s
<1>9. /\ a \in [Targets -> AttemptRecords] /\ a[t].st = st /\ a[t].item = 0
      /\ \A u \in Targets \ {t} : a[u] = att[c][u]
  <2>1. st \in AttemptStates /\ 0 \in 0..MaxGeneration
    BY <1>8, Bounds DEF AttemptStates
  <2> QED BY <1>3, <2>1, AttemptReplaced
<1>10. /\ IsCampaign(q) /\ q.state = s /\ q.request = r.request /\ q.plan = r.plan /\ q.gen = r.gen
       /\ q.ticket = r.ticket /\ q.active = r.active /\ q.stages = r.stages
  BY <1>4, StateReplaced
<1>11. s \in UpgradeStates
  BY <1>4, <1>8 DEF UpgradeStates, TypeOKOfCampaign
<1> HIDE DEF a, q
<1>12. TypeOKOfCampaign(q) /\ Checked(q) /\ (Placed(r, a) => Placed(q, a))
  BY <1>4, <1>6, <1>10, <1>11, MovedKeeps
<1>13. Placed(r, a)
  BY <1>4, <1>6, <1>9, PlacedTouched
<1>14. Informed(q, a, stale[c], version)
  BY <1>4, <1>8, <1>9, <1>10, InformedTouched
<1>15. Out(a) /\ Told(a, reported[c], lost[c])
  <2>1. reported[c] \in [Targets -> Nat] /\ lost[c] \in [Targets -> Nat]
    BY <1>2 DEF Typed
  <2>2. Told(a, reported[c], lost[c])
    BY <1>4, <1>5, <1>9, <2>1, ToldTouched
  <2> QED BY <1>4, <1>9, <2>2, OutTouched
<1>16. /\ camp'[c] = q /\ att'[c] = a
       /\ \A d \in CampaignIds \ {c} : camp'[d] = camp[d] /\ att'[d] = att[d]
       /\ camp' = [d \in CampaignIds |-> camp'[d]]
       /\ att' \in [CampaignIds -> [Targets -> AttemptRecords]]
  BY <1>1, <1>7, <1>9, DriverStep
<1>17. Good(c)'
  BY <1>1, <1>10, <1>12, <1>13, <1>14, <1>15, <1>16, BecomesGood
<1>18. ASSUME NEW d \in CampaignIds \ {c} PROVE Good(d)'
  <2>1. Undisturbed(d)
    BY <1>1, <1>16 DEF Undisturbed
  <2> QED BY <2>1, UndisturbedGood DEF IInv
<1>19. Typed' /\ Seen'
  BY <1>1, <1>2, <1>16 DEF Typed, Seen, Faithful
<1> QED BY <1>17, <1>18, <1>19 DEF IInv

LEMMA PrepareKeeps ==
  ASSUME IInv, NEW c \in CampaignIds, NEW t \in Targets, Prepare(c, t)
  PROVE  IInv'
<1> DEFINE r == camp[c]
           k == r.active
           made == [st |-> "prepared", gen |-> r.gen, item |-> 0,
                    named |-> ~inventory[t].installed.empty, fresh |-> FALSE]
           a == [att[c] EXCEPT ![t] = made]
           ready == \A u \in StageTargets(c) : a[u].st \in {"prepared", "activated", "verified"}
           sg == IF ready THEN [r.stages EXCEPT ![k] = "prepared"] ELSE r.stages
           s == IF ready /\ r.state = "prepared"
                  THEN Try(r.state, "staged", GuardsOf(c, a, k, sg)) ELSE r.state
           q == WithStages(r, sg, s)
<1>1. /\ Running(c) /\ StagingPhase(c, r.state)
      /\ t \in StageTargets(c) \cap DOMAIN inventory /\ att[c][t] = NoAttempt
      /\ UNCHANGED <<version, listing, changes, inventory, inv_fresh, inc, unseen, reported, lost>>
  BY DEF Prepare, fleetVars, engineVars
<1>2. att' = [att EXCEPT ![c] = a] /\ camp' = [camp EXCEPT ![c] = q]
      /\ stale' = IF r.state = "staged" THEN Assessed(c, unseen) ELSE stale
  BY DEF Prepare, WithStages
<1>3. Typed /\ Seen
  BY DEF IInv
<1>4. Created(c) /\ Executable(r.plan) /\ r.active \in DOMAIN r.plan.stages
  BY <1>1, RunningIsExecutable
<1>5. /\ IsCampaign(r) /\ TypeOKOfCampaign(r) /\ Checked(r) /\ Placed(r, att[c])
      /\ Informed(r, att[c], stale[c], version) /\ Out(att[c]) /\ Told(att[c], reported[c], lost[c])
  BY <1>4, CreatedIsGood
<1>6. r.state \in {"prepared", "staged"}
  BY <1>1 DEF StagingPhase
<1>7. /\ a \in [Targets -> AttemptRecords] /\ a[t].st = "prepared" /\ a[t].item = 0
      /\ \A u \in Targets \ {t} : a[u] = att[c][u]
  <2>1. r.gen \in 0..MaxGeneration /\ 0 \in 0..MaxGeneration
    BY <1>5, Bounds DEF TypeOKOfCampaign
  <2>2. made \in AttemptRecords /\ made.st = "prepared" /\ made.item = 0
    BY <2>1 DEF AttemptRecords, AttemptStates
  <2>3. att[c] \in [Targets -> AttemptRecords]
    BY <1>3 DEF Typed
  <2> HIDE DEF made
  <2> QED BY <2>2, <2>3
<1> HIDE DEF a, ready
<1>8. sg \in Seq({"pending", "prepared", "completed"}) /\ Len(sg) = Len(r.stages)
      /\ DOMAIN sg = DOMAIN r.stages
  BY <1>5 DEF TypeOKOfCampaign
<1> HIDE DEF sg
<1>9. s \in {"prepared", "staged"}
  <2>1. Try(r.state, "staged", GuardsOf(c, a, k, sg)) \in {r.state, "staged"}
    BY TryIsEither
  <2> QED BY <1>6, <2>1
<1> HIDE DEF s
<1>10. /\ IsCampaign(q) /\ q.stages = sg /\ q.state = s
       /\ q.request = r.request /\ q.plan = r.plan /\ q.gen = r.gen /\ q.ticket = r.ticket
       /\ q.active = r.active
  BY <1>5, StagesAndState
<1> HIDE DEF q
<1>11. TypeOKOfCampaign(q)
  <2>1. s \in UpgradeStates
    BY <1>9 DEF UpgradeStates
  <2>2. q.stages # <<>> => q.active \in DOMAIN q.stages
    <3>1. r.active \in DOMAIN r.stages
      BY <1>4, <1>5, ActiveStage
    <3> QED BY <1>8, <1>10, <3>1
  <2> QED BY <1>5, <1>8, <1>10, <2>1, <2>2 DEF TypeOKOfCampaign
<1>12. Checked(q)
  BY <1>4, <1>5, <1>10 DEF Checked
<1>13. Placed(q, a)
  <2>1. t \in r.plan.stages[r.active].targets
    BY <1>1 DEF StageTargets
  <2>2. Placed(r, a)
    BY <1>4, <1>5, <1>7, <2>1, PlacedTouched
  <2> QED BY <1>10, <2>2 DEF Placed
<1>14. Informed(q, a, stale'[c], version')
  BY <1>9, <1>10 DEF Informed
<1>15. Out(a) /\ Told(a, reported[c], lost[c])
  <2>1. reported[c] \in [Targets -> Nat] /\ lost[c] \in [Targets -> Nat]
    BY <1>3 DEF Typed
  <2>2. att[c][t].st = "none"
    BY <1>1 DEF NoAttempt
  <2>3. Told(a, reported[c], lost[c])
    BY <1>5, <1>7, <2>1, <2>2, ToldTouched
  <2> QED BY <1>5, <1>7, <2>3, OutTouched
<1>16. /\ camp'[c] = q /\ att'[c] = a
       /\ \A d \in CampaignIds \ {c} : camp'[d] = camp[d] /\ att'[d] = att[d]
       /\ camp' = [d \in CampaignIds |-> camp'[d]]
       /\ att' \in [CampaignIds -> [Targets -> AttemptRecords]]
  BY <1>2, <1>4, <1>7, DriverStep
<1>17. Good(c)'
  BY <1>1, <1>10, <1>11, <1>12, <1>13, <1>14, <1>15, <1>16, BecomesGood
<1>18. /\ stale' \in [CampaignIds -> SUBSET Targets]
       /\ \A d \in CampaignIds \ {c} : stale'[d] = stale[d]
  BY <1>2, <1>3 DEF Assessed, Typed
<1>19. ASSUME NEW d \in CampaignIds \ {c} PROVE Good(d)'
  <2>1. Undisturbed(d)
    BY <1>1, <1>16, <1>18 DEF Undisturbed
  <2> QED BY <2>1, UndisturbedGood DEF IInv
<1>20. Typed' /\ Seen'
  BY <1>1, <1>3, <1>16, <1>18 DEF Typed, Seen, Faithful
<1> QED BY <1>17, <1>19, <1>20 DEF IInv

\* The adapter changed t; what the campaign then knows of the others.
LEMMA ActivateKeeps ==
  ASSUME IInv, NEW c \in CampaignIds, NEW t \in Targets, Activate(c, t)
  PROVE  IInv'
<1> DEFINE r == camp[c]
           fence == Fence(c, t, ActivationStates)
           st == IF fence THEN "activated" ELSE att[c][t].st
           a == Touched(att[c], t, st, 0)
           b == Becomes(c, t, "activated")
           g == GuardsOf(c, b, r.active, r.stages)
           s1 == IF r.state = "staged" THEN Try("staged", "activating", g) ELSE r.state
           sb == Try(s1, "blocked", {"failure_recorded"})
           sv == Try(s1, "verifying", g)
           s == IF fence
                  THEN IF ~AssessCurrent(c, b) THEN sb
                       ELSE IF ActivationComplete(c, b) THEN sv ELSE s1
                  ELSE r.state
           q == [r EXCEPT !.state = s]
<1>1. /\ Created(c) /\ att[c][t].item # 0
      /\ version' = [version EXCEPT ![t] = Newest(c)] /\ unseen' = unseen \cup {t}
      /\ UNCHANGED <<listing, changes, inventory, inv_fresh, inc, lost>>
  BY DEF Activate, engineVars
<1>2. Typed /\ Seen
  BY DEF IInv
<1>3. /\ att[c] \in [Targets -> AttemptRecords] /\ att[c][t] \in AttemptRecords
      /\ reported[c] \in [Targets -> Nat] /\ lost[c] \in [Targets -> Nat]
  BY <1>2 DEF Typed
<1>4. /\ IsCampaign(r) /\ TypeOKOfCampaign(r) /\ Checked(r) /\ Placed(r, att[c])
      /\ Informed(r, att[c], stale[c], version) /\ Out(att[c]) /\ Told(att[c], reported[c], lost[c])
  BY <1>1, CreatedIsGood
<1>5. att[c][t].st = "activating"
  BY <1>1, <1>4 DEF Out
<1>6. Executable(r.plan) /\ r.active \in DOMAIN r.plan.stages /\ t \in r.plan.stages[r.active].targets
  BY <1>4, <1>5, HalfWay
<1>7. /\ camp' = [camp EXCEPT ![c] = q] /\ att' = [att EXCEPT ![c] = a]
      /\ reported' = IF fence THEN [reported EXCEPT ![c][t] = @ + 1] ELSE reported
      /\ stale' = IF fence THEN [Change(t) EXCEPT ![c] = unseen \cup {t}] ELSE Change(t)
  <2>1. CASE fence
    BY <2>1 DEF Activate, Moves, Becomes, Touched
  <2>2. CASE ~fence
    <3>1. att' = [att EXCEPT ![c][t].item = 0] /\ camp' = camp /\ reported' = reported
          /\ stale' = Change(t)
      BY <2>2 DEF Activate
    <3>2. [att[c] EXCEPT ![t].item = 0] = a
      BY <1>3, <2>2 DEF AttemptRecords, Touched
    <3>3. att' = [att EXCEPT ![c] = a]
      BY <3>1, <3>2
    <3>4. q = r
      BY <1>4, <2>2 DEF IsCampaign
    <3>5. camp' = [camp EXCEPT ![c] = r]
      BY <1>2, <3>1 DEF Typed
    <3> QED BY <2>2, <3>1, <3>3, <3>4, <3>5
  <2> QED BY <2>1, <2>2
<1>8. fence => r.state \in {"staged", "activating"}
  BY DEF Fence, ActivationStates
<1>9. st \in {"activated", "activating"} /\ (fence <=> st = "activated")
  BY <1>5
<1>10. /\ s \in {r.state, "staged", "activating", "verifying", "blocked"}
       /\ s = "activating" /\ fence => AssessCurrent(c, b)
       /\ s = "activating" /\ ~fence => r.state = "activating"
  <2>1. fence => s1 \in {"staged", "activating"}
    <3>1. Try("staged", "activating", g) \in {"staged", "activating"}
      BY TryIsEither
    <3> QED BY <1>8, <3>1
  <2> HIDE DEF s1
  <2>2. fence => sb = "blocked"
    BY <2>1, CanBlock
  <2>3. sv \in {s1, "verifying"}
    BY TryIsEither
  <2> HIDE DEF sb, sv
  <2> QED BY <2>1, <2>2, <2>3
<1>11. fence => b = a
  BY DEF Becomes, Touched
<1> HIDE DEF st, s, b, fence
<1>12. /\ a \in [Targets -> AttemptRecords] /\ a[t].st = st /\ a[t].item = 0
       /\ \A u \in Targets \ {t} : a[u] = att[c][u]
  <2>1. st \in AttemptStates /\ 0 \in 0..MaxGeneration
    BY <1>9, Bounds DEF AttemptStates
  <2> QED BY <1>3, <2>1, AttemptReplaced
<1>13. /\ IsCampaign(q) /\ q.state = s /\ q.request = r.request /\ q.plan = r.plan /\ q.gen = r.gen
       /\ q.ticket = r.ticket /\ q.active = r.active /\ q.stages = r.stages
  BY <1>4, StateReplaced
<1>14. s \in UpgradeStates
  BY <1>4, <1>10 DEF UpgradeStates, TypeOKOfCampaign
<1> HIDE DEF a, q
<1>15. TypeOKOfCampaign(q) /\ Checked(q) /\ (Placed(r, a) => Placed(q, a))
  BY <1>4, <1>6, <1>13, <1>14, MovedKeeps
<1>16. Placed(r, a)
  BY <1>4, <1>6, <1>12, PlacedTouched
<1>17. stale'[c] = IF fence THEN unseen \cup {t} ELSE stale[c] \cup {t}
  <2>1. Change(t)[c] = stale[c] \cup {t} /\ c \in DOMAIN Change(t)
    BY <1>1 DEF Change
  <2> QED BY <1>7, <2>1
<1>18. Informed(q, a, stale'[c], version')
  <2> SUFFICES ASSUME s = "activating", NEW u \in Targets, a[u].st = "prepared", u \notin stale'[c]
               PROVE  \/ ~Less(r.request.artifact.version, version'[u])
                      \/ PairAllowed(r.request.budget, version'[u], r.request.artifact.version)
    BY <1>13 DEF Informed
  <2>1. u # t /\ (fence => u \notin unseen) /\ (~fence => u \notin stale[c])
    BY <1>17
  <2>2. version'[u] = version[u]
    BY <1>1, <1>2, <2>1 DEF Typed
  <2>3. CASE fence
    <3>1. AssessCurrent(c, a)
      BY <1>10, <1>11, <2>3
    <3>2. u \in Planned(c)
      BY <1>16, PlacedIsPlanned
    <3>3. ~Upgraded(a[u])
      BY DEF Upgraded
    <3> QED BY <1>2, <1>4, <2>1, <2>2, <2>3, <3>1, <3>2, <3>3, SkewInforms DEF Newest
  <2>4. CASE ~fence
    BY <1>4, <1>10, <1>12, <2>1, <2>2, <2>4 DEF Informed
  <2> QED BY <2>3, <2>4
<1>19. reported'[c] = IF fence THEN [reported[c] EXCEPT ![t] = @ + 1] ELSE reported[c]
  BY <1>2, <1>7 DEF Typed
<1>20. Out(a) /\ Told(a, reported'[c], lost[c])
  <2>1. CASE fence
    <3>1. reported'[c][t] = reported[c][t] + 1
      BY <1>3, <1>19, <2>1
    <3>2. \A u \in Targets \ {t} : reported'[c][u] = reported[c][u]
      BY <1>3, <1>19, <2>1
    <3>3. Told(a, reported'[c], lost[c])
      BY <1>3, <1>4, <1>5, <1>9, <1>12, <2>1, <3>1, <3>2, ToldOnce
    <3> QED BY <1>4, <1>12, <3>3, OutTouched
  <2>2. CASE ~fence
    BY <1>3, <1>4, <1>5, <1>9, <1>12, <1>19, <2>2, ToldTouched, OutTouched
  <2> QED BY <2>1, <2>2
<1>21. /\ camp'[c] = q /\ att'[c] = a
       /\ \A d \in CampaignIds \ {c} : camp'[d] = camp[d] /\ att'[d] = att[d]
       /\ camp' = [d \in CampaignIds |-> camp'[d]]
       /\ att' \in [CampaignIds -> [Targets -> AttemptRecords]]
  BY <1>1, <1>7, <1>12, DriverStep
<1>22. Good(c)'
  BY <1>1, <1>13, <1>15, <1>16, <1>18, <1>20, <1>21, BecomesGood
<1>23. ASSUME NEW d \in CampaignIds \ {c} PROVE Good(d)'
  <2>1. stale'[d] = Change(t)[d]
    BY <1>7
  <2>2. reported'[d] = reported[d] /\ lost'[d] = lost[d]
    BY <1>1, <1>2, <1>7 DEF Typed
  <2>3. Undisturbed(d)
    BY <1>1, <1>2, <1>21, <2>1, <2>2, ChangeTold
  <2> QED BY <2>3, UndisturbedGood DEF IInv
<1>24. Typed'
  <2>1. Newest(c) \in Version
    BY <1>4, RequestTypes DEF TypeOKOfCampaign, Newest
  <2>2. version' \in [Targets -> Version] /\ unseen' \subseteq Targets
    BY <1>1, <1>2, <2>1 DEF Typed
  <2>3. Change(t) \in [CampaignIds -> SUBSET Targets]
    BY <1>2, ChangeTyped
  <2>4. unseen \cup {t} \in SUBSET Targets
    BY <1>2 DEF Typed
  <2>5. stale' \in [CampaignIds -> SUBSET Targets]
    BY <1>7, <2>3, <2>4
  <2>6. reported' \in [CampaignIds -> [Targets -> Nat]]
    BY <1>2, <1>7 DEF Typed
  <2> QED BY <1>1, <1>2, <1>21, <2>2, <2>5, <2>6, DriverTyped
<1>25. Seen'
  BY <1>1, <1>2, ChangeSeen
<1> QED BY <1>22, <1>23, <1>24, <1>25 DEF IInv

\* A verification that counts. When it completes the stage, all of the stage is
\* verified, and the campaign may move on to the next one.
LEMMA VerifiedKeeps ==
  ASSUME IInv, NEW c \in CampaignIds, Created(c), NEW t \in Targets,
         att[c][t].st = "activated",
         NEW a \in [Targets -> AttemptRecords], \A u \in Targets \ {t} : a[u] = att[c][u],
         a[t].st = "verified", a[t].item = att[c][t].item,
         NEW done \in BOOLEAN, done <=> \A u \in StageTargets(c) : a[u].st = "verified",
         NEW sg \in Seq({"pending", "prepared", "completed"}), Len(sg) = Len(camp[c].stages),
         NEW x, x = IF done /\ camp[c].active # Len(camp[c].stages)
                      THEN camp[c].active + 1 ELSE camp[c].active,
         NEW s \in UpgradeStates, s \notin {"proposed", "blocked"},
         s = "activating" => camp[c].state = "activating",
         camp' = [camp EXCEPT ![c] = WithAdvance(camp[c], sg, x, s)],
         att' = [att EXCEPT ![c] = a],
         UNCHANGED <<version, listing, changes, inventory, inv_fresh, inc, unseen, stale,
                     reported, lost>>
  PROVE  IInv'
<1> DEFINE r == camp[c]
           q == WithAdvance(r, sg, x, s)
<1>1. Typed /\ Seen
  BY DEF IInv
<1>2. /\ IsCampaign(r) /\ TypeOKOfCampaign(r) /\ Checked(r) /\ Placed(r, att[c])
      /\ Informed(r, att[c], stale[c], version) /\ Out(att[c]) /\ Told(att[c], reported[c], lost[c])
  BY CreatedIsGood
<1>3. Executable(r.plan) /\ r.active \in DOMAIN r.plan.stages /\ t \in r.plan.stages[r.active].targets
  BY <1>2, HalfWay
<1>4. /\ r.active \in DOMAIN r.stages /\ DOMAIN r.stages = DOMAIN r.plan.stages
      /\ r.active \in Nat /\ DOMAIN r.stages = 1..Len(r.stages) /\ Len(r.stages) \in Nat
  BY <1>2, <1>3, ActiveStage
<1>5. /\ IsCampaign(q) /\ q.stages = sg /\ q.active = x /\ q.state = s
      /\ q.request = r.request /\ q.plan = r.plan /\ q.gen = r.gen /\ q.ticket = r.ticket
  BY <1>2, AdvanceAndState
<1> HIDE DEF q
<1>6. x \in Nat /\ x \in 1..Len(sg) /\ r.active <= x /\ (x # r.active => done /\ x = r.active + 1)
  BY <1>4
<1>7. TypeOKOfCampaign(q)
  <2>1. DOMAIN sg = 1..Len(sg)
    OBVIOUS
  <2> QED BY <1>2, <1>5, <1>6, <2>1 DEF TypeOKOfCampaign
<1>8. Checked(q)
  BY <1>2, <1>3, <1>5 DEF Checked
<1>9. Placed(r, a)
  <2> HIDE DEF r
  <2>1. \A u \in Targets \ {t} : a[u] = att[c][u]
    OBVIOUS
  <2> QED BY <1>2, <1>3, <2>1, PlacedTouched
<1>10. Placed(q, a)
  <2> SUFFICES ASSUME NEW u \in Targets, a[u].st # "none"
               PROVE  \E k \in DOMAIN r.plan.stages :
                        /\ u \in r.plan.stages[k].targets
                        /\ k <= x
                        /\ k < x => a[u].st = "verified"
    BY <1>3, <1>5 DEF Placed
  <2>1. PICK k \in DOMAIN r.plan.stages :
          /\ u \in r.plan.stages[k].targets
          /\ k <= r.active
          /\ k < r.active => a[u].st = "verified"
    BY <1>9 DEF Placed
  <2>2. k \in Nat
    BY <1>4
  <2>3. k <= x
    BY <1>4, <1>6, <2>1, <2>2
  <2>4. ASSUME k < x PROVE a[u].st = "verified"
    <3>1. CASE k < r.active
      BY <2>1, <3>1
    <3>2. CASE ~(k < r.active)
      <4>1. k = r.active /\ done
        BY <1>4, <1>6, <2>1, <2>2, <2>4, <3>2
      <4> QED BY <2>1, <4>1 DEF StageTargets
    <3> QED BY <3>1, <3>2
  <2> QED BY <2>1, <2>3, <2>4
<1>11. Informed(q, a, stale[c], version)
  BY <1>2, <1>5, InformedTouched
<1>12. Out(a) /\ Told(a, reported[c], lost[c])
  <2>1. reported[c] \in [Targets -> Nat] /\ lost[c] \in [Targets -> Nat]
    BY <1>1 DEF Typed
  <2>2. a[t].item = 0
    BY <1>2 DEF Out
  <2>3. Told(a, reported[c], lost[c])
    BY <1>2, <2>1, ToldTouched
  <2> QED BY <1>2, <2>2, <2>3, OutTouched
<1>13. /\ camp'[c] = q /\ att'[c] = a
       /\ \A d \in CampaignIds \ {c} : camp'[d] = camp[d] /\ att'[d] = att[d]
       /\ camp' = [d \in CampaignIds |-> camp'[d]]
       /\ att' \in [CampaignIds -> [Targets -> AttemptRecords]]
  BY DriverStep DEF q
<1>14. Good(c)'
  BY <1>5, <1>7, <1>8, <1>10, <1>11, <1>12, <1>13, BecomesGood
<1>15. ASSUME NEW d \in CampaignIds \ {c} PROVE Good(d)'
  <2>1. Undisturbed(d)
    BY <1>13 DEF Undisturbed
  <2> QED BY <2>1, UndisturbedGood DEF IInv
<1>16. Typed' /\ Seen'
  BY <1>1, <1>13 DEF Typed, Seen, Faithful
<1> QED BY <1>14, <1>15, <1>16 DEF IInv

\* A verification that does not: the attempt is of an earlier generation, or the
\* target does not run the artifact's version.
LEMMA UnverifiedKeeps ==
  ASSUME IInv, NEW c \in CampaignIds, Created(c), NEW t \in Targets,
         att[c][t].st = "activated",
         NEW st \in {"verifying", "failed"}, NEW s \in {camp[c].state, "failed"},
         camp' = [camp EXCEPT ![c] = [camp[c] EXCEPT !.state = s]],
         att' = [att EXCEPT ![c] = Touched(att[c], t, st, 0)],
         UNCHANGED <<version, listing, changes, inventory, inv_fresh, inc, unseen, stale,
                     reported, lost>>
  PROVE  IInv'
<1> DEFINE r == camp[c]
           a == Touched(att[c], t, st, 0)
           q == [r EXCEPT !.state = s]
<1>1. Typed /\ Seen
  BY DEF IInv
<1>2. /\ IsCampaign(r) /\ TypeOKOfCampaign(r) /\ Checked(r) /\ Placed(r, att[c])
      /\ Informed(r, att[c], stale[c], version) /\ Out(att[c]) /\ Told(att[c], reported[c], lost[c])
  BY CreatedIsGood
<1>3. Executable(r.plan) /\ r.active \in DOMAIN r.plan.stages /\ t \in r.plan.stages[r.active].targets
  BY <1>2, HalfWay
<1>4. /\ a \in [Targets -> AttemptRecords] /\ a[t].st = st /\ a[t].item = 0
      /\ \A u \in Targets \ {t} : a[u] = att[c][u]
  <2>1. st \in AttemptStates /\ 0 \in 0..MaxGeneration
    BY Bounds DEF AttemptStates
  <2>2. att[c] \in [Targets -> AttemptRecords]
    BY <1>1 DEF Typed
  <2> QED BY <2>1, <2>2, AttemptReplaced
<1>5. /\ IsCampaign(q) /\ q.state = s /\ q.request = r.request /\ q.plan = r.plan /\ q.gen = r.gen
      /\ q.ticket = r.ticket /\ q.active = r.active /\ q.stages = r.stages
  BY <1>2, StateReplaced
<1>6. s \in UpgradeStates
  BY <1>2 DEF UpgradeStates, TypeOKOfCampaign
<1> HIDE DEF a, q
<1>7. TypeOKOfCampaign(q) /\ Checked(q) /\ (Placed(r, a) => Placed(q, a))
  BY <1>2, <1>3, <1>5, <1>6, MovedKeeps
<1>8. Placed(r, a)
  BY <1>2, <1>3, <1>4, PlacedTouched
<1>9. Informed(q, a, stale[c], version)
  BY <1>2, <1>4, <1>5, InformedTouched
<1>10. Out(a) /\ Told(a, reported[c], lost[c])
  <2>1. reported[c] \in [Targets -> Nat] /\ lost[c] \in [Targets -> Nat]
    BY <1>1 DEF Typed
  <2>2. Told(a, reported[c], lost[c])
    BY <1>2, <1>4, <2>1, ToldTouched
  <2> QED BY <1>2, <1>4, <2>2, OutTouched
<1>11. /\ camp'[c] = q /\ att'[c] = a
       /\ \A d \in CampaignIds \ {c} : camp'[d] = camp[d] /\ att'[d] = att[d]
       /\ camp' = [d \in CampaignIds |-> camp'[d]]
       /\ att' \in [CampaignIds -> [Targets -> AttemptRecords]]
  BY <1>4, DriverStep DEF a, q
<1>12. Good(c)'
  BY <1>5, <1>7, <1>8, <1>9, <1>10, <1>11, BecomesGood
<1>13. ASSUME NEW d \in CampaignIds \ {c} PROVE Good(d)'
  <2>1. Undisturbed(d)
    BY <1>11 DEF Undisturbed
  <2> QED BY <2>1, UndisturbedGood DEF IInv
<1>14. Typed' /\ Seen'
  BY <1>1, <1>11 DEF Typed, Seen, Faithful
<1> QED BY <1>12, <1>13, <1>14 DEF IInv

LEMMA VerifyKeeps ==
  ASSUME IInv, NEW c \in CampaignIds, NEW t \in Targets, Verify(c, t)
  PROVE  IInv'
<1> DEFINE r == camp[c]
           a == [att[c] EXCEPT ![t].st = "verified", ![t].fresh = TRUE]
           done == \A u \in StageTargets(c) : a[u].st = "verified"
           k == r.active
           last == k = Len(r.stages)
           x == IF done /\ ~last THEN k + 1 ELSE k
           sg == IF done THEN [r.stages EXCEPT ![k] = "completed"] ELSE r.stages
           g == GuardsOf(c, a, x, sg)
           sd == Try(r.state, IF last THEN "completed" ELSE "staged", g)
           s == IF ~done THEN r.state ELSE sd
           sf == Try(r.state, "failed", {"failure_recorded"})
<1>1. /\ Created(c) /\ r.state \in {"activating", "verifying"} /\ att[c][t].st = "activated"
      /\ UNCHANGED <<version, listing, changes, inventory, inv_fresh, inc, unseen, stale,
                     reported, lost>>
  BY DEF Verify, Running, fleetVars, engineVars, historyVars
<1>2. Typed
  BY DEF IInv
<1>3. IsCampaign(r) /\ TypeOKOfCampaign(r)
  BY <1>1, CreatedIsGood
<1>4. CASE att[c][t].gen # r.gen
  <2>1. att' = [att EXCEPT ![c] = Touched(att[c], t, "verifying", 0)] /\ camp' = camp
    BY <1>4 DEF Verify, Becomes, Touched
  <2>2. [r EXCEPT !.state = r.state] = r
    BY <1>3 DEF IsCampaign
  <2>3. camp' = [camp EXCEPT ![c] = [r EXCEPT !.state = r.state]]
    BY <1>2, <2>1, <2>2 DEF Typed
  <2> QED BY <1>1, <2>1, <2>3, UnverifiedKeeps
<1>5. CASE att[c][t].gen = r.gen /\ ~Equal(version[t], Newest(c))
  <2>1. att' = [att EXCEPT ![c] = Touched(att[c], t, "failed", 0)]
        /\ camp' = [camp EXCEPT ![c] = [r EXCEPT !.state = sf]]
    BY <1>5 DEF Verify, Becomes, Touched, Moves
  <2>2. sf \in {r.state, "failed"}
    BY TryIsEither
  <2> HIDE DEF sf
  <2> QED BY <1>1, <2>1, <2>2, UnverifiedKeeps
<1>6. CASE att[c][t].gen = r.gen /\ Equal(version[t], Newest(c))
  <2>1. att' = [att EXCEPT ![c] = a] /\ camp' = [camp EXCEPT ![c] = WithAdvance(r, sg, x, s)]
    BY <1>6 DEF Verify, WithAdvance
  <2>2. /\ a \in [Targets -> AttemptRecords] /\ a[t].st = "verified" /\ a[t].item = att[c][t].item
        /\ \A u \in Targets \ {t} : a[u] = att[c][u]
    <3>1. att[c] \in [Targets -> AttemptRecords]
      BY <1>2 DEF Typed
    <3> DEFINE b == [att[c] EXCEPT ![t].st = "verified"]
    <3>2. /\ b \in [Targets -> AttemptRecords] /\ b[t].st = "verified" /\ b[t].item = att[c][t].item
          /\ \A u \in Targets \ {t} : b[u] = att[c][u]
      BY <3>1 DEF AttemptRecords, AttemptStates
    <3>3. a = [b EXCEPT ![t].fresh = TRUE]
      OBVIOUS
    <3> HIDE DEF a, b
    <3> QED BY <3>2, <3>3 DEF AttemptRecords
  <2> HIDE DEF a
  <2>3. done \in BOOLEAN
    OBVIOUS
  <2> DEFINE isDone == done
  <2>4. isDone \in BOOLEAN /\ (isDone <=> \A u \in StageTargets(c) : a[u].st = "verified")
    OBVIOUS
  <2>5. sg \in Seq({"pending", "prepared", "completed"}) /\ Len(sg) = Len(r.stages)
    BY <1>3 DEF TypeOKOfCampaign
  <2>6. x = IF isDone /\ camp[c].active # Len(camp[c].stages) THEN camp[c].active + 1 ELSE camp[c].active
    OBVIOUS
  <2> HIDE DEF sg, x, isDone, done, last
  <2>7. s \in {r.state, "completed", "staged"}
    <3>1. sd \in {r.state, "completed", "staged"}
      BY TryIsEither
    <3> HIDE DEF sd
    <3> QED BY <3>1
  <2> HIDE DEF s
  <2>8. s \in UpgradeStates /\ s \notin {"proposed", "blocked"} /\ (s = "activating" => r.state = "activating")
    BY <1>1, <2>7 DEF UpgradeStates
  <2> QED BY <1>1, <2>1, <2>2, <2>4, <2>5, <2>6, <2>8, VerifiedKeeps
<1> QED BY <1>4, <1>5, <1>6

-----------------------------------------------------------------------------
(***************************************************************************)
(* The invariant holds, and what follows from it.                          *)
(***************************************************************************)
LEMMA StepKeeps ==
  ASSUME IInv, [Next]_vars
  PROVE  IInv'
<1>1. CASE UNCHANGED vars
  BY <1>1, StutterKeeps
<1>2. CASE Environment
  <2>1. CASE PlanOnly
    BY <2>1, PlanOnlyKeeps
  <2>2. CASE InventoryAges
    BY <2>2, InventoryAgesKeeps
  <2>3. CASE Restart
    BY <2>3, RestartKeeps
  <2>4. CASE \E t \in Unsteady : \E v \in DriftVersions : Drift(t, v)
    BY <2>4, DriftKeeps
  <2>5. CASE \E t \in Unsteady : \E how \in Listings : Relist(t, how)
    BY <2>5, RelistKeeps
  <2> QED BY <1>2, <2>1, <2>2, <2>3, <2>4, <2>5 DEF Environment
<1>3. ASSUME NEW c \in CampaignIds, Operator(c) PROVE IInv'
  <2>1. CASE \E r \in Requests : Create(c, r)
    BY <2>1, CreateKeeps
  <2>2. CASE \E compatible \in Answers : Preflight(c, compatible)
    BY <2>2, PreflightKeeps
  <2>3. CASE Start(c)
    BY <2>3, StartKeeps
  <2>4. CASE Resume(c)
    BY <2>4, ResumeKeeps
  <2> QED BY <1>3, <2>1, <2>2, <2>3, <2>4 DEF Operator
<1>4. ASSUME NEW c \in CampaignIds, Driver(c) PROVE IInv'
  <2>1. CASE Claim(c)
    BY <2>1, ClaimKeeps
  <2>2. CASE \E t \in Targets : Prepare(c, t)
    BY <2>2, PrepareKeeps
  <2>3. CASE \E t \in Targets : Activate(c, t)
    BY <2>3, ActivateKeeps
  <2>4. CASE \E t \in Targets : ActivateFails(c, t)
    BY <2>4, ActivateFailsKeeps
  <2>5. CASE \E t \in Targets : Verify(c, t)
    BY <2>5, VerifyKeeps
  <2> QED BY <1>4, <2>1, <2>2, <2>3, <2>4, <2>5 DEF Driver
<1> QED BY <1>1, <1>2, <1>3, <1>4 DEF Next

\* In every reachable state of every fleet, whatever campaigns are planned on it
\* and however often its versions and listings change, the inductive invariant
\* holds.
THEOREM FleetInvariant == Spec => []IInv
<1>1. Init => IInv
  BY InitKeeps
<1>2. IInv /\ [Next]_vars => IInv'
  BY StepKeeps
<1> QED BY <1>1, <1>2, PTL DEF Spec

\* Every variable keeps its type, a campaign has one progress record for each
\* stage of its plan, and its active stage is one of them: commit_item never
\* advances past the last stage.
THEOREM FleetTypeCorrect == Spec => []TypeOK
<1>1. IInv => TypeOK
  <2> SUFFICES ASSUME IInv PROVE TypeOK
    OBVIOUS
  <2>1. Typed /\ Seen
    BY DEF IInv
  <2>2. \A c \in CampaignIds : Created(c) => TypeOKOfCampaign(camp[c])
    BY CreatedIsGood
  <2> QED BY <2>1, <2>2 DEF Typed, Seen, Faithful, TypeOK, AttemptRecords
<1> QED BY <1>1, FleetInvariant, PTL

\* build_plan gives every request, in whatever inventory the engine has, sound
\* stages or rejections; and no campaign gets past its preflight with a plan that
\* was rejected.
THEOREM PlansAreSound == Spec => []StagesSound
<1>1. IInv => StagesSound
  <2> SUFFICES ASSUME IInv PROVE StagesSound
    OBVIOUS
  <2>1. Faithful(inventory)
    BY DEF IInv, Seen
  <2>2. ASSUME NEW r \in Requests, Executable(BuildPlan(r, inventory, Policy))
        PROVE  SoundStages(BuildPlan(r, inventory, Policy), r.strategy)
    BY <2>1, <2>2, ExecutableIsSound
  <2>3. ASSUME NEW c \in CampaignIds, Created(c), camp[c].state \notin {"proposed", "blocked"}
        PROVE  Executable(camp[c].plan)
    BY <2>3, CreatedIsGood DEF Checked
  <2> QED BY <2>2, <2>3 DEF StagesSound
<1> QED BY <1>1, FleetInvariant, PTL

\* In a rolling replacement what is half way - under activation, not yet verified,
\* failed, or abandoned by a restart - belongs to the active stage, and a stage
\* holds one member of a redundancy group: never two of a group at a time.
THEOREM OneOfAGroup == Spec => []OneOfAGroupAtATime
<1>1. IInv => OneOfAGroupAtATime
  <2> SUFFICES ASSUME IInv, NEW c \in CampaignIds, Created(c),
                      camp[c].request.strategy = "redundant_pair_rolling",
                      NEW t \in Planned(c), att[c][t].st \in OutOfService,
                      NEW u \in Partners(t), att[c][u].st \in OutOfService
               PROVE  FALSE
    BY DEF OneOfAGroupAtATime
  <2> DEFINE r == camp[c]
  <2>1. TypeOKOfCampaign(r) /\ Checked(r) /\ Placed(r, att[c])
    BY CreatedIsGood
  <2>2. t \in Targets /\ u \in Targets
    <3>1. u \in Targets
      BY DEF Partners
    <3>2. PICK k \in DOMAIN r.plan.stages : t \in r.plan.stages[k].targets
      BY DEF Planned, PlannedTargets
    <3>3. r.plan.stages \in Seq(Stages)
      BY <2>1 DEF TypeOKOfCampaign
    <3>4. r.plan.stages[k] \in Stages
      BY <3>3
    <3> QED BY <3>1, <3>2, <3>4 DEF Stages
  <2>3. att[c][t].st \notin {"none", "verified"} /\ att[c][u].st \notin {"none", "verified"}
    BY DEF OutOfService
  <2>4. /\ Executable(r.plan) /\ r.active \in DOMAIN r.plan.stages
        /\ t \in r.plan.stages[r.active].targets /\ u \in r.plan.stages[r.active].targets
    BY <2>1, <2>2, <2>3, HalfWay
  <2>5. SoundStages(r.plan, "redundant_pair_rolling")
    BY <2>1, <2>4 DEF Checked
  <2>6. Partners(t) \cap r.plan.stages[r.active].targets = {}
    BY <2>4, <2>5 DEF SoundStages
  <2> QED BY <2>4, <2>6
<1> QED BY <1>1, FleetInvariant, PTL

\* The ledger holds one activation of a target by a campaign, and one more for
\* each of its attempt records that was refused when it was read back, however
\* often the engine restarts and the campaign is checked and started again.
THEOREM ReportedOnceHolds == Spec => []ReportedOnce
<1>1. IInv => ReportedOnce
  <2> SUFFICES ASSUME IInv, NEW c \in CampaignIds, NEW t \in Targets
               PROVE  reported[c][t] <= 1 + lost[c][t]
    BY DEF ReportedOnce
  <2>1. reported[c][t] \in Nat /\ lost[c][t] \in Nat
    BY DEF IInv, Typed
  <2>2. reported[c][t] <= lost[c][t]
          + (IF att[c][t].st \in {"none", "prepared", "activating"} THEN 0 ELSE 1)
    BY DEF IInv, Good, Told
  <2> QED BY <2>1, <2>2
<1> QED BY <1>1, FleetInvariant, PTL

\* Nothing but a pass of the planner puts an item out.
LEMMA OnlyClaimed ==
  ASSUME IInv, [Next]_vars, NEW c \in CampaignIds, NEW t \in Targets,
         att[c][t].item = 0, att'[c][t].item # 0
  PROVE  Claim(c)
<1>1. /\ att \in [CampaignIds -> [Targets -> AttemptRecords]]
      /\ att[c][t] \in AttemptRecords
  BY DEF IInv, Typed
<1>2. att' # att
  OBVIOUS
<1>3. ~UNCHANGED vars
  BY <1>2 DEF vars
<1>4. ASSUME Restart PROVE FALSE
  <2>1. att'[c][t] = Reread(att[c][t])
    BY <1>4 DEF Restart
  <2> QED BY <1>1, <2>1, RereadTells
<1>5. ~Environment
  BY <1>2, <1>4 DEF Environment, PlanOnly, InventoryAges, Drift, Relist
<1>6. PICK d \in CampaignIds : Operator(d) \/ Driver(d)
  BY <1>3, <1>5 DEF Next
<1>7. ~Operator(d)
  BY <1>2 DEF Operator, Create, Preflight, Start, Resume
<1>8. att[d] \in [Targets -> AttemptRecords]
  BY <1>1
<1>9. ASSUME NEW u \in Targets, Prepare(d, u) PROVE FALSE
  <2> DEFINE made == [st |-> "prepared", gen |-> camp[d].gen, item |-> 0,
                      named |-> ~inventory[u].installed.empty, fresh |-> FALSE]
  <2>1. att' = [att EXCEPT ![d] = [att[d] EXCEPT ![u] = made]] /\ made.item = 0
    BY <1>9 DEF Prepare
  <2> HIDE DEF made
  <2> QED BY <1>1, <1>8, <2>1
<1>10. ASSUME NEW u \in Targets, NEW st, att' = [att EXCEPT ![d] = Becomes(d, u, st)] PROVE FALSE
  BY <1>1, <1>8, <1>10 DEF Becomes, AttemptRecords
<1>11. ASSUME NEW u \in Targets, att' = [att EXCEPT ![d][u].item = 0] PROVE FALSE
  BY <1>1, <1>8, <1>11 DEF AttemptRecords
<1>12. ASSUME NEW u \in Targets, Activate(d, u) PROVE FALSE
  BY <1>10, <1>11, <1>12 DEF Activate
<1>13. ASSUME NEW u \in Targets, ActivateFails(d, u) PROVE FALSE
  BY <1>10, <1>11, <1>13 DEF ActivateFails
<1>14. ASSUME NEW u \in Targets, Verify(d, u) PROVE FALSE
  <2>1. ASSUME att' = [att EXCEPT ![d] = [att[d] EXCEPT ![u].st = "verified", ![u].fresh = TRUE]]
        PROVE  FALSE
    BY <1>1, <1>8, <2>1 DEF AttemptRecords
  <2> QED BY <1>10, <1>14, <2>1 DEF Verify
<1>15. Claim(d)
  BY <1>6, <1>7, <1>9, <1>12, <1>13, <1>14 DEF Driver
<1>16. ASSUME d # c PROVE FALSE
  <2>1. PICK a : att' = [att EXCEPT ![d] = a]
    BY <1>15 DEF Claim
  <2> QED BY <1>1, <1>16, <2>1
<1> QED BY <1>15, <1>16

\* A target that runs a newer version than the artifact is claimed for activation
\* only when the engine could not know it: it changed after the inventory of the
\* campaign's last skew assessment, or its pair of versions is waived.
THEOREM NoBlindDowngradeHolds == Spec => NoBlindDowngrade
<1> DEFINE A == \A c \in CampaignIds, t \in Targets :
                  (att[c][t].item = 0 /\ att'[c][t].item # 0 /\ Less(Newest(c), version[t]))
                    => t \in stale'[c] \/ Waived(c, t)
<1>1. IInv /\ [Next]_vars => A
  <2> SUFFICES ASSUME IInv, [Next]_vars, NEW c \in CampaignIds, NEW t \in Targets,
                      att[c][t].item = 0, att'[c][t].item # 0, Less(Newest(c), version[t])
               PROVE  t \in stale'[c] \/ Waived(c, t)
    OBVIOUS
  <2> DEFINE s == PlannedState(c)
  <2>1. Claim(c)
    BY OnlyClaimed
  <2>2. Running(c)
    BY <2>1 DEF Claim
  <2>3. PICK ts \in SUBSET Claimable(c, s) :
          /\ att' = [att EXCEPT ![c] =
                       [u \in Targets |->
                          IF u \in ts THEN [att[c][u] EXCEPT !.st = "activating", !.item = camp[c].gen]
                          ELSE att[c][u]]]
          /\ stale' = IF s \in {"staged", "blocked"} THEN Assessed(c, unseen) ELSE stale
    BY <2>1 DEF Claim
  <2>4. Typed /\ Seen
    BY DEF IInv
  <2>5. t \in ts
    BY <2>3, <2>4 DEF Typed
  <2>6. t \in StageTargets(c) /\ s \in {"staged", "activating"} /\ att[c][t].st = "prepared"
    BY <2>5 DEF Claimable
  <2>7. /\ TypeOKOfCampaign(camp[c]) /\ Informed(camp[c], att[c], stale[c], version)
        /\ t \in Planned(c)
    BY <2>2, <2>6, CreatedIsGood, RunningIsExecutable
  <2>8. CASE s = "staged"
    <3>1. AssessCurrent(c, att[c])
      BY <2>2, <2>8, PlannedStates
    <3>2. ~Upgraded(att[c][t])
      BY <2>6 DEF Upgraded
    <3>3. t \in unseen \/ Waived(c, t)
      BY <2>4, <2>7, <3>1, <3>2, SkewInforms DEF Waived
    <3>4. stale'[c] = unseen
      BY <2>3, <2>4, <2>8 DEF Assessed, Typed
    <3> QED BY <3>3, <3>4
  <2>9. CASE s = "activating"
    <3>1. camp[c].state = "activating"
      BY <2>2, <2>9, PlannedStates
    <3>2. stale' = stale
      BY <2>3, <2>9
    <3> QED BY <2>6, <2>7, <3>1, <3>2 DEF Informed, Waived, Newest
  <2> QED BY <2>6, <2>8, <2>9
<1>2. IInv /\ [Next]_vars => [A]_vars
  BY <1>1
<1> QED BY <1>2, FleetInvariant, PTL DEF Spec, NoBlindDowngrade
=============================================================================
