---------------------------- MODULE VersionProofs ----------------------------
(***************************************************************************)
(* What the engine relies on when it compares versions, reads constraints  *)
(* and assesses skew, for every version and every budget.                  *)
(***************************************************************************)
EXTENDS Versions, TLAPS

\* operator< as a sequence of comparisons, the first difference deciding.
LEMMA LessFields ==
  ASSUME NEW a \in Version, NEW b \in Version
  PROVE  /\ a.major \in Nat /\ a.minor \in Nat /\ a.patch \in Nat /\ a.tag \in Nat
         /\ b.major \in Nat /\ b.minor \in Nat /\ b.patch \in Nat /\ b.tag \in Nat
         /\ Less(a, b) <=>
              \/ a.major < b.major
              \/ a.major = b.major /\ a.minor < b.minor
              \/ a.major = b.major /\ a.minor = b.minor /\ a.patch < b.patch
              \/ /\ a.major = b.major /\ a.minor = b.minor /\ a.patch = b.patch
                 /\ a.tag # 0 /\ (b.tag = 0 \/ a.tag < b.tag)
         /\ Equal(a, b) <=>
              a.major = b.major /\ a.minor = b.minor /\ a.patch = b.patch /\ a.tag = b.tag
BY DEF Version, Less, Equal, SameNumbers, SameLine

\* compare() of two versions (src/model/version.cpp) gives exactly one answer,
\* with a release above its prereleases and Version{} level with 0.0.0.
THEOREM Trichotomy ==
  ASSUME NEW a \in Version, NEW b \in Version
  PROVE  /\ Less(a, b) \/ Equal(a, b) \/ Less(b, a)
         /\ ~(Less(a, b) /\ Less(b, a))
         /\ ~(Less(a, b) /\ Equal(a, b))
<1>1. Less(a, b) \/ Equal(a, b) \/ Less(b, a)
  BY LessFields
<1>2. ~(Less(a, b) /\ Less(b, a))
  BY LessFields
<1>3. ~(Less(a, b) /\ Equal(a, b))
  BY LessFields
<1> QED BY <1>1, <1>2, <1>3

\* compare() orders versions: prerelease tags do not break transitivity.
THEOREM Transitivity ==
  ASSUME NEW a \in Version, NEW b \in Version, NEW c \in Version
  PROVE  /\ Less(a, b) /\ Less(b, c) => Less(a, c)
         /\ AtMost(a, b) /\ AtMost(b, c) => AtMost(a, c)
<1>1. Less(a, b) /\ Less(b, c) => Less(a, c)
  BY LessFields
<1>2. Equal(a, b) /\ Less(b, c) => Less(a, c)
  BY LessFields
<1>3. Less(a, b) /\ Equal(b, c) => Less(a, c)
  BY LessFields
<1>4. Equal(a, b) /\ Equal(b, c) => Equal(a, c)
  BY DEF Equal, SameNumbers, SameLine
<1> QED BY <1>1, <1>2, <1>3, <1>4 DEF AtMost

\* VersionConstraint::matches: "~" admits a part of what "^" admits, and both a
\* part of what ">=" admits; an upgrade inside the line of an admitted version
\* stays admitted.
THEOREM ConstraintsNest ==
  ASSUME NEW base \in Version, NEW v \in Version, NEW w \in Version
  PROVE  /\ Matches("~", base, v) => Matches("^", base, v)
         /\ Matches("^", base, v) => Matches(">=", base, v)
         /\ Matches("~", base, v) /\ AtMost(v, w) /\ SameLine(v, w) => Matches("~", base, w)
         /\ Matches("^", base, v) /\ AtMost(v, w) /\ v.major = w.major => Matches("^", base, w)
<1>1. /\ Matches("~", base, v) => Matches("^", base, v)
      /\ Matches("^", base, v) => Matches(">=", base, v)
  BY DEF Matches, SameLine
<1>2. AtMost(base, v) /\ AtMost(v, w) => AtMost(base, w)
  BY Transitivity
<1>3. Matches("~", base, v) /\ AtMost(v, w) /\ SameLine(v, w) => Matches("~", base, w)
  BY <1>2 DEF Matches, SameLine
<1>4. Matches("^", base, v) /\ AtMost(v, w) /\ v.major = w.major => Matches("^", base, w)
  BY <1>2 DEF Matches
<1> QED BY <1>1, <1>3, <1>4

-----------------------------------------------------------------------------
(* Skew.                                                                    *)

\* assess_skew (src/model/skew.cpp): a target ahead of the newest version in
\* flight is a violation at any limits, unless the pair is waived.
THEOREM AheadIsViolation ==
  ASSUME NEW v \in Version, NEW newest \in Version, NEW budget \in Budget,
         Less(newest, v), ~PairAllowed(budget, v, newest)
  PROVE  ~TargetWithin(budget, v, newest)
<1>1. ~Equal(newest, v)
  BY Trichotomy
<1>2. ~Equal(v, newest)
  BY <1>1 DEF Equal, SameNumbers, SameLine
<1> QED BY <1>2 DEF TargetWithin

\* A campaign replaces versions one target at a time: whatever order it takes,
\* upgrading a target to the newest version never moves a mix that is within
\* the budget out of it.
THEOREM UpgradeKeepsWithin ==
  ASSUME NEW newest \in Version, ~newest.empty, NEW budget, NEW live,
         SkewWithin(budget, live, newest), NEW gone
  PROVE  SkewWithin(budget, (live \ gone) \cup {newest}, newest)
<1>1. TargetWithin(budget, newest, newest)
  BY DEF TargetWithin, Equal, SameNumbers, SameLine
<1> QED BY <1>1 DEF SkewWithin

\* Widening a budget, by its limits or by its waivers, admits every mix that
\* was admitted: an operator who relaxes a policy never blocks a campaign.
THEOREM WiderBudget ==
  ASSUME NEW live \in SUBSET Version, NEW newest \in Version,
         NEW b \in Budget, NEW c \in Budget,
         b.major <= c.major, b.minor <= c.minor, b.patch <= c.patch, b.pairs \subseteq c.pairs,
         SkewWithin(b, live, newest)
  PROVE  SkewWithin(c, live, newest)
<1>1. SUFFICES ASSUME NEW v \in live PROVE TargetWithin(c, v, newest)
  BY DEF SkewWithin
<1>2. TargetWithin(b, v, newest)
  BY DEF SkewWithin
<1>3. PairAllowed(b, v, newest) => PairAllowed(c, v, newest)
  BY DEF PairAllowed
<1>4. WithinLimits(b, v, newest) => WithinLimits(c, v, newest)
  <2> DEFINE major == Behind(v.major, newest.major)
             minor == Behind(v.minor, newest.minor)
             patch == Behind(v.patch, newest.patch)
  <2>1. major \in Nat /\ minor \in Nat /\ patch \in Nat
    BY DEF Behind, Version
  <2>2. \A x \in Nat : /\ x <= b.major => x <= c.major
                       /\ x <= b.minor => x <= c.minor
                       /\ x <= b.patch => x <= c.patch
    BY DEF Budget
  <2> QED BY <2>1, <2>2 DEF WithinLimits
<1> QED BY <1>2, <1>3, <1>4 DEF TargetWithin

-----------------------------------------------------------------------------
(* Freshness.                                                               *)

\* evaluate_freshness (src/model/target.cpp): evidence that is fresh at two
\* moments is fresh in between, so it does not lapse and come back.
THEOREM FreshnessIsAnInterval ==
  ASSUME NEW at \in Int, NEW validity \in Int, NEW inc, NEW current,
         NEW early \in Int, NEW now \in Int, NEW late \in Int,
         early <= now, now <= late,
         Fresh(at, validity, inc, early, current), Fresh(at, validity, inc, late, current)
  PROVE  Fresh(at, validity, inc, now, current)
BY DEF Fresh

=============================================================================
