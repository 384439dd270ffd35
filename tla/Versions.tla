------------------------------- MODULE Versions -------------------------------
(***************************************************************************)
(* Versions, version constraints, the skew budget and the freshness of     *)
(* evidence, as pure operators.                                            *)
(*                                                                         *)
(*   src/src/model/version.cpp   compare, matches, admits                  *)
(*   src/src/model/skew.cpp      pair_allowed, assess_skew                 *)
(*   src/src/model/target.cpp    evaluate_freshness                        *)
(*                                                                         *)
(* A prerelease tag is a natural number, in the order the tags have as     *)
(* text; 0 is no tag. Version{} is the version a source reports when it    *)
(* has none: it compares like 0.0.0 and is `empty'.                        *)
(***************************************************************************)
EXTENDS Integers

Version == [major : Nat, minor : Nat, patch : Nat, tag : Nat, empty : BOOLEAN]

V(x, y, z) == [major |-> x, minor |-> y, patch |-> z, tag |-> 0, empty |-> FALSE]
NoVersion  == [V(0, 0, 0) EXCEPT !.empty = TRUE]

SameLine(a, b)    == a.major = b.major /\ a.minor = b.minor
SameNumbers(a, b) == SameLine(a, b) /\ a.patch = b.patch

\* operator== : compare() reads the numbers and the tag, not whether there is
\* any text.
Equal(a, b) == SameNumbers(a, b) /\ a.tag = b.tag

\* operator< : a release outranks its prereleases.
Less(a, b) ==
  \/ a.major < b.major
  \/ a.major = b.major /\ a.minor < b.minor
  \/ SameLine(a, b) /\ a.patch < b.patch
  \/ SameNumbers(a, b) /\ a.tag # 0 /\ (b.tag = 0 \/ a.tag < b.tag)

AtMost(a, b) == Less(a, b) \/ Equal(a, b)

(***************************************************************************)
(* VersionConstraint and VersionRange.                                     *)
(***************************************************************************)
Operators == {"=", "!=", "<", "<=", ">", ">=", "^", "~"}

Matches(op, base, v) ==
  CASE op = "="  -> Equal(v, base)
    [] op = "!=" -> ~Equal(v, base)
    [] op = "<"  -> Less(v, base)
    [] op = "<=" -> AtMost(v, base)
    [] op = ">"  -> Less(base, v)
    [] op = ">=" -> AtMost(base, v)
    [] op = "^"  -> v.major = base.major /\ AtMost(base, v)
    [] op = "~"  -> SameLine(v, base) /\ AtMost(base, v)

\* A range is a set of <<operator, version>> pairs; without any it admits all.
Admits(range, v) == \A c \in range : Matches(c[1], c[2], v)

(***************************************************************************)
(* Skew: how far an observed version may trail the newest one in flight.   *)
(* A budget is [major, minor, patch, pairs]; pairs are the waivers.        *)
(***************************************************************************)
Budget == [major : Nat, minor : Nat, patch : Nat, pairs : SUBSET (Version \X Version)]

PairAllowed(budget, a, b) ==
  \E p \in budget.pairs : \/ Equal(p[1], a) /\ Equal(p[2], b)
                          \/ Equal(p[1], b) /\ Equal(p[2], a)

Behind(x, y) == IF y > x THEN y - x ELSE 0

\* The limits of one observed version: the minor limit counts inside a major
\* line, the patch limit inside a minor line.
WithinLimits(budget, v, newest) ==
  LET major == Behind(v.major, newest.major)
      minor == Behind(v.minor, newest.minor)
      patch == Behind(v.patch, newest.patch)
  IN /\ major <= budget.major
     /\ major = 0 => minor <= budget.minor
     /\ major = 0 /\ minor = 0 => patch <= budget.patch

\* Mutated form: a target ahead of the newest version is only zero behind.
TargetWithinAhead(budget, v, newest) ==
  ~v.empty /\ (PairAllowed(budget, v, newest) \/ WithinLimits(budget, v, newest))

\* One target of assess_skew: an empty version is a violation, the newest
\* version is none, a waiver is read before everything else, and a target
\* ahead of the newest version is a violation whatever the limits.
TargetWithin(budget, v, newest) ==
  /\ ~v.empty
  /\ \/ Equal(v, newest)
     \/ PairAllowed(budget, v, newest)
     \/ ~Less(newest, v) /\ WithinLimits(budget, v, newest)

\* SkewAssessment::within_budget of a mix, a set of versions.
SkewWithin(budget, live, newest) == \A v \in live : TargetWithin(budget, v, newest)

(***************************************************************************)
(* evaluate_freshness: evidence observed at time `at' with a validity      *)
(* window, in an incarnation.                                              *)
(***************************************************************************)
Fresh(at, validity, inc, now, current) ==
  /\ inc = current
  /\ validity > 0
  /\ now - at >= 0
  /\ now - at <= validity
=============================================================================
