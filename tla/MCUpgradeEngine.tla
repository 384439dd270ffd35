-------------------------- MODULE MCUpgradeEngine --------------------------
(***************************************************************************)
(* Instances of UpgradeEngine for TLC: two or three targets, in one stage  *)
(* that upgrades them in parallel or in two stages one after the other.    *)
(***************************************************************************)
EXTENDS UpgradeEngine, TLC

CONSTANTS t1, t2, t3

OneStage   == t1 :> 1 @@ t2 :> 1
WideStage  == OneStage @@ t3 :> 1
TwoStages  == t1 :> 1 @@ t2 :> 2
TwoThenOne == OneStage @@ t3 :> 2

\* The targets of WideStage are interchangeable.
WideSymmetry == Permutations({t1, t2, t3})
=============================================================================
