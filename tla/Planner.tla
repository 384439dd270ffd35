------------------------------- MODULE Planner -------------------------------
(***************************************************************************)
(* From a request and an inventory to a plan of stages, and the preflight  *)
(* of a plan against an inventory.                                         *)
(*                                                                         *)
(*   src/src/engine/planner.cpp    build_plan                              *)
(*   src/src/engine/preflight.cpp  run_preflight                           *)
(*   src/src/model/target.cpp      AdapterClaims, InventorySnapshot        *)
(*   src/src/model/artifact.cpp    supported_on                            *)
(*                                                                         *)
(* Target ids are numbers, in the order of their text. A request names its *)
(* targets in a sequence, so that a target may be named twice; <<>> asks   *)
(* for every target of the component. An inventory maps the targets it     *)
(* lists to their descriptors.                                             *)
(***************************************************************************)
EXTENDS Versions, Sequences, FiniteSets

CONSTANT NoGroup   \* the empty redundancy_group

Strategies == {"in_place", "restart_based", "redundant_pair_rolling",
               "control_plane_generation_handoff"}

-----------------------------------------------------------------------------
(* What fits a target. d is a descriptor, a an artifact. *)

MissingCapabilities(d, a) == a.capabilities \ d.capabilities
SupportedOn(d, a)         == d.platform \in a.platforms
ClaimsStrategy(d, s)      == s \in d.strategies

-----------------------------------------------------------------------------
(* The target set. Entries of the request that the inventory does not list *)
(* are rejected; those named twice stay and are rejected too.              *)

Entries(r, inv) == {i \in DOMAIN r.targets : r.targets[i] \in DOMAIN inv}

Selected(r, inv) ==
  IF r.targets = <<>>
    THEN {t \in DOMAIN inv : inv[t].component = r.component}
    ELSE {r.targets[i] : i \in Entries(r, inv)}

\* selected.size(), with the repeated entries.
SelectedSize(r, inv) ==
  IF r.targets = <<>> THEN Cardinality(Selected(r, inv)) ELSE Cardinality(Entries(r, inv))

-----------------------------------------------------------------------------
(* Stages. *)

\* The members of t's group among S up to t: its place in the group.
RankIn(t, S, inv) == Cardinality({u \in S : u <= t /\ inv[u].group = inv[t].group})

\* Mutated form: the stages take the members of a group two by two.
WaveByTwos(k, S, inv) ==
  {t \in S : inv[t].group # NoGroup /\ RankIn(t, S, inv) \in {2 * k - 1, 2 * k}}

\* Stage k of a rolling replacement takes the k-th member of every group.
Wave(k, S, inv) == {t \in S : inv[t].group # NoGroup /\ RankIn(t, S, inv) = k}

WaveCount(S, inv) ==
  CHOOSE n \in 0..Cardinality(S) :
    \A k \in 1..Cardinality(S) : Wave(k, S, inv) # {} <=> k <= n

\* The i-th target of S in the order of the ids.
NthTarget(i, S) == CHOOSE t \in S : Cardinality({u \in S : u <= t}) = i

StageSets(strategy, S, inv) ==
  CASE strategy \in {"in_place", "control_plane_generation_handoff"} -> <<S>>
    [] strategy = "restart_based" -> [i \in 1..Cardinality(S) |-> {NthTarget(i, S)}]
    [] strategy = "redundant_pair_rolling" -> [k \in 1..WaveCount(S, inv) |-> Wave(k, S, inv)]

\* The steps that a stage cannot take back: the activation of an artifact that
\* is not reversible or that lists it, and every generation handoff.
IrreversibleSteps(r) ==
  (IF ~r.artifact.reversible \/ "activate" \in r.artifact.irreversible_steps
     THEN {"activate"} ELSE {})
  \cup (IF r.strategy = "control_plane_generation_handoff" THEN {"handoff"} ELSE {})

\* make_stage: how many of the stage's targets may be activated at a time, and
\* whether they leave service for it.
MakeStage(ts, r, inv) ==
  [targets |-> ts,
   max_parallel |-> IF r.strategy = "restart_based" \/ r.max_parallel = 0 THEN 1
                    ELSE r.max_parallel,
   removal |-> \E t \in ts : inv[t].removal]

-----------------------------------------------------------------------------
(* Rejections: <<code, subject>>. They are collected, none ends planning. *)

RequestRejections(r, inv, policy) ==
  LET S == Selected(r, inv)
  IN {<<"unknown_target", r.targets[i]>> : i \in DOMAIN r.targets \ Entries(r, inv)}
     \cup {<<"duplicate_target", r.targets[i]>> :
             i \in {j \in Entries(r, inv) :
                      \E k \in Entries(r, inv) : k # j /\ r.targets[k] = r.targets[j]}}
     \cup (IF r.artifact.component # r.component
             THEN {<<"artifact_component_mismatch", r.component>>} ELSE {})
     \cup (IF S = {} THEN {<<"no_targets", r.component>>} ELSE {})
     \cup (IF SelectedSize(r, inv) > policy.max_targets
             THEN {<<"target_limit_exceeded", r.component>>} ELSE {})

TargetRejections(t, r, inv) ==
  LET d == inv[t] a == r.artifact
  IN (IF d.component # r.component THEN {<<"mixed_component", t>>} ELSE {})
     \cup (IF ~SupportedOn(d, a) THEN {<<"platform_unsupported", t>>} ELSE {})
     \cup (IF MissingCapabilities(d, a) # {} THEN {<<"capability_missing", t>>} ELSE {})
     \cup (IF ~ClaimsStrategy(d, r.strategy) THEN {<<"strategy_unsupported", t>>} ELSE {})
     \cup (IF ~d.installed.empty /\ Less(a.version, d.installed)
             THEN {<<"version_regression", t>>} ELSE {})
     \cup (IF Equal(d.installed, a.version) THEN {<<"already_at_version", t>>} ELSE {})

\* Mutated form: a group of one member is accepted.
GroupRejectionsAnySize(r, inv) ==
  IF r.strategy # "redundant_pair_rolling" THEN {}
  ELSE {<<"strategy_unsupported", t>> : t \in {u \in Selected(r, inv) : inv[u].group = NoGroup}}

\* A rolling replacement needs groups, and two members in each. (A repeated
\* entry counts as a second member there; its plan is rejected anyway.)
GroupRejections(r, inv) ==
  LET S == Selected(r, inv)
      lonely(t) == \A u \in S : inv[u].group = inv[t].group => u = t
  IN IF r.strategy # "redundant_pair_rolling" THEN {}
     ELSE {<<"strategy_unsupported", t>> : t \in {u \in S : inv[u].group = NoGroup}}
          \cup {<<"strategy_unsupported", inv[t].group>> :
                  t \in {u \in S : inv[u].group # NoGroup /\ lonely(u)}}

BuildPlan(r, inv, policy) ==
  LET S == Selected(r, inv)
      sets == StageSets(r.strategy, S, inv)
      steps == IF sets = <<>> THEN {} ELSE IrreversibleSteps(r)
  IN [stages |-> [k \in DOMAIN sets |-> MakeStage(sets[k], r, inv)],
      irreversible |-> steps,
      rejections |->
        RequestRejections(r, inv, policy)
        \cup (UNION {TargetRejections(t, r, inv) : t \in S})
        \cup GroupRejections(r, inv)
        \cup (IF Len(sets) > policy.max_stages
                THEN {<<"stage_limit_exceeded", r.component>>} ELSE {})
        \cup (IF steps # {} /\ ~r.acknowledged
                THEN {<<"irreversible_unacknowledged", r.component>>} ELSE {})]

Executable(plan) == plan.rejections = {}

PlannedTargets(plan) == UNION {plan.stages[k].targets : k \in DOMAIN plan.stages}

-----------------------------------------------------------------------------
(* Preflight. *)

\* The targets of the plan that get a verdict: those the inventory lists.
Resolved(plan, inv) == PlannedTargets(plan) \cap DOMAIN inv

\* PreflightTargetVerdict::admissible. compatible: the targets for which the
\* compatibility registry answered, and answered yes.
Admissible(t, r, inv, compatible) ==
  /\ t \in compatible
  /\ SupportedOn(inv[t], r.artifact)
  /\ ClaimsStrategy(inv[t], r.strategy)
  /\ MissingCapabilities(inv[t], r.artifact) = {}

\* The mix of the whole component in the inventory, planned or not.
ComponentMix(r, inv) ==
  {inv[t].installed : t \in {u \in DOMAIN inv : inv[u].component = r.component}}

\* report.passed. services: the artifact, its integrity and signature, the
\* registry and its evidence are in order; drain: a drain fabric is wired.
PreflightPasses(plan, r, inv, compatible, services, drain) ==
  /\ Executable(plan)
  /\ services
  /\ (\E k \in DOMAIN plan.stages : plan.stages[k].removal) => drain
  /\ Resolved(plan, inv) # {}
  /\ \A t \in Resolved(plan, inv) : Admissible(t, r, inv, compatible)
  /\ SkewWithin(r.budget, ComponentMix(r, inv), r.artifact.version)
=============================================================================
