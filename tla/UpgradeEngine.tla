--------------------------- MODULE UpgradeEngine ---------------------------
(***************************************************************************)
(* One campaign of the engine, from `proposed` to a terminal state: the    *)
(* operator commands, the preflight handshake, the driver that plans work  *)
(* under the engine mutex, the work items that call adapters outside it    *)
(* and commit under it again, the process that crashes and reconciles.     *)
(*                                                                         *)
(* One action is one critical section of the engine mutex, or one call to  *)
(* a port made outside it.  Other campaigns of the same engine appear only *)
(* through the in-memory state they share with this one: the inventory     *)
(* snapshot and the last resolved artifact.                                *)
(***************************************************************************)
EXTENDS Lifecycle, Naturals, Sequences, FiniteSets

CONSTANTS
  Targets,          \* the targets of the plan
  NumStages,        \* stages of the plan, executed in order
  StageOf,          \* StageOf[t]: the stage that upgrades t
  Limit,            \* activations of one stage that may be in flight
  MaxRetries,       \* policy.max_retries_per_operation
  Reversible,       \* the artifact's rollback declaration
  Handoff,          \* strategy is control_plane_generation_handoff
  DrainNeeded,      \* stages require service removal, drain fabric wired
  RolloutWired,     \* a Change Planner / Rollout Fabric is wired
  InventoryAnswers, \* what the inventory may say of a target
  Commands,         \* operator commands that are issued
  Faults,           \* faults of the environment that occur
  MaxGeneration,    \* bound: generations, hence start() calls that succeed
  MaxIncarnation    \* bound: boots of the process

Stages == 1 .. NumStages

ASSUME ShapeAssumption ==
  /\ NumStages \in Nat \ {0}
  /\ StageOf \in [Targets -> Stages]
  /\ \A k \in Stages : \E t \in Targets : StageOf[t] = k
  /\ Limit \in Nat \ {0}
  /\ MaxRetries \in Nat
  /\ MaxGeneration \in Nat \ {0}
  /\ MaxIncarnation \in Nat \ {0}

ASSUME FiniteAssumption == IsFiniteSet(Targets)

ASSUME SwitchAssumption ==
  /\ Reversible \in BOOLEAN /\ Handoff \in BOOLEAN
  /\ DrainNeeded \in BOOLEAN /\ RolloutWired \in BOOLEAN
  /\ InventoryAnswers \subseteq {"absent", "within", "beyond", "unfit"}
  /\ Commands \subseteq {"pause", "resume", "abort", "rollback", "repreflight"}
  /\ Faults \subseteq {"crash", "expiry", "foreign", "prepare", "activate",
                       "gate", "verify", "rollback", "preflight"}

None == "none"

VARIABLES
  \* Durable: the campaign record, one attempt per target, the ledger.
  state, gen, active, stage, planned, ticket, att, ledger,
  \* The truth outside: the version each target really runs, and the targets
  \* the Drain Fabric holds out of service.
  version, granted,
  \* In memory, lost with the process.
  up, inc, inv, resolved, drains, change, pf, item

campaignVars == <<state, gen, active, stage, planned, ticket>>
durableVars  == <<campaignVars, att, ledger>>
memoryVars   == <<inv, resolved, drains, change, pf>>
vars == <<state, gen, active, stage, planned, ticket, att, ledger, version,
          granted, up, inc, inv, resolved, drains, change, pf, item>>

NoTicket  == [passed |-> FALSE, gen |-> 0, inc |-> 0, live |-> FALSE]
NoAttempt == [st |-> "none", gen |-> 0, owner |-> 0, obs |-> FALSE,
              retries |-> 0, fresh |-> FALSE]
NoItem    == [kind |-> "none", gen |-> 0, step |-> "none", tries |-> 0,
              payload |-> "none"]
NoReport  == [step |-> "idle", gen |-> 0, fit |-> FALSE]

\* create_campaign, after a plan that no gate rejected: the planner found every
\* target in the inventory, with an adapter that supports the strategy.
Init ==
  /\ state = "proposed" /\ gen = 1 /\ active = 1
  /\ stage = [k \in Stages |-> "pending"]
  /\ planned = FALSE /\ ticket = NoTicket
  /\ att = [t \in Targets |-> NoAttempt]
  /\ ledger = [t \in Targets |-> <<>>]
  /\ version = [t \in Targets |-> "old"]
  /\ granted = {}
  /\ up = TRUE /\ inc = 1
  /\ inv \in [Targets -> InventoryAnswers \cap {"within", "beyond"}]
  /\ resolved = "none"
  /\ drains = [k \in Stages |-> None]
  /\ change = "none"
  /\ pf = NoReport
  /\ item = [t \in Targets |-> NoItem]

(***************************************************************************)
(* What the engine can prove about the campaign (guards_locked), as a      *)
(* function of the attempts a, the active stage k and the stage states sg  *)
(* that the caller has already written.                                    *)
(***************************************************************************)
\* Mutated form: attempts are not filtered by their stage.
TargetsOfAnyStage(k) == Targets

TargetsOf(k) == {t \in Targets : StageOf[t] = k}

ticket_current ==
  /\ ticket.passed /\ ticket.live
  /\ ticket.gen = gen /\ ticket.inc = inc
  /\ resolved = "mine"

\* assess_current_skew_locked: a target counts at the new version once its
\* attempt says so, at its inventory version otherwise; an unknown one breaks
\* the budget.
skew_within_budget(a) ==
  \A t \in Targets : \/ a[t].st \in {"activated", "verified"}
                     \/ inv[t] \in {"within", "unfit"}

activation_complete(a, k) ==
  \A t \in TargetsOf(k) : a[t].st \in {"activated", "verified"}

verification_fresh_passed(a, k) ==
  \A t \in TargetsOf(k) : /\ a[t].st = "verified"
                          /\ a[t].fresh /\ a[t].owner = inc

\* An attempt known to have changed its target and not yet reversed.
Pending(r) ==
  \/ r.st \in {"activated", "verified", "rolling_back"}
  \/ r.st \in {"failed", "abandoned", "aborted"} /\ r.obs

\* Mutated form: one reversed target is enough.
rollback_complete_at_first(a) == \E t \in Targets : a[t].st = "rolled_back"

rollback_complete(a) ==
  /\ \E t \in Targets : a[t].st = "rolled_back"
  /\ \A t \in Targets : ~Pending(a[t])

\* The plan is executable, so its irreversible steps were acknowledged when
\* the campaign was created.
Guards(a, k, sg) ==
  {"irreversible_acknowledged"}
  \cup (IF ticket_current THEN {"preflight_current"} ELSE {})
  \cup (IF resolved = "mine" THEN {"artifact_integrity_verified"} ELSE {})
  \cup (IF planned THEN {"rollback_plan_recorded"} ELSE {})
  \cup (IF \A t \in Targets : inv[t] \in {"within", "beyond"}
          THEN {"adapter_supports_strategy"} ELSE {})
  \cup (IF \A j \in Stages : sg[j] = "completed"
          THEN {"all_stages_complete"} ELSE {})
  \cup (IF sg[k] = "prepared" THEN {"staging_complete"} ELSE {})
  \cup (IF skew_within_budget(a) THEN {"skew_within_budget"} ELSE {})
  \cup (IF DrainNeeded => drains[k] # None THEN {"drain_satisfied"} ELSE {})
  \cup (IF rollback_complete(a) THEN {"rollback_complete"} ELSE {})
  \cup (IF activation_complete(a, k) THEN {"activation_complete"} ELSE {})
  \cup (IF verification_fresh_passed(a, k)
          THEN {"verification_fresh_passed"} ELSE {})

GuardsNow == Guards(att, active, stage)

(***************************************************************************)
(* Preflight: copy the campaign, refresh the inventory, resolve and hash   *)
(* the artifact, then publish the report; the mutex is free in between.    *)
(***************************************************************************)
\* What an inventory source may answer: a target that runs the new version is
\* never reported beyond the skew budget.
Inventories ==
  {i \in [Targets -> InventoryAnswers] :
     \A t \in Targets : version[t] = "new" => i[t] # "beyond"}

PreflightBegin ==
  /\ up /\ pf.step = "idle"
  /\ ticket.passed => "repreflight" \in Commands
  /\ pf' = [step |-> "inventory", gen |-> gen, fit |-> FALSE]
  /\ UNCHANGED <<durableVars, version, granted, up, inc, inv, resolved, drains,
                 change, item>>

\* refresh_inventory, and the report's gates that read the snapshot: a target
\* missing from it is skipped, every other must support the strategy, and the
\* versions it reports must be within the skew budget.
PreflightInventory ==
  /\ up /\ pf.step = "inventory"
  /\ \E i \in Inventories :
       /\ inv' = i
       /\ pf' = [pf EXCEPT !.step = "artifact",
                           !.fit = /\ \E t \in Targets : i[t] # "absent"
                                   /\ \A t \in Targets :
                                        i[t] \in {"absent", "within"}]
  /\ UNCHANGED <<durableVars, version, granted, up, inc, resolved, drains,
                 change, item>>

\* The inventory source, or a descriptor it returns, is in error: preflight()
\* returns before it writes anything.
PreflightUnresolved ==
  /\ up /\ pf.step = "inventory"
  /\ "preflight" \in Faults
  /\ pf' = NoReport
  /\ UNCHANGED <<durableVars, version, granted, up, inc, inv, resolved, drains,
                 change, item>>

\* resolve_artifact: a payload that cannot be found leaves the engine's last
\* integrity verdict and payload path as they were.
PreflightArtifact ==
  /\ up /\ pf.step = "artifact"
  /\ \E r \in {"mine"} \cup (IF "preflight" \in Faults
                               THEN {"corrupt", "missing"} ELSE {}) :
       /\ resolved' = IF r = "missing" THEN resolved ELSE r
       /\ pf' = [pf EXCEPT !.step = "report", !.fit = pf.fit /\ r = "mine"]
  /\ UNCHANGED <<durableVars, version, granted, up, inc, inv, drains, change,
                 item>>

PreflightPass ==
  /\ up /\ pf.step = "report" /\ pf.fit
  /\ ticket' = [passed |-> TRUE, gen |-> pf.gen, inc |-> inc, live |-> TRUE]
  /\ state' = IF state \in {"proposed", "blocked", "paused"}
                THEN Try(state, "validated",
                         {"preflight_current", "artifact_integrity_verified"})
                ELSE state
  /\ pf' = NoReport
  /\ UNCHANGED <<gen, active, stage, planned, att, ledger, version, granted,
                 up, inc, inv, resolved, drains, change, item>>

\* A blocker: the inventory, the artifact, or a registry that says no.
PreflightFail ==
  /\ up /\ pf.step = "report"
  /\ pf.fit => "preflight" \in Faults
  /\ ticket' = NoTicket
  /\ state' = IF state = "proposed"
                THEN Try(state, "blocked", {"failure_recorded"}) ELSE state
  /\ pf' = NoReport
  /\ UNCHANGED <<gen, active, stage, planned, att, ledger, version, granted,
                 up, inc, inv, resolved, drains, change, item>>

(***************************************************************************)
(* Operator commands.  A refused command changes nothing but the decision  *)
(* log, so only what is accepted is a step.                                *)
(***************************************************************************)
Start(dry_run) ==
  /\ up /\ change # "asked"
  /\ state \notin TerminalStates \cup ActiveStates \cup {"proposed"}
  /\ ticket_current
  /\ gen < MaxGeneration
  /\ LET guards == GuardsNow \cup {"rollback_plan_recorded"}
         s1 == IF state \in {"paused", "blocked"}
                 THEN Try(state, "validated", guards) ELSE state
     IN  state' = IF s1 = "validated" THEN Try(s1, "prepared", guards) ELSE s1
  /\ gen' = gen + 1
  /\ ticket' = [ticket EXCEPT !.gen = gen + 1]
  /\ planned' = TRUE
  /\ change' = IF RolloutWired /\ change # "admitted" /\ ~dry_run
                 THEN "asked" ELSE change
  /\ UNCHANGED <<active, stage, att, ledger, version, granted, up, inc, inv,
                 resolved, drains, pf, item>>

\* The rest of start(): the Rollout Fabric is asked after the mutex was
\* released, when the campaign is already `prepared`.
RolloutAnswer(admitted) ==
  /\ up /\ change = "asked"
  /\ change' = IF admitted THEN "admitted" ELSE "refused"
  /\ UNCHANGED <<durableVars, version, granted, up, inc, inv, resolved, drains,
                 pf, item>>

\* Every in-flight attempt retired to the state st.
Retired(st) == [t \in Targets |-> IF InFlight(att[t].st)
                                    THEN [att[t] EXCEPT !.st = st] ELSE att[t]]

Pause ==
  /\ up /\ "pause" \in Commands
  /\ state \in PausableStates \ {"paused"}
  /\ state' = "paused"
  /\ att' = Retired("abandoned")
  /\ UNCHANGED <<gen, active, stage, planned, ticket, ledger, version, granted,
                 up, inc, memoryVars, item>>

Resume ==
  /\ up /\ "resume" \in Commands
  /\ state \in {"paused", "blocked", "validated", "prepared"}
  /\ ticket_current
  /\ LET s1 == IF state \in {"paused", "blocked"}
                 THEN Try(state, "validated", GuardsNow) ELSE state
     IN  state' = Try(s1, "prepared", GuardsNow)
  /\ UNCHANGED <<gen, active, stage, planned, ticket, att, ledger, version,
                 granted, up, inc, memoryVars, item>>

\* The attempts are retired before the transition is tried, and stay retired
\* when it is refused.
Abort ==
  /\ up /\ "abort" \in Commands
  /\ state \notin TerminalStates
  /\ att' = Retired("aborted")
  /\ state' = Try(state, IF state = "proposed" THEN "blocked" ELSE "failed",
                  {"failure_recorded"})
  /\ UNCHANGED <<gen, active, stage, planned, ticket, ledger, version, granted,
                 up, inc, memoryVars, item>>

\* Mutated form: a handoff that was verified is not a boundary.
RollbackAcceptedAfterHandoff ==
  /\ state \notin {"rolled_back", "proposed"}
  /\ Reversible
  /\ \A t \in Targets : inv[t] \in {"within", "beyond"}
  /\ \E t \in Targets : Pending(att[t])
  /\ Allowed(state, "failed", {"failure_recorded"})

\* rollback(): refused once an irreversible boundary is crossed, when an
\* adapter cannot do it, or when no attempt is known to have changed a target.
RollbackAccepted ==
  /\ state \notin {"rolled_back", "proposed"}
  /\ Reversible
  /\ Handoff => \A t \in Targets : att[t].st # "verified"
  /\ \A t \in Targets : inv[t] \in {"within", "beyond"}
  /\ \E t \in Targets : Pending(att[t])
  /\ Allowed(state, "failed", {"failure_recorded"})

Rollback(execute) ==
  /\ up /\ "rollback" \in Commands
  /\ RollbackAccepted
  /\ state' = LET s1 == Try("failed", "rollback_planned", {"rollback_eligible"})
              IN  IF execute THEN Try(s1, "rolling_back", {"rollback_eligible"})
                  ELSE s1
  /\ UNCHANGED <<gen, active, stage, planned, ticket, att, ledger, version,
                 granted, up, inc, memoryVars, item>>

(***************************************************************************)
(* The driver: plan_work_locked, run only when every item of the previous  *)
(* batch has committed.  Targets fit in one batch.                         *)
(***************************************************************************)
BatchDone == \A t \in Targets : item[t].kind = "none"
Present(t) == inv[t] # "absent"

\* An item carries the engine's last resolved payload path.
NewItem(kind) == [kind |-> kind, gen |-> gen, tries |-> 0, payload |-> resolved,
                  step |-> IF kind # "activate" THEN "call"
                           ELSE IF DrainNeeded THEN "drain" ELSE "gate"]

\* A campaign whose active stage is already prepared, or already activated,
\* moves on before work is emitted; a stage that would break the skew budget
\* blocks it.
PlannedState ==
  LET s1 == IF state = "prepared" /\ stage[active] = "prepared"
              THEN Try(state, "staged", GuardsNow \cup {"staging_complete"})
              ELSE state
      s2 == IF s1 \in {"staged", "activating"} /\ activation_complete(att, active)
              THEN Try(IF s1 = "staged" THEN Try(s1, "activating", GuardsNow)
                                        ELSE s1,
                       "verifying", GuardsNow)
              ELSE s1
  IN  IF s2 = "staged" /\ ~skew_within_budget(att)
        THEN Try(s2, "blocked", {"failure_recorded"}) ELSE s2

StagingPhase(s) ==
  \/ s = "prepared"
  \/ s = "staged" /\ stage[active] = "pending"

\* Targets of the active stage that get a fresh attempt, that have their
\* prepare repeated, that may be activated, and that are to be verified.
ToCreate(s)  == {t \in TargetsOf(active) :
                   StagingPhase(s) /\ Present(t) /\ att[t].st = "none"}
ToRepeat(s)  == {t \in TargetsOf(active) :
                   /\ StagingPhase(s) /\ Present(t)
                   /\ att[t].st = "preparing" /\ att[t].owner = inc}
Claimable(s) == {t \in TargetsOf(active) :
                   /\ ~StagingPhase(s) /\ s \in {"staged", "activating"}
                   /\ Present(t) /\ att[t].st = "prepared"}
ToVerify(s)  == {t \in TargetsOf(active) :
                   /\ s \in {"activating", "verifying"}
                   /\ Present(t) /\ att[t].st = "activated"}

Activating == {t \in TargetsOf(active) : att[t].st = "activating"}

\* Mutated form: the limit is compared with > instead of >=.
MayClaimOneMore(c, s) ==
  /\ c \subseteq Claimable(s)
  /\ c # {} => Cardinality(c) + Cardinality(Activating) <= Limit + 1
  /\ c # Claimable(s) => Cardinality(c) + Cardinality(Activating) >= Limit + 1

\* The claims a batch may make: all of Claimable, or as many as the limit
\* leaves room for.
MayClaim(c, s) ==
  /\ c \subseteq Claimable(s)
  /\ c # {} => Cardinality(c) + Cardinality(Activating) <= Limit
  /\ c # Claimable(s) => Cardinality(c) + Cardinality(Activating) >= Limit

Owned(r, st) == [r EXCEPT !.st = st, !.owner = inc]
FreshAttempt == [st |-> "preparing", gen |-> gen, owner |-> inc, obs |-> FALSE,
                 retries |-> 0, fresh |-> FALSE]

\* release_finished_drains, when the pass produced no work.
ReleaseIf(idle) ==
  LET done == {k \in Stages : idle /\ stage[k] = "completed"}
  IN  /\ drains' = [k \in Stages |-> IF k \in done THEN None ELSE drains[k]]
      /\ granted' = granted \ {drains[k] : k \in done}

PlanForward ==
  /\ up /\ BatchDone
  /\ state \in {"prepared", "staged", "activating", "verifying"}
  /\ LET s == PlannedState IN
     \E c \in SUBSET Claimable(s) :
       /\ MayClaim(c, s)
       /\ state' = s
       /\ att' = [t \in Targets |->
                    IF t \in ToCreate(s) THEN FreshAttempt
                    ELSE IF t \in c THEN Owned(att[t], "activating")
                    ELSE IF t \in ToVerify(s) THEN Owned(att[t], "verifying")
                    ELSE att[t]]
       /\ item' = [t \in Targets |->
                     IF t \in ToCreate(s) \cup ToRepeat(s) THEN NewItem("prepare")
                     ELSE IF t \in c THEN NewItem("activate")
                     ELSE IF t \in ToVerify(s) THEN NewItem("verify")
                     ELSE NoItem]
       /\ ReleaseIf(ToCreate(s) \cup ToRepeat(s) \cup c \cup ToVerify(s) = {})
  /\ UNCHANGED <<gen, active, stage, planned, ticket, ledger, version, up, inc,
                 inv, resolved, change, pf>>

\* Mutated form: a failed attempt is not reversed even if it changed its target.
ToReverseConfirmed ==
  {t \in Targets : Present(t) /\ att[t].st \in {"verified", "activated"}}

\* Rollback spans every stage that was touched.
ToReverse == {t \in Targets :
                /\ Present(t)
                /\ \/ att[t].st \in {"verified", "activated"}
                   \/ att[t].st = "failed" /\ att[t].obs}

PlanRollback ==
  /\ up /\ BatchDone /\ state = "rolling_back"
  /\ att' = [t \in Targets |-> IF t \in ToReverse
                                 THEN Owned(att[t], "rolling_back") ELSE att[t]]
  /\ item' = [t \in Targets |-> IF t \in ToReverse
                                  THEN NewItem("rollback") ELSE NoItem]
  /\ ReleaseIf(ToReverse = {})
  /\ UNCHANGED <<campaignVars, ledger, version, up, inc, inv, resolved, change,
                 pf>>

\* A pass that finds the campaign resting only releases drain tickets.
PlanIdle ==
  /\ up /\ BatchDone
  /\ state \notin {"prepared", "staged", "activating", "verifying", "rolling_back"}
  /\ ReleaseIf(TRUE)
  /\ UNCHANGED <<durableVars, version, up, inc, inv, resolved, change, pf, item>>

(***************************************************************************)
(* execute_item: the calls made outside the mutex.  An item moves from     *)
(* step to step and ends at "ok", "fail" or "refused", ready to commit.    *)
(***************************************************************************)
Step(t, st) == item' = [item EXCEPT ![t].step = st]

At(t, kind, st) == up /\ item[t].kind = kind /\ item[t].step = st

\* The ticket is looked up under the mutex, requested outside it, stored under
\* it: two items of a stage may both find none and both be granted one.
DrainLookup(t) ==
  /\ At(t, "activate", "drain")
  /\ Step(t, IF drains[StageOf[t]] # None THEN "gate" ELSE "acquire")
  /\ UNCHANGED <<durableVars, version, granted, up, inc, memoryVars>>

DrainAcquire(t) ==
  /\ At(t, "activate", "acquire")
  /\ \/ /\ drains' = [drains EXCEPT ![StageOf[t]] = t]
        /\ granted' = granted \cup {t}
        /\ Step(t, "gate")
     \/ /\ "gate" \in Faults
        /\ Step(t, "refused")
        /\ UNCHANGED <<drains, granted>>
  /\ UNCHANGED <<durableVars, version, up, inc, inv, resolved, change, pf>>

HealthGate(t) ==
  /\ At(t, "activate", "gate")
  /\ \/ Step(t, "call")
     \/ "gate" \in Faults /\ Step(t, "refused")
  /\ UNCHANGED <<durableVars, version, granted, up, inc, memoryVars>>

\* Staging has no effect the engine depends on; its retries end in a verdict.
\* An adapter that checks the package against the artifact's digest refuses
\* another artifact's payload.
AdapterPrepare(t) ==
  /\ At(t, "prepare", "call")
  /\ \/ Step(t, "ok")
     \/ /\ "prepare" \in Faults \/ item[t].payload # "mine"
        /\ Step(t, "fail")
  /\ UNCHANGED <<durableVars, version, granted, up, inc, memoryVars>>

\* The item after a timeout: observe the target, or give up.
Unacknowledged(r) ==
  IF r.tries < MaxRetries
    THEN [r EXCEPT !.tries = r.tries + 1, !.step = "observe"]
    ELSE [r EXCEPT !.step = "fail"]

\* The call may take effect or not, whatever is answered: an installer may
\* report success without a version change, and an acknowledgement may be lost.
AdapterActivate(t) ==
  /\ At(t, "activate", "call")
  /\ \/ version' = [version EXCEPT ![t] = "new"] /\ Step(t, "ok")
     \/ /\ "activate" \in Faults
        /\ \/ Step(t, "ok") /\ UNCHANGED version
           \/ Step(t, "fail") /\ UNCHANGED version
           \/ /\ version' \in {version, [version EXCEPT ![t] = "new"]}
              /\ item' = [item EXCEPT ![t] = Unacknowledged(item[t])]
  /\ UNCHANGED <<durableVars, granted, up, inc, memoryVars>>

\* A lost acknowledgement is resolved by observing the target; when that does
\* not show the new version, the activation is repeated.
AdapterObserve(t) ==
  /\ At(t, "activate", "observe")
  /\ \/ version[t] = "new" /\ Step(t, "ok")
     \/ Step(t, "call")
  /\ UNCHANGED <<durableVars, version, granted, up, inc, memoryVars>>

\* Mutated form: the observed version is not compared with the artifact's.
AdapterVerifyTrusting(t) ==
  /\ At(t, "verify", "call")
  /\ Step(t, "ok")
  /\ UNCHANGED <<durableVars, version, granted, up, inc, memoryVars>>

\* assess_verification: the observed version must be the artifact's, the
\* evidence fresh, the target healthy, the configuration delivered.
AdapterVerify(t) ==
  /\ At(t, "verify", "call")
  /\ \/ version[t] = "new" /\ Step(t, "ok")
     \/ /\ version[t] # "new" \/ "verify" \in Faults
        /\ Step(t, "fail")
  /\ UNCHANGED <<durableVars, version, granted, up, inc, memoryVars>>

AdapterRollback(t) ==
  /\ At(t, "rollback", "call")
  /\ \/ version' = [version EXCEPT ![t] = "old"] /\ Step(t, "ok")
     \/ /\ "rollback" \in Faults
        /\ version' \in {version, [version EXCEPT ![t] = "old"]}
        /\ Step(t, "fail")
  /\ UNCHANGED <<durableVars, granted, up, inc, memoryVars>>

(***************************************************************************)
(* commit_item: the fence, then commit_locked.                             *)
(***************************************************************************)
ExpectedState(kind) ==
  CASE kind = "prepare"  -> "preparing"
    [] kind = "activate" -> "activating"
    [] kind = "verify"   -> "verifying"
    [] kind = "rollback" -> "rolling_back"

Accepting(kind) ==
  CASE kind = "prepare"  -> {"prepared", "staged"}
    [] kind = "activate" -> {"staged", "activating"}
    [] kind = "verify"   -> {"activating", "verifying"}
    [] kind = "rollback" -> {"rolling_back"}

\* Mutated form: the states of the attempt and of the campaign are not checked.
FenceByGeneration(t) ==
  /\ att[t].gen = item[t].gen
  /\ att[t].owner = inc
  /\ gen = item[t].gen

\* check_fence_locked
Fence(t) ==
  /\ att[t].gen = item[t].gen
  /\ att[t].owner = inc
  /\ att[t].st = ExpectedState(item[t].kind)
  /\ gen = item[t].gen
  /\ state \in Accepting(item[t].kind)

Finished(t) == up /\ item[t].step \in {"ok", "fail", "refused"}

\* The item t, of this kind and verdict, is past the fence; it leaves the
\* batch with the attempts a written.
Commits(t, kind, verdict, a) ==
  /\ Finished(t) /\ item[t].kind = kind /\ item[t].step = verdict
  /\ Fence(t)
  /\ att' = a
  /\ item' = [item EXCEPT ![t] = NoItem]

Becomes(t, st) == [att EXCEPT ![t].st = st]

CommitFenced(t) ==
  /\ Finished(t) /\ ~Fence(t)
  /\ item' = [item EXCEPT ![t] = NoItem]
  /\ UNCHANGED <<durableVars, version, granted, up, inc, memoryVars>>

CommitPrepared(t) ==
  LET a == Becomes(t, "prepared")
      k == StageOf[t]
      ready == \A u \in TargetsOf(k) :
                 a[u].st \in {"prepared", "activated", "verified", "rolled_back"}
      sg == IF ready THEN [stage EXCEPT ![k] = "prepared"] ELSE stage
  IN  /\ Commits(t, "prepare", "ok", a)
      /\ stage' = sg
      /\ state' = IF ready /\ state = "prepared"
                    THEN Try(state, "staged",
                             Guards(a, active, sg) \cup {"staging_complete"})
                    ELSE state
      /\ UNCHANGED <<gen, active, planned, ticket, ledger, version, granted, up,
                     inc, memoryVars>>

\* fail_locked, reached by a failed prepare or activation.
CommitFailed(t) ==
  /\ \E kind \in {"prepare", "activate"} :
       Commits(t, kind, "fail", Becomes(t, "failed"))
  /\ state' = Try(state, "failed", {"failure_recorded"})
  /\ UNCHANGED <<gen, active, stage, planned, ticket, ledger, version, granted,
                 up, inc, memoryVars>>

CommitRefused(t) ==
  /\ Commits(t, "activate", "refused", Becomes(t, "prepared"))
  /\ state' = Try(state, "blocked", {"failure_recorded"})
  /\ UNCHANGED <<gen, active, stage, planned, ticket, ledger, version, granted,
                 up, inc, memoryVars>>

CommitActivated(t) ==
  LET a  == [att EXCEPT ![t].st = "activated", ![t].obs = TRUE]
      g  == Guards(a, active, stage)
      s1 == IF state = "staged" THEN Try(state, "activating", g) ELSE state
  IN  /\ Commits(t, "activate", "ok", a)
      /\ ledger' = [ledger EXCEPT ![t] = Append(@, "applied")]
      /\ state' = IF ~skew_within_budget(a)
                    THEN Try(s1, "blocked", {"failure_recorded"})
                  ELSE IF activation_complete(a, active)
                    THEN Try(s1, "verifying", g) ELSE s1
      /\ UNCHANGED <<gen, active, stage, planned, ticket, version, granted, up,
                     inc, memoryVars>>

\* The last verification of a stage completes it and moves to the next stage,
\* or tries to complete the campaign.
CommitVerified(t) ==
  LET a    == [att EXCEPT ![t].st = "verified", ![t].fresh = TRUE]
      done == \A u \in TargetsOf(StageOf[t]) : a[u].st = "verified"
      last == active = NumStages
      k    == IF done /\ ~last THEN active + 1 ELSE active
      sg   == IF ~done THEN stage
              ELSE IF last THEN [stage EXCEPT ![active] = "completed"]
              ELSE [stage EXCEPT ![active] = "completed", ![active + 1] = "pending"]
  IN  /\ Commits(t, "verify", "ok", a)
      /\ ledger' = [ledger EXCEPT ![t] = Append(@, "verified")]
      /\ stage' = sg
      /\ active' = k
      /\ state' = IF ~done THEN state
                  ELSE Try(state, IF last THEN "completed" ELSE "staged",
                           Guards(a, k, sg))
      /\ UNCHANGED <<gen, planned, ticket, version, granted, up, inc, memoryVars>>

\* Mutated form: the retry goes back to before the activation.
CommitVerifyReactivate(t) ==
  /\ att[t].retries < MaxRetries
  /\ Commits(t, "verify", "fail",
             [att EXCEPT ![t].st = "prepared", ![t].retries = @ + 1])
  /\ UNCHANGED <<campaignVars, ledger, version, granted, up, inc, memoryVars>>

\* Mutated form: one retry too many.
CommitVerifyRetryOnceMore(t) ==
  /\ att[t].retries <= MaxRetries
  /\ Commits(t, "verify", "fail",
             [att EXCEPT ![t].st = "activated", ![t].retries = @ + 1])
  /\ UNCHANGED <<campaignVars, ledger, version, granted, up, inc, memoryVars>>

CommitVerifyRetry(t) ==
  /\ att[t].retries < MaxRetries
  /\ Commits(t, "verify", "fail",
             [att EXCEPT ![t].st = "activated", ![t].retries = @ + 1])
  /\ UNCHANGED <<campaignVars, ledger, version, granted, up, inc, memoryVars>>

\* Mutated form: the failure is not recorded on the campaign.
CommitVerifyFailedQuietly(t) ==
  /\ att[t].retries >= MaxRetries
  /\ Commits(t, "verify", "fail", Becomes(t, "failed"))
  /\ UNCHANGED <<campaignVars, ledger, version, granted, up, inc, memoryVars>>

CommitVerifyFailed(t) ==
  /\ att[t].retries >= MaxRetries
  /\ Commits(t, "verify", "fail", Becomes(t, "failed"))
  /\ state' = Try(state, "failed", {"failure_recorded"})
  /\ UNCHANGED <<gen, active, stage, planned, ticket, ledger, version, granted,
                 up, inc, memoryVars>>

\* Mutated form: the adapter's verdict is not read.
CommitRolledBackAnyway(t) ==
  LET a == Becomes(t, "rolled_back")
  IN  /\ \E verdict \in {"ok", "fail"} : Commits(t, "rollback", verdict, a)
      /\ ledger' = [ledger EXCEPT ![t] = Append(@, "rolled_back")]
      /\ state' = IF rollback_complete(a)
                    THEN Try(state, "rolled_back", Guards(a, active, stage))
                    ELSE state
      /\ UNCHANGED <<gen, active, stage, planned, ticket, version, granted, up,
                     inc, memoryVars>>

CommitRolledBack(t) ==
  LET a == Becomes(t, "rolled_back")
  IN  /\ Commits(t, "rollback", "ok", a)
      /\ ledger' = [ledger EXCEPT ![t] = Append(@, "rolled_back")]
      /\ state' = IF rollback_complete(a)
                    THEN Try(state, "rolled_back", Guards(a, active, stage))
                    ELSE state
      /\ UNCHANGED <<gen, active, stage, planned, ticket, version, granted, up,
                     inc, memoryVars>>

CommitRollbackFailed(t) ==
  /\ Commits(t, "rollback", "fail", Becomes(t, "failed"))
  /\ state' = Try(state, "failed", {"failure_recorded"})
  /\ UNCHANGED <<gen, active, stage, planned, ticket, ledger, version, granted,
                 up, inc, memoryVars>>

(***************************************************************************)
(* Time, other campaigns of the same engine, and the process.              *)
(***************************************************************************)
TicketExpires ==
  /\ "expiry" \in Faults /\ ticket.live
  /\ ticket' = [ticket EXCEPT !.live = FALSE]
  /\ UNCHANGED <<state, gen, active, stage, planned, att, ledger, version,
                 granted, up, inc, memoryVars, item>>

EvidenceExpires(t) ==
  /\ "expiry" \in Faults /\ att[t].fresh
  /\ att' = [att EXCEPT ![t].fresh = FALSE]
  /\ UNCHANGED <<campaignVars, ledger, version, granted, up, inc, memoryVars,
                 item>>

\* Another campaign's preflight refreshes the engine's inventory snapshot ...
ForeignInventory ==
  /\ up /\ "foreign" \in Faults
  /\ inv' \in Inventories
  /\ UNCHANGED <<durableVars, version, granted, up, inc, resolved, drains,
                 change, pf, item>>

\* ... and replaces its last integrity verdict and payload path.
ForeignArtifact ==
  /\ up /\ "foreign" \in Faults
  /\ resolved' = "other"
  /\ UNCHANGED <<durableVars, version, granted, up, inc, inv, drains, change,
                 pf, item>>

Crash ==
  /\ up /\ "crash" \in Faults /\ inc < MaxIncarnation
  /\ up' = FALSE
  /\ inv' = [t \in Targets |-> "absent"]
  /\ resolved' = "none"
  /\ drains' = [k \in Stages |-> None]
  /\ change' = "none"
  /\ pf' = NoReport
  /\ item' = [t \in Targets |-> NoItem]
  /\ UNCHANGED <<durableVars, version, granted, inc>>

\* Mutated form: an activation in flight is assumed to have taken effect.
OpenAssumingEffect ==
  /\ ~up /\ inc < MaxIncarnation
  /\ inc' = inc + 1 /\ up' = TRUE /\ ticket' = NoTicket
  /\ att' = [t \in Targets |->
               IF att[t].st = "activating"
                 THEN [att[t] EXCEPT !.st = "activated", !.owner = inc + 1]
                 ELSE Retired("abandoned")[t]]
  /\ state' = IF state \in ActiveStates
                THEN Try(state, "blocked", {"failure_recorded"}) ELSE state
  /\ UNCHANGED <<gen, active, stage, planned, ledger, version, granted,
                 memoryVars, item>>

\* initialize and apply_reconciliation: a new incarnation abandons what was in
\* flight and blocks a campaign that was mid-flight.  Opening fails when that
\* transition is refused, after the attempts were rewritten.
Open ==
  /\ ~up /\ inc < MaxIncarnation
  /\ inc' = inc + 1
  /\ att' = Retired("abandoned")
  /\ LET refused == state \in ActiveStates
                    /\ ~Allowed(state, "blocked", {"failure_recorded"})
     IN  /\ up' = ~refused
         /\ ticket' = IF refused THEN ticket ELSE NoTicket
  /\ state' = IF state \in ActiveStates
                THEN Try(state, "blocked", {"failure_recorded"}) ELSE state
  /\ UNCHANGED <<gen, active, stage, planned, ledger, version, granted,
                 memoryVars, item>>

(***************************************************************************)
(* The specification.                                                      *)
(***************************************************************************)
Preflight == PreflightBegin \/ PreflightInventory \/ PreflightUnresolved
               \/ PreflightArtifact \/ PreflightPass \/ PreflightFail

Operator == \/ \E dry_run \in BOOLEAN : Start(dry_run)
            \/ Pause \/ Resume \/ Abort
            \/ \E execute \in BOOLEAN : Rollback(execute)

Driver == PlanForward \/ PlanRollback \/ PlanIdle

Execute(t) == \/ DrainLookup(t) \/ DrainAcquire(t) \/ HealthGate(t)
              \/ AdapterPrepare(t) \/ AdapterActivate(t) \/ AdapterObserve(t)
              \/ AdapterVerify(t) \/ AdapterRollback(t)

CommitItem(t) == \/ CommitFenced(t) \/ CommitPrepared(t) \/ CommitFailed(t)
                 \/ CommitRefused(t) \/ CommitActivated(t)
                 \/ CommitVerified(t) \/ CommitVerifyRetry(t)
                 \/ CommitVerifyFailed(t) \/ CommitRolledBack(t)
                 \/ CommitRollbackFailed(t)

Environment == \/ \E admitted \in BOOLEAN : RolloutAnswer(admitted)
               \/ TicketExpires \/ (\E t \in Targets : EvidenceExpires(t))
               \/ ForeignInventory \/ ForeignArtifact \/ Crash \/ Open

Next == \/ Preflight \/ Operator \/ Driver \/ Environment
        \/ \E t \in Targets : Execute(t) \/ CommitItem(t)

Spec == Init /\ [][Next]_vars

\* A campaign that was started is driven: the driver plans while there is work,
\* and every call the batch makes returns and commits.
Fairness == /\ WF_vars(Driver)
            /\ \A t \in Targets : WF_vars(Execute(t)) /\ WF_vars(CommitItem(t))

FairSpec == Spec /\ Fairness

-----------------------------------------------------------------------------
(***************************************************************************)
(* Properties.                                                             *)
(***************************************************************************)
AttemptRecords ==
  [st : AttemptStates, gen : 0 .. MaxGeneration, owner : 0 .. MaxIncarnation,
   obs : BOOLEAN, retries : 0 .. MaxRetries, fresh : BOOLEAN]

WorkItems ==
  [kind : {"none", "prepare", "activate", "verify", "rollback"},
   gen : 0 .. MaxGeneration,
   step : {"none", "drain", "acquire", "gate", "call", "observe", "ok", "fail",
           "refused"},
   tries : 0 .. MaxRetries,
   payload : {"none", "mine", "corrupt", "other"}]

Tickets == [passed : BOOLEAN, gen : 0 .. MaxGeneration,
            inc : 0 .. MaxIncarnation, live : BOOLEAN]

Reports == [step : {"idle", "inventory", "artifact", "report"},
            gen : 0 .. MaxGeneration, fit : BOOLEAN]

\* The type of every record the engine keeps and of every item in flight: the
\* counters of CampaignRecord, AttemptRecord and WorkItem stay in their bounds.
TypeOK ==
  /\ state \in UpgradeStates
  /\ gen \in 1 .. MaxGeneration
  /\ active \in Stages
  /\ stage \in [Stages -> {"pending", "prepared", "completed"}]
  /\ planned \in BOOLEAN
  /\ ticket \in Tickets
  /\ att \in [Targets -> AttemptRecords]
  /\ ledger \in [Targets -> Seq({"applied", "verified", "rolled_back"})]
  /\ version \in [Targets -> {"old", "new"}]
  /\ granted \in SUBSET Targets
  /\ up \in BOOLEAN
  /\ inc \in 1 .. MaxIncarnation
  /\ inv \in [Targets -> InventoryAnswers \cup {"absent"}]
  /\ resolved \in {"none", "mine", "corrupt", "other"}
  /\ drains \in [Stages -> Targets \cup {None}]
  /\ change \in {"none", "asked", "refused", "admitted"}
  /\ pf \in Reports
  /\ item \in [Targets -> WorkItems]

Recorded(t, outcome) == \E i \in 1 .. Len(ledger[t]) : ledger[t][i] = outcome

\* Success is post-activation verification: a completed campaign has every
\* target of every stage on the new version, with exactly one `applied` and one
\* `verified` record, whatever installers reported and operators did.
CompletedTruth ==
  state = "completed" =>
    \A t \in Targets : version[t] = "new" /\ ledger[t] = <<"applied", "verified">>

\* The ledger tells the story of an attempt once: applied, then perhaps
\* verified, then perhaps rolled back, and it agrees with the attempt record,
\* across retries, lost acknowledgements, stale commits and restarts.
LedgerTruth ==
  \A t \in Targets :
    /\ ledger[t] \in {<<>>, <<"applied">>, <<"applied", "verified">>,
                      <<"applied", "rolled_back">>,
                      <<"applied", "verified", "rolled_back">>}
    /\ att[t].obs <=> ledger[t] # <<>>
    /\ att[t].st = "rolled_back" <=> Recorded(t, "rolled_back")
    /\ att[t].st = "verified" => Recorded(t, "verified")

\* Stages are barriers: a target is changed only when every target of every
\* earlier stage was verified, even when the campaign is paused, blocked,
\* restarted or resumed in between.
StageBarrier ==
  \A t, u \in Targets :
    StageOf[t] < StageOf[u] /\ version[u] = "new" => Recorded(t, "verified")

\* The rollback plan is recorded before any attempt exists, whichever command
\* brought the campaign to `prepared`.
RollbackPlanFirst == (\E t \in Targets : att[t].st # "none") => planned

\* The adapters are never asked for more concurrent activations than the
\* limit, retries and re-claims after a refused gate included.
ParallelLimit == Cardinality({t \in Targets : item[t].kind = "activate"}) <= Limit

\* A target that was rolled back stays on the old version: no stale activation
\* reaches it later.
ReversedStaysOld ==
  \A t \in Targets : Recorded(t, "rolled_back") => version[t] = "old"

\* What was abandoned, aborted or rolled back is never revived: a late commit
\* cannot move such an attempt again.
RetiredStaysRetired ==
  [][\A t \in Targets : att[t].st \in {"aborted", "abandoned", "rolled_back"}
                          => att'[t].st = att[t].st]_vars

\* A terminal campaign is sealed: no command, late commit, adapter call, crash
\* or restart changes its state, the ledger, a target or an attempt at rest.
TerminalSealed ==
  [][(state \in {"completed", "rolled_back"}) =>
       /\ UNCHANGED <<state, gen, stage, ledger, version>>
       /\ \A t \in Targets : ~InFlight(att[t].st) => att'[t].st = att[t].st]_vars

\* Past an irreversible boundary (an irreversible artifact, or a generation
\* handoff with a verified target) no target returns to the old version.
BoundaryIsFinal ==
  [][~Reversible \/ (Handoff /\ \E t \in Targets : Recorded(t, "verified"))
       => \A t \in Targets : version[t] = "new" => version'[t] = "new"]_vars

\* A campaign that is driven comes to rest, whatever its adapters do: it
\* completes, blocks or fails, unless the operator asks for a rollback first.
DrivenSettles ==
  state \in {"prepared", "staged", "activating", "verifying"}
    ~> state \in {"completed", "blocked", "failed", "rollback_planned",
                  "rolling_back"}

\* A rollback that is executed finishes when its adapters succeed, also after
\* a failure left other targets of the batch behind; asking for the plan again
\* puts it back on hold.
RollbackSettles ==
  state = "rolling_back" ~> state \in {"rolled_back", "rollback_planned"}

\* A rollback that was only planned is never executed, failed or aborted later:
\* every command refuses to leave rollback_planned, because rollback() and
\* abort() go through `failed`, which the transition table does not allow there.
PlannedRollbackIsFinal ==
  [][state = "rollback_planned" => state' = "rollback_planned"]_vars

\* The outcome that is_terminal seals; anything else is still open.
Verdict == IF state \in {"completed", "rolled_back"} THEN state ELSE "open"

Upgrade == INSTANCE StagedUpgrade WITH verdict <- Verdict

\* Seen from outside, the engine with its drivers, fences, operators and restarts
\* does nothing that StagedUpgrade does not promise: every write of a target and
\* of the ledger comes in its turn, and a verdict is given once and on facts.
ImplementsStagedUpgrade == Upgrade!Spec

-----------------------------------------------------------------------------
(***************************************************************************)
(* What the repository says and the code does not keep: each is checked by *)
(* a run of its own that finds the counterexample.                         *)
(***************************************************************************)

\* README, Fencing: "Restart reconciliation abandons work owned by a previous
\* incarnation and blocks campaigns that were mid-flight".
MidFlightBlockedOnRestart ==
  [][inc' # inc /\ (state \in ActiveStates) => up' /\ state' = "blocked"]_vars

\* README, Fencing: "... requiring a fresh preflight before execution resumes":
\* no activation is planned in an incarnation that issued no passing ticket.
PreflightBeforeActivation ==
  [][\A t \in Targets :
       item[t].kind = "none" /\ item'[t].kind = "activate"
         => ticket.passed /\ ticket.inc = inc]_vars

\* engine_ops.cpp, rollback(): "An attempt that changed the target counts even
\* when the change was later abandoned or failed verification": a rolled back
\* campaign leaves no target that its ledger says was changed on the new version.
RolledBackTruth ==
  state = "rolled_back" =>
    \A t \in Targets : Recorded(t, "applied") => version[t] = "old"

\* test_engine_faults.cpp, rollout_fabric_refusal_prevents_execution: no work is
\* planned for a campaign the Rollout Fabric refused.
RefusalPreventsExecution ==
  [][change = "refused" =>
       \A t \in Targets : item[t].kind = "none" => item'[t].kind = "none"]_vars
=============================================================================
