---------------------------- MODULE CampaignFleet ----------------------------
(***************************************************************************)
(* Several campaigns that one engine plans, checks and executes over one   *)
(* fleet, while the fleet changes under them.                              *)
(*                                                                         *)
(* The engine keeps one inventory snapshot for all campaigns               *)
(* (last_inventory_): planning refreshes it when it is stale, every        *)
(* preflight replaces it, and everything decided later - which target gets *)
(* work, the version it comes from, the skew of the live mix - is read     *)
(* from it. UpgradeEngine has one campaign in full detail; here each call  *)
(* to an adapter is one step with its commit, nothing pauses or rolls      *)
(* back, and tickets and evidence do not expire.                           *)
(*                                                                         *)
(*   src/src/engine/engine.cpp       refresh_inventory, plan,              *)
(*                                   create_campaign, preflight            *)
(*   src/src/engine/engine_ops.cpp   start, resume                         *)
(*   src/src/engine/engine_exec.cpp  guards_locked, plan_work_locked       *)
(*   src/src/engine/engine_run.cpp   commit_locked                         *)
(***************************************************************************)
EXTENDS Planner, Lifecycle

CONSTANTS
  Targets, CampaignIds,
  Catalog,          \* per target: its descriptor without the installed version
  Installed,        \* per target: the version it runs at first
  Requests,         \* the plan requests an operator may make
  RequestsOf,       \* per campaign id: those of them made under it
  Policy,           \* [max_targets, max_stages, max_concurrent]
  Unsteady,         \* the targets whose version or listing may change
  DriftVersions,    \* versions others install
  Listings,         \* how a target may be listed: version, blank, absent
  Answers,          \* sets of targets the registry may call compatible
  MaxChanges,       \* bound: changes of the fleet or of its listing
  MaxGeneration,    \* bound: starts of a campaign, plus one
  MaxIncarnation,   \* bound: incarnations of the engine
  None

ASSUME FleetAssumption ==
  /\ Targets \subseteq Nat /\ IsFiniteSet(Targets) /\ Unsteady \subseteq Targets
  /\ \A c \in CampaignIds : RequestsOf[c] \subseteq Requests
  /\ Listings \subseteq {"version", "blank", "absent"} /\ "version" \in Listings
  /\ Installed \in [Targets -> Version] /\ DriftVersions \subseteq Version
  /\ \A r \in Requests :
       /\ r.targets \in Seq(Nat) /\ r.strategy \in Strategies /\ r.max_parallel \in Nat
       /\ r.artifact.version \in Version
  /\ MaxChanges \in Nat /\ MaxGeneration \in Nat \ {0} /\ MaxIncarnation \in Nat \ {0}

VARIABLES
  version,     \* what runs on each target
  listing,     \* how the inventory source lists each target
  inventory,   \* last_inventory_: the descriptors it lists
  inv_fresh,   \* evaluate_freshness of last_inventory_
  resolved,    \* the artifact last_integrity_ speaks of
  camp,        \* the campaign records
  att,         \* the attempt records: the latest of each campaign and target
  inc,         \* incarnation_
  changes,     \* changes of the fleet so far
  unseen,      \* targets whose version changed since last_inventory_ was taken
  stale,       \* per campaign: those changed since the inventory that its last
               \* skew assessment read was taken
  reported,    \* per campaign and target: activations recorded as applied
  lost         \* ... and attempt records refused when they were read back

fleetVars   == <<version, listing, changes>>
engineVars  == <<inventory, inv_fresh, resolved, inc>>
historyVars == <<unseen, stale, reported, lost>>
vars == <<version, listing, inventory, inv_fresh, resolved, camp, att, inc, changes,
          unseen, stale, reported, lost>>

NoCampaign == [state |-> "none"]
NoAttempt  == [st |-> "none", gen |-> 0, item |-> 0, named |-> TRUE, fresh |-> FALSE]
NoInventory == [t \in {} |-> None]

Created(c) == camp[c] # NoCampaign
Newest(c)  == camp[c].request.artifact.version

-----------------------------------------------------------------------------
(* The inventory. *)

\* What the inventory source answers now: listed targets with what they claim
\* to run; a source may list a target whose version it does not know.
Listed == {t \in Targets : listing[t] # "absent"}

Resolve ==
  [t \in Listed |->
     [component    |-> Catalog[t].component,    platform |-> Catalog[t].platform,
      capabilities |-> Catalog[t].capabilities, strategies |-> Catalog[t].strategies,
      group        |-> Catalog[t].group,        removal  |-> Catalog[t].removal,
      installed    |-> IF listing[t] = "blank" THEN NoVersion ELSE version[t]]]

\* refresh_inventory(now, force): a fresh snapshot is kept unless forced.
Refresh(force) ==
  IF inv_fresh /\ ~force
    THEN UNCHANGED <<inventory, inv_fresh, unseen>>
    ELSE inventory' = Resolve /\ inv_fresh' = TRUE /\ unseen' = {}

-----------------------------------------------------------------------------
(* Guards. *)

ticket_current(c) == camp[c].ticket = camp[c].gen /\ resolved = camp[c].request.artifact

StageTargets(c) == camp[c].plan.stages[camp[c].active].targets
Planned(c)      == PlannedTargets(camp[c].plan)

Upgraded(a) == a.st \in {"activated", "verified"}

\* assess_current_skew_locked with the attempts a of campaign c: the planned
\* targets, at the newest version once activated, else as the inventory has
\* them; one it does not list has no version.
LiveVersion(c, a, t) ==
  IF Upgraded(a[t]) THEN Newest(c)
  ELSE IF t \in DOMAIN inventory THEN inventory[t].installed
  ELSE NoVersion

AssessCurrent(c, a) ==
  SkewWithin(camp[c].request.budget, {LiveVersion(c, a, t) : t \in Planned(c)}, Newest(c))

ActivationComplete(c, a) ==
  StageTargets(c) # {} /\ \A t \in StageTargets(c) : Upgraded(a[t])

\* guards_locked, for a campaign whose stages are in the states sg, with stage
\* k active. The irreversible steps of an executable plan were acknowledged.
GuardsOf(c, a, k, sg) ==
  LET ts == camp[c].plan.stages[k].targets
  IN {"irreversible_acknowledged", "drain_satisfied"}
     \cup (IF ticket_current(c) THEN {"preflight_current"} ELSE {})
     \cup (IF resolved = camp[c].request.artifact THEN {"artifact_integrity_verified"} ELSE {})
     \cup (IF camp[c].gen > 1 THEN {"rollback_plan_recorded"} ELSE {})
     \cup (IF \A t \in Planned(c) : /\ t \in DOMAIN inventory
                                    /\ ClaimsStrategy(inventory[t], camp[c].request.strategy)
             THEN {"adapter_supports_strategy"} ELSE {})
     \cup (IF \A j \in DOMAIN sg : sg[j] = "completed" THEN {"all_stages_complete"} ELSE {})
     \cup (IF sg[k] = "prepared" THEN {"staging_complete"} ELSE {})
     \cup (IF AssessCurrent(c, a) THEN {"skew_within_budget"} ELSE {})
     \cup (IF ts # {} /\ \A t \in ts : Upgraded(a[t]) THEN {"activation_complete"} ELSE {})
     \cup (IF ts # {} /\ \A t \in ts : a[t].st = "verified" /\ a[t].fresh
             THEN {"verification_fresh_passed"} ELSE {})

Guards(c) == GuardsOf(c, att[c], camp[c].active, camp[c].stages)

Moves(c, s) == camp' = [camp EXCEPT ![c].state = s]

-----------------------------------------------------------------------------
(* Operators plan, check and start campaigns. *)

\* Mutated form: one record too many.
ProgressAndOne(plan) == [k \in 1..(Len(plan.stages) + 1) |-> "pending"]

\* A progress record for each stage.
Progress(plan) == [k \in DOMAIN plan.stages |-> "pending"]

\* create_campaign: a rejected plan is recorded too.
Create(c, r) ==
  /\ ~Created(c) /\ r \in RequestsOf[c]
  /\ Refresh(FALSE)
  /\ LET plan == BuildPlan(r, inventory', Policy)
     IN camp' = [camp EXCEPT ![c] =
          [state |-> "proposed", request |-> r, plan |-> plan, gen |-> 1, ticket |-> 0,
           active |-> 1, stages |-> Progress(plan)]]
  /\ UNCHANGED <<fleetVars, resolved, att, inc, stale, reported, lost>>

\* Engine::plan, for a campaign that is not created.
PlanOnly ==
  /\ ~inv_fresh
  /\ Refresh(FALSE)
  /\ UNCHANGED <<fleetVars, resolved, camp, att, inc, stale, reported, lost>>

\* preflight(): a new inventory, the artifact, the registry's answers and the
\* report. The artifact source and the services it needs are in order.
Preflight(c, compatible) ==
  /\ Created(c)
  /\ Refresh(TRUE)
  /\ resolved' = camp[c].request.artifact
  /\ LET r == camp[c].request
         plan == camp[c].plan
         s == camp[c].state
         guards == {"preflight_current", "artifact_integrity_verified", "failure_recorded"}
     IN IF PreflightPasses(plan, r, inventory', compatible, TRUE, FALSE)
        THEN /\ camp' = [camp EXCEPT ![c].ticket = camp[c].gen,
                           ![c].state = IF s \in {"proposed", "blocked", "paused"}
                                          THEN Try(s, "validated", guards) ELSE s]
        ELSE /\ camp' = [camp EXCEPT ![c].ticket = 0,
                           ![c].state = IF s = "proposed" THEN Try(s, "blocked", guards) ELSE s]
  /\ UNCHANGED <<fleetVars, att, inc, stale, reported, lost>>

\* start(): a new generation, then validated (again) and prepared.
Start(c) ==
  /\ Created(c) /\ camp[c].gen < MaxGeneration
  /\ camp[c].state \notin TerminalStates \cup ActiveStates \cup {"proposed"}
  /\ Executable(camp[c].plan) /\ ticket_current(c)
  /\ LET guards == Guards(c) \cup {"rollback_plan_recorded"}
         s == camp[c].state
         s1 == IF s \in {"paused", "blocked"} THEN Try(s, "validated", guards) ELSE s
     IN camp' = [camp EXCEPT ![c].gen = @ + 1, ![c].ticket = camp[c].gen + 1,
                   ![c].state = IF s1 = "validated" THEN Try(s1, "prepared", guards) ELSE s1]
  /\ UNCHANGED <<fleetVars, engineVars, att, historyVars>>

\* resume(): the same without a new generation.
Resume(c) ==
  /\ Created(c)
  /\ camp[c].state \in {"paused", "blocked", "validated", "prepared"}
  /\ ticket_current(c)
  /\ LET s == camp[c].state
         s1 == IF s \in {"paused", "blocked"} THEN Try(s, "validated", Guards(c)) ELSE s
     IN Moves(c, Try(s1, "prepared", Guards(c)))
  /\ UNCHANGED <<fleetVars, engineVars, att, historyVars>>

-----------------------------------------------------------------------------
(* The driver: plan_work_locked for campaign c. *)

Running(c) == Created(c) /\ camp[c].state \in {"prepared", "staged", "activating", "verifying"}

\* No item of the campaign is out: an item carries the generation of the
\* campaign when it was planned, 0 stands for none.
BatchDone(c) == \A t \in Targets : att[c][t].item = 0

\* A stage already prepared or already activated moves on; a mix beyond the
\* skew budget blocks a campaign that is about to begin a stage.
PlannedState(c) ==
  LET s == camp[c].state
      s1 == IF s = "prepared" /\ camp[c].stages[camp[c].active] = "prepared"
              THEN Try(s, "staged", Guards(c) \cup {"staging_complete"}) ELSE s
      s2 == IF s1 \in {"staged", "activating"} /\ ActivationComplete(c, att[c])
              THEN Try(IF s1 = "staged" THEN Try(s1, "activating", Guards(c)) ELSE s1,
                       "verifying", Guards(c))
              ELSE s1
  IN IF s2 = "staged" /\ ~AssessCurrent(c, att[c]) THEN Try(s2, "blocked", {"failure_recorded"})
     ELSE s2

StagingPhase(c, s) ==
  \/ s = "prepared"
  \/ s = "staged" /\ camp[c].stages[camp[c].active] = "pending"

\* The skew was assessed: what changes from now on, and what had changed since
\* the snapshot, it does not know.
Assessed(c, changed) == [stale EXCEPT ![c] = changed]

\* The pass claims what it may activate, in one go.
Claimable(c, s) ==
  {t \in StageTargets(c) :
     /\ s \in {"staged", "activating"} /\ ~StagingPhase(c, s)
     /\ t \in DOMAIN inventory /\ att[c][t].st = "prepared"}

\* How many more may be activating. (What an adapter claims for itself is taken
\* to be no less than the stage's and the policy's limits.)
Room(c) ==
  LET stage == camp[c].plan.stages[camp[c].active]
      limit == IF stage.max_parallel < Policy.max_concurrent THEN stage.max_parallel
               ELSE Policy.max_concurrent
  IN limit - Cardinality({t \in StageTargets(c) : att[c][t].st = "activating"})

\* A pass takes as many as there is room for, or fewer when its budget of items
\* ends first.
Claim(c) ==
  /\ Running(c) /\ BatchDone(c)
  /\ LET s == PlannedState(c) IN
     \E ts \in SUBSET Claimable(c, s) :
       /\ ts # {} => Cardinality(ts) <= Room(c)
       /\ ts # {} \/ s # camp[c].state
       /\ Moves(c, s)
       /\ att' = [att EXCEPT ![c] =
                    [t \in Targets |->
                       IF t \in ts
                         THEN [att[c][t] EXCEPT !.st = "activating", !.item = camp[c].gen]
                         ELSE att[c][t]]]
       /\ stale' = IF s \in {"staged", "blocked"} THEN Assessed(c, unseen) ELSE stale
  /\ UNCHANGED <<fleetVars, engineVars, unseen, reported, lost>>

\* An attempt is made from what the inventory says of the target, and its
\* artifact delivered.
Prepare(c, t) ==
  /\ Running(c) /\ BatchDone(c)
  /\ PlannedState(c) = camp[c].state /\ StagingPhase(c, camp[c].state)
  /\ t \in StageTargets(c) \cap DOMAIN inventory
  /\ att[c][t] = NoAttempt
  /\ LET k == camp[c].active
         made == [st |-> "prepared", gen |-> camp[c].gen, item |-> 0,
                  named |-> ~inventory[t].installed.empty, fresh |-> FALSE]
         a == [att[c] EXCEPT ![t] = made]
         ready == \A u \in StageTargets(c) : a[u].st \in {"prepared", "activated", "verified"}
         sg == IF ready THEN [camp[c].stages EXCEPT ![k] = "prepared"] ELSE camp[c].stages
     IN /\ att' = [att EXCEPT ![c] = a]
        /\ camp' = [camp EXCEPT ![c].stages = sg,
                      ![c].state = IF ready /\ @ = "prepared"
                                     THEN Try(@, "staged", GuardsOf(c, a, k, sg)) ELSE @]
        /\ stale' = IF camp[c].state = "staged" THEN Assessed(c, unseen) ELSE stale
  /\ UNCHANGED <<fleetVars, engineVars, unseen, reported, lost>>

-----------------------------------------------------------------------------
(* Execution: the adapter's call, then commit_item. *)

\* check_fence_locked: the item, its attempt and the campaign are of one
\* generation.
Fence(c, t, accepting) ==
  /\ att[c][t].gen = camp[c].gen
  /\ att[c][t].item = camp[c].gen
  /\ camp[c].state \in accepting

ActivationStates == {"staged", "activating"}

\* The attempts of c when t's becomes st and its item is done.
Becomes(c, t, st) == [att[c] EXCEPT ![t].st = st, ![t].item = 0]

\* A version changed: the snapshot, and every assessment made from it, are out
\* of date for that target.
Change(t) == [d \in CampaignIds |-> IF Created(d) THEN stale[d] \cup {t} ELSE {}]

\* The adapter changes the target whether or not its commit is accepted.
Activate(c, t) ==
  /\ Created(c) /\ att[c][t].item # 0
  /\ version' = [version EXCEPT ![t] = Newest(c)]
  /\ unseen' = unseen \cup {t}
  /\ LET a == Becomes(c, t, "activated")
         g == GuardsOf(c, a, camp[c].active, camp[c].stages)
         s1 == IF camp[c].state = "staged" THEN Try("staged", "activating", g)
               ELSE camp[c].state
     IN IF Fence(c, t, ActivationStates)
        THEN /\ att' = [att EXCEPT ![c] = a]
             /\ reported' = [reported EXCEPT ![c][t] = @ + 1]
             /\ Moves(c, IF ~AssessCurrent(c, a) THEN Try(s1, "blocked", {"failure_recorded"})
                         ELSE IF ActivationComplete(c, a) THEN Try(s1, "verifying", g) ELSE s1)
             /\ stale' = [Change(t) EXCEPT ![c] = unseen \cup {t}]
        ELSE /\ att' = [att EXCEPT ![c][t].item = 0]
             /\ stale' = Change(t)
             /\ UNCHANGED <<camp, reported>>
  /\ UNCHANGED <<listing, changes, engineVars, lost>>

\* The adapter refuses; the target stays as it is.
ActivateFails(c, t) ==
  /\ Created(c) /\ att[c][t].item # 0
  /\ IF Fence(c, t, ActivationStates)
       THEN /\ att' = [att EXCEPT ![c] = Becomes(c, t, "failed")]
            /\ Moves(c, Try(camp[c].state, "failed", {"failure_recorded"}))
       ELSE att' = [att EXCEPT ![c][t].item = 0] /\ UNCHANGED camp
  /\ UNCHANGED <<fleetVars, engineVars, historyVars>>

\* Claimed, called and committed: the observed version must be the artifact's.
\* No retries. An attempt of an earlier generation never gets past the fence.
Verify(c, t) ==
  /\ Running(c) /\ camp[c].state \in {"activating", "verifying"}
  /\ BatchDone(c) /\ PlannedState(c) = camp[c].state
  /\ t \in StageTargets(c) \cap DOMAIN inventory
  /\ att[c][t].st = "activated"
  /\ LET a == [att[c] EXCEPT ![t].st = "verified", ![t].fresh = TRUE]
         done == \A u \in StageTargets(c) : a[u].st = "verified"
         k == camp[c].active
         last == k = Len(camp[c].stages)
         next == IF done /\ ~last THEN k + 1 ELSE k
         sg == IF done THEN [camp[c].stages EXCEPT ![k] = "completed"] ELSE camp[c].stages
         g == GuardsOf(c, a, next, sg)
     IN IF att[c][t].gen # camp[c].gen
          THEN att' = [att EXCEPT ![c] = Becomes(c, t, "verifying")] /\ UNCHANGED camp
        ELSE IF Equal(version[t], Newest(c))
          THEN /\ att' = [att EXCEPT ![c] = a]
               /\ camp' = [camp EXCEPT ![c].stages = sg, ![c].active = next,
                             ![c].state = IF ~done THEN @
                                          ELSE Try(@, IF last THEN "completed" ELSE "staged", g)]
        ELSE /\ att' = [att EXCEPT ![c] = Becomes(c, t, "failed")]
             /\ Moves(c, Try(camp[c].state, "failed", {"failure_recorded"}))
  /\ UNCHANGED <<fleetVars, engineVars, historyVars>>

-----------------------------------------------------------------------------
(* The environment. *)

\* Someone else installs a version.
Drift(t, v) ==
  /\ changes < MaxChanges /\ v # version[t]
  /\ version' = [version EXCEPT ![t] = v]
  /\ changes' = changes + 1
  /\ unseen' = unseen \cup {t}
  /\ stale' = Change(t)
  /\ UNCHANGED <<listing, engineVars, camp, att, reported, lost>>

\* The inventory source lists a target in another way.
Relist(t, how) ==
  /\ changes < MaxChanges /\ how # listing[t]
  /\ listing' = [listing EXCEPT ![t] = how]
  /\ changes' = changes + 1
  /\ UNCHANGED <<version, engineVars, camp, att, historyVars>>

InventoryAges ==
  /\ inv_fresh
  /\ inv_fresh' = FALSE
  /\ UNCHANGED <<fleetVars, inventory, resolved, inc, camp, att, historyVars>>

\* Mutated form: without its evidence an activation is done again.
RereadAsPrepared(a) ==
  IF a.st \in {"activating", "activated"}
    THEN [a EXCEPT !.st = "prepared", !.item = 0, !.fresh = FALSE]
    ELSE [a EXCEPT !.fresh = FALSE]

\* The process ends and another one opens the store. A record with an empty
\* from_version was written and is refused when it is read back; what was in
\* flight is abandoned, active campaigns are blocked, tickets are void.
Reread(a) ==
  CASE ~a.named                    -> NoAttempt
    [] a.named /\ InFlight(a.st)   -> [a EXCEPT !.st = "abandoned", !.item = 0, !.fresh = FALSE]
    [] OTHER                       -> [a EXCEPT !.fresh = FALSE]

Restart ==
  /\ inc < MaxIncarnation
  /\ inc' = inc + 1
  /\ inventory' = NoInventory /\ inv_fresh' = FALSE /\ resolved' = None
  /\ att' = [c \in CampaignIds |-> [t \in Targets |-> Reread(att[c][t])]]
  /\ camp' = [c \in CampaignIds |->
                IF ~Created(c) THEN camp[c]
                ELSE [camp[c] EXCEPT !.ticket = 0,
                        !.state = IF @ \in ActiveStates
                                    THEN Try(@, "blocked", {"failure_recorded"}) ELSE @]]
  /\ unseen' = Targets
  /\ lost' = [c \in CampaignIds |-> [t \in Targets |->
                IF att[c][t].named THEN lost[c][t] ELSE lost[c][t] + 1]]
  /\ UNCHANGED <<fleetVars, stale, reported>>

-----------------------------------------------------------------------------
Init ==
  /\ version = Installed
  /\ listing = [t \in Targets |-> "version"]
  /\ inventory = NoInventory /\ inv_fresh = FALSE /\ resolved = None
  /\ camp = [c \in CampaignIds |-> NoCampaign]
  /\ att = [c \in CampaignIds |-> [t \in Targets |-> NoAttempt]]
  /\ inc = 1 /\ changes = 0
  /\ unseen = Targets
  /\ stale = [c \in CampaignIds |-> {}]
  /\ reported = [c \in CampaignIds |-> [t \in Targets |-> 0]]
  /\ lost = [c \in CampaignIds |-> [t \in Targets |-> 0]]

Operator(c) ==
  \/ \E r \in Requests : Create(c, r)
  \/ \E compatible \in Answers : Preflight(c, compatible)
  \/ Start(c) \/ Resume(c)

Driver(c) ==
  \/ Claim(c)
  \/ \E t \in Targets : Prepare(c, t) \/ Activate(c, t) \/ ActivateFails(c, t) \/ Verify(c, t)

Environment ==
  \/ PlanOnly \/ InventoryAges \/ Restart
  \/ \E t \in Unsteady : \/ \E v \in DriftVersions : Drift(t, v)
                         \/ \E how \in Listings : Relist(t, how)

Next == Environment \/ \E c \in CampaignIds : Operator(c) \/ Driver(c)

Spec == Init /\ [][Next]_vars

-----------------------------------------------------------------------------
(* Properties. *)

Stages == [targets : SUBSET Targets, max_parallel : Nat \ {0}, removal : BOOLEAN]

TypeOKOfCampaign(r) ==
  /\ r.state \in UpgradeStates
  /\ r.request \in Requests
  /\ r.plan.stages \in Seq(Stages)
  /\ r.gen \in 1..MaxGeneration /\ r.ticket \in 0..MaxGeneration
  /\ r.active \in Nat
  /\ r.stages \in Seq({"pending", "prepared", "completed"})
  /\ Len(r.stages) = Len(r.plan.stages)
  /\ r.stages # <<>> => r.active \in DOMAIN r.stages

\* Every variable has its type, a campaign has one progress record for each
\* stage of its plan, and its active stage is one of them.
TypeOK ==
  /\ version \in [Targets -> Version]
  /\ listing \in [Targets -> Listings]
  /\ DOMAIN inventory \subseteq Targets /\ inv_fresh \in BOOLEAN
  /\ \A c \in CampaignIds : Created(c) => TypeOKOfCampaign(camp[c])
  /\ att \in [CampaignIds -> [Targets ->
               [st : AttemptStates, gen : 0..MaxGeneration, item : 0..MaxGeneration,
                named : BOOLEAN, fresh : BOOLEAN]]]
  /\ inc \in 1..MaxIncarnation /\ changes \in 0..MaxChanges
  /\ unseen \subseteq Targets
  /\ stale \in [CampaignIds -> SUBSET Targets]
  /\ reported \in [CampaignIds -> [Targets -> Nat]]
  /\ lost \in [CampaignIds -> [Targets -> Nat]]

Group(t) == Catalog[t].group

Partners(t) == {u \in Targets \ {t} : Group(u) = Group(t) /\ Group(t) # NoGroup}

\* The stages of an executable plan part its targets among themselves; in a
\* rolling replacement no stage holds two members of one redundancy group and
\* every member has a partner in another stage; restarts take one target at a
\* time.
SoundStages(plan, strategy) ==
  LET st == plan.stages
      planned == PlannedTargets(plan)
  IN /\ planned # {}
     /\ \A j, k \in DOMAIN st : j # k => st[j].targets \cap st[k].targets = {}
     /\ strategy = "restart_based" =>
          \A k \in DOMAIN st : Cardinality(st[k].targets) = 1
     /\ strategy = "redundant_pair_rolling" =>
          /\ \A k \in DOMAIN st : \A t \in st[k].targets :
               Partners(t) \cap st[k].targets = {}
          /\ \A t \in planned : Partners(t) \cap planned # {}

\* Whatever inventory the engine has, complete or not, every request has sound
\* stages in it or is rejected; and a campaign past its preflight has a plan
\* that was not rejected.
StagesSound ==
  /\ \A r \in Requests :
       LET plan == BuildPlan(r, inventory, Policy)
       IN Executable(plan) => SoundStages(plan, r.strategy)
  /\ \A c \in CampaignIds :
       (Created(c) /\ camp[c].state \notin {"proposed", "blocked"})
         => Executable(camp[c].plan)

OutOfService == {"activating", "activated", "verifying", "failed", "abandoned"}

\* In a rolling replacement a member of a group is touched only while no other
\* member of the group is half way: under activation, not yet verified, failed
\* or abandoned by a restart.
OneOfAGroupAtATime ==
  \A c \in CampaignIds :
    (Created(c) /\ camp[c].request.strategy = "redundant_pair_rolling") =>
      \A t \in Planned(c) : att[c][t].st \in OutOfService =>
        \A u \in Partners(t) : att[c][u].st \notin OutOfService

\* The ledger holds at most one activation of a target by a campaign, through
\* restarts, new preflights and new generations, and one more for each attempt
\* record that was refused when it was read back.
ReportedOnce ==
  \A c \in CampaignIds, t \in Targets : reported[c][t] <= 1 + lost[c][t]

\* README.md: an activation that already took effect is reported exactly once.
\* It is not when the record of its attempt, made from a blank version, is
\* refused at a restart, and the target is prepared again while a target of
\* another stage is missing from the inventory.
AppliedOnce == \A c \in CampaignIds, t \in Targets : reported[c][t] <= 1

Waived(c, t) == PairAllowed(camp[c].request.budget, version[t], Newest(c))

\* A target that runs a newer version than the campaign's artifact is claimed
\* for activation only if it changed after the inventory of the campaign's last
\* skew assessment was taken (or its pair of versions is waived).
NoBlindDowngrade ==
  [][\A c \in CampaignIds, t \in Targets :
       (att[c][t].item = 0 /\ att'[c][t].item # 0 /\ Less(Newest(c), version[t]))
         => t \in stale'[c] \/ Waived(c, t)]_vars
=============================================================================
