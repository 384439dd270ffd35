------------------------ MODULE UpgradeEngineProofs ------------------------
(***************************************************************************)
(* What holds of UpgradeEngine for every set of targets, every plan and    *)
(* every bound: its types; the ledger agrees with the attempts, the        *)
(* rollback plan comes first, what was retired stays retired, a planned    *)
(* rollback is never left.                                                 *)
(***************************************************************************)
EXTENDS UpgradeEngine, SequenceTheorems, TLAPS

-----------------------------------------------------------------------------
(***************************************************************************)
(* Facts about the operators of the model.                                 *)
(***************************************************************************)

\* A transition that is tried ends in one of its two states.
LEMMA TryEnds ==
  ASSUME NEW from, NEW to, NEW guards
  PROVE  Try(from, to, guards) \in {from, to}
BY DEF Try

\* The campaign record stays in the lifecycle whatever is tried.
LEMMA TryType ==
  ASSUME NEW from \in UpgradeStates, NEW to \in UpgradeStates, NEW guards
  PROVE  Try(from, to, guards) \in UpgradeStates
BY DEF Try

\* Retiring what is in flight keeps the attempts well formed.
LEMMA RetiredType ==
  ASSUME att \in [Targets -> AttemptRecords], NEW st \in AttemptStates
  PROVE  Retired(st) \in [Targets -> AttemptRecords]
<1> SUFFICES ASSUME NEW t \in Targets
             PROVE  [att[t] EXCEPT !.st = st] \in AttemptRecords
  BY DEF Retired
<1> QED BY DEF AttemptRecords

\* plan_work_locked moves the campaign only within its lifecycle.
LEMMA PlannedStateType ==
  ASSUME TypeOK
  PROVE  PlannedState \in UpgradeStates
<1> DEFINE s1 == IF state = "prepared" /\ stage[active] = "prepared"
                   THEN Try(state, "staged", GuardsNow \cup {"staging_complete"})
                   ELSE state
           s2 == IF s1 \in {"staged", "activating"}
                      /\ activation_complete(att, active)
                   THEN Try(IF s1 = "staged"
                              THEN Try(s1, "activating", GuardsNow) ELSE s1,
                            "verifying", GuardsNow)
                   ELSE s1
<1>1. {"staged", "activating", "verifying", "blocked"} \subseteq UpgradeStates
  BY DEF UpgradeStates
<1>2. s1 \in UpgradeStates
  BY TryType, <1>1 DEF TypeOK
<1>3. s2 \in UpgradeStates
  <2> HIDE DEF s1
  <2> QED BY TryType, <1>1, <1>2
<1>4. PlannedState = IF s2 = "staged" /\ ~skew_within_budget(att)
                       THEN Try(s2, "blocked", {"failure_recorded"}) ELSE s2
  BY DEF PlannedState
<1> HIDE DEF s1, s2
<1> QED BY <1>1, <1>3, <1>4, TryType

-----------------------------------------------------------------------------
(***************************************************************************)
(* Type correctness, one lemma per group of actions.                       *)
(***************************************************************************)
\* The records create_campaign stores are well formed.
LEMMA InitType == Init => TypeOK
<1> SUFFICES ASSUME Init PROVE TypeOK
  OBVIOUS
<1>1. NoTicket \in Tickets /\ NoReport \in Reports
  BY ShapeAssumption DEF NoTicket, NoReport, Tickets, Reports
<1>2. NoAttempt \in AttemptRecords
  BY ShapeAssumption DEF NoAttempt, AttemptRecords, AttemptStates
<1>3. NoItem \in WorkItems
  BY ShapeAssumption DEF NoItem, WorkItems
<1>4. state \in UpgradeStates /\ gen \in 1 .. MaxGeneration /\ active \in Stages
      /\ inc \in 1 .. MaxIncarnation
  BY ShapeAssumption DEF Init, UpgradeStates, Stages
<1>5. ledger \in [Targets -> Seq({"applied", "verified", "rolled_back"})]
  BY DEF Init
<1>6. att \in [Targets -> AttemptRecords] /\ item \in [Targets -> WorkItems]
  BY <1>2, <1>3 DEF Init
<1>7. /\ stage \in [Stages -> {"pending", "prepared", "completed"}]
      /\ drains \in [Stages -> Targets \cup {None}]
  BY DEF Init
<1>8. /\ version \in [Targets -> {"old", "new"}]
      /\ inv \in [Targets -> InventoryAnswers \cup {"absent"}]
  BY DEF Init
<1>9. /\ planned \in BOOLEAN /\ up \in BOOLEAN
      /\ granted \in SUBSET Targets
      /\ resolved \in {"none", "mine", "corrupt", "other"}
      /\ change \in {"none", "asked", "refused", "admitted"}
      /\ ticket \in Tickets /\ pf \in Reports
  BY <1>1 DEF Init
<1> QED BY <1>4, <1>5, <1>6, <1>7, <1>8, <1>9 DEF TypeOK

\* Steps of the preflight handshake.
LEMMA PreflightType == TypeOK /\ Preflight => TypeOK'
<1> SUFFICES ASSUME TypeOK, Preflight PROVE TypeOK'
  OBVIOUS
<1>1. CASE PreflightBegin
  <2>1. pf' \in Reports
    BY <1>1 DEF PreflightBegin, TypeOK, Reports
  <2> QED BY <1>1, <2>1 DEF PreflightBegin, TypeOK, durableVars, campaignVars
<1>2. CASE PreflightInventory
  <2>1. PICK i \in Inventories :
          /\ inv' = i
          /\ pf' = [pf EXCEPT !.step = "artifact",
                              !.fit = /\ \E t \in Targets : i[t] # "absent"
                                      /\ \A t \in Targets :
                                           i[t] \in {"absent", "within"}]
    BY <1>2 DEF PreflightInventory
  <2>2. pf' \in Reports
    BY <2>1 DEF TypeOK, Reports
  <2>3. inv' \in [Targets -> InventoryAnswers \cup {"absent"}]
    BY <2>1 DEF Inventories
  <2> QED BY <1>2, <2>2, <2>3
          DEF PreflightInventory, TypeOK, durableVars, campaignVars
<1>3. CASE PreflightArtifact
  <2>1. pf' \in Reports
    BY <1>3 DEF PreflightArtifact, TypeOK, Reports
  <2>2. resolved' \in {"none", "mine", "corrupt", "other"}
    BY <1>3 DEF PreflightArtifact, TypeOK
  <2> QED BY <1>3, <2>1, <2>2
          DEF PreflightArtifact, TypeOK, durableVars, campaignVars
<1>4. CASE PreflightPass
  <2>1. state' \in UpgradeStates
    BY <1>4, TryType DEF PreflightPass, TypeOK, UpgradeStates
  <2>2. pf' \in Reports
    BY <1>4, ShapeAssumption DEF PreflightPass, NoReport, Reports
  <2>3. ticket' \in Tickets
    BY <1>4, ShapeAssumption DEF PreflightPass, TypeOK, Tickets, Reports
  <2> QED BY <1>4, <2>1, <2>2, <2>3 DEF PreflightPass, TypeOK
<1>5. CASE PreflightFail
  <2>1. state' \in UpgradeStates
    BY <1>5, TryType DEF PreflightFail, TypeOK, UpgradeStates
  <2>2. pf' \in Reports /\ ticket' \in Tickets
    BY <1>5, ShapeAssumption
       DEF PreflightFail, NoReport, Reports, NoTicket, Tickets
  <2> QED BY <1>5, <2>1, <2>2 DEF PreflightFail, TypeOK
<1>6. CASE PreflightUnresolved
  <2>1. pf' \in Reports
    BY <1>6, ShapeAssumption DEF PreflightUnresolved, NoReport, Reports
  <2> QED BY <1>6, <2>1 DEF PreflightUnresolved, TypeOK, durableVars, campaignVars
<1> QED BY <1>1, <1>2, <1>3, <1>4, <1>5, <1>6 DEF Preflight

\* Operator commands.
LEMMA OperatorType == TypeOK /\ Operator => TypeOK'
<1> SUFFICES ASSUME TypeOK, Operator PROVE TypeOK'
  OBVIOUS
<1>0. {"validated", "prepared", "paused", "blocked", "failed",
       "rollback_planned", "rolling_back"} \subseteq UpgradeStates
  BY DEF UpgradeStates
<1>1. ASSUME NEW dry_run \in BOOLEAN, Start(dry_run) PROVE TypeOK'
  <2> DEFINE guards == GuardsNow \cup {"rollback_plan_recorded"}
             s1 == IF state \in {"paused", "blocked"}
                     THEN Try(state, "validated", guards) ELSE state
  <2>1. s1 \in UpgradeStates
    BY <1>0, TryType DEF TypeOK
  <2>2. state' = IF s1 = "validated" THEN Try(s1, "prepared", guards) ELSE s1
    BY <1>1 DEF Start
  <2>3. state' \in UpgradeStates
    <3> HIDE DEF s1, guards
    <3> QED BY <2>1, <2>2, <1>0, TryType
  <2>4. gen' \in 1 .. MaxGeneration
    BY <1>1, ShapeAssumption DEF Start, TypeOK
  <2>5. ticket' \in Tickets
    <3>1. ticket' = [ticket EXCEPT !.gen = gen + 1]
      BY <1>1 DEF Start
    <3>2. gen + 1 \in 0 .. MaxGeneration
      BY <1>1, ShapeAssumption DEF Start, TypeOK
    <3> QED BY <3>1, <3>2 DEF TypeOK, Tickets
  <2>6. change' \in {"none", "asked", "refused", "admitted"}
    BY <1>1 DEF Start, TypeOK
  <2>7. planned' \in BOOLEAN
    BY <1>1 DEF Start
  <2>8. UNCHANGED <<active, stage, att, ledger, version, granted, up, inc, inv,
                    resolved, drains, pf, item>>
    BY <1>1 DEF Start
  <2> QED BY <2>3, <2>4, <2>5, <2>6, <2>7, <2>8 DEF TypeOK
<1>2. CASE Pause
  <2>1. att' \in [Targets -> AttemptRecords]
    BY <1>2, RetiredType DEF Pause, AttemptStates, TypeOK
  <2> QED BY <1>0, <1>2, <2>1 DEF Pause, TypeOK, memoryVars
<1>3. CASE Resume
  <2> DEFINE s1 == IF state \in {"paused", "blocked"}
                     THEN Try(state, "validated", GuardsNow) ELSE state
  <2>1. s1 \in UpgradeStates
    BY <1>0, TryType DEF TypeOK
  <2>2. state' = Try(s1, "prepared", GuardsNow)
    BY <1>3 DEF Resume
  <2>3. state' \in UpgradeStates
    <3> HIDE DEF s1
    <3> QED BY <2>1, <2>2, <1>0, TryType
  <2> QED BY <1>3, <2>3 DEF Resume, TypeOK, memoryVars
<1>4. CASE Abort
  <2>1. att' \in [Targets -> AttemptRecords]
    BY <1>4, RetiredType DEF Abort, AttemptStates, TypeOK
  <2>2. state' \in UpgradeStates
    BY <1>0, <1>4, TryType DEF Abort, TypeOK
  <2> QED BY <1>4, <2>1, <2>2 DEF Abort, TypeOK, memoryVars
<1>5. ASSUME NEW execute \in BOOLEAN, Rollback(execute) PROVE TypeOK'
  <2> DEFINE s1 == Try("failed", "rollback_planned", {"rollback_eligible"})
  <2>1. s1 \in UpgradeStates
    BY <1>0, TryType
  <2>2. state' = IF execute THEN Try(s1, "rolling_back", {"rollback_eligible"})
                 ELSE s1
    BY <1>5 DEF Rollback
  <2>3. state' \in UpgradeStates
    <3> HIDE DEF s1
    <3> QED BY <2>1, <2>2, <1>0, TryType
  <2> QED BY <1>5, <2>3 DEF Rollback, TypeOK, memoryVars
<1> QED BY <1>1, <1>2, <1>3, <1>4, <1>5 DEF Operator

-----------------------------------------------------------------------------
\* What a work item starts as, and what a claim writes.
LEMMA NewItemType ==
  ASSUME TypeOK, NEW kind \in {"prepare", "activate", "verify", "rollback"}
  PROVE  NewItem(kind) \in WorkItems
BY ShapeAssumption DEF NewItem, WorkItems, TypeOK

\* The placeholder of a target without work is well formed.
LEMMA NoItemType == NoItem \in WorkItems
BY ShapeAssumption DEF NoItem, WorkItems

\* A claim changes the state and the owner of an attempt and nothing else.
LEMMA OwnedType ==
  ASSUME TypeOK, NEW t \in Targets, NEW st \in AttemptStates
  PROVE  Owned(att[t], st) \in AttemptRecords
<1>1. inc \in 0 .. MaxIncarnation
  BY ShapeAssumption DEF TypeOK
<1>2. att[t] \in AttemptRecords
  BY DEF TypeOK
<1> QED BY <1>1, <1>2 DEF Owned, AttemptRecords

\* The attempt a staging pass creates is well formed.
LEMMA FreshAttemptType == TypeOK => FreshAttempt \in AttemptRecords
BY ShapeAssumption DEF FreshAttempt, AttemptRecords, AttemptStates, TypeOK

\* Releasing finished drains only clears tickets.
LEMMA ReleaseType ==
  ASSUME TypeOK, NEW idle \in BOOLEAN, ReleaseIf(idle)
  PROVE  /\ drains' \in [Stages -> Targets \cup {None}]
         /\ granted' \in SUBSET Targets
BY DEF ReleaseIf, TypeOK

\* Passes of the driver.
LEMMA DriverType == TypeOK /\ Driver => TypeOK'
<1> SUFFICES ASSUME TypeOK, Driver PROVE TypeOK'
  OBVIOUS
<1>0. {"activating", "verifying", "rolling_back"} \subseteq AttemptStates
  BY DEF AttemptStates
<1>1. CASE PlanForward
  <2> DEFINE s == PlannedState
             idle(c) == ToCreate(s) \cup ToRepeat(s) \cup c \cup ToVerify(s) = {}
  <2>1. PICK c \in SUBSET Claimable(s) :
          /\ state' = s
          /\ att' = [t \in Targets |->
                       IF t \in ToCreate(s) THEN FreshAttempt
                       ELSE IF t \in c THEN Owned(att[t], "activating")
                       ELSE IF t \in ToVerify(s) THEN Owned(att[t], "verifying")
                       ELSE att[t]]
          /\ item' = [t \in Targets |->
                        IF t \in ToCreate(s) \cup ToRepeat(s)
                          THEN NewItem("prepare")
                        ELSE IF t \in c THEN NewItem("activate")
                        ELSE IF t \in ToVerify(s) THEN NewItem("verify")
                        ELSE NoItem]
          /\ ReleaseIf(idle(c))
    BY <1>1 DEF PlanForward
  <2>2. state' \in UpgradeStates
    BY <2>1, PlannedStateType
  <2> HIDE DEF s
  <2>3. att' \in [Targets -> AttemptRecords]
    BY <1>0, <2>1, FreshAttemptType, OwnedType DEF TypeOK
  <2>4. item' \in [Targets -> WorkItems]
    BY <2>1, NewItemType, NoItemType
  <2>5. idle(c) \in BOOLEAN
    OBVIOUS
  <2>6. drains' \in [Stages -> Targets \cup {None}] /\ granted' \in SUBSET Targets
    <3> HIDE DEF idle
    <3> QED BY <2>1, <2>5, ReleaseType
  <2> QED BY <1>1, <2>2, <2>3, <2>4, <2>6 DEF PlanForward, TypeOK
<1>2. CASE PlanRollback
  <2>1. att' \in [Targets -> AttemptRecords]
    BY <1>0, <1>2, OwnedType DEF PlanRollback, TypeOK
  <2>2. item' \in [Targets -> WorkItems]
    BY <1>2, NewItemType, NoItemType DEF PlanRollback
  <2>3. drains' \in [Stages -> Targets \cup {None}] /\ granted' \in SUBSET Targets
    BY <1>2, ReleaseType DEF PlanRollback
  <2> QED BY <1>2, <2>1, <2>2, <2>3 DEF PlanRollback, TypeOK, campaignVars
<1>3. CASE PlanIdle
  <2>1. drains' \in [Stages -> Targets \cup {None}] /\ granted' \in SUBSET Targets
    BY <1>3, ReleaseType DEF PlanIdle
  <2> QED BY <1>3, <2>1 DEF PlanIdle, TypeOK, durableVars, campaignVars
<1> QED BY <1>1, <1>2, <1>3 DEF Driver

-----------------------------------------------------------------------------
\* Moving an item to its next step keeps it well formed.
LEMMA StepType ==
  ASSUME TypeOK, NEW t \in Targets,
         NEW st \in {"drain", "acquire", "gate", "call", "observe", "ok", "fail",
                     "refused"},
         Step(t, st)
  PROVE  item' \in [Targets -> WorkItems]
<1>1. item[t] \in WorkItems
  BY DEF TypeOK
<1>2. [item[t] EXCEPT !.step = st] \in WorkItems
  BY <1>1 DEF WorkItems
<1> QED BY <1>2 DEF Step, TypeOK

\* Calls made outside the mutex.
LEMMA ExecuteType ==
  ASSUME TypeOK, NEW t \in Targets, Execute(t)
  PROVE  TypeOK'
<1> USE DEF durableVars, campaignVars, memoryVars
<1>1. CASE DrainLookup(t)
  <2>1. item' \in [Targets -> WorkItems]
    BY <1>1, StepType DEF DrainLookup
  <2> QED BY <1>1, <2>1 DEF DrainLookup, TypeOK
<1>2. CASE DrainAcquire(t)
  <2>1. item' \in [Targets -> WorkItems]
    BY <1>2, StepType DEF DrainAcquire
  <2>2. drains' \in [Stages -> Targets \cup {None}] /\ granted' \in SUBSET Targets
    BY <1>2 DEF DrainAcquire, TypeOK
  <2> QED BY <1>2, <2>1, <2>2 DEF DrainAcquire, TypeOK
<1>3. CASE HealthGate(t)
  <2>1. item' \in [Targets -> WorkItems]
    BY <1>3, StepType DEF HealthGate
  <2> QED BY <1>3, <2>1 DEF HealthGate, TypeOK
<1>4. CASE AdapterPrepare(t)
  <2>1. item' \in [Targets -> WorkItems]
    BY <1>4, StepType DEF AdapterPrepare
  <2> QED BY <1>4, <2>1 DEF AdapterPrepare, TypeOK
<1>5. CASE AdapterActivate(t)
  <2>1. version' \in [Targets -> {"old", "new"}]
    BY <1>5 DEF AdapterActivate, TypeOK
  <2>2. item[t] \in WorkItems
    BY DEF TypeOK
  <2>3. ASSUME item[t].tries < MaxRetries
        PROVE  item[t].tries + 1 \in 0 .. MaxRetries
    BY <2>2, <2>3, ShapeAssumption DEF WorkItems
  <2>4. Unacknowledged(item[t]) \in WorkItems
    BY <2>2, <2>3 DEF Unacknowledged, WorkItems
  <2>5. item' \in [Targets -> WorkItems]
    <3>1. CASE Step(t, "ok") \/ Step(t, "fail")
      BY <3>1, StepType
    <3>2. CASE item' = [item EXCEPT ![t] = Unacknowledged(item[t])]
      BY <3>2, <2>4 DEF TypeOK
    <3> QED BY <1>5, <3>1, <3>2 DEF AdapterActivate
  <2> QED BY <1>5, <2>1, <2>5 DEF AdapterActivate, TypeOK
<1>6. CASE AdapterObserve(t)
  <2>1. item' \in [Targets -> WorkItems]
    BY <1>6, StepType DEF AdapterObserve
  <2> QED BY <1>6, <2>1 DEF AdapterObserve, TypeOK
<1>7. CASE AdapterVerify(t)
  <2>1. item' \in [Targets -> WorkItems]
    BY <1>7, StepType DEF AdapterVerify
  <2> QED BY <1>7, <2>1 DEF AdapterVerify, TypeOK
<1>8. CASE AdapterRollback(t)
  <2>1. item' \in [Targets -> WorkItems]
    BY <1>8, StepType DEF AdapterRollback
  <2>2. version' \in [Targets -> {"old", "new"}]
    BY <1>8 DEF AdapterRollback, TypeOK
  <2> QED BY <1>8, <2>1, <2>2 DEF AdapterRollback, TypeOK
<1> QED BY <1>1, <1>2, <1>3, <1>4, <1>5, <1>6, <1>7, <1>8 DEF Execute

\* What every commit past the fence does: its item leaves, and it writes the
\* attempts it names.
LEMMA CommitsType ==
  ASSUME TypeOK, NEW t \in Targets, NEW kind, NEW verdict, NEW a,
         a \in [Targets -> AttemptRecords], Commits(t, kind, verdict, a)
  PROVE  att' \in [Targets -> AttemptRecords] /\ item' \in [Targets -> WorkItems]
BY NoItemType DEF Commits, TypeOK

\* Writing one attempt's state keeps all attempts well formed.
LEMMA BecomesType ==
  ASSUME TypeOK, NEW t \in Targets, NEW st \in AttemptStates
  PROVE  Becomes(t, st) \in [Targets -> AttemptRecords]
<1>1. att[t] \in AttemptRecords
  BY DEF TypeOK
<1>2. [att[t] EXCEPT !.st = st] \in AttemptRecords
  BY <1>1 DEF AttemptRecords
<1> QED BY <1>2 DEF Becomes, TypeOK

\* The ledger only ever gets one of its three outcomes.
LEMMA AppendType ==
  ASSUME TypeOK, NEW t \in Targets,
         NEW o \in {"applied", "verified", "rolled_back"},
         ledger' = [ledger EXCEPT ![t] = Append(@, o)]
  PROVE  ledger' \in [Targets -> Seq({"applied", "verified", "rolled_back"})]
BY DEF TypeOK

\* Commits.
LEMMA CommitType ==
  ASSUME TypeOK, NEW t \in Targets, CommitItem(t)
  PROVE  TypeOK'
<1> USE DEF durableVars, campaignVars, memoryVars
<1>a. {"prepared", "activated", "verified", "failed", "rolled_back"}
        \subseteq AttemptStates
  BY DEF AttemptStates
<1>b. {"staged", "activating", "verifying", "completed", "blocked", "failed",
       "rolled_back"} \subseteq UpgradeStates
  BY DEF UpgradeStates
<1>c. state \in UpgradeStates
  BY DEF TypeOK
<1>1. CASE CommitFenced(t)
  <2>1. item' \in [Targets -> WorkItems]
    BY <1>1, NoItemType DEF CommitFenced, TypeOK
  <2> QED BY <1>1, <2>1 DEF CommitFenced, TypeOK
<1>2. CASE CommitPrepared(t)
  <2>1. att' \in [Targets -> AttemptRecords] /\ item' \in [Targets -> WorkItems]
    BY <1>2, <1>a, BecomesType, CommitsType DEF CommitPrepared
  <2>2. state' \in UpgradeStates
    BY <1>2, <1>b, <1>c, TryType DEF CommitPrepared
  <2>3. stage' \in [Stages -> {"pending", "prepared", "completed"}]
    BY <1>2 DEF CommitPrepared, TypeOK
  <2> QED BY <1>2, <2>1, <2>2, <2>3 DEF CommitPrepared, TypeOK
<1>3. CASE CommitFailed(t)
  <2>1. att' \in [Targets -> AttemptRecords] /\ item' \in [Targets -> WorkItems]
    BY <1>3, <1>a, BecomesType, CommitsType DEF CommitFailed
  <2>2. state' \in UpgradeStates
    BY <1>3, <1>b, <1>c, TryType DEF CommitFailed
  <2> QED BY <1>3, <2>1, <2>2 DEF CommitFailed, TypeOK
<1>4. CASE CommitRefused(t)
  <2>1. att' \in [Targets -> AttemptRecords] /\ item' \in [Targets -> WorkItems]
    BY <1>4, <1>a, BecomesType, CommitsType DEF CommitRefused
  <2>2. state' \in UpgradeStates
    BY <1>4, <1>b, <1>c, TryType DEF CommitRefused
  <2> QED BY <1>4, <2>1, <2>2 DEF CommitRefused, TypeOK
<1>5. CASE CommitActivated(t)
  <2> DEFINE a  == [att EXCEPT ![t].st = "activated", ![t].obs = TRUE]
             g  == Guards(a, active, stage)
             s1 == IF state = "staged" THEN Try(state, "activating", g) ELSE state
  <2>1. a \in [Targets -> AttemptRecords]
    <3>1. att[t] \in AttemptRecords
      BY DEF TypeOK
    <3>2. [att[t] EXCEPT !.st = "activated", !.obs = TRUE] \in AttemptRecords
      BY <1>a, <3>1 DEF AttemptRecords
    <3> QED BY <3>2 DEF TypeOK
  <2>2. att' \in [Targets -> AttemptRecords] /\ item' \in [Targets -> WorkItems]
    <3>1. Commits(t, "activate", "ok", a)
      BY <1>5 DEF CommitActivated
    <3> HIDE DEF a
    <3> QED BY <2>1, <3>1, CommitsType
  <2>3. state' = IF ~skew_within_budget(a)
                    THEN Try(s1, "blocked", {"failure_recorded"})
                  ELSE IF activation_complete(a, active)
                    THEN Try(s1, "verifying", g) ELSE s1
    BY <1>5 DEF CommitActivated
  <2>4. s1 \in UpgradeStates
    <3> HIDE DEF g
    <3> QED BY <1>b, <1>c, TryType
  <2>5. state' \in UpgradeStates
    <3> HIDE DEF a, g, s1
    <3> QED BY <2>3, <2>4, <1>b, TryType
  <2>6. ledger' \in [Targets -> Seq({"applied", "verified", "rolled_back"})]
    BY <1>5, AppendType DEF CommitActivated
  <2> QED BY <1>5, <2>2, <2>5, <2>6 DEF CommitActivated, TypeOK
<1>6. CASE CommitVerified(t)
  <2> DEFINE a    == [att EXCEPT ![t].st = "verified", ![t].fresh = TRUE]
             done == \A u \in TargetsOf(StageOf[t]) : a[u].st = "verified"
             last == active = NumStages
             k    == IF done /\ ~last THEN active + 1 ELSE active
             sg   == IF ~done THEN stage
                     ELSE IF last THEN [stage EXCEPT ![active] = "completed"]
                     ELSE [stage EXCEPT ![active] = "completed",
                                        ![active + 1] = "pending"]
  <2>1. a \in [Targets -> AttemptRecords]
    <3>1. att[t] \in AttemptRecords
      BY DEF TypeOK
    <3>2. [att[t] EXCEPT !.st = "verified", !.fresh = TRUE] \in AttemptRecords
      BY <1>a, <3>1 DEF AttemptRecords
    <3> QED BY <3>2 DEF TypeOK
  <2>2. /\ Commits(t, "verify", "ok", a)
        /\ ledger' = [ledger EXCEPT ![t] = Append(@, "verified")]
        /\ stage' = sg
        /\ active' = k
        /\ state' = IF ~done THEN state
                    ELSE Try(state, IF last THEN "completed" ELSE "staged",
                             Guards(a, k, sg))
        /\ UNCHANGED <<gen, planned, ticket, version, granted, up, inc, memoryVars>>
    BY <1>6 DEF CommitVerified
  <2> HIDE DEF a
  <2>3. att' \in [Targets -> AttemptRecords] /\ item' \in [Targets -> WorkItems]
    BY <2>1, <2>2, CommitsType
  <2> HIDE DEF done
  <2>4. k \in Stages
    BY ShapeAssumption DEF TypeOK, Stages
  <2>5. sg \in [Stages -> {"pending", "prepared", "completed"}]
    BY DEF TypeOK
  <2>6. state' \in UpgradeStates
    <3> HIDE DEF k, sg, last
    <3> QED BY <2>2, <1>b, <1>c, TryType
  <2>7. ledger' \in [Targets -> Seq({"applied", "verified", "rolled_back"})]
    BY <2>2, AppendType
  <2> HIDE DEF k, sg, last
  <2> QED BY <2>2, <2>3, <2>4, <2>5, <2>6, <2>7 DEF TypeOK
<1>7. CASE CommitVerifyRetry(t)
  <2>1. att[t] \in AttemptRecords /\ att[t].retries < MaxRetries
    BY <1>7 DEF CommitVerifyRetry, TypeOK
  <2>2. att[t].retries + 1 \in 0 .. MaxRetries
    BY <2>1, ShapeAssumption DEF AttemptRecords
  <2>3. [att[t] EXCEPT !.st = "activated", !.retries = @ + 1] \in AttemptRecords
    BY <1>a, <2>1, <2>2 DEF AttemptRecords
  <2> DEFINE a == [att EXCEPT ![t].st = "activated", ![t].retries = @ + 1]
  <2>4. a \in [Targets -> AttemptRecords]
    BY <2>3 DEF TypeOK
  <2>5. Commits(t, "verify", "fail", a)
    BY <1>7 DEF CommitVerifyRetry
  <2>6. att' \in [Targets -> AttemptRecords] /\ item' \in [Targets -> WorkItems]
    <3> HIDE DEF a
    <3> QED BY <2>4, <2>5, CommitsType
  <2> QED BY <1>7, <2>6 DEF CommitVerifyRetry, TypeOK
<1>8. CASE CommitVerifyFailed(t)
  <2>1. att' \in [Targets -> AttemptRecords] /\ item' \in [Targets -> WorkItems]
    BY <1>8, <1>a, BecomesType, CommitsType DEF CommitVerifyFailed
  <2>2. state' \in UpgradeStates
    BY <1>8, <1>b, <1>c, TryType DEF CommitVerifyFailed
  <2> QED BY <1>8, <2>1, <2>2 DEF CommitVerifyFailed, TypeOK
<1>9. CASE CommitRolledBack(t)
  <2>1. att' \in [Targets -> AttemptRecords] /\ item' \in [Targets -> WorkItems]
    BY <1>9, <1>a, BecomesType, CommitsType DEF CommitRolledBack
  <2>2. state' \in UpgradeStates
    BY <1>9, <1>b, <1>c, TryType DEF CommitRolledBack
  <2>3. ledger' \in [Targets -> Seq({"applied", "verified", "rolled_back"})]
    BY <1>9, AppendType DEF CommitRolledBack
  <2> QED BY <1>9, <2>1, <2>2, <2>3 DEF CommitRolledBack, TypeOK
<1>10. CASE CommitRollbackFailed(t)
  <2>1. att' \in [Targets -> AttemptRecords] /\ item' \in [Targets -> WorkItems]
    BY <1>10, <1>a, BecomesType, CommitsType DEF CommitRollbackFailed
  <2>2. state' \in UpgradeStates
    BY <1>10, <1>b, <1>c, TryType DEF CommitRollbackFailed
  <2> QED BY <1>10, <2>1, <2>2 DEF CommitRollbackFailed, TypeOK
<1> QED BY <1>1, <1>2, <1>3, <1>4, <1>5, <1>6, <1>7, <1>8, <1>9, <1>10
        DEF CommitItem

\* Time, other campaigns and the process.
LEMMA EnvironmentType == TypeOK /\ Environment => TypeOK'
<1> SUFFICES ASSUME TypeOK, Environment PROVE TypeOK'
  OBVIOUS
<1> USE DEF durableVars, campaignVars, memoryVars
<1>1. ASSUME NEW admitted \in BOOLEAN, RolloutAnswer(admitted) PROVE TypeOK'
  BY <1>1 DEF RolloutAnswer, TypeOK
<1>2. CASE TicketExpires
  <2>1. ticket' \in Tickets
    BY <1>2 DEF TicketExpires, TypeOK, Tickets
  <2> QED BY <1>2, <2>1 DEF TicketExpires, TypeOK
<1>3. ASSUME NEW t \in Targets, EvidenceExpires(t) PROVE TypeOK'
  <2>0. att[t] \in AttemptRecords
    BY DEF TypeOK
  <2>1. [att[t] EXCEPT !.fresh = FALSE] \in AttemptRecords
    BY <2>0 DEF AttemptRecords
  <2>2. att' \in [Targets -> AttemptRecords]
    BY <1>3, <2>1 DEF EvidenceExpires, TypeOK
  <2> QED BY <1>3, <2>2 DEF EvidenceExpires, TypeOK
<1>4. CASE ForeignInventory
  <2>1. inv' \in [Targets -> InventoryAnswers \cup {"absent"}]
    BY <1>4 DEF ForeignInventory, Inventories
  <2> QED BY <1>4, <2>1 DEF ForeignInventory, TypeOK
<1>5. CASE ForeignArtifact
  BY <1>5 DEF ForeignArtifact, TypeOK
<1>6. CASE Crash
  <2>1. pf' \in Reports
    BY <1>6, ShapeAssumption DEF Crash, NoReport, Reports
  <2>2. item' \in [Targets -> WorkItems]
    BY <1>6, NoItemType DEF Crash
  <2>3. /\ inv' \in [Targets -> InventoryAnswers \cup {"absent"}]
        /\ drains' \in [Stages -> Targets \cup {None}]
    BY <1>6 DEF Crash
  <2> QED BY <1>6, <2>1, <2>2, <2>3 DEF Crash, TypeOK
<1>7. CASE Open
  <2>1. att' \in [Targets -> AttemptRecords]
    BY <1>7, RetiredType DEF Open, AttemptStates, TypeOK
  <2>2. NoTicket \in Tickets
    BY ShapeAssumption DEF NoTicket, Tickets
  <2>3. ticket' \in Tickets /\ up' \in BOOLEAN
    BY <1>7, <2>2 DEF Open, TypeOK
  <2>4. inc' \in 1 .. MaxIncarnation
    BY <1>7, ShapeAssumption DEF Open, TypeOK
  <2>5. state' \in UpgradeStates
    BY <1>7, TryType DEF Open, TypeOK, UpgradeStates
  <2> QED BY <1>7, <2>1, <2>3, <2>4, <2>5 DEF Open, TypeOK
<1> QED BY <1>1, <1>2, <1>3, <1>4, <1>5, <1>6, <1>7 DEF Environment

\* Every reachable state of the engine is well typed: no counter leaves its
\* bound, no record a state that the lifecycle does not have.
THEOREM TypeCorrect == Spec => []TypeOK
<1>1. TypeOK /\ [Next]_vars => TypeOK'
  <2> SUFFICES ASSUME TypeOK, [Next]_vars PROVE TypeOK'
    OBVIOUS
  <2>1. CASE Next
    BY <2>1, PreflightType, OperatorType, DriverType, EnvironmentType,
       ExecuteType, CommitType DEF Next
  <2>2. CASE UNCHANGED vars
    BY <2>2 DEF vars, TypeOK
  <2> QED BY <2>1, <2>2
<1> QED BY <1>1, InitType, PTL DEF Spec


-----------------------------------------------------------------------------
(***************************************************************************)
(* The ledger.  LedgerTruth is not inductive: it does not say what the     *)
(* ledger holds while an attempt is in flight.  Story does, for every      *)
(* state of the attempt.                                                   *)
(***************************************************************************)
A   == <<"applied">>
AV  == <<"applied", "verified">>
AR  == <<"applied", "rolled_back">>
AVR == <<"applied", "verified", "rolled_back">>

Story(r, l) ==
  /\ r.obs = (l # <<>>)
  /\ \/ r.st \in {"none", "preparing", "prepared", "activating"} /\ l = <<>>
     \/ r.st \in {"activated", "verifying"} /\ l = A
     \/ r.st = "verified" /\ l = AV
     \/ r.st = "rolling_back" /\ l \in {A, AV}
     \/ r.st \in {"failed", "abandoned", "aborted"} /\ l \in {<<>>, A, AV}
     \/ r.st = "rolled_back" /\ l \in {AR, AVR}

LedgerInv == \A t \in Targets : Story(att[t], ledger[t])

\* A sequence that extends s by e is Append(s, e).
LEMMA AppendIs ==
  ASSUME NEW S, NEW s \in Seq(S), NEW e \in S, NEW w \in Seq(S),
         Len(w) = Len(s) + 1,
         \A i \in 1 .. Len(s) : w[i] = s[i],
         w[Len(s) + 1] = e
  PROVE  Append(s, e) = w
<1>1. /\ Append(s, e) \in Seq(S)
      /\ Len(Append(s, e)) = Len(s) + 1
      /\ \A i \in 1 .. Len(s) : Append(s, e)[i] = s[i]
      /\ Append(s, e)[Len(s) + 1] = e
  BY AppendProperties
<1>2. Len(s) \in Nat
  BY LenProperties
<1>3. \A i \in 1 .. Len(w) : Append(s, e)[i] = w[i]
  BY <1>1, <1>2
<1> QED BY <1>1, <1>3, SeqEqual

\* What appending an outcome to each story gives.
LEMMA Words ==
  /\ Append(<<>>, "applied") = A
  /\ Append(A, "verified") = AV
  /\ Append(A, "rolled_back") = AR
  /\ Append(AV, "rolled_back") = AVR
  /\ A # <<>> /\ AV # <<>> /\ AR # <<>> /\ AVR # <<>>
<1>1. Append(<<>>, "applied") = A
  BY DEF A
<1> DEFINE O == {"applied", "verified", "rolled_back"}
<1>0. {A, AV, AR, AVR} \subseteq Seq(O)
  BY DEF A, AV, AR, AVR
<1>o. "verified" \in O /\ "rolled_back" \in O
  OBVIOUS
<1> HIDE DEF O
<1>l. Len(A) = 1 /\ Len(AV) = 2 /\ Len(AR) = 2 /\ Len(AVR) = 3
  BY DEF A, AV, AR, AVR
<1>2. Append(A, "verified") = AV
  <2>1. AV[1] = A[1] /\ AV[2] = "verified"
    BY DEF A, AV
  <2>2. /\ \A i \in 1 .. Len(A) : AV[i] = A[i]
        /\ Len(AV) = Len(A) + 1
        /\ AV[Len(A) + 1] = "verified"
    BY <1>l, <2>1
  <2>3. A \in Seq(O) /\ AV \in Seq(O)
    BY <1>0
  <2> QED BY <1>o, <2>2, <2>3, AppendIs
<1>3. Append(A, "rolled_back") = AR
  <2>1. AR[1] = A[1] /\ AR[2] = "rolled_back"
    BY DEF A, AR
  <2>2. /\ \A i \in 1 .. Len(A) : AR[i] = A[i]
        /\ Len(AR) = Len(A) + 1
        /\ AR[Len(A) + 1] = "rolled_back"
    BY <1>l, <2>1
  <2>3. A \in Seq(O) /\ AR \in Seq(O)
    BY <1>0
  <2> QED BY <1>o, <2>2, <2>3, AppendIs
<1>4. Append(AV, "rolled_back") = AVR
  <2>1. AVR[1] = AV[1] /\ AVR[2] = AV[2] /\ AVR[3] = "rolled_back"
    BY DEF AV, AVR
  <2>2. /\ \A i \in 1 .. Len(AV) : AVR[i] = AV[i]
        /\ Len(AVR) = Len(AV) + 1
        /\ AVR[Len(AV) + 1] = "rolled_back"
    BY <1>l, <2>1
  <2>3. AV \in Seq(O) /\ AVR \in Seq(O)
    BY <1>0
  <2> QED BY <1>o, <2>2, <2>3, AppendIs
<1>5. A # <<>> /\ AV # <<>> /\ AR # <<>> /\ AVR # <<>>
  BY DEF A, AV, AR, AVR
<1> QED BY <1>1, <1>2, <1>3, <1>4, <1>5

\* The stories tell LedgerTruth.
LEMMA StoryTruth == LedgerInv => LedgerTruth
<1> SUFFICES ASSUME LedgerInv, NEW t \in Targets
             PROVE  /\ ledger[t] \in {<<>>, A, AV, AR, AVR}
                    /\ att[t].obs <=> ledger[t] # <<>>
                    /\ att[t].st = "rolled_back" <=> Recorded(t, "rolled_back")
                    /\ att[t].st = "verified" => Recorded(t, "verified")
  BY DEF LedgerTruth, A, AV, AR, AVR
<1>1. Story(att[t], ledger[t])
  BY DEF LedgerInv
<1>2. ledger[t] \in {<<>>, A, AV, AR, AVR} /\ (att[t].obs <=> ledger[t] # <<>>)
  BY <1>1 DEF Story
<1>3. ledger[t] \in {AR, AVR} <=> Recorded(t, "rolled_back")
  BY <1>2 DEF Recorded, A, AV, AR, AVR
<1>4. ledger[t] = AV => Recorded(t, "verified")
  BY DEF Recorded, AV
<1>5. {AR, AVR} \cap {<<>>, A, AV} = {}
  BY DEF A, AV, AR, AVR
<1> QED BY <1>1, <1>2, <1>3, <1>4, <1>5 DEF Story

\* A write to one field of an attempt is read back, the others stay.
LEMMA AttemptFields ==
  ASSUME NEW r \in AttemptRecords, NEW st
  PROVE  /\ [r EXCEPT !.st = st].st = st
         /\ [r EXCEPT !.st = st].obs = r.obs
         /\ Owned(r, st).st = st
         /\ Owned(r, st).obs = r.obs
BY DEF AttemptRecords, Owned

\* An attempt that is not in flight keeps its story, one that is in flight
\* keeps what it recorded when it is retired.
LEMMA RetiredStory ==
  ASSUME TypeOK, LedgerInv, NEW st \in {"abandoned", "aborted"},
         att' = Retired(st), ledger' = ledger
  PROVE  LedgerInv'
<1> SUFFICES ASSUME NEW t \in Targets PROVE Story(att'[t], ledger[t])
  BY DEF LedgerInv
<1>1. Story(att[t], ledger[t]) /\ att[t] \in AttemptRecords
  BY DEF LedgerInv, TypeOK
<1>2. CASE InFlight(att[t].st)
  <2>1. att'[t] = [att[t] EXCEPT !.st = st]
    BY <1>2 DEF Retired
  <2> QED BY <1>1, <1>2, <2>1, AttemptFields DEF Story, InFlight
<1>3. CASE ~InFlight(att[t].st)
  BY <1>1, <1>3 DEF Retired
<1> QED BY <1>2, <1>3

\* A commit writes the story of its own target; ExpectedState says where the
\* attempt stood when it passed the fence.
LEMMA CommitsStory ==
  ASSUME TypeOK, LedgerInv, NEW t \in Targets, NEW r, NEW l,
         att' = [att EXCEPT ![t] = r], ledger' = [ledger EXCEPT ![t] = l],
         Story(r, l)
  PROVE  LedgerInv'
BY DEF LedgerInv, TypeOK

\* Passes of the driver.
LEMMA DriverLedger == TypeOK /\ LedgerInv /\ Driver => LedgerInv'
<1> SUFFICES ASSUME TypeOK, LedgerInv, Driver PROVE LedgerInv'
  OBVIOUS
<1>1. CASE PlanForward
  <2> DEFINE s == PlannedState
  <2>1. PICK c \in SUBSET Claimable(s) :
          att' = [t \in Targets |->
                    IF t \in ToCreate(s) THEN FreshAttempt
                    ELSE IF t \in c THEN Owned(att[t], "activating")
                    ELSE IF t \in ToVerify(s) THEN Owned(att[t], "verifying")
                    ELSE att[t]]
    BY <1>1 DEF PlanForward
  <2>2. ledger' = ledger
    BY <1>1 DEF PlanForward
  <2> HIDE DEF s
  <2> SUFFICES ASSUME NEW t \in Targets PROVE Story(att'[t], ledger[t])
    BY <2>2 DEF LedgerInv
  <2>3. Story(att[t], ledger[t]) /\ att[t] \in AttemptRecords
    BY DEF LedgerInv, TypeOK
  <2>4. CASE t \in ToCreate(s)
    <3>1. att[t].st = "none" /\ att'[t] = FreshAttempt
      BY <2>1, <2>4 DEF ToCreate
    <3>2. FreshAttempt.st = "preparing" /\ FreshAttempt.obs = FALSE
      BY DEF FreshAttempt
    <3>3. ledger[t] = <<>>
      BY <2>3, <3>1 DEF Story
    <3> QED BY <3>1, <3>2, <3>3 DEF Story
  <2>5. CASE t \notin ToCreate(s) /\ t \in c
    <3>1. att[t].st = "prepared" /\ att'[t] = Owned(att[t], "activating")
      BY <2>1, <2>5 DEF Claimable
    <3> QED BY <2>3, <3>1, AttemptFields DEF Story
  <2>6. CASE t \notin ToCreate(s) /\ t \notin c /\ t \in ToVerify(s)
    <3>1. att[t].st = "activated" /\ att'[t] = Owned(att[t], "verifying")
      BY <2>1, <2>6 DEF ToVerify
    <3> QED BY <2>3, <3>1, AttemptFields DEF Story
  <2>7. CASE t \notin ToCreate(s) /\ t \notin c /\ t \notin ToVerify(s)
    BY <2>1, <2>3, <2>7
  <2> QED BY <2>4, <2>5, <2>6, <2>7
<1>2. CASE PlanRollback
  <2>1. /\ ledger' = ledger
        /\ att' = [t \in Targets |-> IF t \in ToReverse
                                       THEN Owned(att[t], "rolling_back")
                                       ELSE att[t]]
    BY <1>2 DEF PlanRollback
  <2> SUFFICES ASSUME NEW t \in Targets PROVE Story(att'[t], ledger[t])
    BY <2>1 DEF LedgerInv
  <2>2. Story(att[t], ledger[t]) /\ att[t] \in AttemptRecords
    BY DEF LedgerInv, TypeOK
  <2>3. CASE t \in ToReverse
    <3>1. att'[t] = Owned(att[t], "rolling_back")
      BY <2>1, <2>3
    <3>2. \/ att[t].st \in {"verified", "activated"}
          \/ att[t].st = "failed" /\ att[t].obs
      BY <2>3 DEF ToReverse
    <3>3. ledger[t] \in {A, AV}
      BY <2>2, <3>2 DEF Story
    <3> QED BY <2>2, <3>1, <3>3, AttemptFields DEF Story
  <2>4. CASE t \notin ToReverse
    BY <2>1, <2>2, <2>4
  <2> QED BY <2>3, <2>4
<1>3. CASE PlanIdle
  BY <1>3 DEF PlanIdle, durableVars, LedgerInv
<1> QED BY <1>1, <1>2, <1>3 DEF Driver

\* Commits: at the fence the attempt is in ExpectedState of the item's kind.
LEMMA CommitLedger ==
  ASSUME TypeOK, LedgerInv, NEW t \in Targets, CommitItem(t)
  PROVE  LedgerInv'
<1> DEFINE r == att[t]
           l == ledger[t]
<1>0. Story(r, l) /\ r \in AttemptRecords
  BY DEF LedgerInv, TypeOK
<1>f. ASSUME NEW kind \in {"prepare", "activate", "verify", "rollback"},
             NEW verdict, NEW a, Commits(t, kind, verdict, a)
      PROVE  r.st = ExpectedState(kind) /\ att' = a
  BY <1>f DEF Commits, Fence
<1>k. ASSUME ledger' = ledger PROVE ledger' = [ledger EXCEPT ![t] = l]
  BY <1>k DEF TypeOK
<1>b. ASSUME NEW st PROVE Becomes(t, st) = [att EXCEPT ![t] = [r EXCEPT !.st = st]]
  BY DEF Becomes
<1>1. CASE CommitFenced(t)
  BY <1>1 DEF CommitFenced, durableVars, LedgerInv
<1>2. CASE CommitPrepared(t)
  <2>1. r.st = "preparing" /\ att' = Becomes(t, "prepared")
    BY <1>2, <1>f DEF CommitPrepared, ExpectedState
  <2>2. ledger' = ledger
    BY <1>2 DEF CommitPrepared
  <2>3. Story([r EXCEPT !.st = "prepared"], l)
    BY <1>0, <2>1, AttemptFields DEF Story
  <2> HIDE DEF r, l
  <2> QED BY <1>b, <1>k, <2>1, <2>2, <2>3, CommitsStory
<1>3. ASSUME NEW kind \in {"prepare", "activate", "verify", "rollback"},
             NEW verdict, NEW st \in {"failed"},
             Commits(t, kind, verdict, Becomes(t, st)), ledger' = ledger
      PROVE  LedgerInv'
  <2>1. r.st = ExpectedState(kind) /\ att' = Becomes(t, "failed")
    BY <1>3, <1>f
  <2>2. r.st \in {"preparing", "activating", "verifying", "rolling_back"}
    BY <2>1 DEF ExpectedState
  <2>3. Story([r EXCEPT !.st = "failed"], l)
    BY <1>0, <2>2, AttemptFields DEF Story
  <2> HIDE DEF r, l
  <2> QED BY <1>b, <1>k, <1>3, <2>1, <2>3, CommitsStory
<1>4. CASE CommitFailed(t)
  BY <1>3, <1>4 DEF CommitFailed
<1>5. CASE CommitRefused(t)
  <2>1. r.st = "activating" /\ att' = Becomes(t, "prepared")
    BY <1>5, <1>f DEF CommitRefused, ExpectedState
  <2>2. ledger' = ledger
    BY <1>5 DEF CommitRefused
  <2>3. Story([r EXCEPT !.st = "prepared"], l)
    BY <1>0, <2>1, AttemptFields DEF Story
  <2> HIDE DEF r, l
  <2> QED BY <1>b, <1>k, <2>1, <2>2, <2>3, CommitsStory
<1>6. CASE CommitActivated(t)
  <2> DEFINE q == [r EXCEPT !.st = "activated", !.obs = TRUE]
  <2>1. r.st = "activating"
    BY <1>6, <1>f DEF CommitActivated, ExpectedState
  <2>2. att' = [att EXCEPT ![t] = q]
    BY <1>6, <1>f DEF CommitActivated
  <2>3. l = <<>> /\ ledger' = [ledger EXCEPT ![t] = A]
    BY <1>0, <1>6, <2>1, Words DEF CommitActivated, Story
  <2>4. q.st = "activated" /\ q.obs = TRUE
    BY <1>0 DEF AttemptRecords
  <2>5. Story(q, A)
    BY <2>4, Words DEF Story
  <2> HIDE DEF q
  <2> QED BY <2>2, <2>3, <2>5, CommitsStory
<1>7. CASE CommitVerified(t)
  <2> DEFINE q == [r EXCEPT !.st = "verified", !.fresh = TRUE]
  <2>1. r.st = "verifying"
    BY <1>7, <1>f DEF CommitVerified, ExpectedState
  <2>2. att' = [att EXCEPT ![t] = q]
    BY <1>7, <1>f DEF CommitVerified
  <2>3. l = A
    BY <1>0, <2>1 DEF Story
  <2>4. ledger' = [ledger EXCEPT ![t] = AV]
    BY <1>7, <2>3, Words DEF CommitVerified
  <2>5. q.st = "verified" /\ q.obs = r.obs
    BY <1>0 DEF AttemptRecords
  <2>6. Story(q, AV)
    BY <1>0, <2>3, <2>5, Words DEF Story
  <2> HIDE DEF q
  <2> QED BY <2>2, <2>4, <2>6, CommitsStory
<1>8. CASE CommitVerifyRetry(t)
  <2> DEFINE q == [r EXCEPT !.st = "activated", !.retries = @ + 1]
  <2>1. r.st = "verifying"
    BY <1>8, <1>f DEF CommitVerifyRetry, ExpectedState
  <2>2. att' = [att EXCEPT ![t] = q]
    BY <1>8, <1>f DEF CommitVerifyRetry
  <2>3. ledger' = ledger
    BY <1>8 DEF CommitVerifyRetry
  <2>4. q.st = "activated" /\ q.obs = r.obs
    BY <1>0 DEF AttemptRecords
  <2>5. Story(q, l)
    BY <1>0, <2>1, <2>4 DEF Story
  <2> HIDE DEF q, l
  <2> QED BY <1>k, <2>2, <2>3, <2>5, CommitsStory
<1>9. CASE CommitVerifyFailed(t)
  BY <1>3, <1>9 DEF CommitVerifyFailed
<1>10. CASE CommitRolledBack(t)
  <2>1. r.st = "rolling_back" /\ att' = Becomes(t, "rolled_back")
    BY <1>10, <1>f DEF CommitRolledBack, ExpectedState
  <2>2. l \in {A, AV}
    BY <1>0, <2>1 DEF Story
  <2>3. PICK w \in {AR, AVR} : w = Append(l, "rolled_back")
    BY <2>2, Words
  <2>4. ledger' = [ledger EXCEPT ![t] = w]
    BY <1>10, <2>3 DEF CommitRolledBack
  <2>5. Story([r EXCEPT !.st = "rolled_back"], w)
    BY <1>0, <2>2, <2>3, AttemptFields, Words DEF Story
  <2> HIDE DEF r, l
  <2> QED BY <1>b, <2>1, <2>4, <2>5, CommitsStory
<1>11. CASE CommitRollbackFailed(t)
  BY <1>3, <1>11 DEF CommitRollbackFailed
<1> QED BY <1>1, <1>2, <1>4, <1>5, <1>6, <1>7, <1>8, <1>9, <1>10, <1>11
        DEF CommitItem

\* The steps that write neither attempts nor the ledger, and those that only
\* retire attempts.
LEMMA OtherLedger ==
  ASSUME TypeOK, LedgerInv,
         Preflight \/ Operator \/ Environment \/ (\E t \in Targets : Execute(t))
  PROVE  LedgerInv'
<1> USE DEF durableVars
<1>1. CASE Preflight
  BY <1>1 DEF Preflight, PreflightBegin, PreflightInventory, PreflightArtifact,
              PreflightPass, PreflightFail, PreflightUnresolved, LedgerInv
<1>2. CASE Operator
  <2>1. CASE Pause
    BY <2>1, RetiredStory DEF Pause
  <2>2. CASE Abort
    BY <2>2, RetiredStory DEF Abort
  <2>3. CASE ~Pause /\ ~Abort
    BY <1>2, <2>3 DEF Operator, Start, Resume, Rollback, LedgerInv
  <2> QED BY <2>1, <2>2, <2>3
<1>3. CASE Environment
  <2>1. CASE Open
    BY <2>1, RetiredStory DEF Open
  <2>2. ASSUME NEW t \in Targets, EvidenceExpires(t) PROVE LedgerInv'
    <3> DEFINE q == [att[t] EXCEPT !.fresh = FALSE]
    <3>1. att' = [att EXCEPT ![t] = q] /\ ledger' = [ledger EXCEPT ![t] = @]
      BY <2>2 DEF EvidenceExpires, TypeOK
    <3>2. Story(att[t], ledger[t]) /\ q.st = att[t].st /\ q.obs = att[t].obs
      BY DEF LedgerInv, TypeOK, AttemptRecords
    <3>3. Story(q, ledger[t])
      BY <3>2 DEF Story
    <3> HIDE DEF q
    <3> QED BY <3>1, <3>3, CommitsStory
  <2>3. CASE ~Open /\ \A t \in Targets : ~EvidenceExpires(t)
    BY <1>3, <2>3 DEF Environment, RolloutAnswer, TicketExpires,
                      ForeignInventory, ForeignArtifact, Crash, LedgerInv
  <2> QED BY <2>1, <2>2, <2>3
<1>4. ASSUME NEW t \in Targets, Execute(t) PROVE LedgerInv'
  BY <1>4 DEF Execute, DrainLookup, DrainAcquire, HealthGate, AdapterPrepare,
              AdapterActivate, AdapterObserve, AdapterVerify, AdapterRollback,
              LedgerInv
<1> QED BY <1>1, <1>2, <1>3, <1>4

\* Every target's story holds in every reachable state.
LEMMA StoryInvariant == Spec => []LedgerInv
<1>1. Init => LedgerInv
  <2> SUFFICES ASSUME Init, NEW t \in Targets PROVE Story(att[t], ledger[t])
    BY DEF LedgerInv
  <2>1. att[t].st = "none" /\ att[t].obs = FALSE /\ ledger[t] = <<>>
    BY DEF Init, NoAttempt
  <2> QED BY <2>1 DEF Story
<1>2. TypeOK /\ LedgerInv /\ [Next]_vars => LedgerInv'
  <2> SUFFICES ASSUME TypeOK, LedgerInv, [Next]_vars PROVE LedgerInv'
    OBVIOUS
  <2>1. CASE Next
    BY <2>1, DriverLedger, CommitLedger, OtherLedger DEF Next
  <2>2. CASE UNCHANGED vars
    BY <2>2 DEF vars, LedgerInv
  <2> QED BY <2>1, <2>2
<1> QED BY <1>1, <1>2, TypeCorrect, PTL DEF Spec

\* The ledger and the attempts agree in every reachable state, whatever is
\* retried, fenced, retired or restarted (commit_locked, append_provenance).
THEOREM LedgerCorrect == Spec => []LedgerTruth
BY StoryInvariant, StoryTruth, PTL

-----------------------------------------------------------------------------
(***************************************************************************)
(* Retired attempts.                                                       *)
(***************************************************************************)

RetiredStep ==
  \A t \in Targets : att[t].st \in {"aborted", "abandoned", "rolled_back"}
                       => att'[t].st = att[t].st

\* A commit past the fence moves an attempt that is in flight.
LEMMA CommitsKeepRetired ==
  ASSUME TypeOK, NEW t \in Targets,
         NEW kind \in {"prepare", "activate", "verify", "rollback"}, NEW verdict,
         NEW a, \A u \in Targets \ {t} : a[u] = att[u],
         Commits(t, kind, verdict, a)
  PROVE  RetiredStep
<1>1. att[t].st = ExpectedState(kind) /\ att' = a
  BY DEF Commits, Fence
<1>2. att[t].st \in {"preparing", "activating", "verifying", "rolling_back"}
  BY <1>1 DEF ExpectedState
<1> QED BY <1>1, <1>2 DEF RetiredStep, TypeOK

\* What was abandoned, aborted or rolled back is never revived: the driver
\* claims other attempts only, and check_fence_locked stops every late commit.
THEOREM RetiredIsFinal == Spec => RetiredStaysRetired
<1>1. TypeOK /\ [Next]_vars => RetiredStep
  <2> SUFFICES ASSUME TypeOK, [Next]_vars PROVE RetiredStep
    OBVIOUS
  <2> USE DEF durableVars
  <2>0. ASSUME NEW st, att' = Retired(st) PROVE RetiredStep
    BY <2>0 DEF RetiredStep, Retired, InFlight, TypeOK
  <2>1. CASE Preflight
    BY <2>1 DEF Preflight, PreflightBegin, PreflightInventory, PreflightArtifact,
                PreflightPass, PreflightFail, PreflightUnresolved, RetiredStep
  <2>2. CASE Operator
    BY <2>0, <2>2 DEF Operator, Start, Pause, Resume, Abort, Rollback, RetiredStep
  <2>3. CASE Driver
    <3>1. CASE PlanForward
      <4> SUFFICES ASSUME NEW t \in Targets,
                          att[t].st \in {"aborted", "abandoned", "rolled_back"}
                   PROVE  att'[t] = att[t]
        BY DEF RetiredStep
      <4>1. PICK c \in SUBSET Claimable(PlannedState) :
              att' = [u \in Targets |->
                        IF u \in ToCreate(PlannedState) THEN FreshAttempt
                        ELSE IF u \in c THEN Owned(att[u], "activating")
                        ELSE IF u \in ToVerify(PlannedState)
                          THEN Owned(att[u], "verifying")
                        ELSE att[u]]
        BY <3>1 DEF PlanForward
      <4>2. t \notin ToCreate(PlannedState) /\ t \notin c
              /\ t \notin ToVerify(PlannedState)
        BY DEF ToCreate, Claimable, ToVerify
      <4> QED BY <4>1, <4>2
    <3>2. CASE PlanRollback
      BY <3>2 DEF PlanRollback, ToReverse, RetiredStep
    <3>3. CASE PlanIdle
      BY <3>3 DEF PlanIdle, RetiredStep
    <3> QED BY <2>3, <3>1, <3>2, <3>3 DEF Driver
  <2>4. CASE Environment
    <3>1. ASSUME NEW t \in Targets, EvidenceExpires(t) PROVE RetiredStep
      BY <3>1 DEF EvidenceExpires, RetiredStep, TypeOK, AttemptRecords
    <3>2. CASE \A t \in Targets : ~EvidenceExpires(t)
      BY <2>0, <2>4, <3>2
         DEF Environment, RolloutAnswer, TicketExpires, ForeignInventory,
             ForeignArtifact, Crash, Open, RetiredStep
    <3> QED BY <3>1, <3>2
  <2>5. ASSUME NEW t \in Targets, Execute(t) PROVE RetiredStep
    BY <2>5 DEF Execute, DrainLookup, DrainAcquire, HealthGate, AdapterPrepare,
                AdapterActivate, AdapterObserve, AdapterVerify, AdapterRollback,
                RetiredStep
  <2>6. ASSUME NEW t \in Targets, CommitItem(t) PROVE RetiredStep
    <3>1. CASE CommitFenced(t)
      BY <3>1 DEF CommitFenced, RetiredStep
    <3>2. CASE CommitActivated(t)
      <4> DEFINE a == [att EXCEPT ![t].st = "activated", ![t].obs = TRUE]
      <4>1. Commits(t, "activate", "ok", a) /\ \A u \in Targets \ {t} : a[u] = att[u]
        BY <3>2 DEF CommitActivated, TypeOK
      <4> HIDE DEF a
      <4> QED BY <4>1, CommitsKeepRetired
    <3>3. CASE CommitVerified(t)
      <4> DEFINE a == [att EXCEPT ![t].st = "verified", ![t].fresh = TRUE]
      <4>1. Commits(t, "verify", "ok", a) /\ \A u \in Targets \ {t} : a[u] = att[u]
        BY <3>3 DEF CommitVerified, TypeOK
      <4> HIDE DEF a
      <4> QED BY <4>1, CommitsKeepRetired
    <3>4. CASE CommitVerifyRetry(t)
      <4> DEFINE a == [att EXCEPT ![t].st = "activated", ![t].retries = @ + 1]
      <4>1. Commits(t, "verify", "fail", a) /\ \A u \in Targets \ {t} : a[u] = att[u]
        BY <3>4 DEF CommitVerifyRetry, TypeOK
      <4> HIDE DEF a
      <4> QED BY <4>1, CommitsKeepRetired
    <3>5. CASE CommitPrepared(t) \/ CommitFailed(t) \/ CommitRefused(t)
               \/ CommitVerifyFailed(t) \/ CommitRolledBack(t)
               \/ CommitRollbackFailed(t)
      <4>1. PICK kind \in {"prepare", "activate", "verify", "rollback"},
                 verdict \in {"ok", "fail", "refused"}, st \in AttemptStates :
              Commits(t, kind, verdict, Becomes(t, st))
        BY <3>5 DEF CommitPrepared, CommitFailed, CommitRefused,
                    CommitVerifyFailed, CommitRolledBack, CommitRollbackFailed,
                    AttemptStates
      <4>2. \A u \in Targets \ {t} : Becomes(t, st)[u] = att[u]
        BY DEF Becomes, TypeOK
      <4> QED BY <4>1, <4>2, CommitsKeepRetired
    <3> QED BY <2>6, <3>1, <3>2, <3>3, <3>4, <3>5 DEF CommitItem
  <2>7. CASE UNCHANGED vars
    BY <2>7 DEF vars, RetiredStep
  <2> QED BY <2>1, <2>2, <2>3, <2>4, <2>5, <2>6, <2>7 DEF Next
<1>2. RetiredStaysRetired <=> [][RetiredStep]_vars
  BY DEF RetiredStaysRetired, RetiredStep
<1> QED BY <1>1, <1>2, TypeCorrect, PTL DEF Spec

-----------------------------------------------------------------------------
(***************************************************************************)
(* What the transition table says of single states.                        *)
(***************************************************************************)

\* Only rolling_back follows rollback_planned (kRules).
LEMMA AfterPlanned ==
  \A r \in Rules : r[1] = "rollback_planned" => r[2] = "rolling_back"
<1> SUFFICES ASSUME NEW r \in Rules, r[1] = "rollback_planned"
             PROVE  r[2] = "rolling_back"
  OBVIOUS
<1>1. r \notin PreflightRules
  BY DEF PreflightRules
<1>2. r \notin ForwardRules
  BY DEF ForwardRules
<1>3. r \notin FailureRules
  BY DEF FailureRules
<1>4. r \notin PauseRules /\ r \notin BlockRules
  BY DEF PauseRules, BlockRules
<1>5. r \in RollbackRules
  BY <1>1, <1>2, <1>3, <1>4 DEF Rules
<1> QED BY <1>5 DEF RollbackRules

\* Only the recorded rollback plan leads to prepared (kRules).
LEMMA BeforePrepared ==
  \A r \in Rules : r[2] = "prepared" => "rollback_plan_recorded" \in r[3]
<1> SUFFICES ASSUME NEW r \in Rules, r[2] = "prepared"
             PROVE  "rollback_plan_recorded" \in r[3]
  OBVIOUS
<1>1. r \notin PreflightRules
  BY DEF PreflightRules
<1>2. r \notin RollbackRules
  BY DEF RollbackRules
<1>3. r \notin FailureRules
  BY DEF FailureRules
<1>4. r \notin PauseRules /\ r \notin BlockRules
  BY DEF PauseRules, BlockRules
<1>5. r \in ForwardRules
  BY <1>1, <1>2, <1>3, <1>4 DEF Rules
<1> QED BY <1>5 DEF ForwardRules

\* A commit past the fence finds an attempt, and a campaign that accepts its
\* kind of work.
LEMMA AtTheFence ==
  ASSUME NEW t \in Targets, CommitItem(t), ~CommitFenced(t)
  PROVE  /\ att[t].st # "none"
         /\ state \in {"prepared", "staged", "activating", "verifying",
                       "rolling_back"}
         /\ planned' = planned
<1>1. ASSUME NEW kind \in {"prepare", "activate", "verify", "rollback"},
             NEW verdict, NEW a, Commits(t, kind, verdict, a)
      PROVE  /\ att[t].st # "none"
             /\ state \in {"prepared", "staged", "activating", "verifying",
                           "rolling_back"}
  BY <1>1 DEF Commits, Fence, ExpectedState, Accepting
<1>2. planned' = planned
  BY DEF CommitItem, CommitFenced, CommitPrepared, CommitFailed, CommitRefused,
         CommitActivated, CommitVerified, CommitVerifyRetry, CommitVerifyFailed,
         CommitRolledBack, CommitRollbackFailed, campaignVars
<1>3. CASE CommitPrepared(t)
  BY <1>1, <1>2, <1>3 DEF CommitPrepared
<1>4. CASE CommitActivated(t)
  BY <1>1, <1>2, <1>4 DEF CommitActivated
<1>5. CASE CommitVerified(t)
  BY <1>1, <1>2, <1>5 DEF CommitVerified
<1>6. CASE CommitFailed(t) \/ CommitRefused(t) \/ CommitVerifyRetry(t)
           \/ CommitVerifyFailed(t) \/ CommitRollbackFailed(t)
  BY <1>1, <1>2, <1>6 DEF CommitFailed, CommitRefused, CommitVerifyRetry,
                          CommitVerifyFailed, CommitRollbackFailed
<1>7. CASE CommitRolledBack(t)
  BY <1>1, <1>2, <1>7 DEF CommitRolledBack
<1> QED BY <1>3, <1>4, <1>5, <1>6, <1>7 DEF CommitItem

\* A rollback that was only planned can never be executed, failed or aborted:
\* every command goes through `failed`, which the table does not offer there.
THEOREM PlannedRollbackNeverLeft == Spec => PlannedRollbackIsFinal
<1>1. [Next]_vars => (state = "rollback_planned" => state' = "rollback_planned")
  <2> SUFFICES ASSUME [Next]_vars, state = "rollback_planned"
               PROVE  state' = state
    OBVIOUS
  <2> USE DEF durableVars, campaignVars
  <2>0. ~Allowed(state, "failed", {"failure_recorded"})
    BY AfterPlanned DEF Allowed
  <2>1. CASE Preflight
    BY <2>1 DEF Preflight, PreflightBegin, PreflightInventory, PreflightArtifact,
                PreflightPass, PreflightFail, PreflightUnresolved
  <2>2. CASE Operator
    <3>1. ASSUME NEW dry_run \in BOOLEAN, Start(dry_run) PROVE state' = state
      BY <3>1 DEF Start
    <3>2. CASE Pause \/ Resume
      BY <3>2 DEF Pause, Resume, PausableStates
    <3>3. CASE Abort
      BY <2>0, <3>3 DEF Abort, Try
    <3>4. ASSUME NEW execute \in BOOLEAN, Rollback(execute) PROVE state' = state
      BY <2>0, <3>4 DEF Rollback, RollbackAccepted
    <3> QED BY <2>2, <3>1, <3>2, <3>3, <3>4 DEF Operator
  <2>3. CASE Driver
    BY <2>3 DEF Driver, PlanForward, PlanRollback, PlanIdle
  <2>4. CASE Environment
    BY <2>4 DEF Environment, RolloutAnswer, TicketExpires, EvidenceExpires,
                ForeignInventory, ForeignArtifact, Crash, Open, ActiveStates
  <2>5. ASSUME NEW t \in Targets, Execute(t) PROVE state' = state
    BY <2>5 DEF Execute, DrainLookup, DrainAcquire, HealthGate, AdapterPrepare,
                AdapterActivate, AdapterObserve, AdapterVerify, AdapterRollback
  <2>6. ASSUME NEW t \in Targets, CommitItem(t) PROVE state' = state
    <3>1. CASE CommitFenced(t)
      BY <3>1 DEF CommitFenced
    <3> QED BY <2>6, <3>1, AtTheFence
  <2>7. CASE UNCHANGED vars
    BY <2>7 DEF vars
  <2> QED BY <2>1, <2>2, <2>3, <2>4, <2>5, <2>6, <2>7 DEF Next
<1> QED BY <1>1, PTL DEF Spec, PlannedRollbackIsFinal

-----------------------------------------------------------------------------
(***************************************************************************)
(* The rollback plan.  The invariant adds what lets the driver create      *)
(* attempts: a campaign on its way forward has a plan.                     *)
(***************************************************************************)
Forward == {"prepared", "staged", "activating", "verifying"}

PlanInv == (state \in Forward \/ \E t \in Targets : att[t].st # "none") => planned

\* An attempt exists before an attempt is retired.
LEMMA RetiredExists ==
  ASSUME TypeOK, PlanInv, NEW st, att' = Retired(st), planned' = planned,
         state' \notin Forward \/ state' = state
  PROVE  PlanInv'
<1> SUFFICES ASSUME NEW t \in Targets, att'[t].st # "none", att[t].st = "none"
             PROVE  FALSE
  BY DEF PlanInv
<1> QED BY DEF Retired, InFlight

\* The rollback plan is recorded before any attempt exists, whichever command
\* brought the campaign to `prepared` (start, resume, transition_locked).
THEOREM PlanRecordedFirst == Spec => []RollbackPlanFirst
<1>1. Init => PlanInv
  BY DEF Init, NoAttempt, PlanInv, Forward
<1>2. TypeOK /\ PlanInv /\ [Next]_vars => PlanInv'
  <2> SUFFICES ASSUME TypeOK, PlanInv, [Next]_vars PROVE PlanInv'
    OBVIOUS
  <2> USE DEF durableVars, campaignVars
  <2>0. ASSUME state' = state \/ state' \notin Forward, att' = att,
               planned' = planned
        PROVE  PlanInv'
    BY <2>0 DEF PlanInv
  <2>p. ASSUME planned, planned' = planned PROVE PlanInv'
    BY <2>p DEF PlanInv
  <2>1. CASE Preflight
    <3>1. CASE PreflightPass
      BY <2>0, <3>1, TryEnds DEF PreflightPass, Forward
    <3>2. CASE PreflightFail
      BY <2>0, <3>2, TryEnds DEF PreflightFail, Forward
    <3>3. CASE PreflightBegin \/ PreflightInventory \/ PreflightUnresolved
               \/ PreflightArtifact
      BY <2>0, <3>3 DEF PreflightBegin, PreflightInventory, PreflightUnresolved,
                        PreflightArtifact
    <3> QED BY <2>1, <3>1, <3>2, <3>3 DEF Preflight
  <2>2. CASE Operator
    <3>1. ASSUME NEW dry_run \in BOOLEAN, Start(dry_run) PROVE PlanInv'
      BY <3>1 DEF Start, PlanInv
    <3>2. CASE Pause
      BY <3>2, RetiredExists DEF Pause, Forward
    <3>3. CASE Resume
      <4> DEFINE s1 == IF state \in {"paused", "blocked"}
                         THEN Try(state, "validated", GuardsNow) ELSE state
      <4>1. state' = Try(s1, "prepared", GuardsNow) /\ att' = att
              /\ planned' = planned
        BY <3>3 DEF Resume
      <4>2. s1 \in {"paused", "blocked", "validated"} \/ s1 = state
        BY TryEnds
      <4> HIDE DEF s1
      <4>3. CASE Allowed(s1, "prepared", GuardsNow) /\ s1 # "prepared"
        <5>1. "rollback_plan_recorded" \in GuardsNow
          BY <4>3, BeforePrepared DEF Allowed
        <5>2. planned
          BY <5>1 DEF GuardsNow, Guards
        <5> QED BY <2>p, <4>1, <5>2
      <4>4. CASE ~Allowed(s1, "prepared", GuardsNow) \/ s1 = "prepared"
        BY <2>0, <4>1, <4>2, <4>4 DEF Try, Forward
      <4> QED BY <4>3, <4>4
    <3>4. CASE Abort
      BY <3>4, RetiredExists, TryEnds DEF Abort, Forward
    <3>5. ASSUME NEW execute \in BOOLEAN, Rollback(execute) PROVE PlanInv'
      <4> DEFINE s1 == Try("failed", "rollback_planned", {"rollback_eligible"})
      <4>1. s1 \in {"failed", "rollback_planned"}
        BY TryEnds
      <4>2. state' = IF execute THEN Try(s1, "rolling_back", {"rollback_eligible"})
                     ELSE s1
        BY <3>5 DEF Rollback
      <4> HIDE DEF s1
      <4>3. state' \notin Forward
        BY <4>1, <4>2, TryEnds DEF Forward
      <4> QED BY <2>0, <3>5, <4>3 DEF Rollback
    <3> QED BY <2>2, <3>1, <3>2, <3>3, <3>4, <3>5 DEF Operator
  <2>3. CASE Driver
    <3>1. CASE PlanForward
      BY <2>p, <3>1 DEF PlanForward, PlanInv, Forward
    <3>2. CASE PlanRollback
      <4>1. \A t \in Targets : att[t].st = "none" => att'[t] = att[t]
        BY <3>2 DEF PlanRollback, ToReverse
      <4> QED BY <3>2, <4>1 DEF PlanRollback, PlanInv
    <3>3. CASE PlanIdle
      BY <2>0, <3>3 DEF PlanIdle
    <3> QED BY <2>3, <3>1, <3>2, <3>3 DEF Driver
  <2>4. CASE Environment
    <3>1. CASE Open
      <4>1. state' \notin Forward \/ state' = state
        BY <3>1, TryEnds DEF Open, Forward
      <4> QED BY <3>1, <4>1, RetiredExists DEF Open
    <3>2. ASSUME NEW t \in Targets, EvidenceExpires(t) PROVE PlanInv'
      <4>1. \A u \in Targets : att'[u].st = att[u].st
        BY <3>2 DEF EvidenceExpires, TypeOK, AttemptRecords
      <4> QED BY <3>2, <4>1 DEF EvidenceExpires, PlanInv
    <3>3. CASE ~Open /\ \A t \in Targets : ~EvidenceExpires(t)
      BY <2>0, <2>4, <3>3 DEF Environment, RolloutAnswer, TicketExpires,
                              ForeignInventory, ForeignArtifact, Crash
    <3> QED BY <3>1, <3>2, <3>3
  <2>5. ASSUME NEW t \in Targets, Execute(t) PROVE PlanInv'
    BY <2>0, <2>5 DEF Execute, DrainLookup, DrainAcquire, HealthGate,
                      AdapterPrepare, AdapterActivate, AdapterObserve,
                      AdapterVerify, AdapterRollback
  <2>6. ASSUME NEW t \in Targets, CommitItem(t) PROVE PlanInv'
    <3>1. CASE CommitFenced(t)
      BY <2>0, <3>1 DEF CommitFenced
    <3>2. CASE ~CommitFenced(t)
      BY <2>p, <2>6, <3>2, AtTheFence DEF PlanInv
    <3> QED BY <3>1, <3>2
  <2>7. CASE UNCHANGED vars
    BY <2>0, <2>7 DEF vars
  <2> QED BY <2>1, <2>2, <2>3, <2>4, <2>5, <2>6, <2>7 DEF Next
<1>3. PlanInv => RollbackPlanFirst
  BY DEF PlanInv, RollbackPlanFirst
<1> QED BY <1>1, <1>2, <1>3, TypeCorrect, PTL DEF Spec

=============================================================================
