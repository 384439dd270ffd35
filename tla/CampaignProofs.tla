--------------------------- MODULE CampaignProofs ---------------------------
(***************************************************************************)
(* What a campaign means for its targets, for every set of targets, plan   *)
(* and bound: success is verified truth, stages are barriers, what was     *)
(* reversed stays reversed, what is past a boundary is final.              *)
(*                                                                         *)
(* The steps of the engine are first described as each target sees them    *)
(* (TargetStep) and as the campaign sees them (Ratchet, Advances, Ends,    *)
(* Enters); the invariants then follow from these descriptions alone.      *)
(***************************************************************************)
EXTENDS UpgradeEngineProofs, FiniteSetTheorems

-----------------------------------------------------------------------------
(***************************************************************************)
(* A step as one target sees it.                                           *)
(***************************************************************************)
Kept(t)  == version'[t] = version[t] /\ ledger'[t] = ledger[t]
Rests(t) == Kept(t) /\ item'[t] = item[t] /\ att'[t].st = att[t].st
Drops(t) == Kept(t) /\ item'[t] = NoItem /\ att'[t].st = att[t].st

Retires(t) ==
  /\ Kept(t) /\ item'[t] = item[t]
  /\ InFlight(att[t].st) /\ att'[t].st \in {"aborted", "abandoned"}

Claims(t) ==
  /\ Kept(t)
  /\ item[t].kind = "none" /\ item'[t].step \in {"drain", "gate", "call"}
  /\ \/ /\ item'[t].kind = "prepare" /\ state \in Forward
        /\ att[t].st \in {"none", "preparing"} /\ att'[t].st = "preparing"
     \/ /\ item'[t].kind = "activate" /\ state \in Forward /\ StageOf[t] = active
        /\ att[t].st = "prepared" /\ att'[t].st = "activating"
     \/ /\ item'[t].kind = "verify" /\ state \in Forward /\ StageOf[t] = active
        /\ att[t].st = "activated" /\ att'[t].st = "verifying"
     \/ /\ item'[t].kind = "rollback" /\ state = "rolling_back" /\ ledger[t] # <<>>
        /\ att[t].st \in {"verified", "activated", "failed"}
        /\ att'[t].st = "rolling_back"

Calls(t) ==
  /\ ledger'[t] = ledger[t] /\ att'[t].st = att[t].st
  /\ item[t].kind # "none" /\ item'[t].kind = item[t].kind
  /\ \/ version'[t] = version[t]
     \/ item[t].kind = "activate" /\ version'[t] = "new"
     \/ item[t].kind = "rollback" /\ version'[t] = "old"
  /\ item[t].kind = "verify" /\ item'[t].step = "ok" => version'[t] = "new"
  /\ item[t].kind = "rollback" /\ item'[t].step = "ok" => version'[t] = "old"

\* The commit of an item that passed the fence.
Passes(t) ==
  /\ version'[t] = version[t] /\ item'[t] = NoItem
  /\ \/ /\ item[t].kind = "prepare" /\ state \in {"prepared", "staged"}
        /\ att[t].st = "preparing" /\ att'[t].st \in {"prepared", "failed"}
        /\ ledger'[t] = ledger[t]
     \/ /\ item[t].kind = "activate" /\ state \in {"staged", "activating"}
        /\ att[t].st = "activating"
        /\ \/ att'[t].st \in {"prepared", "failed"} /\ ledger'[t] = ledger[t]
           \/ att'[t].st = "activated" /\ ledger[t] = <<>> /\ ledger'[t] = A
     \/ /\ item[t].kind = "verify" /\ state \in {"activating", "verifying"}
        /\ att[t].st = "verifying" /\ ledger[t] = A
        /\ \/ att'[t].st \in {"activated", "failed"} /\ ledger'[t] = ledger[t]
           \/ item[t].step = "ok" /\ att'[t].st = "verified" /\ ledger'[t] = AV
     \/ /\ item[t].kind = "rollback" /\ state = "rolling_back"
        /\ att[t].st = "rolling_back"
        /\ \/ att'[t].st = "failed" /\ ledger'[t] = ledger[t]
           \/ /\ item[t].step = "ok" /\ att'[t].st = "rolled_back"
              /\ \/ ledger[t] = A /\ ledger'[t] = AR
                 \/ ledger[t] = AV /\ ledger'[t] = AVR

TargetStep(t) == Rests(t) \/ Drops(t) \/ Retires(t) \/ Claims(t) \/ Calls(t)
                   \/ Passes(t)

\* The steps that leave every target where it was.
LEMMA QuietSteps ==
  ASSUME TypeOK,
         \/ Preflight
         \/ Environment /\ ~Crash /\ ~Open
         \/ \E d \in BOOLEAN : Start(d) \/ Rollback(d)
         \/ Resume \/ PlanIdle \/ UNCHANGED vars
  PROVE  active' = active /\ \A t \in Targets : Rests(t)
<1> USE DEF durableVars, campaignVars, memoryVars, Rests, Kept
<1>1. CASE Preflight
  BY <1>1 DEF Preflight, PreflightBegin, PreflightInventory, PreflightArtifact,
              PreflightPass, PreflightFail, PreflightUnresolved
<1>2. CASE Environment /\ ~Crash /\ ~Open
  <2>1. ASSUME NEW t \in Targets, EvidenceExpires(t)
        PROVE  active' = active /\ \A u \in Targets : Rests(u)
    BY <2>1 DEF EvidenceExpires, TypeOK, AttemptRecords
  <2>2. CASE \A t \in Targets : ~EvidenceExpires(t)
    BY <1>2, <2>2 DEF Environment, RolloutAnswer, TicketExpires,
                      ForeignInventory, ForeignArtifact
  <2> QED BY <2>1, <2>2
<1>3. ASSUME NEW d \in BOOLEAN, Start(d) \/ Rollback(d)
      PROVE  active' = active /\ \A t \in Targets : Rests(t)
  BY <1>3 DEF Start, Rollback
<1>4. CASE Resume \/ PlanIdle \/ UNCHANGED vars
  BY <1>4 DEF Resume, PlanIdle, vars
<1> QED BY <1>1, <1>2, <1>3, <1>4

\* Pause, abort and boot retire what is in flight; a crash loses the items.
LEMMA RetiringSteps ==
  ASSUME TypeOK, Pause \/ Abort \/ Open \/ Crash
  PROVE  /\ active' = active
         /\ \A t \in Targets : Rests(t) \/ Retires(t) \/ Drops(t)
<1> USE DEF durableVars, campaignVars, memoryVars, Rests, Retires, Kept
<1>1. ASSUME NEW st \in {"aborted", "abandoned"}, att' = Retired(st),
             UNCHANGED <<item, version, ledger, active>>
      PROVE  active' = active /\ \A t \in Targets : Rests(t) \/ Retires(t)
  <2> SUFFICES ASSUME NEW t \in Targets PROVE Rests(t) \/ Retires(t)
    BY <1>1
  <2>1. CASE InFlight(att[t].st)
    <3>1. att'[t].st = st
      BY <1>1, <2>1 DEF Retired, TypeOK, AttemptRecords
    <3> QED BY <1>1, <2>1, <3>1
  <2>2. CASE ~InFlight(att[t].st)
    BY <1>1, <2>2 DEF Retired
  <2> QED BY <2>1, <2>2
<1>2. CASE Pause
  BY <1>1, <1>2 DEF Pause
<1>3. CASE Abort
  BY <1>1, <1>3 DEF Abort
<1>4. CASE Open
  BY <1>1, <1>4 DEF Open
<1>5. CASE Crash
  BY <1>5 DEF Crash, Drops
<1> QED BY <1>2, <1>3, <1>4, <1>5

\* The driver claims targets of the active stage, or those to reverse.
LEMMA DriverSteps ==
  ASSUME TypeOK, LedgerInv, PlanForward \/ PlanRollback
  PROVE  /\ active' = active
         /\ \A t \in Targets : item[t].kind = "none"
         /\ \A t \in Targets : Drops(t) \/ Claims(t)
<1>1. \A t \in Targets : item[t].kind = "none"
  BY DEF PlanForward, PlanRollback, BatchDone
<1>2. active' = active /\ \A t \in Targets : Kept(t)
  BY DEF PlanForward, PlanRollback, Kept, campaignVars
<1>3. \A kind \in {"prepare", "activate", "verify", "rollback"} :
        NewItem(kind).kind = kind /\ NewItem(kind).step \in {"drain", "gate", "call"}
  BY DEF NewItem
<1>4. ASSUME NEW t \in Targets PROVE Drops(t) \/ Claims(t)
  <2>0. att[t] \in AttemptRecords /\ Story(att[t], ledger[t])
    BY DEF TypeOK, LedgerInv
  <2>1. CASE PlanForward
    <3> DEFINE s == PlannedState
    <3>1. PICK c \in SUBSET Claimable(s) :
            /\ att' = [u \in Targets |->
                         IF u \in ToCreate(s) THEN FreshAttempt
                         ELSE IF u \in c THEN Owned(att[u], "activating")
                         ELSE IF u \in ToVerify(s) THEN Owned(att[u], "verifying")
                         ELSE att[u]]
            /\ item' = [u \in Targets |->
                          IF u \in ToCreate(s) \cup ToRepeat(s) THEN NewItem("prepare")
                          ELSE IF u \in c THEN NewItem("activate")
                          ELSE IF u \in ToVerify(s) THEN NewItem("verify")
                          ELSE NoItem]
      BY <2>1 DEF PlanForward
    <3>2. state \in Forward
      BY <2>1 DEF PlanForward, Forward
    <3> HIDE DEF s
    <3>3. CASE t \in ToCreate(s)
      <4>1. att[t].st = "none" /\ att'[t].st = "preparing" /\ item'[t] = NewItem("prepare")
        BY <3>1, <3>3 DEF ToCreate, FreshAttempt
      <4> QED BY <1>1, <1>2, <1>3, <3>2, <4>1 DEF Claims
    <3>4. CASE t \notin ToCreate(s) /\ t \in ToRepeat(s)
      <4>1. att[t].st = "preparing" /\ item'[t] = NewItem("prepare")
        BY <3>1, <3>4 DEF ToRepeat
      <4>2. t \notin c /\ t \notin ToVerify(s)
        BY <4>1 DEF Claimable, ToVerify
      <4>3. att'[t].st = "preparing"
        BY <3>1, <3>4, <4>1, <4>2
      <4> QED BY <1>1, <1>2, <1>3, <3>2, <4>1, <4>3 DEF Claims
    <3>5. CASE t \notin ToCreate(s) \cup ToRepeat(s) /\ t \in c
      <4>1. att[t].st = "prepared" /\ StageOf[t] = active
        BY <3>5 DEF Claimable, TargetsOf
      <4>2. att'[t].st = "activating" /\ item'[t] = NewItem("activate")
        BY <2>0, <3>1, <3>5, AttemptFields
      <4> QED BY <1>1, <1>2, <1>3, <3>2, <4>1, <4>2 DEF Claims
    <3>6. CASE t \notin ToCreate(s) \cup ToRepeat(s) \cup c /\ t \in ToVerify(s)
      <4>1. att[t].st = "activated" /\ StageOf[t] = active
        BY <3>6 DEF ToVerify, TargetsOf
      <4>2. att'[t].st = "verifying" /\ item'[t] = NewItem("verify")
        BY <2>0, <3>1, <3>6, AttemptFields
      <4> QED BY <1>1, <1>2, <1>3, <3>2, <4>1, <4>2 DEF Claims
    <3>7. CASE t \notin ToCreate(s) \cup ToRepeat(s) \cup c \cup ToVerify(s)
      BY <1>2, <3>1, <3>7 DEF Drops
    <3> QED BY <3>3, <3>4, <3>5, <3>6, <3>7
  <2>2. CASE PlanRollback
    <3>1. /\ att' = [u \in Targets |-> IF u \in ToReverse
                                         THEN Owned(att[u], "rolling_back")
                                         ELSE att[u]]
          /\ item' = [u \in Targets |-> IF u \in ToReverse
                                          THEN NewItem("rollback") ELSE NoItem]
          /\ state = "rolling_back"
      BY <2>2 DEF PlanRollback
    <3>2. CASE t \in ToReverse
      <4>1. \/ att[t].st \in {"verified", "activated"}
            \/ att[t].st = "failed" /\ att[t].obs
        BY <3>2 DEF ToReverse
      <4>2. ledger[t] # <<>>
        BY <2>0, <4>1, Words DEF Story
      <4>3. att'[t].st = "rolling_back" /\ item'[t] = NewItem("rollback")
        BY <2>0, <3>1, <3>2, AttemptFields
      <4> QED BY <1>1, <1>2, <1>3, <3>1, <4>1, <4>2, <4>3 DEF Claims
    <3>3. CASE t \notin ToReverse
      BY <1>2, <3>1, <3>3 DEF Drops
    <3> QED BY <3>2, <3>3
  <2> QED BY <2>1, <2>2
<1> QED BY <1>1, <1>2, <1>4

\* execute_item: a call moves one item, and the version of its own target.
LEMMA CallSteps ==
  ASSUME TypeOK, NEW t \in Targets, Execute(t)
  PROVE  active' = active /\ Calls(t) /\ \A u \in Targets \ {t} : Rests(u)
<1> USE DEF durableVars, campaignVars
<1>0. item[t] \in WorkItems
  BY DEF TypeOK
<1>s. ASSUME NEW st, Step(t, st)
      PROVE  /\ item'[t].kind = item[t].kind /\ item'[t].step = st
             /\ \A u \in Targets \ {t} : item'[u] = item[u]
  BY <1>s DEF Step, TypeOK, WorkItems
<1>1. CASE DrainLookup(t) \/ DrainAcquire(t) \/ HealthGate(t) \/ AdapterPrepare(t)
           \/ AdapterObserve(t)
  <2>1. /\ \E st \in {"gate", "acquire", "refused", "call", "ok", "fail"} : Step(t, st)
        /\ item[t].kind \in {"prepare", "activate"}
        /\ UNCHANGED <<att, ledger, version, active>>
    BY <1>1 DEF DrainLookup, DrainAcquire, HealthGate, AdapterPrepare,
                AdapterObserve, At
  <2> QED BY <1>s, <2>1 DEF Calls, Rests, Kept
<1>2. CASE AdapterActivate(t)
  <2>1. /\ item[t].kind = "activate" /\ UNCHANGED <<att, ledger, active>>
        /\ version' \in {version, [version EXCEPT ![t] = "new"]}
        /\ \/ \E st \in {"ok", "fail"} : Step(t, st)
           \/ item' = [item EXCEPT ![t] = Unacknowledged(item[t])]
    BY <1>2 DEF AdapterActivate, At
  <2>2. Unacknowledged(item[t]).kind = item[t].kind
    BY <1>0 DEF Unacknowledged, WorkItems
  <2>3. item'[t].kind = item[t].kind /\ \A u \in Targets \ {t} : item'[u] = item[u]
    BY <1>s, <2>1, <2>2 DEF TypeOK
  <2> QED BY <2>1, <2>3 DEF Calls, Rests, Kept, TypeOK
<1>3. CASE AdapterVerify(t)
  <2>1. /\ item[t].kind = "verify" /\ UNCHANGED <<att, ledger, version, active>>
        /\ \/ version[t] = "new" /\ Step(t, "ok")
           \/ Step(t, "fail")
    BY <1>3 DEF AdapterVerify, At
  <2> QED BY <1>s, <2>1 DEF Calls, Rests, Kept
<1>4. CASE AdapterRollback(t)
  <2>1. /\ item[t].kind = "rollback" /\ UNCHANGED <<att, ledger, active>>
        /\ \/ version' = [version EXCEPT ![t] = "old"] /\ Step(t, "ok")
           \/ /\ version' \in {version, [version EXCEPT ![t] = "old"]}
              /\ Step(t, "fail")
    BY <1>4 DEF AdapterRollback, At
  <2> QED BY <1>s, <2>1 DEF Calls, Rests, Kept, TypeOK
<1> QED BY <1>1, <1>2, <1>3, <1>4 DEF Execute

\* The commit that verifies the last target of a stage.
Finishes(t) ==
  /\ item[t].kind = "verify" /\ att[t].st = "verifying"
  /\ Passes(t) /\ att'[t].st = "verified"
  /\ \A u \in Targets \ {t} : Rests(u)
  /\ \A u \in TargetsOf(StageOf[t]) : att'[u].st = "verified"

\* commit_item: only the last verification of a stage moves the campaign to
\* the next one.
LEMMA CommitSteps ==
  ASSUME TypeOK, LedgerInv, NEW t \in Targets, CommitItem(t)
  PROVE  /\ Drops(t) \/ Passes(t)
         /\ \A u \in Targets \ {t} : Rests(u)
         /\ \/ active' = active
            \/ Finishes(t) /\ active < NumStages /\ active' = active + 1
<1> USE DEF durableVars, campaignVars
<1> DEFINE r == att[t]
<1>0. r \in AttemptRecords /\ Story(r, ledger[t])
  BY DEF TypeOK, LedgerInv
<1>a. version' = version
  BY DEF CommitItem, CommitFenced, CommitPrepared, CommitFailed, CommitRefused,
         CommitActivated, CommitVerified, CommitVerifyRetry, CommitVerifyFailed,
         CommitRolledBack, CommitRollbackFailed
<1>c. item' = [item EXCEPT ![t] = NoItem]
  BY DEF CommitItem, CommitFenced, CommitPrepared, CommitFailed, CommitRefused,
         CommitActivated, CommitVerified, CommitVerifyRetry, CommitVerifyFailed,
         CommitRolledBack, CommitRollbackFailed, Commits
<1>d. item'[t] = NoItem /\ \A u \in Targets \ {t} : item'[u] = item[u]
  BY <1>c DEF TypeOK
<1>b. ASSUME NEW st
      PROVE  /\ Becomes(t, st)[t].st = st
             /\ \A u \in Targets \ {t} : Becomes(t, st)[u] = att[u]
  BY <1>0, AttemptFields DEF Becomes, TypeOK
<1>f. ASSUME NEW kind \in {"prepare", "activate", "verify", "rollback"},
             NEW verdict, NEW a, Commits(t, kind, verdict, a)
      PROVE  /\ item[t].kind = kind /\ item[t].step = verdict
             /\ r.st = ExpectedState(kind) /\ state \in Accepting(kind)
             /\ att' = a
  BY <1>f DEF Commits, Fence
<1>e. ASSUME ledger' = ledger, \A u \in Targets \ {t} : att'[u] = att[u]
      PROVE  \A u \in Targets \ {t} : Rests(u)
  BY <1>a, <1>d, <1>e DEF Rests, Kept
<1>l. ASSUME NEW w, ledger' = [ledger EXCEPT ![t] = w],
             \A u \in Targets \ {t} : att'[u] = att[u]
      PROVE  ledger'[t] = w /\ \A u \in Targets \ {t} : Rests(u)
  BY <1>a, <1>d, <1>l DEF Rests, Kept, TypeOK
<1>1. CASE CommitFenced(t)
  BY <1>1, <1>a, <1>d DEF CommitFenced, Drops, Rests, Kept
<1>2. CASE CommitPrepared(t) \/ CommitRefused(t)
  <2>1. PICK kind \in {"prepare", "activate"}, verdict \in {"ok", "refused"} :
          Commits(t, kind, verdict, Becomes(t, "prepared"))
    BY <1>2 DEF CommitPrepared, CommitRefused
  <2>2. ledger' = ledger /\ active' = active
    BY <1>2 DEF CommitPrepared, CommitRefused
  <2> QED BY <1>a, <1>b, <1>d, <1>e, <1>f, <2>1, <2>2
          DEF Passes, ExpectedState, Accepting
<1>3. CASE CommitFailed(t) \/ CommitVerifyFailed(t) \/ CommitRollbackFailed(t)
  <2>1. PICK kind \in {"prepare", "activate", "verify", "rollback"} :
          Commits(t, kind, "fail", Becomes(t, "failed"))
    BY <1>3 DEF CommitFailed, CommitVerifyFailed, CommitRollbackFailed
  <2>2. ledger' = ledger /\ active' = active
    BY <1>3 DEF CommitFailed, CommitVerifyFailed, CommitRollbackFailed
  <2>3. /\ item[t].kind = kind /\ r.st = ExpectedState(kind)
        /\ state \in Accepting(kind) /\ att'[t].st = "failed"
    BY <1>b, <1>f, <2>1
  <2>4. kind = "verify" => ledger[t] = A
    BY <1>0, <2>3 DEF Story, ExpectedState
  <2>5. Passes(t)
    BY <1>a, <1>d, <2>2, <2>3, <2>4 DEF Passes, ExpectedState, Accepting
  <2> QED BY <1>b, <1>e, <1>f, <2>1, <2>2, <2>5
<1>4. CASE CommitActivated(t)
  <2> DEFINE a == [att EXCEPT ![t].st = "activated", ![t].obs = TRUE]
  <2>1. a[t].st = "activated" /\ \A u \in Targets \ {t} : a[u] = att[u]
    BY <1>0 DEF TypeOK, AttemptRecords
  <2>2. Commits(t, "activate", "ok", a)
    BY <1>4 DEF CommitActivated
  <2> HIDE DEF a
  <2>3. r.st = "activating" /\ att' = a /\ state \in {"staged", "activating"}
          /\ item[t].kind = "activate"
    BY <1>f, <2>2 DEF ExpectedState, Accepting
  <2>4. ledger[t] = <<>> /\ ledger' = [ledger EXCEPT ![t] = A]
    BY <1>0, <1>4, <2>3, Words DEF CommitActivated, Story
  <2>5. active' = active
    BY <1>4 DEF CommitActivated
  <2> QED BY <1>a, <1>d, <1>l, <2>1, <2>3, <2>4, <2>5 DEF Passes
<1>5. CASE CommitVerified(t)
  <2> DEFINE a == [att EXCEPT ![t].st = "verified", ![t].fresh = TRUE]
             done == \A u \in TargetsOf(StageOf[t]) : a[u].st = "verified"
  <2>1. a[t].st = "verified" /\ \A u \in Targets \ {t} : a[u] = att[u]
    BY <1>0 DEF TypeOK, AttemptRecords
  <2>2. /\ Commits(t, "verify", "ok", a)
        /\ active' = IF done /\ active # NumStages THEN active + 1 ELSE active
    BY <1>5 DEF CommitVerified
  <2> HIDE DEF a
  <2>3. /\ item[t].kind = "verify" /\ item[t].step = "ok" /\ r.st = "verifying"
        /\ att' = a /\ state \in {"activating", "verifying"}
    BY <1>f, <2>2 DEF ExpectedState, Accepting
  <2>4. ledger[t] = A
    BY <1>0, <2>3 DEF Story
  <2>5. ledger' = [ledger EXCEPT ![t] = AV]
    BY <1>5, <2>4, Words DEF CommitVerified
  <2>6. Passes(t) /\ \A u \in Targets \ {t} : Rests(u)
    BY <1>a, <1>d, <1>l, <2>1, <2>3, <2>4, <2>5 DEF Passes
  <2>7. active # NumStages => active < NumStages
    BY ShapeAssumption DEF TypeOK, Stages
  <2> QED BY <2>1, <2>2, <2>3, <2>6, <2>7 DEF Finishes
<1>6. CASE CommitVerifyRetry(t)
  <2> DEFINE a == [att EXCEPT ![t].st = "activated", ![t].retries = @ + 1]
  <2>1. a[t].st = "activated" /\ \A u \in Targets \ {t} : a[u] = att[u]
    BY <1>0 DEF TypeOK, AttemptRecords
  <2>2. Commits(t, "verify", "fail", a) /\ ledger' = ledger /\ active' = active
    BY <1>6 DEF CommitVerifyRetry
  <2> HIDE DEF a
  <2>3. /\ item[t].kind = "verify" /\ r.st = "verifying" /\ att' = a
        /\ state \in {"activating", "verifying"}
    BY <1>f, <2>2 DEF ExpectedState, Accepting
  <2>4. ledger[t] = A
    BY <1>0, <2>3 DEF Story
  <2> QED BY <1>a, <1>d, <1>e, <2>1, <2>2, <2>3, <2>4 DEF Passes
<1>7. CASE CommitRolledBack(t)
  <2>1. Commits(t, "rollback", "ok", Becomes(t, "rolled_back")) /\ active' = active
    BY <1>7 DEF CommitRolledBack
  <2>2. /\ item[t].kind = "rollback" /\ item[t].step = "ok" /\ r.st = "rolling_back"
        /\ att' = Becomes(t, "rolled_back") /\ state = "rolling_back"
    BY <1>f, <2>1 DEF ExpectedState, Accepting
  <2>3. ledger[t] \in {A, AV}
    BY <1>0, <2>2 DEF Story
  <2> DEFINE w == Append(ledger[t], "rolled_back")
  <2>4. ledger' = [ledger EXCEPT ![t] = w]
    BY <1>7 DEF CommitRolledBack
  <2>5. \/ ledger[t] = A /\ w = AR
        \/ ledger[t] = AV /\ w = AVR
    BY <2>3, Words
  <2> HIDE DEF w
  <2> QED BY <1>a, <1>b, <1>d, <1>l, <2>1, <2>2, <2>4, <2>5 DEF Passes
<1> QED BY <1>1, <1>2, <1>3, <1>4, <1>5, <1>6, <1>7 DEF CommitItem

\* Every step, as each target sees it.
LEMMA TargetSteps ==
  TypeOK /\ LedgerInv /\ [Next]_vars => \A t \in Targets : TargetStep(t)
<1> SUFFICES ASSUME TypeOK, LedgerInv, [Next]_vars
             PROVE  \A t \in Targets : TargetStep(t)
  OBVIOUS
<1> USE DEF TargetStep
<1>1. CASE \E t \in Targets : Execute(t) \/ CommitItem(t)
  BY <1>1, CallSteps, CommitSteps
<1>2. CASE Driver
  BY <1>2, DriverSteps, QuietSteps DEF Driver
<1>3. CASE Operator
  BY <1>3, QuietSteps, RetiringSteps DEF Operator
<1>4. CASE Preflight \/ Environment \/ UNCHANGED vars
  BY <1>4, QuietSteps, RetiringSteps
<1> QED BY <1>1, <1>2, <1>3, <1>4 DEF Next

-----------------------------------------------------------------------------
(***************************************************************************)
(* A step as the campaign sees it.                                         *)
(***************************************************************************)
Backward == {"failed", "rollback_planned", "rolling_back", "rolled_back"}

\* No rule leads out of a failure but through the rollback (kRules).
LEMMA AfterBackward ==
  \A r \in Rules : r[1] \in Backward => r[2] \in Backward
<1> SUFFICES ASSUME NEW r \in Rules, r[1] \in Backward
             PROVE  r[2] \in Backward
  OBVIOUS
<1> USE DEF Backward
<1>1. r \notin PreflightRules
  BY DEF PreflightRules
<1>2. r \notin ForwardRules
  BY DEF ForwardRules
<1>3. r \in FailureRules => r[2] \in Backward
  BY DEF FailureRules
<1>4. r \in RollbackRules => r[2] \in Backward
  BY DEF RollbackRules
<1>5. r \notin PauseRules /\ r \notin BlockRules
  BY DEF PauseRules, BlockRules
<1> QED BY <1>1, <1>2, <1>3, <1>4, <1>5 DEF Rules

\* evaluate_transition never leaves a terminal state, nor the way back.
LEMMA TryKeeps ==
  ASSUME NEW from, NEW to, NEW guards
  PROVE  /\ from \in TerminalStates => Try(from, to, guards) = from
         /\ from \in Backward => Try(from, to, guards) \in Backward
BY AfterBackward DEF Try, Allowed

\* What plan_work_locked may make of the campaign.
LEMMA PlannedEnds ==
  PlannedState \in {state, "staged", "activating", "verifying", "blocked"}
<1> DEFINE s1 == IF state = "prepared" /\ stage[active] = "prepared"
                   THEN Try(state, "staged", GuardsNow \cup {"staging_complete"})
                   ELSE state
           s2 == IF s1 \in {"staged", "activating"}
                      /\ activation_complete(att, active)
                   THEN Try(IF s1 = "staged"
                              THEN Try(s1, "activating", GuardsNow) ELSE s1,
                            "verifying", GuardsNow)
                   ELSE s1
<1>1. s1 \in {state, "staged"}
  BY TryEnds
<1>2. s2 \in {s1, "activating", "verifying"}
  <2> HIDE DEF s1
  <2> QED BY TryEnds
<1>3. PlannedState = IF s2 = "staged" /\ ~skew_within_budget(att)
                       THEN Try(s2, "blocked", {"failure_recorded"}) ELSE s2
  BY DEF PlannedState
<1> HIDE DEF s1, s2
<1> QED BY <1>1, <1>2, <1>3, TryEnds

\* The state of the campaign after the commit of an activation.
LEMMA ActivatedEnds ==
  ASSUME NEW t \in Targets, CommitActivated(t)
  PROVE  state' \in {state, "activating", "verifying", "blocked"}
<1> DEFINE a  == [att EXCEPT ![t].st = "activated", ![t].obs = TRUE]
           g  == Guards(a, active, stage)
           s1 == IF state = "staged" THEN Try(state, "activating", g) ELSE state
<1>1. s1 \in {state, "activating"}
  BY TryEnds
<1>2. state' = IF ~skew_within_budget(a)
                 THEN Try(s1, "blocked", {"failure_recorded"})
               ELSE IF activation_complete(a, active)
                 THEN Try(s1, "verifying", g) ELSE s1
  BY DEF CommitActivated
<1> HIDE DEF a, g, s1
<1> QED BY <1>1, <1>2, TryEnds

\* The state of the campaign after the commit of a verification.
LEMMA VerifiedEnds ==
  ASSUME NEW t \in Targets, CommitVerified(t)
  PROVE  state' \in {state, "staged", "completed"}
<1> DEFINE a    == [att EXCEPT ![t].st = "verified", ![t].fresh = TRUE]
           done == \A u \in TargetsOf(StageOf[t]) : a[u].st = "verified"
           last == active = NumStages
           sg   == IF ~done THEN stage
                   ELSE IF last THEN [stage EXCEPT ![active] = "completed"]
                   ELSE [stage EXCEPT ![active] = "completed",
                                      ![active + 1] = "pending"]
           k    == IF done /\ ~last THEN active + 1 ELSE active
<1>1. state' = IF ~done THEN state
               ELSE Try(state, IF last THEN "completed" ELSE "staged",
                        Guards(a, k, sg))
  BY DEF CommitVerified
<1> HIDE DEF a, done, sg, k
<1> QED BY <1>1, TryEnds

Elsewhere == {"validated", "prepared", "staged", "activating", "verifying",
              "blocked", "paused", "failed"}

\* Only a rollback command leads to a planned rollback, only a verification to
\* completion, only a reversal to a rolled back campaign.
LEMMA Moves ==
  ASSUME [Next]_vars
  PROVE  \/ state' = state \/ state' \in Elsewhere
         \/ \E d \in BOOLEAN : Rollback(d)
         \/ \E t \in Targets : CommitVerified(t) \/ CommitRolledBack(t)
<1> USE DEF durableVars, campaignVars, Elsewhere
<1>1. CASE Preflight
  <2>1. CASE PreflightPass
    BY <2>1, TryEnds DEF PreflightPass
  <2>2. CASE PreflightFail
    BY <2>2, TryEnds DEF PreflightFail
  <2>3. CASE PreflightBegin \/ PreflightInventory \/ PreflightArtifact
             \/ PreflightUnresolved
    BY <2>3 DEF PreflightBegin, PreflightInventory, PreflightArtifact,
                PreflightUnresolved
  <2> QED BY <1>1, <2>1, <2>2, <2>3 DEF Preflight
<1>2. CASE Operator
  <2>1. ASSUME NEW d \in BOOLEAN, Start(d)
        PROVE  state' \in {state, "validated", "prepared"}
    <3> DEFINE guards == GuardsNow \cup {"rollback_plan_recorded"}
               s1 == IF state \in {"paused", "blocked"}
                       THEN Try(state, "validated", guards) ELSE state
    <3>1. state' = IF s1 = "validated" THEN Try(s1, "prepared", guards) ELSE s1
      BY <2>1 DEF Start
    <3>2. s1 \in {state, "validated"}
      BY TryEnds
    <3> HIDE DEF guards, s1
    <3> QED BY <3>1, <3>2, TryEnds
  <2>2. CASE Resume
    <3> DEFINE s1 == IF state \in {"paused", "blocked"}
                       THEN Try(state, "validated", GuardsNow) ELSE state
    <3>1. state' = Try(s1, "prepared", GuardsNow) /\ s1 \in {state, "validated"}
      BY <2>2, TryEnds DEF Resume
    <3> HIDE DEF s1
    <3> QED BY <3>1, TryEnds
  <2>3. CASE Pause \/ Abort
    BY <2>3, TryEnds DEF Pause, Abort
  <2> QED BY <1>2, <2>1, <2>2, <2>3 DEF Operator
<1>3. CASE Driver
  BY <1>3, PlannedEnds DEF Driver, PlanForward, PlanRollback, PlanIdle
<1>4. CASE Environment
  BY <1>4, TryEnds DEF Environment, RolloutAnswer, TicketExpires, EvidenceExpires,
                       ForeignInventory, ForeignArtifact, Crash, Open
<1>5. ASSUME NEW t \in Targets, Execute(t) PROVE state' = state
  BY <1>5 DEF Execute, DrainLookup, DrainAcquire, HealthGate, AdapterPrepare,
              AdapterActivate, AdapterObserve, AdapterVerify, AdapterRollback
<1>6. ASSUME NEW t \in Targets, CommitItem(t),
             ~CommitVerified(t), ~CommitRolledBack(t)
      PROVE  state' = state \/ state' \in Elsewhere
  BY <1>6, TryEnds, ActivatedEnds
     DEF CommitItem, CommitFenced, CommitPrepared, CommitFailed, CommitRefused,
         CommitVerifyRetry, CommitVerifyFailed, CommitRollbackFailed
<1>7. CASE UNCHANGED vars
  BY <1>7 DEF vars
<1> QED BY <1>1, <1>2, <1>3, <1>4, <1>5, <1>6, <1>7 DEF Next

\* A campaign completes by the last verification of its last stage.
LEMMA Ends ==
  ASSUME TypeOK, LedgerInv, [Next]_vars,
         state' = "completed", state # "completed"
  PROVE  \E t \in Targets : Finishes(t) /\ active = NumStages /\ active' = active
<1>1. PICK t \in Targets : CommitVerified(t)
  <2>1. ~\E d \in BOOLEAN : Rollback(d)
    BY TryEnds DEF Rollback
  <2>2. ~\E t \in Targets : CommitRolledBack(t)
    BY TryEnds DEF CommitRolledBack
  <2> QED BY <2>1, <2>2, Moves DEF Elsewhere
<1> DEFINE a    == [att EXCEPT ![t].st = "verified", ![t].fresh = TRUE]
           done == \A u \in TargetsOf(StageOf[t]) : a[u].st = "verified"
           last == active = NumStages
           sg   == IF ~done THEN stage
                   ELSE IF last THEN [stage EXCEPT ![active] = "completed"]
                   ELSE [stage EXCEPT ![active] = "completed",
                                      ![active + 1] = "pending"]
           k    == IF done /\ ~last THEN active + 1 ELSE active
<1>2. done /\ active = NumStages /\ active' = active /\ att' = a
  <2>1. /\ att' = a /\ active' = k
        /\ state' = IF ~done THEN state
                    ELSE Try(state, IF last THEN "completed" ELSE "staged",
                             Guards(a, k, sg))
    BY <1>1 DEF CommitVerified, Commits
  <2>2. Try(state, "staged", Guards(a, k, sg)) # "completed"
    BY TryEnds
  <2> HIDE DEF a, done, sg
  <2> QED BY <2>1, <2>2
<1>3. a[t].st = "verified" /\ att[t].st = "verifying" /\ item[t].kind = "verify"
  BY <1>1 DEF CommitVerified, Commits, Fence, ExpectedState, TypeOK, AttemptRecords
<1>4. Passes(t) /\ \A u \in Targets \ {t} : Rests(u)
  <2>1. CommitItem(t) /\ ~CommitFenced(t)
    BY <1>1 DEF CommitItem, CommitVerified, CommitFenced, Commits
  <2>2. ~Drops(t)
    BY <1>2, <1>3 DEF Drops
  <2> QED BY <2>1, <2>2, CommitSteps
<1> QED BY <1>2, <1>3, <1>4 DEF Finishes

\* A campaign that failed or is rolled back never goes forward again.
LEMMA Ratchet ==
  ASSUME [Next]_vars, state \in Backward
  PROVE  state' \in Backward
<1> USE DEF durableVars, campaignVars
<1>0. state \notin {"proposed", "blocked", "paused", "validated", "prepared",
                    "staged", "activating", "verifying"}
  BY DEF Backward
<1>1. CASE Preflight
  BY <1>0, <1>1 DEF Preflight, PreflightBegin, PreflightInventory,
     PreflightArtifact, PreflightPass, PreflightFail, PreflightUnresolved
<1>2. CASE Operator
  <2>1. ASSUME NEW d \in BOOLEAN, Start(d) PROVE state' \in Backward
    BY <1>0, <2>1 DEF Start
  <2>2. CASE Pause \/ Resume
    BY <1>0, <2>2 DEF Pause, Resume, PausableStates
  <2>3. CASE Abort
    BY <2>3, TryKeeps DEF Abort
  <2>4. ASSUME NEW d \in BOOLEAN, Rollback(d) PROVE state' \in Backward
    <3> DEFINE s1 == Try("failed", "rollback_planned", {"rollback_eligible"})
    <3>1. s1 \in Backward
      BY TryEnds DEF Backward
    <3>2. state' = IF d THEN Try(s1, "rolling_back", {"rollback_eligible"}) ELSE s1
      BY <2>4 DEF Rollback
    <3> HIDE DEF s1
    <3> QED BY <3>1, <3>2, TryKeeps
  <2> QED BY <1>2, <2>1, <2>2, <2>3, <2>4 DEF Operator
<1>3. CASE Driver
  BY <1>0, <1>3 DEF Driver, PlanForward, PlanRollback, PlanIdle
<1>4. CASE Environment
  BY <1>4, TryKeeps DEF Environment, RolloutAnswer, TicketExpires,
     EvidenceExpires, ForeignInventory, ForeignArtifact, Crash, Open
<1>5. ASSUME NEW t \in Targets, Execute(t) PROVE state' = state
  BY <1>5 DEF Execute, DrainLookup, DrainAcquire, HealthGate, AdapterPrepare,
              AdapterActivate, AdapterObserve, AdapterVerify, AdapterRollback
<1>6. ASSUME NEW t \in Targets, CommitItem(t) PROVE state' \in Backward
  <2>1. CASE CommitPrepared(t)
    BY <1>0, <2>1 DEF CommitPrepared
  <2>2. CASE CommitActivated(t)
    <3>1. state \in Accepting("activate")
      BY <2>2 DEF CommitActivated, Commits, Fence
    <3> QED BY <1>0, <3>1 DEF Accepting
  <2>3. CASE CommitVerified(t)
    <3>1. state \in Accepting("verify")
      BY <2>3 DEF CommitVerified, Commits, Fence
    <3> QED BY <1>0, <3>1 DEF Accepting
  <2>4. CASE CommitRolledBack(t)
    BY <2>4, TryKeeps DEF CommitRolledBack
  <2>5. CASE CommitFenced(t) \/ CommitFailed(t) \/ CommitRefused(t)
             \/ CommitVerifyRetry(t) \/ CommitVerifyFailed(t)
             \/ CommitRollbackFailed(t)
    BY <2>5, TryKeeps DEF CommitFenced, CommitFailed, CommitRefused,
       CommitVerifyRetry, CommitVerifyFailed, CommitRollbackFailed
  <2> QED BY <1>6, <2>1, <2>2, <2>3, <2>4, <2>5 DEF CommitItem
<1>7. CASE UNCHANGED vars
  BY <1>7 DEF vars
<1> QED BY <1>1, <1>2, <1>3, <1>4, <1>5, <1>6, <1>7 DEF Next

\* Nothing moves a terminal campaign once its batch is empty.
LEMMA Sealed ==
  ASSUME [Next]_vars, state \in TerminalStates,
         \A t \in Targets : item[t].kind = "none" /\ item[t].step = "none"
  PROVE  UNCHANGED <<state, gen, stage>>
<1> USE DEF durableVars, campaignVars
<1>0. state \in {"completed", "rolled_back"}
  BY DEF TerminalStates
<1>1. CASE Preflight
  BY <1>0, <1>1 DEF Preflight, PreflightBegin, PreflightInventory,
     PreflightArtifact, PreflightPass, PreflightFail, PreflightUnresolved
<1>2. CASE Operator
  <2>1. ~Allowed(state, "failed", {"failure_recorded"})
    BY <1>0 DEF Allowed
  <2> QED BY <1>0, <1>2, <2>1 DEF Operator, Start, Pause, Resume, Abort, Rollback,
                                  RollbackAccepted, PausableStates
<1>3. CASE Driver
  BY <1>0, <1>3 DEF Driver, PlanForward, PlanRollback, PlanIdle
<1>4. CASE Environment
  BY <1>0, <1>4 DEF Environment, RolloutAnswer, TicketExpires, EvidenceExpires,
     ForeignInventory, ForeignArtifact, Crash, Open, ActiveStates
<1>5. ~\E t \in Targets : Execute(t)
  BY DEF Execute, DrainLookup, DrainAcquire, HealthGate, AdapterPrepare,
         AdapterActivate, AdapterObserve, AdapterVerify, AdapterRollback, At
<1>6. ~\E t \in Targets : CommitItem(t)
  BY DEF CommitItem, CommitFenced, CommitPrepared, CommitFailed, CommitRefused,
         CommitActivated, CommitVerified, CommitVerifyRetry, CommitVerifyFailed,
         CommitRolledBack, CommitRollbackFailed, Commits, Finished
<1>7. CASE UNCHANGED vars
  BY <1>7 DEF vars
<1> QED BY <1>1, <1>2, <1>3, <1>4, <1>5, <1>6, <1>7 DEF Next

\* A campaign is rolled back by the reversal that leaves nothing pending.
LEMMA Reverses ==
  ASSUME TypeOK, LedgerInv, [Next]_vars,
         state' = "rolled_back", state # "rolled_back"
  PROVE  \E t \in Targets : /\ item[t].kind = "rollback"
                            /\ item'[t] = NoItem
                            /\ \A u \in Targets \ {t} : item'[u] = item[u]
                            /\ \A u \in Targets : ~Pending(att'[u])
<1>1. PICK t \in Targets : CommitRolledBack(t)
  <2>1. ~\E d \in BOOLEAN : Rollback(d)
    <3> SUFFICES ASSUME NEW d \in BOOLEAN, Rollback(d) PROVE FALSE
      OBVIOUS
    <3> DEFINE s1 == Try("failed", "rollback_planned", {"rollback_eligible"})
    <3>1. s1 \in {"failed", "rollback_planned"}
      BY TryEnds
    <3>2. state' = IF d THEN Try(s1, "rolling_back", {"rollback_eligible"}) ELSE s1
      BY DEF Rollback
    <3> HIDE DEF s1
    <3> QED BY <3>1, <3>2, TryEnds
  <2>2. ~\E t \in Targets : CommitVerified(t)
    BY VerifiedEnds
  <2> QED BY <2>1, <2>2, Moves DEF Elsewhere
<1> DEFINE a == Becomes(t, "rolled_back")
<1>2. Commits(t, "rollback", "ok", a) /\ rollback_complete(a)
  BY <1>1 DEF CommitRolledBack
<1> HIDE DEF a
<1> QED BY <1>2 DEF Commits, rollback_complete, TypeOK

\* A rollback is planned by a command that was accepted, which moves nothing.
LEMMA Enters ==
  ASSUME TypeOK, LedgerInv, [Next]_vars,
         state' \in {"rollback_planned", "rolling_back", "rolled_back"},
         state \notin {"rollback_planned", "rolling_back", "rolled_back"}
  PROVE  RollbackAccepted /\ \A t \in Targets : Rests(t)
<1>1. ~\E t \in Targets : CommitVerified(t)
  BY VerifiedEnds
<1>2. ~\E t \in Targets : CommitRolledBack(t)
  <2> SUFFICES ASSUME NEW t \in Targets, CommitRolledBack(t) PROVE FALSE
    OBVIOUS
  <2> QED BY DEF CommitRolledBack, Commits, Fence, Accepting
<1>3. PICK d \in BOOLEAN : Rollback(d)
  BY <1>1, <1>2, Moves DEF Elsewhere
<1> QED BY <1>3, QuietSteps DEF Rollback

-----------------------------------------------------------------------------
(***************************************************************************)
(* The inductive invariant.                                                *)
(***************************************************************************)
\* A verification was recorded, whether it was reversed later or not.
Seen(t) == ledger[t] \in {AV, AVR}

\* A work item belongs to an attempt in the state it was planned from, unless
\* that attempt was retired under it.
Aligned == \A t \in Targets :
  /\ item[t].kind = "none" => item[t].step = "none"
  /\ item[t].kind # "none" =>
       att[t].st \in {ExpectedState(item[t].kind), "aborted", "abandoned"}

\* Verified and rolled back are what the target is, not what was reported.
Confirmed == \A t \in Targets :
  /\ item[t].kind = "verify" /\ item[t].step = "ok" => version[t] = "new"
  /\ item[t].kind = "rollback" /\ item[t].step = "ok" => version[t] = "old"
  /\ att[t].st = "verified" => version[t] = "new"
  /\ att[t].st = "rolled_back" => version[t] = "old"

\* Nothing past the active stage was touched, everything before it verified.
Ordered == \A t \in Targets :
  /\ item[t].kind = "activate" \/ version[t] = "new" => StageOf[t] <= active
  /\ StageOf[t] < active => Seen(t)
  /\ item[t].kind = "verify" /\ att[t].st = "verifying" => StageOf[t] = active

Reversing(t) == \/ item[t].kind = "rollback"
                \/ att[t].st \in {"rolling_back", "rolled_back"}

\* A verification is undone only on the way back.
OneWay == \A t \in Targets :
  Reversing(t) \/ (Seen(t) /\ att[t].st # "verified") => state \in Backward

\* A terminal campaign has nothing in flight.
Closed ==
  /\ state = "completed" => \A t \in Targets : att[t].st = "verified"
  /\ state = "rolled_back" => \A t \in Targets : item[t].kind = "none"

\* A rollback is planned only when the forward batch is gone.
Together == \A t, u \in Targets :
  item[t].kind = "rollback" /\ item[u].kind # "none"
    => item[u].kind = "rollback" /\ ledger[u] # <<>>

\* Nothing is reversed past an irreversible boundary.
Bounded ==
  /\ \/ state \in {"rollback_planned", "rolling_back", "rolled_back"}
     \/ \E t \in Targets : Reversing(t)
     => Reversible /\ (Handoff => \A t \in Targets : ~Seen(t))
  /\ Handoff => \A t \in Targets : Seen(t) => att[t].st = "verified"

RInv == Aligned /\ Confirmed /\ Ordered /\ OneWay /\ Closed /\ Together /\ Bounded

\* The ledgers of the stories are different sequences.
LEMMA WordsDiffer ==
  /\ A # AV /\ A # AR /\ A # AVR /\ AV # AR /\ AV # AVR /\ AR # AVR
<1>1. A # AV /\ A # AR /\ A # AVR
  BY DEF A, AV, AR, AVR
<1>2. AV # AR
  BY DEF AV, AR
<1>3. AV # AVR /\ AR # AVR
  BY DEF AV, AR, AVR
<1> QED BY <1>1, <1>2, <1>3

LEMMA InitR == Init => RInv
<1> SUFFICES ASSUME Init PROVE RInv
  OBVIOUS
<1>1. \A t \in Targets : /\ item[t].kind = "none" /\ item[t].step = "none"
                         /\ att[t].st = "none" /\ version[t] = "old"
                         /\ ledger[t] = <<>> /\ StageOf[t] >= 1
  BY ShapeAssumption DEF Init, NoItem, NoAttempt, Stages
<1>2. state = "proposed" /\ active = 1
  BY DEF Init
<1>3. \A t \in Targets : ~Seen(t) /\ ~Reversing(t)
  BY <1>1, Words DEF Seen, Reversing
<1>4. \A t \in Targets : ~(StageOf[t] < active)
  BY <1>1, <1>2, ShapeAssumption DEF Stages
<1> QED BY <1>1, <1>2, <1>3, <1>4
        DEF RInv, Aligned, Confirmed, Ordered, OneWay, Closed, Together, Bounded

\* A recorded verification is never lost from the ledger, and a new one is
\* that of a target that is verified.
LEMMA SeenStays ==
  ASSUME NEW t \in Targets, TargetStep(t)
  PROVE  /\ Seen(t) => Seen(t)'
         /\ ~Seen(t) /\ Seen(t)' =>
              /\ att'[t].st = "verified"
              /\ item[t].kind = "verify" /\ state \in {"activating", "verifying"}
         /\ ledger[t] # <<>> => ledger'[t] # <<>>
BY Words, WordsDiffer DEF TargetStep, Rests, Drops, Retires, Claims, Calls, Passes,
                          Kept, Seen

\* What the descriptions of a step say of Aligned and Confirmed.
LEMMA AlignedStep ==
  ASSUME Aligned, \A t \in Targets : TargetStep(t)
  PROVE  Aligned'
<1> SUFFICES ASSUME NEW t \in Targets
             PROVE  /\ item'[t].kind = "none" => item'[t].step = "none"
                    /\ item'[t].kind # "none" =>
                         att'[t].st \in {ExpectedState(item'[t].kind), "aborted",
                                         "abandoned"}
  BY DEF Aligned
<1>1. TargetStep(t) /\ NoItem.kind = "none" /\ NoItem.step = "none"
  BY DEF NoItem
<1> QED BY <1>1 DEF Aligned, TargetStep, Rests, Drops, Retires, Claims, Calls,
                    Passes, ExpectedState

LEMMA ConfirmedStep ==
  ASSUME Aligned, Confirmed, \A t \in Targets : TargetStep(t)
  PROVE  Confirmed'
<1> SUFFICES ASSUME NEW t \in Targets
             PROVE  /\ item'[t].kind = "verify" /\ item'[t].step = "ok"
                         => version'[t] = "new"
                    /\ item'[t].kind = "rollback" /\ item'[t].step = "ok"
                         => version'[t] = "old"
                    /\ att'[t].st = "verified" => version'[t] = "new"
                    /\ att'[t].st = "rolled_back" => version'[t] = "old"
  BY DEF Confirmed
<1>1. TargetStep(t) /\ NoItem.kind = "none" /\ NoItem.step = "none"
  BY DEF NoItem
<1>2. /\ item[t].kind = "activate" =>
           att[t].st \in {"activating", "aborted", "abandoned"}
      /\ item[t].kind = "rollback" =>
           att[t].st \in {"rolling_back", "aborted", "abandoned"}
  BY DEF Aligned, ExpectedState
<1>3. /\ item[t].kind = "verify" /\ item[t].step = "ok" => version[t] = "new"
      /\ item[t].kind = "rollback" /\ item[t].step = "ok" => version[t] = "old"
      /\ att[t].st = "verified" => version[t] = "new"
      /\ att[t].st = "rolled_back" => version[t] = "old"
  BY DEF Confirmed
<1>4. CASE Rests(t) \/ Drops(t) \/ Retires(t)
  BY <1>1, <1>3, <1>4 DEF Rests, Drops, Retires, Kept
<1>5. CASE Claims(t)
  BY <1>5 DEF Claims
<1>6. CASE Calls(t)
  BY <1>2, <1>3, <1>6 DEF Calls
<1>7. CASE Passes(t)
  BY <1>1, <1>3, <1>7 DEF Passes
<1> QED BY <1>1, <1>4, <1>5, <1>6, <1>7 DEF TargetStep

\* The campaign moves to the next stage only by the last verification of this
\* one.
LEMMA Advances ==
  ASSUME TypeOK, LedgerInv, [Next]_vars
  PROVE  \/ active' = active
         \/ \E t \in Targets : Finishes(t) /\ active' = active + 1
<1>1. CASE \E t \in Targets : Execute(t) \/ CommitItem(t)
  BY <1>1, CallSteps, CommitSteps
<1>2. CASE Driver
  BY <1>2, DriverSteps, QuietSteps DEF Driver
<1>3. CASE Operator
  BY <1>3, QuietSteps, RetiringSteps DEF Operator
<1>4. CASE Preflight \/ Environment \/ UNCHANGED vars
  BY <1>4, QuietSteps, RetiringSteps
<1> QED BY <1>1, <1>2, <1>3, <1>4 DEF Next

LEMMA OrderedStep ==
  ASSUME TypeOK, LedgerInv, LedgerInv', [Next]_vars, Aligned, Ordered,
         \A t \in Targets : TargetStep(t)
  PROVE  Ordered'
<1>0. active \in Int /\ \A t \in Targets : StageOf[t] \in Int
  BY ShapeAssumption DEF TypeOK, Stages
<1>1. ASSUME NEW t \in Targets
      PROVE  item'[t].kind = "activate" \/ version'[t] = "new"
                  => StageOf[t] <= active
  <2>1. TargetStep(t) /\ NoItem.kind = "none"
    BY DEF NoItem
  <2>2. item[t].kind = "activate" \/ version[t] = "new" => StageOf[t] <= active
    BY DEF Ordered
  <2>3. Claims(t) /\ item'[t].kind = "activate" => StageOf[t] <= active
    BY <1>0 DEF Claims
  <2> QED BY <2>1, <2>2, <2>3
          DEF TargetStep, Rests, Drops, Retires, Claims, Calls, Passes, Kept
<1>2. ASSUME NEW t \in Targets, item'[t].kind = "verify", att'[t].st = "verifying"
      PROVE  StageOf[t] = active
  <2>1. TargetStep(t) /\ NoItem.kind = "none"
    BY DEF NoItem
  <2>2. item[t].kind = "verify" /\ att[t].st = "verifying" => StageOf[t] = active
    BY DEF Ordered
  <2> QED BY <1>2, <2>1, <2>2
          DEF TargetStep, Rests, Drops, Retires, Claims, Calls, Passes
<1>3. ASSUME NEW t \in Targets, StageOf[t] < active PROVE Seen(t)'
  BY <1>3, SeenStays DEF Ordered
<1>4. CASE active' = active
  BY <1>1, <1>2, <1>3, <1>4 DEF Ordered
<1>5. ASSUME NEW t \in Targets, Finishes(t), active' = active + 1
      PROVE  Ordered'
  <2>1. StageOf[t] = active
    BY <1>5 DEF Finishes, Ordered
  <2>2. ASSUME NEW u \in Targets, StageOf[u] = active
        PROVE  Seen(u)' /\ att'[u].st = "verified"
    <3>1. att'[u].st = "verified"
      BY <1>5, <2>1, <2>2 DEF Finishes, TargetsOf
    <3> QED BY <3>1 DEF LedgerInv, Story, Seen
  <2>3. ASSUME NEW u \in Targets, StageOf[u] < active' PROVE Seen(u)'
    <3>1. StageOf[u] < active \/ StageOf[u] = active
      BY <1>0, <1>5, <2>3
    <3> QED BY <1>3, <2>2, <3>1
  <2>4. ASSUME NEW u \in Targets,
               item'[u].kind = "activate" \/ version'[u] = "new"
        PROVE  StageOf[u] <= active'
    BY <1>0, <1>1, <1>5, <2>4
  <2>5. ASSUME NEW u \in Targets, item'[u].kind = "verify",
               att'[u].st = "verifying"
        PROVE  FALSE
    BY <1>2, <2>2, <2>5
  <2> QED BY <2>3, <2>4, <2>5 DEF Ordered
<1> QED BY <1>4, <1>5, Advances

LEMMA OneWayStep ==
  ASSUME [Next]_vars, OneWay, \A t \in Targets : TargetStep(t)
  PROVE  OneWay'
<1> SUFFICES ASSUME NEW t \in Targets,
                    Reversing(t)' \/ (Seen(t)' /\ att'[t].st # "verified")
             PROVE  state \in Backward
  BY Ratchet DEF OneWay
<1>1. TargetStep(t) /\ NoItem.kind = "none" /\ "rolling_back" \in Backward
  BY DEF NoItem, Backward
<1>2. Reversing(t) \/ (Seen(t) /\ att[t].st # "verified") => state \in Backward
  BY DEF OneWay
<1>3. CASE Reversing(t)'
  BY <1>1, <1>2, <1>3 DEF TargetStep, Rests, Drops, Retires, Claims, Calls, Passes,
                          Reversing, InFlight
<1>4. CASE Seen(t)' /\ att'[t].st # "verified"
  <2>1. Seen(t)
    BY <1>4, SeenStays
  <2>2. CASE att[t].st = "verified"
    BY <1>1, <1>4, <2>2 DEF TargetStep, Rests, Drops, Retires, Claims, Calls,
                            Passes, InFlight
  <2> QED BY <1>2, <2>1, <2>2
<1> QED BY <1>3, <1>4

\* Only a pass of the driver plans work.
LEMMA Planning ==
  ASSUME TypeOK, LedgerInv, [Next]_vars
  PROVE  PlanForward \/ PlanRollback \/ \A v \in Targets : ~Claims(v)
<1>0. ASSUME NEW v \in Targets,
             Rests(v) \/ Retires(v) \/ Drops(v) \/ Calls(v) \/ Passes(v)
      PROVE  ~Claims(v)
  BY <1>0 DEF NoItem, Rests, Retires, Drops, Calls, Passes, Claims
<1>1. CASE \E v \in Targets : Execute(v) \/ CommitItem(v)
  BY <1>0, <1>1, CallSteps, CommitSteps
<1>2. CASE Driver
  BY <1>0, <1>2, QuietSteps DEF Driver
<1>3. CASE Operator
  BY <1>0, <1>3, QuietSteps, RetiringSteps DEF Operator
<1>4. CASE Preflight \/ Environment \/ UNCHANGED vars
  BY <1>0, <1>4, QuietSteps, RetiringSteps
<1> QED BY <1>1, <1>2, <1>3, <1>4 DEF Next

LEMMA TogetherStep ==
  ASSUME TypeOK, LedgerInv, [Next]_vars, Together,
         \A t \in Targets : TargetStep(t)
  PROVE  Together'
<1>0. NoItem.kind = "none"
  BY DEF NoItem
<1> SUFFICES ASSUME NEW t \in Targets, NEW u \in Targets,
                    item'[t].kind = "rollback", item'[u].kind # "none"
             PROVE  item'[u].kind = "rollback" /\ ledger'[u] # <<>>
  BY DEF Together
<1>1. CASE \A v \in Targets : item[v].kind = "none"
  <2>1. Claims(t) /\ Claims(u)
    BY <1>0, <1>1 DEF TargetStep, Rests, Drops, Retires, Calls, Passes
  <2>2. state = "rolling_back"
    BY <2>1 DEF Claims, Forward
  <2> QED BY <2>1, <2>2 DEF Claims, Forward, Kept
<1>2. CASE \A v \in Targets : ~Claims(v)
  <2>1. item'[t].kind = item[t].kind /\ item'[u].kind = item[u].kind
    BY <1>0, <1>2 DEF TargetStep, Rests, Drops, Retires, Calls, Passes
  <2> QED BY <2>1, SeenStays DEF Together
<1>3. \/ \A v \in Targets : item[v].kind = "none"
      \/ \A v \in Targets : ~Claims(v)
  BY Planning, DriverSteps
<1> QED BY <1>1, <1>2, <1>3

\* A terminal campaign has an empty batch.
LEMMA TerminalIdle ==
  ASSUME TypeOK, Aligned, Closed, state \in TerminalStates
  PROVE  \A t \in Targets : item[t].kind = "none" /\ item[t].step = "none"
<1> SUFFICES ASSUME NEW t \in Targets PROVE item[t].kind = "none"
  BY DEF Aligned
<1>1. CASE state = "rolled_back"
  BY <1>1 DEF Closed
<1>2. CASE state = "completed"
  <2>1. att[t].st = "verified"
    BY <1>2 DEF Closed
  <2>2. item[t].kind \in {"none", "prepare", "activate", "verify", "rollback"}
    BY DEF TypeOK, WorkItems
  <2> QED BY <2>1, <2>2 DEF Aligned, ExpectedState
<1> QED BY <1>1, <1>2 DEF TerminalStates

LEMMA ClosedStep ==
  ASSUME TypeOK, LedgerInv, LedgerInv', [Next]_vars, RInv, Ordered', OneWay',
         \A t \in Targets : TargetStep(t)
  PROVE  Closed'
<1>0. NoItem.kind = "none" /\ Closed /\ Ordered /\ Together /\ Aligned
  BY DEF NoItem, RInv
<1>1. ASSUME state' = "completed", NEW u \in Targets
      PROVE  att'[u].st = "verified"
  <2>1. CASE state = "completed"
    <3>1. att[u].st = "verified" /\ TargetStep(u)
      BY <1>0, <2>1 DEF Closed
    <3> QED BY <2>1, <3>1 DEF TargetStep, Rests, Drops, Retires, Claims, Calls,
                              Passes, InFlight
  <2>2. CASE state # "completed"
    <3>1. PICK t \in Targets : Finishes(t) /\ active = NumStages /\ active' = active
      BY <1>1, <2>2, Ends
    <3>2. StageOf[t] = NumStages
      BY <1>0, <3>1 DEF Finishes, Ordered
    <3>3. CASE StageOf[u] = NumStages
      BY <3>1, <3>2, <3>3 DEF Finishes, TargetsOf
    <3>4. CASE StageOf[u] # NumStages
      <4>1. StageOf[u] < active'
        BY <3>1, <3>4, ShapeAssumption DEF Stages
      <4>2. Seen(u)'
        BY <4>1 DEF Ordered
      <4>3. state' \notin Backward
        BY <1>1 DEF Backward
      <4> QED BY <4>2, <4>3 DEF OneWay
    <3> QED BY <3>3, <3>4
  <2> QED BY <2>1, <2>2
<1>2. ASSUME state' = "rolled_back", NEW u \in Targets
      PROVE  item'[u].kind = "none"
  <2>1. CASE state = "rolled_back"
    <3>1. item[u].kind = "none" /\ TargetStep(u) /\ state \notin Forward
      BY <1>0, <2>1 DEF Closed, Forward
    <3> QED BY <1>0, <2>1, <3>1 DEF TargetStep, Rests, Drops, Retires, Claims,
                                    Calls, Passes
  <2>2. CASE state # "rolled_back"
    <3>1. PICK t \in Targets : /\ item[t].kind = "rollback"
                               /\ item'[t] = NoItem
                               /\ \A v \in Targets \ {t} : item'[v] = item[v]
                               /\ \A v \in Targets : ~Pending(att'[v])
      BY <1>2, <2>2, Reverses
    <3> SUFFICES ASSUME item'[u].kind # "none" PROVE FALSE
      OBVIOUS
    <3>2. item'[u] = item[u] /\ item[u].kind = "rollback" /\ ledger'[u] # <<>>
      BY <1>0, <3>1, SeenStays DEF Together
    <3>3. att'[u].st \in {"rolling_back", "aborted", "abandoned"}
      BY <1>0, <3>2, AlignedStep DEF Aligned, ExpectedState
    <3>4. att'[u].obs
      BY <3>2 DEF LedgerInv, Story
    <3> QED BY <3>1, <3>3, <3>4 DEF Pending
  <2> QED BY <2>1, <2>2
<1> QED BY <1>1, <1>2 DEF Closed

LEMMA BoundedStep ==
  ASSUME TypeOK, LedgerInv, [Next]_vars, RInv, \A t \in Targets : TargetStep(t)
  PROVE  Bounded'
<1> DEFINE Back == {"rollback_planned", "rolling_back", "rolled_back"}
<1>0. Bounded /\ OneWay
  BY DEF RInv
<1>1. ASSUME NEW t \in Targets, Reversing(t)'
      PROVE  Reversing(t) \/ state = "rolling_back"
  BY <1>1, NoItem.kind = "none"
     DEF TargetStep, Rests, Drops, Retires, Claims, Calls, Passes, Reversing,
         InFlight, NoItem
<1>2. ASSUME state \in Backward, NEW t \in Targets, Seen(t)'
      PROVE  Seen(t)
  BY <1>2, SeenStays DEF Backward
<1>3. ASSUME \/ state' \in Back
             \/ \E t \in Targets : Reversing(t)'
      PROVE  Reversible /\ (Handoff => \A t \in Targets : ~Seen(t)')
  <2>1. CASE state \in Back \/ \E t \in Targets : Reversing(t)
    <3>1. Reversible /\ (Handoff => \A t \in Targets : ~Seen(t))
      BY <1>0, <2>1 DEF Bounded
    <3>2. state \in Backward
      BY <1>0, <2>1 DEF Backward, OneWay
    <3> QED BY <1>2, <3>1, <3>2
  <2>2. CASE state \notin Back /\ ~\E t \in Targets : Reversing(t)
    <3>1. state' \in Back
      BY <1>1, <1>3, <2>2
    <3>2. RollbackAccepted /\ \A t \in Targets : Rests(t)
      BY <2>2, <3>1, Enters
    <3>3. Reversible /\ (Handoff => \A t \in Targets : att[t].st # "verified")
      BY <3>2 DEF RollbackAccepted
    <3>4. Handoff => \A t \in Targets : ~Seen(t)
      BY <1>0, <3>3 DEF Bounded
    <3>5. \A t \in Targets : ledger'[t] = ledger[t]
      BY <3>2 DEF Rests, Kept
    <3> QED BY <3>3, <3>4, <3>5 DEF Seen
  <2> QED BY <2>1, <2>2
<1>4. ASSUME Handoff, NEW t \in Targets, Seen(t)'
      PROVE  att'[t].st = "verified"
  <2>1. CASE ~Seen(t)
    BY <1>4, <2>1, SeenStays
  <2>2. CASE Seen(t)
    <3>1. att[t].st = "verified" /\ state # "rolling_back" /\ TargetStep(t)
      BY <1>0, <1>4, <2>2 DEF Bounded
    <3> QED BY <3>1 DEF TargetStep, Rests, Drops, Retires, Claims, Calls, Passes,
                        InFlight
  <2> QED BY <2>1, <2>2
<1> QED BY <1>3, <1>4 DEF Bounded

-----------------------------------------------------------------------------
(***************************************************************************)
(* The theorems.                                                           *)
(***************************************************************************)
LEMMA StepR ==
  TypeOK /\ LedgerInv /\ LedgerInv' /\ RInv /\ [Next]_vars => RInv'
<1> SUFFICES ASSUME TypeOK, LedgerInv, LedgerInv', RInv, [Next]_vars PROVE RInv'
  OBVIOUS
<1>1. \A t \in Targets : TargetStep(t)
  BY TargetSteps
<1>2. Aligned /\ Confirmed /\ Ordered /\ OneWay /\ Together
  BY DEF RInv
<1>3. Aligned' /\ Confirmed'
  BY <1>1, <1>2, AlignedStep, ConfirmedStep
<1>4. Ordered' /\ OneWay' /\ Together'
  BY <1>1, <1>2, OrderedStep, OneWayStep, TogetherStep
<1>5. Closed' /\ Bounded'
  BY <1>1, <1>4, ClosedStep, BoundedStep
<1> QED BY <1>3, <1>4, <1>5 DEF RInv

\* What the engine knows of its targets holds in every reachable state.
LEMMA RInvariant == Spec => []RInv
BY InitR, StepR, StoryInvariant, TypeCorrect, PTL DEF Spec

\* What the ledger records of a verification is Seen.
LEMMA SeenRecorded ==
  ASSUME LedgerInv, NEW t \in Targets
  PROVE  Recorded(t, "verified") <=> Seen(t)
<1>1. ledger[t] \in {<<>>, A, AV, AR, AVR}
  BY DEF LedgerInv, Story
<1>2. ledger[t] \in {AV, AVR} <=> Recorded(t, "verified")
  BY <1>1 DEF Recorded, A, AV, AR, AVR
<1> QED BY <1>2 DEF Seen

\* A completed campaign has every target on the new version, applied once and
\* verified once (commit_locked's verify branch, transition_locked).
THEOREM CompletedIsTrue == Spec => []CompletedTruth
<1>1. LedgerInv /\ RInv => CompletedTruth
  <2> SUFFICES ASSUME LedgerInv, RInv, state = "completed", NEW t \in Targets
               PROVE  version[t] = "new" /\ ledger[t] = <<"applied", "verified">>
    BY DEF CompletedTruth
  <2>1. att[t].st = "verified"
    BY DEF RInv, Closed
  <2>2. version[t] = "new"
    BY <2>1 DEF RInv, Confirmed
  <2>3. ledger[t] = AV
    BY <2>1 DEF LedgerInv, Story
  <2> QED BY <2>2, <2>3 DEF AV
<1> QED BY <1>1, StoryInvariant, RInvariant, PTL

\* A target of a later stage is touched only after every earlier one was
\* verified (plan_work_locked claims targets of active_stage only).
THEOREM StagesAreBarriers == Spec => []StageBarrier
<1>1. TypeOK /\ LedgerInv /\ RInv => StageBarrier
  <2> SUFFICES ASSUME TypeOK, LedgerInv, RInv, NEW t \in Targets, NEW u \in Targets,
                      StageOf[t] < StageOf[u], version[u] = "new"
               PROVE  Recorded(t, "verified")
    BY DEF StageBarrier
  <2>1. StageOf[u] <= active
    BY DEF RInv, Ordered
  <2>2. StageOf[t] < active
    BY <2>1, ShapeAssumption DEF TypeOK, Stages
  <2> QED BY <2>2, SeenRecorded DEF RInv, Ordered
<1> QED BY <1>1, TypeCorrect, StoryInvariant, RInvariant, PTL

\* A target that was rolled back stays on the old version: its attempt is not
\* revived and no item of an earlier batch is left to reach it.
THEOREM ReversalHolds == Spec => []ReversedStaysOld
<1>1. LedgerTruth /\ RInv => ReversedStaysOld
  BY DEF LedgerTruth, RInv, Confirmed, ReversedStaysOld
<1> QED BY <1>1, LedgerCorrect, RInvariant, PTL

\* A step from a terminal state moves neither the campaign nor its targets.
LEMMA SealedStep ==
  ASSUME TypeOK, TypeOK', LedgerInv, RInv, [Next]_vars, state \in TerminalStates
  PROVE  /\ UNCHANGED <<state, gen, stage, ledger, version>>
         /\ \A t \in Targets : ~InFlight(att[t].st) => att'[t].st = att[t].st
<1>1. \A t \in Targets : item[t].kind = "none" /\ item[t].step = "none"
  BY TerminalIdle DEF RInv
<1>2. UNCHANGED <<state, gen, stage>>
  BY <1>1, Sealed
<1>3. \A t \in Targets : TargetStep(t)
  BY TargetSteps
<1>4. ASSUME NEW t \in Targets
      PROVE  /\ ledger'[t] = ledger[t] /\ version'[t] = version[t]
             /\ ~InFlight(att[t].st) => att'[t].st = att[t].st
  <2>1. TargetStep(t) /\ state \notin Forward /\ state # "rolling_back"
    BY <1>3 DEF TerminalStates, Forward
  <2> QED BY <1>1, <2>1 DEF TargetStep, Rests, Drops, Retires, Claims, Calls,
                            Passes, Kept
<1>5. ledger' = ledger /\ version' = version
  BY <1>4 DEF TypeOK
<1> QED BY <1>2, <1>4, <1>5

\* Nothing changes a terminal campaign, its ledger or its targets, and no
\* attempt at rest moves (kRules, is_terminal, the empty batch).
THEOREM TerminalIsSealed == Spec => TerminalSealed
<1> DEFINE Step0 ==
             (state \in {"completed", "rolled_back"}) =>
               /\ UNCHANGED <<state, gen, stage, ledger, version>>
               /\ \A t \in Targets : ~InFlight(att[t].st) => att'[t].st = att[t].st
<1>1. TypeOK /\ TypeOK' /\ LedgerInv /\ RInv /\ [Next]_vars => Step0
  BY SealedStep DEF TerminalStates
<1>2. TerminalSealed <=> [][Step0]_vars
  BY DEF TerminalSealed
<1> QED BY <1>1, <1>2, TypeCorrect, StoryInvariant, RInvariant, PTL DEF Spec

\* Past an irreversible boundary no target returns to the old version: rollback()
\* refuses, and no rollback item exists that was planned before.
THEOREM BoundaryHolds == Spec => BoundaryIsFinal
<1> DEFINE Step0 ==
             ~Reversible \/ (Handoff /\ \E t \in Targets : Recorded(t, "verified"))
               => \A t \in Targets : version[t] = "new" => version'[t] = "new"
<1>1. TypeOK /\ LedgerInv /\ RInv /\ [Next]_vars => Step0
  <2> SUFFICES ASSUME TypeOK, LedgerInv, RInv, [Next]_vars,
                      NEW t \in Targets, version[t] = "new", version'[t] # "new"
               PROVE  Reversible
                      /\ (Handoff => \A u \in Targets : ~Recorded(u, "verified"))
    OBVIOUS
  <2>1. TargetStep(t)
    BY TargetSteps
  <2>2. item[t].kind = "rollback"
    BY <2>1 DEF TargetStep, Rests, Drops, Retires, Claims, Calls, Passes, Kept
  <2>3. Reversible /\ (Handoff => \A u \in Targets : ~Seen(u))
    BY <2>2 DEF RInv, Bounded, Reversing
  <2> QED BY <2>3, SeenRecorded
<1>2. BoundaryIsFinal <=> [][Step0]_vars
  BY DEF BoundaryIsFinal
<1> QED BY <1>1, <1>2, TypeCorrect, StoryInvariant, RInvariant, PTL DEF Spec

Requested == {t \in Targets : item[t].kind = "activate"}

\* What a pass of the driver claims fits beside what is activating already.
LEMMA ClaimsFit ==
  ASSUME TypeOK, LedgerInv, PlanForward
  PROVE  Cardinality(Requested') <= Limit
<1> DEFINE s == PlannedState
<1>1. PICK c \in SUBSET Claimable(s) :
        /\ MayClaim(c, s)
        /\ item' = [t \in Targets |->
                      IF t \in ToCreate(s) \cup ToRepeat(s) THEN NewItem("prepare")
                      ELSE IF t \in c THEN NewItem("activate")
                      ELSE IF t \in ToVerify(s) THEN NewItem("verify")
                      ELSE NoItem]
  BY DEF PlanForward
<1> HIDE DEF s
<1>2. Requested' \subseteq c
  BY <1>1 DEF Requested, NewItem, NoItem
<1>3. c \subseteq Targets /\ Activating \subseteq Targets
  BY DEF Claimable, TargetsOf, Activating
<1>4. /\ IsFiniteSet(c) /\ IsFiniteSet(Requested') /\ IsFiniteSet(Activating)
      /\ Cardinality(Requested') <= Cardinality(c)
  BY <1>2, <1>3, FiniteAssumption, FS_Subset
<1>5. /\ Cardinality(c) \in Nat /\ Cardinality(Requested') \in Nat
      /\ Cardinality(Activating) \in Nat
  BY <1>4, FS_CardinalityType
<1>6. CASE c = {}
  <2>1. Cardinality(c) = 0
    BY <1>6, FS_EmptySet
  <2> QED BY <1>4, <1>5, <2>1, ShapeAssumption
<1>7. CASE c # {}
  <2>1. Cardinality(c) + Cardinality(Activating) <= Limit
    BY <1>1, <1>7 DEF MayClaim
  <2> QED BY <1>4, <1>5, <2>1, ShapeAssumption
<1> QED BY <1>6, <1>7

\* Never more activations in flight than the limit: every batch fits, and no
\* item of an earlier one is left when it is planned.
THEOREM LimitHolds == Spec => []ParallelLimit
<1>0. ParallelLimit <=> Cardinality(Requested) <= Limit
  BY DEF ParallelLimit, Requested
<1>1. Init => ParallelLimit
  <2> SUFFICES ASSUME Init PROVE Cardinality(Requested) <= Limit
    BY <1>0
  <2>1. Requested = {}
    BY DEF Init, NoItem, Requested
  <2> QED BY <2>1, FS_EmptySet, ShapeAssumption
<1>2. TypeOK /\ LedgerInv /\ ParallelLimit /\ [Next]_vars => ParallelLimit'
  <2> SUFFICES ASSUME TypeOK, LedgerInv, Cardinality(Requested) <= Limit, [Next]_vars
               PROVE  Cardinality(Requested') <= Limit
    BY <1>0 DEF ParallelLimit, Requested
  <2>1. CASE PlanForward
    BY <2>1, ClaimsFit
  <2>2. CASE ~PlanForward
    <3>1. \A t \in Targets : TargetStep(t)
      BY TargetSteps
    <3>2. ASSUME NEW t \in Targets, Claims(t) PROVE item'[t].kind = "rollback"
      <4>1. PlanRollback
        BY <2>2, <3>2, Planning
      <4> QED BY <3>2, <4>1 DEF PlanRollback, NewItem, NoItem, Claims
    <3>3. Requested' \subseteq Requested
      BY <3>1, <3>2 DEF TargetStep, Rests, Drops, Retires, Calls, Passes, NoItem,
                        Requested
    <3>4. IsFiniteSet(Requested)
      BY FiniteAssumption, FS_Subset DEF Requested
    <3>5. /\ Cardinality(Requested') <= Cardinality(Requested)
          /\ Cardinality(Requested') \in Nat /\ Cardinality(Requested) \in Nat
      BY <3>3, <3>4, FS_Subset, FS_CardinalityType
    <3> QED BY <3>5, ShapeAssumption
  <2> QED BY <2>1, <2>2
<1> QED BY <1>1, <1>2, TypeCorrect, StoryInvariant, PTL DEF Spec
-----------------------------------------------------------------------------
(***************************************************************************)
(* The refinement of StagedUpgrade.                                        *)
(***************************************************************************)
\* An activation in flight is not recorded yet.
Unrecorded == \A t \in Targets : item[t].kind = "activate" => ledger[t] = <<>>

\* Once something is being reversed, nothing is left of the way forward.
Behind == \A t, u \in Targets :
  Reversing(u) /\ item[t].kind # "none" => item[t].kind = "rollback"

LEMMA InitBehind == Init => Unrecorded /\ Behind
BY DEF Init, NoItem, Unrecorded, Behind

LEMMA StepBehind ==
  ASSUME TypeOK, LedgerInv, RInv, RInv', Unrecorded, Behind, [Next]_vars
  PROVE  Unrecorded' /\ Behind'
<1>0. (\A t \in Targets : TargetStep(t)) /\ NoItem.kind = "none"
  BY TargetSteps DEF NoItem
<1>1. ASSUME NEW t \in Targets, item'[t].kind = "activate"
      PROVE  ledger'[t] = <<>>
  <2>1. TargetStep(t) /\ (item[t].kind = "activate" => ledger[t] = <<>>)
    BY <1>0 DEF Unrecorded
  <2>2. CASE Claims(t)
    <3>1. att[t].st = "prepared" /\ ledger'[t] = ledger[t]
      BY <1>1, <2>2 DEF Claims, Kept
    <3> QED BY <3>1 DEF LedgerInv, Story
  <2>3. CASE ~Claims(t)
    BY <1>0, <1>1, <2>1, <2>3
       DEF TargetStep, Rests, Drops, Retires, Calls, Passes, Kept
  <2> QED BY <2>2, <2>3
<1>2. ASSUME NEW t \in Targets, NEW u \in Targets,
             Reversing(u)', item'[t].kind # "none"
      PROVE  item'[t].kind = "rollback"
  <2>1. TargetStep(t) /\ TargetStep(u)
    BY <1>0
  <2>2. CASE Reversing(u)
    <3>1. state \in Backward
      BY <2>2 DEF RInv, OneWay
    <3>2. Claims(t) => item'[t].kind = "rollback"
      BY <3>1 DEF Claims, Forward, Backward
    <3>3. item[t].kind # "none" => item[t].kind = "rollback"
      BY <2>2 DEF Behind
    <3> QED BY <1>0, <1>2, <2>1, <3>2, <3>3
            DEF TargetStep, Rests, Drops, Retires, Calls, Passes
  <2>3. CASE ~Reversing(u)
    <3>1. item'[u].kind = "rollback"
      BY <1>0, <1>2, <2>1, <2>3
         DEF TargetStep, Rests, Drops, Retires, Claims, Calls, Passes, Reversing,
             InFlight
    <3> QED BY <1>2, <3>1 DEF RInv, Together
  <2> QED BY <2>2, <2>3
<1> QED BY <1>1, <1>2 DEF Unrecorded, Behind

LEMMA BehindInvariant == Spec => [](Unrecorded /\ Behind)
<1> USE InitBehind, StepBehind
<1>1. TypeOK /\ LedgerInv /\ RInv /\ RInv' /\ (Unrecorded /\ Behind) /\ [Next]_vars
        => (Unrecorded /\ Behind)'
  OBVIOUS
<1> QED BY <1>1, TypeCorrect, StoryInvariant, RInvariant, PTL DEF Spec

\* One step changes what is seen of at most one target.
LEMMA OneTarget ==
  ASSUME TypeOK, LedgerInv, [Next]_vars
  PROVE  \/ \A t \in Targets : Kept(t)
         \/ \E t \in Targets : /\ Calls(t) \/ Passes(t)
                               /\ \A u \in Targets \ {t} : Kept(u)
<1>1. CASE \E t \in Targets : Execute(t) \/ CommitItem(t)
  BY <1>1, CallSteps, CommitSteps DEF Rests, Drops
<1>2. CASE Driver
  BY <1>2, DriverSteps, QuietSteps DEF Driver, Rests, Drops, Claims
<1>3. CASE Operator
  BY <1>3, QuietSteps, RetiringSteps DEF Operator, Rests, Drops, Retires
<1>4. CASE Preflight \/ Environment \/ UNCHANGED vars
  BY <1>4, QuietSteps, RetiringSteps DEF Rests, Drops, Retires
<1> QED BY <1>1, <1>2, <1>3, <1>4 DEF Next

\* A verdict is given with the record it rests on.
LEMMA Completes ==
  ASSUME TypeOK, LedgerInv, LedgerInv', [Next]_vars,
         state' = "completed", state # "completed"
  PROVE  \E t \in Targets : ledger[t] = A /\ ledger'[t] = AV
<1>1. PICK t \in Targets : Finishes(t)
  BY Ends
<1>2. att[t].st = "verifying" /\ att'[t].st = "verified"
  BY <1>1 DEF Finishes
<1> QED BY <1>2 DEF LedgerInv, Story

LEMMA Returns ==
  ASSUME TypeOK, LedgerInv, LedgerInv', RInv, [Next]_vars,
         state' = "rolled_back", state # "rolled_back"
  PROVE  /\ \E t \in Targets : ledger'[t] # ledger[t] /\ ledger'[t] \in {AR, AVR}
         /\ \A u \in Targets : ledger'[u] # AV
<1>1. PICK t \in Targets : /\ item[t].kind = "rollback" /\ item'[t] = NoItem
                           /\ \A u \in Targets : ~Pending(att'[u])
  BY Reverses
<1>2. ASSUME NEW u \in Targets PROVE ledger'[u] # AV
  BY <1>1, Words, WordsDiffer DEF LedgerInv, Story, Pending
<1>3. /\ TargetStep(t) /\ NoItem.kind = "none" /\ ledger[t] # <<>>
      /\ att[t].st \in {"rolling_back", "aborted", "abandoned"}
  BY <1>1, TargetSteps DEF NoItem, RInv, Together, Aligned, ExpectedState
<1>4. att'[t].obs = (ledger'[t] # <<>>)
  BY DEF LedgerInv, Story
<1>5. ~(ledger'[t] = ledger[t] /\ att'[t].st \in {"failed", "rolling_back", "aborted", "abandoned"})
  BY <1>1, <1>3, <1>4 DEF Pending
<1>6. ~Drops(t)
  BY <1>3, <1>5 DEF Drops, Kept
<1>7. Passes(t)
  BY <1>1, <1>3, <1>6 DEF TargetStep, Rests, Retires, Claims, Calls
<1>8. ledger'[t] # ledger[t] /\ ledger'[t] \in {AR, AVR}
  BY <1>1, <1>5, <1>7, WordsDiffer DEF Passes
<1> QED BY <1>2, <1>8

\* The verdict rests on what is recorded in the same step.
LEMMA VerdictGiven ==
  ASSUME TypeOK, LedgerInv, LedgerInv', RInv, [Next]_vars, Verdict = "open"
  PROVE  \/ Verdict' = "open"
         \/ /\ Verdict' = "completed"
            /\ \E t \in Targets : ledger[t] = A /\ ledger'[t] = AV
         \/ /\ Verdict' = "rolled_back"
            /\ \E t \in Targets : ledger'[t] # ledger[t] /\ ledger'[t] \in {AR, AVR}
            /\ \A u \in Targets : ledger'[u] # AV
<1>1. state \notin {"completed", "rolled_back"}
  BY DEF Verdict
<1> QED BY <1>1, Completes, Returns DEF Verdict

LEMMA InitUpgrades == Init => Upgrade!Init
BY DEF Init, Upgrade!Init, Verdict

\* What the invariants say of the outside.
LEMMA Outside ==
  ASSUME TypeOK, LedgerInv, RInv, Unrecorded, Behind, NEW t \in Targets
  PROVE  /\ item[t].kind \in {"activate", "verify"} => Upgrade!WayForward
         /\ item[t].kind = "activate" => ledger[t] = <<>> /\ Upgrade!Turn(t)
         /\ item[t].kind = "rollback" => ledger[t] \in {A, AV} /\ Upgrade!WayBack
<1>0. Upgrade!Applied = A /\ Upgrade!Verified = AV
  BY DEF Upgrade!Applied, Upgrade!Verified, A, AV
<1>1. ASSUME item[t].kind \in {"activate", "verify"}, NEW u \in Targets
      PROVE  ledger[u] \in {<<>>, A, AV}
  <2>1. ~Reversing(u)
    BY <1>1 DEF Behind
  <2> QED BY <2>1 DEF Reversing, LedgerInv, Story
<1>2. ASSUME item[t].kind = "activate", NEW u \in Targets, StageOf[u] < StageOf[t]
      PROVE  ledger[u] = AV
  <2>1. StageOf[t] <= active /\ (StageOf[u] < active => Seen(u))
    BY <1>2 DEF RInv, Ordered
  <2>2. Seen(u)
    BY <1>2, <2>1, ShapeAssumption DEF TypeOK, Stages
  <2> QED BY <1>1, <1>2, <2>2, Words, WordsDiffer DEF Seen
<1>3. ASSUME item[t].kind = "rollback"
      PROVE  /\ ledger[t] \in {A, AV} /\ Reversible
             /\ Handoff => \A u \in Targets : ledger[u] # AV
  <2>1. /\ att[t].st \in {"rolling_back", "aborted", "abandoned"}
        /\ ledger[t] # <<>> /\ Reversing(t)
    BY <1>3 DEF RInv, Aligned, Together, ExpectedState, Reversing
  <2>2. ledger[t] \in {A, AV}
    BY <2>1 DEF LedgerInv, Story
  <2> QED BY <2>1, <2>2 DEF RInv, Bounded, Seen
<1>4. item[t].kind = "activate" => ledger[t] = <<>>
  BY DEF Unrecorded
<1> QED BY <1>0, <1>1, <1>2, <1>3, <1>4
        DEF Upgrade!WayForward, Upgrade!Turn, Upgrade!WayBack

\* Every step of the engine is a step of StagedUpgrade, or none.
LEMMA StepUpgrades ==
  ASSUME TypeOK, TypeOK', LedgerInv, LedgerInv', RInv, RInv', Unrecorded, Behind,
         [Next]_vars
  PROVE  [Upgrade!Next]_(Upgrade!vars)
<1>0. Upgrade!Applied = A /\ Upgrade!Verified = AV
  BY DEF Upgrade!Applied, Upgrade!Verified, A, AV
<1>v. ledger \in [Targets -> Seq({"applied", "verified", "rolled_back"})]
      /\ version \in [Targets -> {"old", "new"}]
      /\ ledger' \in [Targets -> Seq({"applied", "verified", "rolled_back"})]
      /\ version' \in [Targets -> {"old", "new"}]
  BY DEF TypeOK
<1>1. CASE Verdict # "open"
  <2>1. UNCHANGED <<state, ledger, version>>
    BY <1>1, SealedStep DEF Verdict, TerminalStates
  <2> QED BY <2>1 DEF Upgrade!vars, Verdict
<1>2. CASE Verdict = "open" /\ \A t \in Targets : Kept(t)
  <2>1. ledger' = ledger /\ version' = version
    BY <1>2, <1>v DEF Kept
  <2>2. Verdict' = "open"
    BY <1>2, <2>1, VerdictGiven, WordsDiffer
  <2> QED BY <1>2, <2>1, <2>2 DEF Upgrade!vars
<1>3. ASSUME Verdict = "open", NEW t \in Targets, Calls(t) \/ Passes(t),
             \A u \in Targets \ {t} : Kept(u)
      PROVE  [Upgrade!Next]_(Upgrade!vars)
  <2>0. \A u \in Targets \ {t} : ledger'[u] = ledger[u] /\ version'[u] = version[u]
    BY <1>3 DEF Kept
  <2>1. CASE ledger'[t] = ledger[t]
    <3>1. ledger' = ledger
      BY <1>v, <2>0, <2>1
    <3>2. Verdict' = "open"
      BY <1>3, <3>1, VerdictGiven, WordsDiffer
    <3>3. CASE version'[t] = version[t]
      <4>1. version' = version
        BY <1>v, <2>0, <3>3
      <4> QED BY <1>3, <3>1, <3>2, <4>1 DEF Upgrade!vars
    <3>4. CASE version'[t] # version[t]
      <4>1. \/ item[t].kind = "activate" /\ version'[t] = "new"
            \/ item[t].kind = "rollback" /\ version'[t] = "old"
        BY <1>3, <3>4 DEF Calls, Passes
      <4>2. version' = [version EXCEPT ![t] = version'[t]]
        BY <1>v, <2>0
      <4>3. Upgrade!Install(t) \/ Upgrade!Uninstall(t)
        BY <1>0, <1>3, <3>1, <3>2, <4>1, <4>2, Outside
           DEF Upgrade!Install, Upgrade!Uninstall
      <4> QED BY <1>3, <4>3 DEF Upgrade!Next
    <3> QED BY <3>3, <3>4
  <2>2. CASE ledger'[t] # ledger[t]
    <3>1. Passes(t) /\ version'[t] = version[t]
      BY <1>3, <2>2 DEF Calls, Passes
    <3>2. version' = version
      BY <1>v, <2>0, <3>1
    <3>3. ledger' = [ledger EXCEPT ![t] = ledger'[t]]
      BY <1>v, <2>0
    <3>4. Upgrade!Record(t, "applied") \/ ledger'[t] # Append(ledger[t], "applied")
      BY <3>3 DEF Upgrade!Record
    <3>5. Upgrade!Record(t, "verified") \/ ledger'[t] # Append(ledger[t], "verified")
      BY <3>3 DEF Upgrade!Record
    <3>6. Upgrade!Record(t, "rolled_back") \/ ledger'[t] # Append(ledger[t], "rolled_back")
      BY <3>3 DEF Upgrade!Record
    <3>7. CASE item[t].kind = "activate"
      <4>1. ledger[t] = <<>> /\ ledger'[t] = A
        BY <2>2, <3>1, <3>7 DEF Passes
      <4>2. Verdict' = "open"
        BY <1>3, <2>0, <4>1, VerdictGiven, Words, WordsDiffer
      <4>3. Upgrade!Apply(t)
        BY <1>3, <3>2, <3>4, <3>7, <4>1, <4>2, Outside, Words DEF Upgrade!Apply
      <4> QED BY <1>3, <4>3 DEF Upgrade!Next
    <3>8. CASE item[t].kind = "verify"
      <4>1. ledger[t] = A /\ ledger'[t] = AV /\ item[t].step = "ok"
        BY <2>2, <3>1, <3>8 DEF Passes
      <4>2. version[t] = "new"
        BY <3>8, <4>1 DEF RInv, Confirmed
      <4>3. \/ Verdict' = "open"
            \/ /\ Verdict' = "completed"
               /\ \A u \in Targets : version[u] = "new" /\ ledger'[u] = AV
        <5>1. Verdict' \in {"open", "completed"}
          BY <1>3, <2>0, <4>1, VerdictGiven, WordsDiffer
        <5>2. ASSUME Verdict' = "completed", NEW u \in Targets
              PROVE  version'[u] = "new" /\ ledger'[u] = AV
          <6>1. att'[u].st = "verified"
            BY <5>2 DEF Verdict, RInv, Closed
          <6> QED BY <6>1 DEF RInv, Confirmed, LedgerInv, Story
        <5> QED BY <3>2, <5>1, <5>2
      <4>4. Upgrade!Verify(t)
        BY <1>0, <1>3, <3>2, <3>5, <3>8, <4>1, <4>2, <4>3, Outside, Words
           DEF Upgrade!Verify
      <4> QED BY <1>3, <4>4 DEF Upgrade!Next
    <3>9. CASE item[t].kind = "rollback"
      <4>1. /\ item[t].step = "ok"
            /\ \/ ledger[t] = A /\ ledger'[t] = AR
               \/ ledger[t] = AV /\ ledger'[t] = AVR
        BY <2>2, <3>1, <3>9 DEF Passes
      <4>2. version[t] = "old"
        BY <3>9, <4>1 DEF RInv, Confirmed
      <4>3. \/ Verdict' = "open"
            \/ Verdict' = "rolled_back" /\ \A u \in Targets : ledger'[u] # AV
        BY <1>3, <2>0, <4>1, VerdictGiven, WordsDiffer
      <4>4. Upgrade!Reverse(t)
        BY <1>0, <1>3, <3>2, <3>6, <3>9, <4>1, <4>2, <4>3, Outside, Words
           DEF Upgrade!Reverse
      <4> QED BY <1>3, <4>4 DEF Upgrade!Next
    <3> QED BY <2>2, <3>1, <3>7, <3>8, <3>9 DEF Passes
  <2> QED BY <2>1, <2>2
<1> QED BY <1>1, <1>2, <1>3, OneTarget DEF Verdict

\* For every set of targets, plan, fault, command and restart the engine does
\* nothing to its targets, its ledger and its verdict but what StagedUpgrade
\* promises (plan_work_locked, commit_locked, rollback, transition_locked).
THEOREM ImplementsUpgrade == Spec => ImplementsStagedUpgrade
<1>1. TypeOK /\ TypeOK' /\ LedgerInv /\ LedgerInv' /\ RInv /\ RInv'
        /\ (Unrecorded /\ Behind) /\ [Next]_vars => [Upgrade!Next]_(Upgrade!vars)
  BY StepUpgrades
<1> QED BY <1>1, InitUpgrades, TypeCorrect, StoryInvariant, RInvariant,
           BehindInvariant, PTL
        DEF Spec, ImplementsStagedUpgrade, Upgrade!Spec
=============================================================================
