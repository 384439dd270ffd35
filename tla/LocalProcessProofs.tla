------------------------- MODULE LocalProcessProofs -------------------------
(***************************************************************************)
(* For every set of builds and every bound on retries, campaigns and       *)
(* faults: the adapter's types, one control plane per target, and what a   *)
(* verified and a rolled back target really are.                           *)
(***************************************************************************)
EXTENDS LocalProcess, FiniteSetTheorems, TLAPS

-----------------------------------------------------------------------------
(***************************************************************************)
(* The inductive invariant. At most the supervised process is alive, and   *)
(* between the stop and the start of an operation there is none: a start   *)
(* finds the target empty, whatever failed before it. A process outlives   *)
(* its engine only at the price of a fault, which bounds the orphans.      *)
(***************************************************************************)
Alone   == \A p \in procs : p.id = adapter.handle
Unique  == \A p, q \in procs : p = q
Stopped == call.pc \in {"write", "start"} => procs = {}
Paid    == orphans + budget.faults <= MaxFaults

\* An operation runs for a campaign that names a build, and past its entry a
\* rollback has a build to go back to.
Aimed ==
  /\ campaign.attempt # "none" => campaign.build \in Builds
  /\ call.pc # "idle" => campaign.attempt # "none"
  /\ call.pc \in {"save", "stop", "write", "start", "hello"} => call.op \in {"activate", "rollback"}
  /\ call.pc = "save" => call.op = "activate"
  /\ call.pc \in {"stop", "write", "start"} /\ call.op = "rollback" => disk.previous \in Builds

IInv == TypeOK /\ Alone /\ Unique /\ Stopped /\ Paid /\ Aimed

\* One process at most is a finite set of at most one.
LEMMA UniqueCardinality ==
  ASSUME NEW S, \A p, q \in S : p = q
  PROVE  Cardinality(S) \in {0, 1}
<1>1. CASE S = {}
  BY <1>1, FS_EmptySet
<1>2. CASE S # {}
  <2>1. PICK p \in S : TRUE
    BY <1>2
  <2>2. S = {p}
    BY <2>1
  <2> QED BY <2>2, FS_Singleton
<1> QED BY <1>1, <1>2

\* What the supervisor supervises is all there is.
LEMMA SupervisedAll == Alone => Supervised = procs
BY DEF Alone, Supervised

LEMMA InitInv == Init => IInv
<1> SUFFICES ASSUME Init PROVE IInv
  OBVIOUS
<1>1. TypeOK
  BY BuildsAssumption, BoundsAssumption
  DEF Init, TypeOK, Fresh, Idle, Pending
<1>2. Alone /\ Unique /\ Stopped /\ Paid /\ Aimed
  BY BoundsAssumption DEF Init, Alone, Unique, Stopped, Paid, Aimed, Idle
<1> QED BY <1>1, <1>2 DEF IInv

\* Spending keeps the budget well formed and never helps the bound on orphans.
LEMMA SpendKeeps ==
  ASSUME TypeOK, Paid, NEW failed \in MayFail, Spend(failed), orphans' = orphans
  PROVE  /\ budget' \in [campaigns : 0..MaxCampaigns, faults : 0..MaxFaults]
         /\ Paid'
<1>1. budget \in [campaigns : 0..MaxCampaigns, faults : 0..MaxFaults] /\ orphans \in Nat
  BY BoundsAssumption DEF TypeOK
<1>2. CASE failed
  <2>1. budget.faults > 0
    BY <1>2 DEF MayFail
  <2>2. budget' = [budget EXCEPT !.faults = @ - 1]
    BY <1>2 DEF Spend
  <2> QED BY <1>1, <2>1, <2>2, BoundsAssumption DEF Paid
<1>3. CASE ~failed
  <2>1. budget' = budget
    BY <1>3 DEF Spend
  <2> QED BY <1>1, <2>1 DEF Paid
<1> QED BY <1>2, <1>3

\* The steps that touch neither processes nor the adapter's memory.
LEMMA QuietStep ==
  ASSUME Alone, Unique, Stopped, UNCHANGED <<procs, adapter>>,
         call'.pc \notin {"write", "start"} \/ procs = {}
  PROVE  Alone' /\ Unique' /\ Stopped'
BY DEF Alone, Unique, Stopped

-----------------------------------------------------------------------------
(* How an operation goes on, and what becomes of its campaign               *)

DiskType == [exe : [Builds -> {"none", "torn", "ok"}], pkg : SUBSET Builds,
             pointer : Builds \cup {None}, previous : Builds \cup {None, "torn"}]
CallType == [op : Pending \cup {"idle"},
             pc : {"idle", "enter", "save", "stop", "write", "start", "hello", "error"},
             retries : 0..MaxRetries, error : {"none", "retryable", "final"}]
Attempts == {"none", "preparing", "prepared", "activating", "activated",
             "verifying", "verified", "failed", "suspect", "rolling_back", "rolled_back"}
CampaignType == [build : Builds \cup {None}, retries : 0..MaxRetries, attempt : Attempts]
GhostType == [before : Builds \cup {None}, lost : BOOLEAN, drifted : BOOLEAN]
BudgetType == [campaigns : 0..MaxCampaigns, faults : 0..MaxFaults]

LEMMA FieldTypes ==
  TypeOK => /\ disk \in DiskType /\ call \in CallType /\ campaign \in CampaignType
            /\ ghost \in GhostType /\ budget \in BudgetType /\ orphans \in Nat
            /\ MaxFaults \in Nat /\ MaxRetries \in Nat
BY BoundsAssumption
DEF TypeOK, DiskType, CallType, Attempts, CampaignType, GhostType, BudgetType

LEMMA IdleType == Idle \in CallType /\ Idle.pc = "idle" /\ Idle.op = "idle"
BY BoundsAssumption DEF Idle, CallType

LEMMA FailsEffect ==
  ASSUME call \in CallType, NEW kind \in {"retryable", "final"}, Fails(kind)
  PROVE  call' \in CallType /\ call'.pc = "error" /\ call'.op = call.op /\ call'.error = kind
BY DEF Fails, CallType

LEMMA GotoEffect ==
  ASSUME call \in CallType, NEW pc \in {"save", "stop", "write", "start", "hello"}, Goto(pc)
  PROVE  call' \in CallType /\ call'.pc = pc /\ call'.op = call.op
BY DEF Goto, CallType

LEMMA AgainEffect ==
  ASSUME call \in CallType, call.retries < MaxRetries, MaxRetries \in Nat, Again
  PROVE  call' \in CallType /\ call'.pc = "enter" /\ call'.op = call.op
<1>1. call.retries \in 0..MaxRetries /\ call.retries + 1 \in 0..MaxRetries
  BY DEF CallType
<1> QED BY <1>1 DEF Again, CallType

LEMMA EnterEffect ==
  ASSUME NEW op \in Pending, MaxRetries \in Nat, Enter(op)
  PROVE  call' \in CallType /\ call'.pc = "enter" /\ call'.op = op
BY IdleType DEF Enter, CallType

LEMMA AttemptEffect ==
  ASSUME campaign \in CampaignType, NEW state \in Attempts, Attempt(state)
  PROVE  campaign' \in CampaignType /\ campaign'.attempt = state /\ campaign'.build = campaign.build
BY DEF Attempt, CampaignType

LEMMA FinishEffect ==
  ASSUME campaign \in CampaignType, NEW state \in Attempts, Finish(state)
  PROVE  /\ call' \in CallType /\ call'.pc = "idle" /\ call'.op = "idle"
         /\ campaign' \in CampaignType /\ campaign'.attempt = state
         /\ campaign'.build = campaign.build
BY AttemptEffect, IdleType DEF Finish

\* An operation that leaves processes and the adapter's memory alone and then
\* ends, fails or starts over keeps the invariant.
LEMMA CalmStep ==
  ASSUME IInv, UNCHANGED <<procs, orphans, adapter>>,
         disk' \in DiskType, ghost' \in GhostType, budget' \in BudgetType, Paid',
         call.pc # "idle", call' \in CallType, call'.pc \in {"idle", "enter", "error"},
         campaign' \in CampaignType, campaign'.attempt # "none",
         campaign'.build = campaign.build
  PROVE  IInv'
<1>1. TypeOK'
  BY DEF IInv, TypeOK, DiskType, CallType, Attempts, CampaignType, GhostType, BudgetType
<1>2. Alone' /\ Unique' /\ Stopped'
  BY QuietStep DEF IInv
<1>3. Aimed'
  BY DEF IInv, Aimed
<1> QED BY <1>1, <1>2, <1>3 DEF IInv

\* The same for a step inside activate or rollback.
LEMMA InnerStep ==
  ASSUME IInv, UNCHANGED <<procs, orphans, adapter, campaign>>,
         disk' \in DiskType, ghost' \in GhostType, budget' \in BudgetType, Paid',
         call.pc # "idle", call' \in CallType,
         call'.op \in {"activate", "rollback"},
         call'.pc \in {"save", "stop", "hello"} \/ (procs = {} /\ call'.pc = "start"),
         call'.pc = "save" => call'.op = "activate",
         call'.op = "rollback" => disk'.previous \in Builds
  PROVE  IInv'
<1>1. TypeOK'
  BY DEF IInv, TypeOK, DiskType, CallType, Attempts, CampaignType, GhostType, BudgetType
<1>2. Alone' /\ Unique' /\ Stopped'
  BY QuietStep DEF IInv
<1>3. Aimed'
  BY DEF IInv, Aimed
<1> QED BY <1>1, <1>2, <1>3 DEF IInv

\* SpendKeeps under the names above.
LEMMA Spending ==
  ASSUME IInv, NEW failed \in MayFail, Spend(failed), orphans' = orphans
  PROVE  budget' \in BudgetType /\ Paid'
BY SpendKeeps DEF IInv, BudgetType

LEMMA Thrift ==
  ASSUME IInv, budget' = budget, orphans' = orphans
  PROVE  budget' \in BudgetType /\ Paid'
BY FieldTypes DEF IInv, Paid

-----------------------------------------------------------------------------
(* The engine's calls and the adapter's steps                               *)

LEMMA BeginInv ==
  ASSUME IInv, NEW b \in Builds, Begin(b) PROVE IInv'
<1>1. call' \in CallType /\ call'.pc = "enter" /\ call'.op = "prepare"
  BY FieldTypes, EnterEffect DEF IInv, Begin, Pending
<1>2. campaign' \in CampaignType /\ campaign'.attempt = "preparing" /\ campaign'.build = b
  BY FieldTypes DEF IInv, Begin, CampaignType, Attempts
<1>3. budget' \in BudgetType /\ budget'.faults = budget.faults
  BY FieldTypes, BoundsAssumption DEF IInv, Begin, BudgetType
<1>4. TypeOK'
  BY <1>1, <1>2, <1>3
  DEF IInv, TypeOK, Begin, CallType, Attempts, CampaignType, BudgetType
<1>5. Alone' /\ Unique' /\ Stopped'
  BY <1>1, QuietStep DEF IInv, Begin
<1>6. Paid' /\ Aimed'
  BY <1>1, <1>2, <1>3 DEF IInv, Begin, Paid, Aimed
<1> QED BY <1>4, <1>5, <1>6 DEF IInv

LEMMA CallInv ==
  ASSUME IInv, CallActivate \/ CallVerify \/ CallRollback PROVE IInv'
<1>1. call' \in CallType /\ call'.pc = "enter" /\ campaign.attempt # "none"
  BY FieldTypes, EnterEffect DEF IInv, CallActivate, CallVerify, CallRollback, Pending
<1>2. /\ campaign' \in CampaignType /\ campaign'.attempt # "none"
      /\ campaign'.build = campaign.build
  BY FieldTypes, AttemptEffect
  DEF IInv, CallActivate, CallVerify, CallRollback, Attempts
<1>3. UNCHANGED <<disk, procs, orphans, adapter, budget>>
  BY DEF CallActivate, CallVerify, CallRollback
<1>4. ghost' \in GhostType
  BY FieldTypes DEF IInv, CallActivate, CallVerify, CallRollback, GhostType, DiskType
<1>5. TypeOK'
  BY <1>1, <1>2, <1>3, <1>4 DEF IInv, TypeOK, CallType, Attempts, CampaignType, GhostType
<1>6. Alone' /\ Unique' /\ Stopped'
  BY <1>1, <1>3, QuietStep DEF IInv
<1>7. Paid' /\ Aimed'
  BY <1>1, <1>2, <1>3 DEF IInv, Paid, Aimed
<1> QED BY <1>5, <1>6, <1>7 DEF IInv

LEMMA PrepareInv ==
  ASSUME IInv, Prepare PROVE IInv'
<1>1. PICK result \in {"none", "torn", "ok"}, written \in BOOLEAN, acked \in BOOLEAN :
        LET b == campaign.build
            faulty == result # "ok" \/ ~written \/ ~acked
            pkg == IF written THEN disk.pkg \cup {b} ELSE disk.pkg
        IN /\ faulty \in MayFail /\ Spend(faulty)
           /\ disk' = [disk EXCEPT !.exe[b] = CopyExe(b, result), !.pkg = pkg]
           /\ \/ b \in pkg /\ acked /\ Finish("prepared")
              \/ b \in pkg /\ ~acked /\ Fails("retryable") /\ UNCHANGED campaign
              \/ b \notin pkg /\ Fails("final") /\ UNCHANGED campaign
  BY DEF Prepare
<1>2. budget' \in BudgetType /\ Paid'
  BY <1>1, Spending DEF Prepare
<1>3. campaign.build \in Builds /\ CopyExe(campaign.build, result) \in {"none", "torn", "ok"}
  BY DEF IInv, Aimed, Prepare, TypeOK, CopyExe
<1>4. disk' \in DiskType
  BY <1>1, <1>3 DEF IInv, TypeOK, DiskType
<1>5. /\ call' \in CallType /\ call'.pc \in {"idle", "error"}
      /\ campaign' \in CampaignType /\ campaign'.attempt # "none"
      /\ campaign'.build = campaign.build
  BY <1>1, FieldTypes, FinishEffect, FailsEffect DEF IInv, Aimed, Attempts, Prepare
<1>6. ghost' \in GhostType
  BY FieldTypes DEF IInv, Prepare
<1> QED BY <1>2, <1>4, <1>5, <1>6, CalmStep DEF Prepare

LEMMA ActivateEnterInv ==
  ASSUME IInv, ActivateEnter PROVE IInv'
<1>1. /\ disk' \in DiskType /\ budget' \in BudgetType /\ Paid'
      /\ UNCHANGED <<procs, orphans, adapter>> /\ call.pc = "enter" /\ call.op = "activate"
  BY FieldTypes, Thrift DEF IInv, ActivateEnter
<1>2. CASE Finish("activated") /\ ghost' = [ghost EXCEPT !.lost = TRUE]
  <2>1. ghost' \in GhostType
    BY <1>2, FieldTypes DEF IInv, GhostType
  <2> QED BY <1>1, <1>2, <2>1, FieldTypes, FinishEffect, CalmStep DEF IInv, Attempts
<1>3. CASE Fails("final") /\ UNCHANGED <<campaign, ghost>>
  BY <1>1, <1>3, FieldTypes, FailsEffect, CalmStep DEF IInv, Aimed
<1>4. CASE Goto("save") /\ UNCHANGED <<campaign, ghost>>
  BY <1>1, <1>4, FieldTypes, GotoEffect, InnerStep DEF IInv
<1> QED BY <1>2, <1>3, <1>4 DEF ActivateEnter

LEMMA RollbackEnterInv ==
  ASSUME IInv, RollbackEnter PROVE IInv'
<1>1. /\ disk' \in DiskType /\ budget' \in BudgetType /\ Paid' /\ ghost' \in GhostType
      /\ UNCHANGED <<disk, procs, orphans, adapter, campaign>>
      /\ call.pc = "enter" /\ call.op = "rollback"
  BY FieldTypes, Thrift DEF IInv, RollbackEnter
<1>2. CASE disk.previous \in Builds /\ Goto("stop")
  BY <1>1, <1>2, FieldTypes, GotoEffect, InnerStep DEF IInv
<1>3. CASE Fails("final")
  BY <1>1, <1>3, FieldTypes, FailsEffect, CalmStep DEF IInv, Aimed
<1> QED BY <1>2, <1>3 DEF RollbackEnter

LEMMA SavePreviousInv ==
  ASSUME IInv, SavePrevious PROVE IInv'
<1>1. /\ UNCHANGED <<procs, orphans, adapter, campaign>> /\ call.pc = "save"
      /\ call.op = "activate"
  BY DEF IInv, Aimed, SavePrevious
<1>2. call' \in CallType /\ call'.pc = "stop" /\ call'.op = "activate"
  BY <1>1, FieldTypes, GotoEffect DEF IInv, SavePrevious
<1>3. disk' \in DiskType /\ ghost' \in GhostType /\ budget' \in BudgetType /\ Paid'
  <2>1. CASE UNCHANGED <<disk, ghost, budget>>
    BY <1>1, <2>1, FieldTypes, Thrift DEF IInv
  <2>2. CASE disk.pointer # None
    <3>1. PICK failed \in MayFail : \E left \in {disk.previous, "torn"} :
             /\ Spend(failed)
             /\ disk' = [disk EXCEPT !.previous = IF failed THEN left ELSE disk.pointer]
             /\ ghost' = [ghost EXCEPT !.lost = failed]
      BY <2>2 DEF SavePrevious
    <3>2. failed \in BOOLEAN
      BY DEF MayFail
    <3>3. disk' \in DiskType
      BY <3>1, <2>2, FieldTypes DEF IInv, DiskType
    <3>4. ghost' \in GhostType
      BY <3>1, <3>2, FieldTypes DEF IInv, GhostType
    <3> QED BY <1>1, <3>1, <3>3, <3>4, Spending
  <2> QED BY <2>1, <2>2 DEF SavePrevious
<1> QED BY <1>1, <1>2, <1>3, InnerStep

LEMMA WritePointerInv ==
  ASSUME IInv, WritePointer PROVE IInv'
<1>1. Target \in Builds /\ procs = {} /\ call.op \in {"activate", "rollback"}
  BY DEF IInv, Aimed, Stopped, WritePointer, Target
<1>2. PICK failed \in MayFail :
        /\ Spend(failed)
        /\ disk' = IF failed THEN disk ELSE [disk EXCEPT !.pointer = Target]
        /\ IF failed THEN Fails("retryable") ELSE Goto("start")
  BY DEF WritePointer
<1>3. /\ UNCHANGED <<procs, orphans, adapter, campaign, ghost>> /\ call.pc = "write"
      /\ budget' \in BudgetType /\ Paid' /\ ghost' \in GhostType
  BY <1>2, FieldTypes, Spending DEF IInv, WritePointer
<1>4. disk' \in DiskType /\ disk'.previous = disk.previous
  BY <1>1, <1>2, FieldTypes DEF IInv, DiskType
<1>5. CASE Fails("retryable")
  BY <1>3, <1>4, <1>5, FieldTypes, FailsEffect, CalmStep DEF IInv, Aimed
<1>6. CASE Goto("start")
  BY <1>1, <1>3, <1>4, <1>6, FieldTypes, GotoEffect, InnerStep DEF IInv, Aimed
<1> QED BY <1>2, <1>5, <1>6

LEMMA HelloInv ==
  ASSUME IInv, Hello PROVE IInv'
<1>1. /\ UNCHANGED <<procs, orphans, adapter>> /\ call.pc = "hello"
      /\ disk' \in DiskType /\ ghost' \in GhostType
  BY FieldTypes DEF IInv, Hello
<1>2. budget' \in BudgetType /\ Paid'
  BY <1>1, Spending, Thrift DEF Hello
<1>3. /\ call' \in CallType /\ call'.pc \in {"idle", "error"}
      /\ campaign' \in CampaignType /\ campaign'.attempt # "none"
      /\ campaign'.build = campaign.build
  BY <1>1, FieldTypes, FinishEffect, FailsEffect DEF IInv, Aimed, Attempts, Hello
<1> QED BY <1>1, <1>2, <1>3, CalmStep

LEMMA GiveUpInv ==
  ASSUME IInv, GiveUp PROVE IInv'
<1>1. /\ UNCHANGED <<procs, orphans, adapter>> /\ call.pc = "error"
      /\ disk' \in DiskType /\ ghost' \in GhostType /\ budget' \in BudgetType /\ Paid'
  BY FieldTypes, Thrift DEF IInv, GiveUp
<1>2. GivenUp(call.op) \in Attempts /\ GivenUp(call.op) # "none"
  BY DEF GivenUp, Attempts
<1> QED BY <1>1, <1>2, FieldTypes, FinishEffect, CalmStep DEF IInv, GiveUp

LEMMA RetryInv ==
  ASSUME IInv, Retry PROVE IInv'
<1>1. /\ UNCHANGED <<procs, orphans, adapter>> /\ call.pc = "error"
      /\ disk' \in DiskType /\ ghost' \in GhostType /\ budget' \in BudgetType /\ Paid'
  BY FieldTypes, Spending DEF IInv, Retry
<1>2. call.retries < MaxRetries
  BY FieldTypes DEF IInv, Retry, Exhausted, CallType
<1>3. CASE Finish("activated")
  BY <1>1, <1>3, FieldTypes, FinishEffect, CalmStep DEF IInv, Attempts
<1>4. CASE Again /\ UNCHANGED campaign
  BY <1>1, <1>2, <1>4, FieldTypes, AgainEffect, CalmStep DEF IInv, Aimed
<1> QED BY <1>3, <1>4 DEF Retry

LEMMA VerifyInv ==
  ASSUME IInv, Verify PROVE IInv'
<1>1. /\ UNCHANGED <<procs, orphans, adapter>> /\ call.pc = "enter"
      /\ disk' \in DiskType /\ ghost' \in GhostType /\ budget' \in BudgetType /\ Paid'
      /\ call' \in CallType /\ call'.pc = "idle"
  BY FieldTypes, Spending, IdleType DEF IInv, Verify
<1>2. CASE \E state \in {"verified", "suspect"} : Attempt(state)
  BY <1>1, <1>2, FieldTypes, AttemptEffect, CalmStep DEF IInv, Attempts
<1>3. CASE /\ campaign.retries < MaxRetries
           /\ campaign' = [campaign EXCEPT !.attempt = "activated", !.retries = @ + 1]
  <2>1. campaign.retries + 1 \in 0..MaxRetries
    BY <1>3, FieldTypes DEF IInv, CampaignType
  <2>2. campaign' \in CampaignType /\ campaign'.attempt = "activated"
        /\ campaign'.build = campaign.build
    BY <1>3, <2>1, FieldTypes DEF IInv, CampaignType, Attempts
  <2> QED BY <1>1, <2>2, CalmStep
<1> QED BY <1>2, <1>3 DEF Verify

-----------------------------------------------------------------------------
(* The steps that stop and start processes                                  *)

AdapterType == [current_build : Builds \cup {None}, handle : 0..2, port : BOOLEAN]

\* Stopping leaves nobody, or everybody where he was.
LEMMA StopEffect ==
  ASSUME IInv, NEW killed \in BOOLEAN, StopProcess(killed)
  PROVE  /\ procs' \subseteq procs /\ (killed => procs' = {})
         /\ adapter' \in AdapterType /\ adapter'.handle = adapter.handle
<1>1. Supervised = procs
  BY SupervisedAll DEF IInv
<1> QED BY <1>1 DEF StopProcess, IInv, TypeOK, AdapterType

\* A start that finds nobody leaves at most the process it remembers.
LEMMA StartEffect ==
  ASSUME NEW state \in AdapterType, NEW b \in Builds,
         NEW result \in {"missing", "gone", "mute", "ready"},
         StartProcess(b, result, {}, state)
  PROVE  /\ procs' \subseteq [id : 1..2, build : Builds]
         /\ adapter' \in AdapterType
         /\ Alone' /\ Unique'
<1>1. FreshId({}) \in 1..2
  BY DEF FreshId
<1>2. procs' = IF result \in {"mute", "ready"} THEN {[id |-> FreshId({}), build |-> b]} ELSE {}
  BY DEF StartProcess
<1>3. adapter' \in AdapterType /\ (result \in {"mute", "ready"} => adapter'.handle = FreshId({}))
  BY <1>1 DEF StartProcess, AdapterType
<1> QED BY <1>1, <1>2, <1>3 DEF Alone, Unique

LEMMA ResultNames ==
  ASSUME NEW b \in Builds, NEW result \in StartResults(b)
  PROVE  result \in {"missing", "gone", "mute", "ready"}
BY DEF StartResults

LEMMA StopCallInv ==
  ASSUME IInv, StopCall PROVE IInv'
<1>1. PICK failed \in MayFail :
        /\ Spend(failed)
        /\ StopProcess(~failed)
        /\ IF failed THEN Fails("retryable") ELSE Goto("write")
  BY DEF StopCall
<1>2. failed \in BOOLEAN
  BY DEF MayFail
<1>3. /\ procs' \subseteq procs /\ (~failed => procs' = {})
      /\ adapter' \in AdapterType /\ adapter'.handle = adapter.handle
  BY <1>1, <1>2, StopEffect
<1>4. budget' \in BudgetType /\ Paid'
  BY <1>1, Spending DEF StopCall
<1>5. /\ call' \in CallType /\ call'.op = call.op
      /\ call'.pc = IF failed THEN "error" ELSE "write"
  <2>1. CASE failed
    BY <1>1, <2>1, FieldTypes, FailsEffect DEF IInv
  <2>2. CASE ~failed
    <3>1. call' = [call EXCEPT !.pc = "write"]
      BY <1>1, <2>2 DEF Goto
    <3> QED BY <2>2, <3>1, FieldTypes DEF IInv, CallType
  <2> QED BY <2>1, <2>2, <1>2
<1>6. TypeOK'
  BY <1>3, <1>4, <1>5 DEF IInv, TypeOK, StopCall, AdapterType, BudgetType, CallType
<1>7. Alone' /\ Unique' /\ Stopped'
  BY <1>2, <1>3, <1>5 DEF IInv, Alone, Unique, Stopped
<1>8. Aimed'
  BY <1>5 DEF IInv, Aimed, StopCall
<1> QED BY <1>4, <1>6, <1>7, <1>8 DEF IInv

LEMMA StartCallInv ==
  ASSUME IInv, StartCall PROVE IInv'
<1>1. PICK result \in StartResults(Target) :
        /\ Spend(result = "mute" \/ (result = "gone" /\ disk.exe[Target] = "ok"))
        /\ StartProcess(Target, result, procs, adapter)
        /\ CASE result = "ready" -> Goto("hello")
             [] result = "missing" -> Fails("final")
             [] OTHER -> Fails("retryable")
  BY DEF StartCall
<1>2. Target \in Builds /\ procs = {} /\ call.op \in {"activate", "rollback"}
  BY DEF IInv, Aimed, Stopped, StartCall, Target
<1>3. result \in {"missing", "gone", "mute", "ready"}
  BY <1>2, ResultNames
<1>4. /\ procs' \subseteq [id : 1..2, build : Builds] /\ adapter' \in AdapterType
      /\ Alone' /\ Unique'
  BY <1>1, <1>2, <1>3, StartEffect DEF IInv, TypeOK, AdapterType
<1>5. (result = "mute" \/ (result = "gone" /\ disk.exe[Target] = "ok")) \in MayFail
  <2>1. result = "mute" \/ (result = "gone" /\ disk.exe[Target] = "ok") => TRUE \in MayFail
    BY <1>1 DEF StartResults
  <2>2. FALSE \in MayFail
    BY DEF MayFail
  <2> QED BY <2>1, <2>2 DEF MayFail
<1>6. budget' \in BudgetType /\ Paid'
  BY <1>1, <1>5, Spending DEF StartCall
<1>7. /\ call' \in CallType /\ call'.op = call.op
      /\ call'.pc \in {"hello", "error"}
  BY <1>1, <1>3, FieldTypes, GotoEffect, FailsEffect DEF IInv
<1>8. TypeOK'
  BY <1>4, <1>6, <1>7 DEF IInv, TypeOK, StartCall, AdapterType, BudgetType, CallType
<1>9. Stopped' /\ Aimed'
  BY <1>2, <1>7 DEF IInv, Stopped, Aimed, StartCall
<1> QED BY <1>4, <1>6, <1>8, <1>9 DEF IInv

\* Steps that keep every call where it is, and leave at most the one process
\* that the adapter supervises.
LEMMA OutsideStep ==
  ASSUME IInv, UNCHANGED <<disk, call, campaign>>, ghost' \in GhostType,
         procs' \subseteq [id : 1..2, build : Builds], adapter' \in AdapterType,
         orphans' \in 0..MaxFaults, budget' \in BudgetType, Paid', Alone', Unique',
         procs' \subseteq procs \/ call.pc \notin {"write", "start"}
  PROVE  IInv'
<1>1. TypeOK'
  BY DEF IInv, TypeOK, GhostType, AdapterType, BudgetType
<1>2. Stopped' /\ Aimed'
  BY DEF IInv, Stopped, Aimed
<1> QED BY <1>1, <1>2 DEF IInv

LEMMA TrueMayFail == budget.faults > 0 => TRUE \in MayFail
BY DEF MayFail

LEMMA ProcessDiesInv ==
  ASSUME IInv, ProcessDies PROVE IInv'
<1>1. budget' \in BudgetType /\ Paid'
  BY TrueMayFail, Spending DEF ProcessDies
<1>2. procs' \subseteq procs
  BY DEF ProcessDies
<1>3. Alone' /\ Unique'
  BY <1>2 DEF ProcessDies, IInv, Alone, Unique
<1>4. /\ ghost' \in GhostType /\ adapter' \in AdapterType /\ orphans' \in 0..MaxFaults
      /\ procs' \subseteq [id : 1..2, build : Builds]
  BY <1>2, FieldTypes DEF ProcessDies, IInv, TypeOK, AdapterType
<1> QED BY <1>1, <1>2, <1>3, <1>4, OutsideStep DEF ProcessDies

LEMMA OrphanDiesInv ==
  ASSUME IInv, OrphanDies PROVE IInv'
<1>1. budget' \in BudgetType /\ Paid' /\ orphans' \in 0..MaxFaults
  BY FieldTypes DEF OrphanDies, IInv, TypeOK, Paid, BudgetType
<1>2. Alone' /\ Unique' /\ ghost' \in GhostType /\ adapter' \in AdapterType
  BY FieldTypes DEF OrphanDies, IInv, TypeOK, Alone, Unique, AdapterType
<1>3. procs' = procs /\ procs' \subseteq [id : 1..2, build : Builds]
  BY DEF OrphanDies, IInv, TypeOK
<1> QED BY <1>1, <1>2, <1>3, OutsideStep DEF OrphanDies

LEMMA RestartTargetInv ==
  ASSUME IInv, RestartTarget PROVE IInv'
<1>1. budget' \in BudgetType /\ Paid'
  BY TrueMayFail, Spending DEF RestartTarget
<1>2. procs \ Supervised = {}
  BY SupervisedAll DEF IInv
<1>3. adapter.current_build \in Builds
  BY DEF RestartTarget, IInv, TypeOK
<1>4. [adapter EXCEPT !.port = FALSE] \in AdapterType
  BY DEF IInv, TypeOK, AdapterType
<1>5. /\ procs' \subseteq [id : 1..2, build : Builds] /\ adapter' \in AdapterType
      /\ Alone' /\ Unique'
  BY <1>2, <1>3, <1>4, ResultNames, StartEffect DEF RestartTarget
<1>6. ghost' \in GhostType
  BY FieldTypes DEF RestartTarget, IInv, GhostType
<1>7. orphans' \in 0..MaxFaults /\ call.pc \notin {"write", "start"}
  BY DEF RestartTarget, Unlocked, IInv, TypeOK
<1> QED BY <1>1, <1>5, <1>6, <1>7, OutsideStep DEF RestartTarget

LEMMA EngineCrashInv ==
  ASSUME IInv, EngineCrash PROVE IInv'
<1>1. Cardinality(procs) \in {0, 1}
  BY UniqueCardinality DEF IInv, Unique
<1>2. budget.faults \in Nat /\ budget.faults > 0 /\ budget.faults <= MaxFaults
  BY FieldTypes DEF IInv, EngineCrash, BudgetType
<1>3. budget' = [budget EXCEPT !.faults = budget.faults - 1]
  BY DEF EngineCrash, Spend
<1>4. budget' \in BudgetType /\ budget'.faults = budget.faults - 1
  BY <1>2, <1>3, FieldTypes DEF IInv, BudgetType
<1>5. orphans' \in 0..MaxFaults /\ Paid'
  BY <1>1, <1>2, <1>4, FieldTypes DEF IInv, EngineCrash, Paid
<1>6. /\ campaign' \in CampaignType /\ campaign'.build = campaign.build
      /\ (campaign'.attempt = "none" <=> campaign.attempt = "none")
  <2>1. Reconciled(campaign.attempt) \in Attempts
    BY FieldTypes DEF IInv, CampaignType, Reconciled, Attempts
  <2>2. Reconciled(campaign.attempt) = "none" <=> campaign.attempt = "none"
    BY FieldTypes DEF IInv, CampaignType, Reconciled, Attempts
  <2> QED BY <2>1, <2>2, FieldTypes, AttemptEffect DEF IInv, EngineCrash
<1>7. call' \in CallType /\ call'.pc = "idle" /\ procs' = {} /\ UNCHANGED <<disk, ghost>>
  BY IdleType DEF EngineCrash
<1>8. adapter' \in AdapterType
  BY DEF EngineCrash, Fresh, AdapterType
<1>9. TypeOK'
  BY <1>4, <1>5, <1>6, <1>7, <1>8
  DEF IInv, TypeOK, AdapterType, BudgetType, CampaignType, Attempts, CallType
<1>10. Alone' /\ Unique' /\ Stopped' /\ Aimed'
  BY <1>6, <1>7 DEF IInv, Alone, Unique, Stopped, Aimed
<1> QED BY <1>5, <1>9, <1>10 DEF IInv

LEMMA EngineStopsInv ==
  ASSUME IInv, EngineStops PROVE IInv'
<1>1. budget' \in BudgetType /\ Paid'
  BY TrueMayFail, Spending DEF EngineStops
<1>2. procs' = {}
  BY SupervisedAll DEF EngineStops, IInv
<1>3. Alone' /\ Unique' /\ adapter' \in AdapterType
  BY <1>2 DEF EngineStops, Fresh, AdapterType, Alone, Unique
<1>4. ghost' \in GhostType /\ orphans' \in 0..MaxFaults
  BY FieldTypes DEF EngineStops, IInv, TypeOK
<1> QED BY <1>1, <1>2, <1>3, <1>4, OutsideStep DEF EngineStops

-----------------------------------------------------------------------------
(* Every step, and the theorems                                             *)

LEMMA StepInv == IInv /\ [Next]_vars => IInv'
<1> SUFFICES ASSUME IInv, [Next]_vars PROVE IInv'
  OBVIOUS
<1>1. CASE InCall
  BY <1>1, PrepareInv, ActivateEnterInv, SavePreviousInv, RollbackEnterInv, StopCallInv,
     WritePointerInv, StartCallInv, HelloInv, GiveUpInv, RetryInv, VerifyInv DEF InCall
<1>2. CASE Environment
  BY <1>2, BeginInv, CallInv, ProcessDiesInv, OrphanDiesInv, RestartTargetInv,
     EngineCrashInv, EngineStopsInv DEF Environment
<1>3. CASE UNCHANGED vars
  BY <1>3 DEF vars, IInv, TypeOK, Alone, Unique, Stopped, Paid, Aimed
<1> QED BY <1>1, <1>2, <1>3 DEF Next

\* The invariant holds in every state of every behaviour.
THEOREM Inductive == Spec => []IInv
BY InitInv, StepInv, PTL DEF Spec

\* Every variable of the adapter and of the engine around it keeps its type:
\* in particular no operation switches to a torn previous.json, and no more
\* processes are orphaned than faults happened.
THEOREM TypeCorrect == Spec => []TypeOK
<1>1. IInv => TypeOK
  BY DEF IInv
<1> QED BY <1>1, Inductive, PTL

\* One control-plane process per target (LocalProcessAdapter's declared limit),
\* whatever fails between stop_process and start_process, for any number of
\* builds, retries, campaigns and faults.
THEOREM OneProcess == Spec => []OneControlPlane
<1>1. IInv => OneControlPlane
  BY SupervisedAll, UniqueCardinality DEF IInv, Unique, OneControlPlane
<1> QED BY <1>1, Inductive, PTL


-----------------------------------------------------------------------------
(***************************************************************************)
(* The argument. A live process runs what the pointer names (Installed),   *)
(* since it is started only right after the pointer was written (Switched) *)
(* or by an injected restart, which drifted records. While an activation   *)
(* runs the pointer is the old build or the new one (Within); before the   *)
(* old build is saved it is the old one (Unswitched), also at a retry,     *)
(* because the engine observes the target first. Hence previous.json names *)
(* the old build from then on (Saved).                                     *)
(***************************************************************************)
Paired ==
  /\ call.op = "idle" <=> call.pc = "idle"
  /\ call.op = "prepare" => campaign.attempt = "preparing"
  /\ call.op = "activate" => campaign.attempt = "activating"
  /\ call.op = "verify" => campaign.attempt = "verifying"
  /\ call.op = "rollback" => campaign.attempt = "rolling_back"

Installed == ~ghost.drifted => \A p \in procs : p.build = disk.pointer
Switched  == call.pc \in {"start", "hello"} => disk.pointer = Target
Bare      == disk.pointer = None => disk.previous = None

Unswitched ==
  ~ghost.drifted /\ call.op = "activate" /\ call.pc \in {"enter", "save"}
    => disk.pointer = ghost.before

Within == call.op = "activate" => disk.pointer \in {ghost.before, campaign.build}

\* The old build has been saved in this campaign.
Afterwards ==
  \/ campaign.attempt \in {"activated", "verifying", "verified", "suspect", "rolling_back"}
  \/ /\ call.op = "activate"
     /\ \/ call.pc \in {"stop", "write", "start", "hello"}
        \/ call.pc = "error" /\ call.error # "final"

Saved == ~ghost.drifted /\ ~ghost.lost /\ Afterwards => disk.previous = ghost.before

JInv == Installed /\ Switched /\ Bare /\ Unswitched /\ Within /\ Saved

KInv == IInv /\ Paired /\ JInv

LEMMA InitK == Init => KInv
<1> SUFFICES ASSUME Init PROVE Paired /\ JInv
  BY InitInv DEF KInv
<1> QED BY DEF Init, Idle, Paired, JInv, Installed, Switched, Bare, Unswitched, Within,
           Saved, Afterwards

\* A linked process answers with what the pointer names.
LEMMA ServingInstalled ==
  ASSUME Installed, ~ghost.drifted, Linked
  PROVE  Serving = disk.pointer
<1>1. PICK p \in Supervised : p = CHOOSE q \in Supervised : TRUE
  BY DEF Linked, Running
<1>2. Serving = p.build
  BY <1>1 DEF Serving
<1> QED BY <1>2 DEF Installed, Supervised

\* How prepare ends, and what it leaves alone.
LEMMA PrepareShape ==
  ASSUME IInv, Prepare
  PROVE  /\ \/ Finish("prepared")
            \/ (Fails("retryable") \/ Fails("final")) /\ UNCHANGED campaign
         /\ disk'.pointer = disk.pointer /\ disk'.previous = disk.previous
<1>1. PICK result \in {"none", "torn", "ok"}, written \in BOOLEAN, acked \in BOOLEAN :
        LET b == campaign.build
            pkg == IF written THEN disk.pkg \cup {b} ELSE disk.pkg
        IN /\ disk' = [disk EXCEPT !.exe[b] = CopyExe(b, result), !.pkg = pkg]
           /\ \/ b \in pkg /\ acked /\ Finish("prepared")
              \/ b \in pkg /\ ~acked /\ Fails("retryable") /\ UNCHANGED campaign
              \/ b \notin pkg /\ Fails("final") /\ UNCHANGED campaign
  BY DEF Prepare
<1>2. \/ Finish("prepared")
      \/ (Fails("retryable") \/ Fails("final")) /\ UNCHANGED campaign
  BY <1>1
<1>3. disk'.pointer = disk.pointer /\ disk'.previous = disk.previous
  BY <1>1, FieldTypes DEF IInv, DiskType
<1> QED BY <1>2, <1>3

-----------------------------------------------------------------------------
(* Operation and attempt go together.                                       *)

LEMMA PairedStep == ASSUME IInv, Paired, [Next]_vars PROVE Paired'
<1> USE FieldTypes DEF IInv, Attempts
<1>1. CASE \E b \in Builds : Begin(b)
  BY <1>1, EnterEffect DEF Begin, Paired, Pending
<1>2. CASE CallActivate \/ CallVerify \/ CallRollback
  BY <1>2, EnterEffect, AttemptEffect DEF CallActivate, CallVerify, CallRollback, Paired, Pending
<1>3. CASE Prepare
  <2> QED BY PrepareShape, <1>3, FinishEffect, FailsEffect DEF Paired, Prepare
<1>4. CASE ActivateEnter \/ RollbackEnter
  <2>1. call.pc = "enter"
    BY <1>4 DEF ActivateEnter, RollbackEnter
  <2>2. \/ Finish("activated")
        \/ Fails("final") /\ UNCHANGED campaign
        \/ (\E l \in {"save", "stop"} : Goto(l)) /\ UNCHANGED campaign
    BY <1>4 DEF ActivateEnter, RollbackEnter
  <2> QED BY <2>1, <2>2, FinishEffect, FailsEffect, GotoEffect DEF Paired
<1>5. CASE SavePrevious \/ WritePointer \/ StopCall
  <2>1. /\ call.pc \in {"save", "write", "stop"} /\ UNCHANGED campaign
        /\ \/ Fails("retryable")
           \/ \E l \in {"stop", "start"} : Goto(l)
           \/ call' = [call EXCEPT !.pc = "write"]
    BY <1>5 DEF SavePrevious, WritePointer, StopCall, Goto
  <2>2. call'.op = call.op /\ call'.pc # "idle"
    BY <2>1, FailsEffect, GotoEffect DEF CallType
  <2> QED BY <2>1, <2>2 DEF Paired
<1>6. CASE StartCall
  <2>1. UNCHANGED campaign /\ call.pc = "start"
        /\ (Goto("hello") \/ \E k \in {"retryable", "final"} : Fails(k))
    BY <1>6 DEF StartCall
  <2> QED BY <2>1, GotoEffect, FailsEffect DEF Paired
<1>7. CASE Hello
  <2>1. \/ \E s \in {"activated", "rolled_back"} : Finish(s)
        \/ (\E k \in {"retryable", "final"} : Fails(k)) /\ UNCHANGED campaign
    BY <1>7 DEF Hello
  <2> QED BY <2>1, <1>7, FinishEffect, FailsEffect DEF Paired, Hello
<1>8. CASE GiveUp
  BY <1>8, FinishEffect DEF GiveUp, GivenUp, Paired
<1>9. CASE Retry
  <2>1. call.retries < MaxRetries
    BY <1>9 DEF Retry, Exhausted, CallType
  <2>2. Finish("activated") \/ (Again /\ UNCHANGED campaign)
    BY <1>9 DEF Retry
  <2> QED BY <1>9, <2>1, <2>2, FinishEffect, AgainEffect DEF Paired, Retry
<1>10. CASE Verify
  BY <1>10, IdleType DEF Verify, Paired
<1>11. CASE ProcessDies \/ OrphanDies \/ RestartTarget \/ EngineStops \/ UNCHANGED vars
  BY <1>11 DEF ProcessDies, OrphanDies, RestartTarget, EngineStops, vars, Paired
<1>12. CASE EngineCrash
  BY <1>12, IdleType DEF EngineCrash, Paired
<1> QED BY <1>1, <1>2, <1>3, <1>4, <1>5, <1>6, <1>7, <1>8, <1>9, <1>10, <1>11, <1>12
        DEF Next, InCall, Environment

-----------------------------------------------------------------------------
(* The pointer, the saved build and the processes.                          *)

\* A step that moves only the operation and the campaign keeps the argument
\* when it does not begin one, and when what it reaches is already covered.
LEMMA QuietJ ==
  ASSUME JInv, UNCHANGED <<procs, ghost>>,
         disk'.pointer = disk.pointer, disk'.previous = disk.previous,
         campaign'.build = campaign.build,
         call'.pc \notin {"start", "hello"},
         call'.op = "activate" => call.op = "activate",
         call'.op = "activate" /\ call'.pc \in {"enter", "save"}
           => ghost.drifted \/ disk.pointer = ghost.before,
         Afterwards' => ghost.drifted \/ ghost.lost \/ disk.previous = ghost.before
  PROVE  JInv'
<1>1. Installed' /\ Switched' /\ Bare' /\ Within'
  BY DEF JInv, Installed, Switched, Bare, Within
<1>2. Unswitched' /\ Saved'
  BY DEF JInv, Unswitched, Saved
<1> QED BY <1>1, <1>2 DEF JInv

\* Steps of processes and of the engine's life: no operation moves.
LEMMA OutsideJ ==
  ASSUME JInv, Paired, UNCHANGED <<disk, call, campaign, ghost>>, procs' \subseteq procs
  PROVE  JInv'
<1>1. Installed' /\ Switched' /\ Bare' /\ Within'
  BY DEF JInv, Installed, Switched, Bare, Within, Target
<1>2. Unswitched' /\ Saved'
  BY DEF JInv, Unswitched, Saved, Afterwards
<1> QED BY <1>1, <1>2 DEF JInv

LEMMA CallJ ==
  ASSUME KInv, (\E b \in Builds : Begin(b)) \/ CallActivate \/ CallVerify \/ CallRollback
  PROVE  JInv'
<1> USE FieldTypes DEF KInv, IInv
<1>1. CASE \E b \in Builds : Begin(b)
  <2>1. PICK b \in Builds : Begin(b)
    BY <1>1
  <2>2. /\ call'.pc = "enter" /\ call'.op = "prepare"
        /\ campaign'.attempt = "preparing" /\ UNCHANGED <<disk, procs, ghost>>
    BY <2>1, EnterEffect DEF Begin, Pending
  <2>3. Installed' /\ Switched' /\ Bare' /\ Within' /\ Unswitched' /\ Saved'
    BY <2>2 DEF JInv, Installed, Switched, Bare, Within, Unswitched, Saved, Afterwards
  <2> QED BY <2>3 DEF JInv
<1>2. CASE CallActivate
  <2>1. /\ call'.pc = "enter" /\ call'.op = "activate" /\ UNCHANGED <<disk, procs>>
        /\ campaign'.attempt = "activating"
        /\ ghost'.before = disk.pointer /\ ghost'.drifted = ghost.drifted
    BY <1>2, EnterEffect, AttemptEffect DEF CallActivate, Pending, Attempts, GhostType
  <2>2. Installed' /\ Switched' /\ Bare' /\ Within' /\ Unswitched' /\ Saved'
    BY <2>1 DEF JInv, Installed, Switched, Bare, Within, Unswitched, Saved, Afterwards
  <2> QED BY <2>2 DEF JInv
<1>3. CASE CallVerify \/ CallRollback
  <2>1. /\ call'.pc = "enter" /\ call'.op \in {"verify", "rollback"}
        /\ campaign'.build = campaign.build /\ UNCHANGED <<disk, procs, ghost>>
        /\ campaign.attempt \in {"activated", "verified", "suspect"}
    BY <1>3, EnterEffect, AttemptEffect DEF CallVerify, CallRollback, Pending, Attempts
  <2>2. Afterwards
    BY <2>1 DEF Afterwards
  <2> QED BY <2>1, <2>2, QuietJ DEF JInv, Saved
<1> QED BY <1>1, <1>2, <1>3

LEMMA PrepareJ == ASSUME KInv, Prepare PROVE JInv'
<1> USE FieldTypes DEF KInv, IInv
<1>1. UNCHANGED <<procs, ghost>> /\ call.op = "prepare" /\ campaign.attempt = "preparing"
  BY DEF Prepare, Paired
<1>2. /\ call'.pc \in {"idle", "error"} /\ call'.op \in {"idle", "prepare"}
      /\ campaign'.build = campaign.build /\ campaign'.attempt \in {"prepared", "preparing"}
  BY <1>1, PrepareShape, FinishEffect, FailsEffect DEF Attempts
<1> QED BY <1>1, <1>2, PrepareShape, QuietJ DEF Afterwards

LEMMA EnterJ == ASSUME KInv, ActivateEnter \/ RollbackEnter PROVE JInv'
<1> USE FieldTypes DEF KInv, IInv
<1>1. UNCHANGED <<disk, procs>> /\ call.pc = "enter" /\ ghost'.before = ghost.before
      /\ ghost'.drifted = ghost.drifted
  BY DEF ActivateEnter, RollbackEnter, GhostType
<1>2. CASE ActivateEnter /\ Finish("activated") /\ ghost' = [ghost EXCEPT !.lost = TRUE]
  <2>1. ghost'.lost /\ call'.pc = "idle" /\ call'.op = "idle"
    BY <1>2, FinishEffect DEF Attempts, GhostType
  <2>2. Installed' /\ Switched' /\ Bare' /\ Within' /\ Unswitched' /\ Saved'
    BY <1>1, <2>1 DEF JInv, Installed, Switched, Bare, Within, Unswitched, Saved
  <2> QED BY <2>2 DEF JInv
<1>3. CASE ActivateEnter /\ Fails("final") /\ UNCHANGED <<campaign, ghost>>
  <2>1. /\ call'.pc = "error" /\ call'.error = "final" /\ call'.op = "activate"
        /\ campaign.attempt = "activating"
    BY <1>3, FailsEffect DEF ActivateEnter, Paired
  <2> QED BY <1>1, <1>3, <2>1, QuietJ DEF Afterwards, ActivateEnter
<1>4. CASE ActivateEnter /\ Goto("save") /\ UNCHANGED <<campaign, ghost>>
  <2>1. /\ call'.pc = "save" /\ call'.op = "activate" /\ call.op = "activate"
        /\ campaign.attempt = "activating"
    BY <1>4, GotoEffect DEF ActivateEnter, Paired
  <2> QED BY <1>1, <1>4, <2>1, QuietJ DEF Afterwards, JInv, Unswitched
<1>5. CASE RollbackEnter
  <2>1. /\ call'.pc \in {"stop", "error"} /\ call'.op = "rollback"
        /\ campaign.attempt = "rolling_back" /\ UNCHANGED <<campaign, ghost>>
    BY <1>5, FailsEffect, GotoEffect DEF RollbackEnter, Paired
  <2>2. Afterwards
    BY <2>1 DEF Afterwards
  <2> QED BY <1>1, <2>1, <2>2, QuietJ DEF JInv, Saved
<1> QED BY <1>2, <1>3, <1>4, <1>5 DEF ActivateEnter

LEMMA SavePreviousJ == ASSUME KInv, SavePrevious PROVE JInv'
<1> USE FieldTypes DEF KInv, IInv
<1>1. /\ UNCHANGED <<procs, campaign>> /\ call.op = "activate" /\ call.pc = "save"
      /\ call'.op = "activate" /\ call'.pc = "stop" /\ campaign.attempt = "activating"
  BY GotoEffect DEF SavePrevious, Aimed, Paired
<1>2. /\ disk'.pointer = disk.pointer
      /\ ghost'.before = ghost.before /\ ghost'.drifted = ghost.drifted
      /\ disk.pointer = None => disk'.previous = None
      /\ ghost'.lost \/ disk'.previous = disk.pointer
  <2>1. CASE disk.pointer = None /\ UNCHANGED <<disk, ghost, budget>>
    BY <2>1 DEF JInv, Bare
  <2>2. CASE disk.pointer # None
    <3>1. PICK failed \in MayFail : \E left \in {disk.previous, "torn"} :
             /\ disk' = [disk EXCEPT !.previous = IF failed THEN left ELSE disk.pointer]
             /\ ghost' = [ghost EXCEPT !.lost = failed]
      BY <2>2 DEF SavePrevious
    <3>2. failed \in BOOLEAN
      BY DEF MayFail
    <3> QED BY <2>2, <3>1, <3>2 DEF DiskType, GhostType
  <2> QED BY <2>1, <2>2 DEF SavePrevious
<1>3. Installed' /\ Switched' /\ Bare' /\ Within' /\ Unswitched'
  BY <1>1, <1>2 DEF JInv, Installed, Switched, Bare, Within, Unswitched
<1>4. Saved'
  BY <1>1, <1>2 DEF JInv, Unswitched, Saved
<1> QED BY <1>3, <1>4 DEF JInv

LEMMA StopCallJ == ASSUME KInv, StopCall PROVE JInv'
<1> USE FieldTypes DEF KInv, IInv
<1>1. /\ UNCHANGED <<disk, campaign, ghost>> /\ call.pc = "stop"
      /\ call'.op = call.op
      /\ call'.pc = "write" \/ (call'.pc = "error" /\ call'.error = "retryable")
  <2>1. Fails("retryable") \/ call' = [call EXCEPT !.pc = "write"]
    BY DEF StopCall, Goto
  <2> QED BY <2>1, FailsEffect DEF StopCall, CallType
<1>2. procs' \subseteq procs
  BY DEF StopCall, StopProcess
<1>3. Installed' /\ Switched' /\ Bare' /\ Within' /\ Unswitched'
  BY <1>1, <1>2 DEF JInv, Installed, Switched, Bare, Within, Unswitched
<1>4. Saved'
  BY <1>1 DEF JInv, Saved, Afterwards
<1> QED BY <1>3, <1>4 DEF JInv

LEMMA WritePointerJ == ASSUME KInv, WritePointer PROVE JInv'
<1> USE FieldTypes DEF KInv, IInv
<1>1. /\ UNCHANGED <<procs, campaign, ghost>> /\ call.pc = "write" /\ procs = {}
      /\ Target \in Builds /\ disk'.previous = disk.previous
  BY DEF WritePointer, Stopped, Aimed, Target, DiskType
<1>2. CASE disk' = disk /\ Fails("retryable")
  <2>1. call'.op = call.op /\ call'.pc = "error" /\ call'.error = "retryable"
    BY <1>2, FailsEffect
  <2>2. Afterwards' => Afterwards
    BY <1>1, <2>1 DEF Afterwards
  <2> QED BY <1>1, <1>2, <2>1, <2>2, QuietJ DEF JInv, Saved
<1>3. CASE disk' = [disk EXCEPT !.pointer = Target] /\ Goto("start")
  <2>1. call'.op = call.op /\ call'.pc = "start" /\ disk'.pointer = Target
    BY <1>3, GotoEffect DEF DiskType
  <2>2. Target' = Target
    BY <1>1, <2>1 DEF Target
  <2>3. Installed' /\ Switched' /\ Bare' /\ Unswitched'
    BY <1>1, <2>1, <2>2, BuildsAssumption DEF JInv, Installed, Switched, Bare, Unswitched
  <2>4. Within'
    BY <1>1, <2>1 DEF JInv, Within, Target
  <2>5. Saved'
    BY <1>1, <2>1 DEF JInv, Saved, Afterwards
  <2> QED BY <2>3, <2>4, <2>5 DEF JInv
<1> QED BY <1>2, <1>3 DEF WritePointer

LEMMA StartCallJ == ASSUME KInv, StartCall PROVE JInv'
<1> USE FieldTypes DEF KInv, IInv
<1>1. UNCHANGED <<disk, campaign, ghost>> /\ call.pc = "start" /\ disk.pointer = Target
  BY DEF StartCall, JInv, Switched
<1>2. \A p \in procs' : p.build = Target
  BY DEF StartCall, StartProcess, Stopped
<1>3. /\ call'.op = call.op
      /\ \/ call'.pc = "hello"
         \/ call'.pc = "error"
  <2>1. Goto("hello") \/ \E k \in {"retryable", "final"} : Fails(k)
    BY DEF StartCall
  <2> QED BY <2>1, GotoEffect, FailsEffect
<1>4. Installed' /\ Switched' /\ Bare' /\ Within' /\ Unswitched'
  BY <1>1, <1>2, <1>3
  DEF JInv, Installed, Switched, Bare, Within, Unswitched, Target
<1>5. Saved'
  BY <1>1, <1>3 DEF JInv, Saved, Afterwards
<1> QED BY <1>4, <1>5 DEF JInv

LEMMA HelloJ == ASSUME KInv, Hello PROVE JInv'
<1> USE FieldTypes DEF KInv, IInv
<1>1. UNCHANGED <<disk, procs, ghost>> /\ call.pc = "hello"
  BY DEF Hello
<1>2. CASE (\E k \in {"retryable", "final"} : Fails(k)) /\ UNCHANGED campaign
  <2>1. call'.op = call.op /\ call'.pc = "error"
    BY <1>2, FailsEffect
  <2>2. Afterwards' => Afterwards
    BY <1>1, <1>2, <2>1 DEF Afterwards
  <2> QED BY <1>1, <1>2, <2>1, <2>2, QuietJ DEF JInv, Saved
<1>3. CASE Finish(IF call.op = "activate" THEN "activated" ELSE "rolled_back")
  <2>1. /\ call'.op = "idle" /\ call'.pc = "idle" /\ campaign'.build = campaign.build
        /\ campaign'.attempt = IF call.op = "activate" THEN "activated" ELSE "rolled_back"
    BY <1>3, FinishEffect DEF Attempts
  <2>2. Afterwards' => Afterwards
    BY <1>1, <2>1 DEF Afterwards
  <2> QED BY <1>1, <2>1, <2>2, QuietJ DEF JInv, Saved
<1> QED BY <1>2, <1>3 DEF Hello

LEMMA GiveUpJ == ASSUME KInv, GiveUp PROVE JInv'
<1> USE FieldTypes DEF KInv, IInv
<1>1. /\ UNCHANGED <<disk, procs, ghost>> /\ call'.op = "idle" /\ call'.pc = "idle"
      /\ campaign'.build = campaign.build
      /\ campaign'.attempt = GivenUp(call.op)
  BY FinishEffect DEF GiveUp, GivenUp, Attempts
<1>2. Afterwards' => Afterwards
  BY <1>1 DEF Afterwards, GivenUp, Paired
<1> QED BY <1>1, <1>2, QuietJ DEF JInv, Saved

\* The step the engine's observation is for: an activation is repeated only
\* while the pointer names the build that it replaces.
LEMMA RetryJ == ASSUME KInv, Retry PROVE JInv'
<1> USE FieldTypes DEF KInv, IInv
<1>1. UNCHANGED <<disk, procs, ghost>> /\ call.pc = "error" /\ ~Exhausted
  BY DEF Retry
<1>2. call.error # "final" /\ call.retries < MaxRetries
  BY <1>1 DEF Exhausted, CallType
<1>3. CASE call.op = "activate" /\ Finish("activated")
  <2>1. /\ call'.op = "idle" /\ call'.pc = "idle" /\ campaign'.build = campaign.build
        /\ campaign'.attempt = "activated"
    BY <1>3, FinishEffect DEF Attempts
  <2>2. ghost.drifted \/ ghost.lost \/ disk.previous = ghost.before
    BY <1>1, <1>2, <1>3 DEF JInv, Saved, Afterwards, CallType
  <2> QED BY <1>1, <2>1, <2>2, QuietJ
<1>4. CASE /\ Again /\ UNCHANGED campaign
           /\ \E answered \in BOOLEAN :
                ~(call.op = "activate" /\ Observed(answered) = campaign.build)
  <2>1. call'.op = call.op /\ call'.pc = "enter"
    BY <1>2, <1>4, AgainEffect
  <2>2. call.op = "activate" => ghost.drifted \/ disk.pointer = ghost.before
    <3>1. SUFFICES ASSUME call.op = "activate", ~ghost.drifted PROVE disk.pointer = ghost.before
      OBVIOUS
    <3>2. PICK answered \in BOOLEAN : Observed(answered) # campaign.build
      BY <1>4, <3>1
    <3>3. Observed(answered) = disk.pointer
      BY <3>1, ServingInstalled DEF Observed, JInv
    <3> QED BY <3>1, <3>2, <3>3 DEF JInv, Within
  <2>3. Afterwards' => Afterwards
    BY <1>4, <2>1 DEF Afterwards
  <2> QED BY <1>1, <1>4, <2>1, <2>2, <2>3, QuietJ DEF JInv, Saved
<1> QED BY <1>3, <1>4 DEF Retry, MayFail

LEMMA VerifyJ == ASSUME KInv, Verify PROVE JInv'
<1> USE FieldTypes DEF KInv, IInv
<1>1. /\ UNCHANGED <<disk, procs, ghost>> /\ call'.op = "idle" /\ call'.pc = "idle"
      /\ campaign.attempt = "verifying"
  BY IdleType DEF Verify, Paired
<1>2. campaign'.build = campaign.build
  BY AttemptEffect DEF Verify, Attempts, CampaignType
<1>3. Afterwards
  BY <1>1 DEF Afterwards
<1> QED BY <1>1, <1>2, <1>3, QuietJ DEF JInv, Saved

\* An injected restart starts what the adapter remembers; if the pointer names
\* something else by then, the target has drifted.
LEMMA RestartTargetJ == ASSUME KInv, RestartTarget PROVE JInv'
<1> USE FieldTypes DEF KInv, IInv
<1>1. /\ UNCHANGED <<disk, call, campaign>>
      /\ ghost'.before = ghost.before /\ ghost'.lost = ghost.lost
      /\ ghost'.drifted = (ghost.drifted \/ adapter.current_build # disk.pointer)
  BY DEF RestartTarget, GhostType
<1>2. \A p \in procs' : p.build = adapter.current_build
  <2>1. procs \ Supervised = {}
    BY SupervisedAll
  <2> QED BY <2>1 DEF RestartTarget, StartProcess
<1>3. Installed' /\ Switched' /\ Bare' /\ Within' /\ Unswitched'
  BY <1>1, <1>2 DEF JInv, Installed, Switched, Bare, Within, Unswitched, Target
<1>4. Saved'
  BY <1>1 DEF JInv, Saved, Afterwards
<1> QED BY <1>3, <1>4 DEF JInv

LEMMA EngineCrashJ == ASSUME KInv, EngineCrash PROVE JInv'
<1> USE FieldTypes DEF KInv, IInv
<1>1. /\ UNCHANGED <<disk, ghost>> /\ procs' = {} /\ call'.op = "idle" /\ call'.pc = "idle"
  BY IdleType DEF EngineCrash
<1>2. campaign'.attempt = Reconciled(campaign.attempt)
  BY AttemptEffect DEF EngineCrash, Attempt, CampaignType
<1>3. Afterwards' => Afterwards
  BY <1>1, <1>2 DEF Afterwards, Reconciled
<1>4. Installed' /\ Switched' /\ Bare' /\ Within' /\ Unswitched' /\ Saved'
  BY <1>1, <1>3 DEF JInv, Installed, Switched, Bare, Within, Unswitched, Saved
<1> QED BY <1>4 DEF JInv

LEMMA StepK == KInv /\ [Next]_vars => KInv'
<1> SUFFICES ASSUME KInv, [Next]_vars PROVE JInv'
  BY StepInv, PairedStep DEF KInv
<1>1. CASE InCall
  BY <1>1, PrepareJ, EnterJ, SavePreviousJ, StopCallJ, WritePointerJ, StartCallJ, HelloJ,
     GiveUpJ, RetryJ, VerifyJ DEF InCall
<1>2. CASE (\E b \in Builds : Begin(b)) \/ CallActivate \/ CallVerify \/ CallRollback
  BY <1>2, CallJ
<1>3. CASE ProcessDies \/ OrphanDies \/ EngineStops \/ UNCHANGED vars
  <2>1. UNCHANGED <<disk, call, campaign, ghost>> /\ procs' \subseteq procs
    BY <1>3 DEF ProcessDies, OrphanDies, EngineStops, vars
  <2> QED BY <2>1, OutsideJ DEF KInv
<1>4. CASE RestartTarget \/ EngineCrash
  BY <1>4, RestartTargetJ, EngineCrashJ
<1> QED BY <1>1, <1>2, <1>3, <1>4 DEF Next, Environment

LEMMA Argument == Spec => []KInv
BY InitK, StepK, PTL DEF Spec

-----------------------------------------------------------------------------
(* The theorems                                                             *)

\* Only the steps named here reach the two states.
LEMMA Reaching ==
  ASSUME KInv, [Next]_vars
  PROVE  /\ campaign'.attempt = "rolled_back" /\ campaign.attempt # "rolled_back"
              => Hello /\ call.op = "rollback" /\ Linked
         /\ campaign'.attempt = "verified" /\ campaign.attempt # "verified"
              => Verify /\ Evidence = campaign.build
<1> USE FieldTypes DEF KInv, IInv, Attempts
<1>1. CASE Prepare
  BY <1>1, PrepareShape, FinishEffect
<1>2. CASE ActivateEnter
  BY <1>2, FinishEffect DEF ActivateEnter
<1>3. CASE Hello
  BY <1>3, FinishEffect DEF Hello, Aimed
<1>4. CASE GiveUp
  BY <1>4, FinishEffect DEF GiveUp, GivenUp
<1>5. CASE Retry
  BY <1>5, FinishEffect DEF Retry
<1>6. CASE Verify
  BY <1>6, AttemptEffect DEF Verify, CampaignType
<1>7. CASE (\E b \in Builds : Begin(b)) \/ CallActivate \/ CallVerify \/ CallRollback
  BY <1>7, AttemptEffect DEF Begin, CallActivate, CallVerify, CallRollback
<1>8. CASE EngineCrash
  <2>1. campaign'.attempt = Reconciled(campaign.attempt)
    BY <1>8 DEF EngineCrash, Attempt, CampaignType
  <2> QED BY <2>1 DEF Reconciled
<1>9. CASE \/ SavePrevious \/ RollbackEnter \/ StopCall \/ WritePointer \/ StartCall
           \/ ProcessDies \/ OrphanDies \/ RestartTarget \/ EngineStops \/ UNCHANGED vars
  BY <1>9 DEF SavePrevious, RollbackEnter, StopCall, WritePointer, StartCall,
              ProcessDies, OrphanDies, RestartTarget, EngineStops, vars
<1> QED BY <1>1, <1>2, <1>3, <1>4, <1>5, <1>6, <1>7, <1>8, <1>9 DEF Next, InCall, Environment

\* A rollback that reports success has the target run, and point at, the build
\* that was installed when the activation began: retries of activate
\* (engine_run.cpp) never save the new build as previous.json.
THEOREM RollbackRestored == Spec => RollbackRestores
<1>1. ASSUME KInv, [Next]_vars,
             campaign'.attempt = "rolled_back", campaign.attempt # "rolled_back",
             ~ghost.lost, ~ghost.drifted
      PROVE  Serving = ghost.before /\ disk.pointer = ghost.before
  <2>1. call.pc = "hello" /\ call.op = "rollback" /\ Linked
    BY <1>1, Reaching DEF Hello
  <2>2. campaign.attempt = "rolling_back"
    BY <1>1, <2>1 DEF KInv, Paired
  <2>3. disk.pointer = disk.previous
    BY <1>1, <2>1 DEF KInv, JInv, Switched, Target
  <2>4. disk.previous = ghost.before
    BY <1>1, <2>2 DEF KInv, JInv, Saved, Afterwards
  <2>5. Serving = disk.pointer
    BY <1>1, <2>1, ServingInstalled DEF KInv, JInv
  <2> QED BY <2>3, <2>4, <2>5
<1>2. KInv /\ [Next]_vars =>
        [(campaign'.attempt = "rolled_back" /\ campaign.attempt # "rolled_back"
          /\ ~ghost.lost /\ ~ghost.drifted)
           => (Serving = ghost.before /\ disk.pointer = ghost.before)]_vars
  BY <1>1
<1> QED BY <1>2, Argument, PTL DEF Spec, RollbackRestores

\* A verified target serves its build, and current.json names it, so that an
\* adapter that is asked with no process running (observe) still reports it.
THEOREM VerifiedInstalled == Spec => VerifiedIsInstalled
<1>1. ASSUME KInv, [Next]_vars,
             campaign'.attempt = "verified", campaign.attempt # "verified"
      PROVE  Serving = campaign.build /\ (disk.pointer = campaign.build \/ ghost.drifted)
  <2>1. Verify /\ Serving = campaign.build
    BY <1>1, Reaching DEF Evidence
  <2>2. campaign.build \in Builds
    BY <1>1, <2>1 DEF KInv, IInv, Aimed, Verify
  <2>3. Linked
    BY <2>1, <2>2, BuildsAssumption DEF Serving
  <2> QED BY <1>1, <2>1, <2>3, ServingInstalled DEF KInv, JInv
<1>2. KInv /\ [Next]_vars =>
        [(campaign'.attempt = "verified" /\ campaign.attempt # "verified")
           => (Serving = campaign.build
               /\ (disk.pointer = campaign.build \/ ghost.drifted))]_vars
  BY <1>1
<1> QED BY <1>2, Argument, PTL DEF Spec, VerifiedIsInstalled

=============================================================================
