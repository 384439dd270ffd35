---------------------------- MODULE LocalProcess ----------------------------
(***************************************************************************)
(* The local-process adapter: one target whose control plane is a real     *)
(* process.  A build lives in a slot directory (executable and package),   *)
(* current.json points at the installed build, previous.json at the one    *)
(* it replaced, and the adapter remembers in memory which process it       *)
(* supervises.  The engine's operation (src/engine/engine_run.cpp) calls   *)
(* the adapter, retries it and observes the target before it repeats an    *)
(* activation.  Calls hold the target's mutex, so only the engine, the     *)
(* fault injection between two calls and the processes themselves          *)
(* interleave; every fallible step of a call is an action of its own.      *)
(*                                                                         *)
(* A build stands for its version too: an artifact carries one of each.    *)
(* A campaign has exactly one attempt on the target: plan_work_locked      *)
(* creates another only when there is none (src/engine/engine_exec.cpp).   *)
(***************************************************************************)
EXTENDS Integers, FiniteSets

CONSTANTS
  Builds,        \* the builds the artifacts name
  None,          \* no build: the file is absent, nothing was ever started
  MaxRetries,    \* policy.max_retries_per_operation
  MaxCampaigns,  \* bound: campaigns begun on the target
  MaxFaults      \* bound: failing calls, deaths of processes, engine restarts

ASSUME BuildsAssumption == Builds # {} /\ None \notin Builds /\ "torn" \notin Builds
ASSUME BoundsAssumption == {MaxRetries, MaxCampaigns, MaxFaults} \subseteq Nat

VARIABLES
  disk,       \* exe per slot, pkg, pointer (current.json), previous (previous.json)
  procs,      \* live processes this adapter started
  orphans,    \* how many processes a gone engine left behind are alive
  adapter,    \* TargetState: current_build, the supervised process, port known
  call,       \* the engine's operation: which, where in it, retries so far
  campaign,   \* the campaign's build, its attempt and its verification retries
  ghost,      \* what the target pointed at when the activation began; exceptions
  budget      \* campaigns and faults still allowed

vars == <<disk, procs, orphans, adapter, call, campaign, ghost, budget>>

Idle == [op |-> "idle", pc |-> "idle", retries |-> 0, error |-> "none"]

Fresh == [current_build |-> None, handle |-> 0, port |-> FALSE]

Pending == {"prepare", "activate", "verify", "rollback"}

TypeOK ==
  /\ disk \in [exe : [Builds -> {"none", "torn", "ok"}], pkg : SUBSET Builds,
               pointer : Builds \cup {None}, previous : Builds \cup {None, "torn"}]
  /\ procs \subseteq [id : 1..2, build : Builds]
  /\ orphans \in 0..MaxFaults
  /\ adapter \in [current_build : Builds \cup {None}, handle : 0..2, port : BOOLEAN]
  /\ call \in [op : Pending \cup {"idle"},
               pc : {"idle", "enter", "save", "stop", "write", "start", "hello", "error"},
               retries : 0..MaxRetries, error : {"none", "retryable", "final"}]
  /\ campaign \in [build : Builds \cup {None}, retries : 0..MaxRetries,
                   attempt : {"none", "preparing", "prepared", "activating", "activated",
                              "verifying", "verified", "failed", "suspect",
                              "rolling_back", "rolled_back"}]
  /\ ghost \in [before : Builds \cup {None}, lost : BOOLEAN, drifted : BOOLEAN]
  /\ budget \in [campaigns : 0..MaxCampaigns, faults : 0..MaxFaults]

Init ==
  /\ disk = [exe |-> [b \in Builds |-> "none"], pkg |-> {}, pointer |-> None, previous |-> None]
  /\ procs = {}
  /\ orphans = 0
  /\ adapter = Fresh
  /\ call = Idle
  /\ campaign = [build |-> None, attempt |-> "none", retries |-> 0]
  /\ ghost = [before |-> None, lost |-> FALSE, drifted |-> FALSE]
  /\ budget = [campaigns |-> MaxCampaigns, faults |-> MaxFaults]

-----------------------------------------------------------------------------
(* What the adapter can see                                                 *)

\* ProcessSupervisor::running: the supervised handle is a live process.
Supervised == {p \in procs : p.id = adapter.handle}
Running == Supervised # {}

\* ensure_link: commands need a live process and the port it announced.
Linked == Running /\ adapter.port

\* The build the linked process answers "status" and "hello" with.
Serving == IF Linked THEN (CHOOSE p \in Supervised : TRUE).build ELSE None

\* observe: what the process answers, else the version current.json names.
Observed(answered) == IF Linked /\ answered THEN Serving ELSE disk.pointer

\* A step fails only while the fault bound lasts.
MayFail == IF budget.faults > 0 THEN {TRUE, FALSE} ELSE {FALSE}
Spend(failed) == budget' = IF failed THEN [budget EXCEPT !.faults = @ - 1] ELSE budget

Fails(kind) == call' = [call EXCEPT !.pc = "error", !.error = kind]
Goto(pc) == call' = [call EXCEPT !.pc = pc]

Attempt(state) == campaign' = [campaign EXCEPT !.attempt = state]
Finish(state) == call' = Idle /\ Attempt(state)

Enter(op) == call' = [Idle EXCEPT !.op = op, !.pc = "enter"]

-----------------------------------------------------------------------------
(* Campaigns                                                                *)

\* An operator begins a campaign for any build: the catalog that the planner
\* compares it with is a file the adapter does not write.
Begin(b) ==
  /\ budget.campaigns > 0 /\ call = Idle
  /\ campaign.attempt \in {"none", "verified", "failed", "suspect", "rolled_back"}
  /\ campaign' = [build |-> b, attempt |-> "preparing", retries |-> 0]
  /\ Enter("prepare")
  /\ budget' = [budget EXCEPT !.campaigns = @ - 1]
  /\ UNCHANGED <<disk, procs, orphans, adapter, ghost>>

\* The executable after write_package: copied only into a slot that has none,
\* and a copy that fails, possibly half way, is not noticed.
CopyExe(b, result) == IF disk.exe[b] = "none" THEN result ELSE disk.exe[b]

\* prepare: the package is written atomically and its digest is verified; the
\* executable is not.  acked = FALSE is the lost acknowledgement.
Prepare ==
  /\ call.op = "prepare" /\ call.pc = "enter"
  /\ LET b == campaign.build IN
     \E result \in {"none", "torn", "ok"}, written \in BOOLEAN, acked \in BOOLEAN :
       LET faulty == result # "ok" \/ ~written \/ ~acked
           pkg == IF written THEN disk.pkg \cup {b} ELSE disk.pkg
       IN /\ faulty \in MayFail /\ Spend(faulty)
          /\ disk' = [disk EXCEPT !.exe[b] = CopyExe(b, result), !.pkg = pkg]
          /\ \/ b \in pkg /\ acked /\ Finish("prepared")
             \/ b \in pkg /\ ~acked /\ Fails("retryable") /\ UNCHANGED campaign
             \/ b \notin pkg /\ Fails("final") /\ UNCHANGED campaign
  /\ UNCHANGED <<procs, orphans, adapter, ghost>>

-----------------------------------------------------------------------------
(* activate and rollback, step by step                                      *)

CallActivate ==
  /\ call = Idle /\ campaign.attempt = "prepared"
  /\ Enter("activate") /\ Attempt("activating")
  /\ ghost' = [ghost EXCEPT !.before = disk.pointer, !.lost = FALSE]
  /\ UNCHANGED <<disk, procs, orphans, adapter, budget>>

\* The slot must have an executable; a build the adapter remembers having
\* started is reported as already active while the supervised process lives.
ActivateEnter ==
  /\ call.op = "activate" /\ call.pc = "enter"
  /\ LET b == campaign.build
         already == adapter.current_build = b /\ Running
     IN \/ /\ disk.exe[b] = "none"
           /\ Fails("final") /\ UNCHANGED <<campaign, ghost>>
        \/ /\ disk.exe[b] # "none" /\ already
           /\ Finish("activated") /\ ghost' = [ghost EXCEPT !.lost = TRUE]
        \/ /\ disk.exe[b] # "none" /\ ~already
           /\ Goto("save") /\ UNCHANGED <<campaign, ghost>>
  /\ UNCHANGED <<disk, procs, orphans, adapter, budget>>

\* previous.json becomes a copy of current.json; the result of the copy is
\* ignored, and it may leave the old file, a torn one or the new one.
SavePrevious ==
  /\ call.pc = "save"
  /\ \/ disk.pointer = None /\ UNCHANGED <<disk, ghost, budget>>
     \/ /\ disk.pointer # None
        /\ \E failed \in MayFail : \E left \in {disk.previous, "torn"} :
             /\ Spend(failed)
             /\ disk' = [disk EXCEPT !.previous = IF failed THEN left ELSE disk.pointer]
             /\ ghost' = [ghost EXCEPT !.lost = failed]
  /\ Goto("stop")
  /\ UNCHANGED <<procs, orphans, adapter, campaign>>

\* rollback reads previous.json and needs the slot's executable.
RollbackEnter ==
  /\ call.op = "rollback" /\ call.pc = "enter"
  /\ \/ /\ disk.previous \in Builds /\ disk.exe[disk.previous] # "none"
        /\ Goto("stop")
     \/ /\ disk.previous \in Builds => disk.exe[disk.previous] = "none"
        /\ Fails("final")
  /\ UNCHANGED <<disk, procs, orphans, adapter, campaign, ghost, budget>>

\* stop_process: ask, wait, kill; only a failed kill leaves the process alive,
\* and then the port is kept as well.
StopProcess(killed) ==
  /\ procs' = IF killed THEN procs \ Supervised ELSE procs
  /\ adapter' = IF killed THEN [adapter EXCEPT !.port = FALSE] ELSE adapter

\* A defect: a failed kill is taken for done.
StopCallAnyway ==
  /\ call.pc = "stop"
  /\ \E failed \in MayFail :
       /\ failed => Running
       /\ Spend(failed) /\ StopProcess(~failed) /\ Goto("write")
  /\ UNCHANGED <<disk, orphans, campaign, ghost>>

StopCall ==
  /\ call.pc = "stop"
  /\ \E failed \in MayFail :
       /\ failed => Running
       /\ Spend(failed)
       /\ StopProcess(~failed)
       /\ IF failed THEN Fails("retryable") ELSE Goto("write")
  /\ UNCHANGED <<disk, orphans, campaign, ghost>>

\* The build an operation switches to: the artifact's, or the one previous.json
\* recorded.
Target == IF call.op = "activate" THEN campaign.build ELSE disk.previous

\* current.json is replaced atomically.
WritePointer ==
  /\ call.pc = "write"
  /\ \E failed \in MayFail :
       /\ Spend(failed)
       /\ disk' = IF failed THEN disk ELSE [disk EXCEPT !.pointer = Target]
       /\ IF failed THEN Fails("retryable") ELSE Goto("start")
  /\ UNCHANGED <<procs, orphans, adapter, campaign, ghost>>

\* How a start can end: no executable; not created, or gone before it is ready;
\* alive but mute past the readiness bound; ready.
StartResults(b) ==
  CASE disk.exe[b] = "none" -> {"missing"}
    [] disk.exe[b] = "torn" -> {"gone"}
    [] OTHER -> {"ready"} \cup (IF TRUE \in MayFail THEN {"gone", "mute"} ELSE {})

FreshId(live) == CHOOSE i \in 1..2 : \A p \in live : p.id # i

\* start_process over the live processes and the adapter state it finds: only a
\* ready process gets its port and build remembered.
StartProcess(b, result, live, state) ==
  LET id == FreshId(live) IN
  /\ procs' = IF result \in {"mute", "ready"} THEN live \cup {[id |-> id, build |-> b]} ELSE live
  /\ adapter' = CASE result = "missing" -> state
                  [] result = "gone" -> [state EXCEPT !.handle = 0]
                  [] result = "mute" -> [state EXCEPT !.handle = id]
                  [] result = "ready" -> [current_build |-> b, handle |-> id, port |-> TRUE]

\* Bound: ids for two processes are enough to see a second one.
Startable == Cardinality(procs) < 2

StartCall ==
  /\ call.pc = "start" /\ Startable
  /\ \E result \in StartResults(Target) :
       /\ Spend(result = "mute" \/ (result = "gone" /\ disk.exe[Target] = "ok"))
       /\ StartProcess(Target, result, procs, adapter)
       /\ CASE result = "ready" -> Goto("hello")
            [] result = "missing" -> Fails("final")
            [] OTHER -> Fails("retryable")
  /\ UNCHANGED <<disk, orphans, campaign, ghost>>

\* The new process answers, or it is dead (not_found), or the answer is lost:
\* the connection fails, the peer closes it, or the acknowledgement is dropped.
Hello ==
  /\ call.pc = "hello"
  /\ \/ /\ Linked
        /\ Finish(IF call.op = "activate" THEN "activated" ELSE "rolled_back")
        /\ UNCHANGED budget
     \/ ~Linked /\ Fails("final") /\ UNCHANGED <<campaign, budget>>
     \/ /\ TRUE \in MayFail /\ Spend(TRUE)
        /\ \E kind \in {"retryable", "final"} : Fails(kind)
        /\ UNCHANGED campaign
  /\ UNCHANGED <<disk, procs, orphans, adapter, ghost>>

-----------------------------------------------------------------------------
(* The engine around the adapter                                            *)

\* The attempt an operation leaves when it is given up: only an activation
\* that was observed can be rolled back later.
GivenUp(op) == IF op = "rollback" THEN "suspect" ELSE "failed"

\* A defect: one retry too many.
ExhaustedLate == call.error = "final" \/ call.retries > MaxRetries

Exhausted == call.error = "final" \/ call.retries >= MaxRetries

GiveUp ==
  /\ call.pc = "error" /\ Exhausted
  /\ Finish(GivenUp(call.op))
  /\ UNCHANGED <<disk, procs, orphans, adapter, ghost, budget>>

\* A defect: the retry is not counted.
AgainUncounted == call' = [call EXCEPT !.pc = "enter", !.error = "none"]

Again == call' = [call EXCEPT !.pc = "enter", !.error = "none", !.retries = @ + 1]

\* A defect: the target is not observed before the activation is repeated.
RetryBlind ==
  /\ call.pc = "error" /\ ~Exhausted
  /\ Again
  /\ UNCHANGED <<disk, procs, orphans, adapter, campaign, ghost, budget>>

\* A failed activation is repeated only when the target, observed first, does
\* not show the build; prepare and rollback are simply repeated.
Retry ==
  /\ call.pc = "error" /\ ~Exhausted
  /\ \E lostAnswer \in MayFail :
       LET applied == call.op = "activate" /\ Observed(~lostAnswer) = campaign.build
       IN /\ lostAnswer => call.op = "activate" /\ Linked
          /\ Spend(lostAnswer)
          /\ IF applied THEN Finish("activated") ELSE Again /\ UNCHANGED campaign
  /\ UNCHANGED <<disk, procs, orphans, adapter, ghost>>

\* verify: fresh evidence that the linked process runs the artifact's build.
CallVerify ==
  /\ call = Idle /\ campaign.attempt = "activated"
  /\ Enter("verify") /\ Attempt("verifying")
  /\ UNCHANGED <<disk, procs, orphans, adapter, ghost, budget>>

\* A defect: without an answer the installed version is taken for evidence.
EvidenceInstalled == Observed(TRUE)

\* The evidence verify returns; a stale, unhealthy or unanswered status has none.
Evidence == Serving

Verify ==
  /\ call.op = "verify" /\ call.pc = "enter"
  /\ \E failed \in MayFail :
       /\ Spend(failed)
       /\ \/ ~failed /\ Evidence = campaign.build /\ Attempt("verified")
          \/ /\ failed \/ Evidence # campaign.build
             /\ \/ /\ campaign.retries < MaxRetries
                   /\ campaign' = [campaign EXCEPT !.attempt = "activated", !.retries = @ + 1]
                \/ /\ campaign.retries >= MaxRetries
                   /\ Attempt("suspect")
  /\ call' = Idle
  /\ UNCHANGED <<disk, procs, orphans, adapter, ghost>>

\* An operator, or a failed campaign, rolls back what is known to be activated.
CallRollback ==
  /\ call = Idle /\ campaign.attempt \in {"activated", "verified", "suspect"}
  /\ Enter("rollback") /\ Attempt("rolling_back")
  /\ UNCHANGED <<disk, procs, orphans, adapter, ghost, budget>>

-----------------------------------------------------------------------------
(* Deaths, injected restarts and engine restarts                            *)

\* Another holder of the target's mutex runs before a call enters the adapter
\* or after it has returned.
Unlocked == call.pc \in {"idle", "enter", "error"}

\* A supervised process dies: a crash of its own, kill_target_process or
\* crash_target_process.  The adapter's port and current_build stay.
ProcessDies ==
  /\ budget.faults > 0 /\ Spend(TRUE)
  /\ \E p \in procs : procs' = procs \ {p}
  /\ UNCHANGED <<disk, orphans, adapter, call, campaign, ghost>>

OrphanDies ==
  /\ orphans > 0 /\ orphans' = orphans - 1
  /\ UNCHANGED <<disk, procs, adapter, call, campaign, ghost, budget>>

\* restart_target_process: stop, then start current_build, whatever the pointer
\* says by then.  (A kill that fails changes nothing.)
RestartTarget ==
  /\ Unlocked /\ budget.faults > 0 /\ Spend(TRUE)
  /\ adapter.current_build # None
  /\ \E result \in StartResults(adapter.current_build) :
       StartProcess(adapter.current_build, result, procs \ Supervised,
                    [adapter EXCEPT !.port = FALSE])
  /\ ghost' = [ghost EXCEPT !.drifted = @ \/ adapter.current_build # disk.pointer]
  /\ UNCHANGED <<disk, orphans, call, campaign>>

\* What reconciliation makes of the attempt: work in flight is abandoned, and
\* counts as activated only if that had been recorded.
Reconciled(state) ==
  CASE state \in {"preparing", "activating"} -> "failed"
    [] state \in {"verifying", "rolling_back"} -> "suspect"
    [] OTHER -> state

\* The engine's process ends at any step: its children live on, and the next
\* adapter knows none of them.
EngineCrash ==
  /\ budget.faults > 0 /\ Spend(TRUE)
  /\ orphans' = orphans + Cardinality(procs) /\ procs' = {}
  /\ adapter' = Fresh /\ call' = Idle
  /\ Attempt(Reconciled(campaign.attempt))
  /\ UNCHANGED <<disk, ghost>>

\* An orderly end, with keep_running_after_operations off: the destructor
\* stops the process.  With it on, the end is an EngineCrash between calls.
EngineStops ==
  /\ call = Idle /\ budget.faults > 0 /\ Spend(TRUE)
  /\ procs' = procs \ Supervised /\ adapter' = Fresh
  /\ UNCHANGED <<disk, orphans, call, campaign, ghost>>

-----------------------------------------------------------------------------
InCall ==
  \/ Prepare \/ ActivateEnter \/ SavePrevious \/ RollbackEnter \/ StopCall \/ WritePointer
  \/ StartCall \/ Hello \/ GiveUp \/ Retry \/ Verify

Environment ==
  \/ \E b \in Builds : Begin(b)
  \/ CallActivate \/ CallVerify \/ CallRollback
  \/ ProcessDies \/ OrphanDies \/ RestartTarget \/ EngineCrash \/ EngineStops

Next == InCall \/ Environment

\* Every wait inside a call is bounded (readiness, shutdown grace) and a live
\* control plane answers, so a call that can go on does.
Spec == Init /\ [][Next]_vars /\ WF_vars(InCall)

-----------------------------------------------------------------------------
(* Correctness                                                              *)

\* One control-plane process per target, as the adapter's declared limits say:
\* whatever fails between stop_process and start_process, and however calls and
\* injected restarts follow each other, an adapter never has a second process
\* alive, and the one it has is the one it supervises.
OneControlPlane == procs \subseteq Supervised /\ Cardinality(procs) <= 1

\* A rollback that reports success has the target run, and point at, the build
\* that was installed when the campaign's activation began.  Retries must not
\* have saved the new build as the previous one.  Not claimed when the copy to
\* previous.json failed or was skipped because the build was already active, or
\* when an injected restart started a build the pointer does not name.
RollbackRestores ==
  [][(campaign'.attempt = "rolled_back" /\ campaign.attempt # "rolled_back"
      /\ ~ghost.lost /\ ~ghost.drifted)
       => (Serving = ghost.before /\ disk.pointer = ghost.before)]_vars

\* When an attempt becomes verified its build is served by the supervised
\* process, and is what current.json names: an engine that restarts and finds
\* no process still observes the verified version.
VerifiedIsInstalled ==
  [][(campaign'.attempt = "verified" /\ campaign.attempt # "verified")
       => (Serving = campaign.build
           /\ (disk.pointer = campaign.build \/ ghost.drifted))]_vars

\* Every operation of the engine on the target ends: the retry loops of
\* execute_item stop, however often the adapter fails.
OperationsEnd == (call.op # "idle") ~> (call.op = "idle")

=============================================================================
