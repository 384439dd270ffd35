----------------------------- MODULE DriverPool -----------------------------
(***************************************************************************)
(* The threads of the engine: the bounded worker pool, the driver that     *)
(* plans a batch, hands its items to the pool and waits for them on a      *)
(* latch, and the callers that start campaigns, drive them themselves,     *)
(* wait for idleness and shut the engine down.                             *)
(*                                                                         *)
(*   src/src/runtime/worker_pool.cpp     run_worker, submit, stop          *)
(*   src/src/engine/engine_run.cpp       BatchLatch, run_steps_bounded,    *)
(*                                       driver_loop, run_until_idle,      *)
(*                                       run_steps, wait_for_idle,         *)
(*                                       shutdown                          *)
(*   src/src/engine/engine_ops.cpp       the end of start()                *)
(*                                                                         *)
(* What an item does to a campaign is the subject of UpgradeEngine; here   *)
(* an item is claimed by a plan, executed once, and then either out of     *)
(* flight or, when its commit was fenced, in flight for ever.              *)
(***************************************************************************)
EXTENDS Naturals, Sequences, FiniteSets

CONSTANTS Workers,      \* the threads of the pool
          Callers,      \* threads of the application that call the engine
          Campaigns,    \* campaigns to start, each at most once
          ItemsOf,      \* [Campaigns -> set of work items]
          MayFence,     \* items whose commit may find its fence broken
          MaxQueue,     \* WorkerPool::Options::max_queue
          MaxItems,     \* EngineConfig::max_work_items_per_pump
          MaxPump,      \* EngineConfig::max_pump_iterations
          Starts,       \* [Callers -> the campaigns this caller starts]
          CallsOf,      \* [Callers -> the other calls it makes]
          MaxSteps,     \* what run_steps is called with
          None          \* no campaign, no task

Items   == UNION {ItemsOf[c] : c \in Campaigns}
Threads == Workers \cup Callers

ASSUME PoolAssumption ==
  /\ Workers \cap Callers = {}
  /\ Starts \in [Callers -> SUBSET Campaigns]
  /\ CallsOf \in [Callers ->
                  SUBSET {"run_until_idle", "run_steps", "wait_for_idle", "shutdown"}]
  /\ None \notin Campaigns
  /\ MaxQueue \in Nat \ {0} /\ MaxItems \in Nat \ {0} /\ MaxPump \in Nat /\ MaxSteps \in 0..MaxPump
  /\ \A c, d \in Campaigns : c # d => ItemsOf[c] \cap ItemsOf[d] = {}
  /\ MayFence \subseteq Items
  /\ IsFiniteSet(Items) /\ IsFiniteSet(Workers)

VARIABLES
  (* WorkerPool *)
  queue,          \* queue_: tasks not yet taken
  task,           \* [Workers -> the task a worker took, or None]
  stopping,       \* stopping_, and cancel_requested_ which stop() sets with it
  (* Engine *)
  work,           \* [Items -> "idle" | "todo" | "inflight" | "done"]
  admissions,     \* admissions_
  driverActive,   \* driver_active_
  shuttingDown,   \* shutting_down_
  closed,         \* the store was closed by shutdown()
  (* local variables of the threads *)
  pc,             \* where a thread is
  role,           \* whose run_steps_bounded it is: "loop" | "idle" | "steps" | "none"
  batch,          \* items of its batch not yet handed out
  latch,          \* BatchLatch::remaining_
  seen,           \* driver_loop's copy of admissions_
  base,           \* run_steps_bounded's admitted_at_start
  step,           \* run_steps_bounded's loop counter
  starting,       \* [Callers -> the campaign start() is working on]
  (* history *)
  servedBy,       \* who start() relied on to drive the campaign
  exhausted       \* some driver stopped at MaxPump and reported it

poolVars   == <<queue, task, stopping>>
engineVars == <<work, admissions, driverActive, shuttingDown, closed>>
driveVars  == <<role, batch, latch, seen, base, step>>
vars == <<poolVars, engineVars, driveVars, pc, starting, servedBy, exhausted>>

DriverTask == [kind |-> "driver"]
ItemTask(i, t) == [kind |-> "item", item |-> i, latch |-> t]
Tasks == {DriverTask} \cup [kind : {"item"}, item : Items, latch : Threads]

WorkerPcs == {"wait", "taken", "exited"}
DrivePcs  == {"entry", "pass", "empty", "serial", "submit", "latch", "ret"}
CallerPcs == {"free", "admit", "submitDriver", "recheck", "sleep", "stop", "join"}

\* Every variable has its type, and the queue never exceeds its bound.
TypeOK ==
  /\ queue \in Seq(Tasks) /\ Len(queue) <= MaxQueue
  /\ task \in [Workers -> Tasks \cup {None}]
  /\ stopping \in BOOLEAN
  /\ work \in [Items -> {"idle", "todo", "inflight", "done"}]
  /\ admissions \in Nat
  /\ driverActive \in BOOLEAN /\ shuttingDown \in BOOLEAN /\ closed \in BOOLEAN
  /\ pc \in [Threads -> WorkerPcs \cup DrivePcs \cup CallerPcs]
  /\ role \in [Threads -> {"none", "loop", "idle", "steps"}]
  /\ batch \in [Threads -> SUBSET Items]
  /\ latch \in [Threads -> Nat] /\ seen \in [Threads -> Nat]
  /\ base \in [Threads -> Nat] /\ step \in [Threads -> 0..MaxPump]
  /\ starting \in [Callers -> Campaigns \cup {None}]
  /\ servedBy \in [Campaigns -> {"none", "own", "loop", "idle", "refused"}]
  /\ exhausted \in BOOLEAN

Init ==
  /\ queue = <<>> /\ task = [w \in Workers |-> None]
  /\ stopping = FALSE
  /\ work = [i \in Items |-> "idle"]
  /\ admissions = 0 /\ driverActive = FALSE /\ shuttingDown = FALSE /\ closed = FALSE
  /\ pc = [t \in Threads |-> IF t \in Workers THEN "wait" ELSE "free"]
  /\ role = [t \in Threads |-> "none"] /\ batch = [t \in Threads |-> {}]
  /\ latch = [t \in Threads |-> 0] /\ seen = [t \in Threads |-> 0]
  /\ base = [t \in Threads |-> 0] /\ step = [t \in Threads |-> 0]
  /\ starting = [t \in Callers |-> None]
  /\ servedBy = [c \in Campaigns |-> "none"] /\ exhausted = FALSE

-----------------------------------------------------------------------------
(* Shared pieces. *)

Todo     == {i \in Items : work[i] = "todo"}
InFlight == {i \in Items : work[i] = "inflight"}
Idle     == ~driverActive /\ InFlight = {}
Goto(t, l) == pc' = [pc EXCEPT ![t] = l]

\* Mutated form: the condition variable is not notified.
GotoQuietly(t, l) == pc' = [pc EXCEPT ![t] = l]

\* idle_cv_.notify_all(), by thread t on its way to l: every sleeping waiter
\* evaluates its predicate again.
NotifyAndGoto(t, l) ==
  pc' = [u \in Threads |-> IF u = t THEN l
                           ELSE IF pc[u] = "sleep" THEN "recheck" ELSE pc[u]]

\* execute_item: the adapter call and its commit. A fenced commit, and one
\* that finds the journal closed, leave the attempt in flight.
ExecuteItem(i) ==
  \/ ~closed /\ work' = [work EXCEPT ![i] = "done"]
  \/ (closed \/ i \in MayFence) /\ UNCHANGED work

\* BatchLatch::done.
LatchDone(t) == latch' = [latch EXCEPT ![t] = IF @ > 0 THEN @ - 1 ELSE 0]

\* Mutated form: the bound of the queue is not checked.
AcceptsAny == ~stopping

\* WorkerPool::submit: refused when stopping or full.
Accepts == ~stopping /\ Len(queue) < MaxQueue

Enqueue(k) ==
  /\ Accepts
  /\ queue' = Append(queue, k)

Refuse ==
  /\ ~Accepts
  /\ UNCHANGED queue

-----------------------------------------------------------------------------
(* WorkerPool::run_worker. *)

\* The wait ends with a task at the front of the queue.
Take(w) ==
  /\ pc[w] = "wait" /\ ~stopping /\ queue # <<>>
  /\ task' = [task EXCEPT ![w] = Head(queue)]
  /\ queue' = Tail(queue)
  /\ Goto(w, "taken")
  /\ UNCHANGED <<stopping, engineVars, driveVars, starting, servedBy, exhausted>>

\* Mutated form: a worker leaves only while there are tasks.
ExitWithTasks(w) ==
  /\ pc[w] = "wait" /\ stopping /\ queue # <<>>
  /\ Goto(w, "exited")
  /\ UNCHANGED <<poolVars, engineVars, driveVars, starting, servedBy, exhausted>>

\* The wait ends because the pool stops.
Exit(w) ==
  /\ pc[w] = "wait" /\ stopping
  /\ Goto(w, "exited")
  /\ UNCHANGED <<poolVars, engineVars, driveVars, starting, servedBy, exhausted>>

\* Cancellation was requested after the task was taken: it is not executed.
RetireTaken(w) ==
  /\ pc[w] = "taken" /\ stopping
  /\ task' = [task EXCEPT ![w] = None]
  /\ Goto(w, "wait")
  /\ UNCHANGED <<queue, stopping, engineVars, driveVars, starting, servedBy, exhausted>>

\* The task is the driver: it enters its loop.
RunDriver(w) ==
  /\ pc[w] = "taken" /\ ~stopping /\ task[w] = DriverTask
  /\ Goto(w, "entry")
  /\ role' = [role EXCEPT ![w] = "loop"]
  /\ UNCHANGED <<poolVars, engineVars, batch, latch, seen, base, step, starting, servedBy, exhausted>>

\* The lambda of a batch item: execute_item, then latch.done(). A stop between
\* the look at the cancellation and the call finds what a stop after it finds.
RunItem(w) ==
  /\ pc[w] = "taken" /\ ~stopping /\ task[w] # DriverTask
  /\ ExecuteItem(task[w].item)
  /\ LatchDone(task[w].latch)
  /\ task' = [task EXCEPT ![w] = None]
  /\ Goto(w, "wait")
  /\ UNCHANGED <<queue, stopping, admissions, driverActive, shuttingDown, closed,
                 role, batch, seen, base, step, starting, servedBy, exhausted>>

-----------------------------------------------------------------------------
(* Engine::run_steps_bounded, on a worker (driver_loop) or on a caller      *)
(* (run_until_idle).                                                        *)

\* driver_loop and run_steps_bounded each load admissions_ before the first
\* pass; an admission between the two loads only costs driver_loop one round
\* more, so they are one step.
Entry(t) ==
  /\ pc[t] = "entry"
  /\ seen' = [seen EXCEPT ![t] = admissions]
  /\ IF shuttingDown
     THEN Goto(t, "ret") /\ UNCHANGED <<base, step>>
     ELSE /\ base' = [base EXCEPT ![t] = admissions]
          /\ step' = [step EXCEPT ![t] = 0]
          /\ Goto(t, "pass")
  /\ UNCHANGED <<poolVars, engineVars, role, batch, latch, starting, servedBy, exhausted>>

Bound(t) == IF role[t] = "steps" THEN MaxSteps ELSE MaxPump

\* The loop ends: at its bound, which run_steps does not report, or because of
\* a shutdown.
PassEnds(t) ==
  /\ pc[t] = "pass"
  /\ step[t] = Bound(t) \/ shuttingDown
  /\ exhausted' = (exhausted \/ (step[t] = Bound(t) /\ role[t] # "steps"))
  /\ Goto(t, "ret")
  /\ UNCHANGED <<poolVars, engineVars, driveVars, starting, servedBy>>

\* One pass: plan under the engine mutex. A batch of several items goes to the
\* pool, a single item is executed here.
Pass(t) ==
  /\ pc[t] = "pass" /\ step[t] < Bound(t) /\ ~shuttingDown
  /\ \/ /\ Todo = {}
        /\ Goto(t, "empty")
        /\ UNCHANGED <<work, batch, latch>>
     \/ \E S \in SUBSET Todo :
          /\ S # {} /\ Cardinality(S) <= MaxItems
          /\ Cardinality(S) = MaxItems \/ S = Todo
          /\ work' = [i \in Items |-> IF i \in S THEN "inflight" ELSE work[i]]
          /\ batch' = [batch EXCEPT ![t] = S]
          /\ IF Cardinality(Workers) > 1 /\ Cardinality(S) > 1
             THEN latch' = [latch EXCEPT ![t] = Cardinality(S)] /\ Goto(t, "submit")
             ELSE UNCHANGED latch /\ Goto(t, "serial")
  /\ UNCHANGED <<poolVars, admissions, driverActive, shuttingDown, closed,
                 role, seen, base, step, starting, servedBy, exhausted>>

\* Nothing planned: go on only if a campaign was admitted meanwhile.
Empty(t) ==
  /\ pc[t] = "empty"
  /\ IF admissions # base[t]
     THEN /\ base' = [base EXCEPT ![t] = admissions]
          /\ step' = [step EXCEPT ![t] = @ + 1]
          /\ Goto(t, "pass")
     ELSE Goto(t, "ret") /\ UNCHANGED <<base, step>>
  /\ UNCHANGED <<poolVars, engineVars, role, batch, latch, seen, starting, servedBy, exhausted>>

NextStep(t) == step' = [step EXCEPT ![t] = @ + 1] /\ Goto(t, "pass")

Serial(t) ==
  /\ pc[t] = "serial"
  /\ \E i \in batch[t] :
       /\ ExecuteItem(i)
       /\ batch' = [batch EXCEPT ![t] = @ \ {i}]
  /\ IF Cardinality(batch[t]) = 1 THEN NextStep(t) ELSE UNCHANGED <<pc, step>>
  /\ UNCHANGED <<poolVars, admissions, driverActive, shuttingDown, closed,
                 role, latch, seen, base, starting, servedBy, exhausted>>

SubmitItem(t) ==
  /\ pc[t] = "submit" /\ Cardinality(batch[t]) > 1
  /\ \E i \in batch[t] :
       /\ Enqueue(ItemTask(i, t))
       /\ batch' = [batch EXCEPT ![t] = @ \ {i}]
  /\ UNCHANGED <<task, stopping, engineVars, pc, role, latch, seen, base, step,
                 starting, servedBy, exhausted>>

\* The pool refuses the item: the driver executes it itself.
ExecuteRefused(t) ==
  /\ pc[t] = "submit" /\ Cardinality(batch[t]) > 1
  /\ Refuse
  /\ \E i \in batch[t] :
       /\ ExecuteItem(i)
       /\ batch' = [batch EXCEPT ![t] = @ \ {i}]
  /\ LatchDone(t)
  /\ UNCHANGED <<task, stopping, admissions, driverActive, shuttingDown, closed,
                 pc, role, seen, base, step, starting, servedBy, exhausted>>

\* The last item of a batch is always the driver's own.
ExecuteOwn(t) ==
  /\ pc[t] = "submit" /\ Cardinality(batch[t]) = 1
  /\ \E i \in batch[t] : ExecuteItem(i)
  /\ batch' = [batch EXCEPT ![t] = {}]
  /\ LatchDone(t)
  /\ Goto(t, "latch")
  /\ UNCHANGED <<poolVars, admissions, driverActive, shuttingDown, closed,
                 role, seen, base, step, starting, servedBy, exhausted>>

\* Mutated form: the driver does not wait for its batch.
LatchPassed(t) ==
  /\ pc[t] = "latch"
  /\ NextStep(t)
  /\ UNCHANGED <<poolVars, engineVars, role, batch, latch, seen, base, starting, servedBy, exhausted>>

LatchWait(t) ==
  /\ pc[t] = "latch" /\ latch[t] = 0
  /\ NextStep(t)
  /\ UNCHANGED <<poolVars, engineVars, role, batch, latch, seen, base, starting, servedBy, exhausted>>

\* The local variables of a driver end with its call.
LeaveDrive(t) ==
  /\ role' = [role EXCEPT ![t] = "none"]
  /\ seen' = [seen EXCEPT ![t] = 0]
  /\ base' = [base EXCEPT ![t] = 0]
  /\ step' = [step EXCEPT ![t] = 0]

\* Mutated form: the loop ends without a second look at admissions_.
LoopReturnsAtOnce(t) ==
  /\ pc[t] = "ret" /\ role[t] = "loop"
  /\ driverActive' = FALSE
  /\ LeaveDrive(t)
  /\ task' = [task EXCEPT ![t] = None]
  /\ NotifyAndGoto(t, "wait")
  /\ UNCHANGED <<queue, stopping, work, admissions, shuttingDown, closed,
                 batch, latch, starting, servedBy, exhausted>>

\* driver_loop after run_steps_bounded: under the mutex, another round if a
\* campaign was admitted since the loop began.
LoopReturns(t) ==
  /\ pc[t] = "ret" /\ role[t] = "loop"
  /\ IF admissions = seen[t] \/ shuttingDown
     THEN /\ driverActive' = FALSE
          /\ LeaveDrive(t)
          /\ task' = [task EXCEPT ![t] = None]
          /\ NotifyAndGoto(t, "wait")
     ELSE Goto(t, "entry") /\ UNCHANGED <<task, driverActive, role, seen, base, step>>
  /\ UNCHANGED <<queue, stopping, work, admissions, shuttingDown, closed,
                 batch, latch, starting, servedBy, exhausted>>

\* run_until_idle after run_steps_bounded: no second look at admissions_.
RunUntilIdleReturns(t) ==
  /\ pc[t] = "ret" /\ role[t] = "idle"
  /\ driverActive' = FALSE
  /\ LeaveDrive(t)
  /\ NotifyAndGoto(t, "free")
  /\ UNCHANGED <<poolVars, work, admissions, shuttingDown, closed,
                 batch, latch, starting, servedBy, exhausted>>

\* run_steps neither claims nor clears driver_active_, and wakes nobody.
RunStepsReturns(t) ==
  /\ pc[t] = "ret" /\ role[t] = "steps"
  /\ LeaveDrive(t)
  /\ Goto(t, "free")
  /\ UNCHANGED <<poolVars, engineVars, batch, latch, starting, servedBy, exhausted>>

-----------------------------------------------------------------------------
(* The callers. *)

\* start() has moved campaign c to prepared: its items can be planned, by any
\* pass, before the campaign is counted as admitted.
StartRunnable(t, c) ==
  /\ pc[t] = "free" /\ ~shuttingDown
  /\ servedBy[c] = "none" /\ \A u \in Callers : starting[u] # c
  /\ work' = [i \in Items |-> IF i \in ItemsOf[c] THEN "todo" ELSE work[i]]
  /\ starting' = [starting EXCEPT ![t] = c]
  /\ Goto(t, "admit")
  /\ UNCHANGED <<poolVars, admissions, driverActive, shuttingDown, closed, driveVars, servedBy, exhausted>>

\* Which driver start() found running: the pool's loop or a caller's pass.
RunningDriver == IF \E u \in Callers : role[u] = "idle" THEN "idle" ELSE "loop"

\* The last critical section of start(): count the admission, and leave it to
\* the running driver or become responsible for submitting one.
StartAdmit(t) ==
  /\ pc[t] = "admit"
  /\ admissions' = admissions + 1
  /\ IF driverActive
     THEN /\ servedBy' = [servedBy EXCEPT ![starting[t]] = RunningDriver]
          /\ starting' = [starting EXCEPT ![t] = None]
          /\ Goto(t, "free")
          /\ UNCHANGED driverActive
     ELSE /\ driverActive' = TRUE
          /\ Goto(t, "submitDriver")
          /\ UNCHANGED <<servedBy, starting>>
  /\ UNCHANGED <<poolVars, work, shuttingDown, closed, driveVars, exhausted>>

StartSubmits(t) ==
  /\ pc[t] = "submitDriver"
  /\ Enqueue(DriverTask)
  /\ servedBy' = [servedBy EXCEPT ![starting[t]] = "own"]
  /\ starting' = [starting EXCEPT ![t] = None]
  /\ Goto(t, "free")
  /\ UNCHANGED <<task, stopping, engineVars, driveVars, exhausted>>

\* The pool refuses the driver: start() clears the flag and returns the error.
StartRefused(t) ==
  /\ pc[t] = "submitDriver"
  /\ Refuse
  /\ driverActive' = FALSE
  /\ servedBy' = [servedBy EXCEPT ![starting[t]] = "refused"]
  /\ starting' = [starting EXCEPT ![t] = None]
  /\ NotifyAndGoto(t, "free")
  /\ UNCHANGED <<task, stopping, work, admissions, shuttingDown, closed, driveVars, exhausted>>

\* Mutated form: drive whoever else does.
RunUntilIdleAnyway(t) ==
  /\ pc[t] = "free"
  /\ driverActive' = TRUE
  /\ role' = [role EXCEPT ![t] = "idle"]
  /\ Goto(t, "entry")
  /\ UNCHANGED <<poolVars, work, admissions, shuttingDown, closed,
                 batch, latch, seen, base, step, starting, servedBy, exhausted>>

\* run_until_idle: drive, or wait when somebody else does.
RunUntilIdle(t) ==
  /\ pc[t] = "free"
  /\ IF driverActive
     THEN Goto(t, "recheck") /\ UNCHANGED <<driverActive, role>>
     ELSE /\ driverActive' = TRUE
          /\ role' = [role EXCEPT ![t] = "idle"]
          /\ Goto(t, "entry")
  /\ UNCHANGED <<poolVars, work, admissions, shuttingDown, closed,
                 batch, latch, seen, base, step, starting, servedBy, exhausted>>

\* run_steps: drive a few passes, whoever else does.
RunSteps(t) ==
  /\ pc[t] = "free"
  /\ role' = [role EXCEPT ![t] = "steps"]
  /\ Goto(t, "entry")
  /\ UNCHANGED <<poolVars, engineVars, batch, latch, seen, base, step, starting, servedBy, exhausted>>

WaitForIdle(t) ==
  /\ pc[t] = "free"
  /\ Goto(t, "recheck")
  /\ UNCHANGED <<poolVars, engineVars, driveVars, starting, servedBy, exhausted>>

\* The predicate of wait_for_idle, evaluated under the engine mutex.
Recheck(t) ==
  /\ pc[t] = "recheck"
  /\ Goto(t, IF Idle THEN "free" ELSE "sleep")
  /\ UNCHANGED <<poolVars, engineVars, driveVars, starting, servedBy, exhausted>>

Shutdown(t) ==
  /\ pc[t] = "free" /\ ~shuttingDown
  /\ shuttingDown' = TRUE
  /\ Goto(t, "stop")
  /\ UNCHANGED <<poolVars, work, admissions, driverActive, closed, driveVars, starting, servedBy, exhausted>>

\* WorkerPool::stop up to the joins: queued tasks are counted and dropped.
StopPool(t) ==
  /\ pc[t] = "stop"
  /\ stopping' = TRUE
  /\ queue' = <<>>
  /\ Goto(t, "join")
  /\ UNCHANGED <<task, engineVars, driveVars, starting, servedBy, exhausted>>

\* The workers are joined, and shutdown() closes the store.
Join(t) ==
  /\ pc[t] = "join" /\ \A w \in Workers : pc[w] = "exited"
  /\ driverActive' = FALSE /\ closed' = TRUE
  /\ NotifyAndGoto(t, "free")
  /\ UNCHANGED <<poolVars, work, admissions, shuttingDown, driveVars, starting, servedBy, exhausted>>

-----------------------------------------------------------------------------
Drive(t) ==
  \/ Entry(t) \/ PassEnds(t) \/ Pass(t) \/ Empty(t) \/ Serial(t)
  \/ SubmitItem(t) \/ ExecuteRefused(t) \/ ExecuteOwn(t) \/ LatchWait(t)
  \/ LoopReturns(t) \/ RunUntilIdleReturns(t) \/ RunStepsReturns(t)

Work(w) == Take(w) \/ Exit(w) \/ RetireTaken(w) \/ RunDriver(w) \/ RunItem(w)

\* What a caller does inside a call it has made.
Continue(t) ==
  \/ StartAdmit(t) \/ StartSubmits(t) \/ StartRefused(t) \/ Recheck(t)
  \/ StopPool(t) \/ Join(t)

\* The calls.
Call(t) ==
  \/ \E c \in Starts[t] : StartRunnable(t, c)
  \/ "run_until_idle" \in CallsOf[t] /\ RunUntilIdle(t)
  \/ "run_steps" \in CallsOf[t] /\ RunSteps(t)
  \/ "wait_for_idle" \in CallsOf[t] /\ WaitForIdle(t)
  \/ "shutdown" \in CallsOf[t] /\ Shutdown(t)

Next ==
  \/ \E t \in Threads : Drive(t)
  \/ \E w \in Workers : Work(w)
  \/ \E t \in Callers : Continue(t) \/ Call(t)

\* A thread that can take a step of the call or task it is in takes it: the
\* scheduler runs every thread and adapter calls return. Nobody has to call.
Fairness ==
  /\ \A w \in Workers : WF_vars(Drive(w) \/ Work(w))
  /\ \A t \in Callers : WF_vars(Drive(t) \/ Continue(t))

Spec == Init /\ [][Next]_vars
FairSpec == Spec /\ Fairness

-----------------------------------------------------------------------------
(* Properties. *)

QueuedTasks == {queue[k] : k \in DOMAIN queue}
HeldTasks   == {task[w] : w \in {v \in Workers : pc[v] = "taken"}}
\* Items of t's batch that are in the pool: queued, taken or being executed.
Outstanding(t) == {k \in QueuedTasks \cup HeldTasks : k # DriverTask /\ k.latch = t}

\* driver_active_ is true exactly while one driver exists or is about to be
\* submitted, and there are never two, run_steps apart: two drivers would plan
\* over each other, and a flag left behind would make every later start() rely
\* on nobody.
OneDriver ==
  LET drivers == {t \in Threads : role[t] \in {"loop", "idle"}}
      pending == {k \in DOMAIN queue : queue[k] = DriverTask}
      taken   == {w \in Workers : pc[w] = "taken" /\ task[w] = DriverTask}
      coming  == {t \in Callers : pc[t] = "submitDriver"}
      n == Cardinality(drivers) + Cardinality(pending) + Cardinality(taken) + Cardinality(coming)
  IN ~shuttingDown => n = IF driverActive THEN 1 ELSE 0

\* run_steps_bounded keeps its latch on the stack and hands out references to
\* it: no task may refer to the latch of a driver that has left the batch, and
\* a driver never gets past the latch while one of its items is in the pool.
\* Until the pool stops the latch counts exactly the items not yet executed.
LatchSound ==
  \A t \in Threads :
    LET open == Cardinality(batch[t]) + Cardinality(Outstanding(t))
    IN /\ Outstanding(t) # {} => pc[t] \in {"submit", "latch"}
       /\ pc[t] \in {"submit", "latch"} =>
            IF stopping THEN latch[t] >= open ELSE latch[t] = open

Sleepers == {t \in Callers : pc[t] = "sleep"}

\* Nobody falls asleep in wait_for_idle while the engine is idle, and the step
\* that makes the engine idle leaves nobody asleep: commits, fences, driver
\* exits, refused submits and shutdown. The exception is run_steps, whose last
\* commit can end the idleness condition of a sleeper without a notification.
NoLostWakeup ==
  [][Idle' /\ ~(Sleepers' \subseteq Sleepers /\ Idle)
       => Sleepers' = {} \/ \E t \in Callers : role[t] = "steps"]_vars

\* A campaign admitted while the pool's own driver runs, or with a driver of
\* its own, is planned, unless the engine shuts down or a driver reports that
\* it reached its bound.
AdmissionDriven ==
  \A c \in Campaigns :
    servedBy[c] \in {"own", "loop"} ~>
      (shuttingDown \/ exhausted \/ \A i \in ItemsOf[c] : work[i] # "todo")

\* shutdown() returns, or a driver waits for items the pool has thrown away.
ShutdownReturnsOrOrphans ==
  shuttingDown ~> (closed \/ \E t \in Threads :
                               /\ pc[t] = "latch"
                               /\ latch[t] > Cardinality(Outstanding(t)))
=============================================================================
