-------------------------- MODULE DriverPoolProofs --------------------------
(***************************************************************************)
(* The engine's threads for every number of workers, callers, campaigns    *)
(* and items: types, and that there is one driver. Three invariants, each  *)
(* preserved on top of the ones before it, with one lemma per action: PInv *)
(* (P...), Settled and Sole (S...).                                        *)
(***************************************************************************)
EXTENDS DriverPool, FiniteSetTheorems, SequenceTheorems, TLAPS

-----------------------------------------------------------------------------
(***************************************************************************)
(* Types. A thread has a role exactly while it is inside                   *)
(* run_steps_bounded, and its counter is below its bound while a pass is   *)
(* not over.                                                               *)
(***************************************************************************)
Placed ==
  /\ \A w \in Workers : pc[w] \in WorkerPcs \cup DrivePcs /\ role[w] \in {"none", "loop"}
  /\ \A t \in Callers : pc[t] \in DrivePcs \cup CallerPcs /\ role[t] # "loop"
  /\ \A t \in Threads : role[t] # "none" <=> pc[t] \in DrivePcs
  /\ \A t \in Threads : pc[t] \in {"empty", "serial", "submit", "latch"}
                          => step[t] < Bound(t)

\* The pool stops only for shutdown().
Stopped ==
  /\ stopping => shuttingDown
  /\ \A t \in Callers : pc[t] \in {"stop", "join"} => shuttingDown

PInv == TypeOK /\ Placed /\ Stopped

LEMMA InitP == Init => PInv
<1> SUFFICES ASSUME Init PROVE PInv
  OBVIOUS
<1> USE PoolAssumption DEF Init
<1>1. TypeOK
  <2>1. queue \in Seq(Tasks) /\ Len(queue) <= MaxQueue
    BY EmptySeq, LenProperties
  <2>2. pc \in [Threads -> WorkerPcs \cup DrivePcs \cup CallerPcs]
    BY DEF WorkerPcs, CallerPcs
  <2>3. /\ latch \in [Threads -> Nat] /\ seen \in [Threads -> Nat]
        /\ base \in [Threads -> Nat] /\ step \in [Threads -> 0..MaxPump]
    OBVIOUS
  <2>4. /\ role \in [Threads -> {"none", "loop", "idle", "steps"}]
        /\ batch \in [Threads -> SUBSET Items]
        /\ task \in [Workers -> Tasks \cup {None}]
        /\ starting \in [Callers -> Campaigns \cup {None}]
        /\ servedBy \in [Campaigns -> {"none", "own", "loop", "idle", "refused"}]
        /\ work \in [Items -> {"idle", "todo", "inflight", "done"}]
    OBVIOUS
  <2> QED BY <2>1, <2>2, <2>3, <2>4 DEF TypeOK
<1>2. Placed
  BY DEF Placed, WorkerPcs, CallerPcs, DrivePcs, Threads
<1>3. Stopped
  BY DEF Stopped, Threads
<1> QED BY <1>1, <1>2, <1>3 DEF PInv

\* What execute_item may leave.
LEMMA ExecuteType ==
  ASSUME work \in [Items -> {"idle", "todo", "inflight", "done"}],
         NEW i, ExecuteItem(i)
  PROVE  work' \in [Items -> {"idle", "todo", "inflight", "done"}]
BY DEF ExecuteItem

LEMMA LatchType ==
  ASSUME latch \in [Threads -> Nat], NEW t, LatchDone(t)
  PROVE  /\ latch' \in [Threads -> Nat]
         /\ \A u \in Threads : u # t => latch'[u] = latch[u]
         /\ t \in Threads => latch'[t] = IF latch[t] > 0 THEN latch[t] - 1 ELSE 0
<1>1. CASE t \in Threads
  BY <1>1 DEF LatchDone
<1>2. CASE t \notin Threads
  BY <1>2 DEF LatchDone
<1> QED BY <1>1, <1>2

LEMMA LeaveMoves ==
  ASSUME TypeOK, NEW t \in Threads, LeaveDrive(t)
  PROVE  /\ role'[t] = "none" /\ \A u \in Threads : u # t => role'[u] = role[u]
         /\ \A u \in Threads : u # t => step'[u] = step[u]
         /\ role' \in [Threads -> {"none", "loop", "idle", "steps"}]
         /\ seen' \in [Threads -> Nat] /\ base' \in [Threads -> Nat]
         /\ step' \in [Threads -> 0..MaxPump]
BY PoolAssumption DEF LeaveDrive, TypeOK

\* The queue stays within its bound, and holds tasks.
LEMMA QueueMoves ==
  ASSUME TypeOK
  PROVE  /\ \A k \in Tasks : Enqueue(k) =>
              queue' \in Seq(Tasks) /\ Len(queue') <= MaxQueue
         /\ queue # <<>> =>
              /\ Head(queue) \in Tasks /\ Tail(queue) \in Seq(Tasks)
              /\ Len(Tail(queue)) <= MaxQueue
<1>1. ASSUME NEW k \in Tasks, Enqueue(k)
      PROVE  queue' \in Seq(Tasks) /\ Len(queue') <= MaxQueue
  BY <1>1, PoolAssumption, AppendProperties DEF Enqueue, Accepts, TypeOK
<1>2. ASSUME queue # <<>>
      PROVE  /\ Head(queue) \in Tasks /\ Tail(queue) \in Seq(Tasks)
             /\ Len(Tail(queue)) <= MaxQueue
  BY <1>2, PoolAssumption, HeadTailProperties DEF TypeOK
<1> QED BY <1>1, <1>2

\* What a step of thread t leaves alone in the other threads, and where it
\* leaves t itself.
Others(t) ==
  \A u \in Threads \ {t} :
    /\ role'[u] = role[u] /\ step'[u] = step[u]
    /\ \/ pc'[u] = pc[u]
       \/ pc[u] = "sleep" /\ pc'[u] = "recheck"

Own(t) ==
  /\ t \in Workers => pc'[t] \in WorkerPcs \cup DrivePcs /\ role'[t] \in {"none", "loop"}
  /\ t \in Callers => pc'[t] \in DrivePcs \cup CallerPcs /\ role'[t] # "loop"
  /\ role'[t] # "none" <=> pc'[t] \in DrivePcs
  /\ pc'[t] \in {"empty", "serial", "submit", "latch"}
       => step'[t] < IF role'[t] = "steps" THEN MaxSteps ELSE MaxPump
  /\ t \in Callers /\ pc'[t] \in {"stop", "join"} => shuttingDown'

Flags ==
  /\ stopping' => shuttingDown'
  /\ shuttingDown => shuttingDown'

LEMMA StepPlaced ==
  ASSUME PInv, NEW t \in Threads, Others(t), Own(t), Flags
  PROVE  Placed' /\ Stopped'
<1> USE DEF PInv
<1>1. \A u \in Workers : pc'[u] \in WorkerPcs \cup DrivePcs /\ role'[u] \in {"none", "loop"}
  BY DEF Others, Own, Placed, Threads, WorkerPcs, DrivePcs
<1>2. \A u \in Callers : pc'[u] \in DrivePcs \cup CallerPcs /\ role'[u] # "loop"
  BY DEF Others, Own, Placed, Threads, CallerPcs
<1>3. \A u \in Threads : role'[u] # "none" <=> pc'[u] \in DrivePcs
  BY DEF Others, Own, Placed, DrivePcs
<1>4. \A u \in Threads : pc'[u] \in {"empty", "serial", "submit", "latch"}
                           => step'[u] < Bound(u)'
  BY DEF Others, Own, Placed, Bound
<1>5. Stopped'
  BY DEF Others, Own, Stopped, Flags, Threads
<1> QED BY <1>1, <1>2, <1>3, <1>4, <1>5 DEF Placed

\* Goto moves t alone.
LEMMA GotoPc ==
  ASSUME TypeOK, NEW t \in Threads, NEW l \in WorkerPcs \cup DrivePcs \cup CallerPcs, Goto(t, l)
  PROVE  /\ pc' \in [Threads -> WorkerPcs \cup DrivePcs \cup CallerPcs]
         /\ pc'[t] = l
         /\ \A u \in Threads \ {t} : pc'[u] = pc[u]
BY DEF Goto, TypeOK

LEMMA NotifyPc ==
  ASSUME TypeOK, NEW t \in Threads, NEW l \in WorkerPcs \cup DrivePcs \cup CallerPcs, NotifyAndGoto(t, l)
  PROVE  /\ pc' \in [Threads -> WorkerPcs \cup DrivePcs \cup CallerPcs]
         /\ pc'[t] = l
         /\ \A u \in Threads \ {t} : pc'[u] = pc[u] \/ (pc[u] = "sleep" /\ pc'[u] = "recheck")
BY DEF NotifyAndGoto, TypeOK, CallerPcs

LEMMA ZeroStep == 0 \in 0..MaxPump
BY PoolAssumption

\* A pass that is not over is below its bound.
LEMMA EmptyStep ==
  ASSUME PInv, NEW t \in Threads, pc[t] \in {"empty", "serial", "latch"}
  PROVE  step[t] + 1 \in 0..MaxPump
<1>1. step[t] \in 0..MaxPump
  BY DEF PInv, TypeOK
<1>2. step[t] < Bound(t)
  BY DEF PInv, Placed
<1>3. Bound(t) \in Nat /\ Bound(t) <= MaxPump /\ MaxPump \in Nat
  BY PoolAssumption DEF Bound
<1> QED BY <1>1, <1>2, <1>3

LEMMA NextPc ==
  ASSUME PInv, NEW t \in Threads, pc[t] \in {"empty", "serial", "latch"}, NextStep(t)
  PROVE  /\ pc' \in [Threads -> WorkerPcs \cup DrivePcs \cup CallerPcs]
         /\ pc'[t] = "pass"
         /\ \A u \in Threads \ {t} : pc'[u] = pc[u]
         /\ step' \in [Threads -> 0..MaxPump]
         /\ \A u \in Threads \ {t} : step'[u] = step[u]
BY EmptyStep DEF NextStep, Goto, PInv, TypeOK, DrivePcs

LEMMA PassLatch ==
  ASSUME PInv, NEW t \in Threads, Pass(t)
  PROVE  latch' \in [Threads -> Nat]
<1>1. \A S \in SUBSET Todo : Cardinality(S) \in Nat
  BY PoolAssumption, FS_Subset, FS_CardinalityType DEF Todo
<1> QED BY <1>1 DEF Pass, PInv, TypeOK


\* Each action keeps the types and the places. What the later parts need of
\* its effect on the program counters is stated with it.
LEMMA PEntry ==
  ASSUME PInv, NEW t \in Threads, Entry(t)
  PROVE  PInv' /\ Others(t) /\ pc'[t] \in {"ret", "pass"}
<1> USE DEF PInv, Entry, poolVars, engineVars, driveVars
<1>t. t \in Threads
  BY DEF Threads
<1>1. /\ pc' \in [Threads -> WorkerPcs \cup DrivePcs \cup CallerPcs]
      /\ pc'[t] \in {"ret", "pass"}
      /\ \A u \in Threads \ {t} : pc'[u] = pc[u]
  BY <1>t, GotoPc DEF WorkerPcs, DrivePcs, CallerPcs
<1>2. /\ step' \in [Threads -> 0..MaxPump]
      /\ \A u \in Threads \ {t} : step'[u] = step[u]
  BY <1>t, ZeroStep, LeaveMoves DEF TypeOK
<1>4. TypeOK'
  BY <1>1, <1>2, <1>t DEF TypeOK
<1>5. Others(t)
  BY <1>1, <1>2 DEF Others
<1>6. Own(t)
  BY <1>1, <1>2, <1>t, PoolAssumption DEF TypeOK, Own, Placed, Bound, Stopped, WorkerPcs, DrivePcs, CallerPcs
<1>7. Flags
  BY <1>t DEF Flags, Stopped
<1> QED BY <1>1, <1>t, <1>4, <1>5, <1>6, <1>7, StepPlaced

LEMMA PPassEnds ==
  ASSUME PInv, NEW t \in Threads, PassEnds(t)
  PROVE  PInv' /\ Others(t) /\ pc'[t] \in {"ret"}
<1> USE DEF PInv, PassEnds, poolVars, engineVars, driveVars
<1>t. t \in Threads
  BY DEF Threads
<1>1. /\ pc' \in [Threads -> WorkerPcs \cup DrivePcs \cup CallerPcs]
      /\ pc'[t] \in {"ret"}
      /\ \A u \in Threads \ {t} : pc'[u] = pc[u]
  BY <1>t, GotoPc DEF WorkerPcs, DrivePcs, CallerPcs
<1>4. TypeOK'
  BY <1>1, <1>t DEF TypeOK
<1>5. Others(t)
  BY <1>1 DEF Others
<1>6. Own(t)
  BY <1>1, <1>t, PoolAssumption DEF TypeOK, Own, Placed, Bound, Stopped, WorkerPcs, DrivePcs, CallerPcs
<1>7. Flags
  BY <1>t DEF Flags, Stopped
<1> QED BY <1>1, <1>t, <1>4, <1>5, <1>6, <1>7, StepPlaced

LEMMA PPass ==
  ASSUME PInv, NEW t \in Threads, Pass(t)
  PROVE  PInv' /\ Others(t) /\ pc'[t] \in {"empty", "submit", "serial"}
<1> USE DEF PInv, Pass, poolVars, engineVars, driveVars
<1>t. t \in Threads
  BY DEF Threads
<1>1. /\ pc' \in [Threads -> WorkerPcs \cup DrivePcs \cup CallerPcs]
      /\ pc'[t] \in {"empty", "submit", "serial"}
      /\ \A u \in Threads \ {t} : pc'[u] = pc[u]
  BY <1>t, GotoPc DEF WorkerPcs, DrivePcs, CallerPcs
<1>4. work' \in [Items -> {"idle", "todo", "inflight", "done"}]
  BY <1>t DEF TypeOK, Todo
<1>5. batch' \in [Threads -> SUBSET Items]
  BY <1>t DEF TypeOK, Todo
<1>6. latch' \in [Threads -> Nat]
  BY <1>t, PassLatch
<1>7. TypeOK'
  BY <1>1, <1>4, <1>5, <1>6, <1>t DEF TypeOK
<1>8. Others(t)
  BY <1>1 DEF Others
<1>9. Own(t)
  BY <1>1, <1>t, PoolAssumption DEF TypeOK, Own, Placed, Bound, Stopped, WorkerPcs, DrivePcs, CallerPcs
<1>10. Flags
  BY <1>t DEF Flags, Stopped
<1> QED BY <1>1, <1>t, <1>7, <1>8, <1>9, <1>10, StepPlaced

LEMMA PEmpty ==
  ASSUME PInv, NEW t \in Threads, Empty(t)
  PROVE  PInv' /\ Others(t) /\ pc'[t] \in {"ret", "pass"}
<1> USE DEF PInv, Empty, poolVars, engineVars, driveVars
<1>t. t \in Threads
  BY DEF Threads
<1>1. /\ pc' \in [Threads -> WorkerPcs \cup DrivePcs \cup CallerPcs]
      /\ pc'[t] \in {"ret", "pass"}
      /\ \A u \in Threads \ {t} : pc'[u] = pc[u]
  BY <1>t, GotoPc DEF WorkerPcs, DrivePcs, CallerPcs
<1>2. /\ step' \in [Threads -> 0..MaxPump]
      /\ \A u \in Threads \ {t} : step'[u] = step[u]
  BY <1>t, EmptyStep DEF TypeOK
<1>4. TypeOK'
  BY <1>1, <1>2, <1>t DEF TypeOK
<1>5. Others(t)
  BY <1>1, <1>2 DEF Others
<1>6. Own(t)
  BY <1>1, <1>2, <1>t, PoolAssumption DEF TypeOK, Own, Placed, Bound, Stopped, WorkerPcs, DrivePcs, CallerPcs
<1>7. Flags
  BY <1>t DEF Flags, Stopped
<1> QED BY <1>1, <1>t, <1>4, <1>5, <1>6, <1>7, StepPlaced

LEMMA PSerial ==
  ASSUME PInv, NEW t \in Threads, Serial(t)
  PROVE  PInv' /\ Others(t) /\ pc'[t] \in {"serial", "pass"}
<1> USE DEF PInv, Serial, poolVars, engineVars, driveVars
<1>t. t \in Threads
  BY DEF Threads
<1>1. /\ pc' \in [Threads -> WorkerPcs \cup DrivePcs \cup CallerPcs]
      /\ pc'[t] \in {"serial", "pass"}
      /\ \A u \in Threads \ {t} : pc'[u] = pc[u]
  BY <1>t, NextPc DEF TypeOK
<1>2. /\ step' \in [Threads -> 0..MaxPump]
      /\ \A u \in Threads \ {t} : step'[u] = step[u]
  BY <1>t, NextPc DEF TypeOK
<1>4. work' \in [Items -> {"idle", "todo", "inflight", "done"}]
  BY <1>t, ExecuteType DEF TypeOK
<1>5. TypeOK'
  BY <1>1, <1>2, <1>4, <1>t DEF TypeOK
<1>6. Others(t)
  BY <1>1, <1>2 DEF Others
<1>7. Own(t)
  <2>1. CASE Cardinality(batch[t]) = 1
    BY <2>1, <1>1, <1>t, NextPc DEF TypeOK, Own, Placed, Bound, Stopped, WorkerPcs, DrivePcs, CallerPcs
  <2>2. CASE Cardinality(batch[t]) # 1
    BY <2>2, <1>1, <1>t DEF TypeOK, Own, Placed, Bound, Stopped, WorkerPcs, DrivePcs, CallerPcs
  <2> QED BY <2>1, <2>2
<1>8. Flags
  BY <1>t DEF Flags, Stopped
<1> QED BY <1>1, <1>t, <1>5, <1>6, <1>7, <1>8, StepPlaced

LEMMA PSubmitItem ==
  ASSUME PInv, NEW t \in Threads, SubmitItem(t)
  PROVE  PInv' /\ Others(t) /\ pc'[t] \in {"submit"}
<1> USE DEF PInv, SubmitItem, poolVars, engineVars, driveVars
<1>t. t \in Threads
  BY DEF Threads
<1>1. /\ pc' \in [Threads -> WorkerPcs \cup DrivePcs \cup CallerPcs]
      /\ pc'[t] \in {"submit"}
      /\ \A u \in Threads \ {t} : pc'[u] = pc[u]
  BY DEF TypeOK
<1>4. queue' \in Seq(Tasks) /\ Len(queue') <= MaxQueue
  BY <1>t, QueueMoves DEF TypeOK, ItemTask, Tasks
<1>5. TypeOK'
  BY <1>1, <1>4, <1>t DEF TypeOK
<1>6. Others(t)
  BY <1>1 DEF Others
<1>7. Own(t)
  BY <1>1, <1>t, PoolAssumption DEF TypeOK, Own, Placed, Bound, Stopped, WorkerPcs, DrivePcs, CallerPcs
<1>8. Flags
  BY <1>t DEF Flags, Stopped
<1> QED BY <1>1, <1>t, <1>5, <1>6, <1>7, <1>8, StepPlaced

LEMMA PExecuteRefused ==
  ASSUME PInv, NEW t \in Threads, ExecuteRefused(t)
  PROVE  PInv' /\ Others(t) /\ pc'[t] \in {"submit"}
<1> USE DEF PInv, ExecuteRefused, poolVars, engineVars, driveVars
<1>t. t \in Threads
  BY DEF Threads
<1>1. /\ pc' \in [Threads -> WorkerPcs \cup DrivePcs \cup CallerPcs]
      /\ pc'[t] \in {"submit"}
      /\ \A u \in Threads \ {t} : pc'[u] = pc[u]
  BY DEF TypeOK
<1>4. work' \in [Items -> {"idle", "todo", "inflight", "done"}]
  BY <1>t, ExecuteType DEF TypeOK
<1>5. latch' \in [Threads -> Nat]
  BY <1>t, LatchType DEF TypeOK
<1>6. queue' = queue
  BY <1>t DEF Refuse
<1>7. TypeOK'
  BY <1>1, <1>4, <1>5, <1>6, <1>t DEF TypeOK
<1>8. Others(t)
  BY <1>1 DEF Others
<1>9. Own(t)
  BY <1>1, <1>t, PoolAssumption DEF TypeOK, Own, Placed, Bound, Stopped, WorkerPcs, DrivePcs, CallerPcs
<1>10. Flags
  BY <1>t DEF Flags, Stopped
<1> QED BY <1>1, <1>t, <1>7, <1>8, <1>9, <1>10, StepPlaced

LEMMA PExecuteOwn ==
  ASSUME PInv, NEW t \in Threads, ExecuteOwn(t)
  PROVE  PInv' /\ Others(t) /\ pc'[t] \in {"latch"}
<1> USE DEF PInv, ExecuteOwn, poolVars, engineVars, driveVars
<1>t. t \in Threads
  BY DEF Threads
<1>1. /\ pc' \in [Threads -> WorkerPcs \cup DrivePcs \cup CallerPcs]
      /\ pc'[t] \in {"latch"}
      /\ \A u \in Threads \ {t} : pc'[u] = pc[u]
  BY <1>t, GotoPc DEF WorkerPcs, DrivePcs, CallerPcs
<1>4. work' \in [Items -> {"idle", "todo", "inflight", "done"}]
  BY <1>t, ExecuteType DEF TypeOK
<1>5. latch' \in [Threads -> Nat]
  BY <1>t, LatchType DEF TypeOK
<1>6. TypeOK'
  BY <1>1, <1>4, <1>5, <1>t DEF TypeOK
<1>7. Others(t)
  BY <1>1 DEF Others
<1>8. Own(t)
  BY <1>1, <1>t, PoolAssumption DEF TypeOK, Own, Placed, Bound, Stopped, WorkerPcs, DrivePcs, CallerPcs
<1>9. Flags
  BY <1>t DEF Flags, Stopped
<1> QED BY <1>1, <1>t, <1>6, <1>7, <1>8, <1>9, StepPlaced

LEMMA PLatchWait ==
  ASSUME PInv, NEW t \in Threads, LatchWait(t)
  PROVE  PInv' /\ Others(t) /\ pc'[t] \in {"pass"}
<1> USE DEF PInv, LatchWait, poolVars, engineVars, driveVars
<1>t. t \in Threads
  BY DEF Threads
<1>1. /\ pc' \in [Threads -> WorkerPcs \cup DrivePcs \cup CallerPcs]
      /\ pc'[t] \in {"pass"}
      /\ \A u \in Threads \ {t} : pc'[u] = pc[u]
  BY <1>t, NextPc DEF TypeOK
<1>2. /\ step' \in [Threads -> 0..MaxPump]
      /\ \A u \in Threads \ {t} : step'[u] = step[u]
  BY <1>t, NextPc DEF TypeOK
<1>4. TypeOK'
  BY <1>1, <1>2, <1>t DEF TypeOK
<1>5. Others(t)
  BY <1>1, <1>2 DEF Others
<1>6. Own(t)
  BY <1>1, <1>2, <1>t, PoolAssumption DEF TypeOK, Own, Placed, Bound, Stopped, WorkerPcs, DrivePcs, CallerPcs
<1>7. Flags
  BY <1>t DEF Flags, Stopped
<1> QED BY <1>1, <1>t, <1>4, <1>5, <1>6, <1>7, StepPlaced

LEMMA PLoopReturns ==
  ASSUME PInv, NEW t \in Threads, LoopReturns(t)
  PROVE  PInv' /\ Others(t) /\ pc'[t] \in {"wait", "entry"}
<1> USE DEF PInv, LoopReturns, poolVars, engineVars, driveVars
<1>t. t \in Threads
  BY DEF Threads
<1>1. /\ pc' \in [Threads -> WorkerPcs \cup DrivePcs \cup CallerPcs]
      /\ pc'[t] \in {"wait", "entry"}
      /\ \A u \in Threads \ {t} : pc'[u] = pc[u] \/ (pc[u] = "sleep" /\ pc'[u] = "recheck")
  BY <1>t, GotoPc, NotifyPc DEF WorkerPcs, DrivePcs, CallerPcs
<1>2. /\ step' \in [Threads -> 0..MaxPump]
      /\ \A u \in Threads \ {t} : step'[u] = step[u]
  BY <1>t, ZeroStep, LeaveMoves DEF TypeOK
<1>3. /\ role' \in [Threads -> {"none", "loop", "idle", "steps"}]
      /\ \A u \in Threads \ {t} : role'[u] = role[u]
  BY <1>t, LeaveMoves DEF TypeOK
<1>4. TypeOK'
  BY <1>1, <1>2, <1>3, <1>t, LeaveMoves DEF TypeOK
<1>5. Others(t)
  BY <1>1, <1>2, <1>3 DEF Others
<1>6. Own(t)
  <2>1. CASE admissions = seen[t] \/ shuttingDown
    <3>1. pc'[t] = "wait" /\ role'[t] = "none"
      BY <2>1, <1>t, NotifyPc, LeaveMoves DEF TypeOK, Own, Placed, Bound, Stopped, WorkerPcs, DrivePcs, CallerPcs
    <3> QED BY <3>1, <1>t DEF TypeOK, Own, Placed, Bound, Stopped, WorkerPcs, DrivePcs, CallerPcs
  <2>2. CASE ~(admissions = seen[t] \/ shuttingDown)
    <3>1. pc'[t] = "entry" /\ role'[t] = role[t]
      BY <2>2, <1>t, GotoPc DEF TypeOK, Own, Placed, Bound, Stopped, WorkerPcs, DrivePcs, CallerPcs
    <3> QED BY <3>1, <1>t DEF TypeOK, Own, Placed, Bound, Stopped, WorkerPcs, DrivePcs, CallerPcs
  <2> QED BY <2>1, <2>2
<1>7. Flags
  BY <1>t DEF Flags, Stopped
<1> QED BY <1>1, <1>t, <1>4, <1>5, <1>6, <1>7, StepPlaced

LEMMA PRunUntilIdleReturns ==
  ASSUME PInv, NEW t \in Threads, RunUntilIdleReturns(t)
  PROVE  PInv' /\ Others(t) /\ pc'[t] \in {"free"}
<1> USE DEF PInv, RunUntilIdleReturns, poolVars, engineVars, driveVars
<1>t. t \in Threads
  BY DEF Threads
<1>1. /\ pc' \in [Threads -> WorkerPcs \cup DrivePcs \cup CallerPcs]
      /\ pc'[t] \in {"free"}
      /\ \A u \in Threads \ {t} : pc'[u] = pc[u] \/ (pc[u] = "sleep" /\ pc'[u] = "recheck")
  BY <1>t, NotifyPc DEF WorkerPcs, DrivePcs, CallerPcs
<1>2. /\ step' \in [Threads -> 0..MaxPump]
      /\ \A u \in Threads \ {t} : step'[u] = step[u]
  BY <1>t, ZeroStep, LeaveMoves DEF TypeOK
<1>3. /\ role' \in [Threads -> {"none", "loop", "idle", "steps"}]
      /\ \A u \in Threads \ {t} : role'[u] = role[u]
  BY <1>t, LeaveMoves DEF TypeOK
<1>4. TypeOK'
  BY <1>1, <1>2, <1>3, <1>t, LeaveMoves DEF TypeOK
<1>5. Others(t)
  BY <1>1, <1>2, <1>3 DEF Others
<1>6. Own(t)
  BY <1>1, <1>2, <1>3, <1>t, PoolAssumption, LeaveMoves DEF TypeOK, Own, Placed, Bound, Stopped, WorkerPcs, DrivePcs, CallerPcs
<1>7. Flags
  BY <1>t DEF Flags, Stopped
<1> QED BY <1>1, <1>t, <1>4, <1>5, <1>6, <1>7, StepPlaced

LEMMA PRunStepsReturns ==
  ASSUME PInv, NEW t \in Threads, RunStepsReturns(t)
  PROVE  PInv' /\ Others(t) /\ pc'[t] \in {"free"}
<1> USE DEF PInv, RunStepsReturns, poolVars, engineVars, driveVars
<1>t. t \in Threads
  BY DEF Threads
<1>1. /\ pc' \in [Threads -> WorkerPcs \cup DrivePcs \cup CallerPcs]
      /\ pc'[t] \in {"free"}
      /\ \A u \in Threads \ {t} : pc'[u] = pc[u]
  BY <1>t, GotoPc DEF WorkerPcs, DrivePcs, CallerPcs
<1>2. /\ step' \in [Threads -> 0..MaxPump]
      /\ \A u \in Threads \ {t} : step'[u] = step[u]
  BY <1>t, ZeroStep, LeaveMoves DEF TypeOK
<1>3. /\ role' \in [Threads -> {"none", "loop", "idle", "steps"}]
      /\ \A u \in Threads \ {t} : role'[u] = role[u]
  BY <1>t, LeaveMoves DEF TypeOK
<1>4. TypeOK'
  BY <1>1, <1>2, <1>3, <1>t, LeaveMoves DEF TypeOK
<1>5. Others(t)
  BY <1>1, <1>2, <1>3 DEF Others
<1>6. Own(t)
  BY <1>1, <1>2, <1>3, <1>t, PoolAssumption, LeaveMoves DEF TypeOK, Own, Placed, Bound, Stopped, WorkerPcs, DrivePcs, CallerPcs
<1>7. Flags
  BY <1>t DEF Flags, Stopped
<1> QED BY <1>1, <1>t, <1>4, <1>5, <1>6, <1>7, StepPlaced

LEMMA PTake ==
  ASSUME PInv, NEW t \in Workers, Take(t)
  PROVE  PInv' /\ Others(t) /\ pc'[t] \in {"taken"}
<1> USE DEF PInv, Take, poolVars, engineVars, driveVars
<1>t. t \in Threads
  BY DEF Threads
<1>1. /\ pc' \in [Threads -> WorkerPcs \cup DrivePcs \cup CallerPcs]
      /\ pc'[t] \in {"taken"}
      /\ \A u \in Threads \ {t} : pc'[u] = pc[u]
  BY <1>t, GotoPc DEF WorkerPcs, DrivePcs, CallerPcs
<1>4. Head(queue) \in Tasks /\ Tail(queue) \in Seq(Tasks) /\ Len(Tail(queue)) <= MaxQueue
  BY <1>t, QueueMoves
<1>5. TypeOK'
  BY <1>1, <1>4, <1>t DEF TypeOK
<1>6. Others(t)
  BY <1>1 DEF Others
<1>7. Own(t)
  BY <1>1, <1>t, PoolAssumption DEF TypeOK, Own, Placed, Bound, Stopped, WorkerPcs, DrivePcs, CallerPcs
<1>8. Flags
  BY <1>t DEF Flags, Stopped
<1> QED BY <1>1, <1>t, <1>5, <1>6, <1>7, <1>8, StepPlaced

LEMMA PExit ==
  ASSUME PInv, NEW t \in Workers, Exit(t)
  PROVE  PInv' /\ Others(t) /\ pc'[t] \in {"exited"}
<1> USE DEF PInv, Exit, poolVars, engineVars, driveVars
<1>t. t \in Threads
  BY DEF Threads
<1>1. /\ pc' \in [Threads -> WorkerPcs \cup DrivePcs \cup CallerPcs]
      /\ pc'[t] \in {"exited"}
      /\ \A u \in Threads \ {t} : pc'[u] = pc[u]
  BY <1>t, GotoPc DEF WorkerPcs, DrivePcs, CallerPcs
<1>4. TypeOK'
  BY <1>1, <1>t DEF TypeOK
<1>5. Others(t)
  BY <1>1 DEF Others
<1>6. Own(t)
  BY <1>1, <1>t, PoolAssumption DEF TypeOK, Own, Placed, Bound, Stopped, WorkerPcs, DrivePcs, CallerPcs
<1>7. Flags
  BY <1>t DEF Flags, Stopped
<1> QED BY <1>1, <1>t, <1>4, <1>5, <1>6, <1>7, StepPlaced

LEMMA PRetireTaken ==
  ASSUME PInv, NEW t \in Workers, RetireTaken(t)
  PROVE  PInv' /\ Others(t) /\ pc'[t] \in {"wait"}
<1> USE DEF PInv, RetireTaken, poolVars, engineVars, driveVars
<1>t. t \in Threads
  BY DEF Threads
<1>1. /\ pc' \in [Threads -> WorkerPcs \cup DrivePcs \cup CallerPcs]
      /\ pc'[t] \in {"wait"}
      /\ \A u \in Threads \ {t} : pc'[u] = pc[u]
  BY <1>t, GotoPc DEF WorkerPcs, DrivePcs, CallerPcs
<1>4. TypeOK'
  BY <1>1, <1>t DEF TypeOK
<1>5. Others(t)
  BY <1>1 DEF Others
<1>6. Own(t)
  BY <1>1, <1>t, PoolAssumption DEF TypeOK, Own, Placed, Bound, Stopped, WorkerPcs, DrivePcs, CallerPcs
<1>7. Flags
  BY <1>t DEF Flags, Stopped
<1> QED BY <1>1, <1>t, <1>4, <1>5, <1>6, <1>7, StepPlaced

LEMMA PRunDriver ==
  ASSUME PInv, NEW t \in Workers, RunDriver(t)
  PROVE  PInv' /\ Others(t) /\ pc'[t] \in {"entry"}
<1> USE DEF PInv, RunDriver, poolVars, engineVars, driveVars
<1>t. t \in Threads
  BY DEF Threads
<1>1. /\ pc' \in [Threads -> WorkerPcs \cup DrivePcs \cup CallerPcs]
      /\ pc'[t] \in {"entry"}
      /\ \A u \in Threads \ {t} : pc'[u] = pc[u]
  BY <1>t, GotoPc DEF WorkerPcs, DrivePcs, CallerPcs
<1>3. /\ role' \in [Threads -> {"none", "loop", "idle", "steps"}]
      /\ \A u \in Threads \ {t} : role'[u] = role[u]
  BY <1>t, LeaveMoves DEF TypeOK
<1>4. TypeOK'
  BY <1>1, <1>3, <1>t DEF TypeOK
<1>5. Others(t)
  BY <1>1, <1>3 DEF Others
<1>6. Own(t)
  BY <1>1, <1>3, <1>t, PoolAssumption DEF TypeOK, Own, Placed, Bound, Stopped, WorkerPcs, DrivePcs, CallerPcs
<1>7. Flags
  BY <1>t DEF Flags, Stopped
<1> QED BY <1>1, <1>t, <1>4, <1>5, <1>6, <1>7, StepPlaced

LEMMA PRunItem ==
  ASSUME PInv, NEW t \in Workers, RunItem(t)
  PROVE  PInv' /\ Others(t) /\ pc'[t] \in {"wait"}
<1> USE DEF PInv, RunItem, poolVars, engineVars, driveVars
<1>t. t \in Threads
  BY DEF Threads
<1>1. /\ pc' \in [Threads -> WorkerPcs \cup DrivePcs \cup CallerPcs]
      /\ pc'[t] \in {"wait"}
      /\ \A u \in Threads \ {t} : pc'[u] = pc[u]
  BY <1>t, GotoPc DEF WorkerPcs, DrivePcs, CallerPcs
<1>4. work' \in [Items -> {"idle", "todo", "inflight", "done"}]
  BY <1>t, ExecuteType DEF TypeOK
<1>5. latch' \in [Threads -> Nat]
  BY <1>t, LatchType DEF TypeOK
<1>6. TypeOK'
  BY <1>1, <1>4, <1>5, <1>t DEF TypeOK
<1>7. Others(t)
  BY <1>1 DEF Others
<1>8. Own(t)
  BY <1>1, <1>t, PoolAssumption DEF TypeOK, Own, Placed, Bound, Stopped, WorkerPcs, DrivePcs, CallerPcs
<1>9. Flags
  BY <1>t DEF Flags, Stopped
<1> QED BY <1>1, <1>t, <1>6, <1>7, <1>8, <1>9, StepPlaced

LEMMA PStartRunnable ==
  ASSUME PInv, NEW t \in Callers, NEW c \in Starts[t], StartRunnable(t, c)
  PROVE  PInv' /\ Others(t) /\ pc'[t] \in {"admit"}
<1> USE DEF PInv, StartRunnable, poolVars, engineVars, driveVars
<1>t. t \in Threads
  BY DEF Threads
<1>1. /\ pc' \in [Threads -> WorkerPcs \cup DrivePcs \cup CallerPcs]
      /\ pc'[t] \in {"admit"}
      /\ \A u \in Threads \ {t} : pc'[u] = pc[u]
  BY <1>t, GotoPc DEF WorkerPcs, DrivePcs, CallerPcs
<1>4. work' \in [Items -> {"idle", "todo", "inflight", "done"}]
  BY <1>t DEF TypeOK
<1>5. TypeOK'
  BY <1>1, <1>4, <1>t, PoolAssumption DEF TypeOK
<1>6. Others(t)
  BY <1>1 DEF Others
<1>7. Own(t)
  BY <1>1, <1>t, PoolAssumption DEF TypeOK, Own, Placed, Bound, Stopped, WorkerPcs, DrivePcs, CallerPcs
<1>8. Flags
  BY <1>t DEF Flags, Stopped
<1> QED BY <1>1, <1>t, <1>5, <1>6, <1>7, <1>8, StepPlaced

LEMMA PStartAdmit ==
  ASSUME PInv, NEW t \in Callers, StartAdmit(t)
  PROVE  PInv' /\ Others(t) /\ pc'[t] \in {"free", "submitDriver"}
<1> USE DEF PInv, StartAdmit, poolVars, engineVars, driveVars
<1>t. t \in Threads
  BY DEF Threads
<1>1. /\ pc' \in [Threads -> WorkerPcs \cup DrivePcs \cup CallerPcs]
      /\ pc'[t] \in {"free", "submitDriver"}
      /\ \A u \in Threads \ {t} : pc'[u] = pc[u]
  BY <1>t, GotoPc DEF WorkerPcs, DrivePcs, CallerPcs
<1>4. servedBy' \in [Campaigns -> {"none", "own", "loop", "idle", "refused"}]
  BY <1>t DEF TypeOK, RunningDriver
<1>5. starting' \in [Callers -> Campaigns \cup {None}]
  BY <1>t DEF TypeOK
<1>6. admissions' \in Nat
  BY <1>t DEF TypeOK
<1>7. driverActive' \in BOOLEAN
  BY <1>t, Zenon DEF TypeOK
<1>8. TypeOK'
  BY <1>1, <1>4, <1>5, <1>6, <1>7, <1>t DEF TypeOK
<1>9. Others(t)
  BY <1>1 DEF Others
<1>10. Own(t)
  BY <1>1, <1>t, PoolAssumption DEF TypeOK, Own, Placed, Bound, Stopped, WorkerPcs, DrivePcs, CallerPcs
<1>11. Flags
  BY <1>t DEF Flags, Stopped
<1> QED BY <1>1, <1>t, <1>8, <1>9, <1>10, <1>11, StepPlaced

LEMMA PStartSubmits ==
  ASSUME PInv, NEW t \in Callers, StartSubmits(t)
  PROVE  PInv' /\ Others(t) /\ pc'[t] \in {"free"}
<1> USE DEF PInv, StartSubmits, poolVars, engineVars, driveVars
<1>t. t \in Threads
  BY DEF Threads
<1>1. /\ pc' \in [Threads -> WorkerPcs \cup DrivePcs \cup CallerPcs]
      /\ pc'[t] \in {"free"}
      /\ \A u \in Threads \ {t} : pc'[u] = pc[u]
  BY <1>t, GotoPc DEF WorkerPcs, DrivePcs, CallerPcs
<1>4. queue' \in Seq(Tasks) /\ Len(queue') <= MaxQueue
  BY <1>t, QueueMoves DEF TypeOK, Tasks
<1>5. TypeOK'
  BY <1>1, <1>4, <1>t DEF TypeOK
<1>6. Others(t)
  BY <1>1 DEF Others
<1>7. Own(t)
  BY <1>1, <1>t, PoolAssumption DEF TypeOK, Own, Placed, Bound, Stopped, WorkerPcs, DrivePcs, CallerPcs
<1>8. Flags
  BY <1>t DEF Flags, Stopped
<1> QED BY <1>1, <1>t, <1>5, <1>6, <1>7, <1>8, StepPlaced

LEMMA PStartRefused ==
  ASSUME PInv, NEW t \in Callers, StartRefused(t)
  PROVE  PInv' /\ Others(t) /\ pc'[t] \in {"free"}
<1> USE DEF PInv, StartRefused, poolVars, engineVars, driveVars
<1>t. t \in Threads
  BY DEF Threads
<1>1. /\ pc' \in [Threads -> WorkerPcs \cup DrivePcs \cup CallerPcs]
      /\ pc'[t] \in {"free"}
      /\ \A u \in Threads \ {t} : pc'[u] = pc[u] \/ (pc[u] = "sleep" /\ pc'[u] = "recheck")
  BY <1>t, NotifyPc DEF WorkerPcs, DrivePcs, CallerPcs
<1>4. queue' = queue
  BY <1>t DEF Refuse
<1>5. TypeOK'
  BY <1>1, <1>4, <1>t DEF TypeOK
<1>6. Others(t)
  BY <1>1 DEF Others
<1>7. Own(t)
  BY <1>1, <1>t, PoolAssumption DEF TypeOK, Own, Placed, Bound, Stopped, WorkerPcs, DrivePcs, CallerPcs
<1>8. Flags
  BY <1>t DEF Flags, Stopped
<1> QED BY <1>1, <1>t, <1>5, <1>6, <1>7, <1>8, StepPlaced

LEMMA PRecheck ==
  ASSUME PInv, NEW t \in Callers, Recheck(t)
  PROVE  PInv' /\ Others(t) /\ pc'[t] \in {"free", "sleep"}
<1> USE DEF PInv, Recheck, poolVars, engineVars, driveVars
<1>t. t \in Threads
  BY DEF Threads
<1>1. /\ pc' \in [Threads -> WorkerPcs \cup DrivePcs \cup CallerPcs]
      /\ pc'[t] \in {"free", "sleep"}
      /\ \A u \in Threads \ {t} : pc'[u] = pc[u]
  BY <1>t, GotoPc DEF WorkerPcs, DrivePcs, CallerPcs
<1>4. TypeOK'
  BY <1>1, <1>t DEF TypeOK
<1>5. Others(t)
  BY <1>1 DEF Others
<1>6. Own(t)
  BY <1>1, <1>t, PoolAssumption DEF TypeOK, Own, Placed, Bound, Stopped, WorkerPcs, DrivePcs, CallerPcs
<1>7. Flags
  BY <1>t DEF Flags, Stopped
<1> QED BY <1>1, <1>t, <1>4, <1>5, <1>6, <1>7, StepPlaced

LEMMA PStopPool ==
  ASSUME PInv, NEW t \in Callers, StopPool(t)
  PROVE  PInv' /\ Others(t) /\ pc'[t] \in {"join"}
<1> USE DEF PInv, StopPool, poolVars, engineVars, driveVars
<1>t. t \in Threads
  BY DEF Threads
<1>1. /\ pc' \in [Threads -> WorkerPcs \cup DrivePcs \cup CallerPcs]
      /\ pc'[t] \in {"join"}
      /\ \A u \in Threads \ {t} : pc'[u] = pc[u]
  BY <1>t, GotoPc DEF WorkerPcs, DrivePcs, CallerPcs
<1>4. queue' \in Seq(Tasks) /\ Len(queue') <= MaxQueue
  BY <1>t, EmptySeq, LenProperties, PoolAssumption
<1>5. TypeOK'
  BY <1>1, <1>4, <1>t DEF TypeOK
<1>6. Others(t)
  BY <1>1 DEF Others
<1>7. Own(t)
  BY <1>1, <1>t, PoolAssumption DEF TypeOK, Own, Placed, Bound, Stopped, WorkerPcs, DrivePcs, CallerPcs
<1>8. Flags
  BY <1>t DEF Flags, Stopped
<1> QED BY <1>1, <1>t, <1>5, <1>6, <1>7, <1>8, StepPlaced

LEMMA PJoin ==
  ASSUME PInv, NEW t \in Callers, Join(t)
  PROVE  PInv' /\ Others(t) /\ pc'[t] \in {"free"}
<1> USE DEF PInv, Join, poolVars, engineVars, driveVars
<1>t. t \in Threads
  BY DEF Threads
<1>1. /\ pc' \in [Threads -> WorkerPcs \cup DrivePcs \cup CallerPcs]
      /\ pc'[t] \in {"free"}
      /\ \A u \in Threads \ {t} : pc'[u] = pc[u] \/ (pc[u] = "sleep" /\ pc'[u] = "recheck")
  BY <1>t, NotifyPc DEF WorkerPcs, DrivePcs, CallerPcs
<1>4. TypeOK'
  BY <1>1, <1>t DEF TypeOK
<1>5. Others(t)
  BY <1>1 DEF Others
<1>6. Own(t)
  BY <1>1, <1>t, PoolAssumption DEF TypeOK, Own, Placed, Bound, Stopped, WorkerPcs, DrivePcs, CallerPcs
<1>7. Flags
  BY <1>t DEF Flags, Stopped
<1> QED BY <1>1, <1>t, <1>4, <1>5, <1>6, <1>7, StepPlaced

LEMMA PRunUntilIdle ==
  ASSUME PInv, NEW t \in Callers, RunUntilIdle(t)
  PROVE  PInv' /\ Others(t) /\ pc'[t] \in {"recheck", "entry"}
<1> USE DEF PInv, RunUntilIdle, poolVars, engineVars, driveVars
<1>t. t \in Threads
  BY DEF Threads
<1>1. /\ pc' \in [Threads -> WorkerPcs \cup DrivePcs \cup CallerPcs]
      /\ pc'[t] \in {"recheck", "entry"}
      /\ \A u \in Threads \ {t} : pc'[u] = pc[u]
  BY <1>t, GotoPc DEF WorkerPcs, DrivePcs, CallerPcs
<1>3. /\ role' \in [Threads -> {"none", "loop", "idle", "steps"}]
      /\ \A u \in Threads \ {t} : role'[u] = role[u]
  BY <1>t, LeaveMoves DEF TypeOK
<1>4. TypeOK'
  BY <1>1, <1>3, <1>t DEF TypeOK
<1>5. Others(t)
  BY <1>1, <1>3 DEF Others
<1>6. Own(t)
  <2>1. CASE driverActive
    <3>1. pc'[t] = "recheck" /\ role'[t] = role[t]
      BY <2>1, <1>t, GotoPc DEF TypeOK, Own, Placed, Bound, Stopped, WorkerPcs, DrivePcs, CallerPcs
    <3> QED BY <3>1, <1>t DEF TypeOK, Own, Placed, Bound, Stopped, WorkerPcs, DrivePcs, CallerPcs
  <2>2. CASE ~driverActive
    <3>1. pc'[t] = "entry" /\ role'[t] = "idle"
      BY <2>2, <1>t, GotoPc DEF TypeOK, Own, Placed, Bound, Stopped, WorkerPcs, DrivePcs, CallerPcs
    <3> QED BY <3>1, <1>t, PoolAssumption DEF TypeOK, Own, Placed, Bound, Stopped, WorkerPcs, DrivePcs, CallerPcs
  <2> QED BY <2>1, <2>2
<1>7. Flags
  BY <1>t DEF Flags, Stopped
<1> QED BY <1>1, <1>t, <1>4, <1>5, <1>6, <1>7, StepPlaced

LEMMA PRunSteps ==
  ASSUME PInv, NEW t \in Callers, RunSteps(t)
  PROVE  PInv' /\ Others(t) /\ pc'[t] \in {"entry"}
<1> USE DEF PInv, RunSteps, poolVars, engineVars, driveVars
<1>t. t \in Threads
  BY DEF Threads
<1>1. /\ pc' \in [Threads -> WorkerPcs \cup DrivePcs \cup CallerPcs]
      /\ pc'[t] \in {"entry"}
      /\ \A u \in Threads \ {t} : pc'[u] = pc[u]
  BY <1>t, GotoPc DEF WorkerPcs, DrivePcs, CallerPcs
<1>3. /\ role' \in [Threads -> {"none", "loop", "idle", "steps"}]
      /\ \A u \in Threads \ {t} : role'[u] = role[u]
  BY <1>t, LeaveMoves DEF TypeOK
<1>4. TypeOK'
  BY <1>1, <1>3, <1>t DEF TypeOK
<1>5. Others(t)
  BY <1>1, <1>3 DEF Others
<1>6. Own(t)
  BY <1>1, <1>3, <1>t, PoolAssumption DEF TypeOK, Own, Placed, Bound, Stopped, WorkerPcs, DrivePcs, CallerPcs
<1>7. Flags
  BY <1>t DEF Flags, Stopped
<1> QED BY <1>1, <1>t, <1>4, <1>5, <1>6, <1>7, StepPlaced

LEMMA PWaitForIdle ==
  ASSUME PInv, NEW t \in Callers, WaitForIdle(t)
  PROVE  PInv' /\ Others(t) /\ pc'[t] \in {"recheck"}
<1> USE DEF PInv, WaitForIdle, poolVars, engineVars, driveVars
<1>t. t \in Threads
  BY DEF Threads
<1>1. /\ pc' \in [Threads -> WorkerPcs \cup DrivePcs \cup CallerPcs]
      /\ pc'[t] \in {"recheck"}
      /\ \A u \in Threads \ {t} : pc'[u] = pc[u]
  BY <1>t, GotoPc DEF WorkerPcs, DrivePcs, CallerPcs
<1>4. TypeOK'
  BY <1>1, <1>t DEF TypeOK
<1>5. Others(t)
  BY <1>1 DEF Others
<1>6. Own(t)
  BY <1>1, <1>t, PoolAssumption DEF TypeOK, Own, Placed, Bound, Stopped, WorkerPcs, DrivePcs, CallerPcs
<1>7. Flags
  BY <1>t DEF Flags, Stopped
<1> QED BY <1>1, <1>t, <1>4, <1>5, <1>6, <1>7, StepPlaced

LEMMA PShutdown ==
  ASSUME PInv, NEW t \in Callers, Shutdown(t)
  PROVE  PInv' /\ Others(t) /\ pc'[t] \in {"stop"}
<1> USE DEF PInv, Shutdown, poolVars, engineVars, driveVars
<1>t. t \in Threads
  BY DEF Threads
<1>1. /\ pc' \in [Threads -> WorkerPcs \cup DrivePcs \cup CallerPcs]
      /\ pc'[t] \in {"stop"}
      /\ \A u \in Threads \ {t} : pc'[u] = pc[u]
  BY <1>t, GotoPc DEF WorkerPcs, DrivePcs, CallerPcs
<1>4. TypeOK'
  BY <1>1, <1>t DEF TypeOK
<1>5. Others(t)
  BY <1>1 DEF Others
<1>6. Own(t)
  BY <1>1, <1>t, PoolAssumption DEF TypeOK, Own, Placed, Bound, Stopped, WorkerPcs, DrivePcs, CallerPcs
<1>7. Flags
  BY <1>t DEF Flags, Stopped
<1> QED BY <1>1, <1>t, <1>4, <1>5, <1>6, <1>7, StepPlaced

LEMMA PInvStep == PInv /\ [Next]_vars => PInv'
<1> SUFFICES ASSUME PInv, [Next]_vars PROVE PInv'
  OBVIOUS
<1>1. ASSUME NEW t \in Threads, Drive(t) PROVE PInv'
  <2>1. CASE Entry(t)
    BY <2>1, PEntry
  <2>2. CASE PassEnds(t)
    BY <2>2, PPassEnds
  <2>3. CASE Pass(t)
    BY <2>3, PPass
  <2>4. CASE Empty(t)
    BY <2>4, PEmpty
  <2>5. CASE Serial(t)
    BY <2>5, PSerial
  <2>6. CASE SubmitItem(t)
    BY <2>6, PSubmitItem
  <2>7. CASE ExecuteRefused(t)
    BY <2>7, PExecuteRefused
  <2>8. CASE ExecuteOwn(t)
    BY <2>8, PExecuteOwn
  <2>9. CASE LatchWait(t)
    BY <2>9, PLatchWait
  <2>10. CASE LoopReturns(t)
    BY <2>10, PLoopReturns
  <2>11. CASE RunUntilIdleReturns(t)
    BY <2>11, PRunUntilIdleReturns
  <2>12. CASE RunStepsReturns(t)
    BY <2>12, PRunStepsReturns
  <2> QED BY <1>1, <2>1, <2>2, <2>3, <2>4, <2>5, <2>6, <2>7, <2>8, <2>9, <2>10, <2>11, <2>12 DEF Drive
<1>2. ASSUME NEW w \in Workers, Work(w) PROVE PInv'
  <2>1. CASE Take(w)
    BY <2>1, PTake
  <2>2. CASE Exit(w)
    BY <2>2, PExit
  <2>3. CASE RetireTaken(w)
    BY <2>3, PRetireTaken
  <2>4. CASE RunDriver(w)
    BY <2>4, PRunDriver
  <2>5. CASE RunItem(w)
    BY <2>5, PRunItem
  <2> QED BY <1>2, <2>1, <2>2, <2>3, <2>4, <2>5 DEF Work
<1>3. ASSUME NEW t \in Callers, Continue(t) PROVE PInv'
  <2>1. CASE StartAdmit(t)
    BY <2>1, PStartAdmit
  <2>2. CASE StartSubmits(t)
    BY <2>2, PStartSubmits
  <2>3. CASE StartRefused(t)
    BY <2>3, PStartRefused
  <2>4. CASE Recheck(t)
    BY <2>4, PRecheck
  <2>5. CASE StopPool(t)
    BY <2>5, PStopPool
  <2>6. CASE Join(t)
    BY <2>6, PJoin
  <2> QED BY <1>3, <2>1, <2>2, <2>3, <2>4, <2>5, <2>6 DEF Continue
<1>4. ASSUME NEW t \in Callers, Call(t) PROVE PInv'
  <2>1. CASE RunUntilIdle(t)
    BY <2>1, PRunUntilIdle
  <2>2. CASE RunSteps(t)
    BY <2>2, PRunSteps
  <2>3. CASE WaitForIdle(t)
    BY <2>3, PWaitForIdle
  <2>4. CASE Shutdown(t)
    BY <2>4, PShutdown
  <2>5. ASSUME NEW c \in Starts[t], StartRunnable(t, c) PROVE PInv'
    BY <2>5, PStartRunnable
  <2> QED BY <1>4, <2>1, <2>2, <2>3, <2>4, <2>5 DEF Call
<1>5. CASE UNCHANGED vars
  <2> USE <1>5 DEF vars, poolVars, engineVars, driveVars
  <2>1. TypeOK'
    BY DEF PInv, TypeOK
  <2>2. Placed'
    BY DEF PInv, Placed, Bound
  <2>3. Stopped'
    BY DEF PInv, Stopped
  <2> QED BY <2>1, <2>2, <2>3 DEF PInv
<1> QED BY <1>1, <1>2, <1>3, <1>4, <1>5 DEF Next

LEMMA PInvariant == Spec => []PInv
BY InitP, PInvStep, PTL DEF Spec

\* Type correctness, for every number of threads, campaigns and items: the
\* worker pool's queue never exceeds its bound, and no counter goes below zero.
THEOREM TypeCorrect == Spec => []TypeOK
<1>1. PInv => TypeOK
  BY DEF PInv
<1> QED BY <1>1, PInvariant, PTL

-----------------------------------------------------------------------------
\* The store is closed, and the workers are joined, only by a shutdown that
\* has stopped the pool; and a caller has a campaign in hand only inside
\* start().
Settled ==
  /\ closed => stopping
  /\ \A t \in Callers : pc[t] = "join" => stopping
  /\ \A t \in Callers : pc[t] \in {"admit", "submitDriver"} \/ starting[t] = None

LEMMA SettledStays ==
  ASSUME Settled, NEW t \in Threads, Others(t), stopping => stopping',
         closed' => closed \/ stopping', pc'[t] = "join" => stopping',
         \A u \in Callers \ {t} : starting'[u] = starting[u],
         t \in Callers => pc'[t] \in {"admit", "submitDriver"} \/ starting'[t] = None
  PROVE  Settled'
BY DEF Settled, Others, Threads

LEMMA SettledStep == PInv /\ Settled /\ [Next]_vars => Settled'
<1> SUFFICES ASSUME PInv, Settled, [Next]_vars PROVE Settled'
  OBVIOUS
<1>1. ASSUME NEW t \in Threads, Drive(t) PROVE Settled'
  <2>1. CASE Entry(t)
    <3>1. Others(t) /\ t \in Threads /\ pc'[t] # "join"
      BY <2>1, PEntry DEF Threads
    <3>2. /\ \A u \in Callers \ {t} : starting'[u] = starting[u]
          /\ t \in Callers => pc'[t] \in {"admit", "submitDriver"} \/ starting'[t] = None
      BY <2>1 DEF Entry, Settled
    <3> QED BY <2>1, <3>1, <3>2, SettledStays DEF Entry, poolVars, engineVars
  <2>2. CASE PassEnds(t)
    <3>1. Others(t) /\ t \in Threads /\ pc'[t] # "join"
      BY <2>2, PPassEnds DEF Threads
    <3>2. /\ \A u \in Callers \ {t} : starting'[u] = starting[u]
          /\ t \in Callers => pc'[t] \in {"admit", "submitDriver"} \/ starting'[t] = None
      BY <2>2 DEF PassEnds, Settled
    <3> QED BY <2>2, <3>1, <3>2, SettledStays DEF PassEnds, poolVars, engineVars
  <2>3. CASE Pass(t)
    <3>1. Others(t) /\ t \in Threads /\ pc'[t] # "join"
      BY <2>3, PPass DEF Threads
    <3>2. /\ \A u \in Callers \ {t} : starting'[u] = starting[u]
          /\ t \in Callers => pc'[t] \in {"admit", "submitDriver"} \/ starting'[t] = None
      BY <2>3 DEF Pass, Settled
    <3> QED BY <2>3, <3>1, <3>2, SettledStays DEF Pass, poolVars, engineVars
  <2>4. CASE Empty(t)
    <3>1. Others(t) /\ t \in Threads /\ pc'[t] # "join"
      BY <2>4, PEmpty DEF Threads
    <3>2. /\ \A u \in Callers \ {t} : starting'[u] = starting[u]
          /\ t \in Callers => pc'[t] \in {"admit", "submitDriver"} \/ starting'[t] = None
      BY <2>4 DEF Empty, Settled
    <3> QED BY <2>4, <3>1, <3>2, SettledStays DEF Empty, poolVars, engineVars
  <2>5. CASE Serial(t)
    <3>1. Others(t) /\ t \in Threads /\ pc'[t] # "join"
      BY <2>5, PSerial DEF Threads
    <3>2. /\ \A u \in Callers \ {t} : starting'[u] = starting[u]
          /\ t \in Callers => pc'[t] \in {"admit", "submitDriver"} \/ starting'[t] = None
      BY <2>5 DEF Serial, Settled
    <3> QED BY <2>5, <3>1, <3>2, SettledStays DEF Serial, poolVars, engineVars
  <2>6. CASE SubmitItem(t)
    <3>1. Others(t) /\ t \in Threads /\ pc'[t] # "join"
      BY <2>6, PSubmitItem DEF Threads
    <3>2. /\ \A u \in Callers \ {t} : starting'[u] = starting[u]
          /\ t \in Callers => pc'[t] \in {"admit", "submitDriver"} \/ starting'[t] = None
      BY <2>6 DEF SubmitItem, Settled
    <3> QED BY <2>6, <3>1, <3>2, SettledStays DEF SubmitItem, poolVars, engineVars, Enqueue, Refuse
  <2>7. CASE ExecuteRefused(t)
    <3>1. Others(t) /\ t \in Threads /\ pc'[t] # "join"
      BY <2>7, PExecuteRefused DEF Threads
    <3>2. /\ \A u \in Callers \ {t} : starting'[u] = starting[u]
          /\ t \in Callers => pc'[t] \in {"admit", "submitDriver"} \/ starting'[t] = None
      BY <2>7 DEF ExecuteRefused, Settled
    <3> QED BY <2>7, <3>1, <3>2, SettledStays DEF ExecuteRefused, poolVars, engineVars, Enqueue, Refuse
  <2>8. CASE ExecuteOwn(t)
    <3>1. Others(t) /\ t \in Threads /\ pc'[t] # "join"
      BY <2>8, PExecuteOwn DEF Threads
    <3>2. /\ \A u \in Callers \ {t} : starting'[u] = starting[u]
          /\ t \in Callers => pc'[t] \in {"admit", "submitDriver"} \/ starting'[t] = None
      BY <2>8 DEF ExecuteOwn, Settled
    <3> QED BY <2>8, <3>1, <3>2, SettledStays DEF ExecuteOwn, poolVars, engineVars
  <2>9. CASE LatchWait(t)
    <3>1. Others(t) /\ t \in Threads /\ pc'[t] # "join"
      BY <2>9, PLatchWait DEF Threads
    <3>2. /\ \A u \in Callers \ {t} : starting'[u] = starting[u]
          /\ t \in Callers => pc'[t] \in {"admit", "submitDriver"} \/ starting'[t] = None
      BY <2>9 DEF LatchWait, Settled
    <3> QED BY <2>9, <3>1, <3>2, SettledStays DEF LatchWait, poolVars, engineVars
  <2>10. CASE LoopReturns(t)
    <3>1. Others(t) /\ t \in Threads /\ pc'[t] # "join"
      BY <2>10, PLoopReturns DEF Threads
    <3>2. /\ \A u \in Callers \ {t} : starting'[u] = starting[u]
          /\ t \in Callers => pc'[t] \in {"admit", "submitDriver"} \/ starting'[t] = None
      BY <2>10 DEF LoopReturns, Settled
    <3> QED BY <2>10, <3>1, <3>2, SettledStays DEF LoopReturns, poolVars, engineVars
  <2>11. CASE RunUntilIdleReturns(t)
    <3>1. Others(t) /\ t \in Threads /\ pc'[t] # "join"
      BY <2>11, PRunUntilIdleReturns DEF Threads
    <3>2. /\ \A u \in Callers \ {t} : starting'[u] = starting[u]
          /\ t \in Callers => pc'[t] \in {"admit", "submitDriver"} \/ starting'[t] = None
      BY <2>11 DEF RunUntilIdleReturns, Settled
    <3> QED BY <2>11, <3>1, <3>2, SettledStays DEF RunUntilIdleReturns, poolVars, engineVars
  <2>12. CASE RunStepsReturns(t)
    <3>1. Others(t) /\ t \in Threads /\ pc'[t] # "join"
      BY <2>12, PRunStepsReturns DEF Threads
    <3>2. /\ \A u \in Callers \ {t} : starting'[u] = starting[u]
          /\ t \in Callers => pc'[t] \in {"admit", "submitDriver"} \/ starting'[t] = None
      BY <2>12 DEF RunStepsReturns, Settled
    <3> QED BY <2>12, <3>1, <3>2, SettledStays DEF RunStepsReturns, poolVars, engineVars
  <2> QED BY <1>1, <2>1, <2>2, <2>3, <2>4, <2>5, <2>6, <2>7, <2>8, <2>9, <2>10, <2>11, <2>12 DEF Drive
<1>2. ASSUME NEW w \in Workers, Work(w) PROVE Settled'
  <2>1. CASE Take(w)
    <3>1. Others(w) /\ w \in Threads /\ pc'[w] # "join"
      BY <2>1, PTake DEF Threads
    <3>2. /\ \A u \in Callers \ {w} : starting'[u] = starting[u]
          /\ w \in Callers => pc'[w] \in {"admit", "submitDriver"} \/ starting'[w] = None
      BY <2>1 DEF Take, Settled
    <3> QED BY <2>1, <3>1, <3>2, SettledStays DEF Take, poolVars, engineVars
  <2>2. CASE Exit(w)
    <3>1. Others(w) /\ w \in Threads /\ pc'[w] # "join"
      BY <2>2, PExit DEF Threads
    <3>2. /\ \A u \in Callers \ {w} : starting'[u] = starting[u]
          /\ w \in Callers => pc'[w] \in {"admit", "submitDriver"} \/ starting'[w] = None
      BY <2>2 DEF Exit, Settled
    <3> QED BY <2>2, <3>1, <3>2, SettledStays DEF Exit, poolVars, engineVars
  <2>3. CASE RetireTaken(w)
    <3>1. Others(w) /\ w \in Threads /\ pc'[w] # "join"
      BY <2>3, PRetireTaken DEF Threads
    <3>2. /\ \A u \in Callers \ {w} : starting'[u] = starting[u]
          /\ w \in Callers => pc'[w] \in {"admit", "submitDriver"} \/ starting'[w] = None
      BY <2>3 DEF RetireTaken, Settled
    <3> QED BY <2>3, <3>1, <3>2, SettledStays DEF RetireTaken, poolVars, engineVars
  <2>4. CASE RunDriver(w)
    <3>1. Others(w) /\ w \in Threads /\ pc'[w] # "join"
      BY <2>4, PRunDriver DEF Threads
    <3>2. /\ \A u \in Callers \ {w} : starting'[u] = starting[u]
          /\ w \in Callers => pc'[w] \in {"admit", "submitDriver"} \/ starting'[w] = None
      BY <2>4 DEF RunDriver, Settled
    <3> QED BY <2>4, <3>1, <3>2, SettledStays DEF RunDriver, poolVars, engineVars
  <2>5. CASE RunItem(w)
    <3>1. Others(w) /\ w \in Threads /\ pc'[w] # "join"
      BY <2>5, PRunItem DEF Threads
    <3>2. /\ \A u \in Callers \ {w} : starting'[u] = starting[u]
          /\ w \in Callers => pc'[w] \in {"admit", "submitDriver"} \/ starting'[w] = None
      BY <2>5 DEF RunItem, Settled
    <3> QED BY <2>5, <3>1, <3>2, SettledStays DEF RunItem, poolVars, engineVars
  <2> QED BY <1>2, <2>1, <2>2, <2>3, <2>4, <2>5 DEF Work
<1>3. ASSUME NEW t \in Callers, Continue(t) PROVE Settled'
  <2>1. CASE StartAdmit(t)
    <3>1. Others(t) /\ t \in Threads /\ pc'[t] # "join"
      BY <2>1, PStartAdmit DEF Threads
    <3>2. /\ \A u \in Callers \ {t} : starting'[u] = starting[u]
          /\ t \in Callers => pc'[t] \in {"admit", "submitDriver"} \/ starting'[t] = None
      BY <2>1, <3>1, GotoPc DEF StartAdmit, PInv, TypeOK, CallerPcs
    <3> QED BY <2>1, <3>1, <3>2, SettledStays DEF StartAdmit, poolVars, engineVars
  <2>2. CASE StartSubmits(t)
    <3>1. Others(t) /\ t \in Threads /\ pc'[t] # "join"
      BY <2>2, PStartSubmits DEF Threads
    <3>2. /\ \A u \in Callers \ {t} : starting'[u] = starting[u]
          /\ t \in Callers => pc'[t] \in {"admit", "submitDriver"} \/ starting'[t] = None
      BY <2>2, <3>1 DEF StartSubmits, PInv, TypeOK, CallerPcs
    <3> QED BY <2>2, <3>1, <3>2, SettledStays DEF StartSubmits, poolVars, engineVars, Enqueue, Refuse
  <2>3. CASE StartRefused(t)
    <3>1. Others(t) /\ t \in Threads /\ pc'[t] # "join"
      BY <2>3, PStartRefused DEF Threads
    <3>2. /\ \A u \in Callers \ {t} : starting'[u] = starting[u]
          /\ t \in Callers => pc'[t] \in {"admit", "submitDriver"} \/ starting'[t] = None
      BY <2>3, <3>1 DEF StartRefused, PInv, TypeOK, CallerPcs
    <3> QED BY <2>3, <3>1, <3>2, SettledStays DEF StartRefused, poolVars, engineVars, Enqueue, Refuse
  <2>4. CASE Recheck(t)
    <3>1. Others(t) /\ t \in Threads /\ pc'[t] # "join"
      BY <2>4, PRecheck DEF Threads
    <3>2. /\ \A u \in Callers \ {t} : starting'[u] = starting[u]
          /\ t \in Callers => pc'[t] \in {"admit", "submitDriver"} \/ starting'[t] = None
      BY <2>4 DEF Recheck, Settled
    <3> QED BY <2>4, <3>1, <3>2, SettledStays DEF Recheck, poolVars, engineVars
  <2>5. CASE StopPool(t)
    <3>1. Others(t) /\ t \in Threads /\ stopping'
      BY <2>5, PStopPool DEF Threads, StopPool
    <3>2. /\ \A u \in Callers \ {t} : starting'[u] = starting[u]
          /\ t \in Callers => pc'[t] \in {"admit", "submitDriver"} \/ starting'[t] = None
      BY <2>5 DEF StopPool, Settled
    <3> QED BY <2>5, <3>1, <3>2, SettledStays DEF StopPool, poolVars, engineVars
  <2>6. CASE Join(t)
    <3>1. Others(t) /\ t \in Threads /\ pc'[t] # "join"
      BY <2>6, PJoin DEF Threads
    <3>2. /\ \A u \in Callers \ {t} : starting'[u] = starting[u]
          /\ t \in Callers => pc'[t] \in {"admit", "submitDriver"} \/ starting'[t] = None
      BY <2>6 DEF Join, Settled
    <3> QED BY <2>6, <3>1, <3>2, SettledStays DEF Join, poolVars, engineVars, Settled
  <2> QED BY <1>3, <2>1, <2>2, <2>3, <2>4, <2>5, <2>6 DEF Continue
<1>4. ASSUME NEW t \in Callers, Call(t) PROVE Settled'
  <2>1. CASE RunUntilIdle(t)
    <3>1. Others(t) /\ t \in Threads /\ pc'[t] # "join"
      BY <2>1, PRunUntilIdle DEF Threads
    <3>2. /\ \A u \in Callers \ {t} : starting'[u] = starting[u]
          /\ t \in Callers => pc'[t] \in {"admit", "submitDriver"} \/ starting'[t] = None
      BY <2>1 DEF RunUntilIdle, Settled
    <3> QED BY <2>1, <3>1, <3>2, SettledStays DEF RunUntilIdle, poolVars, engineVars
  <2>2. CASE RunSteps(t)
    <3>1. Others(t) /\ t \in Threads /\ pc'[t] # "join"
      BY <2>2, PRunSteps DEF Threads
    <3>2. /\ \A u \in Callers \ {t} : starting'[u] = starting[u]
          /\ t \in Callers => pc'[t] \in {"admit", "submitDriver"} \/ starting'[t] = None
      BY <2>2 DEF RunSteps, Settled
    <3> QED BY <2>2, <3>1, <3>2, SettledStays DEF RunSteps, poolVars, engineVars
  <2>3. CASE WaitForIdle(t)
    <3>1. Others(t) /\ t \in Threads /\ pc'[t] # "join"
      BY <2>3, PWaitForIdle DEF Threads
    <3>2. /\ \A u \in Callers \ {t} : starting'[u] = starting[u]
          /\ t \in Callers => pc'[t] \in {"admit", "submitDriver"} \/ starting'[t] = None
      BY <2>3 DEF WaitForIdle, Settled
    <3> QED BY <2>3, <3>1, <3>2, SettledStays DEF WaitForIdle, poolVars, engineVars
  <2>4. CASE Shutdown(t)
    <3>1. Others(t) /\ t \in Threads /\ pc'[t] # "join"
      BY <2>4, PShutdown DEF Threads
    <3>2. /\ \A u \in Callers \ {t} : starting'[u] = starting[u]
          /\ t \in Callers => pc'[t] \in {"admit", "submitDriver"} \/ starting'[t] = None
      BY <2>4 DEF Shutdown, Settled
    <3> QED BY <2>4, <3>1, <3>2, SettledStays DEF Shutdown, poolVars, engineVars
  <2>5. ASSUME NEW c \in Starts[t], StartRunnable(t, c) PROVE Settled'
    <3>1. Others(t) /\ t \in Threads /\ pc'[t] # "join"
      BY <2>5, PStartRunnable DEF Threads
    <3>2. /\ \A u \in Callers \ {t} : starting'[u] = starting[u]
          /\ pc'[t] = "admit"
      BY <2>5, <3>1, PStartRunnable DEF StartRunnable, PInv, TypeOK
    <3> QED BY <2>5, <3>1, <3>2, SettledStays DEF StartRunnable, poolVars
  <2> QED BY <1>4, <2>1, <2>2, <2>3, <2>4, <2>5 DEF Call
<1>5. CASE UNCHANGED vars
  BY <1>5 DEF vars, poolVars, engineVars, Settled
<1> QED BY <1>1, <1>2, <1>3, <1>4, <1>5 DEF Next

LEMMA SettledInit == Init => Settled
BY PoolAssumption DEF Init, Settled, Threads

LEMMA SettledInvariant == Spec => []Settled
BY InitP, PInvStep, SettledInit, SettledStep, PTL DEF Spec

-----------------------------------------------------------------------------
(***************************************************************************)
(* One driver. The four places a driver can be in: running, queued, taken  *)
(* by a worker that has not entered it, or about to be submitted. Until    *)
(* shutdown() has joined the workers, driver_active_ says that one of them *)
(* holds exactly one and the others none, or, once the pool may drop it,   *)
(* that it is gone; clear, that all are empty.                             *)
(***************************************************************************)
Drivers == {t \in Threads : role[t] \in {"loop", "idle"}}
Pending == {k \in DOMAIN queue : queue[k] = DriverTask}
Taken   == {w \in Workers : pc[w] = "taken" /\ task[w] = DriverTask}
Coming  == {t \in Callers : pc[t] = "submitDriver"}

Single(S) == \E x \in S : S = {x}

Nobody == Drivers = {} /\ Pending = {} /\ Taken = {} /\ Coming = {}

Somebody ==
  \/ Single(Drivers) /\ Pending = {} /\ Taken = {} /\ Coming = {}
  \/ Drivers = {} /\ Single(Pending) /\ Taken = {} /\ Coming = {}
  \/ Drivers = {} /\ Pending = {} /\ Single(Taken) /\ Coming = {}
  \/ Drivers = {} /\ Pending = {} /\ Taken = {} /\ Single(Coming)

Sole ==
  ~closed => /\ driverActive => Somebody \/ (shuttingDown /\ Nobody)
             /\ ~driverActive => Nobody

\* Whoever is found in one of the places is the only one there, and the flag
\* is up.
LEMMA SoleOne ==
  ASSUME Sole, ~closed
  PROVE  /\ \A x \in Drivers : driverActive /\ Drivers = {x} /\ Pending = {} /\ Taken = {} /\ Coming = {}
         /\ \A x \in Pending : driverActive /\ Drivers = {} /\ Pending = {x} /\ Taken = {} /\ Coming = {}
         /\ \A x \in Taken   : driverActive /\ Drivers = {} /\ Pending = {} /\ Taken = {x} /\ Coming = {}
         /\ \A x \in Coming  : driverActive /\ Drivers = {} /\ Pending = {} /\ Taken = {} /\ Coming = {x}
<1>1. ASSUME NEW S, NEW x \in S, Single(S) PROVE S = {x}
  BY <1>1 DEF Single
<1>2. CASE driverActive
  <2> USE <1>1, <1>2 DEF Sole, Somebody, Nobody
  <2>1. \A x \in Drivers : Drivers = {x} /\ Pending = {} /\ Taken = {} /\ Coming = {}
    OBVIOUS
  <2>2. \A x \in Pending : Drivers = {} /\ Pending = {x} /\ Taken = {} /\ Coming = {}
    OBVIOUS
  <2>3. \A x \in Taken : Drivers = {} /\ Pending = {} /\ Taken = {x} /\ Coming = {}
    OBVIOUS
  <2>4. \A x \in Coming : Drivers = {} /\ Pending = {} /\ Taken = {} /\ Coming = {x}
    OBVIOUS
  <2> QED BY <2>1, <2>2, <2>3, <2>4
<1>3. CASE ~driverActive
  BY <1>3 DEF Sole, Nobody
<1> QED BY <1>2, <1>3

\* A step of thread t that changes none of the four places.
Silent(t) ==
  /\ role'[t] \in {"loop", "idle"} <=> role[t] \in {"loop", "idle"}
  /\ t \in Workers => (pc'[t] = "taken" /\ task'[t] = DriverTask
                         <=> pc[t] = "taken" /\ task[t] = DriverTask)
  /\ t \in Callers => (pc'[t] = "submitDriver" <=> pc[t] = "submitDriver")
  /\ \A w \in Workers \ {t} : task'[w] = task[w]
  /\ Pending' = Pending

LEMMA SilentPlaces ==
  ASSUME NEW t \in Threads, Others(t), Silent(t)
  PROVE  Drivers' = Drivers /\ Pending' = Pending /\ Taken' = Taken /\ Coming' = Coming
<1>1. Drivers' = Drivers
  BY DEF Others, Silent, Drivers
<1>2. Taken' = Taken
  BY DEF Others, Silent, Taken, Threads
<1>3. Coming' = Coming
  BY DEF Others, Silent, Coming, Threads
<1> QED BY <1>1, <1>2, <1>3 DEF Silent

LEMMA SilentSole ==
  ASSUME Sole, NEW t \in Threads, Others(t), Silent(t),
         driverActive' = driverActive, closed => closed', shuttingDown => shuttingDown'
  PROVE  Sole'
<1>1. Drivers' = Drivers /\ Pending' = Pending /\ Taken' = Taken /\ Coming' = Coming
  BY SilentPlaces
<1>2. Somebody => Somebody'
  BY <1>1 DEF Somebody
<1>3. Nobody => Nobody'
  BY <1>1 DEF Nobody
<1> QED BY <1>2, <1>3 DEF Sole

LEMMA ItemIsTask ==
  ASSUME NEW i \in Items, NEW t \in Threads
  PROVE  /\ ItemTask(i, t) \in Tasks /\ ItemTask(i, t) # DriverTask
         /\ ItemTask(i, t).item = i /\ ItemTask(i, t).latch = t
<1>1. ItemTask(i, t).kind = "item" /\ DriverTask.kind = "driver"
  BY DEF ItemTask, DriverTask
<1>2. ItemTask(i, t) # DriverTask
  BY <1>1
<1> QED BY <1>2 DEF ItemTask, Tasks

\* What joins and leaves the queue.
LEMMA EnqueuePending ==
  ASSUME TypeOK, NEW k \in Tasks, Enqueue(k)
  PROVE  /\ k # DriverTask => Pending' = Pending
         /\ k = DriverTask => Pending' = Pending \cup {Len(queue) + 1}
<1>1. /\ Len(queue) \in Nat /\ DOMAIN queue = 1..Len(queue)
      /\ DOMAIN queue' = 1..(Len(queue) + 1)
      /\ queue'[Len(queue) + 1] = k
      /\ \A m \in 1..Len(queue) : queue'[m] = queue[m]
  BY AppendProperties, LenProperties DEF Enqueue, TypeOK
<1>2. 1..(Len(queue) + 1) = (1..Len(queue)) \cup {Len(queue) + 1} /\ Len(queue) + 1 \notin 1..Len(queue)
  BY <1>1
<1> QED BY <1>1, <1>2 DEF Pending

LEMMA TakePending ==
  ASSUME TypeOK, queue # <<>>, queue' = Tail(queue)
  PROVE  /\ Head(queue) = DriverTask <=> 1 \in Pending
         /\ \A m : m \in Pending' <=> m \in Nat \ {0} /\ m + 1 \in Pending
<1>1. /\ Len(queue) \in Nat /\ Len(queue) > 0 /\ DOMAIN queue = 1..Len(queue)
      /\ DOMAIN queue' = 1..(Len(queue) - 1)
      /\ Head(queue) = queue[1]
      /\ \A m \in 1..(Len(queue) - 1) : queue'[m] = queue[m + 1]
  BY HeadTailProperties, LenProperties, EmptySeq DEF TypeOK
<1>2. Head(queue) = DriverTask <=> 1 \in Pending
  BY <1>1 DEF Pending
<1>3. ASSUME NEW m PROVE m \in Pending' <=> m \in Nat \ {0} /\ m + 1 \in Pending
  BY <1>1 DEF Pending
<1> QED BY <1>2, <1>3

\* The steps that move no driver.
LEMMA SEntry ==
  ASSUME PInv, Sole, NEW t \in Threads, Entry(t)
  PROVE  Sole'
<1>t. t \in Threads
  BY DEF Threads
<1>1. PInv' /\ Others(t) /\ pc'[t] # "taken" /\ pc'[t] # "submitDriver"
  BY PEntry DEF PInv, Placed, Threads
<1>2. Silent(t)
  BY <1>1, <1>t DEF Silent, Entry, PInv, TypeOK, Placed, Pending, LeaveDrive, poolVars, engineVars, driveVars, WorkerPcs, DrivePcs, CallerPcs
<1> QED BY <1>1, <1>2, <1>t, SilentSole DEF Entry, engineVars

LEMMA SPassEnds ==
  ASSUME PInv, Sole, NEW t \in Threads, PassEnds(t)
  PROVE  Sole'
<1>t. t \in Threads
  BY DEF Threads
<1>1. PInv' /\ Others(t) /\ pc'[t] # "taken" /\ pc'[t] # "submitDriver"
  BY PPassEnds DEF PInv, Placed, Threads
<1>2. Silent(t)
  BY <1>1, <1>t DEF Silent, PassEnds, PInv, TypeOK, Placed, Pending, LeaveDrive, poolVars, engineVars, driveVars, WorkerPcs, DrivePcs, CallerPcs
<1> QED BY <1>1, <1>2, <1>t, SilentSole DEF PassEnds, engineVars

LEMMA SPass ==
  ASSUME PInv, Sole, NEW t \in Threads, Pass(t)
  PROVE  Sole'
<1>t. t \in Threads
  BY DEF Threads
<1>1. PInv' /\ Others(t) /\ pc'[t] # "taken" /\ pc'[t] # "submitDriver"
  BY PPass DEF PInv, Placed, Threads
<1>2. Silent(t)
  BY <1>1, <1>t DEF Silent, Pass, PInv, TypeOK, Placed, Pending, LeaveDrive, poolVars, engineVars, driveVars, WorkerPcs, DrivePcs, CallerPcs
<1> QED BY <1>1, <1>2, <1>t, SilentSole DEF Pass, engineVars

LEMMA SEmpty ==
  ASSUME PInv, Sole, NEW t \in Threads, Empty(t)
  PROVE  Sole'
<1>t. t \in Threads
  BY DEF Threads
<1>1. PInv' /\ Others(t) /\ pc'[t] # "taken" /\ pc'[t] # "submitDriver"
  BY PEmpty DEF PInv, Placed, Threads
<1>2. Silent(t)
  BY <1>1, <1>t DEF Silent, Empty, PInv, TypeOK, Placed, Pending, LeaveDrive, poolVars, engineVars, driveVars, WorkerPcs, DrivePcs, CallerPcs
<1> QED BY <1>1, <1>2, <1>t, SilentSole DEF Empty, engineVars

LEMMA SSerial ==
  ASSUME PInv, Sole, NEW t \in Threads, Serial(t)
  PROVE  Sole'
<1>t. t \in Threads
  BY DEF Threads
<1>1. PInv' /\ Others(t) /\ pc'[t] # "taken" /\ pc'[t] # "submitDriver"
  BY PSerial DEF PInv, Placed, Threads
<1>2. Silent(t)
  BY <1>1, <1>t DEF Silent, Serial, PInv, TypeOK, Placed, Pending, LeaveDrive, poolVars, engineVars, driveVars, WorkerPcs, DrivePcs, CallerPcs
<1> QED BY <1>1, <1>2, <1>t, SilentSole DEF Serial, engineVars

LEMMA SSubmitItem ==
  ASSUME PInv, Sole, NEW t \in Threads, SubmitItem(t)
  PROVE  Sole'
<1>t. t \in Threads
  BY DEF Threads
<1>1. PInv' /\ Others(t) /\ pc'[t] # "taken" /\ pc'[t] # "submitDriver"
  BY PSubmitItem DEF PInv, Placed, Threads
<1>3. PICK i \in batch[t] : Enqueue(ItemTask(i, t))
  BY DEF SubmitItem
<1>4. i \in Items
  BY DEF PInv, TypeOK
<1>5. Pending' = Pending
  BY <1>3, <1>4, EnqueuePending, ItemIsTask DEF PInv
<1>2. Silent(t)
  BY <1>1, <1>5, <1>t DEF Silent, SubmitItem, PInv, TypeOK, Placed, LeaveDrive, poolVars, engineVars, driveVars, WorkerPcs, DrivePcs, CallerPcs
<1> QED BY <1>1, <1>2, <1>t, SilentSole DEF SubmitItem, engineVars

LEMMA SExecuteRefused ==
  ASSUME PInv, Sole, NEW t \in Threads, ExecuteRefused(t)
  PROVE  Sole'
<1>t. t \in Threads
  BY DEF Threads
<1>1. PInv' /\ Others(t) /\ pc'[t] # "taken" /\ pc'[t] # "submitDriver"
  BY PExecuteRefused DEF PInv, Placed, Threads
<1>2. Silent(t)
  BY <1>1, <1>t DEF Silent, ExecuteRefused, Refuse, PInv, TypeOK, Placed, Pending, LeaveDrive, poolVars, engineVars, driveVars, WorkerPcs, DrivePcs, CallerPcs
<1> QED BY <1>1, <1>2, <1>t, SilentSole DEF ExecuteRefused, engineVars

LEMMA SExecuteOwn ==
  ASSUME PInv, Sole, NEW t \in Threads, ExecuteOwn(t)
  PROVE  Sole'
<1>t. t \in Threads
  BY DEF Threads
<1>1. PInv' /\ Others(t) /\ pc'[t] # "taken" /\ pc'[t] # "submitDriver"
  BY PExecuteOwn DEF PInv, Placed, Threads
<1>2. Silent(t)
  BY <1>1, <1>t DEF Silent, ExecuteOwn, PInv, TypeOK, Placed, Pending, LeaveDrive, poolVars, engineVars, driveVars, WorkerPcs, DrivePcs, CallerPcs
<1> QED BY <1>1, <1>2, <1>t, SilentSole DEF ExecuteOwn, engineVars

LEMMA SLatchWait ==
  ASSUME PInv, Sole, NEW t \in Threads, LatchWait(t)
  PROVE  Sole'
<1>t. t \in Threads
  BY DEF Threads
<1>1. PInv' /\ Others(t) /\ pc'[t] # "taken" /\ pc'[t] # "submitDriver"
  BY PLatchWait DEF PInv, Placed, Threads
<1>2. Silent(t)
  BY <1>1, <1>t DEF Silent, LatchWait, PInv, TypeOK, Placed, Pending, LeaveDrive, poolVars, engineVars, driveVars, WorkerPcs, DrivePcs, CallerPcs
<1> QED BY <1>1, <1>2, <1>t, SilentSole DEF LatchWait, engineVars

LEMMA SRunStepsReturns ==
  ASSUME PInv, Sole, NEW t \in Threads, RunStepsReturns(t)
  PROVE  Sole'
<1>t. t \in Threads
  BY DEF Threads
<1>1. PInv' /\ Others(t) /\ pc'[t] # "taken" /\ pc'[t] # "submitDriver"
  BY PRunStepsReturns DEF PInv, Placed, Threads
<1>2. Silent(t)
  BY <1>1, <1>t DEF Silent, RunStepsReturns, PInv, TypeOK, Placed, Pending, LeaveDrive, poolVars, engineVars, driveVars, WorkerPcs, DrivePcs, CallerPcs
<1> QED BY <1>1, <1>2, <1>t, SilentSole DEF RunStepsReturns, engineVars

LEMMA SExit ==
  ASSUME PInv, Sole, NEW t \in Workers, Exit(t)
  PROVE  Sole'
<1>t. t \in Threads
  BY DEF Threads
<1>1. PInv' /\ Others(t) /\ pc'[t] # "taken" /\ pc'[t] # "submitDriver"
  BY PExit DEF PInv, Placed, Threads
<1>2. Silent(t)
  BY <1>1, <1>t DEF Silent, Exit, PInv, TypeOK, Placed, Pending, LeaveDrive, poolVars, engineVars, driveVars, WorkerPcs, DrivePcs, CallerPcs
<1> QED BY <1>1, <1>2, <1>t, SilentSole DEF Exit, engineVars

LEMMA SRunItem ==
  ASSUME PInv, Sole, NEW t \in Workers, RunItem(t)
  PROVE  Sole'
<1>t. t \in Threads
  BY DEF Threads
<1>1. PInv' /\ Others(t) /\ pc'[t] # "taken" /\ pc'[t] # "submitDriver"
  BY PRunItem DEF PInv, Placed, Threads
<1>2. Silent(t)
  BY <1>1, <1>t DEF Silent, RunItem, PInv, TypeOK, Placed, Pending, LeaveDrive, poolVars, engineVars, driveVars, WorkerPcs, DrivePcs, CallerPcs
<1> QED BY <1>1, <1>2, <1>t, SilentSole DEF RunItem, engineVars

LEMMA SStartRunnable ==
  ASSUME PInv, Sole, NEW t \in Callers, NEW c \in Starts[t], StartRunnable(t, c)
  PROVE  Sole'
<1>t. t \in Threads
  BY DEF Threads
<1>1. PInv' /\ Others(t) /\ pc'[t] # "taken" /\ pc'[t] # "submitDriver"
  BY PStartRunnable DEF PInv, Placed, Threads
<1>2. Silent(t)
  BY <1>1, <1>t DEF Silent, StartRunnable, PInv, TypeOK, Placed, Pending, LeaveDrive, poolVars, engineVars, driveVars, WorkerPcs, DrivePcs, CallerPcs
<1> QED BY <1>1, <1>2, <1>t, SilentSole DEF StartRunnable, engineVars

LEMMA SRecheck ==
  ASSUME PInv, Sole, NEW t \in Callers, Recheck(t)
  PROVE  Sole'
<1>t. t \in Threads
  BY DEF Threads
<1>1. PInv' /\ Others(t) /\ pc'[t] # "taken" /\ pc'[t] # "submitDriver"
  BY PRecheck DEF PInv, Placed, Threads
<1>2. Silent(t)
  BY <1>1, <1>t DEF Silent, Recheck, PInv, TypeOK, Placed, Pending, LeaveDrive, poolVars, engineVars, driveVars, WorkerPcs, DrivePcs, CallerPcs
<1> QED BY <1>1, <1>2, <1>t, SilentSole DEF Recheck, engineVars

LEMMA SRunSteps ==
  ASSUME PInv, Sole, NEW t \in Callers, RunSteps(t)
  PROVE  Sole'
<1>t. t \in Threads
  BY DEF Threads
<1>1. PInv' /\ Others(t) /\ pc'[t] # "taken" /\ pc'[t] # "submitDriver"
  BY PRunSteps DEF PInv, Placed, Threads
<1>3. role[t] = "none" /\ role'[t] = "steps"
  BY <1>t DEF RunSteps, PInv, TypeOK, Placed, DrivePcs
<1>2. Silent(t)
  BY <1>1, <1>3, <1>t DEF Silent, RunSteps, Pending, poolVars
<1> QED BY <1>1, <1>2, <1>t, SilentSole DEF RunSteps, engineVars

LEMMA SWaitForIdle ==
  ASSUME PInv, Sole, NEW t \in Callers, WaitForIdle(t)
  PROVE  Sole'
<1>t. t \in Threads
  BY DEF Threads
<1>1. PInv' /\ Others(t) /\ pc'[t] # "taken" /\ pc'[t] # "submitDriver"
  BY PWaitForIdle DEF PInv, Placed, Threads
<1>2. Silent(t)
  BY <1>1, <1>t DEF Silent, WaitForIdle, PInv, TypeOK, Placed, Pending, LeaveDrive, poolVars, engineVars, driveVars, WorkerPcs, DrivePcs, CallerPcs
<1> QED BY <1>1, <1>2, <1>t, SilentSole DEF WaitForIdle, engineVars

\* Once the workers are joined nothing is claimed.
LEMMA SClosed ==
  ASSUME closed' PROVE Sole'
BY DEF Sole

\* Taking the driver from the queue moves it from one place to the next.
LEMMA STake ==
  ASSUME PInv, Sole, NEW w \in Workers, Take(w)
  PROVE  Sole'
<1>t. w \in Threads
  BY DEF Threads
<1>1. PInv' /\ Others(w) /\ pc'[w] = "taken"
  BY PTake
<1>2. /\ queue # <<>> /\ queue' = Tail(queue) /\ task' = [task EXCEPT ![w] = Head(queue)]
      /\ driverActive' = driverActive /\ closed' = closed /\ shuttingDown' = shuttingDown /\ role' = role
      /\ pc[w] = "wait"
  BY DEF Take, engineVars, driveVars
<1>3. /\ Head(queue) = DriverTask <=> 1 \in Pending
      /\ \A m : m \in Pending' <=> m \in Nat \ {0} /\ m + 1 \in Pending
  BY <1>2, TakePending DEF PInv
<1>4. Drivers' = Drivers /\ Coming' = Coming
  <2>1. \A u \in Callers : pc'[u] = "submitDriver" <=> pc[u] = "submitDriver"
    BY <1>1, PoolAssumption DEF Others, Threads
  <2> QED BY <1>2, <2>1 DEF Drivers, Coming
<1>5. Taken' = IF Head(queue) = DriverTask THEN Taken \cup {w} ELSE Taken
  <2>1. \A u \in Workers \ {w} : /\ pc'[u] = "taken" <=> pc[u] = "taken"
                                 /\ task'[u] = task[u]
    BY <1>1, <1>2 DEF Others, Threads, PInv, TypeOK
  <2>2. task'[w] = Head(queue) /\ pc'[w] = "taken" /\ w \notin Taken
    BY <1>1, <1>2 DEF Taken, PInv, TypeOK
  <2> QED BY <2>1, <2>2 DEF Taken
<1>6. CASE closed
  BY <1>2, <1>6, SClosed
<1>7. CASE ~closed /\ Head(queue) = DriverTask
  <2>1. driverActive /\ Drivers = {} /\ Pending = {1} /\ Taken = {} /\ Coming = {}
    BY <1>3, <1>7, SoleOne
  <2>2. Pending' = {}
    BY <1>3, <2>1
  <2>3. Taken' = {w}
    BY <1>5, <1>7, <2>1
  <2> QED BY <1>2, <1>4, <2>1, <2>2, <2>3 DEF Sole, Somebody, Single
<1>8. CASE ~closed /\ Head(queue) # DriverTask
  <2>1. Taken' = Taken
    BY <1>5, <1>8
  <2>2. Pending = {} => Pending' = {}
    BY <1>3
  <2>3. Single(Pending) => Single(Pending')
    <3>1. SUFFICES ASSUME NEW x \in Pending, Pending = {x} PROVE Single(Pending')
      BY DEF Single
    <3>2. x \in Nat \ {0} /\ x # 1
      BY <1>3, <1>8, LenProperties DEF Pending, PInv, TypeOK
    <3>3. x - 1 \in Nat \ {0} /\ (x - 1) + 1 = x
      BY <3>2
    <3>4. x - 1 \in Pending' /\ Pending' = {x - 1}
      <4>1. x - 1 \in Pending'
        BY <1>3, <3>3, <3>1
      <4>2. \A m \in Pending' : m = x - 1
        BY <1>3, <3>1, <3>2
      <4> QED BY <4>1, <4>2
    <3> QED BY <3>4 DEF Single
  <2>4. Somebody => Somebody'
    BY <1>4, <2>1, <2>2, <2>3 DEF Somebody
  <2>5. Nobody => Nobody'
    BY <1>4, <2>1, <2>2 DEF Nobody
  <2> QED BY <1>2, <2>4, <2>5 DEF Sole
<1> QED BY <1>6, <1>7, <1>8

\* The worker that took the driver enters it.
LEMMA SRunDriver ==
  ASSUME PInv, Sole, NEW w \in Workers, RunDriver(w)
  PROVE  Sole'
<1>t. w \in Threads
  BY DEF Threads
<1>1. PInv' /\ Others(w) /\ pc'[w] = "entry"
  BY PRunDriver
<1>2. /\ pc[w] = "taken" /\ task[w] = DriverTask /\ role'[w] = "loop"
      /\ task' = task /\ queue' = queue /\ driverActive' = driverActive /\ closed' = closed /\ shuttingDown' = shuttingDown
  BY <1>t DEF RunDriver, poolVars, engineVars, PInv, TypeOK
<1>3. CASE closed
  BY <1>2, <1>3, SClosed
<1>4. CASE ~closed
  <2>1. driverActive /\ Drivers = {} /\ Pending = {} /\ Taken = {w} /\ Coming = {}
    BY <1>2, <1>4, SoleOne DEF Taken
  <2>2. Pending' = {}
    BY <1>2, <2>1 DEF Pending
  <2>3. Drivers' = {w}
    BY <1>1, <1>2, <1>t, <2>1 DEF Drivers, Others
  <2>4. Taken' = {}
    BY <1>1, <1>2, <2>1 DEF Taken, Others, Threads
  <2>5. Coming' = {}
    BY <1>1, <1>t, <2>1, PoolAssumption DEF Coming, Others, Threads
  <2> QED BY <1>2, <2>1, <2>2, <2>3, <2>4, <2>5 DEF Sole, Somebody, Single
<1> QED BY <1>3, <1>4

\* The driver that ends takes its flag down.
LEMMA SLeaves ==
  ASSUME PInv, Sole, NEW t \in Threads, Others(t), role[t] \in {"loop", "idle"}, role'[t] = "none",
         pc'[t] # "taken", pc'[t] # "submitDriver",
         driverActive' = FALSE, closed' = closed /\ shuttingDown' = shuttingDown, queue' = queue,
         \A w \in Workers \ {t} : task'[w] = task[w]
  PROVE  Sole'
<1>1. CASE closed
  BY <1>1, SClosed
<1>2. CASE ~closed
  <2>1. driverActive /\ Drivers = {t} /\ Pending = {} /\ Taken = {} /\ Coming = {}
    BY <1>2, SoleOne DEF Drivers
  <2>2. Drivers' = {}
    BY <2>1 DEF Drivers, Others
  <2>3. Pending' = {}
    BY <2>1 DEF Pending
  <2>4. Taken' = {}
    BY <2>1 DEF Taken, Others, Threads
  <2>5. Coming' = {}
    BY <2>1 DEF Coming, Others, Threads
  <2> QED BY <2>2, <2>3, <2>4, <2>5 DEF Sole, Nobody
<1> QED BY <1>1, <1>2

LEMMA SLoopReturns ==
  ASSUME PInv, Sole, NEW t \in Threads, LoopReturns(t)
  PROVE  Sole'
<1>1. PInv' /\ Others(t) /\ pc'[t] \in {"wait", "entry"}
  BY PLoopReturns
<1>2. /\ role[t] = "loop" /\ pc[t] = "ret" /\ queue' = queue /\ closed' = closed /\ shuttingDown' = shuttingDown
  BY DEF LoopReturns
<1>3. CASE admissions = seen[t] \/ shuttingDown
  <2>1. role'[t] = "none"
    BY <1>3, LeaveMoves DEF LoopReturns, PInv
  <2>2. driverActive' = FALSE /\ \A w \in Workers \ {t} : task'[w] = task[w]
    BY <1>3 DEF LoopReturns, PInv, TypeOK
  <2> QED BY <1>1, <1>2, <2>1, <2>2, SLeaves
<1>4. CASE ~(admissions = seen[t] \/ shuttingDown)
  <2>1. role' = role /\ task' = task /\ driverActive' = driverActive
    BY <1>4 DEF LoopReturns
  <2>2. Silent(t)
    BY <1>1, <1>2, <2>1 DEF Silent, Pending
  <2> QED BY <1>1, <1>2, <2>1, <2>2, SilentSole
<1> QED BY <1>3, <1>4

LEMMA SRunUntilIdleReturns ==
  ASSUME PInv, Sole, NEW t \in Threads, RunUntilIdleReturns(t)
  PROVE  Sole'
<1>1. PInv' /\ Others(t) /\ pc'[t] = "free"
  BY PRunUntilIdleReturns
<1>2. role[t] = "idle" /\ role'[t] = "none"
  BY LeaveMoves DEF RunUntilIdleReturns, PInv
<1>3. driverActive' = FALSE /\ closed' = closed /\ shuttingDown' = shuttingDown /\ queue' = queue /\ task' = task
  BY DEF RunUntilIdleReturns, poolVars
<1> QED BY <1>1, <1>2, <1>3, SLeaves

\* start() finds nobody and raises the flag: it is the one that is coming.
LEMMA SStartAdmit ==
  ASSUME PInv, Sole, NEW t \in Callers, StartAdmit(t)
  PROVE  Sole'
<1>t. t \in Threads
  BY DEF Threads
<1>1. PInv' /\ Others(t)
  BY PStartAdmit
<1>2. /\ pc[t] = "admit" /\ queue' = queue /\ task' = task /\ role' = role /\ closed' = closed /\ shuttingDown' = shuttingDown
  BY DEF StartAdmit, poolVars, driveVars
<1>3. CASE driverActive
  <2>1. pc'[t] = "free" /\ driverActive' = driverActive
    BY <1>3, <1>t, GotoPc DEF StartAdmit, CallerPcs, PInv
  <2>2. Silent(t)
    BY <1>2, <2>1 DEF Silent, Pending
  <2> QED BY <1>1, <1>2, <1>t, <2>1, <2>2, SilentSole
<1>4. CASE ~driverActive
  <2>1. pc'[t] = "submitDriver" /\ driverActive'
    BY <1>4, <1>t, GotoPc DEF StartAdmit, CallerPcs, PInv
  <2>2. CASE closed
    BY <1>2, <2>2, SClosed
  <2>3. CASE ~closed
    <3>1. Drivers = {} /\ Pending = {} /\ Taken = {} /\ Coming = {}
      BY <1>4, <2>3 DEF Sole, Nobody
    <3>2. Drivers' = {} /\ Pending' = {}
      BY <1>2, <3>1 DEF Drivers, Pending
    <3>3. Taken' = {}
      BY <1>1, <1>2, <2>1, <3>1 DEF Taken, Others, Threads
    <3>4. Coming' = {t}
      BY <1>1, <2>1, <3>1 DEF Coming, Others, Threads
    <3> QED BY <2>1, <3>2, <3>3, <3>4 DEF Sole, Somebody, Single
  <2> QED BY <2>2, <2>3
<1> QED BY <1>3, <1>4

LEMMA SStartSubmits ==
  ASSUME PInv, Sole, NEW t \in Callers, StartSubmits(t)
  PROVE  Sole'
<1>1. PInv' /\ Others(t) /\ pc'[t] = "free"
  BY PStartSubmits
<1>2. /\ pc[t] = "submitDriver" /\ Enqueue(DriverTask) /\ task' = task /\ role' = role
      /\ closed' = closed /\ shuttingDown' = shuttingDown /\ driverActive' = driverActive
  BY DEF StartSubmits, engineVars, driveVars
<1>3. CASE closed
  BY <1>2, <1>3, SClosed
<1>4. CASE ~closed
  <2>1. driverActive /\ Drivers = {} /\ Pending = {} /\ Taken = {} /\ Coming = {t}
    BY <1>2, <1>4, SoleOne DEF Coming
  <2>2. Pending' = {Len(queue) + 1}
    BY <1>2, <2>1, EnqueuePending DEF PInv, Tasks
  <2>3. Drivers' = {}
    BY <1>2, <2>1 DEF Drivers
  <2>4. Taken' = {}
    BY <1>1, <1>2, <2>1 DEF Taken, Others, Threads
  <2>5. Coming' = {}
    BY <1>1, <2>1 DEF Coming, Others, Threads
  <2> QED BY <1>2, <2>1, <2>2, <2>3, <2>4, <2>5 DEF Sole, Somebody, Single
<1> QED BY <1>3, <1>4

LEMMA SStartRefused ==
  ASSUME PInv, Sole, NEW t \in Callers, StartRefused(t)
  PROVE  Sole'
<1>1. PInv' /\ Others(t) /\ pc'[t] = "free"
  BY PStartRefused
<1>2. /\ pc[t] = "submitDriver" /\ queue' = queue /\ task' = task /\ role' = role
      /\ closed' = closed /\ shuttingDown' = shuttingDown /\ driverActive' = FALSE
  BY DEF StartRefused, Refuse, driveVars
<1>3. CASE closed
  BY <1>2, <1>3, SClosed
<1>4. CASE ~closed
  <2>1. driverActive /\ Drivers = {} /\ Pending = {} /\ Taken = {} /\ Coming = {t}
    BY <1>2, <1>4, SoleOne DEF Coming
  <2>2. Drivers' = {} /\ Pending' = {}
    BY <1>2, <2>1 DEF Drivers, Pending
  <2>3. Taken' = {}
    BY <1>1, <1>2, <2>1 DEF Taken, Others, Threads
  <2>4. Coming' = {}
    BY <1>1, <2>1 DEF Coming, Others, Threads
  <2> QED BY <1>2, <2>2, <2>3, <2>4 DEF Sole, Nobody
<1> QED BY <1>3, <1>4

LEMMA SRunUntilIdle ==
  ASSUME PInv, Sole, NEW t \in Callers, RunUntilIdle(t)
  PROVE  Sole'
<1>t. t \in Threads
  BY DEF Threads
<1>1. PInv' /\ Others(t) /\ pc'[t] \in {"recheck", "entry"}
  BY PRunUntilIdle
<1>2. /\ pc[t] = "free" /\ queue' = queue /\ task' = task /\ closed' = closed /\ shuttingDown' = shuttingDown
  BY DEF RunUntilIdle, poolVars
<1>3. CASE driverActive
  <2>1. role' = role /\ driverActive' = driverActive
    BY <1>3 DEF RunUntilIdle
  <2>2. Silent(t)
    BY <1>1, <1>2, <2>1 DEF Silent, Pending
  <2> QED BY <1>1, <1>2, <1>t, <2>1, <2>2, SilentSole
<1>4. CASE ~driverActive
  <2>1. role'[t] = "idle" /\ driverActive'
    BY <1>4, <1>t DEF RunUntilIdle, PInv, TypeOK
  <2>2. CASE closed
    BY <1>2, <2>2, SClosed
  <2>3. CASE ~closed
    <3>1. Drivers = {} /\ Pending = {} /\ Taken = {} /\ Coming = {}
      BY <1>4, <2>3 DEF Sole, Nobody
    <3>2. Drivers' = {t}
      BY <1>1, <1>t, <2>1, <3>1 DEF Drivers, Others
    <3>3. Pending' = {}
      BY <1>2, <3>1 DEF Pending
    <3>4. Taken' = {}
      BY <1>1, <1>2, <3>1 DEF Taken, Others, Threads
    <3>5. Coming' = {}
      BY <1>1, <3>1 DEF Coming, Others, Threads
    <3> QED BY <2>1, <3>2, <3>3, <3>4, <3>5 DEF Sole, Somebody, Single
  <2> QED BY <2>2, <2>3
<1> QED BY <1>3, <1>4


\* The steps of a shutdown. The stopping pool may drop the driver; the flag
\* stays up until the workers are joined.
LEMMA SRetireTaken ==
  ASSUME PInv, Sole, NEW t \in Workers, RetireTaken(t)
  PROVE  Sole'
<1>t. t \in Threads
  BY DEF Threads
<1>1. Others(t) /\ pc'[t] = "wait" /\ pc[t] = "taken"
  BY PRetireTaken DEF RetireTaken
<1>2. /\ queue' = queue /\ role' = role /\ driverActive' = driverActive /\ closed' = closed
      /\ shuttingDown /\ shuttingDown'
      /\ \A w \in Workers \ {t} : task'[w] = task[w]
  BY DEF RetireTaken, engineVars, driveVars, PInv, TypeOK, Stopped
<1>3. CASE task[t] # DriverTask
  <2>1. Silent(t)
    BY <1>1, <1>2, <1>3, PoolAssumption DEF Silent, Pending
  <2> QED BY <1>t, <1>1, <1>2, <2>1, SilentSole
<1>4. CASE task[t] = DriverTask /\ ~closed
  <2>1. driverActive /\ Drivers = {} /\ Pending = {} /\ Taken = {t} /\ Coming = {}
    BY <1>1, <1>4, SoleOne DEF Taken
  <2>2. Drivers' = {} /\ Pending' = {}
    BY <1>2, <2>1 DEF Drivers, Pending
  <2>3. Taken' = {}
    BY <1>1, <1>2, <2>1 DEF Taken, Others, Threads
  <2>4. Coming' = {}
    BY <1>1, <2>1 DEF Coming, Others, Threads
  <2> QED BY <1>2, <2>1, <2>2, <2>3, <2>4 DEF Sole, Nobody
<1>5. CASE closed
  BY <1>2, <1>5, SClosed
<1> QED BY <1>3, <1>4, <1>5

LEMMA SStopPool ==
  ASSUME PInv, Sole, NEW t \in Callers, StopPool(t)
  PROVE  Sole'
<1>t. t \in Threads
  BY DEF Threads
<1>1. Others(t) /\ pc'[t] = "join" /\ pc[t] = "stop"
  BY PStopPool DEF StopPool
<1>2. /\ queue' = <<>> /\ role' = role /\ task' = task /\ driverActive' = driverActive
      /\ closed' = closed /\ shuttingDown /\ shuttingDown'
  BY DEF StopPool, engineVars, driveVars, PInv, Stopped
<1>3. Drivers' = Drivers /\ Pending' = {}
  BY <1>2 DEF Drivers, Pending
<1>4. Taken' = Taken
  BY <1>1, <1>2 DEF Taken, Others, Threads
<1>5. Coming' = Coming
  BY <1>1 DEF Coming, Others, Threads
<1>6. Somebody => Somebody' \/ Nobody'
  BY <1>3, <1>4, <1>5 DEF Somebody, Nobody
<1>7. Nobody => Nobody'
  BY <1>3, <1>4, <1>5 DEF Nobody
<1> QED BY <1>2, <1>6, <1>7 DEF Sole

LEMMA SShutdown ==
  ASSUME PInv, Sole, NEW t \in Callers, Shutdown(t)
  PROVE  Sole'
<1>t. t \in Threads
  BY DEF Threads
<1>1. Others(t) /\ pc'[t] = "stop" /\ pc[t] = "free"
  BY PShutdown DEF Shutdown
<1>2. /\ queue' = queue /\ role' = role /\ task' = task /\ driverActive' = driverActive
      /\ closed' = closed /\ shuttingDown'
  BY DEF Shutdown, poolVars, driveVars
<1>3. Silent(t)
  BY <1>1, <1>2, PoolAssumption DEF Silent, Pending
<1> QED BY <1>t, <1>1, <1>2, <1>3, SilentSole

LEMMA SJoin ==
  ASSUME PInv, Sole, NEW t \in Callers, Join(t)
  PROVE  Sole'
BY SClosed DEF Join

LEMMA SoleStep == PInv /\ Sole /\ [Next]_vars => Sole'
<1> SUFFICES ASSUME PInv, Sole, [Next]_vars PROVE Sole'
  OBVIOUS
<1>1. ASSUME NEW t \in Threads, Drive(t) PROVE Sole'
  <2>1. CASE Entry(t)
    BY <2>1, SEntry
  <2>2. CASE PassEnds(t)
    BY <2>2, SPassEnds
  <2>3. CASE Pass(t)
    BY <2>3, SPass
  <2>4. CASE Empty(t)
    BY <2>4, SEmpty
  <2>5. CASE Serial(t)
    BY <2>5, SSerial
  <2>6. CASE SubmitItem(t)
    BY <2>6, SSubmitItem
  <2>7. CASE ExecuteRefused(t)
    BY <2>7, SExecuteRefused
  <2>8. CASE ExecuteOwn(t)
    BY <2>8, SExecuteOwn
  <2>9. CASE LatchWait(t)
    BY <2>9, SLatchWait
  <2>10. CASE LoopReturns(t)
    BY <2>10, SLoopReturns
  <2>11. CASE RunUntilIdleReturns(t)
    BY <2>11, SRunUntilIdleReturns
  <2>12. CASE RunStepsReturns(t)
    BY <2>12, SRunStepsReturns
  <2> QED BY <1>1, <2>1, <2>2, <2>3, <2>4, <2>5, <2>6, <2>7, <2>8, <2>9, <2>10, <2>11, <2>12 DEF Drive
<1>2. ASSUME NEW w \in Workers, Work(w) PROVE Sole'
  <2>1. CASE Take(w)
    BY <2>1, STake
  <2>2. CASE Exit(w)
    BY <2>2, SExit
  <2>3. CASE RetireTaken(w)
    BY <2>3, SRetireTaken
  <2>4. CASE RunDriver(w)
    BY <2>4, SRunDriver
  <2>5. CASE RunItem(w)
    BY <2>5, SRunItem
  <2> QED BY <1>2, <2>1, <2>2, <2>3, <2>4, <2>5 DEF Work
<1>3. ASSUME NEW t \in Callers, Continue(t) PROVE Sole'
  <2>1. CASE StartAdmit(t)
    BY <2>1, SStartAdmit
  <2>2. CASE StartSubmits(t)
    BY <2>2, SStartSubmits
  <2>3. CASE StartRefused(t)
    BY <2>3, SStartRefused
  <2>4. CASE Recheck(t)
    BY <2>4, SRecheck
  <2>5. CASE StopPool(t)
    BY <2>5, SStopPool
  <2>6. CASE Join(t)
    BY <2>6, SJoin
  <2> QED BY <1>3, <2>1, <2>2, <2>3, <2>4, <2>5, <2>6 DEF Continue
<1>4. ASSUME NEW t \in Callers, Call(t) PROVE Sole'
  <2>1. CASE RunUntilIdle(t)
    BY <2>1, SRunUntilIdle
  <2>2. CASE RunSteps(t)
    BY <2>2, SRunSteps
  <2>3. CASE WaitForIdle(t)
    BY <2>3, SWaitForIdle
  <2>4. CASE Shutdown(t)
    BY <2>4, SShutdown
  <2>5. ASSUME NEW c \in Starts[t], StartRunnable(t, c) PROVE Sole'
    BY <2>5, SStartRunnable
  <2> QED BY <1>4, <2>1, <2>2, <2>3, <2>4, <2>5 DEF Call
<1>5. CASE UNCHANGED vars
  BY <1>5 DEF vars, poolVars, engineVars, driveVars, Sole, Somebody, Nobody, Drivers, Pending, Taken, Coming
<1> QED BY <1>1, <1>2, <1>3, <1>4, <1>5 DEF Next

LEMMA SoleInit == Init => Sole
<1> SUFFICES ASSUME Init PROVE Nobody /\ ~driverActive
  BY DEF Sole
<1> QED BY PoolAssumption, EmptySeq DEF Init, Nobody, Drivers, Pending, Taken, Coming, Threads

LEMMA SoleInvariant == Spec => []Sole
BY InitP, PInvStep, SoleInit, SoleStep, PTL DEF Spec

LEMMA SoleCounts == PInv /\ Settled /\ Sole => OneDriver
<1> SUFFICES ASSUME PInv, Settled, Sole, ~shuttingDown
             PROVE  Cardinality(Drivers) + Cardinality(Pending) + Cardinality(Taken) + Cardinality(Coming)
                      = IF driverActive THEN 1 ELSE 0
  BY DEF OneDriver, Drivers, Pending, Taken, Coming
<1>0. ~closed
  BY DEF PInv, Stopped, Settled
<1>1. Cardinality({}) = 0
  BY FS_EmptySet
<1>2. ASSUME NEW S, Single(S) PROVE Cardinality(S) = 1
  BY <1>2, FS_Singleton DEF Single
<1>3. CASE driverActive
  BY <1>0, <1>1, <1>2, <1>3 DEF Sole, Somebody
<1>4. CASE ~driverActive
  BY <1>0, <1>1, <1>4 DEF Sole, Nobody
<1> QED BY <1>3, <1>4

\* While the engine is not shutting down there is exactly one driver, running,
\* queued, taken or coming, when driver_active_ is set, and none when it is
\* not: no interleaving of start(), run_until_idle() and driver_loop's exit
\* plans twice, and none leaves a flag behind that nobody answers to.
THEOREM OneDriverHolds == Spec => []OneDriver
BY PInvariant, SettledInvariant, SoleInvariant, SoleCounts, PTL
=============================================================================
