---------------------------- MODULE WakeupProofs ----------------------------
(***************************************************************************)
(* The engine's threads for every number of workers, callers, campaigns    *)
(* and items: the latch of a batch counts exactly what is outstanding, and *)
(* nobody sleeps through the engine's idleness. Two more invariants, on    *)
(* top of those of DriverPoolProofs: LInv (L...) and Touched (T...); then  *)
(* the steps that may make the engine idle (W...).                         *)
(***************************************************************************)
EXTENDS DriverPoolProofs

-----------------------------------------------------------------------------
(***************************************************************************)
(* The latch. A worker that has taken something has taken a task; no item  *)
(* is in the pool twice, in the queue, in a worker's hands or in one of    *)
(* each; and what a driver still has to hand out is not in the pool        *)
(* already. So each step that puts an item into the pool or takes one out  *)
(* moves the number of outstanding items by one.                           *)
(***************************************************************************)
Held == \A w \in Workers : pc[w] = "taken" => task[w] \in Tasks

Distinct ==
  /\ \A j, k \in DOMAIN queue : j # k /\ queue[j] = queue[k] => queue[j] = DriverTask
  /\ \A v, w \in Workers :
       v # w /\ pc[v] = "taken" /\ pc[w] = "taken" /\ task[v] = task[w] => task[v] = DriverTask
  /\ \A j \in DOMAIN queue, w \in Workers :
       pc[w] = "taken" /\ task[w] = queue[j] => queue[j] = DriverTask

\* What concerns the latch of one thread.
FreshAt(t) == pc[t] = "submit" => \A i \in batch[t] : ItemTask(i, t) \notin Outstanding(t)

SoundAt(t) ==
  LET open == Cardinality(batch[t]) + Cardinality(Outstanding(t))
  IN /\ Outstanding(t) # {} => pc[t] \in {"submit", "latch"}
     /\ pc[t] \in {"submit", "latch"} =>
          IF stopping THEN latch[t] >= open ELSE latch[t] = open

LatchAt(t) == IsFiniteSet(Outstanding(t)) /\ FreshAt(t) /\ SoundAt(t)

LInv == Held /\ Distinct /\ \A t \in Threads : LatchAt(t)

\* Membership in the pool, place by place.
LEMMA OutstandingIs ==
  ASSUME NEW t, NEW k
  PROVE  k \in Outstanding(t) <=>
           /\ k # DriverTask /\ k.latch = t
           /\ \/ \E j \in DOMAIN queue : queue[j] = k
              \/ \E w \in Workers : pc[w] = "taken" /\ task[w] = k
BY DEF Outstanding, QueuedTasks, HeldTasks

\* A thread outside its batch has nothing in the pool.
LEMMA OutsideLatch ==
  ASSUME NEW t, LatchAt(t), pc[t] \notin {"submit", "latch"}
  PROVE  Outstanding(t) = {}
BY DEF LatchAt, SoundAt

LEMMA EmptyLatch ==
  ASSUME NEW t, Outstanding(t)' = {}, pc'[t] \notin {"submit", "latch"}
  PROVE  LatchAt(t)'
BY FS_EmptySet DEF LatchAt, FreshAt, SoundAt

\* A step of another thread that changes nothing in t's part of the pool.
LEMMA SameLatch ==
  ASSUME NEW t, LatchAt(t), Outstanding(t)' = Outstanding(t),
         batch'[t] = batch[t], latch'[t] = latch[t], stopping' = stopping,
         \/ pc'[t] = pc[t]
         \/ pc[t] = "sleep" /\ pc'[t] = "recheck"
  PROVE  LatchAt(t)'
<1>1. CASE pc'[t] = pc[t]
  BY <1>1 DEF LatchAt, FreshAt, SoundAt
<1>2. CASE pc[t] = "sleep" /\ pc'[t] = "recheck"
  BY <1>2, OutsideLatch, EmptyLatch
<1> QED BY <1>1, <1>2

\* A step that neither puts a task into the pool nor takes one out.
Still ==
  /\ queue' = queue
  /\ \A w \in Workers : /\ pc'[w] = "taken" <=> pc[w] = "taken"
                        /\ pc[w] = "taken" => task'[w] = task[w]

LEMMA StillPool ==
  ASSUME Still
  PROVE  /\ \A t : Outstanding(t)' = Outstanding(t)
         /\ Held => Held'
         /\ Distinct => Distinct'
<1>1. \A t : Outstanding(t)' = Outstanding(t)
  <2>1. QueuedTasks' = QueuedTasks
    BY DEF Still, QueuedTasks
  <2>2. HeldTasks' = HeldTasks
    <3>1. {v \in Workers : pc[v] = "taken"}' = {v \in Workers : pc[v] = "taken"}
      BY DEF Still
    <3> QED BY <3>1 DEF Still, HeldTasks
  <2> QED BY <2>1, <2>2 DEF Outstanding
<1>2. Held => Held'
  BY DEF Still, Held
<1>3. Distinct => Distinct'
  BY DEF Still, Distinct
<1> QED BY <1>1, <1>2, <1>3

LEMMA StillLatch ==
  ASSUME PInv, LInv, Still, NEW t \in Threads, Others(t), stopping' = stopping,
         \A u \in Threads \ {t} : batch'[u] = batch[u] /\ latch'[u] = latch[u],
         LatchAt(t)'
  PROVE  LInv'
<1>1. \A u \in Threads \ {t} : LatchAt(u)'
  BY SameLatch, StillPool DEF LInv, Others
<1> QED BY <1>1, StillPool DEF LInv

\* ... by a thread that is outside its batch before and after.
LEMMA OutsideStill ==
  ASSUME PInv, LInv, Still, NEW t \in Threads, Others(t), stopping' = stopping,
         \A u \in Threads \ {t} : batch'[u] = batch[u] /\ latch'[u] = latch[u],
         pc[t] \notin {"submit", "latch"}, pc'[t] \notin {"submit", "latch"}
  PROVE  LInv'
BY OutsideLatch, EmptyLatch, StillPool, StillLatch DEF LInv

\* Where a task joins and leaves the queue.
LEMMA EnqueueAt ==
  ASSUME TypeOK, NEW k \in Tasks, Enqueue(k)
  PROVE  /\ DOMAIN queue' = DOMAIN queue \cup {Len(queue) + 1} /\ Len(queue) + 1 \notin DOMAIN queue
         /\ queue'[Len(queue) + 1] = k
         /\ \A m \in DOMAIN queue : queue'[m] = queue[m]
<1>1. /\ Len(queue) \in Nat /\ DOMAIN queue = 1..Len(queue)
      /\ DOMAIN queue' = 1..(Len(queue) + 1)
      /\ queue'[Len(queue) + 1] = k
      /\ \A m \in 1..Len(queue) : queue'[m] = queue[m]
  BY AppendProperties, LenProperties DEF Enqueue, TypeOK
<1> QED BY <1>1

LEMMA TakeAt ==
  ASSUME TypeOK, queue # <<>>, queue' = Tail(queue)
  PROVE  /\ 1 \in DOMAIN queue /\ Head(queue) = queue[1] /\ Head(queue) \in Tasks
         /\ \A m : m \in DOMAIN queue' <=> m \in Nat \ {0} /\ m + 1 \in DOMAIN queue
         /\ \A m \in DOMAIN queue' : queue'[m] = queue[m + 1] /\ m + 1 # 1
         /\ \A m \in DOMAIN queue \ {1} : m - 1 \in DOMAIN queue' /\ queue'[m - 1] = queue[m]
<1>1. /\ Len(queue) \in Nat /\ Len(queue) > 0 /\ DOMAIN queue = 1..Len(queue)
      /\ DOMAIN queue' = 1..(Len(queue) - 1)
      /\ Head(queue) = queue[1] /\ Head(queue) \in Tasks
      /\ \A m \in 1..(Len(queue) - 1) : queue'[m] = queue[m + 1]
  BY HeadTailProperties, LenProperties, EmptySeq DEF TypeOK
<1>2. \A m : m \in DOMAIN queue' <=> m \in Nat \ {0} /\ m + 1 \in DOMAIN queue
  BY <1>1
<1>3. \A m \in DOMAIN queue' : queue'[m] = queue[m + 1] /\ m + 1 # 1
  BY <1>1
<1>4. \A m \in DOMAIN queue \ {1} : m - 1 \in DOMAIN queue' /\ queue'[m - 1] = queue[m]
  BY <1>1
<1> QED BY <1>1, <1>2, <1>3, <1>4

\* Those outside a batch.
LEMMA LEntry ==
  ASSUME PInv, LInv, NEW t \in Threads, Entry(t)
  PROVE  LInv'
<1>t. t \in Threads
  BY DEF Threads
<1>1. Others(t) /\ pc'[t] \notin {"submit", "latch", "taken"}
  BY PEntry
<1>2. pc[t] \notin {"submit", "latch", "taken"}
  BY DEF Entry
<1>3. queue' = queue /\ stopping' = stopping
  BY DEF Entry, poolVars
<1>4. \A w \in Workers \ {t} : task'[w] = task[w]
  BY DEF Entry, poolVars, PInv, TypeOK
<1>5. Still
  BY <1>1, <1>2, <1>3, <1>4 DEF Still, Others, Threads
<1>6. \A u \in Threads \ {t} : batch'[u] = batch[u] /\ latch'[u] = latch[u]
  BY DEF Entry, driveVars, PInv, TypeOK
<1> QED BY <1>t, <1>1, <1>2, <1>3, <1>5, <1>6, OutsideStill

LEMMA LPassEnds ==
  ASSUME PInv, LInv, NEW t \in Threads, PassEnds(t)
  PROVE  LInv'
<1>t. t \in Threads
  BY DEF Threads
<1>1. Others(t) /\ pc'[t] \notin {"submit", "latch", "taken"}
  BY PPassEnds
<1>2. pc[t] \notin {"submit", "latch", "taken"}
  BY DEF PassEnds
<1>3. queue' = queue /\ stopping' = stopping
  BY DEF PassEnds, poolVars
<1>4. \A w \in Workers \ {t} : task'[w] = task[w]
  BY DEF PassEnds, poolVars, PInv, TypeOK
<1>5. Still
  BY <1>1, <1>2, <1>3, <1>4 DEF Still, Others, Threads
<1>6. \A u \in Threads \ {t} : batch'[u] = batch[u] /\ latch'[u] = latch[u]
  BY DEF PassEnds, driveVars, PInv, TypeOK
<1> QED BY <1>t, <1>1, <1>2, <1>3, <1>5, <1>6, OutsideStill

LEMMA LEmpty ==
  ASSUME PInv, LInv, NEW t \in Threads, Empty(t)
  PROVE  LInv'
<1>t. t \in Threads
  BY DEF Threads
<1>1. Others(t) /\ pc'[t] \notin {"submit", "latch", "taken"}
  BY PEmpty
<1>2. pc[t] \notin {"submit", "latch", "taken"}
  BY DEF Empty
<1>3. queue' = queue /\ stopping' = stopping
  BY DEF Empty, poolVars
<1>4. \A w \in Workers \ {t} : task'[w] = task[w]
  BY DEF Empty, poolVars, PInv, TypeOK
<1>5. Still
  BY <1>1, <1>2, <1>3, <1>4 DEF Still, Others, Threads
<1>6. \A u \in Threads \ {t} : batch'[u] = batch[u] /\ latch'[u] = latch[u]
  BY DEF Empty, driveVars, PInv, TypeOK
<1> QED BY <1>t, <1>1, <1>2, <1>3, <1>5, <1>6, OutsideStill

LEMMA LSerial ==
  ASSUME PInv, LInv, NEW t \in Threads, Serial(t)
  PROVE  LInv'
<1>t. t \in Threads
  BY DEF Threads
<1>1. Others(t) /\ pc'[t] \notin {"submit", "latch", "taken"}
  BY PSerial
<1>2. pc[t] \notin {"submit", "latch", "taken"}
  BY DEF Serial
<1>3. queue' = queue /\ stopping' = stopping
  BY DEF Serial, poolVars
<1>4. \A w \in Workers \ {t} : task'[w] = task[w]
  BY DEF Serial, poolVars, PInv, TypeOK
<1>5. Still
  BY <1>1, <1>2, <1>3, <1>4 DEF Still, Others, Threads
<1>6. \A u \in Threads \ {t} : batch'[u] = batch[u] /\ latch'[u] = latch[u]
  BY DEF Serial, driveVars, PInv, TypeOK
<1> QED BY <1>t, <1>1, <1>2, <1>3, <1>5, <1>6, OutsideStill

LEMMA LLoopReturns ==
  ASSUME PInv, LInv, NEW t \in Threads, LoopReturns(t)
  PROVE  LInv'
<1>t. t \in Threads
  BY DEF Threads
<1>1. Others(t) /\ pc'[t] \notin {"submit", "latch", "taken"}
  BY PLoopReturns
<1>2. pc[t] \notin {"submit", "latch", "taken"}
  BY DEF LoopReturns
<1>3. queue' = queue /\ stopping' = stopping
  BY DEF LoopReturns, poolVars
<1>4. \A w \in Workers \ {t} : task'[w] = task[w]
  BY DEF LoopReturns, poolVars, PInv, TypeOK
<1>5. Still
  BY <1>1, <1>2, <1>3, <1>4 DEF Still, Others, Threads
<1>6. \A u \in Threads \ {t} : batch'[u] = batch[u] /\ latch'[u] = latch[u]
  BY DEF LoopReturns, driveVars, PInv, TypeOK
<1> QED BY <1>t, <1>1, <1>2, <1>3, <1>5, <1>6, OutsideStill

LEMMA LRunUntilIdleReturns ==
  ASSUME PInv, LInv, NEW t \in Threads, RunUntilIdleReturns(t)
  PROVE  LInv'
<1>t. t \in Threads
  BY DEF Threads
<1>1. Others(t) /\ pc'[t] \notin {"submit", "latch", "taken"}
  BY PRunUntilIdleReturns
<1>2. pc[t] \notin {"submit", "latch", "taken"}
  BY DEF RunUntilIdleReturns
<1>3. queue' = queue /\ stopping' = stopping
  BY DEF RunUntilIdleReturns, poolVars
<1>4. \A w \in Workers \ {t} : task'[w] = task[w]
  BY DEF RunUntilIdleReturns, poolVars, PInv, TypeOK
<1>5. Still
  BY <1>1, <1>2, <1>3, <1>4 DEF Still, Others, Threads
<1>6. \A u \in Threads \ {t} : batch'[u] = batch[u] /\ latch'[u] = latch[u]
  BY DEF RunUntilIdleReturns, driveVars, PInv, TypeOK
<1> QED BY <1>t, <1>1, <1>2, <1>3, <1>5, <1>6, OutsideStill

LEMMA LRunStepsReturns ==
  ASSUME PInv, LInv, NEW t \in Threads, RunStepsReturns(t)
  PROVE  LInv'
<1>t. t \in Threads
  BY DEF Threads
<1>1. Others(t) /\ pc'[t] \notin {"submit", "latch", "taken"}
  BY PRunStepsReturns
<1>2. pc[t] \notin {"submit", "latch", "taken"}
  BY DEF RunStepsReturns
<1>3. queue' = queue /\ stopping' = stopping
  BY DEF RunStepsReturns, poolVars
<1>4. \A w \in Workers \ {t} : task'[w] = task[w]
  BY DEF RunStepsReturns, poolVars, PInv, TypeOK
<1>5. Still
  BY <1>1, <1>2, <1>3, <1>4 DEF Still, Others, Threads
<1>6. \A u \in Threads \ {t} : batch'[u] = batch[u] /\ latch'[u] = latch[u]
  BY DEF RunStepsReturns, driveVars, PInv, TypeOK
<1> QED BY <1>t, <1>1, <1>2, <1>3, <1>5, <1>6, OutsideStill

LEMMA LExit ==
  ASSUME PInv, LInv, NEW t \in Workers, Exit(t)
  PROVE  LInv'
<1>t. t \in Threads
  BY DEF Threads
<1>1. Others(t) /\ pc'[t] \notin {"submit", "latch", "taken"}
  BY PExit
<1>2. pc[t] \notin {"submit", "latch", "taken"}
  BY DEF Exit
<1>3. queue' = queue /\ stopping' = stopping
  BY DEF Exit, poolVars
<1>4. \A w \in Workers \ {t} : task'[w] = task[w]
  BY DEF Exit, poolVars, PInv, TypeOK
<1>5. Still
  BY <1>1, <1>2, <1>3, <1>4 DEF Still, Others, Threads
<1>6. \A u \in Threads \ {t} : batch'[u] = batch[u] /\ latch'[u] = latch[u]
  BY DEF Exit, driveVars, PInv, TypeOK
<1> QED BY <1>t, <1>1, <1>2, <1>3, <1>5, <1>6, OutsideStill

LEMMA LStartRunnable ==
  ASSUME PInv, LInv, NEW t \in Callers, NEW c \in Starts[t], StartRunnable(t, c)
  PROVE  LInv'
<1>t. t \in Threads
  BY DEF Threads
<1>1. Others(t) /\ pc'[t] \notin {"submit", "latch", "taken"}
  BY PStartRunnable
<1>2. pc[t] \notin {"submit", "latch", "taken"}
  BY DEF StartRunnable
<1>3. queue' = queue /\ stopping' = stopping
  BY DEF StartRunnable, poolVars
<1>4. \A w \in Workers \ {t} : task'[w] = task[w]
  BY DEF StartRunnable, poolVars, PInv, TypeOK
<1>5. Still
  BY <1>1, <1>2, <1>3, <1>4 DEF Still, Others, Threads
<1>6. \A u \in Threads \ {t} : batch'[u] = batch[u] /\ latch'[u] = latch[u]
  BY DEF StartRunnable, driveVars, PInv, TypeOK
<1> QED BY <1>t, <1>1, <1>2, <1>3, <1>5, <1>6, OutsideStill

LEMMA LStartAdmit ==
  ASSUME PInv, LInv, NEW t \in Callers, StartAdmit(t)
  PROVE  LInv'
<1>t. t \in Threads
  BY DEF Threads
<1>1. Others(t) /\ pc'[t] \notin {"submit", "latch", "taken"}
  BY PStartAdmit
<1>2. pc[t] \notin {"submit", "latch", "taken"}
  BY DEF StartAdmit
<1>3. queue' = queue /\ stopping' = stopping
  BY DEF StartAdmit, poolVars
<1>4. \A w \in Workers \ {t} : task'[w] = task[w]
  BY DEF StartAdmit, poolVars, PInv, TypeOK
<1>5. Still
  BY <1>1, <1>2, <1>3, <1>4 DEF Still, Others, Threads
<1>6. \A u \in Threads \ {t} : batch'[u] = batch[u] /\ latch'[u] = latch[u]
  BY DEF StartAdmit, driveVars, PInv, TypeOK
<1> QED BY <1>t, <1>1, <1>2, <1>3, <1>5, <1>6, OutsideStill

LEMMA LStartRefused ==
  ASSUME PInv, LInv, NEW t \in Callers, StartRefused(t)
  PROVE  LInv'
<1>t. t \in Threads
  BY DEF Threads
<1>1. Others(t) /\ pc'[t] \notin {"submit", "latch", "taken"}
  BY PStartRefused
<1>2. pc[t] \notin {"submit", "latch", "taken"}
  BY DEF StartRefused
<1>3. queue' = queue /\ stopping' = stopping
  BY DEF StartRefused, poolVars, Refuse
<1>4. \A w \in Workers \ {t} : task'[w] = task[w]
  BY DEF StartRefused, poolVars, PInv, TypeOK
<1>5. Still
  BY <1>1, <1>2, <1>3, <1>4 DEF Still, Others, Threads
<1>6. \A u \in Threads \ {t} : batch'[u] = batch[u] /\ latch'[u] = latch[u]
  BY DEF StartRefused, driveVars, PInv, TypeOK
<1> QED BY <1>t, <1>1, <1>2, <1>3, <1>5, <1>6, OutsideStill

LEMMA LRecheck ==
  ASSUME PInv, LInv, NEW t \in Callers, Recheck(t)
  PROVE  LInv'
<1>t. t \in Threads
  BY DEF Threads
<1>1. Others(t) /\ pc'[t] \notin {"submit", "latch", "taken"}
  BY PRecheck
<1>2. pc[t] \notin {"submit", "latch", "taken"}
  BY DEF Recheck
<1>3. queue' = queue /\ stopping' = stopping
  BY DEF Recheck, poolVars
<1>4. \A w \in Workers \ {t} : task'[w] = task[w]
  BY DEF Recheck, poolVars, PInv, TypeOK
<1>5. Still
  BY <1>1, <1>2, <1>3, <1>4 DEF Still, Others, Threads
<1>6. \A u \in Threads \ {t} : batch'[u] = batch[u] /\ latch'[u] = latch[u]
  BY DEF Recheck, driveVars, PInv, TypeOK
<1> QED BY <1>t, <1>1, <1>2, <1>3, <1>5, <1>6, OutsideStill

LEMMA LJoin ==
  ASSUME PInv, LInv, NEW t \in Callers, Join(t)
  PROVE  LInv'
<1>t. t \in Threads
  BY DEF Threads
<1>1. Others(t) /\ pc'[t] \notin {"submit", "latch", "taken"}
  BY PJoin
<1>2. pc[t] \notin {"submit", "latch", "taken"}
  BY DEF Join
<1>3. queue' = queue /\ stopping' = stopping
  BY DEF Join, poolVars
<1>4. \A w \in Workers \ {t} : task'[w] = task[w]
  BY DEF Join, poolVars, PInv, TypeOK
<1>5. Still
  BY <1>1, <1>2, <1>3, <1>4 DEF Still, Others, Threads
<1>6. \A u \in Threads \ {t} : batch'[u] = batch[u] /\ latch'[u] = latch[u]
  BY DEF Join, driveVars, PInv, TypeOK
<1> QED BY <1>t, <1>1, <1>2, <1>3, <1>5, <1>6, OutsideStill

LEMMA LRunUntilIdle ==
  ASSUME PInv, LInv, NEW t \in Callers, RunUntilIdle(t)
  PROVE  LInv'
<1>t. t \in Threads
  BY DEF Threads
<1>1. Others(t) /\ pc'[t] \notin {"submit", "latch", "taken"}
  BY PRunUntilIdle
<1>2. pc[t] \notin {"submit", "latch", "taken"}
  BY DEF RunUntilIdle
<1>3. queue' = queue /\ stopping' = stopping
  BY DEF RunUntilIdle, poolVars
<1>4. \A w \in Workers \ {t} : task'[w] = task[w]
  BY DEF RunUntilIdle, poolVars, PInv, TypeOK
<1>5. Still
  BY <1>1, <1>2, <1>3, <1>4 DEF Still, Others, Threads
<1>6. \A u \in Threads \ {t} : batch'[u] = batch[u] /\ latch'[u] = latch[u]
  BY DEF RunUntilIdle, driveVars, PInv, TypeOK
<1> QED BY <1>t, <1>1, <1>2, <1>3, <1>5, <1>6, OutsideStill

LEMMA LRunSteps ==
  ASSUME PInv, LInv, NEW t \in Callers, RunSteps(t)
  PROVE  LInv'
<1>t. t \in Threads
  BY DEF Threads
<1>1. Others(t) /\ pc'[t] \notin {"submit", "latch", "taken"}
  BY PRunSteps
<1>2. pc[t] \notin {"submit", "latch", "taken"}
  BY DEF RunSteps
<1>3. queue' = queue /\ stopping' = stopping
  BY DEF RunSteps, poolVars
<1>4. \A w \in Workers \ {t} : task'[w] = task[w]
  BY DEF RunSteps, poolVars, PInv, TypeOK
<1>5. Still
  BY <1>1, <1>2, <1>3, <1>4 DEF Still, Others, Threads
<1>6. \A u \in Threads \ {t} : batch'[u] = batch[u] /\ latch'[u] = latch[u]
  BY DEF RunSteps, driveVars, PInv, TypeOK
<1> QED BY <1>t, <1>1, <1>2, <1>3, <1>5, <1>6, OutsideStill

LEMMA LWaitForIdle ==
  ASSUME PInv, LInv, NEW t \in Callers, WaitForIdle(t)
  PROVE  LInv'
<1>t. t \in Threads
  BY DEF Threads
<1>1. Others(t) /\ pc'[t] \notin {"submit", "latch", "taken"}
  BY PWaitForIdle
<1>2. pc[t] \notin {"submit", "latch", "taken"}
  BY DEF WaitForIdle
<1>3. queue' = queue /\ stopping' = stopping
  BY DEF WaitForIdle, poolVars
<1>4. \A w \in Workers \ {t} : task'[w] = task[w]
  BY DEF WaitForIdle, poolVars, PInv, TypeOK
<1>5. Still
  BY <1>1, <1>2, <1>3, <1>4 DEF Still, Others, Threads
<1>6. \A u \in Threads \ {t} : batch'[u] = batch[u] /\ latch'[u] = latch[u]
  BY DEF WaitForIdle, driveVars, PInv, TypeOK
<1> QED BY <1>t, <1>1, <1>2, <1>3, <1>5, <1>6, OutsideStill

LEMMA LShutdown ==
  ASSUME PInv, LInv, NEW t \in Callers, Shutdown(t)
  PROVE  LInv'
<1>t. t \in Threads
  BY DEF Threads
<1>1. Others(t) /\ pc'[t] \notin {"submit", "latch", "taken"}
  BY PShutdown
<1>2. pc[t] \notin {"submit", "latch", "taken"}
  BY DEF Shutdown
<1>3. queue' = queue /\ stopping' = stopping
  BY DEF Shutdown, poolVars
<1>4. \A w \in Workers \ {t} : task'[w] = task[w]
  BY DEF Shutdown, poolVars, PInv, TypeOK
<1>5. Still
  BY <1>1, <1>2, <1>3, <1>4 DEF Still, Others, Threads
<1>6. \A u \in Threads \ {t} : batch'[u] = batch[u] /\ latch'[u] = latch[u]
  BY DEF Shutdown, driveVars, PInv, TypeOK
<1> QED BY <1>t, <1>1, <1>2, <1>3, <1>5, <1>6, OutsideStill

\* A batch is planned while nothing of the last one is left.
LEMMA LPass ==
  ASSUME PInv, LInv, NEW t \in Threads, Pass(t)
  PROVE  LInv'
<1>1. Others(t) /\ pc'[t] \in {"empty", "submit", "serial"}
  BY PPass
<1>2. pc[t] = "pass" /\ queue' = queue /\ task' = task /\ stopping' = stopping
  BY DEF Pass, poolVars
<1>3. Still
  BY <1>1, <1>2 DEF Still, Others, Threads
<1>4. \A u \in Threads \ {t} : batch'[u] = batch[u] /\ latch'[u] = latch[u]
  BY DEF Pass, PInv, TypeOK
<1>5. Outstanding(t) = {} /\ Outstanding(t)' = {}
  BY <1>2, <1>3, OutsideLatch, StillPool DEF LInv
<1>6. CASE pc'[t] = "submit"
  <2>1. PICK S \in SUBSET Todo :
          /\ batch' = [batch EXCEPT ![t] = S]
          /\ IF Cardinality(Workers) > 1 /\ Cardinality(S) > 1
             THEN latch' = [latch EXCEPT ![t] = Cardinality(S)] /\ Goto(t, "submit")
             ELSE UNCHANGED latch /\ Goto(t, "serial")
    BY <1>6, GotoPc DEF Pass, PInv, DrivePcs
  <2>2. Cardinality(Workers) > 1 /\ Cardinality(S) > 1
    BY <1>6, <2>1, GotoPc DEF PInv, DrivePcs
  <2>3. batch'[t] = S /\ latch'[t] = Cardinality(S)
    BY <2>1, <2>2 DEF PInv, TypeOK
  <2>4. Cardinality(S) \in Nat
    BY PoolAssumption, FS_Subset, FS_CardinalityType DEF Todo
  <2>5. Cardinality(Outstanding(t)') = 0 /\ IsFiniteSet(Outstanding(t)')
    BY <1>5, FS_EmptySet
  <2>6. SoundAt(t)'
    BY <1>5, <1>6, <2>3, <2>4, <2>5 DEF SoundAt
  <2>7. FreshAt(t)'
    BY <1>5 DEF FreshAt
  <2>8. LatchAt(t)'
    BY <2>5, <2>6, <2>7 DEF LatchAt
  <2> QED BY <1>1, <1>2, <1>3, <1>4, <2>8, StillLatch
<1>7. CASE pc'[t] # "submit"
  BY <1>1, <1>2, <1>3, <1>4, <1>7, OutsideStill
<1> QED BY <1>6, <1>7

\* The driver leaves its batch when the latch is down, so with nothing in the
\* pool, stopping or not.
LEMMA LLatchWait ==
  ASSUME PInv, LInv, NEW t \in Threads, LatchWait(t)
  PROVE  LInv'
<1>1. Others(t) /\ pc'[t] = "pass"
  BY PLatchWait
<1>2. /\ pc[t] = "latch" /\ latch[t] = 0 /\ queue' = queue /\ task' = task /\ stopping' = stopping
      /\ batch' = batch /\ latch' = latch
  BY DEF LatchWait, poolVars
<1>3. Still
  BY <1>1, <1>2 DEF Still, Others, Threads
<1>4. IsFiniteSet(batch[t]) /\ Cardinality(batch[t]) \in Nat
  BY PoolAssumption, FS_Subset, FS_CardinalityType DEF PInv, TypeOK
<1>5. IsFiniteSet(Outstanding(t)) /\ Cardinality(Outstanding(t)) \in Nat
  BY FS_CardinalityType DEF LInv, LatchAt
<1>6. 0 >= Cardinality(batch[t]) + Cardinality(Outstanding(t))
  BY <1>2, <1>4, <1>5 DEF LInv, LatchAt, SoundAt, PInv, TypeOK
<1>7. Outstanding(t) = {}
  BY <1>4, <1>5, <1>6, FS_EmptySet
<1>8. LatchAt(t)'
  BY <1>1, <1>3, <1>7, StillPool, EmptyLatch
<1> QED BY <1>1, <1>2, <1>3, <1>8, StillLatch

\* The driver executes an item of its batch itself.
LEMMA OwnItem ==
  ASSUME PInv, LInv, Still, NEW t \in Threads, Others(t), stopping' = stopping,
         \A u \in Threads \ {t} : batch'[u] = batch[u],
         NEW i \in batch[t], batch'[t] = batch[t] \ {i}, LatchDone(t),
         pc[t] = "submit", pc'[t] \in {"submit", "latch"}
  PROVE  LInv'
<1>1. IsFiniteSet(batch[t]) /\ Cardinality(batch[t]) \in Nat
  BY PoolAssumption, FS_Subset, FS_CardinalityType DEF PInv, TypeOK
<1>2. Cardinality(batch'[t]) = Cardinality(batch[t]) - 1 /\ Cardinality(batch'[t]) \in Nat
  <2>1. IsFiniteSet(batch[t] \ {i}) /\ Cardinality(batch[t] \ {i}) = Cardinality(batch[t]) - 1
    BY <1>1, FS_RemoveElement
  <2> QED BY <2>1, FS_CardinalityType
<1>3. IsFiniteSet(Outstanding(t)) /\ Cardinality(Outstanding(t)) \in Nat
  BY FS_CardinalityType DEF LInv, LatchAt
<1>4. Outstanding(t)' = Outstanding(t)
  BY StillPool
<1>5. /\ latch'[t] = IF latch[t] > 0 THEN latch[t] - 1 ELSE 0
      /\ latch[t] \in Nat
      /\ \A u \in Threads \ {t} : latch'[u] = latch[u]
  BY LatchType DEF PInv, TypeOK
<1>6. SoundAt(t)'
  <2> DEFINE open == Cardinality(batch[t]) + Cardinality(Outstanding(t))
             left == Cardinality(batch'[t]) + Cardinality(Outstanding(t))
  <2>1. open \in Nat /\ left \in Nat /\ left = open - 1
    BY <1>1, <1>2, <1>3
  <2>2. IF stopping THEN latch[t] >= open ELSE latch[t] = open
    BY DEF LInv, LatchAt, SoundAt
  <2> HIDE DEF open, left
  <2>3. CASE stopping
    <3>1. latch'[t] >= left
      BY <1>5, <2>1, <2>2, <2>3
    <3> QED BY <1>4, <2>3, <3>1 DEF SoundAt, left
  <2>4. CASE ~stopping
    <3>1. latch'[t] = left
      BY <1>5, <2>1, <2>2, <2>4
    <3> QED BY <1>4, <2>4, <3>1 DEF SoundAt, left
  <2> QED BY <2>3, <2>4
<1>7. FreshAt(t)'
  BY <1>4 DEF FreshAt, LInv, LatchAt
<1> QED BY <1>3, <1>4, <1>5, <1>6, <1>7, StillLatch DEF LatchAt

LEMMA LExecuteRefused ==
  ASSUME PInv, LInv, NEW t \in Threads, ExecuteRefused(t)
  PROVE  LInv'
<1>1. Others(t) /\ pc'[t] = "submit" /\ pc[t] = "submit"
  BY PExecuteRefused DEF ExecuteRefused
<1>2. queue' = queue /\ task' = task /\ stopping' = stopping /\ LatchDone(t)
  BY DEF ExecuteRefused, Refuse
<1>3. PICK i \in batch[t] : batch' = [batch EXCEPT ![t] = @ \ {i}]
  BY DEF ExecuteRefused
<1>4. batch'[t] = batch[t] \ {i} /\ \A u \in Threads \ {t} : batch'[u] = batch[u]
  BY <1>3 DEF PInv, TypeOK
<1>5. Still
  BY <1>1, <1>2 DEF Still, Others, Threads
<1> QED BY <1>1, <1>2, <1>4, <1>5, OwnItem

LEMMA LExecuteOwn ==
  ASSUME PInv, LInv, NEW t \in Threads, ExecuteOwn(t)
  PROVE  LInv'
<1>1. Others(t) /\ pc'[t] = "latch" /\ pc[t] = "submit"
  BY PExecuteOwn DEF ExecuteOwn
<1>2. queue' = queue /\ task' = task /\ stopping' = stopping /\ LatchDone(t)
  BY DEF ExecuteOwn, poolVars
<1>3. PICK i : batch[t] = {i}
  <2>1. IsFiniteSet(batch[t]) /\ Cardinality(batch[t]) = 1
    BY PoolAssumption, FS_Subset DEF ExecuteOwn, PInv, TypeOK
  <2> QED BY <2>1, FS_Singleton
<1>4. i \in batch[t] /\ batch'[t] = batch[t] \ {i} /\ \A u \in Threads \ {t} : batch'[u] = batch[u]
  BY <1>3 DEF ExecuteOwn, PInv, TypeOK
<1>5. Still
  BY <1>1, <1>2 DEF Still, Others, Threads
<1> QED BY <1>1, <1>2, <1>4, <1>5, OwnItem

\* Only the driver joins the queue, or a driver is entered: no item moves.
LEMMA LStartSubmits ==
  ASSUME PInv, LInv, NEW t \in Callers, StartSubmits(t)
  PROVE  LInv'
<1>t. t \in Threads
  BY DEF Threads
<1>1. Others(t) /\ pc'[t] = "free" /\ pc[t] = "submitDriver"
  BY PStartSubmits DEF StartSubmits
<1>2. /\ Enqueue(DriverTask) /\ task' = task /\ stopping' = stopping
      /\ batch' = batch /\ latch' = latch
  BY DEF StartSubmits, driveVars
<1>3. /\ DOMAIN queue' = DOMAIN queue \cup {Len(queue) + 1} /\ Len(queue) + 1 \notin DOMAIN queue
      /\ queue'[Len(queue) + 1] = DriverTask
      /\ \A m \in DOMAIN queue : queue'[m] = queue[m]
  BY <1>2, EnqueueAt DEF PInv, Tasks
<1>4. \A w \in Workers : (pc'[w] = "taken" <=> pc[w] = "taken") /\ task'[w] = task[w]
  BY <1>1, <1>2 DEF Others, Threads
<1>5. \A u : Outstanding(u)' = Outstanding(u)
  <2>1. ASSUME NEW u, NEW k PROVE k \in Outstanding(u)' <=> k \in Outstanding(u)
    <3>1. k \in Outstanding(u)' <=>
           /\ k # DriverTask /\ k.latch = u
           /\ \/ \E j \in DOMAIN queue' : queue'[j] = k
              \/ \E w \in Workers : pc'[w] = "taken" /\ task'[w] = k
      BY OutstandingIs DEF DriverTask, Outstanding, QueuedTasks, HeldTasks
    <3> QED BY <1>3, <1>4, <3>1, OutstandingIs
  <2> QED BY <2>1
<1>6. Held'
  BY <1>4 DEF LInv, Held
<1>7. Distinct'
  BY <1>3, <1>4 DEF LInv, Distinct
<1>8. LatchAt(t)'
  BY <1>t, <1>1, <1>5, OutsideLatch, EmptyLatch DEF LInv
<1>9. \A u \in Threads \ {t} : LatchAt(u)'
  BY <1>1, <1>2, <1>5, SameLatch DEF LInv, Others
<1> QED BY <1>6, <1>7, <1>8, <1>9 DEF LInv

LEMMA LRunDriver ==
  ASSUME PInv, LInv, NEW t \in Workers, RunDriver(t)
  PROVE  LInv'
<1>t. t \in Threads
  BY DEF Threads
<1>1. Others(t) /\ pc'[t] = "entry" /\ pc[t] = "taken" /\ task[t] = DriverTask
  BY PRunDriver DEF RunDriver
<1>2. /\ queue' = queue /\ task' = task /\ stopping' = stopping
      /\ batch' = batch /\ latch' = latch
  BY DEF RunDriver, poolVars
<1>4. \A w \in Workers \ {t} : (pc'[w] = "taken" <=> pc[w] = "taken") /\ task'[w] = task[w]
  BY <1>1, <1>2 DEF Others, Threads
<1>5. \A u : Outstanding(u)' = Outstanding(u)
  <2>1. ASSUME NEW u, NEW k PROVE k \in Outstanding(u)' <=> k \in Outstanding(u)
    <3>1. k \in Outstanding(u)' <=>
           /\ k # DriverTask /\ k.latch = u
           /\ \/ \E j \in DOMAIN queue' : queue'[j] = k
              \/ \E w \in Workers : pc'[w] = "taken" /\ task'[w] = k
      BY DEF Outstanding, QueuedTasks, HeldTasks
    <3> QED BY <1>1, <1>2, <1>4, <3>1, OutstandingIs
  <2> QED BY <2>1
<1>6. Held'
  BY <1>1, <1>4 DEF LInv, Held
<1>7. Distinct'
  BY <1>1, <1>2, <1>4 DEF LInv, Distinct
<1>8. LatchAt(t)'
  BY <1>t, <1>1, <1>5, OutsideLatch, EmptyLatch DEF LInv
<1>9. \A u \in Threads \ {t} : LatchAt(u)'
  BY <1>1, <1>2, <1>5, SameLatch DEF LInv, Others
<1> QED BY <1>6, <1>7, <1>8, <1>9 DEF LInv

\* An item goes from the batch to the pool: one less to hand out, one more
\* outstanding.
LEMMA LSubmitItem ==
  ASSUME PInv, LInv, NEW t \in Threads, SubmitItem(t)
  PROVE  LInv'
<1>1. Others(t) /\ pc'[t] = "submit" /\ pc[t] = "submit"
  BY PSubmitItem DEF SubmitItem
<1>2. task' = task /\ stopping' = stopping /\ ~stopping /\ latch' = latch
  BY DEF SubmitItem, Enqueue, Accepts
<1>3. PICK i \in batch[t] : Enqueue(ItemTask(i, t)) /\ batch' = [batch EXCEPT ![t] = @ \ {i}]
  BY DEF SubmitItem
<1>4. batch'[t] = batch[t] \ {i} /\ \A u \in Threads \ {t} : batch'[u] = batch[u]
  BY <1>3 DEF PInv, TypeOK
<1>5. /\ ItemTask(i, t) \in Tasks /\ ItemTask(i, t) # DriverTask /\ ItemTask(i, t).latch = t
      /\ ItemTask(i, t) \notin Outstanding(t)
  <2>1. i \in Items
    BY DEF PInv, TypeOK
  <2>2. FreshAt(t)
    BY DEF LInv, LatchAt
  <2> QED BY <1>1, <2>1, <2>2, ItemIsTask DEF FreshAt
<1> DEFINE k == ItemTask(i, t)
<1> HIDE DEF k
<1>6. /\ DOMAIN queue' = DOMAIN queue \cup {Len(queue) + 1} /\ Len(queue) + 1 \notin DOMAIN queue
      /\ queue'[Len(queue) + 1] = k
      /\ \A m \in DOMAIN queue : queue'[m] = queue[m]
  BY <1>3, <1>5, EnqueueAt DEF PInv, k
<1>7. \A w \in Workers : (pc'[w] = "taken" <=> pc[w] = "taken") /\ task'[w] = task[w]
  BY <1>1, <1>2 DEF Others, Threads
<1>8. k \in Tasks /\ k # DriverTask /\ k.latch = t /\ k \notin Outstanding(t)
  BY <1>5 DEF k
<1>9. ASSUME NEW u PROVE Outstanding(u)' = IF u = t THEN Outstanding(u) \cup {k} ELSE Outstanding(u)
  <2>1. ASSUME NEW m PROVE m \in Outstanding(u)' <=> m \in Outstanding(u) \/ (u = t /\ m = k)
    <3>1. m \in Outstanding(u)' <=>
           /\ m # DriverTask /\ m.latch = u
           /\ \/ \E j \in DOMAIN queue' : queue'[j] = m
              \/ \E w \in Workers : pc'[w] = "taken" /\ task'[w] = m
      BY DEF Outstanding, QueuedTasks, HeldTasks
    <3>2. m \in Outstanding(u)' <=>
           /\ m # DriverTask /\ m.latch = u
           /\ \/ m = k
              \/ \E j \in DOMAIN queue : queue[j] = m
              \/ \E w \in Workers : pc[w] = "taken" /\ task[w] = m
      BY <1>6, <1>7, <3>1
    <3> QED BY <1>8, <3>2, OutstandingIs
  <2> QED BY <2>1
<1>10. Held'
  BY <1>7 DEF LInv, Held
<1>11. Distinct'
  <2>1. \A j \in DOMAIN queue : queue[j] # k
    BY <1>8, OutstandingIs
  <2>2. \A w \in Workers : pc[w] = "taken" => task[w] # k
    BY <1>8, OutstandingIs
  <2> QED BY <1>6, <1>7, <2>1, <2>2 DEF LInv, Distinct
<1>12. LatchAt(t)'
  <2>1. IsFiniteSet(Outstanding(t)) /\ Cardinality(Outstanding(t)) \in Nat
    BY FS_CardinalityType DEF LInv, LatchAt
  <2>2. Outstanding(t)' = Outstanding(t) \cup {k}
    BY <1>9
  <2>3. IsFiniteSet(Outstanding(t)') /\ Cardinality(Outstanding(t)') = Cardinality(Outstanding(t)) + 1
    BY <1>8, <2>1, <2>2, FS_AddElement
  <2>4. IsFiniteSet(batch[t]) /\ Cardinality(batch[t]) \in Nat
    BY PoolAssumption, FS_Subset, FS_CardinalityType DEF PInv, TypeOK
  <2>5. Cardinality(batch'[t]) = Cardinality(batch[t]) - 1
    BY <1>4, <2>4, FS_RemoveElement
  <2>6. latch[t] = Cardinality(batch[t]) + Cardinality(Outstanding(t))
    BY <1>1, <1>2 DEF LInv, LatchAt, SoundAt
  <2>7. latch'[t] = Cardinality(batch'[t]) + Cardinality(Outstanding(t)')
    BY <1>2, <2>1, <2>3, <2>4, <2>5, <2>6
  <2>8. SoundAt(t)'
    BY <1>1, <1>2, <2>7 DEF SoundAt
  <2>9. FreshAt(t)'
    <3>1. ASSUME NEW h \in batch'[t] PROVE ItemTask(h, t) \notin Outstanding(t)'
      <4>1. h \in batch[t] /\ h # i /\ h \in Items /\ i \in Items
        BY <1>4 DEF PInv, TypeOK
      <4>2. ItemTask(h, t) # k
        <5>1. ItemTask(h, t).item = h /\ ItemTask(i, t).item = i
          BY <4>1, ItemIsTask
        <5> QED BY <4>1, <5>1 DEF k
      <4>3. ItemTask(h, t) \notin Outstanding(t)
        BY <1>1, <4>1 DEF LInv, LatchAt, FreshAt
      <4> QED BY <2>2, <4>2, <4>3
    <3> QED BY <3>1 DEF FreshAt
  <2> QED BY <2>3, <2>8, <2>9 DEF LatchAt
<1>13. \A u \in Threads \ {t} : LatchAt(u)'
  BY <1>1, <1>2, <1>4, <1>9, SameLatch DEF LInv, Others
<1> QED BY <1>10, <1>11, <1>12, <1>13 DEF LInv

\* A task goes from the queue into a worker's hands.
LEMMA LTake ==
  ASSUME PInv, LInv, NEW t \in Workers, Take(t)
  PROVE  LInv'
<1>t. t \in Threads
  BY DEF Threads
<1>1. Others(t) /\ pc'[t] = "taken" /\ pc[t] = "wait"
  BY PTake DEF Take
<1>2. /\ queue # <<>> /\ queue' = Tail(queue) /\ stopping' = stopping
      /\ batch' = batch /\ latch' = latch
      /\ task'[t] = Head(queue) /\ \A w \in Workers \ {t} : task'[w] = task[w]
  BY DEF Take, driveVars, PInv, TypeOK
<1>3. /\ 1 \in DOMAIN queue /\ Head(queue) = queue[1] /\ Head(queue) \in Tasks
      /\ \A m : m \in DOMAIN queue' <=> m \in Nat \ {0} /\ m + 1 \in DOMAIN queue
      /\ \A m \in DOMAIN queue' : queue'[m] = queue[m + 1] /\ m + 1 # 1
      /\ \A m \in DOMAIN queue \ {1} : m - 1 \in DOMAIN queue' /\ queue'[m - 1] = queue[m]
  BY <1>2, TakeAt DEF PInv
<1>4. \A w \in Workers \ {t} : (pc'[w] = "taken" <=> pc[w] = "taken") /\ task'[w] = task[w]
  BY <1>1, <1>2 DEF Others, Threads
<1>5. \A u : Outstanding(u)' = Outstanding(u)
  <2>1. ASSUME NEW m
        PROVE  (\/ \E j \in DOMAIN queue' : queue'[j] = m
                \/ \E w \in Workers : pc'[w] = "taken" /\ task'[w] = m)
           <=> (\/ \E j \in DOMAIN queue : queue[j] = m
                \/ \E w \in Workers : pc[w] = "taken" /\ task[w] = m)
    <3>1. (\E j \in DOMAIN queue' : queue'[j] = m) <=> \E j \in DOMAIN queue \ {1} : queue[j] = m
      BY <1>3
    <3>2. (\E w \in Workers : pc'[w] = "taken" /\ task'[w] = m)
             <=> m = Head(queue) \/ \E w \in Workers : pc[w] = "taken" /\ task[w] = m
      BY <1>1, <1>2, <1>4
    <3> QED BY <1>3, <3>1, <3>2
  <2>2. ASSUME NEW u, NEW m PROVE m \in Outstanding(u)' <=> m \in Outstanding(u)
    <3>1. m \in Outstanding(u)' <=>
           /\ m # DriverTask /\ m.latch = u
           /\ \/ \E j \in DOMAIN queue' : queue'[j] = m
              \/ \E w \in Workers : pc'[w] = "taken" /\ task'[w] = m
      BY DEF Outstanding, QueuedTasks, HeldTasks
    <3> QED BY <2>1, <3>1, OutstandingIs
  <2> QED BY <2>2
<1>6. Held'
  BY <1>2, <1>3, <1>4 DEF LInv, Held
<1>7. Distinct'
  <2>1. \A j, h \in DOMAIN queue' : j # h /\ queue'[j] = queue'[h] => queue'[j] = DriverTask
    <3>1. SUFFICES ASSUME NEW j \in DOMAIN queue', NEW h \in DOMAIN queue', j # h, queue'[j] = queue'[h]
                   PROVE  queue'[j] = DriverTask
      OBVIOUS
    <3>2. j + 1 \in DOMAIN queue /\ h + 1 \in DOMAIN queue /\ j + 1 # h + 1
      BY <1>3, <3>1
    <3> QED BY <1>3, <3>1, <3>2 DEF LInv, Distinct
  <2>2. ASSUME NEW w \in Workers, pc[w] = "taken", task[w] = Head(queue) PROVE Head(queue) = DriverTask
    BY <1>3, <2>2 DEF LInv, Distinct
  <2>3. \A v, w \in Workers :
          v # w /\ pc'[v] = "taken" /\ pc'[w] = "taken" /\ task'[v] = task'[w] => task'[v] = DriverTask
    BY <1>2, <1>4, <2>2 DEF LInv, Distinct
  <2>4. ASSUME NEW j \in DOMAIN queue', queue'[j] = Head(queue) PROVE queue'[j] = DriverTask
    <3>1. j + 1 \in DOMAIN queue /\ j + 1 # 1 /\ queue'[j] = queue[j + 1]
      BY <1>3
    <3> QED BY <1>3, <2>4, <3>1 DEF LInv, Distinct
  <2>5. \A j \in DOMAIN queue', w \in Workers :
          pc'[w] = "taken" /\ task'[w] = queue'[j] => queue'[j] = DriverTask
    <3>1. ASSUME NEW j \in DOMAIN queue', NEW w \in Workers \ {t}, pc'[w] = "taken", task'[w] = queue'[j]
          PROVE  queue'[j] = DriverTask
      BY <1>3, <1>4, <3>1 DEF LInv, Distinct
    <3> QED BY <1>2, <2>4, <3>1
  <2> QED BY <2>1, <2>3, <2>5 DEF Distinct
<1>8. LatchAt(t)'
  BY <1>t, <1>1, <1>5, OutsideLatch, EmptyLatch DEF LInv
<1>9. \A u \in Threads \ {t} : LatchAt(u)'
  BY <1>1, <1>2, <1>5, SameLatch DEF LInv, Others
<1> QED BY <1>6, <1>7, <1>8, <1>9 DEF LInv

\* A worker gives up what it took: nobody else has that item.
LEMMA Released ==
  ASSUME PInv, LInv, NEW t \in Workers, Others(t), queue' = queue,
         pc[t] = "taken", pc'[t] = "wait",
         \A w \in Workers \ {t} : task'[w] = task[w]
  PROVE  /\ Held' /\ Distinct'
         /\ \A u : Outstanding(u)' \subseteq Outstanding(u)
         /\ task[t] # DriverTask => \A u : Outstanding(u)' = Outstanding(u) \ {task[t]}
<1>t. t \in Threads
  BY DEF Threads
<1>1. /\ \A w \in Workers \ {t} : (pc'[w] = "taken" <=> pc[w] = "taken") /\ task'[w] = task[w]
      /\ pc'[t] # "taken"
  BY DEF Others, Threads
<1>2. Held'
  BY <1>1 DEF LInv, Held
<1>3. Distinct'
  BY <1>1 DEF LInv, Distinct
<1>4. ASSUME NEW u, NEW m
      PROVE  m \in Outstanding(u)' <=>
               /\ m # DriverTask /\ m.latch = u
               /\ \/ \E j \in DOMAIN queue : queue[j] = m
                  \/ \E w \in Workers \ {t} : pc[w] = "taken" /\ task[w] = m
  <2>1. m \in Outstanding(u)' <=>
         /\ m # DriverTask /\ m.latch = u
         /\ \/ \E j \in DOMAIN queue' : queue'[j] = m
            \/ \E w \in Workers : pc'[w] = "taken" /\ task'[w] = m
    BY DEF Outstanding, QueuedTasks, HeldTasks
  <2> QED BY <1>1, <2>1
<1>5. \A u : Outstanding(u)' \subseteq Outstanding(u)
  BY <1>4, OutstandingIs
<1>6. ASSUME task[t] # DriverTask, NEW u PROVE Outstanding(u)' = Outstanding(u) \ {task[t]}
  <2>1. ASSUME NEW m PROVE m \in Outstanding(u)' <=> m \in Outstanding(u) /\ m # task[t]
    <3>1. \A j \in DOMAIN queue : queue[j] # task[t]
      BY <1>6 DEF LInv, Distinct
    <3>2. \A w \in Workers \ {t} : pc[w] = "taken" => task[w] # task[t]
      BY <1>6 DEF LInv, Distinct
    <3> QED BY <1>4, <3>1, <3>2, OutstandingIs
  <2> QED BY <2>1
<1> QED BY <1>2, <1>3, <1>5, <1>6

\* While the pool stops items only disappear: the latch stays above them.
LEMMA FewerLatch ==
  ASSUME PInv, NEW t \in Threads, LatchAt(t), stopping', Outstanding(t)' \subseteq Outstanding(t),
         batch'[t] = batch[t], latch'[t] = latch[t],
         pc'[t] = pc[t] \/ (pc[t] = "sleep" /\ pc'[t] = "recheck")
  PROVE  LatchAt(t)'
<1>1. CASE pc[t] = "sleep" /\ pc'[t] = "recheck"
  BY <1>1, OutsideLatch, EmptyLatch
<1>2. CASE pc'[t] = pc[t]
  <2>1. IsFiniteSet(batch[t]) /\ Cardinality(batch[t]) \in Nat
    BY PoolAssumption, FS_Subset, FS_CardinalityType DEF PInv, TypeOK
  <2>2. /\ Cardinality(Outstanding(t)) \in Nat /\ Cardinality(Outstanding(t)') \in Nat
        /\ IsFiniteSet(Outstanding(t)')
        /\ Cardinality(Outstanding(t)') <= Cardinality(Outstanding(t))
    BY FS_Subset, FS_CardinalityType DEF LatchAt
  <2>3. FreshAt(t)'
    BY <1>2 DEF LatchAt, FreshAt
  <2>4. latch[t] \in Nat
    BY DEF PInv, TypeOK
  <2>5. pc[t] \in {"submit", "latch"} =>
          latch'[t] >= Cardinality(batch'[t]) + Cardinality(Outstanding(t)')
    BY <2>1, <2>2, <2>4 DEF LatchAt, SoundAt
  <2>6. SoundAt(t)'
    BY <1>2, <2>5 DEF SoundAt, LatchAt
  <2> QED BY <2>2, <2>3, <2>6 DEF LatchAt
<1> QED BY <1>1, <1>2

LEMMA LRetireTaken ==
  ASSUME PInv, LInv, NEW t \in Workers, RetireTaken(t)
  PROVE  LInv'
<1>t. t \in Threads
  BY DEF Threads
<1>1. Others(t) /\ pc'[t] = "wait" /\ pc[t] = "taken"
  BY PRetireTaken DEF RetireTaken
<1>2. /\ queue' = queue /\ stopping' /\ batch' = batch /\ latch' = latch
      /\ \A w \in Workers \ {t} : task'[w] = task[w]
  BY DEF RetireTaken, driveVars, PInv, TypeOK
<1>3. /\ Held' /\ Distinct'
      /\ \A u : Outstanding(u)' \subseteq Outstanding(u)
  BY <1>1, <1>2, Released
<1>4. LatchAt(t)'
  <2>1. Outstanding(t) = {}
    BY <1>t, <1>1, OutsideLatch DEF LInv
  <2> QED BY <1>1, <1>3, <2>1, EmptyLatch
<1>5. \A u \in Threads \ {t} : LatchAt(u)'
  BY <1>1, <1>2, <1>3, FewerLatch DEF LInv, Others
<1> QED BY <1>3, <1>4, <1>5 DEF LInv

LEMMA LStopPool ==
  ASSUME PInv, LInv, NEW t \in Callers, StopPool(t)
  PROVE  LInv'
<1>t. t \in Threads
  BY DEF Threads
<1>1. Others(t) /\ pc'[t] = "join" /\ pc[t] = "stop"
  BY PStopPool DEF StopPool
<1>2. queue' = <<>> /\ stopping' /\ batch' = batch /\ latch' = latch /\ task' = task
  BY DEF StopPool, driveVars
<1>3. \A w \in Workers : (pc'[w] = "taken" <=> pc[w] = "taken") /\ task'[w] = task[w]
  BY <1>1, <1>2 DEF Others, Threads
<1>4. DOMAIN queue' = {}
  BY <1>2
<1>5. \A u : Outstanding(u)' \subseteq Outstanding(u)
  <2>1. ASSUME NEW u, NEW m, m \in Outstanding(u)' PROVE m \in Outstanding(u)
    <3>1. /\ m # DriverTask /\ m.latch = u
          /\ \/ \E j \in DOMAIN queue' : queue'[j] = m
             \/ \E w \in Workers : pc'[w] = "taken" /\ task'[w] = m
      BY <2>1 DEF Outstanding, QueuedTasks, HeldTasks
    <3> QED BY <1>3, <1>4, <3>1, OutstandingIs
  <2> QED BY <2>1
<1>6. Held' /\ Distinct'
  BY <1>3, <1>4 DEF LInv, Held, Distinct
<1>7. LatchAt(t)'
  <2>1. Outstanding(t) = {}
    BY <1>t, <1>1, OutsideLatch DEF LInv
  <2> QED BY <1>1, <1>5, <2>1, EmptyLatch
<1>8. \A u \in Threads \ {t} : LatchAt(u)'
  BY <1>1, <1>2, <1>5, FewerLatch DEF LInv, Others
<1> QED BY <1>6, <1>7, <1>8 DEF LInv

\* A worker executes an item and counts the latch of its driver down.
LEMMA LRunItem ==
  ASSUME PInv, LInv, NEW t \in Workers, RunItem(t)
  PROVE  LInv'
<1>t. t \in Threads
  BY DEF Threads
<1>1. Others(t) /\ pc'[t] = "wait" /\ pc[t] = "taken"
  BY PRunItem DEF RunItem
<1>2. /\ queue' = queue /\ stopping' = stopping /\ ~stopping /\ batch' = batch
      /\ task[t] # DriverTask /\ LatchDone(task[t].latch)
      /\ \A w \in Workers \ {t} : task'[w] = task[w]
  BY DEF RunItem, PInv, TypeOK
<1>3. /\ Held' /\ Distinct'
      /\ \A u : Outstanding(u)' = Outstanding(u) \ {task[t]}
  BY <1>1, <1>2, Released
<1>4. PICK d \in Threads : d = task[t].latch /\ task[t] \in Outstanding(d)
  <2>1. task[t] \in Tasks
    BY <1>1 DEF LInv, Held
  <2>2. task[t].latch \in Threads
    BY <1>2, <2>1 DEF Tasks
  <2> QED BY <1>1, <1>2, <2>2, OutstandingIs
<1>5. d # t
  BY <1>t, <1>1, <1>4, OutsideLatch DEF LInv
<1>6. LatchAt(t)'
  <2>1. Outstanding(t) = {}
    BY <1>t, <1>1, OutsideLatch DEF LInv
  <2> QED BY <1>1, <1>3, <2>1, EmptyLatch
<1>7. pc[d] \in {"submit", "latch"} /\ pc'[d] = pc[d]
  BY <1>1, <1>4, <1>5 DEF LInv, LatchAt, SoundAt, Others
<1>8. LatchAt(d)'
  <2>1. /\ IsFiniteSet(Outstanding(d)) /\ Cardinality(Outstanding(d)) \in Nat
        /\ IsFiniteSet(batch[d]) /\ Cardinality(batch[d]) \in Nat
    BY <1>4, PoolAssumption, FS_Subset, FS_CardinalityType DEF LInv, LatchAt, PInv, TypeOK
  <2>2. /\ IsFiniteSet(Outstanding(d)') /\ Cardinality(Outstanding(d)') \in Nat
        /\ Cardinality(Outstanding(d)') = Cardinality(Outstanding(d)) - 1
    <3>1. Outstanding(d)' = Outstanding(d) \ {task[t]}
      BY <1>3
    <3> QED BY <1>4, <2>1, <3>1, FS_RemoveElement, FS_CardinalityType
  <2>3. latch[d] = Cardinality(batch[d]) + Cardinality(Outstanding(d))
    BY <1>2, <1>4, <1>7 DEF LInv, LatchAt, SoundAt
  <2>4. latch'[d] = IF latch[d] > 0 THEN latch[d] - 1 ELSE 0
    BY <1>2, <1>4, LatchType DEF PInv, TypeOK
  <2>5. latch'[d] = Cardinality(batch'[d]) + Cardinality(Outstanding(d)')
    BY <1>2, <2>1, <2>2, <2>3, <2>4
  <2>6. SoundAt(d)'
    BY <1>2, <1>7, <2>5 DEF SoundAt
  <2>7. FreshAt(d)'
    BY <1>2, <1>3, <1>4, <1>7 DEF FreshAt, LInv, LatchAt
  <2> QED BY <2>2, <2>6, <2>7 DEF LatchAt
<1>9. ASSUME NEW u \in Threads \ {t, d} PROVE LatchAt(u)'
  <2>1. Outstanding(u)' = Outstanding(u)
    <3>1. task[t] \notin Outstanding(u)
      BY <1>4, <1>9 DEF Outstanding
    <3> QED BY <1>3, <3>1
  <2>2. latch'[u] = latch[u]
    BY <1>2, <1>4, <1>9, LatchType DEF PInv, TypeOK
  <2> QED BY <1>1, <1>2, <1>9, <2>1, <2>2, SameLatch DEF LInv, Others
<1> QED BY <1>3, <1>6, <1>8, <1>9 DEF LInv

LEMMA LatchStep == PInv /\ LInv /\ [Next]_vars => LInv'
<1> SUFFICES ASSUME PInv, LInv, [Next]_vars PROVE LInv'
  OBVIOUS
<1>1. ASSUME NEW t \in Threads, Drive(t) PROVE LInv'
  <2>1. CASE Entry(t)
    BY <2>1, LEntry
  <2>2. CASE PassEnds(t)
    BY <2>2, LPassEnds
  <2>3. CASE Pass(t)
    BY <2>3, LPass
  <2>4. CASE Empty(t)
    BY <2>4, LEmpty
  <2>5. CASE Serial(t)
    BY <2>5, LSerial
  <2>6. CASE SubmitItem(t)
    BY <2>6, LSubmitItem
  <2>7. CASE ExecuteRefused(t)
    BY <2>7, LExecuteRefused
  <2>8. CASE ExecuteOwn(t)
    BY <2>8, LExecuteOwn
  <2>9. CASE LatchWait(t)
    BY <2>9, LLatchWait
  <2>10. CASE LoopReturns(t)
    BY <2>10, LLoopReturns
  <2>11. CASE RunUntilIdleReturns(t)
    BY <2>11, LRunUntilIdleReturns
  <2>12. CASE RunStepsReturns(t)
    BY <2>12, LRunStepsReturns
  <2> QED BY <1>1, <2>1, <2>2, <2>3, <2>4, <2>5, <2>6, <2>7, <2>8, <2>9, <2>10, <2>11, <2>12 DEF Drive
<1>2. ASSUME NEW w \in Workers, Work(w) PROVE LInv'
  <2>1. CASE Take(w)
    BY <2>1, LTake
  <2>2. CASE Exit(w)
    BY <2>2, LExit
  <2>3. CASE RetireTaken(w)
    BY <2>3, LRetireTaken
  <2>4. CASE RunDriver(w)
    BY <2>4, LRunDriver
  <2>5. CASE RunItem(w)
    BY <2>5, LRunItem
  <2> QED BY <1>2, <2>1, <2>2, <2>3, <2>4, <2>5 DEF Work
<1>3. ASSUME NEW t \in Callers, Continue(t) PROVE LInv'
  <2>1. CASE StartAdmit(t)
    BY <2>1, LStartAdmit
  <2>2. CASE StartSubmits(t)
    BY <2>2, LStartSubmits
  <2>3. CASE StartRefused(t)
    BY <2>3, LStartRefused
  <2>4. CASE Recheck(t)
    BY <2>4, LRecheck
  <2>5. CASE StopPool(t)
    BY <2>5, LStopPool
  <2>6. CASE Join(t)
    BY <2>6, LJoin
  <2> QED BY <1>3, <2>1, <2>2, <2>3, <2>4, <2>5, <2>6 DEF Continue
<1>4. ASSUME NEW t \in Callers, Call(t) PROVE LInv'
  <2>1. CASE RunUntilIdle(t)
    BY <2>1, LRunUntilIdle
  <2>2. CASE RunSteps(t)
    BY <2>2, LRunSteps
  <2>3. CASE WaitForIdle(t)
    BY <2>3, LWaitForIdle
  <2>4. CASE Shutdown(t)
    BY <2>4, LShutdown
  <2>5. ASSUME NEW c \in Starts[t], StartRunnable(t, c) PROVE LInv'
    BY <2>5, LStartRunnable
  <2> QED BY <1>4, <2>1, <2>2, <2>3, <2>4, <2>5 DEF Call
<1>5. CASE UNCHANGED vars
  <2> USE <1>5 DEF vars, poolVars, engineVars, driveVars
  <2>1. Still
    BY DEF Still
  <2>2. \A t \in Threads : LatchAt(t)'
    BY <2>1, StillPool, SameLatch DEF LInv
  <2> QED BY <2>1, <2>2, StillPool DEF LInv
<1> QED BY <1>1, <1>2, <1>3, <1>4, <1>5 DEF Next

LEMMA LatchInit == Init => LInv
<1> SUFFICES ASSUME Init PROVE LInv
  OBVIOUS
<1>1. DOMAIN queue = {} /\ \A w \in Workers : pc[w] = "wait"
  BY PoolAssumption, EmptySeq DEF Init, Threads
<1>2. Held /\ Distinct
  BY <1>1 DEF Held, Distinct
<1>3. ASSUME NEW t \in Threads PROVE LatchAt(t)
  <2>1. Outstanding(t) = {}
    BY <1>1, OutstandingIs
  <2>2. pc[t] \notin {"submit", "latch"}
    BY DEF Init
  <2> QED BY <2>1, <2>2, FS_EmptySet DEF LatchAt, FreshAt, SoundAt
<1> QED BY <1>2, <1>3 DEF LInv

LEMMA LatchInvariant == Spec => []LInv
BY InitP, PInvStep, LatchInit, LatchStep, PTL DEF Spec

\* The latch of a batch counts exactly what is not yet executed, until the
\* pool stops and drops items, when it only counts too many; no task in the
\* pool refers to the latch of a driver that has left its batch. So a driver
\* never plans its next pass over items of the last one, and no worker touches
\* a latch that is gone.
THEOREM LatchHolds == Spec => []LatchSound
<1>1. LInv => LatchSound
  BY DEF LInv, LatchAt, SoundAt, LatchSound
<1> QED BY <1>1, LatchInvariant, PTL

-----------------------------------------------------------------------------
(***************************************************************************)
(* Wakeups. A campaign's items are idle until start() makes them           *)
(* plannable, and never again, so that start() cannot make the engine idle *)
(* by itself.                                                              *)
(***************************************************************************)
Untouched(c) == servedBy[c] = "none" /\ \A u \in Callers : starting[u] # c

Touched ==
  /\ \A t \in Threads : \A i \in batch[t] : work[i] # "idle"
  /\ \A j \in DOMAIN queue : queue[j] # DriverTask => work[queue[j].item] # "idle"
  /\ \A w \in Workers : pc[w] = "taken" /\ task[w] # DriverTask => work[task[w].item] # "idle"
  /\ \A c \in Campaigns : Untouched(c) => \A i \in ItemsOf[c] : work[i] = "idle"

\* What is in the pool is an item.
LEMMA PoolItems ==
  ASSUME PInv, Held
  PROVE  /\ \A j \in DOMAIN queue : queue[j] # DriverTask => queue[j].item \in Items /\ queue[j].latch \in Threads
         /\ \A w \in Workers : pc[w] = "taken" /\ task[w] # DriverTask
                                 => task[w].item \in Items /\ task[w].latch \in Threads
<1>1. \A k \in Tasks : k # DriverTask => k.item \in Items /\ k.latch \in Threads
  BY DEF Tasks
<1>2. \A j \in DOMAIN queue : queue[j] \in Tasks
  BY ElementOfSeq, LenProperties DEF PInv, TypeOK
<1> QED BY <1>1, <1>2 DEF Held

\* Each step keeps what has been touched touched, and adds to the batches, the
\* queue and the workers only what has been.
LEMMA TouchedStays ==
  ASSUME PInv, Held, Touched, 
         \A i \in Items : work[i] # "idle" => work'[i] # "idle",
         \A t \in Threads : \A i \in batch'[t] : i \in batch[t] \/ work'[i] # "idle",
         \A j \in DOMAIN queue' :
            \/ queue'[j] = DriverTask
            \/ \E m \in DOMAIN queue : queue[m] = queue'[j]
            \/ work'[queue'[j].item] # "idle",
         \A w \in Workers : pc'[w] = "taken" =>
            \/ pc[w] = "taken" /\ task'[w] = task[w]
            \/ \E m \in DOMAIN queue : queue[m] = task'[w],
         \A c \in Campaigns : Untouched(c)' =>
            Untouched(c) /\ \A i \in ItemsOf[c] : work[i] = "idle" => work'[i] = "idle"
  PROVE  Touched'
<1>1. \A t \in Threads : \A i \in batch'[t] : work'[i] # "idle"
  BY DEF Touched, PInv, TypeOK
<1>2. \A j \in DOMAIN queue' : queue'[j] # DriverTask => work'[queue'[j].item] # "idle"
  BY PoolItems DEF Touched
<1>3. \A w \in Workers : pc'[w] = "taken" /\ task'[w] # DriverTask => work'[task'[w].item] # "idle"
  BY PoolItems DEF Touched
<1>4. \A c \in Campaigns : Untouched(c)' => \A i \in ItemsOf[c] : work'[i] = "idle"
  BY DEF Touched
<1> QED BY <1>1, <1>2, <1>3, <1>4 DEF Touched

\* A step that touches no item.
LEMMA TouchedStill ==
  ASSUME PInv, Held, Touched, work' = work,
         \A t \in Threads : batch'[t] \subseteq batch[t],
         \A j \in DOMAIN queue' :
            \/ queue'[j] = DriverTask
            \/ \E m \in DOMAIN queue : queue[m] = queue'[j],
         \A w \in Workers : pc'[w] = "taken" =>
            \/ pc[w] = "taken" /\ task'[w] = task[w]
            \/ \E m \in DOMAIN queue : queue[m] = task'[w],
         \A c \in Campaigns : Untouched(c)' => Untouched(c)
  PROVE  Touched'
BY TouchedStays

\* execute_item touches one item, which was planned.
LEMMA TouchedExecute ==
  ASSUME PInv, Held, Touched, NEW i \in Items, work[i] # "idle", ExecuteItem(i),
         \A t \in Threads : batch'[t] \subseteq batch[t], queue' = queue,
         \A w \in Workers : pc'[w] = "taken" => pc[w] = "taken" /\ task'[w] = task[w],
         servedBy' = servedBy, starting' = starting
  PROVE  Touched'
<1>1. \A h \in Items : work'[h] = work[h] \/ (h = i /\ work'[h] = "done")
  BY DEF ExecuteItem, PInv, TypeOK
<1>2. \A h \in Items : work[h] # "idle" => work'[h] # "idle"
  BY <1>1
<1>3. \A h \in Items : work[h] = "idle" => work'[h] = "idle"
  BY <1>1
<1>4. \A c \in Campaigns : ItemsOf[c] \subseteq Items
  BY DEF Items
<1>5. \A c \in Campaigns : Untouched(c)' => Untouched(c)
  BY DEF Untouched
<1> QED BY <1>2, <1>3, <1>4, <1>5, TouchedStays

\* The steps that touch no item.
LEMMA TEntry ==
  ASSUME PInv, Held, Touched, NEW t \in Threads, Entry(t)
  PROVE  Touched'
<1>t. t \in Threads
  BY DEF Threads
<1>1. Others(t) /\ pc'[t] # "taken"
  BY PEntry
<1>2. queue' = queue /\ batch' = batch /\ work' = work
  BY DEF Entry, poolVars, engineVars, driveVars, Refuse
<1>3. \A w \in Workers \ {t} : task'[w] = task[w]
  BY DEF Entry, poolVars, PInv, TypeOK
<1>4. \A c \in Campaigns : Untouched(c)' => Untouched(c)
  BY DEF Entry, Untouched, PInv, TypeOK
<1>5. \A w \in Workers : pc'[w] = "taken" => pc[w] = "taken" /\ task'[w] = task[w]
  BY <1>1, <1>3 DEF Others, Threads
<1> QED BY <1>2, <1>4, <1>5, TouchedStill

LEMMA TPassEnds ==
  ASSUME PInv, Held, Touched, NEW t \in Threads, PassEnds(t)
  PROVE  Touched'
<1>t. t \in Threads
  BY DEF Threads
<1>1. Others(t) /\ pc'[t] # "taken"
  BY PPassEnds
<1>2. queue' = queue /\ batch' = batch /\ work' = work
  BY DEF PassEnds, poolVars, engineVars, driveVars, Refuse
<1>3. \A w \in Workers \ {t} : task'[w] = task[w]
  BY DEF PassEnds, poolVars, PInv, TypeOK
<1>4. \A c \in Campaigns : Untouched(c)' => Untouched(c)
  BY DEF PassEnds, Untouched, PInv, TypeOK
<1>5. \A w \in Workers : pc'[w] = "taken" => pc[w] = "taken" /\ task'[w] = task[w]
  BY <1>1, <1>3 DEF Others, Threads
<1> QED BY <1>2, <1>4, <1>5, TouchedStill

LEMMA TEmpty ==
  ASSUME PInv, Held, Touched, NEW t \in Threads, Empty(t)
  PROVE  Touched'
<1>t. t \in Threads
  BY DEF Threads
<1>1. Others(t) /\ pc'[t] # "taken"
  BY PEmpty
<1>2. queue' = queue /\ batch' = batch /\ work' = work
  BY DEF Empty, poolVars, engineVars, driveVars, Refuse
<1>3. \A w \in Workers \ {t} : task'[w] = task[w]
  BY DEF Empty, poolVars, PInv, TypeOK
<1>4. \A c \in Campaigns : Untouched(c)' => Untouched(c)
  BY DEF Empty, Untouched, PInv, TypeOK
<1>5. \A w \in Workers : pc'[w] = "taken" => pc[w] = "taken" /\ task'[w] = task[w]
  BY <1>1, <1>3 DEF Others, Threads
<1> QED BY <1>2, <1>4, <1>5, TouchedStill

LEMMA TLatchWait ==
  ASSUME PInv, Held, Touched, NEW t \in Threads, LatchWait(t)
  PROVE  Touched'
<1>t. t \in Threads
  BY DEF Threads
<1>1. Others(t) /\ pc'[t] # "taken"
  BY PLatchWait
<1>2. queue' = queue /\ batch' = batch /\ work' = work
  BY DEF LatchWait, poolVars, engineVars, driveVars, Refuse
<1>3. \A w \in Workers \ {t} : task'[w] = task[w]
  BY DEF LatchWait, poolVars, PInv, TypeOK
<1>4. \A c \in Campaigns : Untouched(c)' => Untouched(c)
  BY DEF LatchWait, Untouched, PInv, TypeOK
<1>5. \A w \in Workers : pc'[w] = "taken" => pc[w] = "taken" /\ task'[w] = task[w]
  BY <1>1, <1>3 DEF Others, Threads
<1> QED BY <1>2, <1>4, <1>5, TouchedStill

LEMMA TLoopReturns ==
  ASSUME PInv, Held, Touched, NEW t \in Threads, LoopReturns(t)
  PROVE  Touched'
<1>t. t \in Threads
  BY DEF Threads
<1>1. Others(t) /\ pc'[t] # "taken"
  BY PLoopReturns
<1>2. queue' = queue /\ batch' = batch /\ work' = work
  BY DEF LoopReturns, poolVars, engineVars, driveVars, Refuse
<1>3. \A w \in Workers \ {t} : task'[w] = task[w]
  BY DEF LoopReturns, poolVars, PInv, TypeOK
<1>4. \A c \in Campaigns : Untouched(c)' => Untouched(c)
  BY DEF LoopReturns, Untouched, PInv, TypeOK
<1>5. \A w \in Workers : pc'[w] = "taken" => pc[w] = "taken" /\ task'[w] = task[w]
  BY <1>1, <1>3 DEF Others, Threads
<1> QED BY <1>2, <1>4, <1>5, TouchedStill

LEMMA TRunUntilIdleReturns ==
  ASSUME PInv, Held, Touched, NEW t \in Threads, RunUntilIdleReturns(t)
  PROVE  Touched'
<1>t. t \in Threads
  BY DEF Threads
<1>1. Others(t) /\ pc'[t] # "taken"
  BY PRunUntilIdleReturns
<1>2. queue' = queue /\ batch' = batch /\ work' = work
  BY DEF RunUntilIdleReturns, poolVars, engineVars, driveVars, Refuse
<1>3. \A w \in Workers \ {t} : task'[w] = task[w]
  BY DEF RunUntilIdleReturns, poolVars, PInv, TypeOK
<1>4. \A c \in Campaigns : Untouched(c)' => Untouched(c)
  BY DEF RunUntilIdleReturns, Untouched, PInv, TypeOK
<1>5. \A w \in Workers : pc'[w] = "taken" => pc[w] = "taken" /\ task'[w] = task[w]
  BY <1>1, <1>3 DEF Others, Threads
<1> QED BY <1>2, <1>4, <1>5, TouchedStill

LEMMA TRunStepsReturns ==
  ASSUME PInv, Held, Touched, NEW t \in Threads, RunStepsReturns(t)
  PROVE  Touched'
<1>t. t \in Threads
  BY DEF Threads
<1>1. Others(t) /\ pc'[t] # "taken"
  BY PRunStepsReturns
<1>2. queue' = queue /\ batch' = batch /\ work' = work
  BY DEF RunStepsReturns, poolVars, engineVars, driveVars, Refuse
<1>3. \A w \in Workers \ {t} : task'[w] = task[w]
  BY DEF RunStepsReturns, poolVars, PInv, TypeOK
<1>4. \A c \in Campaigns : Untouched(c)' => Untouched(c)
  BY DEF RunStepsReturns, Untouched, PInv, TypeOK
<1>5. \A w \in Workers : pc'[w] = "taken" => pc[w] = "taken" /\ task'[w] = task[w]
  BY <1>1, <1>3 DEF Others, Threads
<1> QED BY <1>2, <1>4, <1>5, TouchedStill

LEMMA TExit ==
  ASSUME PInv, Held, Touched, NEW t \in Workers, Exit(t)
  PROVE  Touched'
<1>t. t \in Threads
  BY DEF Threads
<1>1. Others(t) /\ pc'[t] # "taken"
  BY PExit
<1>2. queue' = queue /\ batch' = batch /\ work' = work
  BY DEF Exit, poolVars, engineVars, driveVars, Refuse
<1>3. \A w \in Workers \ {t} : task'[w] = task[w]
  BY DEF Exit, poolVars, PInv, TypeOK
<1>4. \A c \in Campaigns : Untouched(c)' => Untouched(c)
  BY DEF Exit, Untouched, PInv, TypeOK
<1>5. \A w \in Workers : pc'[w] = "taken" => pc[w] = "taken" /\ task'[w] = task[w]
  BY <1>1, <1>3 DEF Others, Threads
<1> QED BY <1>2, <1>4, <1>5, TouchedStill

LEMMA TRetireTaken ==
  ASSUME PInv, Held, Touched, NEW t \in Workers, RetireTaken(t)
  PROVE  Touched'
<1>t. t \in Threads
  BY DEF Threads
<1>1. Others(t) /\ pc'[t] # "taken"
  BY PRetireTaken
<1>2. queue' = queue /\ batch' = batch /\ work' = work
  BY DEF RetireTaken, poolVars, engineVars, driveVars, Refuse
<1>3. \A w \in Workers \ {t} : task'[w] = task[w]
  BY DEF RetireTaken, poolVars, PInv, TypeOK
<1>4. \A c \in Campaigns : Untouched(c)' => Untouched(c)
  BY DEF RetireTaken, Untouched, PInv, TypeOK
<1>5. \A w \in Workers : pc'[w] = "taken" => pc[w] = "taken" /\ task'[w] = task[w]
  BY <1>1, <1>3 DEF Others, Threads
<1> QED BY <1>2, <1>4, <1>5, TouchedStill

LEMMA TRunDriver ==
  ASSUME PInv, Held, Touched, NEW t \in Workers, RunDriver(t)
  PROVE  Touched'
<1>t. t \in Threads
  BY DEF Threads
<1>1. Others(t) /\ pc'[t] # "taken"
  BY PRunDriver
<1>2. queue' = queue /\ batch' = batch /\ work' = work
  BY DEF RunDriver, poolVars, engineVars, driveVars, Refuse
<1>3. \A w \in Workers \ {t} : task'[w] = task[w]
  BY DEF RunDriver, poolVars, PInv, TypeOK
<1>4. \A c \in Campaigns : Untouched(c)' => Untouched(c)
  BY DEF RunDriver, Untouched, PInv, TypeOK
<1>5. \A w \in Workers : pc'[w] = "taken" => pc[w] = "taken" /\ task'[w] = task[w]
  BY <1>1, <1>3 DEF Others, Threads
<1> QED BY <1>2, <1>4, <1>5, TouchedStill

LEMMA TRecheck ==
  ASSUME PInv, Held, Touched, NEW t \in Callers, Recheck(t)
  PROVE  Touched'
<1>t. t \in Threads
  BY DEF Threads
<1>1. Others(t) /\ pc'[t] # "taken"
  BY PRecheck
<1>2. queue' = queue /\ batch' = batch /\ work' = work
  BY DEF Recheck, poolVars, engineVars, driveVars, Refuse
<1>3. \A w \in Workers \ {t} : task'[w] = task[w]
  BY DEF Recheck, poolVars, PInv, TypeOK
<1>4. \A c \in Campaigns : Untouched(c)' => Untouched(c)
  BY DEF Recheck, Untouched, PInv, TypeOK
<1>5. \A w \in Workers : pc'[w] = "taken" => pc[w] = "taken" /\ task'[w] = task[w]
  BY <1>1, <1>3 DEF Others, Threads
<1> QED BY <1>2, <1>4, <1>5, TouchedStill

LEMMA TJoin ==
  ASSUME PInv, Held, Touched, NEW t \in Callers, Join(t)
  PROVE  Touched'
<1>t. t \in Threads
  BY DEF Threads
<1>1. Others(t) /\ pc'[t] # "taken"
  BY PJoin
<1>2. queue' = queue /\ batch' = batch /\ work' = work
  BY DEF Join, poolVars, engineVars, driveVars, Refuse
<1>3. \A w \in Workers \ {t} : task'[w] = task[w]
  BY DEF Join, poolVars, PInv, TypeOK
<1>4. \A c \in Campaigns : Untouched(c)' => Untouched(c)
  BY DEF Join, Untouched, PInv, TypeOK
<1>5. \A w \in Workers : pc'[w] = "taken" => pc[w] = "taken" /\ task'[w] = task[w]
  BY <1>1, <1>3 DEF Others, Threads
<1> QED BY <1>2, <1>4, <1>5, TouchedStill

LEMMA TRunUntilIdle ==
  ASSUME PInv, Held, Touched, NEW t \in Callers, RunUntilIdle(t)
  PROVE  Touched'
<1>t. t \in Threads
  BY DEF Threads
<1>1. Others(t) /\ pc'[t] # "taken"
  BY PRunUntilIdle
<1>2. queue' = queue /\ batch' = batch /\ work' = work
  BY DEF RunUntilIdle, poolVars, engineVars, driveVars, Refuse
<1>3. \A w \in Workers \ {t} : task'[w] = task[w]
  BY DEF RunUntilIdle, poolVars, PInv, TypeOK
<1>4. \A c \in Campaigns : Untouched(c)' => Untouched(c)
  BY DEF RunUntilIdle, Untouched, PInv, TypeOK
<1>5. \A w \in Workers : pc'[w] = "taken" => pc[w] = "taken" /\ task'[w] = task[w]
  BY <1>1, <1>3 DEF Others, Threads
<1> QED BY <1>2, <1>4, <1>5, TouchedStill

LEMMA TRunSteps ==
  ASSUME PInv, Held, Touched, NEW t \in Callers, RunSteps(t)
  PROVE  Touched'
<1>t. t \in Threads
  BY DEF Threads
<1>1. Others(t) /\ pc'[t] # "taken"
  BY PRunSteps
<1>2. queue' = queue /\ batch' = batch /\ work' = work
  BY DEF RunSteps, poolVars, engineVars, driveVars, Refuse
<1>3. \A w \in Workers \ {t} : task'[w] = task[w]
  BY DEF RunSteps, poolVars, PInv, TypeOK
<1>4. \A c \in Campaigns : Untouched(c)' => Untouched(c)
  BY DEF RunSteps, Untouched, PInv, TypeOK
<1>5. \A w \in Workers : pc'[w] = "taken" => pc[w] = "taken" /\ task'[w] = task[w]
  BY <1>1, <1>3 DEF Others, Threads
<1> QED BY <1>2, <1>4, <1>5, TouchedStill

LEMMA TWaitForIdle ==
  ASSUME PInv, Held, Touched, NEW t \in Callers, WaitForIdle(t)
  PROVE  Touched'
<1>t. t \in Threads
  BY DEF Threads
<1>1. Others(t) /\ pc'[t] # "taken"
  BY PWaitForIdle
<1>2. queue' = queue /\ batch' = batch /\ work' = work
  BY DEF WaitForIdle, poolVars, engineVars, driveVars, Refuse
<1>3. \A w \in Workers \ {t} : task'[w] = task[w]
  BY DEF WaitForIdle, poolVars, PInv, TypeOK
<1>4. \A c \in Campaigns : Untouched(c)' => Untouched(c)
  BY DEF WaitForIdle, Untouched, PInv, TypeOK
<1>5. \A w \in Workers : pc'[w] = "taken" => pc[w] = "taken" /\ task'[w] = task[w]
  BY <1>1, <1>3 DEF Others, Threads
<1> QED BY <1>2, <1>4, <1>5, TouchedStill

LEMMA TShutdown ==
  ASSUME PInv, Held, Touched, NEW t \in Callers, Shutdown(t)
  PROVE  Touched'
<1>t. t \in Threads
  BY DEF Threads
<1>1. Others(t) /\ pc'[t] # "taken"
  BY PShutdown
<1>2. queue' = queue /\ batch' = batch /\ work' = work
  BY DEF Shutdown, poolVars, engineVars, driveVars, Refuse
<1>3. \A w \in Workers \ {t} : task'[w] = task[w]
  BY DEF Shutdown, poolVars, PInv, TypeOK
<1>4. \A c \in Campaigns : Untouched(c)' => Untouched(c)
  BY DEF Shutdown, Untouched, PInv, TypeOK
<1>5. \A w \in Workers : pc'[w] = "taken" => pc[w] = "taken" /\ task'[w] = task[w]
  BY <1>1, <1>3 DEF Others, Threads
<1> QED BY <1>2, <1>4, <1>5, TouchedStill

LEMMA TStartAdmit ==
  ASSUME PInv, Held, Touched, NEW t \in Callers, StartAdmit(t)
  PROVE  Touched'
<1>t. t \in Threads
  BY DEF Threads
<1>1. Others(t) /\ pc'[t] # "taken"
  BY PStartAdmit
<1>2. queue' = queue /\ batch' = batch /\ work' = work
  BY DEF StartAdmit, poolVars, engineVars, driveVars, Refuse
<1>3. \A w \in Workers \ {t} : task'[w] = task[w]
  BY DEF StartAdmit, poolVars, PInv, TypeOK
<1>4. \A c \in Campaigns : Untouched(c)' => Untouched(c)
  BY DEF StartAdmit, RunningDriver, Untouched, PInv, TypeOK
<1>5. \A w \in Workers : pc'[w] = "taken" => pc[w] = "taken" /\ task'[w] = task[w]
  BY <1>1, <1>3 DEF Others, Threads
<1> QED BY <1>2, <1>4, <1>5, TouchedStill

LEMMA TStartRefused ==
  ASSUME PInv, Held, Touched, NEW t \in Callers, StartRefused(t)
  PROVE  Touched'
<1>t. t \in Threads
  BY DEF Threads
<1>1. Others(t) /\ pc'[t] # "taken"
  BY PStartRefused
<1>2. queue' = queue /\ batch' = batch /\ work' = work
  BY DEF StartRefused, poolVars, engineVars, driveVars, Refuse
<1>3. \A w \in Workers \ {t} : task'[w] = task[w]
  BY DEF StartRefused, poolVars, PInv, TypeOK
<1>4. \A c \in Campaigns : Untouched(c)' => Untouched(c)
  BY DEF StartRefused, Untouched, PInv, TypeOK
<1>5. \A w \in Workers : pc'[w] = "taken" => pc[w] = "taken" /\ task'[w] = task[w]
  BY <1>1, <1>3 DEF Others, Threads
<1> QED BY <1>2, <1>4, <1>5, TouchedStill

LEMMA TStartSubmits ==
  ASSUME PInv, Held, Touched, NEW t \in Callers, StartSubmits(t)
  PROVE  Touched'
<1>t. t \in Threads
  BY DEF Threads
<1>1. Others(t) /\ pc'[t] = "free"
  BY PStartSubmits
<1>2. Enqueue(DriverTask) /\ task' = task /\ batch' = batch /\ work' = work
  BY DEF StartSubmits, engineVars, driveVars
<1>3. \A j \in DOMAIN queue' : queue'[j] = DriverTask \/ \E m \in DOMAIN queue : queue[m] = queue'[j]
  BY <1>2, EnqueueAt DEF PInv, Tasks
<1>4. \A c \in Campaigns : Untouched(c)' => Untouched(c)
  BY DEF StartSubmits, Untouched, PInv, TypeOK
<1>5. \A w \in Workers : pc'[w] = "taken" => pc[w] = "taken" /\ task'[w] = task[w]
  BY <1>1, <1>2 DEF Others, Threads
<1> QED BY <1>2, <1>3, <1>4, <1>5, TouchedStill

LEMMA TStopPool ==
  ASSUME PInv, Held, Touched, NEW t \in Callers, StopPool(t)
  PROVE  Touched'
<1>t. t \in Threads
  BY DEF Threads
<1>1. Others(t) /\ pc'[t] = "join"
  BY PStopPool
<1>2. queue' = <<>> /\ task' = task /\ batch' = batch /\ work' = work
  BY DEF StopPool, engineVars, driveVars
<1>3. DOMAIN queue' = {}
  BY <1>2
<1>4. \A c \in Campaigns : Untouched(c)' => Untouched(c)
  BY DEF StopPool, Untouched
<1>5. \A w \in Workers : pc'[w] = "taken" => pc[w] = "taken" /\ task'[w] = task[w]
  BY <1>1, <1>2 DEF Others, Threads
<1> QED BY <1>2, <1>3, <1>4, <1>5, TouchedStill

LEMMA TTake ==
  ASSUME PInv, Held, Touched, NEW t \in Workers, Take(t)
  PROVE  Touched'
<1>t. t \in Threads
  BY DEF Threads
<1>1. Others(t) /\ pc'[t] = "taken"
  BY PTake
<1>2. /\ queue # <<>> /\ queue' = Tail(queue) /\ batch' = batch /\ work' = work
      /\ task'[t] = Head(queue) /\ \A w \in Workers \ {t} : task'[w] = task[w]
  BY DEF Take, engineVars, driveVars, PInv, TypeOK
<1>3. /\ 1 \in DOMAIN queue /\ Head(queue) = queue[1]
      /\ \A j \in DOMAIN queue' : \E m \in DOMAIN queue : queue[m] = queue'[j]
  BY <1>2, TakeAt DEF PInv
<1>4. \A c \in Campaigns : Untouched(c)' => Untouched(c)
  BY DEF Take, Untouched
<1>5. \A w \in Workers : pc'[w] = "taken" =>
            \/ pc[w] = "taken" /\ task'[w] = task[w]
            \/ \E m \in DOMAIN queue : queue[m] = task'[w]
  BY <1>1, <1>2, <1>3 DEF Others, Threads
<1> QED BY <1>2, <1>3, <1>4, <1>5, TouchedStill

LEMMA TSubmitItem ==
  ASSUME PInv, Held, Touched, NEW t \in Threads, SubmitItem(t)
  PROVE  Touched'
<1>1. Others(t) /\ pc'[t] = "submit"
  BY PSubmitItem
<1>2. PICK i \in batch[t] : Enqueue(ItemTask(i, t)) /\ batch' = [batch EXCEPT ![t] = @ \ {i}]
  BY DEF SubmitItem
<1>3. task' = task /\ work' = work /\ \A u \in Threads : batch'[u] \subseteq batch[u]
  BY <1>2 DEF SubmitItem, engineVars, PInv, TypeOK
<1>4. i \in Items /\ work[i] # "idle" /\ ItemTask(i, t) \in Tasks /\ ItemTask(i, t).item = i
  BY ItemIsTask DEF Touched, PInv, TypeOK
<1>5. \A j \in DOMAIN queue' :
            \/ \E m \in DOMAIN queue : queue[m] = queue'[j]
            \/ queue'[j] = ItemTask(i, t)
  BY <1>2, <1>4, EnqueueAt DEF PInv
<1>6. \A c \in Campaigns : Untouched(c)' => Untouched(c)
  BY DEF SubmitItem, Untouched
<1>7. \A w \in Workers : pc'[w] = "taken" => pc[w] = "taken" /\ task'[w] = task[w]
  BY <1>1, <1>3 DEF Others, Threads
<1>8. \A j \in DOMAIN queue' :
            \/ \E m \in DOMAIN queue : queue[m] = queue'[j]
            \/ work'[queue'[j].item] # "idle"
  BY <1>3, <1>4, <1>5
<1> QED BY <1>3, <1>6, <1>7, <1>8, TouchedStays

\* A pass plans what a start() made plannable.
LEMMA TPass ==
  ASSUME PInv, Held, Touched, NEW t \in Threads, Pass(t)
  PROVE  Touched'
<1>1. Others(t) /\ pc'[t] \in {"empty", "submit", "serial"}
  BY PPass
<1>2. /\ task' = task /\ queue' = queue /\ \A c \in Campaigns : Untouched(c)' => Untouched(c)
  BY DEF Pass, poolVars, Untouched
<1>3. \A w \in Workers : pc'[w] = "taken" => pc[w] = "taken" /\ task'[w] = task[w]
  BY <1>1, <1>2 DEF Others, Threads
<1>4. \A c \in Campaigns : ItemsOf[c] \subseteq Items
  BY DEF Items
<1>5. CASE UNCHANGED <<work, batch>>
  BY <1>2, <1>3, <1>5, TouchedStill
<1>6. CASE ~UNCHANGED <<work, batch>>
  <2>1. PICK S \in SUBSET Todo :
          /\ work' = [i \in Items |-> IF i \in S THEN "inflight" ELSE work[i]]
          /\ batch' = [batch EXCEPT ![t] = S]
    BY <1>6 DEF Pass
  <2>2. \A i \in Items : /\ work[i] # "idle" => work'[i] # "idle"
                         /\ work[i] = "idle" => work'[i] = "idle"
                         /\ i \in S => work'[i] # "idle"
    BY <2>1 DEF Todo
  <2>3. \A u \in Threads : \A i \in batch'[u] : i \in batch[u] \/ work'[i] # "idle"
    BY <2>1, <2>2 DEF Todo, PInv, TypeOK
  <2> QED BY <1>2, <1>3, <1>4, <2>2, <2>3, TouchedStays
<1> QED BY <1>5, <1>6

\* start() makes its own campaign's items plannable, and no other's.
LEMMA TStartRunnable ==
  ASSUME PInv, Settled, Held, Touched, NEW t \in Callers, NEW c \in Starts[t], StartRunnable(t, c)
  PROVE  Touched'
<1>t. t \in Threads /\ c \in Campaigns
  BY PoolAssumption DEF Threads
<1>1. Others(t) /\ pc'[t] = "admit"
  BY PStartRunnable
<1>2. /\ task' = task /\ queue' = queue /\ batch' = batch /\ servedBy' = servedBy
      /\ work' = [i \in Items |-> IF i \in ItemsOf[c] THEN "todo" ELSE work[i]]
      /\ starting' = [starting EXCEPT ![t] = c] /\ \A u \in Callers : starting[u] # c
  BY DEF StartRunnable, poolVars, driveVars
<1>3. \A w \in Workers : pc'[w] = "taken" => pc[w] = "taken" /\ task'[w] = task[w]
  BY <1>1, <1>2 DEF Others, Threads
<1>4. \A i \in Items : work[i] # "idle" => work'[i] # "idle"
  BY <1>2
<1>5. ASSUME NEW d \in Campaigns, Untouched(d)'
      PROVE  Untouched(d) /\ \A i \in ItemsOf[d] : work'[i] = work[i]
  <2>1. d # c
    BY <1>2, <1>5 DEF Untouched, PInv, TypeOK
  <2>2. Untouched(d) \/ starting[t] = d
    BY <1>2, <1>5 DEF Untouched, PInv, TypeOK
  <2>3. \A i \in ItemsOf[d] : i \in Items /\ i \notin ItemsOf[c]
    BY <1>t, <2>1, PoolAssumption DEF Items
  <2>4. starting[t] # d
    BY <1>t, PoolAssumption DEF StartRunnable, Settled
  <2> QED BY <1>2, <2>2, <2>3, <2>4
<1> QED BY <1>2, <1>3, <1>4, <1>5, TouchedStays

\* The items of a batch, and those the workers hold, have been touched.
LEMMA TSerial ==
  ASSUME PInv, Held, Touched, NEW t \in Threads, Serial(t)
  PROVE  Touched'
<1>1. Others(t) /\ pc'[t] # "taken"
  BY PSerial
<1>2. queue' = queue /\ task' = task /\ servedBy' = servedBy /\ starting' = starting
  BY DEF Serial, poolVars
<1>3. PICK i \in batch[t] : ExecuteItem(i) /\ batch' = [batch EXCEPT ![t] = @ \ {i}]
  BY DEF Serial
<1>4. i \in Items /\ work[i] # "idle" /\ \A u \in Threads : batch'[u] \subseteq batch[u]
  BY <1>3 DEF Touched, PInv, TypeOK
<1>5. \A w \in Workers : pc'[w] = "taken" => pc[w] = "taken" /\ task'[w] = task[w]
  BY <1>1, <1>2 DEF Others, Threads
<1> QED BY <1>2, <1>3, <1>4, <1>5, TouchedExecute

LEMMA TExecuteRefused ==
  ASSUME PInv, Held, Touched, NEW t \in Threads, ExecuteRefused(t)
  PROVE  Touched'
<1>1. Others(t) /\ pc'[t] # "taken"
  BY PExecuteRefused
<1>2. queue' = queue /\ task' = task /\ servedBy' = servedBy /\ starting' = starting
  BY DEF ExecuteRefused, Refuse
<1>3. PICK i \in batch[t] : ExecuteItem(i) /\ batch' = [batch EXCEPT ![t] = @ \ {i}]
  BY DEF ExecuteRefused
<1>4. i \in Items /\ work[i] # "idle" /\ \A u \in Threads : batch'[u] \subseteq batch[u]
  BY <1>3 DEF Touched, PInv, TypeOK
<1>5. \A w \in Workers : pc'[w] = "taken" => pc[w] = "taken" /\ task'[w] = task[w]
  BY <1>1, <1>2 DEF Others, Threads
<1> QED BY <1>2, <1>3, <1>4, <1>5, TouchedExecute

LEMMA TExecuteOwn ==
  ASSUME PInv, Held, Touched, NEW t \in Threads, ExecuteOwn(t)
  PROVE  Touched'
<1>1. Others(t) /\ pc'[t] # "taken"
  BY PExecuteOwn
<1>2. queue' = queue /\ task' = task /\ servedBy' = servedBy /\ starting' = starting
  BY DEF ExecuteOwn, poolVars
<1>3. PICK i \in batch[t] : ExecuteItem(i)
  BY DEF ExecuteOwn
<1>4. i \in Items /\ work[i] # "idle" /\ \A u \in Threads : batch'[u] \subseteq batch[u]
  BY <1>3 DEF ExecuteOwn, Touched, PInv, TypeOK
<1>5. \A w \in Workers : pc'[w] = "taken" => pc[w] = "taken" /\ task'[w] = task[w]
  BY <1>1, <1>2 DEF Others, Threads
<1> QED BY <1>2, <1>3, <1>4, <1>5, TouchedExecute

LEMMA TRunItem ==
  ASSUME PInv, Held, Touched, NEW t \in Workers, RunItem(t)
  PROVE  Touched'
<1>1. Others(t) /\ pc'[t] # "taken" /\ t \in Threads
  BY PRunItem DEF Threads
<1>2. /\ queue' = queue /\ servedBy' = servedBy /\ starting' = starting /\ batch' = batch
      /\ \A w \in Workers \ {t} : task'[w] = task[w]
  BY DEF RunItem, PInv, TypeOK
<1>3. ExecuteItem(task[t].item) /\ task[t].item \in Items /\ work[task[t].item] # "idle"
  BY PoolItems DEF RunItem, Touched
<1>4. \A w \in Workers : pc'[w] = "taken" => pc[w] = "taken" /\ task'[w] = task[w]
  BY <1>1, <1>2 DEF Others, Threads
<1> QED BY <1>2, <1>3, <1>4, TouchedExecute

LEMMA TouchedStep == PInv /\ Settled /\ Held /\ Touched /\ [Next]_vars => Touched'
<1> SUFFICES ASSUME PInv, Settled, Held, Touched, [Next]_vars PROVE Touched'
  OBVIOUS
<1>1. ASSUME NEW t \in Threads, Drive(t) PROVE Touched'
  <2>1. CASE Entry(t)
    BY <2>1, TEntry
  <2>2. CASE PassEnds(t)
    BY <2>2, TPassEnds
  <2>3. CASE Pass(t)
    BY <2>3, TPass
  <2>4. CASE Empty(t)
    BY <2>4, TEmpty
  <2>5. CASE Serial(t)
    BY <2>5, TSerial
  <2>6. CASE SubmitItem(t)
    BY <2>6, TSubmitItem
  <2>7. CASE ExecuteRefused(t)
    BY <2>7, TExecuteRefused
  <2>8. CASE ExecuteOwn(t)
    BY <2>8, TExecuteOwn
  <2>9. CASE LatchWait(t)
    BY <2>9, TLatchWait
  <2>10. CASE LoopReturns(t)
    BY <2>10, TLoopReturns
  <2>11. CASE RunUntilIdleReturns(t)
    BY <2>11, TRunUntilIdleReturns
  <2>12. CASE RunStepsReturns(t)
    BY <2>12, TRunStepsReturns
  <2> QED BY <1>1, <2>1, <2>2, <2>3, <2>4, <2>5, <2>6, <2>7, <2>8, <2>9, <2>10, <2>11, <2>12 DEF Drive
<1>2. ASSUME NEW w \in Workers, Work(w) PROVE Touched'
  <2>1. CASE Take(w)
    BY <2>1, TTake
  <2>2. CASE Exit(w)
    BY <2>2, TExit
  <2>3. CASE RetireTaken(w)
    BY <2>3, TRetireTaken
  <2>4. CASE RunDriver(w)
    BY <2>4, TRunDriver
  <2>5. CASE RunItem(w)
    BY <2>5, TRunItem
  <2> QED BY <1>2, <2>1, <2>2, <2>3, <2>4, <2>5 DEF Work
<1>3. ASSUME NEW t \in Callers, Continue(t) PROVE Touched'
  <2>1. CASE StartAdmit(t)
    BY <2>1, TStartAdmit
  <2>2. CASE StartSubmits(t)
    BY <2>2, TStartSubmits
  <2>3. CASE StartRefused(t)
    BY <2>3, TStartRefused
  <2>4. CASE Recheck(t)
    BY <2>4, TRecheck
  <2>5. CASE StopPool(t)
    BY <2>5, TStopPool
  <2>6. CASE Join(t)
    BY <2>6, TJoin
  <2> QED BY <1>3, <2>1, <2>2, <2>3, <2>4, <2>5, <2>6 DEF Continue
<1>4. ASSUME NEW t \in Callers, Call(t) PROVE Touched'
  <2>1. CASE RunUntilIdle(t)
    BY <2>1, TRunUntilIdle
  <2>2. CASE RunSteps(t)
    BY <2>2, TRunSteps
  <2>3. CASE WaitForIdle(t)
    BY <2>3, TWaitForIdle
  <2>4. CASE Shutdown(t)
    BY <2>4, TShutdown
  <2>5. ASSUME NEW c \in Starts[t], StartRunnable(t, c) PROVE Touched'
    BY <2>5, TStartRunnable
  <2> QED BY <1>4, <2>1, <2>2, <2>3, <2>4, <2>5 DEF Call
<1>5. CASE UNCHANGED vars
  BY <1>5 DEF vars, poolVars, engineVars, driveVars, Touched, Untouched
<1> QED BY <1>1, <1>2, <1>3, <1>4, <1>5 DEF Next

LEMMA TouchedInit == Init => Touched
<1> SUFFICES ASSUME Init PROVE Touched
  OBVIOUS
<1>1. DOMAIN queue = {} /\ \A w \in Workers : pc[w] = "wait"
  BY PoolAssumption, EmptySeq DEF Init, Threads
<1>2. \A c \in Campaigns : \A i \in ItemsOf[c] : work[i] = "idle"
  BY DEF Init, Items
<1>3. \A t \in Threads : batch[t] = {}
  BY DEF Init
<1> QED BY <1>1, <1>2, <1>3 DEF Touched

LEMMA TouchedInvariant == Spec => []Touched
<1>1. LInv => Held
  BY DEF LInv
<1> QED BY <1>1, PInvariant, SettledInvariant, LatchInvariant, TouchedInit, TouchedStep, PTL DEF Spec

\* What NoLostWakeup says of one step.
Wakes ==
  Idle' /\ ~(Sleepers' \subseteq Sleepers /\ Idle)
    => Sleepers' = {} \/ \E t \in Callers : role[t] = "steps"

\* A step that puts nobody to sleep, takes no driver's flag down and brings
\* nothing out of flight cannot make the engine idle.
LEMMA WakesQuiet ==
  ASSUME NEW t \in Threads, Others(t), pc'[t] # "sleep",
         driverActive' = driverActive, \A i \in Items : work[i] = "inflight" => work'[i] = "inflight"
  PROVE  Wakes
<1>1. Sleepers' \subseteq Sleepers
  BY DEF Sleepers, Others, Threads
<1>2. Idle' => Idle
  BY DEF Idle, InFlight
<1> QED BY <1>1, <1>2 DEF Wakes

\* notify_all wakes everybody.
LEMMA WakesAll ==
  ASSUME NEW t \in Threads, NEW l, l # "sleep", NotifyAndGoto(t, l)
  PROVE  Wakes
<1>1. Sleepers' = {}
  BY DEF NotifyAndGoto, Sleepers, Threads
<1> QED BY <1>1 DEF Wakes

\* A commit: before the store is closed, no flag means no driver, so whoever
\* executes this item, or waits for it, is inside run_steps. After that
\* nothing leaves flight any more.
LEMMA WakesExecute ==
  ASSUME PInv, Sole, NEW t \in Threads, Others(t), pc'[t] # "sleep",
         NEW d \in Threads, role[d] # "none", NEW i, ExecuteItem(i), driverActive' = driverActive
  PROVE  Wakes
<1>1. CASE work' = work
  BY <1>1, WakesQuiet
<1>2. CASE ~closed /\ driverActive
  BY <1>2 DEF Wakes, Idle
<1>3. CASE ~closed /\ ~driverActive
  <2>1. role[d] \notin {"loop", "idle"}
    BY <1>3 DEF Sole, Nobody, Drivers
  <2>2. role[d] = "steps"
    BY <2>1 DEF PInv, TypeOK
  <2>3. d \in Callers
    BY <2>2 DEF PInv, Placed, Threads
  <2> QED BY <2>2, <2>3 DEF Wakes
<1> QED BY <1>1, <1>2, <1>3 DEF ExecuteItem

\* The steps that make nothing idle.
LEMMA WEntry ==
  ASSUME PInv, Sole, LInv, Touched, NEW t \in Threads, Entry(t)
  PROVE  Wakes
<1>1. t \in Threads /\ Others(t) /\ pc'[t] # "sleep"
  BY PEntry DEF Threads
<1>2. driverActive' = driverActive /\ work' = work
  BY DEF Entry, engineVars
<1> QED BY <1>1, <1>2, WakesQuiet

LEMMA WPassEnds ==
  ASSUME PInv, Sole, LInv, Touched, NEW t \in Threads, PassEnds(t)
  PROVE  Wakes
<1>1. t \in Threads /\ Others(t) /\ pc'[t] # "sleep"
  BY PPassEnds DEF Threads
<1>2. driverActive' = driverActive /\ work' = work
  BY DEF PassEnds, engineVars
<1> QED BY <1>1, <1>2, WakesQuiet

LEMMA WPass ==
  ASSUME PInv, Sole, LInv, Touched, NEW t \in Threads, Pass(t)
  PROVE  Wakes
<1>1. t \in Threads /\ Others(t) /\ pc'[t] # "sleep"
  BY PPass DEF Threads
<1>2. driverActive' = driverActive /\ \A i \in Items : work[i] = "inflight" => work'[i] = "inflight"
  BY DEF Pass
<1> QED BY <1>1, <1>2, WakesQuiet

LEMMA WEmpty ==
  ASSUME PInv, Sole, LInv, Touched, NEW t \in Threads, Empty(t)
  PROVE  Wakes
<1>1. t \in Threads /\ Others(t) /\ pc'[t] # "sleep"
  BY PEmpty DEF Threads
<1>2. driverActive' = driverActive /\ work' = work
  BY DEF Empty, engineVars
<1> QED BY <1>1, <1>2, WakesQuiet

LEMMA WSubmitItem ==
  ASSUME PInv, Sole, LInv, Touched, NEW t \in Threads, SubmitItem(t)
  PROVE  Wakes
<1>1. t \in Threads /\ Others(t) /\ pc'[t] # "sleep"
  BY PSubmitItem DEF Threads
<1>2. driverActive' = driverActive /\ work' = work
  BY DEF SubmitItem, engineVars
<1> QED BY <1>1, <1>2, WakesQuiet

LEMMA WLatchWait ==
  ASSUME PInv, Sole, LInv, Touched, NEW t \in Threads, LatchWait(t)
  PROVE  Wakes
<1>1. t \in Threads /\ Others(t) /\ pc'[t] # "sleep"
  BY PLatchWait DEF Threads
<1>2. driverActive' = driverActive /\ work' = work
  BY DEF LatchWait, engineVars
<1> QED BY <1>1, <1>2, WakesQuiet

LEMMA WRunStepsReturns ==
  ASSUME PInv, Sole, LInv, Touched, NEW t \in Threads, RunStepsReturns(t)
  PROVE  Wakes
<1>1. t \in Threads /\ Others(t) /\ pc'[t] # "sleep"
  BY PRunStepsReturns DEF Threads
<1>2. driverActive' = driverActive /\ work' = work
  BY DEF RunStepsReturns, engineVars
<1> QED BY <1>1, <1>2, WakesQuiet

LEMMA WTake ==
  ASSUME PInv, Sole, LInv, Touched, NEW t \in Workers, Take(t)
  PROVE  Wakes
<1>1. t \in Threads /\ Others(t) /\ pc'[t] # "sleep"
  BY PTake DEF Threads
<1>2. driverActive' = driverActive /\ work' = work
  BY DEF Take, engineVars
<1> QED BY <1>1, <1>2, WakesQuiet

LEMMA WExit ==
  ASSUME PInv, Sole, LInv, Touched, NEW t \in Workers, Exit(t)
  PROVE  Wakes
<1>1. t \in Threads /\ Others(t) /\ pc'[t] # "sleep"
  BY PExit DEF Threads
<1>2. driverActive' = driverActive /\ work' = work
  BY DEF Exit, engineVars
<1> QED BY <1>1, <1>2, WakesQuiet

LEMMA WRetireTaken ==
  ASSUME PInv, Sole, LInv, Touched, NEW t \in Workers, RetireTaken(t)
  PROVE  Wakes
<1>1. t \in Threads /\ Others(t) /\ pc'[t] # "sleep"
  BY PRetireTaken DEF Threads
<1>2. driverActive' = driverActive /\ work' = work
  BY DEF RetireTaken, engineVars
<1> QED BY <1>1, <1>2, WakesQuiet

LEMMA WRunDriver ==
  ASSUME PInv, Sole, LInv, Touched, NEW t \in Workers, RunDriver(t)
  PROVE  Wakes
<1>1. t \in Threads /\ Others(t) /\ pc'[t] # "sleep"
  BY PRunDriver DEF Threads
<1>2. driverActive' = driverActive /\ work' = work
  BY DEF RunDriver, engineVars
<1> QED BY <1>1, <1>2, WakesQuiet

LEMMA WStartSubmits ==
  ASSUME PInv, Sole, LInv, Touched, NEW t \in Callers, StartSubmits(t)
  PROVE  Wakes
<1>1. t \in Threads /\ Others(t) /\ pc'[t] # "sleep"
  BY PStartSubmits DEF Threads
<1>2. driverActive' = driverActive /\ work' = work
  BY DEF StartSubmits, engineVars
<1> QED BY <1>1, <1>2, WakesQuiet

LEMMA WStopPool ==
  ASSUME PInv, Sole, LInv, Touched, NEW t \in Callers, StopPool(t)
  PROVE  Wakes
<1>1. t \in Threads /\ Others(t) /\ pc'[t] # "sleep"
  BY PStopPool DEF Threads
<1>2. driverActive' = driverActive /\ work' = work
  BY DEF StopPool, engineVars
<1> QED BY <1>1, <1>2, WakesQuiet

LEMMA WRunSteps ==
  ASSUME PInv, Sole, LInv, Touched, NEW t \in Callers, RunSteps(t)
  PROVE  Wakes
<1>1. t \in Threads /\ Others(t) /\ pc'[t] # "sleep"
  BY PRunSteps DEF Threads
<1>2. driverActive' = driverActive /\ work' = work
  BY DEF RunSteps, engineVars
<1> QED BY <1>1, <1>2, WakesQuiet

LEMMA WWaitForIdle ==
  ASSUME PInv, Sole, LInv, Touched, NEW t \in Callers, WaitForIdle(t)
  PROVE  Wakes
<1>1. t \in Threads /\ Others(t) /\ pc'[t] # "sleep"
  BY PWaitForIdle DEF Threads
<1>2. driverActive' = driverActive /\ work' = work
  BY DEF WaitForIdle, engineVars
<1> QED BY <1>1, <1>2, WakesQuiet

LEMMA WShutdown ==
  ASSUME PInv, Sole, LInv, Touched, NEW t \in Callers, Shutdown(t)
  PROVE  Wakes
<1>1. t \in Threads /\ Others(t) /\ pc'[t] # "sleep"
  BY PShutdown DEF Threads
<1>2. driverActive' = driverActive /\ work' = work
  BY DEF Shutdown, engineVars
<1> QED BY <1>1, <1>2, WakesQuiet

LEMMA WRunUntilIdleReturns ==
  ASSUME PInv, Sole, LInv, Touched, NEW t \in Threads, RunUntilIdleReturns(t)
  PROVE  Wakes
BY WakesAll DEF RunUntilIdleReturns, Threads

LEMMA WStartRefused ==
  ASSUME PInv, Sole, LInv, Touched, NEW t \in Callers, StartRefused(t)
  PROVE  Wakes
BY WakesAll DEF StartRefused, Threads

LEMMA WJoin ==
  ASSUME PInv, Sole, LInv, Touched, NEW t \in Callers, Join(t)
  PROVE  Wakes
BY WakesAll DEF Join, Threads

LEMMA WLoopReturns ==
  ASSUME PInv, Sole, LInv, Touched, NEW t \in Threads, LoopReturns(t)
  PROVE  Wakes
<1>1. CASE admissions = seen[t] \/ shuttingDown
  BY <1>1, WakesAll DEF LoopReturns
<1>2. CASE ~(admissions = seen[t] \/ shuttingDown)
  <2>1. Others(t) /\ pc'[t] # "sleep"
    BY PLoopReturns
  <2>2. driverActive' = driverActive /\ work' = work
    BY <1>2 DEF LoopReturns
  <2> QED BY <2>1, <2>2, WakesQuiet
<1> QED BY <1>1, <1>2

\* The waiter that evaluates its predicate falls asleep only when it is false.
LEMMA WRecheck ==
  ASSUME PInv, Sole, LInv, Touched, NEW t \in Callers, Recheck(t)
  PROVE  Wakes
<1>1. t \in Threads /\ Others(t)
  BY PRecheck DEF Threads
<1>2. Idle' <=> Idle
  BY DEF Recheck, engineVars, Idle, InFlight
<1>3. Idle => pc'[t] # "sleep"
  BY <1>1, GotoPc DEF Recheck, PInv, CallerPcs
<1>4. CASE Idle
  BY <1>1, <1>3, <1>4, WakesQuiet DEF Recheck, engineVars
<1>5. CASE ~Idle
  BY <1>2, <1>5 DEF Wakes
<1> QED BY <1>4, <1>5

\* Whoever takes the flag makes the engine busy.
LEMMA WStartAdmit ==
  ASSUME PInv, Sole, LInv, Touched, NEW t \in Callers, StartAdmit(t)
  PROVE  Wakes
BY DEF StartAdmit, Wakes, Idle, PInv, TypeOK

LEMMA WRunUntilIdle ==
  ASSUME PInv, Sole, LInv, Touched, NEW t \in Callers, RunUntilIdle(t)
  PROVE  Wakes
BY DEF RunUntilIdle, Wakes, Idle, PInv, TypeOK

LEMMA WStartRunnable ==
  ASSUME PInv, Sole, LInv, Touched, NEW t \in Callers, NEW c \in Starts[t], StartRunnable(t, c)
  PROVE  Wakes
<1>1. t \in Threads /\ Others(t) /\ pc'[t] # "sleep" /\ c \in Campaigns
  BY PStartRunnable, PoolAssumption DEF Threads
<1>2. \A i \in ItemsOf[c] : work[i] = "idle"
  BY <1>1 DEF StartRunnable, Touched, Untouched
<1>3. \A i \in Items : work[i] = "inflight" => work'[i] = "inflight"
  BY <1>2 DEF StartRunnable
<1>4. driverActive' = driverActive
  BY DEF StartRunnable
<1> QED BY <1>1, <1>3, <1>4, WakesQuiet

LEMMA WSerial ==
  ASSUME PInv, Sole, LInv, Touched, NEW t \in Threads, Serial(t)
  PROVE  Wakes
<1>1. Others(t) /\ pc'[t] # "sleep"
  BY PSerial
<1>2. role[t] # "none" /\ driverActive' = driverActive
  BY DEF Serial, PInv, Placed, DrivePcs
<1>3. PICK i : ExecuteItem(i)
  BY DEF Serial
<1> QED BY <1>1, <1>2, <1>3, WakesExecute

LEMMA WExecuteRefused ==
  ASSUME PInv, Sole, LInv, Touched, NEW t \in Threads, ExecuteRefused(t)
  PROVE  Wakes
<1>1. Others(t) /\ pc'[t] # "sleep"
  BY PExecuteRefused
<1>2. role[t] # "none" /\ driverActive' = driverActive
  BY DEF ExecuteRefused, PInv, Placed, DrivePcs
<1>3. PICK i : ExecuteItem(i)
  BY DEF ExecuteRefused
<1> QED BY <1>1, <1>2, <1>3, WakesExecute

LEMMA WExecuteOwn ==
  ASSUME PInv, Sole, LInv, Touched, NEW t \in Threads, ExecuteOwn(t)
  PROVE  Wakes
<1>1. Others(t) /\ pc'[t] # "sleep"
  BY PExecuteOwn
<1>2. role[t] # "none" /\ driverActive' = driverActive
  BY DEF ExecuteOwn, PInv, Placed, DrivePcs
<1>4. batch[t] # {}
  BY FS_EmptySet DEF ExecuteOwn
<1>3. PICK i : ExecuteItem(i)
  BY <1>4 DEF ExecuteOwn
<1> QED BY <1>1, <1>2, <1>3, WakesExecute

LEMMA WRunItem ==
  ASSUME PInv, Sole, LInv, Touched, NEW t \in Workers, RunItem(t)
  PROVE  Wakes
<1>1. t \in Threads /\ Others(t) /\ pc'[t] # "sleep"
  BY PRunItem DEF Threads
<1>2. ExecuteItem(task[t].item) /\ driverActive' = driverActive
  BY DEF RunItem
<1>3. task[t].latch \in Threads /\ task[t] \in Outstanding(task[t].latch)
  <2>1. task[t].latch \in Threads
    BY PoolItems DEF RunItem, LInv
  <2>2. task[t] \in Outstanding(task[t].latch)
    BY OutstandingIs DEF RunItem
  <2> QED BY <2>1, <2>2
<1>4. pc[task[t].latch] \in {"submit", "latch"}
  BY <1>3 DEF LInv, LatchAt, SoundAt
<1>5. role[task[t].latch] # "none"
  BY <1>3, <1>4 DEF PInv, Placed, DrivePcs
<1> QED BY <1>1, <1>2, <1>3, <1>5, WakesExecute

LEMMA WakesStep == PInv /\ Sole /\ LInv /\ Touched /\ Next => Wakes
<1> SUFFICES ASSUME PInv, Sole, LInv, Touched, Next PROVE Wakes
  OBVIOUS
<1>1. ASSUME NEW t \in Threads, Drive(t) PROVE Wakes
  <2>1. CASE Entry(t)
    BY <2>1, WEntry
  <2>2. CASE PassEnds(t)
    BY <2>2, WPassEnds
  <2>3. CASE Pass(t)
    BY <2>3, WPass
  <2>4. CASE Empty(t)
    BY <2>4, WEmpty
  <2>5. CASE Serial(t)
    BY <2>5, WSerial
  <2>6. CASE SubmitItem(t)
    BY <2>6, WSubmitItem
  <2>7. CASE ExecuteRefused(t)
    BY <2>7, WExecuteRefused
  <2>8. CASE ExecuteOwn(t)
    BY <2>8, WExecuteOwn
  <2>9. CASE LatchWait(t)
    BY <2>9, WLatchWait
  <2>10. CASE LoopReturns(t)
    BY <2>10, WLoopReturns
  <2>11. CASE RunUntilIdleReturns(t)
    BY <2>11, WRunUntilIdleReturns
  <2>12. CASE RunStepsReturns(t)
    BY <2>12, WRunStepsReturns
  <2> QED BY <1>1, <2>1, <2>2, <2>3, <2>4, <2>5, <2>6, <2>7, <2>8, <2>9, <2>10, <2>11, <2>12 DEF Drive
<1>2. ASSUME NEW w \in Workers, Work(w) PROVE Wakes
  <2>1. CASE Take(w)
    BY <2>1, WTake
  <2>2. CASE Exit(w)
    BY <2>2, WExit
  <2>3. CASE RetireTaken(w)
    BY <2>3, WRetireTaken
  <2>4. CASE RunDriver(w)
    BY <2>4, WRunDriver
  <2>5. CASE RunItem(w)
    BY <2>5, WRunItem
  <2> QED BY <1>2, <2>1, <2>2, <2>3, <2>4, <2>5 DEF Work
<1>3. ASSUME NEW t \in Callers, Continue(t) PROVE Wakes
  <2>1. CASE StartAdmit(t)
    BY <2>1, WStartAdmit
  <2>2. CASE StartSubmits(t)
    BY <2>2, WStartSubmits
  <2>3. CASE StartRefused(t)
    BY <2>3, WStartRefused
  <2>4. CASE Recheck(t)
    BY <2>4, WRecheck
  <2>5. CASE StopPool(t)
    BY <2>5, WStopPool
  <2>6. CASE Join(t)
    BY <2>6, WJoin
  <2> QED BY <1>3, <2>1, <2>2, <2>3, <2>4, <2>5, <2>6 DEF Continue
<1>4. ASSUME NEW t \in Callers, Call(t) PROVE Wakes
  <2>1. CASE RunUntilIdle(t)
    BY <2>1, WRunUntilIdle
  <2>2. CASE RunSteps(t)
    BY <2>2, WRunSteps
  <2>3. CASE WaitForIdle(t)
    BY <2>3, WWaitForIdle
  <2>4. CASE Shutdown(t)
    BY <2>4, WShutdown
  <2>5. ASSUME NEW c \in Starts[t], StartRunnable(t, c) PROVE Wakes
    BY <2>5, WStartRunnable
  <2> QED BY <1>4, <2>1, <2>2, <2>3, <2>4, <2>5 DEF Call
<1> QED BY <1>1, <1>2, <1>3, <1>4 DEF Next

\* No waiter of wait_for_idle or run_until_idle is left asleep by the step
\* that makes the engine idle, and none falls asleep while it is: every such
\* step but a commit made for run_steps notifies.
THEOREM WakeupHolds == Spec => NoLostWakeup
<1>1. PInv /\ Sole /\ LInv /\ Touched /\ [Next]_vars => [Wakes]_vars
  BY WakesStep
<1> QED BY <1>1, PInvariant, SoleInvariant, LatchInvariant, TouchedInvariant, PTL DEF Spec, NoLostWakeup, Wakes
=============================================================================
