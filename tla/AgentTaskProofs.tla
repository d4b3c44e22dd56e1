---------------------------- MODULE AgentTaskProofs ----------------------------
(***************************************************************************)
(* Proofs about AgentTask for any number of tasks, threads, steps, crashes *)
(* and failing writes: its types, that one thread at a time is inside the  *)
(* loop of a task, that an end stays unless a route overwrote it, that no  *)
(* tool runs twice for a confirmation or is lost, and what the session is  *)
(* told.                                                                   *)
(*                                                                         *)
(* OneDriver is not inductive.  A run holds no lock: it is alone because   *)
(* its checkpoint says RUNNING, which confirmations and cancellations      *)
(* refuse, and because nobody has a copy of that checkpoint to write back  *)
(* (RunsAlone).  Everyone else in the loop holds the lock (HoldsLock).     *)
(***************************************************************************)
EXTENDS AgentTask, FiniteSetTheorems, TLAPS

Drives(x) == th[x].pc \in Loop
Busies(x) == th[x].pc # "rest"
Writers   == {"stampsave", "stripsave"}

\* What is pending belongs to a step of the loop.
CheckpointOK(c) == c.status = "AWAITING_CONFIRMATION" => c.step \in Steps
DiskOK == \A t \in Tasks : CheckpointOK(disk[t])

\* What a thread carries at its place.
ThreadOK(x) ==
    /\ Busies(x) => th[x].task \in Tasks /\ disk[th[x].task] \in Checkpoint
    /\ th[x].pc = "model" => th[x].step \in 1..MaxSteps + 1
    /\ th[x].pc \in Loop \ {"model"} => th[x].step \in Steps
    /\ th[x].pc \in Writers => th[x].copy \in Checkpoint /\ CheckpointOK(th[x].copy)

HoldsLock(x) == Drives(x) /\ th[x].route # "run" => lock[th[x].task] = x

RunsAlone(x) ==
    Drives(x) /\ th[x].route = "run" =>
        /\ disk[th[x].task].status = "RUNNING"
        /\ \A y \in Threads \ {x} :
              Busies(y) /\ th[y].task = th[x].task => th[y].pc = "ask"

\* A task that is driven has not ended, as far as its checkpoint can be trusted.
NotEnded(x) ==
    Drives(x) => \/ disk[th[x].task].status \in {"RUNNING", "AWAITING_CONFIRMATION"}
                 \/ th[x].task \in overwritten

ThreadsInv ==
    DiskOK /\ \A x \in Threads : ThreadOK(x) /\ HoldsLock(x) /\ RunsAlone(x) /\ NotEnded(x)

TaskInv == TypeOK /\ ThreadsInv

--------------------------------------------------------------------------------
(* Shapes of steps                                                         *)

OnlyMoves(x) ==
    th' \in [Threads -> Thread] /\ \A y \in Threads \ {x} : th'[y] = th[y]
DisksTyped == disk' \in [Tasks -> Checkpoint \cup {NoTask}]
OnlyWrites(t) == DisksTyped /\ \A u \in Tasks \ {t} : disk'[u] = disk[u]
LocksKept(x) == \A t \in Tasks : lock[t] # x => lock'[t] = lock[t]

LEMMA PresentIsCheckpoint ==
    ASSUME NEW c \in Checkpoint \cup {NoTask}, c.status # "ABSENT"
    PROVE  c \in Checkpoint
BY DEF NoTask

LEMMA CheckpointIsPresent ==
    ASSUME NEW c \in Checkpoint PROVE c.status # "ABSENT" /\ c # NoTask
<1>1. c.status # "ABSENT"
  BY DEF Checkpoint, Ended
<1> QED
  BY <1>1 DEF NoTask

\* Two threads in the loop of one task are the same thread.
LEMMA SoleDriver ==
    ASSUME ThreadsInv, NEW x \in Threads, NEW y \in Threads,
           Drives(x), Drives(y), th[x].task = th[y].task
    PROVE  x = y
<1>1. Busies(x) /\ Busies(y) /\ th[x].pc # "ask" /\ th[y].pc # "ask"
  BY DEF Drives, Busies, Loop
<1>2. CASE th[x].route = "run" \/ th[y].route = "run"
  BY <1>1, <1>2 DEF ThreadsInv, RunsAlone
<1>3. CASE th[x].route # "run" /\ th[y].route # "run"
  BY <1>3 DEF ThreadsInv, HoldsLock
<1> QED
  BY <1>2, <1>3

\* A step inside the loop.
LEMMA DriverMoves ==
    ASSUME ThreadsInv, TypeOK, NEW x \in Threads, Drives(x), OnlyMoves(x),
           th'[x].task = th[x].task, th'[x].route = th[x].route, th'[x].pc \in Loop,
           th'[x].pc = "model" => th'[x].step \in 1..MaxSteps + 1,
           th'[x].pc # "model" => th'[x].step \in Steps,
           lock' = lock, overwritten' = overwritten, OnlyWrites(th[x].task),
           disk'[th[x].task] = disk[th[x].task] \/ disk'[th[x].task].status = "RUNNING"
    PROVE  ThreadsInv'
<1> DEFINE t == th[x].task
<1>1. t \in Tasks /\ disk[t] \in Checkpoint /\ Busies(x)
  BY DEF ThreadsInv, ThreadOK, Drives, Busies, Loop
<1>2. disk'[t] \in Checkpoint /\ CheckpointOK(disk'[t])
  <2>1. disk'[t] \in Checkpoint \cup {NoTask}
    BY <1>1 DEF OnlyWrites, DisksTyped
  <2> QED
    BY <1>1, <2>1, PresentIsCheckpoint DEF ThreadsInv, DiskOK, CheckpointOK
<1>3. DiskOK'
  BY <1>2 DEF DiskOK, OnlyWrites, ThreadsInv, CheckpointOK
<1>4. ASSUME NEW y \in Threads \ {x} PROVE ThreadOK(y)' /\ HoldsLock(y)' /\ NotEnded(y)'
  <2>1. th'[y] = th[y] /\ ThreadOK(y) /\ HoldsLock(y) /\ NotEnded(y)
    BY <1>4 DEF OnlyMoves, ThreadsInv
  <2>2. Busies(y) => th[y].task \in Tasks /\ disk'[th[y].task] \in Checkpoint
    BY <2>1, <1>2 DEF ThreadOK, OnlyWrites
  <2>3. Drives(y) => th[y].task # t
    BY <1>4, SoleDriver
  <2>4. NotEnded(y)'
    BY <2>1, <2>3 DEF NotEnded, Drives, OnlyWrites, ThreadOK, Busies, Loop
  <2> QED
    BY <2>1, <2>2, <2>4 DEF ThreadOK, HoldsLock, Drives, Busies, CheckpointOK
<1>5. ThreadOK(x)' /\ HoldsLock(x)' /\ NotEnded(x)'
  <2>1. ThreadOK(x)'
    BY <1>1, <1>2 DEF ThreadOK, Busies, Writers, Loop
  <2>2. HoldsLock(x)'
    BY DEF ThreadsInv, HoldsLock, Drives
  <2>3. NotEnded(x)'
    BY DEF ThreadsInv, NotEnded, Drives
  <2> QED
    BY <2>1, <2>2, <2>3
<1>6. ASSUME NEW z \in Threads PROVE RunsAlone(z)'
  <2> SUFFICES ASSUME Drives(z)', th'[z].route = "run"
               PROVE  /\ disk'[th'[z].task].status = "RUNNING"
                      /\ \A y \in Threads \ {z} :
                            Busies(y)' /\ th'[y].task = th'[z].task => th'[y].pc = "ask"
    BY DEF RunsAlone
  <2>1. Drives(z) /\ th[z].route = "run" /\ th'[z].task = th[z].task
    BY DEF Drives, OnlyMoves
  <2>2. RunsAlone(z) /\ th[z].task \in Tasks
    BY <2>1 DEF ThreadsInv, ThreadOK, Drives, Busies, Loop
  <2>3. disk'[th'[z].task].status = "RUNNING"
    BY <2>1, <2>2 DEF RunsAlone, OnlyWrites
  <2>4. ASSUME NEW y \in Threads \ {z}, Busies(y)', th'[y].task = th'[z].task
        PROVE  th'[y].pc = "ask"
    <3>1. CASE y = x
      BY <2>1, <2>4, <3>1, SoleDriver
    <3>2. CASE y # x
      BY <2>1, <2>2, <2>4, <3>2 DEF OnlyMoves, RunsAlone, Busies
    <3> QED
      BY <3>1, <3>2
  <2> QED
    BY <2>3, <2>4
<1> QED
  BY <1>3, <1>4, <1>5, <1>6 DEF ThreadsInv

\* A thread leaves the loop, with or without a last checkpoint.
LEMMA DriverLeaves ==
    ASSUME ThreadsInv, TypeOK, NEW x \in Threads, Drives(x), OnlyMoves(x),
           th'[x].pc \in {"rest", "stampload"},
           th'[x].pc = "stampload" => th'[x].task = th[x].task,
           LocksKept(x), overwritten' = overwritten, OnlyWrites(th[x].task),
           \/ disk'[th[x].task] = disk[th[x].task]
           \/ disk'[th[x].task] \in Checkpoint /\ CheckpointOK(disk'[th[x].task])
    PROVE  ThreadsInv'
<1> DEFINE t == th[x].task
<1>1. t \in Tasks /\ disk[t] \in Checkpoint /\ Busies(x) /\ th[x].pc # "ask"
  BY DEF ThreadsInv, ThreadOK, Drives, Busies, Loop
<1>2. disk'[t] \in Checkpoint /\ CheckpointOK(disk'[t])
  BY <1>1 DEF ThreadsInv, DiskOK, CheckpointOK
<1>3. DiskOK'
  BY <1>2 DEF DiskOK, OnlyWrites, ThreadsInv, CheckpointOK
<1>4. ThreadOK(x)' /\ ~Drives(x)'
  BY <1>1, <1>2 DEF ThreadOK, Busies, Writers, Loop, Drives
<1>5. ASSUME NEW y \in Threads \ {x}
      PROVE  ThreadOK(y)' /\ HoldsLock(y)' /\ RunsAlone(y)' /\ NotEnded(y)'
  <2>1. th'[y] = th[y] /\ ThreadOK(y) /\ HoldsLock(y) /\ NotEnded(y) /\ RunsAlone(y)
    BY <1>5 DEF OnlyMoves, ThreadsInv
  <2>2. Busies(y) => th[y].task \in Tasks /\ disk'[th[y].task] \in Checkpoint
    BY <2>1, <1>2 DEF ThreadOK, OnlyWrites
  <2>3. Drives(y) => Busies(y) /\ th[y].task \in Tasks /\ th[y].task # t
                     /\ disk'[th[y].task] = disk[th[y].task]
    BY <1>5, <2>1, SoleDriver DEF ThreadOK, Drives, Busies, Loop, OnlyWrites
  <2>4. ThreadOK(y)' /\ NotEnded(y)'
    BY <2>1, <2>2, <2>3 DEF ThreadOK, NotEnded, Drives, Busies, CheckpointOK
  <2>5. HoldsLock(y)'
    BY <2>1, <2>3 DEF HoldsLock, Drives, LocksKept
  <2>6. RunsAlone(y)'
    BY <2>1, <2>3, <1>1 DEF RunsAlone, Drives, Busies, OnlyMoves
  <2> QED
    BY <2>4, <2>5, <2>6
<1> QED
  BY <1>3, <1>4, <1>5 DEF ThreadsInv, HoldsLock, RunsAlone, NotEnded

\* A step of a thread outside the loop that writes no checkpoint.
LEMMA RouteMoves ==
    ASSUME ThreadsInv, TypeOK, NEW x \in Threads, ~Drives(x), OnlyMoves(x),
           th'[x].pc \notin Loop, disk' = disk, LocksKept(x), overwritten' = overwritten,
           \/ th'[x].pc \in {"rest", "ask"}
           \/ th[x].pc \notin {"rest", "ask"} /\ th'[x].task = th[x].task,
           th'[x].pc # "rest" => th'[x].task \in Tasks /\ disk[th'[x].task] \in Checkpoint,
           th'[x].pc \in Writers => th'[x].copy \in Checkpoint /\ CheckpointOK(th'[x].copy)
    PROVE  ThreadsInv'
<1>1. DiskOK'
  BY DEF DiskOK, ThreadsInv, CheckpointOK
<1>2. ThreadOK(x)' /\ ~Drives(x)'
  BY DEF ThreadOK, Busies, Loop, Drives, CheckpointOK
<1>3. ASSUME NEW y \in Threads \ {x}
      PROVE  ThreadOK(y)' /\ HoldsLock(y)' /\ RunsAlone(y)' /\ NotEnded(y)'
  <2>1. th'[y] = th[y] /\ ThreadOK(y) /\ HoldsLock(y) /\ NotEnded(y) /\ RunsAlone(y)
    BY <1>3 DEF OnlyMoves, ThreadsInv
  <2>2. ThreadOK(y)' /\ NotEnded(y)'
    BY <2>1 DEF ThreadOK, NotEnded, Drives, Busies, CheckpointOK
  <2>3. HoldsLock(y)'
    BY <2>1 DEF HoldsLock, Drives, LocksKept, ThreadOK, Busies, Loop
  <2>4. RunsAlone(y)'
    <3> SUFFICES ASSUME Drives(y), th[y].route = "run",
                        NEW z \in Threads \ {y}, Busies(z)', th'[z].task = th[y].task
                 PROVE  th'[z].pc = "ask"
      BY <2>1 DEF RunsAlone, Drives
    <3>1. CASE z = x
      BY <2>1, <3>1 DEF RunsAlone, Busies
    <3>2. CASE z # x
      BY <2>1, <3>2 DEF RunsAlone, Busies, OnlyMoves
    <3> QED
      BY <3>1, <3>2
  <2> QED
    BY <2>2, <2>3, <2>4
<1> QED
  BY <1>1, <1>2, <1>3 DEF ThreadsInv, HoldsLock, RunsAlone, NotEnded

\* A thread that may take the lock of a task that awaits a confirmation finds
\* nobody inside its loop.
LEMMA NobodyDrives ==
    ASSUME ThreadsInv, NEW t \in Tasks, LockFree(t), disk[t].status # "RUNNING",
           NEW y \in Threads, Drives(y)
    PROVE  th[y].task # t
BY TaskAssumption DEF ThreadsInv, HoldsLock, RunsAlone, LockFree

\* A confirmation that is refused by its hook, or a cancellation, ends a task.
LEMMA EndsAwaiting ==
    ASSUME ThreadsInv, TypeOK, NEW x \in Threads, th[x].pc = "ask", OnlyMoves(x),
           LockFree(th[x].task), disk[th[x].task].status = "AWAITING_CONFIRMATION",
           th'[x].pc \in {"stampload", "memory"}, th'[x].task = th[x].task,
           lock' = lock, overwritten' = overwritten, OnlyWrites(th[x].task),
           disk'[th[x].task] \in Checkpoint, CheckpointOK(disk'[th[x].task])
    PROVE  ThreadsInv'
<1> DEFINE t == th[x].task
<1>1. t \in Tasks /\ disk[t].status # "RUNNING"
  BY DEF ThreadsInv, ThreadOK, Busies
<1>2. DiskOK'
  BY <1>1 DEF DiskOK, OnlyWrites, ThreadsInv, CheckpointOK
<1>3. ThreadOK(x)' /\ ~Drives(x)'
  BY <1>1 DEF ThreadOK, Busies, Loop, Drives, Writers
<1>4. ASSUME NEW y \in Threads \ {x}
      PROVE  ThreadOK(y)' /\ HoldsLock(y)' /\ RunsAlone(y)' /\ NotEnded(y)'
  <2>1. th'[y] = th[y] /\ ThreadOK(y) /\ HoldsLock(y) /\ NotEnded(y) /\ RunsAlone(y)
    BY <1>4 DEF OnlyMoves, ThreadsInv
  <2>2. Drives(y) => th[y].task \in Tasks /\ th[y].task # t
                     /\ disk'[th[y].task] = disk[th[y].task]
    BY <1>1, <2>1, NobodyDrives DEF ThreadOK, Drives, Busies, Loop, OnlyWrites
  <2>3. ThreadOK(y)' /\ NotEnded(y)' /\ HoldsLock(y)'
    BY <2>1, <2>2 DEF ThreadOK, NotEnded, HoldsLock, Drives, Busies, CheckpointOK, OnlyWrites
  <2>4. RunsAlone(y)'
    BY <2>1, <2>2 DEF RunsAlone, Drives, Busies, OnlyMoves
  <2> QED
    BY <2>3, <2>4
<1> QED
  BY <1>2, <1>3, <1>4 DEF ThreadsInv, HoldsLock, RunsAlone, NotEnded

\* A route writes its copy back.
LEMMA WriterSaves ==
    ASSUME ThreadsInv, TypeOK, NEW x \in Threads, th[x].pc \in Writers, OnlyMoves(x),
           th'[x].pc \in {"rest", "memory"},
           th'[x].pc = "memory" => th'[x].task = th[x].task,
           lock' = lock, OnlyWrites(th[x].task), overwritten \subseteq overwritten',
           disk'[th[x].task] \in Checkpoint, CheckpointOK(disk'[th[x].task]),
           \/ disk'[th[x].task].status = disk[th[x].task].status
           \/ th[x].task \in overwritten'
    PROVE  ThreadsInv'
<1> DEFINE t == th[x].task
<1>1. t \in Tasks /\ Busies(x) /\ th[x].pc # "ask"
  BY DEF ThreadsInv, ThreadOK, Busies, Writers
<1>2. DiskOK'
  BY <1>1 DEF DiskOK, OnlyWrites, ThreadsInv, CheckpointOK
<1>3. ThreadOK(x)' /\ ~Drives(x)'
  BY <1>1 DEF ThreadOK, Busies, Loop, Drives, Writers
<1>4. ASSUME NEW y \in Threads \ {x}
      PROVE  ThreadOK(y)' /\ HoldsLock(y)' /\ RunsAlone(y)' /\ NotEnded(y)'
  <2>1. th'[y] = th[y] /\ ThreadOK(y) /\ HoldsLock(y) /\ NotEnded(y) /\ RunsAlone(y)
    BY <1>4 DEF OnlyMoves, ThreadsInv
  <2>2. ThreadOK(y)' /\ HoldsLock(y)'
    BY <2>1 DEF ThreadOK, HoldsLock, Drives, Busies, CheckpointOK, OnlyWrites
  <2>3. NotEnded(y)'
    BY <2>1 DEF ThreadOK, NotEnded, Drives, Busies, Loop, OnlyWrites
  <2>4. RunsAlone(y)'
    <3> SUFFICES ASSUME Drives(y), th[y].route = "run" PROVE RunsAlone(y)'
      BY <2>1 DEF RunsAlone, Drives
    <3>1. th[y].task # t /\ th[y].task \in Tasks
      BY <1>1, <2>1 DEF RunsAlone, ThreadOK, Drives, Busies, Loop
    <3> QED
      BY <2>1, <3>1 DEF RunsAlone, Drives, Busies, OnlyMoves, OnlyWrites
  <2> QED
    BY <2>2, <2>3, <2>4
<1> QED
  BY <1>2, <1>3, <1>4 DEF ThreadsInv, HoldsLock, RunsAlone, NotEnded

\* A thread enters the loop of a task nobody else is busy with.
LEMMA Joins ==
    ASSUME ThreadsInv, TypeOK, NEW x \in Threads, NEW t \in Tasks,
           th[x].pc = "rest", Busy(t) = {}, OnlyMoves(x),
           th'[x].pc = "model", th'[x].task = t, th'[x].step \in 1..MaxSteps + 1,
           \A u \in Tasks \ {t} : lock'[u] = lock[u],
           th'[x].route = "run" \/ lock'[t] = x,
           overwritten' = overwritten, OnlyWrites(t),
           disk'[t] \in Checkpoint, disk'[t].status = "RUNNING"
    PROVE  ThreadsInv'
<1>1. \A y \in Threads : Busies(y) => th[y].task # t
  BY DEF Busy, Busies
<1>2. DiskOK'
  BY DEF DiskOK, OnlyWrites, ThreadsInv, CheckpointOK
<1>3. ThreadOK(x)' /\ HoldsLock(x)' /\ NotEnded(x)'
  BY DEF ThreadOK, HoldsLock, NotEnded, Busies, Loop, Drives, Writers
<1>4. RunsAlone(x)'
  BY <1>1 DEF RunsAlone, Busies, OnlyMoves
<1>5. ASSUME NEW y \in Threads \ {x}
      PROVE  ThreadOK(y)' /\ HoldsLock(y)' /\ RunsAlone(y)' /\ NotEnded(y)'
  <2>1. th'[y] = th[y] /\ ThreadOK(y) /\ HoldsLock(y) /\ NotEnded(y) /\ RunsAlone(y)
    BY <1>5 DEF OnlyMoves, ThreadsInv
  <2>2. Busies(y) => th[y].task \in Tasks /\ th[y].task # t
                     /\ disk'[th[y].task] = disk[th[y].task]
    BY <1>1, <2>1 DEF ThreadOK, OnlyWrites
  <2>3. Drives(y) => Busies(y)
    BY DEF Drives, Busies, Loop
  <2>4. ThreadOK(y)' /\ NotEnded(y)' /\ HoldsLock(y)'
    BY <2>1, <2>2, <2>3 DEF ThreadOK, NotEnded, HoldsLock, Drives, Busies, CheckpointOK
  <2>5. RunsAlone(y)'
    BY <2>1, <2>2, <2>3 DEF RunsAlone, Drives, Busies, OnlyMoves
  <2> QED
    BY <2>4, <2>5
<1> QED
  BY <1>2, <1>3, <1>4, <1>5 DEF ThreadsInv

\* A confirmation takes the lock of a task that awaits it.
LEMMA TakesLock ==
    ASSUME ThreadsInv, TypeOK, NEW x \in Threads, th[x].pc = "ask", OnlyMoves(x),
           LockFree(th[x].task), disk[th[x].task].status = "AWAITING_CONFIRMATION",
           th'[x].pc = "confirmed", th'[x].task = th[x].task, th'[x].route # "run",
           th'[x].step = disk[th[x].task].step,
           lock' = [lock EXCEPT ![th[x].task] = x],
           overwritten' = overwritten, disk' = disk
    PROVE  ThreadsInv'
<1> DEFINE t == th[x].task
<1>1. t \in Tasks /\ disk[t] \in Checkpoint /\ disk[t].status # "RUNNING" /\ disk[t].step \in Steps
  BY DEF ThreadsInv, ThreadOK, Busies, DiskOK, CheckpointOK
<1>2. lock'[t] = x /\ \A u \in Tasks \ {t} : lock'[u] = lock[u]
  BY <1>1 DEF TypeOK
<1>3. ThreadOK(x)' /\ HoldsLock(x)' /\ NotEnded(x)' /\ RunsAlone(x)'
  BY <1>1, <1>2 DEF ThreadOK, HoldsLock, NotEnded, RunsAlone, Busies, Loop, Drives, Writers
<1>4. ASSUME NEW y \in Threads \ {x}
      PROVE  ThreadOK(y)' /\ HoldsLock(y)' /\ RunsAlone(y)' /\ NotEnded(y)'
  <2>1. th'[y] = th[y] /\ ThreadOK(y) /\ HoldsLock(y) /\ NotEnded(y) /\ RunsAlone(y)
    BY <1>4 DEF OnlyMoves, ThreadsInv
  <2>2. Drives(y) => th[y].task \in Tasks /\ th[y].task # t
    BY <1>1, <2>1, NobodyDrives DEF ThreadOK, Drives, Busies, Loop
  <2>3. ThreadOK(y)' /\ NotEnded(y)' /\ HoldsLock(y)'
    BY <1>2, <2>1, <2>2 DEF ThreadOK, NotEnded, HoldsLock, Drives, Busies, CheckpointOK
  <2>4. RunsAlone(y)'
    BY <2>1, <2>2 DEF RunsAlone, Drives, Busies, OnlyMoves
  <2> QED
    BY <2>3, <2>4
<1> QED
  BY <1>3, <1>4 DEF ThreadsInv, DiskOK, CheckpointOK

\* A step of the surroundings.
LEMMA Untouched ==
    ASSUME ThreadsInv, UNCHANGED <<th, disk, lock, overwritten>> PROVE ThreadsInv'
BY DEF ThreadsInv, DiskOK, CheckpointOK, ThreadOK, HoldsLock, RunsAlone, NotEnded, Drives, Busies

--------------------------------------------------------------------------------
(* The actions, one lemma each                                             *)

LEMMA RestIsThread == Rest \in Thread
BY TaskAssumption DEF Rest, Thread, Loop, Ended

\* What a step makes of its own thread is all it makes of the threads.
LEMMA ThreadSteps ==
    ASSUME TypeOK, NEW x \in Threads, NEW r \in Thread, th' = [th EXCEPT ![x] = r]
    PROVE  OnlyMoves(x) /\ th'[x] = r
BY DEF TypeOK, OnlyMoves

LEMMA DiskSteps ==
    ASSUME TypeOK, NEW t \in Tasks, NEW c \in Checkpoint, disk' = [disk EXCEPT ![t] = c]
    PROVE  OnlyWrites(t) /\ disk'[t] = c
BY DEF TypeOK, OnlyWrites, DisksTyped

\* Where a driver is, and of which type what it holds is.
LEMMA DriverTyped ==
    ASSUME TaskInv, NEW x \in Threads, Drives(x)
    PROVE  /\ th[x] \in Thread /\ th[x].task \in Tasks /\ disk[th[x].task] \in Checkpoint
           /\ th[x].step \in 1..MaxSteps + 1 /\ (th[x].pc # "model" => th[x].step \in Steps)
<1>1. th[x] \in Thread /\ ThreadOK(x) /\ Busies(x)
  BY DEF TaskInv, TypeOK, ThreadsInv, Drives, Busies, Loop
<1>2. th[x].task \in Tasks /\ disk[th[x].task] \in Checkpoint
  BY <1>1 DEF ThreadOK
<1>3. th[x].pc # "model" => th[x].step \in Steps
  BY <1>1 DEF ThreadOK, Drives
<1>4. th[x].step \in 1..MaxSteps + 1
  BY <1>1, <1>3, TaskAssumption DEF ThreadOK, Steps
<1> QED
  BY <1>1, <1>2, <1>3, <1>4

LEMMA SnapshotTyped ==
    ASSUME TaskInv, NEW x \in Threads, Drives(x),
           NEW status \in Ended \cup {"RUNNING", "AWAITING_CONFIRMATION"},
           status = "AWAITING_CONFIRMATION" => th[x].pc # "model"
    PROVE  /\ Snapshot(x, status) \in Checkpoint /\ Snapshot(x, status).status = status
           /\ CheckpointOK(Snapshot(x, status))
<1>1. th[x] \in Thread /\ th[x].step \in 1..MaxSteps + 1
      /\ (th[x].pc # "model" => th[x].step \in Steps)
  BY DriverTyped
<1>2. MaxSteps \in Nat
  BY TaskAssumption
<1>3. (IF th[x].step > MaxSteps THEN MaxSteps ELSE th[x].step) \in 0..MaxSteps
  BY <1>1, <1>2
<1>4. th[x].results \in SUBSET Steps /\ th[x].history \in {"prefix", "marked", "stripped"}
      /\ identity \in {"offline", "remote"}
  BY <1>1 DEF Thread, TaskInv, TypeOK
<1>5. Snapshot(x, status) \in Checkpoint
  BY <1>3, <1>4 DEF Snapshot, Checkpoint
<1>6. status = "AWAITING_CONFIRMATION" => Snapshot(x, status).step \in Steps
  BY <1>1, <1>2 DEF Snapshot, Steps
<1> QED
  BY <1>5, <1>6 DEF Snapshot, CheckpointOK

LEMMA FinishKeeps ==
    ASSUME TaskInv, NEW x \in Threads, Drives(x),
           NEW status \in Ended \cup {"AWAITING_CONFIRMATION"},
           status = "AWAITING_CONFIRMATION" => th[x].pc # "model", Finish(x, status)
    PROVE  TaskInv'
<1> DEFINE t == th[x].task
           c == Snapshot(x, status)
<1>1. t \in Tasks /\ th[x] \in Thread
  BY DriverTyped
<1>2. c \in Checkpoint /\ CheckpointOK(c)
  BY SnapshotTyped
<1>3. OnlyWrites(t) /\ disk'[t] = c
  BY <1>1, <1>2, DiskSteps DEF Finish, SaveCheckpoint, TaskInv
<1>4. OnlyMoves(x) /\ th'[x].pc \in {"rest", "stampload"}
      /\ (th'[x].pc = "stampload" => th'[x].task = th[x].task)
  <2> DEFINE r == [th[x] EXCEPT !.pc = "stampload", !.result = status]
  <2>1. CASE Leave(x)
    <3>1. OnlyMoves(x) /\ th'[x] = Rest
      BY <2>1, RestIsThread, ThreadSteps, Zenon DEF Leave, TaskInv
    <3> QED
      BY <3>1 DEF Rest
  <2>2. CASE th' = [th EXCEPT ![x].pc = "stampload", ![x].result = status]
    <3>1. r \in Thread /\ r.pc = "stampload" /\ r.task = th[x].task
      BY <1>1 DEF Thread
    <3>2. th' = [th EXCEPT ![x] = r]
      BY <2>2, <1>1 DEF Thread
    <3> QED
      BY <3>1, <3>2, ThreadSteps DEF TaskInv
  <2> QED
    BY <2>1, <2>2 DEF Finish
<1>5. LocksKept(x) /\ lock' \in [Tasks -> Threads \cup {NoThread}]
  BY DEF Finish, Release, LocksKept, TaskInv, TypeOK
<1>6. TypeOK'
  <2>1. token' \in [Tasks -> {"none", "live", "cancelled"}]
    BY DEF Finish, TaskInv, TypeOK
  <2> QED
    BY <1>3, <1>4, <1>5, <2>1 DEF Finish, TaskInv, TypeOK, SessionTypeOK, sessionVars,
       taskHistory, OnlyMoves, OnlyWrites, DisksTyped
<1>7. overwritten' = overwritten
  BY DEF Finish, taskHistory
<1>8. ThreadsInv'
  BY <1>2, <1>3, <1>4, <1>5, <1>7, DriverLeaves DEF TaskInv
<1> QED
  BY <1>6, <1>8 DEF TaskInv

LEMMA StopsKeeps ==
    ASSUME TaskInv, NEW x \in Threads, Drives(x), Stops(x) PROVE TaskInv'
BY FinishKeeps DEF Stops, Ended

\* A step of the loop that writes no checkpoint.
LEMMA LoopStep ==
    ASSUME TaskInv, NEW x \in Threads, Drives(x), NEW r \in Thread,
           th' = [th EXCEPT ![x] = r], r.task = th[x].task, r.route = th[x].route,
           r.pc \in Loop, r.pc = "model" => r.step \in 1..MaxSteps + 1,
           r.pc # "model" => r.step \in Steps,
           UNCHANGED <<disk, lock, overwritten>>
    PROVE  ThreadsInv' /\ OnlyMoves(x)
<1>1. OnlyMoves(x) /\ th'[x] = r
  BY ThreadSteps DEF TaskInv
<1>2. OnlyWrites(th[x].task)
  BY DEF OnlyWrites, DisksTyped, TaskInv, TypeOK
<1> QED
  BY <1>1, <1>2, DriverMoves DEF TaskInv

LEMMA CallModelKeeps ==
    ASSUME TaskInv, NEW x \in Threads, CallModel(x) PROVE TaskInv'
<1>1. Drives(x) /\ th[x].pc = "model"
  BY DEF CallModel, Drives, Loop
<1>2. CASE Finish(x, "FAILED")
  BY <1>1, <1>2, FinishKeeps DEF Ended
<1>3. CASE Stops(x)
  BY <1>1, <1>3, StopsKeeps
<1>4. CASE /\ th[x].step <= MaxSteps
           /\ th' = [th EXCEPT ![x].pc = "answer",
                        ![x].history = IF @ = "prefix" THEN "marked" ELSE @]
           /\ UNCHANGED <<disk, lock, token, identity, bounds, taskHistory, sessionVars>>
  <2> DEFINE h == IF th[x].history = "prefix" THEN "marked" ELSE th[x].history
             r == [th[x] EXCEPT !.pc = "answer", !.history = h]
  <2>1. th[x] \in Thread /\ th[x].step \in 1..MaxSteps + 1
    BY <1>1, DriverTyped
  <2>2. r \in Thread /\ r.task = th[x].task /\ r.route = th[x].route /\ r.pc = "answer"
        /\ r.step = th[x].step
    BY <2>1 DEF Thread, Loop
  <2>3. th[x].step \in Steps
    BY <1>4, <2>1, TaskAssumption DEF Steps
  <2>4. th' = [th EXCEPT ![x] = r]
    BY <1>4, <2>1 DEF Thread
  <2>5. ThreadsInv' /\ OnlyMoves(x)
    BY <1>1, <1>4, <2>2, <2>3, <2>4, LoopStep DEF taskHistory, Loop
  <2> QED
    BY <1>4, <2>5 DEF TaskInv, TypeOK, SessionTypeOK, OnlyMoves, taskHistory, sessionVars
<1> QED
  BY <1>2, <1>3, <1>4 DEF CallModel

LEMMA GotoKeeps ==
    ASSUME TaskInv, NEW x \in Threads, Drives(x), th[x].pc # "model",
           NEW pc \in Loop \ {"model"}, Goto(x, pc),
           UNCHANGED <<disk, lock, token, identity, bounds, taskHistory, sessionVars>>
    PROVE  TaskInv'
<1> DEFINE r == [th[x] EXCEPT !.pc = pc]
<1>1. th[x] \in Thread /\ th[x].step \in Steps
  BY DriverTyped
<1>2. r \in Thread /\ r.task = th[x].task /\ r.route = th[x].route /\ r.pc = pc
      /\ r.step = th[x].step
  BY <1>1 DEF Thread
<1>3. th' = [th EXCEPT ![x] = r]
  BY <1>1 DEF Thread, Goto
<1>4. ThreadsInv' /\ OnlyMoves(x)
  BY <1>1, <1>2, <1>3, LoopStep DEF taskHistory
<1> QED
  BY <1>4 DEF TaskInv, TypeOK, SessionTypeOK, OnlyMoves, taskHistory, sessionVars

LEMMA ModelAnswersKeeps ==
    ASSUME TaskInv, NEW x \in Threads, ModelAnswers(x) PROVE TaskInv'
<1>1. Drives(x) /\ th[x].pc # "model"
  BY DEF ModelAnswers, Drives, Loop
<1>2. CASE Stops(x)
  BY <1>1, <1>2, StopsKeeps
<1>3. CASE Finish(x, "COMPLETED") \/ Finish(x, "AWAITING_CONFIRMATION")
  BY <1>1, <1>3, FinishKeeps DEF Ended
<1>4. CASE /\ Goto(x, "tools")
           /\ UNCHANGED <<disk, lock, token, identity, bounds, taskHistory, sessionVars>>
  BY <1>1, <1>4, GotoKeeps DEF Loop
<1> QED
  BY <1>2, <1>3, <1>4 DEF ModelAnswers

LEMMA NextToolKeeps ==
    ASSUME TaskInv, NEW x \in Threads, NextTool(x) PROVE TaskInv'
<1>1. Drives(x) /\ th[x].pc # "model"
  BY DEF NextTool, Drives, Loop
<1>2. CASE Stops(x)
  BY <1>1, <1>2, StopsKeeps
<1>3. CASE /\ Goto(x, IF th[x].step \in th[x].results THEN "record" ELSE "invoke")
           /\ UNCHANGED <<disk, lock, token, identity, bounds, taskHistory, sessionVars>>
  BY <1>1, <1>3, GotoKeeps DEF Loop
<1> QED
  BY <1>2, <1>3 DEF NextTool

\* A tool runs: its step joins the results the thread holds.
LEMMA ToolRuns ==
    ASSUME TaskInv, NEW x \in Threads, Drives(x), th[x].pc # "model",
           th' = [th EXCEPT ![x].pc = "tools", ![x].results = @ \cup {th[x].step}],
           invoked' = [invoked EXCEPT ![th[x].task] = @ \cup {th[x].step}],
           \/ confirmed' = confirmed
           \/ confirmed' = [confirmed EXCEPT ![th[x].task] = @ \cup {th[x].step}],
           UNCHANGED <<disk, lock, token, identity, overwritten, sessionVars>>
    PROVE  TaskInv'
<1> DEFINE r == [th[x] EXCEPT !.pc = "tools", !.results = @ \cup {th[x].step}]
<1>1. th[x] \in Thread /\ th[x].step \in Steps /\ th[x].task \in Tasks
  BY DriverTyped
<1>2. r \in Thread /\ r.task = th[x].task /\ r.route = th[x].route /\ r.pc = "tools"
      /\ r.step = th[x].step
  BY <1>1 DEF Thread, Loop
<1>3. th' = [th EXCEPT ![x] = r]
  BY <1>1 DEF Thread
<1>4. ThreadsInv' /\ OnlyMoves(x)
  BY <1>1, <1>2, <1>3, LoopStep DEF Loop
<1>5. invoked' \in [Tasks -> SUBSET Steps] /\ confirmed' \in [Tasks -> SUBSET Steps]
  BY <1>1 DEF TaskInv, TypeOK
<1> QED
  BY <1>4, <1>5 DEF TaskInv, TypeOK, SessionTypeOK, OnlyMoves, sessionVars

LEMMA InvokeToolKeeps ==
    ASSUME TaskInv, NEW x \in Threads, InvokeTool(x) PROVE TaskInv'
<1>1. Drives(x) /\ th[x].pc # "model"
  BY DEF InvokeTool, Drives, Loop
<1> QED
  BY <1>1, ToolRuns DEF InvokeTool

LEMMA InvokeConfirmedKeeps ==
    ASSUME TaskInv, NEW x \in Threads, InvokeConfirmed(x) PROVE TaskInv'
<1>1. Drives(x) /\ th[x].pc # "model"
  BY DEF InvokeConfirmed, Drives, Loop
<1> QED
  BY <1>1, ToolRuns DEF InvokeConfirmed

LEMMA RecordStepKeeps ==
    ASSUME TaskInv, NEW x \in Threads, RecordStep(x) PROVE TaskInv'
<1> DEFINE t == th[x].task
           c == Snapshot(x, "RUNNING")
           r == [th[x] EXCEPT !.pc = "model", !.step = @ + 1]
<1>1. Drives(x) /\ th[x].pc # "model"
  BY DEF RecordStep, Drives, Loop
<1>2. th[x] \in Thread /\ th[x].step \in Steps /\ t \in Tasks
  BY <1>1, DriverTyped
<1>3. th[x].step + 1 \in 1..MaxSteps + 1 /\ th[x].step + 1 \in 0..MaxSteps + 1
  BY <1>2, TaskAssumption DEF Steps
<1>4. r \in Thread /\ r.task = th[x].task /\ r.route = th[x].route /\ r.pc = "model"
      /\ r.step = th[x].step + 1
  BY <1>2, <1>3 DEF Thread, Loop
<1>5. th' = [th EXCEPT ![x] = r]
  BY <1>2 DEF Thread, RecordStep
<1>6. OnlyMoves(x) /\ th'[x] = r
  BY <1>4, <1>5, ThreadSteps DEF TaskInv
<1>7. c \in Checkpoint /\ c.status = "RUNNING"
  BY <1>1, SnapshotTyped
<1>8. OnlyWrites(t) /\ disk'[t] = c
  BY <1>2, <1>7, DiskSteps DEF RecordStep, SaveCheckpoint, TaskInv
<1>9. ThreadsInv'
  BY <1>1, <1>3, <1>4, <1>6, <1>7, <1>8, DriverMoves
     DEF TaskInv, RecordStep, taskHistory, Loop
<1> QED
  BY <1>6, <1>8, <1>9 DEF TaskInv, TypeOK, SessionTypeOK, OnlyMoves, OnlyWrites,
     DisksTyped, RecordStep, sessionVars, taskHistory

\* The session keeps a list of tasks, whatever a route tells it.
LEMMA TurnAppended ==
    ASSUME SessionTypeOK, NEW t \in Tasks, AppendTurn(t), UNCHANGED expired
    PROVE  SessionTypeOK'
<1> DEFINE longer == Append(turns, t)
<1>1. longer \in Seq(Tasks) /\ Len(longer) > 0
  BY DEF SessionTypeOK
<1>2. Tail(longer) \in Seq(Tasks)
  BY <1>1
<1>3. Latest(longer) \in Seq(Tasks)
  BY <1>1, <1>2, Zenon DEF Latest
<1>4. turns' \in Seq(Tasks)
  BY <1>3, Zenon DEF AppendTurn
<1> QED
  BY <1>4 DEF AppendTurn, SessionTypeOK

LEMMA TaskRecorded ==
    ASSUME SessionTypeOK, NEW t \in Tasks, NEW status, RecordTask(t, status)
    PROVE  SessionTypeOK'
BY TurnAppended DEF RecordTask, SessionTypeOK

LEMMA TaskFinalized ==
    ASSUME SessionTypeOK, NEW t \in Tasks, NEW status, FinalizeTask(t, status)
    PROVE  SessionTypeOK'
BY TurnAppended DEF FinalizeTask, SessionTypeOK

LEMMA SessionUpset ==
    ASSUME SessionTypeOK, Clear \/ Expire PROVE SessionTypeOK'
<1>1. <<>> \in Seq(Tasks)
  OBVIOUS
<1>2. CASE Clear
  <2>1. turns' \in Seq(Tasks)
    BY <1>1, <1>2, Zenon DEF Clear
  <2> QED
    BY <1>2, <2>1 DEF Clear, SessionTypeOK
<1>3. CASE Expire
  BY <1>3 DEF Expire, SessionTypeOK
<1> QED
  BY <1>2, <1>3

LEMMA StartRunKeeps ==
    ASSUME TaskInv, NEW x \in Threads, NEW t \in Tasks, StartRun(x, t) PROVE TaskInv'
<1> DEFINE me == [Rest EXCEPT !.task = t, !.pc = "model", !.route = "run", !.step = 1]
           c == [status |-> "RUNNING", step |-> 0, results |-> {}, history |-> "prefix",
                 identity |-> identity]
<1>1. 1 \in 1..MaxSteps + 1 /\ 1 \in 0..MaxSteps + 1 /\ 0 \in 0..MaxSteps
  BY TaskAssumption
<1>2. me \in Thread /\ me.pc = "model" /\ me.task = t /\ me.route = "run" /\ me.step = 1
  BY <1>1, RestIsThread DEF Rest, Thread, Loop
<1>3. c \in Checkpoint /\ c.status = "RUNNING"
  BY <1>1 DEF Checkpoint, TaskInv, TypeOK
<1>4. OnlyMoves(x) /\ th'[x] = me
  BY <1>2, ThreadSteps, Zenon DEF StartRun, TaskInv
<1>5. OnlyWrites(t) /\ disk'[t] = c
  BY <1>3, DiskSteps, Zenon DEF StartRun, TaskInv
<1>6. ThreadsInv'
  BY <1>1, <1>2, <1>3, <1>4, <1>5, Joins DEF StartRun, TaskInv, taskHistory
<1>7. token' \in [Tasks -> {"none", "live", "cancelled"}]
  BY DEF StartRun, TaskInv, TypeOK
<1> QED
  BY <1>4, <1>5, <1>6, <1>7 DEF StartRun, TaskInv, TypeOK, SessionTypeOK, OnlyMoves,
     OnlyWrites, DisksTyped, sessionVars, taskHistory

LEMMA ResumeRunningKeeps ==
    ASSUME TaskInv, NEW x \in Threads, NEW t \in Tasks, ResumeRunning(x, t) PROVE TaskInv'
<1> DEFINE c == disk[t]
           me == [Rest EXCEPT !.task = t, !.pc = "model", !.route = "cli",
                    !.step = ResumeAt(c), !.results = c.results, !.history = c.history]
<1>1. c \in Checkpoint /\ c.status = "RUNNING"
  BY DEF ResumeRunning, TaskInv, TypeOK
<1>2. ResumeAt(c) \in 1..MaxSteps + 1 /\ ResumeAt(c) \in 0..MaxSteps + 1
  BY <1>1, TaskAssumption DEF ResumeAt, Checkpoint
<1>3. me \in Thread /\ me.pc = "model" /\ me.task = t /\ me.step = ResumeAt(c)
  BY <1>1, <1>2, RestIsThread DEF Rest, Thread, Loop, Checkpoint
<1>4. OnlyMoves(x) /\ th'[x] = me
  BY <1>3, ThreadSteps, Zenon DEF ResumeRunning, TaskInv
<1>5. lock' \in [Tasks -> Threads \cup {NoThread}] /\ lock'[t] = x
      /\ \A u \in Tasks \ {t} : lock'[u] = lock[u]
  BY DEF ResumeRunning, TaskInv, TypeOK
<1>6. OnlyWrites(t) /\ disk'[t] = c
  BY DEF ResumeRunning, OnlyWrites, DisksTyped, TaskInv, TypeOK
<1>7. th[x].pc = "rest" /\ Busy(t) = {} /\ overwritten' = overwritten
  BY DEF ResumeRunning, taskHistory
<1>8. th'[x].pc = "model" /\ th'[x].task = t /\ th'[x].step \in 1..MaxSteps + 1
  BY <1>2, <1>3, <1>4
<1>9. ThreadsInv'
  BY <1>1, <1>4, <1>5, <1>6, <1>7, <1>8, Joins DEF TaskInv
<1> QED
  BY <1>4, <1>5, <1>6, <1>9 DEF ResumeRunning, TaskInv, TypeOK, SessionTypeOK, OnlyMoves,
     sessionVars, taskHistory

\* A request that finds the checkpoint of its task.
LEMMA AskKeeps ==
    ASSUME TaskInv, NEW x \in Threads, NEW t \in Tasks, AskConfirm(x, t) \/ AskCancel(x, t)
    PROVE  TaskInv'
<1> DEFINE me(route) == [Rest EXCEPT !.task = t, !.pc = "ask", !.route = route]
<1>1. PICK route \in {"confirm", "cancel"} : th' = [th EXCEPT ![x] = me(route)]
  BY Zenon DEF AskConfirm, AskCancel
<1>2. me(route) \in Thread /\ me(route).pc = "ask" /\ me(route).task = t
  BY <1>1, RestIsThread DEF Rest, Thread, Loop
<1>3. OnlyMoves(x) /\ th'[x] = me(route)
  BY <1>1, <1>2, ThreadSteps, Zenon DEF TaskInv
<1>4. disk[t] \in Checkpoint /\ th[x].pc = "rest"
  BY DEF AskConfirm, AskCancel, TaskInv, TypeOK
<1>5. UNCHANGED <<disk, lock, token, identity, bounds, taskHistory, sessionVars>>
  BY DEF AskConfirm, AskCancel
<1>6. ThreadsInv'
  BY <1>2, <1>3, <1>4, <1>5, RouteMoves
     DEF TaskInv, Drives, Loop, Writers, LocksKept, taskHistory
<1> QED
  BY <1>3, <1>5, <1>6 DEF TaskInv, TypeOK, SessionTypeOK, OnlyMoves, taskHistory, sessionVars

\* Under the lock a confirmation is refused, starts, or is failed by its hook.
LEMMA ConfirmKeeps ==
    ASSUME TaskInv, NEW x \in Threads, Confirm(x) PROVE TaskInv'
<1> DEFINE t == th[x].task
           c == disk[t]
           resumed == [Resumed(x, c) EXCEPT !.pc = "confirmed"]
           failed == [Resumed(x, c) EXCEPT !.pc = "stampload", !.result = "FAILED"]
           end == [c EXCEPT !.status = "FAILED"]
<1>1. th[x] \in Thread /\ th[x].pc = "ask" /\ th[x].route = "confirm" /\ LockFree(t)
  BY DEF Confirm, TaskInv, TypeOK
<1>2. t \in Tasks /\ c \in Checkpoint
  BY <1>1 DEF TaskInv, ThreadsInv, ThreadOK, Busies
<1>3. ~Drives(x)
  BY <1>1 DEF Drives, Loop
<1>5. Resumed(x, c) \in Thread /\ Resumed(x, c).task = t
      /\ Resumed(x, c).route = "confirm" /\ Resumed(x, c).step = c.step
  <2>1. c.step \in 0..MaxSteps + 1 /\ c.results \in SUBSET Steps
        /\ c.history \in {"prefix", "marked", "stripped"}
    BY <1>2, TaskAssumption DEF Checkpoint
  <2> QED
    BY <1>1, <2>1 DEF Thread, Resumed
<1>4. UNCHANGED <<token, identity, overwritten, invoked, confirmed, sessionVars>>
  BY DEF Confirm, taskHistory
<1>6. CASE Leave(x) /\ UNCHANGED <<disk, lock>>
  <2>1. OnlyMoves(x) /\ th'[x] = Rest
    BY <1>6, RestIsThread, ThreadSteps, Zenon DEF Leave, TaskInv
  <2>2. ThreadsInv'
    BY <1>3, <1>4, <1>6, <2>1, RouteMoves DEF TaskInv, Rest, Loop, Writers, LocksKept
  <2> QED
    BY <1>4, <1>6, <2>1, <2>2 DEF TaskInv, TypeOK, SessionTypeOK, OnlyMoves, sessionVars
<1>7. CASE /\ Confirmable(c) /\ lock' = [lock EXCEPT ![t] = x]
           /\ th' = [th EXCEPT ![x] = resumed] /\ UNCHANGED disk
  <2>1. c.status = "AWAITING_CONFIRMATION"
    BY <1>7 DEF Confirmable
  <2>2. resumed \in Thread /\ resumed.pc = "confirmed" /\ resumed.task = t
        /\ resumed.route = "confirm" /\ resumed.step = c.step
    BY <1>5 DEF Thread, Loop
  <2>3. OnlyMoves(x) /\ th'[x] = resumed
    BY <1>7, <2>2, ThreadSteps, Zenon DEF TaskInv
  <2>4. th'[x].pc = "confirmed" /\ th'[x].task = t /\ th'[x].route # "run"
        /\ th'[x].step = c.step
    BY <2>2, <2>3
  <2>5. ThreadsInv'
    BY <1>1, <1>4, <1>7, <2>1, <2>3, <2>4, TakesLock DEF TaskInv
  <2>6. lock' \in [Tasks -> Threads \cup {NoThread}]
    BY <1>7 DEF TaskInv, TypeOK
  <2> QED
    BY <1>4, <1>7, <2>3, <2>5, <2>6 DEF TaskInv, TypeOK, SessionTypeOK, OnlyMoves, sessionVars
<1>8. CASE /\ Confirmable(c) /\ th' = [th EXCEPT ![x] = failed]
           /\ disk' = [disk EXCEPT ![t] = end] /\ UNCHANGED lock
  <2>1. c.status = "AWAITING_CONFIRMATION"
    BY <1>8 DEF Confirmable
  <2>2. failed \in Thread /\ failed.pc = "stampload" /\ failed.task = t
    BY <1>5 DEF Thread, Loop, Ended
  <2>3. OnlyMoves(x) /\ th'[x] = failed
    BY <1>8, <2>2, ThreadSteps, Zenon DEF TaskInv
  <2>4. end \in Checkpoint /\ CheckpointOK(end)
    BY <1>2 DEF Checkpoint, Ended, CheckpointOK
  <2>5. OnlyWrites(t) /\ disk'[t] = end
    BY <1>2, <1>8, <2>4, DiskSteps, Zenon DEF TaskInv
  <2>6. th'[x].pc = "stampload" /\ th'[x].task = t
    BY <2>2, <2>3
  <2>7. ThreadsInv'
    BY <1>1, <1>4, <1>8, <2>1, <2>3, <2>4, <2>5, <2>6, EndsAwaiting DEF TaskInv
  <2> QED
    BY <1>4, <1>8, <2>3, <2>5, <2>7 DEF TaskInv, TypeOK, SessionTypeOK, OnlyMoves,
       OnlyWrites, DisksTyped, sessionVars
<1> QED
  BY <1>6, <1>7, <1>8, Zenon DEF Confirm

LEMMA CancelKeeps ==
    ASSUME TaskInv, NEW x \in Threads, Cancel(x) PROVE TaskInv'
<1> DEFINE t == th[x].task
           c == disk[t]
           r == [th[x] EXCEPT !.pc = "memory", !.result = "CANCELLED"]
           end == [c EXCEPT !.status = "CANCELLED", !.identity = identity]
<1>1. th[x] \in Thread /\ th[x].pc = "ask" /\ LockFree(t)
  BY DEF Cancel, TaskInv, TypeOK
<1>2. t \in Tasks /\ c \in Checkpoint
  BY <1>1 DEF TaskInv, ThreadsInv, ThreadOK, Busies
<1>3. ~Drives(x)
  BY <1>1 DEF Drives, Loop
<1>4. UNCHANGED <<lock, token, identity, overwritten, invoked, confirmed, sessionVars>>
  BY DEF Cancel
<1>5. CASE Leave(x) /\ UNCHANGED disk
  <2>1. OnlyMoves(x) /\ th'[x] = Rest
    BY <1>5, RestIsThread, ThreadSteps, Zenon DEF Leave, TaskInv
  <2>2. ThreadsInv'
    BY <1>3, <1>4, <1>5, <2>1, RouteMoves DEF TaskInv, Rest, Loop, Writers, LocksKept
  <2> QED
    BY <1>4, <1>5, <2>1, <2>2 DEF TaskInv, TypeOK, SessionTypeOK, OnlyMoves, sessionVars
<1>6. CASE /\ c.status = "AWAITING_CONFIRMATION" /\ disk' = [disk EXCEPT ![t] = end]
           /\ th' = [th EXCEPT ![x].pc = "memory", ![x].result = "CANCELLED"]
  <2>1. r \in Thread /\ r.pc = "memory" /\ r.task = t
    BY <1>1 DEF Thread, Loop, Ended
  <2>2. th' = [th EXCEPT ![x] = r]
    BY <1>1, <1>6 DEF Thread
  <2>3. OnlyMoves(x) /\ th'[x] = r
    BY <2>1, <2>2, ThreadSteps, Zenon DEF TaskInv
  <2>4. end \in Checkpoint /\ CheckpointOK(end)
    BY <1>2 DEF Checkpoint, Ended, CheckpointOK, TaskInv, TypeOK
  <2>5. OnlyWrites(t) /\ disk'[t] = end
    BY <1>2, <1>6, <2>4, DiskSteps, Zenon DEF TaskInv
  <2>6. th'[x].pc = "memory" /\ th'[x].task = t
    BY <2>1, <2>3
  <2>7. ThreadsInv'
    BY <1>1, <1>4, <1>6, <2>3, <2>4, <2>5, <2>6, EndsAwaiting DEF TaskInv
  <2> QED
    BY <1>4, <2>3, <2>5, <2>7 DEF TaskInv, TypeOK, SessionTypeOK, OnlyMoves,
       OnlyWrites, DisksTyped, sessionVars
<1> QED
  BY <1>5, <1>6, Zenon DEF Cancel

\* A route reads the checkpoint of its task into its copy.
LEMMA LoadKeeps ==
    ASSUME TaskInv, NEW x \in Threads, th[x].pc \in {"stampload", "stripload"},
           NEW pc \in Writers, th' = [th EXCEPT ![x].pc = pc, ![x].copy = disk[th[x].task]],
           UNCHANGED <<disk, lock, token, identity, overwritten, invoked, confirmed,
                       sessionVars>>
    PROVE  TaskInv'
<1> DEFINE t == th[x].task
           r == [th[x] EXCEPT !.pc = pc, !.copy = disk[t]]
<1>1. th[x] \in Thread /\ t \in Tasks /\ disk[t] \in Checkpoint /\ CheckpointOK(disk[t])
  BY DEF TaskInv, TypeOK, ThreadsInv, ThreadOK, Busies, DiskOK
<1>2. r \in Thread /\ r.pc = pc /\ r.task = t /\ r.copy = disk[t]
  BY <1>1 DEF Thread, Writers
<1>3. th' = [th EXCEPT ![x] = r]
  BY <1>1 DEF Thread
<1>4. OnlyMoves(x) /\ th'[x] = r
  BY <1>2, <1>3, ThreadSteps, Zenon DEF TaskInv
<1>5. th'[x].pc = pc /\ th'[x].task = t /\ th'[x].copy = disk[t]
  BY <1>2, <1>4
<1>6. ThreadsInv'
  BY <1>1, <1>4, <1>5, RouteMoves DEF TaskInv, Drives, Loop, Writers, LocksKept
<1> QED
  BY <1>4, <1>6 DEF TaskInv, TypeOK, SessionTypeOK, OnlyMoves, sessionVars

\* A route is done with its request, or goes on to its next step.
LEMMA RouteGoes ==
    ASSUME TypeOK, ThreadsInv, NEW x \in Threads, th[x].pc \in {"memory", "stripload"},
           Leave(x) \/ Goto(x, "stripload"), UNCHANGED <<disk, lock, overwritten>>
    PROVE  OnlyMoves(x) /\ ThreadsInv'
<1> DEFINE r == [th[x] EXCEPT !.pc = "stripload"]
<1>1. th[x] \in Thread /\ ~Drives(x) /\ th[x].task \in Tasks /\ disk[th[x].task] \in Checkpoint
  BY DEF TypeOK, ThreadsInv, ThreadOK, Busies, Drives, Loop
<1>2. CASE Leave(x)
  <2>1. OnlyMoves(x) /\ th'[x] = Rest
    BY <1>2, RestIsThread, ThreadSteps, Zenon DEF Leave
  <2> QED
    BY <1>1, <2>1, RouteMoves DEF Rest, Loop, Writers, LocksKept
<1>3. CASE Goto(x, "stripload")
  <2>1. r \in Thread /\ r.pc = "stripload" /\ r.task = th[x].task
    BY <1>1 DEF Thread
  <2>2. th' = [th EXCEPT ![x] = r]
    BY <1>1, <1>3 DEF Thread, Goto
  <2>3. OnlyMoves(x) /\ th'[x] = r
    BY <2>1, <2>2, ThreadSteps, Zenon
  <2>4. th'[x].pc = "stripload" /\ th'[x].task = th[x].task
    BY <2>1, <2>3
  <2> QED
    BY <1>1, <2>3, <2>4, RouteMoves DEF Loop, Writers, LocksKept
<1> QED
  BY <1>2, <1>3

LEMMA RememberKeeps ==
    ASSUME TaskInv, NEW x \in Threads, Remember(x) PROVE TaskInv'
<1>1. th[x].task \in Tasks
  BY DEF Remember, TaskInv, ThreadsInv, ThreadOK, Busies
<1>2. OnlyMoves(x) /\ ThreadsInv'
  BY RouteGoes DEF Remember, TaskInv
<1>3. SessionTypeOK'
  BY <1>1, TaskRecorded DEF Remember, TaskInv, TypeOK, SessionTypeOK, sessionVars
<1> QED
  BY <1>2, <1>3 DEF Remember, TaskInv, TypeOK, OnlyMoves

LEMMA FinalizeKeeps ==
    ASSUME TaskInv, NEW x \in Threads, Finalize(x) PROVE TaskInv'
<1>1. th[x].task \in Tasks
  BY DEF Finalize, TaskInv, ThreadsInv, ThreadOK, Busies
<1>2. OnlyMoves(x) /\ ThreadsInv'
  BY RouteGoes DEF Finalize, TaskInv
<1>3. SessionTypeOK'
  BY <1>1, TaskFinalized DEF Finalize, TaskInv, TypeOK, SessionTypeOK, sessionVars
<1> QED
  BY <1>2, <1>3 DEF Finalize, TaskInv, TypeOK, OnlyMoves

LEMMA StampLoadKeeps ==
    ASSUME TaskInv, NEW x \in Threads, StampLoad(x) PROVE TaskInv'
BY LoadKeeps DEF StampLoad, Writers, taskHistory

LEMMA StripLoadKeeps ==
    ASSUME TaskInv, NEW x \in Threads, StripLoad(x) PROVE TaskInv'
<1>1. CASE Leave(x)
  <2>1. OnlyMoves(x) /\ ThreadsInv'
    BY <1>1, RouteGoes DEF StripLoad, TaskInv
  <2> QED
    BY <2>1 DEF StripLoad, TaskInv, TypeOK, SessionTypeOK, OnlyMoves, sessionVars
<1>2. CASE th' = [th EXCEPT ![x].pc = "stripsave", ![x].copy = disk[th[x].task]]
  BY <1>2, LoadKeeps DEF StripLoad, Writers
<1> QED
  BY <1>1, <1>2 DEF StripLoad

\* A route writes its copy back, with the history its step leaves.
LEMMA WriteBackKeeps ==
    ASSUME TaskInv, NEW x \in Threads, th[x].pc \in Writers,
           NEW history \in {"prefix", "marked", "stripped"}, WriteBack(x, history),
           OnlyMoves(x), th'[x].pc \in {"rest", "memory"},
           th'[x].pc = "memory" => th'[x].task = th[x].task,
           UNCHANGED <<lock, token, identity, invoked, confirmed, sessionVars>>
    PROVE  TaskInv'
<1> DEFINE t == th[x].task
           c == [th[x].copy EXCEPT !.history = history]
<1>1. t \in Tasks /\ th[x].copy \in Checkpoint /\ CheckpointOK(th[x].copy)
  BY DEF TaskInv, ThreadsInv, ThreadOK, Busies, Writers
<1>2. c \in Checkpoint /\ c.status = th[x].copy.status /\ CheckpointOK(c)
  BY <1>1 DEF Checkpoint, CheckpointOK
<1>3. OnlyWrites(t) /\ disk'[t] = c
  BY <1>1, <1>2, DiskSteps, Zenon DEF WriteBack, TaskInv
<1>4. overwritten \subseteq overwritten' /\ (disk[t] # th[x].copy => t \in overwritten')
  BY DEF WriteBack
<1>5. disk'[t].status = disk[t].status \/ t \in overwritten'
  BY <1>2, <1>3, <1>4
<1>6. ThreadsInv'
  BY <1>2, <1>3, <1>4, <1>5, WriterSaves DEF TaskInv
<1> QED
  BY <1>3, <1>6 DEF TaskInv, TypeOK, SessionTypeOK, OnlyMoves, OnlyWrites, DisksTyped,
     sessionVars

LEMMA StampSaveKeeps ==
    ASSUME TaskInv, NEW x \in Threads, StampSave(x) PROVE TaskInv'
<1> DEFINE r == [th[x] EXCEPT !.pc = "memory", !.copy = NoTask]
<1>1. th[x] \in Thread /\ th[x].pc \in Writers /\ th[x].copy \in Checkpoint
  BY DEF StampSave, Writers, TaskInv, TypeOK, ThreadsInv, ThreadOK
<1>2. r \in Thread /\ r.pc = "memory" /\ r.task = th[x].task
  BY <1>1 DEF Thread
<1>3. th' = [th EXCEPT ![x] = r]
  BY <1>1 DEF Thread, StampSave
<1>4. OnlyMoves(x) /\ th'[x] = r
  BY <1>2, <1>3, ThreadSteps, Zenon DEF TaskInv
<1>5. th[x].copy.history \in {"prefix", "marked", "stripped"}
  BY <1>1 DEF Checkpoint
<1>6. WriteBack(x, th[x].copy.history)
      /\ UNCHANGED <<lock, token, identity, invoked, confirmed, sessionVars>>
  BY DEF StampSave
<1> QED
  BY <1>1, <1>2, <1>4, <1>5, <1>6, WriteBackKeeps

LEMMA StripSaveKeeps ==
    ASSUME TaskInv, NEW x \in Threads, StripSave(x) PROVE TaskInv'
<1>1. th[x].pc \in Writers
  BY DEF StripSave, Writers
<1>2. OnlyMoves(x) /\ th'[x] = Rest
  BY RestIsThread, ThreadSteps, Zenon DEF StripSave, Leave, TaskInv
<1>3. th'[x].pc = "rest"
  BY <1>2 DEF Rest
<1>4. WriteBack(x, "stripped")
      /\ UNCHANGED <<lock, token, identity, invoked, confirmed, sessionVars>>
  BY DEF StripSave
<1> QED
  BY <1>1, <1>2, <1>3, <1>4, WriteBackKeeps

LEMMA SaveRaisesKeeps ==
    ASSUME TaskInv, NEW x \in Threads, SaveRaises(x) PROVE TaskInv'
<1>1. OnlyMoves(x) /\ th'[x] = Rest
  BY RestIsThread, ThreadSteps, Zenon DEF SaveRaises, Leave, TaskInv
<1>2. th'[x].pc = "rest"
  BY <1>1 DEF Rest
<1>3. LocksKept(x) /\ lock' \in [Tasks -> Threads \cup {NoThread}]
  BY DEF SaveRaises, Release, LocksKept, TaskInv, TypeOK
<1>4. UNCHANGED <<disk, token, identity, overwritten, invoked, confirmed, sessionVars>>
  BY DEF SaveRaises
<1>5. OnlyWrites(th[x].task)
  BY <1>4 DEF OnlyWrites, DisksTyped, TaskInv, TypeOK
<1>6. ThreadsInv'
  <2>1. CASE Drives(x)
    BY <1>1, <1>2, <1>3, <1>4, <1>5, <2>1, DriverLeaves DEF TaskInv
  <2>2. CASE ~Drives(x)
    BY <1>1, <1>2, <1>3, <1>4, <2>2, RouteMoves DEF TaskInv, Loop, Writers
  <2> QED
    BY <2>1, <2>2
<1> QED
  BY <1>1, <1>3, <1>4, <1>6 DEF TaskInv, TypeOK, SessionTypeOK, OnlyMoves, sessionVars

\* After a crash nobody drives anything.
LEMMA CrashKeeps ==
    ASSUME TaskInv, Crash PROVE TaskInv'
<1>1. th' = [x \in Threads |-> Rest] /\ lock' = [t \in Tasks |-> NoThread]
      /\ token' = [t \in Tasks |-> "none"]
      /\ UNCHANGED <<disk, identity, overwritten, invoked, confirmed, sessionVars>>
  BY DEF Crash
<1>2. TypeOK'
  BY <1>1, RestIsThread DEF TaskInv, TypeOK, SessionTypeOK, sessionVars
<1>3. \A x \in Threads : th'[x].pc = "rest"
  BY <1>1 DEF Rest
<1>4. DiskOK'
  BY <1>1 DEF TaskInv, ThreadsInv, DiskOK, CheckpointOK
<1> QED
  BY <1>2, <1>3, <1>4 DEF TaskInv, ThreadsInv, ThreadOK, HoldsLock, RunsAlone, NotEnded,
     Drives, Busies, Loop, Writers

LEMMA SurroundingsKeep ==
    ASSUME TaskInv, (\E t \in Tasks : RequestCancel(t)) \/ SwitchMode \/ UpsetSession
    PROVE  TaskInv'
<1>1. CASE \E t \in Tasks : RequestCancel(t)
  BY <1>1, Untouched DEF RequestCancel, TaskInv, TypeOK, SessionTypeOK, taskHistory, sessionVars
<1>2. CASE SwitchMode
  BY <1>2, Untouched DEF SwitchMode, TaskInv, TypeOK, SessionTypeOK, taskHistory, sessionVars
<1>3. CASE UpsetSession
  BY <1>3, Untouched, SessionUpset DEF UpsetSession, TaskInv, TypeOK, taskHistory
<1> QED
  BY <1>1, <1>2, <1>3

--------------------------------------------------------------------------------
(* The invariant                                                           *)

LEMMA InitTaskInv == Init => TaskInv
<1> SUFFICES ASSUME Init PROVE TaskInv
  OBVIOUS
<1>1. <<>> \in Seq(Tasks)
  OBVIOUS
<1>2. turns \in Seq(Tasks)
  BY <1>1, Zenon DEF Init, SessionInit
<1>3. TypeOK
  BY <1>2, RestIsThread DEF Init, SessionInit, TypeOK, SessionTypeOK
<1>4. \A x \in Threads : th[x].pc = "rest"
  BY DEF Init, Rest
<1>5. DiskOK
  BY DEF Init, DiskOK, CheckpointOK, NoTask
<1> QED
  BY <1>3, <1>4, <1>5 DEF TaskInv, ThreadsInv, ThreadOK, HoldsLock, RunsAlone, NotEnded,
     Drives, Busies, Loop, Writers

LEMMA NextTaskInv == TaskInv /\ [Next]_vars => TaskInv'
<1> SUFFICES ASSUME TaskInv, [Next]_vars PROVE TaskInv'
  OBVIOUS
<1>1. ASSUME NEW x \in Threads, Proceed(x) PROVE TaskInv'
  BY <1>1, CallModelKeeps, ModelAnswersKeeps, NextToolKeeps, InvokeToolKeeps,
     RecordStepKeeps, InvokeConfirmedKeeps, StampLoadKeeps, StampSaveKeeps, RememberKeeps,
     FinalizeKeeps, StripLoadKeeps, StripSaveKeeps DEF Proceed
<1>2. ASSUME NEW x \in Threads, Confirm(x) \/ Cancel(x) \/ SaveRaises(x) PROVE TaskInv'
  BY <1>2, ConfirmKeeps, CancelKeeps, SaveRaisesKeeps
<1>3. ASSUME NEW x \in Threads, NEW t \in Tasks,
             StartRun(x, t) \/ AskConfirm(x, t) \/ AskCancel(x, t) \/ ResumeRunning(x, t)
      PROVE  TaskInv'
  BY <1>3, StartRunKeeps, AskKeeps, ResumeRunningKeeps
<1>4. CASE (\E t \in Tasks : RequestCancel(t)) \/ SwitchMode \/ UpsetSession
  BY <1>4, SurroundingsKeep
<1>5. CASE Crash
  BY <1>5, CrashKeeps
<1>6. CASE UNCHANGED vars
  BY <1>6, Untouched DEF vars, taskHistory, TaskInv, TypeOK, SessionTypeOK, sessionVars
<1> QED
  BY <1>1, <1>2, <1>3, <1>4, <1>5, <1>6 DEF Next

\* Every reachable state types the tasks and keeps their drivers apart: the
\* invariant the theorems below rest on.
THEOREM TaskInvHolds == Spec => []TaskInv
<1>1. Init => TaskInv
  BY InitTaskInv
<1>2. TaskInv /\ [Next]_vars => TaskInv'
  BY NextTaskInv
<1> QED
  BY <1>1, <1>2, PTL DEF Spec

--------------------------------------------------------------------------------
(* What follows for the tasks                                              *)

\* Threads, checkpoints, locks and the session keep their types over any
\* number of runs, confirmations, crashes and failing writes.
THEOREM TypesHold == Spec => []TypeOK
BY TaskInvHolds, PTL DEF TaskInv

LEMMA AtMostOne ==
    ASSUME NEW S, \A x, y \in S : x = y PROVE Cardinality(S) <= 1
<1>1. CASE S = {}
  <2>1. Cardinality(S) = 0
    BY <1>1, FS_EmptySet, Zenon
  <2> QED
    BY <2>1
<1>2. CASE S # {}
  <2>1. PICK x \in S : TRUE
    BY <1>2
  <2>2. S = {x}
    BY <2>1
  <2>3. Cardinality({x}) = 1
    BY FS_Singleton, Zenon
  <2> QED
    BY <2>2, <2>3
<1> QED
  BY <1>1, <1>2

LEMMA OneDriverFollows == TaskInv => OneDriver
<1> SUFFICES ASSUME TaskInv, NEW t \in Tasks
             PROVE  Cardinality({x \in Busy(t) : th[x].pc \in Loop}) <= 1
  BY DEF OneDriver
<1>1. \A x, y \in {z \in Busy(t) : th[z].pc \in Loop} : x = y
  BY SoleDriver DEF Busy, Drives, TaskInv
<1> QED
  BY <1>1, AtMostOne

\* No schedule of requests, restarts and confirmations puts two threads into
\* the loop of one task (_resume_lock; run relies on its checkpoint alone).
THEOREM OneDriverHolds == Spec => []OneDriver
BY TaskInvHolds, OneDriverFollows, PTL

\* A thread of the loop writes the checkpoint of no task that has ended.
LEMMA DriverSpares ==
    ASSUME TaskInv, NEW x \in Threads, Drives(x), NEW c,
           disk' = [disk EXCEPT ![th[x].task] = c], overwritten' = overwritten,
           NEW t \in Tasks, disk[t].status \in Ended, t \notin overwritten'
    PROVE  disk'[t] = disk[t]
<1>1. th[x].task # t
  BY DEF TaskInv, ThreadsInv, NotEnded, Ended
<1> QED
  BY <1>1 DEF TaskInv, TypeOK

LEMMA FinishSpares ==
    ASSUME TaskInv, NEW x \in Threads, Drives(x), NEW status, Finish(x, status),
           NEW t \in Tasks, disk[t].status \in Ended, t \notin overwritten'
    PROVE  disk'[t] = disk[t]
BY DriverSpares DEF Finish, SaveCheckpoint, taskHistory

LEMMA LoopSpares ==
    ASSUME TaskInv, NEW x \in Threads,
           \/ CallModel(x) \/ ModelAnswers(x) \/ NextTool(x)
           \/ InvokeTool(x) \/ RecordStep(x) \/ InvokeConfirmed(x),
           NEW t \in Tasks, disk[t].status \in Ended, t \notin overwritten'
    PROVE  disk'[t] = disk[t]
<1>1. Drives(x)
  BY DEF CallModel, ModelAnswers, NextTool, InvokeTool, RecordStep, InvokeConfirmed,
         Drives, Loop
<1>2. CASE UNCHANGED disk
  BY <1>2
<1>3. CASE \E status : Finish(x, status)
  BY <1>1, <1>3, FinishSpares
<1>4. CASE RecordStep(x)
  BY <1>1, <1>4, DriverSpares DEF RecordStep, SaveCheckpoint, taskHistory
<1> QED
  BY <1>2, <1>3, <1>4 DEF CallModel, ModelAnswers, NextTool, Stops, InvokeTool,
     InvokeConfirmed

LEMMA WriteBackSpares ==
    ASSUME TaskInv, NEW x \in Threads, th[x].pc \in Writers, NEW history,
           WriteBack(x, history), NEW t \in Tasks, disk[t].status \in Ended,
           t \notin overwritten'
    PROVE  disk'[t].status = disk[t].status
<1> DEFINE u == th[x].task
           c == [th[x].copy EXCEPT !.history = history]
<1>1. u \in Tasks /\ th[x].copy \in Checkpoint
  BY DEF TaskInv, ThreadsInv, ThreadOK, Busies, Writers
<1>2. disk' = [disk EXCEPT ![u] = c] /\ (disk[u] # th[x].copy => u \in overwritten')
  BY DEF WriteBack
<1>3. c.status = th[x].copy.status
  BY <1>1 DEF Checkpoint
<1>4. CASE t = u
  BY <1>1, <1>2, <1>3, <1>4 DEF TaskInv, TypeOK
<1>5. CASE t # u
  BY <1>2, <1>5 DEF TaskInv, TypeOK
<1> QED
  BY <1>4, <1>5

LEMMA EndStays ==
    ASSUME TaskInv, [Next]_vars, NEW t \in Tasks, disk[t].status \in Ended,
           t \notin overwritten'
    PROVE  disk'[t].status = disk[t].status
<1>1. ASSUME NEW x \in Threads, Proceed(x) PROVE disk'[t].status = disk[t].status
  <2>1. CASE StampSave(x) \/ StripSave(x)
    BY <2>1, WriteBackSpares DEF StampSave, StripSave, Writers
  <2>2. CASE StampLoad(x) \/ StripLoad(x) \/ Remember(x) \/ Finalize(x)
    BY <2>2 DEF StampLoad, StripLoad, Remember, Finalize
  <2>3. CASE \/ CallModel(x) \/ ModelAnswers(x) \/ NextTool(x)
             \/ InvokeTool(x) \/ RecordStep(x) \/ InvokeConfirmed(x)
    <3>1. disk'[t] = disk[t]
      BY <2>3, LoopSpares
    <3> QED
      BY <3>1
  <2> QED
    BY <1>1, <2>1, <2>2, <2>3 DEF Proceed
<1>2. ASSUME NEW x \in Threads, Confirm(x) PROVE disk'[t].status = disk[t].status
  <2>1. UNCHANGED disk \/ (Confirmable(disk[th[x].task])
          /\ disk' = [disk EXCEPT ![th[x].task] =
                        [disk[th[x].task] EXCEPT !.status = "FAILED"]])
    BY <1>2, Zenon DEF Confirm
  <2> QED
    BY <2>1 DEF Confirmable, Ended, TaskInv, TypeOK
<1>3. ASSUME NEW x \in Threads, Cancel(x) PROVE disk'[t].status = disk[t].status
  <2>1. UNCHANGED disk \/ (disk[th[x].task].status = "AWAITING_CONFIRMATION"
          /\ \E c : disk' = [disk EXCEPT ![th[x].task] = c])
    BY <1>3, Zenon DEF Cancel
  <2> QED
    BY <2>1 DEF Ended, TaskInv, TypeOK
<1>4. ASSUME NEW x \in Threads, NEW u \in Tasks, StartRun(x, u)
      PROVE  disk'[t].status = disk[t].status
  <2>1. disk[u] = NoTask /\ \E c : disk' = [disk EXCEPT ![u] = c]
    BY <1>4, Zenon DEF StartRun
  <2>2. t # u
    BY <2>1 DEF NoTask, Ended
  <2> QED
    BY <2>1, <2>2 DEF TaskInv, TypeOK
<1>5. ASSUME NEW x \in Threads, NEW u \in Tasks,
             AskConfirm(x, u) \/ AskCancel(x, u) \/ ResumeRunning(x, u) \/ SaveRaises(x)
      PROVE  disk'[t].status = disk[t].status
  BY <1>5 DEF AskConfirm, AskCancel, ResumeRunning, SaveRaises
<1>6. CASE \/ \E u \in Tasks : RequestCancel(u)
           \/ SwitchMode \/ UpsetSession \/ Crash \/ UNCHANGED vars
  BY <1>6 DEF RequestCancel, SwitchMode, UpsetSession, Crash, vars
<1> QED
  BY <1>1, <1>2, <1>3, <1>4, <1>5, <1>6 DEF Next

\* A task that COMPLETED, FAILED or was CANCELLED keeps that end, however many
\* late confirmations, cancellations and resumptions arrive, unless a route
\* saved an older copy over it (overwritten).
THEOREM EndIsFinalHolds == Spec => EndIsFinal
<1>1. TaskInv /\ [Next]_vars =>
        [\A t \in Tasks :
           (disk[t] # NoTask /\ disk[t].status \in Ended /\ t \notin overwritten')
              => disk'[t].status = disk[t].status]_vars
  BY EndStays
<1> QED
  BY <1>1, TaskInvHolds, PTL DEF Spec, EndIsFinal

--------------------------------------------------------------------------------
(* The tools of a task                                                     *)

\* The threads in the loop of a task.
Drivers(t) == {x \in Threads : Drives(x) /\ th[x].task = t}

\* Where a driver is relative to the checkpoint of its task: a step behind it
\* is recorded, or the step that awaits confirmation is the one it is in.
AtStep(r, c) ==
    \/ c.status = "RUNNING" /\ r.pc # "confirmed" /\ r.step = c.step + 1
    \/ /\ c.status = "AWAITING_CONFIRMATION" /\ r.step = c.step
       /\ \/ r.pc = "confirmed"
          \/ r.pc \in {"tools", "record"} /\ r.step \in r.results

UpTo(S, n)   == \A s \in S : s <= n
Before(S, n) == \A s \in S : s < n

\* A driver carries the results of all the tools that ran.
Carries(r, c, ran) ==
    /\ r.results = ran /\ c.results \subseteq ran /\ UpTo(ran, r.step)
    /\ r.pc \in {"model", "answer", "confirmed"} => Before(ran, r.step)

\* Nothing in a checkpoint is of the step that is pending.
FileOK(c) ==
    /\ c.status = "RUNNING" => UpTo(c.results, c.step)
    /\ c.status = "AWAITING_CONFIRMATION" => Before(c.results, c.step)

Recorded(c) == IF c = NoTask THEN {} ELSE c.results
Sound(t)    == t \notin overwritten \cup torn

ToolsOK(t) ==
    /\ \A x \in Drivers(t) :
          /\ t \notin overwritten => AtStep(th[x], disk[t])
          /\ Sound(t) => Carries(th[x], disk[t], invoked[t])
    /\ Sound(t) => /\ confirmed[t] \subseteq invoked[t] /\ FileOK(disk[t])
                   /\ Drivers(t) = {} => invoked[t] = Recorded(disk[t])

ToolsInv == ConfirmedOnce /\ \A t \in Tasks : ToolsOK(t)

\* What a step leaves of a task it is not about.
SameRecord(c, d) ==
    d.status = c.status /\ d.step = c.step /\ d.results = c.results /\ Recorded(d) = Recorded(c)
HistoryGrows == overwritten \subseteq overwritten' /\ torn \subseteq torn'
ToolsOnly(t) ==
    \A u \in Tasks \ {t} :
        disk'[u] = disk[u] /\ invoked'[u] = invoked[u] /\ confirmed'[u] = confirmed[u]

LEMMA DriversAreOne ==
    ASSUME TaskInv, NEW x \in Threads, Drives(x) PROVE Drivers(th[x].task) = {x}
BY SoleDriver DEF TaskInv, Drivers

LEMMA ToolsElsewhere ==
    ASSUME NEW x \in Threads, OnlyMoves(x), NEW t \in Tasks, ToolsOK(t), HistoryGrows,
           x \notin Drivers(t), x \notin Drivers(t)',
           t \notin overwritten' => SameRecord(disk[t], disk'[t]),
           invoked'[t] = invoked[t], confirmed'[t] = confirmed[t]
    PROVE  ToolsOK(t)'
<1>1. Drivers(t)' = Drivers(t) /\ \A y \in Drivers(t) : th'[y] = th[y]
  BY DEF OnlyMoves, Drivers, Drives
<1>2. ASSUME NEW y \in Drivers(t)', t \notin overwritten'
      PROVE  /\ AtStep(th'[y], disk'[t])
             /\ Sound(t)' => Carries(th'[y], disk'[t], invoked'[t])
  BY <1>1, <1>2 DEF ToolsOK, AtStep, Carries, SameRecord, Sound, HistoryGrows
<1>3. ASSUME Sound(t)'
      PROVE  /\ confirmed'[t] \subseteq invoked'[t] /\ FileOK(disk'[t])
             /\ Drivers(t)' = {} => invoked'[t] = Recorded(disk'[t])
  BY <1>1, <1>3 DEF ToolsOK, FileOK, SameRecord, Sound, HistoryGrows
<1> QED
  BY <1>2, <1>3 DEF ToolsOK, Sound

\* A step of one thread that is about one task.
LEMMA ToolsStep ==
    ASSUME ToolsInv, NEW x \in Threads, OnlyMoves(x), HistoryGrows, NEW t \in Tasks,
           ToolsOnly(t), ToolsOK(t)', ConfirmedOnce',
           Drives(x) => th[x].task = t, Drives(x)' => th'[x].task = t
    PROVE  ToolsInv'
<1>1. ASSUME NEW u \in Tasks \ {t} PROVE ToolsOK(u)'
  <2>1. x \notin Drivers(u) /\ x \notin Drivers(u)'
    BY DEF Drivers
  <2> QED
    BY <2>1, ToolsElsewhere DEF ToolsInv, ToolsOnly, SameRecord
<1> QED
  BY <1>1 DEF ToolsInv

\* A step outside the loop, which leaves the record of its task as it is.
LEMMA ToolsAside ==
    ASSUME ToolsInv, NEW x \in Threads, OnlyMoves(x), HistoryGrows, NEW t \in Tasks,
           ToolsOnly(t), ~Drives(x), ~Drives(x)',
           t \notin overwritten' => SameRecord(disk[t], disk'[t]),
           UNCHANGED <<invoked, confirmed, twice>>
    PROVE  ToolsInv'
<1>1. ToolsOK(t)'
  <2>1. x \notin Drivers(t) /\ x \notin Drivers(t)'
    BY DEF Drivers
  <2> QED
    BY <2>1, ToolsElsewhere DEF ToolsInv
<1>2. ConfirmedOnce'
  BY DEF ToolsInv, ConfirmedOnce, HistoryGrows
<1> QED
  BY <1>1, <1>2, ToolsStep

\* A driver stays in the loop, or a thread enters it alone.
LEMMA ToolsDriven ==
    ASSUME TaskInv', ToolsInv, NEW x \in Threads, OnlyMoves(x), HistoryGrows, Drives(x)',
           NEW t \in Tasks, t = th'[x].task, ToolsOnly(t), Drives(x) => th[x].task = t,
           t \notin overwritten' => AtStep(th'[x], disk'[t]),
           Sound(t)' => /\ Carries(th'[x], disk'[t], invoked'[t])
                        /\ confirmed'[t] \subseteq invoked'[t] /\ FileOK(disk'[t]),
           ConfirmedOnce'
    PROVE  ToolsInv'
<1>1. Drivers(t)' = {x}
  <2>1. \A y \in Threads : Drives(y)' /\ th'[y].task = t => y = x
    <3> SUFFICES ASSUME NEW y \in Threads, Drives(y)', th'[y].task = t PROVE y = x
      OBVIOUS
    <3> ThreadsInv'
      BY DEF TaskInv
    <3>1. Busies(x)' /\ Busies(y)' /\ th'[x].pc # "ask" /\ th'[y].pc # "ask"
      BY DEF Drives, Busies, Loop
    <3>2. CASE th'[x].route = "run" \/ th'[y].route = "run"
      BY <3>1, <3>2 DEF ThreadsInv, RunsAlone
    <3>3. CASE th'[x].route # "run" /\ th'[y].route # "run"
      BY <3>3 DEF ThreadsInv, HoldsLock
    <3> QED
      BY <3>2, <3>3
  <2> QED
    BY <2>1 DEF Drivers
<1>2. ToolsOK(t)'
  BY <1>1 DEF ToolsOK, Sound
<1> QED
  BY <1>2, ToolsStep

\* Nobody is in the loop of the task after the step.
LEMMA ToolsRest ==
    ASSUME ToolsInv, NEW x \in Threads, OnlyMoves(x), HistoryGrows, ~Drives(x)',
           NEW t \in Tasks, ToolsOnly(t), Drives(x) => th[x].task = t,
           \A y \in Threads \ {x} : Drives(y) => th[y].task # t,
           Sound(t)' => /\ invoked'[t] = Recorded(disk'[t])
                        /\ confirmed'[t] \subseteq invoked'[t] /\ FileOK(disk'[t]),
           ConfirmedOnce'
    PROVE  ToolsInv'
<1>1. Drivers(t)' = {}
  BY DEF Drivers, Drives, OnlyMoves
<1>2. ToolsOK(t)'
  BY <1>1 DEF ToolsOK, Sound
<1> QED
  BY <1>2, ToolsStep

\* What the thread of a step holds afterwards.
LEMMA DriverInv ==
    ASSUME TaskInv, ToolsInv, NEW x \in Threads, Drives(x)
    PROVE  /\ th[x] \in Thread /\ th[x].task \in Tasks /\ disk[th[x].task] \in Checkpoint
           /\ th[x].step \in 1..MaxSteps + 1 /\ (th[x].pc # "model" => th[x].step \in Steps)
           /\ th[x].task \notin overwritten => AtStep(th[x], disk[th[x].task])
           /\ Sound(th[x].task) =>
                 /\ Carries(th[x], disk[th[x].task], invoked[th[x].task])
                 /\ confirmed[th[x].task] \subseteq invoked[th[x].task]
                 /\ FileOK(disk[th[x].task])
BY DriverTyped DEF ToolsInv, ToolsOK, Drivers

\* The thread leaves the loop and its task is recorded as far as it got.
LEMMA FinishTools ==
    ASSUME TaskInv, ToolsInv, NEW x \in Threads, Drives(x),
           NEW status \in Ended \cup {"AWAITING_CONFIRMATION"},
           status = "AWAITING_CONFIRMATION" => th[x].pc = "answer", Finish(x, status)
    PROVE  ToolsInv'
<1>0. PICK t \in Tasks : t = th[x].task
  BY DriverTyped
<1> DEFINE c == Snapshot(x, status)
<1>1. /\ th[x] \in Thread /\ t \in Tasks /\ (th[x].pc # "model" => th[x].step \in Steps)
      /\ Sound(t) => Carries(th[x], disk[t], invoked[t]) /\ confirmed[t] \subseteq invoked[t]
  BY <1>0, DriverInv
<1>2. c \in Checkpoint /\ c.status = status /\ c.results = th[x].results
      /\ (th[x].step \in Steps => c.step = th[x].step)
  BY SnapshotTyped, TaskAssumption DEF Snapshot, Steps
<1>3. OnlyWrites(t) /\ disk'[t] = c
  BY <1>0, <1>2, DiskSteps DEF Finish, SaveCheckpoint, TaskInv
<1>4. OnlyMoves(x) /\ th'[x].pc \in {"rest", "stampload"}
  <2>1. CASE Leave(x)
    <3>1. OnlyMoves(x) /\ th'[x] = Rest
      BY <2>1, RestIsThread, ThreadSteps, Zenon DEF Leave, TaskInv
    <3> QED
      BY <3>1 DEF Rest
  <2>2. CASE th' = [th EXCEPT ![x].pc = "stampload", ![x].result = status]
    <3> DEFINE r == [th[x] EXCEPT !.pc = "stampload", !.result = status]
    <3>1. r \in Thread /\ r.pc = "stampload"
      BY <1>1 DEF Thread
    <3>2. th' = [th EXCEPT ![x] = r]
      BY <2>2, <1>1 DEF Thread
    <3> QED
      BY <3>1, <3>2, ThreadSteps DEF TaskInv
  <2> QED
    BY <2>1, <2>2 DEF Finish
<1>5. UNCHANGED <<invoked, confirmed, twice, overwritten, torn>>
  BY DEF Finish, taskHistory
<1>6. ~Drives(x)'
  BY <1>4 DEF Drives, Loop
<1>7. \A y \in Threads \ {x} : Drives(y) => th[y].task # t
  BY <1>0, SoleDriver DEF TaskInv
<1>8. Sound(t)' => /\ invoked'[t] = Recorded(disk'[t]) /\ confirmed'[t] \subseteq invoked'[t]
                   /\ FileOK(disk'[t])
  <2> SUFFICES ASSUME Sound(t) PROVE invoked[t] = Recorded(c) /\ FileOK(c)
    BY <1>1, <1>3, <1>5 DEF Sound
  <2>1. Recorded(c) = invoked[t]
    BY <1>1, <1>2, CheckpointIsPresent DEF Recorded, Carries
  <2>2. FileOK(c)
    BY <1>1, <1>2 DEF FileOK, Carries, Ended
  <2> QED
    BY <2>1, <2>2
<1>9. ToolsOnly(t) /\ HistoryGrows /\ ConfirmedOnce'
  BY <1>3, <1>5 DEF ToolsOnly, OnlyWrites, HistoryGrows, ToolsInv, ConfirmedOnce
<1> QED
  BY <1>0, <1>4, <1>6, <1>7, <1>8, <1>9, ToolsRest

\* A step inside the loop that runs no tool and saves nothing.
LEMMA LoopTools ==
    ASSUME TaskInv, TaskInv', ToolsInv, NEW x \in Threads, Drives(x), NEW r \in Thread,
           th' = [th EXCEPT ![x] = r], r.task = th[x].task, r.pc \in Loop,
           r.step = th[x].step, r.results = th[x].results,
           UNCHANGED <<disk, taskHistory>>,
           th[x].task \notin overwritten => AtStep(r, disk[th[x].task]),
           r.pc \in {"model", "answer", "confirmed"}
              => th[x].pc \in {"model", "answer", "confirmed"}
    PROVE  ToolsInv'
<1> DEFINE t == th[x].task
<1>1. OnlyMoves(x) /\ th'[x] = r
  BY ThreadSteps DEF TaskInv
<1>2. t \in Tasks /\ Drives(x)' /\ t = th'[x].task
  BY <1>1, DriverInv DEF Drives
<1>3. UNCHANGED <<invoked, confirmed, twice, overwritten, torn>>
  BY DEF taskHistory
<1>4. HistoryGrows /\ ToolsOnly(t) /\ ConfirmedOnce'
  BY <1>3 DEF HistoryGrows, ToolsOnly, ToolsInv, ConfirmedOnce
<1>5. Sound(t)' => /\ Carries(th'[x], disk'[t], invoked'[t])
                   /\ confirmed'[t] \subseteq invoked'[t] /\ FileOK(disk'[t])
  BY <1>1, <1>3, DriverInv DEF Sound, Carries
<1>6. t \notin overwritten' => AtStep(th'[x], disk'[t])
  BY <1>1, <1>3
<1> QED
  BY <1>1, <1>2, <1>4, <1>5, <1>6, ToolsDriven

LEMMA CallModelTools ==
    ASSUME TaskInv, TaskInv', ToolsInv, NEW x \in Threads, CallModel(x) PROVE ToolsInv'
<1>1. Drives(x) /\ th[x].pc = "model" /\ th[x] \in Thread
  BY DriverTyped DEF CallModel, Drives, Loop
<1>2. CASE \E status \in {"FAILED", "CANCELLED"} : Finish(x, status)
  BY <1>1, <1>2, FinishTools DEF Ended
<1>3. CASE /\ th' = [th EXCEPT ![x].pc = "answer",
                        ![x].history = IF @ = "prefix" THEN "marked" ELSE @]
           /\ UNCHANGED <<disk, taskHistory>>
  <2> DEFINE h == IF th[x].history = "prefix" THEN "marked" ELSE th[x].history
             r == [th[x] EXCEPT !.pc = "answer", !.history = h]
  <2>1. r \in Thread /\ r.task = th[x].task /\ r.pc = "answer" /\ r.step = th[x].step
        /\ r.results = th[x].results
    BY <1>1 DEF Thread, Loop
  <2>2. th' = [th EXCEPT ![x] = r]
    BY <1>1, <1>3 DEF Thread
  <2>3. th[x].task \notin overwritten => AtStep(r, disk[th[x].task])
    BY <1>1, <2>1, DriverInv DEF AtStep
  <2> QED
    BY <1>1, <1>3, <2>1, <2>2, <2>3, LoopTools DEF Loop
<1> QED
  BY <1>2, <1>3 DEF CallModel, Stops

\* The answer of the model, or the safe point before a tool, sends the thread on.
LEMMA GotoTools ==
    ASSUME TaskInv, TaskInv', ToolsInv, NEW x \in Threads, Drives(x),
           NEW pc \in {"tools", "invoke", "record"}, Goto(x, pc),
           UNCHANGED <<disk, taskHistory>>,
           \/ th[x].pc = "answer" /\ pc = "tools"
           \/ th[x].pc = "tools" /\ (pc = "invoke" => th[x].step \notin th[x].results)
              /\ pc # "tools"
    PROVE  ToolsInv'
<1> DEFINE r == [th[x] EXCEPT !.pc = pc]
<1>1. th[x] \in Thread
  BY DriverTyped
<1>2. r \in Thread /\ r.task = th[x].task /\ r.pc = pc /\ r.step = th[x].step
      /\ r.results = th[x].results
  BY <1>1 DEF Thread, Loop
<1>3. th' = [th EXCEPT ![x] = r]
  BY <1>1 DEF Thread, Goto
<1>4. th[x].task \notin overwritten => AtStep(r, disk[th[x].task])
  BY <1>1, <1>2, DriverInv DEF AtStep
<1> QED
  BY <1>2, <1>3, <1>4, LoopTools DEF Loop

LEMMA ModelAnswersTools ==
    ASSUME TaskInv, TaskInv', ToolsInv, NEW x \in Threads, ModelAnswers(x) PROVE ToolsInv'
<1>1. Drives(x) /\ th[x].pc = "answer"
  BY DEF ModelAnswers, Drives, Loop
<1>2. CASE \E status \in Ended \cup {"AWAITING_CONFIRMATION"} : Finish(x, status)
  BY <1>1, <1>2, FinishTools
<1>3. CASE Goto(x, "tools") /\ UNCHANGED <<disk, taskHistory>>
  BY <1>1, <1>3, GotoTools
<1> QED
  BY <1>2, <1>3 DEF ModelAnswers, Stops, Ended

LEMMA NextToolTools ==
    ASSUME TaskInv, TaskInv', ToolsInv, NEW x \in Threads, NextTool(x) PROVE ToolsInv'
<1>1. Drives(x) /\ th[x].pc = "tools"
  BY DEF NextTool, Drives, Loop
<1>2. CASE \E status \in Ended : Finish(x, status)
  BY <1>1, <1>2, FinishTools DEF Ended
<1>3. CASE /\ Goto(x, IF th[x].step \in th[x].results THEN "record" ELSE "invoke")
           /\ UNCHANGED <<disk, taskHistory>>
  BY <1>1, <1>3, GotoTools
<1> QED
  BY <1>2, <1>3 DEF NextTool, Stops, Ended

\* A tool runs, for a confirmation or without one.
LEMMA RunTools ==
    ASSUME TaskInv, TaskInv', ToolsInv, NEW x \in Threads, th[x].pc \in {"invoke", "confirmed"},
           th' = [th EXCEPT ![x].pc = "tools", ![x].results = @ \cup {th[x].step}],
           invoked' = [invoked EXCEPT ![th[x].task] = @ \cup {th[x].step}],
           \/ confirmed' = confirmed
           \/ confirmed' = [confirmed EXCEPT ![th[x].task] = @ \cup {th[x].step}],
           UNCHANGED <<disk, overwritten, torn>>, ConfirmedOnce'
    PROVE  ToolsInv'
<1>1. Drives(x) /\ th[x].pc # "model"
  BY DEF Drives, Loop
<1>0. PICK t \in Tasks : t = th[x].task
  BY <1>1, DriverTyped
<1> DEFINE s == th[x].step
           r == [th[x] EXCEPT !.pc = "tools", !.results = @ \cup {s}]
<1>2. th[x] \in Thread /\ s \in Steps /\ t \in Tasks
  BY <1>0, <1>1, DriverInv
<1>3. r \in Thread /\ r.task = t /\ r.pc = "tools" /\ r.step = s
      /\ r.results = th[x].results \cup {s}
  BY <1>0, <1>2 DEF Thread, Loop
<1>4. th' = [th EXCEPT ![x] = r]
  BY <1>2 DEF Thread
<1>5. OnlyMoves(x) /\ th'[x] = r
  BY <1>3, <1>4, ThreadSteps DEF TaskInv
<1>6. invoked'[t] = invoked[t] \cup {s} /\ confirmed'[t] \subseteq confirmed[t] \cup {s}
      /\ \A u \in Tasks \ {t} : invoked'[u] = invoked[u] /\ confirmed'[u] = confirmed[u]
  BY <1>0, <1>2 DEF TaskInv, TypeOK
<1>7. HistoryGrows /\ ToolsOnly(t)
  BY <1>6 DEF HistoryGrows, ToolsOnly
<1>8. Sound(t)' => /\ Carries(th'[x], disk'[t], invoked'[t])
                   /\ confirmed'[t] \subseteq invoked'[t] /\ FileOK(disk'[t])
  <2> SUFFICES ASSUME Sound(t)
               PROVE  /\ Carries(r, disk[t], invoked[t] \cup {s})
                      /\ confirmed'[t] \subseteq invoked'[t] /\ FileOK(disk[t])
    BY <1>5, <1>6 DEF Sound
  <2>1. Carries(th[x], disk[t], invoked[t]) /\ confirmed[t] \subseteq invoked[t]
        /\ FileOK(disk[t])
    BY <1>0, <1>1, DriverInv
  <2>2. Carries(r, disk[t], invoked[t] \cup {s})
    BY <1>2, <1>3, <2>1 DEF Carries, UpTo, Steps
  <2> QED
    BY <1>6, <2>1, <2>2
<1>9. t \notin overwritten' => AtStep(th'[x], disk'[t])
  BY <1>0, <1>1, <1>3, <1>5, DriverInv DEF AtStep
<1>10. Drives(x)' /\ t = th'[x].task
  BY <1>3, <1>5 DEF Drives, Loop
<1> QED
  BY <1>0, <1>5, <1>7, <1>8, <1>9, <1>10, ToolsDriven

LEMMA InvokeToolTools ==
    ASSUME TaskInv, TaskInv', ToolsInv, NEW x \in Threads, InvokeTool(x) PROVE ToolsInv'
BY RunTools DEF InvokeTool, ToolsInv, ConfirmedOnce

\* The pending step of a confirmation is none of those whose tools ran.
LEMMA InvokeConfirmedTools ==
    ASSUME TaskInv, TaskInv', ToolsInv, NEW x \in Threads, InvokeConfirmed(x)
    PROVE  ToolsInv'
<1> DEFINE t == th[x].task
<1>1. Drives(x) /\ th[x].pc = "confirmed"
  BY DEF InvokeConfirmed, Drives, Loop
<1>2. Sound(t) => th[x].step \notin confirmed[t]
  BY <1>1, DriverInv DEF Carries, Before, Steps
<1>3. ConfirmedOnce'
  BY <1>2 DEF InvokeConfirmed, ToolsInv, ConfirmedOnce, Sound
<1> QED
  BY <1>1, <1>3, RunTools DEF InvokeConfirmed

LEMMA RecordStepTools ==
    ASSUME TaskInv, TaskInv', ToolsInv, NEW x \in Threads, RecordStep(x) PROVE ToolsInv'
<1> DEFINE t == th[x].task
           s == th[x].step
           c == Snapshot(x, "RUNNING")
           r == [th[x] EXCEPT !.pc = "model", !.step = s + 1]
<1>1. Drives(x) /\ th[x].pc = "record"
  BY DEF RecordStep, Drives, Loop
<1>2. th[x] \in Thread /\ s \in Steps /\ t \in Tasks /\ disk[t] \in Checkpoint
  BY <1>1, DriverInv
<1>3. r \in Thread /\ r.task = t /\ r.pc = "model" /\ r.step = s + 1
      /\ r.results = th[x].results
  <2>1. s + 1 \in 0..MaxSteps + 1
    BY <1>2, TaskAssumption DEF Steps
  <2> QED
    BY <1>2, <2>1 DEF Thread, Loop
<1>4. th' = [th EXCEPT ![x] = r]
  BY <1>2 DEF Thread, RecordStep
<1>5. OnlyMoves(x) /\ th'[x] = r
  BY <1>3, <1>4, ThreadSteps DEF TaskInv
<1>6. c \in Checkpoint /\ c.status = "RUNNING" /\ c.step = s /\ c.results = th[x].results
  BY <1>1, <1>2, SnapshotTyped, TaskAssumption DEF Snapshot, Steps
<1>7. OnlyWrites(t) /\ disk'[t] = c
  BY <1>2, <1>6, DiskSteps DEF RecordStep, SaveCheckpoint, TaskInv
<1>8. UNCHANGED <<invoked, confirmed, twice, overwritten, torn>>
  BY DEF RecordStep, taskHistory
<1>9. HistoryGrows /\ ToolsOnly(t) /\ ConfirmedOnce'
  BY <1>7, <1>8 DEF HistoryGrows, ToolsOnly, OnlyWrites, ToolsInv, ConfirmedOnce
<1>10. Sound(t)' => /\ Carries(th'[x], disk'[t], invoked'[t])
                    /\ confirmed'[t] \subseteq invoked'[t] /\ FileOK(disk'[t])
  <2> SUFFICES ASSUME Sound(t)
               PROVE  Carries(r, c, invoked[t]) /\ confirmed[t] \subseteq invoked[t] /\ FileOK(c)
    BY <1>5, <1>7, <1>8 DEF Sound
  <2>1. Carries(th[x], disk[t], invoked[t]) /\ confirmed[t] \subseteq invoked[t]
    BY <1>1, DriverInv
  <2>2. invoked[t] \subseteq Steps
    BY <1>2 DEF TaskInv, TypeOK
  <2>3. UpTo(invoked[t], s + 1) /\ Before(invoked[t], s + 1) /\ UpTo(invoked[t], s)
    BY <1>2, <2>1, <2>2 DEF Carries, UpTo, Before, Steps
  <2> QED
    BY <1>3, <1>6, <2>1, <2>3 DEF Carries, FileOK
<1>11. t \notin overwritten' => AtStep(th'[x], disk'[t])
  BY <1>3, <1>5, <1>6, <1>7 DEF AtStep
<1>12. Drives(x)' /\ t = th'[x].task
  BY <1>3, <1>5 DEF Drives, Loop
<1> QED
  BY <1>2, <1>5, <1>9, <1>10, <1>11, <1>12, ToolsDriven

\* A thread enters the loop of a task nobody is busy with.
LEMMA JoinTools ==
    ASSUME TaskInv, TaskInv', ToolsInv, NEW x \in Threads, NEW t \in Tasks,
           Busy(t) = {}, th[x].pc = "rest", OnlyMoves(x), OnlyWrites(t),
           th'[x].pc = "model", th'[x].task = t, th'[x].results = Recorded(disk[t]),
           disk'[t].status = "RUNNING", disk'[t].results = Recorded(disk[t]),
           th'[x].step = disk'[t].step + 1, disk'[t].step \in Nat,
           Sound(t) => UpTo(Recorded(disk[t]), disk'[t].step), UNCHANGED taskHistory
    PROVE  ToolsInv'
<1>1. UNCHANGED <<invoked, confirmed, twice, overwritten, torn>>
  BY DEF taskHistory
<1>2. ~Drives(x) /\ Drives(x)' /\ \A y \in Threads : Drives(y) => th[y].task # t
  BY DEF Drives, Loop, Busy
<1>3. HistoryGrows /\ ToolsOnly(t) /\ ConfirmedOnce'
  BY <1>1 DEF HistoryGrows, ToolsOnly, OnlyWrites, ToolsInv, ConfirmedOnce
<1>4. AtStep(th'[x], disk'[t])
  BY DEF AtStep
<1>5. Sound(t)' => /\ Carries(th'[x], disk'[t], invoked'[t])
                   /\ confirmed'[t] \subseteq invoked'[t] /\ FileOK(disk'[t])
  <2> SUFFICES ASSUME Sound(t)
               PROVE  /\ Carries(th'[x], disk'[t], invoked[t])
                      /\ confirmed[t] \subseteq invoked[t] /\ FileOK(disk'[t])
    BY <1>1 DEF Sound
  <2>1. confirmed[t] \subseteq invoked[t] /\ invoked[t] = Recorded(disk[t])
    BY <1>2 DEF ToolsInv, ToolsOK, Drivers
  <2>2. invoked[t] \subseteq Nat
    BY TaskAssumption DEF TaskInv, TypeOK, Steps
  <2>3. UpTo(invoked[t], th'[x].step) /\ Before(invoked[t], th'[x].step)
    BY <2>1, <2>2 DEF UpTo, Before
  <2>4. FileOK(disk'[t])
    BY <2>1 DEF FileOK
  <2> QED
    BY <2>1, <2>3, <2>4 DEF Carries
<1> QED
  BY <1>2, <1>3, <1>4, <1>5, ToolsDriven

LEMMA StartRunTools ==
    ASSUME TaskInv, TaskInv', ToolsInv, NEW x \in Threads, NEW t \in Tasks, StartRun(x, t)
    PROVE  ToolsInv'
<1> DEFINE me == [Rest EXCEPT !.task = t, !.pc = "model", !.route = "run", !.step = 1]
           c == [status |-> "RUNNING", step |-> 0, results |-> {}, history |-> "prefix",
                 identity |-> identity]
<1>1. 1 \in 1..MaxSteps + 1 /\ 1 \in 0..MaxSteps + 1 /\ 0 \in 0..MaxSteps
  BY TaskAssumption
<1>2. me \in Thread /\ me.pc = "model" /\ me.task = t /\ me.step = 1 /\ me.results = {}
  BY <1>1, RestIsThread DEF Rest, Thread, Loop
<1>3. c \in Checkpoint /\ c.status = "RUNNING" /\ c.step = 0 /\ c.results = {}
  BY <1>1 DEF Checkpoint, TaskInv, TypeOK
<1>4. OnlyMoves(x) /\ th'[x] = me
  BY <1>2, ThreadSteps, Zenon DEF StartRun, TaskInv
<1>5. OnlyWrites(t) /\ disk'[t] = c
  BY <1>3, DiskSteps, Zenon DEF StartRun, TaskInv
<1>6. Recorded(disk[t]) = {} /\ Busy(t) = {} /\ th[x].pc = "rest" /\ UNCHANGED taskHistory
  BY DEF StartRun, Recorded
<1>7. th'[x].pc = "model" /\ th'[x].task = t /\ th'[x].step = 1 /\ th'[x].results = {}
      /\ disk'[t].status = "RUNNING" /\ disk'[t].step = 0 /\ disk'[t].results = {}
  BY <1>2, <1>3, <1>4, <1>5
<1>8. UpTo(Recorded(disk[t]), 0)
  BY <1>6 DEF UpTo
<1>9. /\ th'[x].results = Recorded(disk[t]) /\ disk'[t].results = Recorded(disk[t])
      /\ th'[x].step = disk'[t].step + 1 /\ disk'[t].step \in Nat
      /\ UpTo(Recorded(disk[t]), disk'[t].step)
  BY <1>6, <1>7, <1>8
<1> HIDE DEF me, c
<1> QED
  BY <1>4, <1>5, <1>6, <1>7, <1>9, JoinTools

LEMMA ResumeRunningTools ==
    ASSUME TaskInv, TaskInv', ToolsInv, NEW x \in Threads, NEW t \in Tasks, ResumeRunning(x, t)
    PROVE  ToolsInv'
<1> DEFINE c == disk[t]
           me == [Rest EXCEPT !.task = t, !.pc = "model", !.route = "cli",
                    !.step = ResumeAt(c), !.results = c.results, !.history = c.history]
<1>1. c \in Checkpoint /\ c.status = "RUNNING" /\ c.step \in Nat
  BY TaskAssumption DEF ResumeRunning, TaskInv, TypeOK, Checkpoint, NoTask
<1>2. ResumeAt(c) = c.step + 1 /\ ResumeAt(c) \in 0..MaxSteps + 1
  BY <1>1, TaskAssumption DEF ResumeAt, Checkpoint
<1>3. me \in Thread /\ me.pc = "model" /\ me.task = t /\ me.step = c.step + 1
      /\ me.results = c.results
  BY <1>1, <1>2, RestIsThread DEF Rest, Thread, Loop, Checkpoint
<1>4. OnlyMoves(x) /\ th'[x] = me
  BY <1>3, ThreadSteps, Zenon DEF ResumeRunning, TaskInv
<1>5. OnlyWrites(t) /\ disk' = disk
  BY DEF ResumeRunning, OnlyWrites, DisksTyped, TaskInv, TypeOK
<1>6. Recorded(c) = c.results /\ Busy(t) = {} /\ th[x].pc = "rest" /\ UNCHANGED taskHistory
  BY DEF ResumeRunning, Recorded
<1>7. Sound(t) => UpTo(Recorded(c), c.step)
  BY <1>1, <1>6 DEF ToolsInv, ToolsOK, FileOK
<1>8. th'[x].pc = "model" /\ th'[x].task = t /\ th'[x].step = c.step + 1
      /\ th'[x].results = c.results
  BY <1>3, <1>4
<1> QED
  BY <1>1, <1>4, <1>5, <1>6, <1>7, <1>8, JoinTools

\* A thread outside the loop goes somewhere outside the loop.
LEMMA AsideTools ==
    ASSUME TaskInv, ToolsInv, NEW x \in Threads, ~Drives(x), OnlyMoves(x), ~Drives(x)',
           UNCHANGED <<disk, invoked, confirmed, twice, overwritten, torn>>
    PROVE  ToolsInv'
<1>1. ASSUME NEW t \in Tasks PROVE ToolsOK(t)'
  <2>1. x \notin Drivers(t) /\ x \notin Drivers(t)'
    BY DEF Drivers
  <2> QED
    BY <2>1, ToolsElsewhere DEF ToolsInv, HistoryGrows, SameRecord
<1> QED
  BY <1>1 DEF ToolsInv, ConfirmedOnce

\* Where a thread goes that is not in the loop.
LEMMA StepsAside ==
    ASSUME TaskInv, NEW x \in Threads,
           \/ Leave(x)
           \/ \E pc \in {"stripload", "stampsave", "stripsave"} :
                \E c \in Checkpoint \cup {NoTask} :
                    th' = [th EXCEPT ![x] = [th[x] EXCEPT !.pc = pc, !.copy = c]]
           \/ \E t \in Tasks, route \in {"confirm", "cancel"} :
                th' = [th EXCEPT ![x] = [Rest EXCEPT !.task = t, !.pc = "ask", !.route = route]]
    PROVE  OnlyMoves(x) /\ ~Drives(x)'
<1>1. CASE Leave(x)
  <2>1. OnlyMoves(x) /\ th'[x] = Rest
    BY <1>1, RestIsThread, ThreadSteps, Zenon DEF Leave, TaskInv
  <2>2. Rest.pc = "rest"
    BY DEF Rest
  <2> QED
    BY <2>1, <2>2 DEF Drives, Loop
<1>2. ASSUME NEW pc \in {"stripload", "stampsave", "stripsave"},
             NEW c \in Checkpoint \cup {NoTask},
             th' = [th EXCEPT ![x] = [th[x] EXCEPT !.pc = pc, !.copy = c]]
      PROVE  OnlyMoves(x) /\ ~Drives(x)'
  <2> DEFINE r == [th[x] EXCEPT !.pc = pc, !.copy = c]
  <2>0. th[x] \in Thread
    BY DEF TaskInv, TypeOK
  <2>1. r \in Thread /\ r.pc = pc
    BY <2>0 DEF Thread
  <2>2. OnlyMoves(x) /\ th'[x] = r
    BY <1>2, <2>1, ThreadSteps, Zenon DEF TaskInv
  <2> QED
    BY <2>1, <2>2 DEF Drives, Loop
<1>3. ASSUME NEW t \in Tasks, NEW route \in {"confirm", "cancel"},
             th' = [th EXCEPT ![x] = [Rest EXCEPT !.task = t, !.pc = "ask", !.route = route]]
      PROVE  OnlyMoves(x) /\ ~Drives(x)'
  <2> DEFINE r == [Rest EXCEPT !.task = t, !.pc = "ask", !.route = route]
  <2>1. r \in Thread /\ r.pc = "ask"
    BY RestIsThread DEF Rest, Thread
  <2>2. OnlyMoves(x) /\ th'[x] = r
    BY <1>3, <2>1, ThreadSteps, Zenon DEF TaskInv
  <2> QED
    BY <2>1, <2>2 DEF Drives, Loop
<1> QED
  BY <1>1, <1>2, <1>3, Zenon

LEMMA RoutesTools ==
    ASSUME TaskInv, ToolsInv, NEW x \in Threads,
           \/ StampLoad(x) \/ StripLoad(x) \/ Remember(x) \/ Finalize(x)
           \/ \E t \in Tasks : AskConfirm(x, t) \/ AskCancel(x, t)
    PROVE  ToolsInv'
<1>1. ~Drives(x) /\ th[x] \in Thread
  BY DEF Drives, Loop, StampLoad, StripLoad, Remember, Finalize, AskConfirm, AskCancel,
         TaskInv, TypeOK
<1>2. UNCHANGED <<disk, invoked, confirmed, twice, overwritten, torn>>
  BY DEF StampLoad, StripLoad, Remember, Finalize, AskConfirm, AskCancel, taskHistory
<1>3. OnlyMoves(x) /\ ~Drives(x)'
  <2>1. CASE StampLoad(x) \/ StripLoad(x)
    <3>1. disk[th[x].task] \in Checkpoint
      BY <2>1 DEF StampLoad, StripLoad, TaskInv, ThreadsInv, ThreadOK, Busies
    <3>2. \/ Leave(x)
          \/ \E pc \in {"stampsave", "stripsave"} :
               th' = [th EXCEPT ![x].pc = pc, ![x].copy = disk[th[x].task]]
      BY <2>1 DEF StampLoad, StripLoad
    <3>3. \A pc \in {"stampsave", "stripsave"} :
            [th EXCEPT ![x].pc = pc, ![x].copy = disk[th[x].task]]
              = [th EXCEPT ![x] = [th[x] EXCEPT !.pc = pc, !.copy = disk[th[x].task]]]
      BY <1>1 DEF Thread
    <3> QED
      BY <3>1, <3>2, <3>3, StepsAside
  <2>2. CASE Remember(x) \/ Finalize(x)
    <3>1. CASE Leave(x)
      BY <3>1, StepsAside
    <3>2. CASE Goto(x, "stripload")
      <4>1. [th EXCEPT ![x].pc = "stripload"]
              = [th EXCEPT ![x] = [th[x] EXCEPT !.pc = "stripload", !.copy = th[x].copy]]
        BY <1>1 DEF Thread
      <4>2. th[x].copy \in Checkpoint \cup {NoTask}
        BY <1>1 DEF Thread
      <4> QED
        BY <3>2, <4>1, <4>2, StepsAside DEF Goto
    <3> QED
      BY <2>2, <3>1, <3>2 DEF Remember, Finalize
  <2>3. CASE \E t \in Tasks : AskConfirm(x, t) \/ AskCancel(x, t)
    BY <2>3, StepsAside, Zenon DEF AskConfirm, AskCancel
  <2> QED
    BY <2>1, <2>2, <2>3
<1> QED
  BY <1>1, <1>2, <1>3, AsideTools

\* A thread outside the loop ends a task that awaits a confirmation, or takes
\* the lock to resume it.
LEMMA ConfirmTools ==
    ASSUME TaskInv, TaskInv', ToolsInv, NEW x \in Threads, Confirm(x) PROVE ToolsInv'
<1>0. PICK t \in Tasks : t = th[x].task
  BY DEF Confirm, TaskInv, ThreadsInv, ThreadOK, Busies
<1> DEFINE c == disk[t]
           resumed == [Resumed(x, c) EXCEPT !.pc = "confirmed"]
           failed == [Resumed(x, c) EXCEPT !.pc = "stampload", !.result = "FAILED"]
           end == [c EXCEPT !.status = "FAILED"]
<1>1. th[x] \in Thread /\ ~Drives(x) /\ LockFree(t) /\ c \in Checkpoint
  BY <1>0 DEF Confirm, TaskInv, TypeOK, ThreadsInv, ThreadOK, Busies, Drives, Loop
<1>2. UNCHANGED <<invoked, confirmed, twice, overwritten, torn>>
  BY DEF Confirm, taskHistory
<1>3. HistoryGrows /\ ConfirmedOnce'
  BY <1>2 DEF HistoryGrows, ToolsInv, ConfirmedOnce
<1>4. Resumed(x, c) \in Thread /\ Resumed(x, c).task = t
      /\ Resumed(x, c).step = c.step /\ Resumed(x, c).results = c.results
  <2>1. c.step \in 0..MaxSteps + 1 /\ c.results \in SUBSET Steps
        /\ c.history \in {"prefix", "marked", "stripped"}
    BY <1>1, TaskAssumption DEF Checkpoint
  <2> QED
    BY <1>0, <1>1, <2>1 DEF Thread, Resumed
<1>5. Confirmable(c) =>
        /\ c.status = "AWAITING_CONFIRMATION"
        /\ \A y \in Threads : Drives(y) => th[y].task # t
        /\ Sound(t) => /\ invoked[t] = c.results /\ confirmed[t] \subseteq invoked[t]
                       /\ Before(c.results, c.step)
  <2> SUFFICES ASSUME c.status = "AWAITING_CONFIRMATION"
               PROVE  /\ \A y \in Threads : Drives(y) => th[y].task # t
                      /\ Sound(t) => /\ invoked[t] = c.results
                                     /\ confirmed[t] \subseteq invoked[t]
                                     /\ Before(c.results, c.step)
    BY DEF Confirmable
  <2>1. \A y \in Threads : Drives(y) => th[y].task # t
    BY <1>1, NobodyDrives DEF TaskInv
  <2>2. Drivers(t) = {}
    BY <2>1 DEF Drivers
  <2> QED
    BY <1>1, <2>1, <2>2, CheckpointIsPresent DEF ToolsInv, ToolsOK, FileOK, Recorded
<1>6. CASE Leave(x) /\ UNCHANGED <<disk, lock>>
  BY <1>1, <1>2, <1>6, StepsAside, AsideTools
<1>7. CASE Confirmable(c) /\ th' = [th EXCEPT ![x] = resumed] /\ UNCHANGED disk
  <2>1. resumed \in Thread /\ resumed.pc = "confirmed" /\ resumed.task = t
        /\ resumed.step = c.step /\ resumed.results = c.results
    BY <1>4 DEF Thread, Loop
  <2>2. OnlyMoves(x) /\ th'[x] = resumed
    BY <1>7, <2>1, ThreadSteps, Zenon DEF TaskInv
  <2>3. Drives(x)' /\ t = th'[x].task
    BY <2>1, <2>2 DEF Drives, Loop
  <2>4. AtStep(th'[x], disk'[t])
    BY <1>5, <1>7, <2>1, <2>2 DEF AtStep
  <2>5. Sound(t)' => /\ Carries(th'[x], disk'[t], invoked'[t])
                     /\ confirmed'[t] \subseteq invoked'[t] /\ FileOK(disk'[t])
    <3> SUFFICES ASSUME Sound(t)
                 PROVE  /\ Carries(resumed, c, invoked[t])
                        /\ confirmed[t] \subseteq invoked[t] /\ FileOK(c)
      BY <1>2, <1>7, <2>2 DEF Sound
    <3>1. invoked[t] \subseteq Nat /\ c.step \in Nat
      BY <1>1, TaskAssumption DEF TaskInv, TypeOK, Steps, Checkpoint
    <3> QED
      BY <1>5, <1>7, <2>1, <3>1 DEF Carries, FileOK, Before, UpTo
  <2>6. ToolsOnly(t)
    BY <1>2, <1>7 DEF ToolsOnly
  <2> QED
    BY <1>1, <1>3, <2>2, <2>3, <2>4, <2>5, <2>6, ToolsDriven
<1>8. CASE /\ Confirmable(c) /\ th' = [th EXCEPT ![x] = failed]
           /\ disk' = [disk EXCEPT ![t] = end]
  <2>1. failed \in Thread /\ failed.pc = "stampload"
    BY <1>4 DEF Thread, Loop, Ended
  <2>2. OnlyMoves(x) /\ th'[x] = failed
    BY <1>8, <2>1, ThreadSteps, Zenon DEF TaskInv
  <2>3. end \in Checkpoint /\ end.status = "FAILED" /\ end.results = c.results
    BY <1>1 DEF Checkpoint, Ended
  <2>4. OnlyWrites(t) /\ disk'[t] = end
    BY <1>8, <2>3, DiskSteps, Zenon DEF TaskInv
  <2>5. ~Drives(x)' /\ \A y \in Threads \ {x} : Drives(y) => th[y].task # t
    BY <1>5, <1>8, <2>1, <2>2 DEF Drives, Loop
  <2>6. Sound(t)' => /\ invoked'[t] = Recorded(disk'[t])
                     /\ confirmed'[t] \subseteq invoked'[t] /\ FileOK(disk'[t])
    BY <1>2, <1>5, <1>8, <2>3, <2>4, CheckpointIsPresent DEF Sound, Recorded, FileOK
  <2>7. ToolsOnly(t)
    BY <1>2, <2>4 DEF ToolsOnly, OnlyWrites
  <2> QED
    BY <1>1, <1>3, <2>2, <2>5, <2>6, <2>7, ToolsRest
<1> QED
  BY <1>0, <1>6, <1>7, <1>8, Zenon DEF Confirm

LEMMA CancelTools ==
    ASSUME TaskInv, TaskInv', ToolsInv, NEW x \in Threads, Cancel(x) PROVE ToolsInv'
<1>0. PICK t \in Tasks : t = th[x].task
  BY DEF Cancel, TaskInv, ThreadsInv, ThreadOK, Busies
<1> DEFINE c == disk[t]
           r == [th[x] EXCEPT !.pc = "memory", !.result = "CANCELLED"]
           end == [c EXCEPT !.status = "CANCELLED", !.identity = identity]
<1>1. th[x] \in Thread /\ ~Drives(x) /\ LockFree(t) /\ c \in Checkpoint
  BY <1>0 DEF Cancel, TaskInv, TypeOK, ThreadsInv, ThreadOK, Busies, Drives, Loop
<1>2. UNCHANGED <<invoked, confirmed, twice, overwritten, torn>>
  BY DEF Cancel
<1>3. HistoryGrows /\ ConfirmedOnce'
  BY <1>2 DEF HistoryGrows, ToolsInv, ConfirmedOnce
<1>4. CASE Leave(x) /\ UNCHANGED disk
  BY <1>1, <1>2, <1>4, StepsAside, AsideTools
<1>5. CASE /\ c.status = "AWAITING_CONFIRMATION" /\ disk' = [disk EXCEPT ![t] = end]
           /\ th' = [th EXCEPT ![x].pc = "memory", ![x].result = "CANCELLED"]
  <2>1. r \in Thread /\ r.pc = "memory"
    BY <1>1 DEF Thread, Loop, Ended
  <2>2. th' = [th EXCEPT ![x] = r]
    BY <1>1, <1>5 DEF Thread
  <2>3. OnlyMoves(x) /\ th'[x] = r
    BY <2>1, <2>2, ThreadSteps, Zenon DEF TaskInv
  <2>4. end \in Checkpoint /\ end.status = "CANCELLED" /\ end.results = c.results
    BY <1>1 DEF Checkpoint, Ended, TaskInv, TypeOK
  <2>5. OnlyWrites(t) /\ disk'[t] = end
    BY <1>5, <2>4, DiskSteps, Zenon DEF TaskInv
  <2>6. \A y \in Threads : Drives(y) => th[y].task # t
    BY <1>1, <1>5, NobodyDrives DEF TaskInv
  <2>7. Drivers(t) = {} /\ ~Drives(x)'
    BY <2>1, <2>3, <2>6 DEF Drivers, Drives, Loop
  <2>8. Sound(t)' => /\ invoked'[t] = Recorded(disk'[t])
                     /\ confirmed'[t] \subseteq invoked'[t] /\ FileOK(disk'[t])
    BY <1>1, <1>2, <2>4, <2>5, <2>7, CheckpointIsPresent
       DEF Sound, Recorded, FileOK, ToolsInv, ToolsOK
  <2>9. ToolsOnly(t)
    BY <1>2, <2>5 DEF ToolsOnly, OnlyWrites
  <2> QED
    BY <1>1, <1>3, <2>3, <2>6, <2>7, <2>8, <2>9, ToolsRest
<1> QED
  BY <1>0, <1>4, <1>5, Zenon DEF Cancel

\* A copy that is not older than the file changes nothing but the history.
LEMMA WriteBackTools ==
    ASSUME TaskInv, ToolsInv, NEW x \in Threads, th[x].pc \in Writers, NEW history,
           WriteBack(x, history), OnlyMoves(x), th'[x].pc \in {"rest", "memory"},
           UNCHANGED <<invoked, confirmed, twice, torn>>
    PROVE  ToolsInv'
<1>0. PICK t \in Tasks : t = th[x].task
  BY DEF TaskInv, ThreadsInv, ThreadOK, Busies, Writers
<1> DEFINE c == [th[x].copy EXCEPT !.history = history]
<1>1. th[x].copy \in Checkpoint /\ ~Drives(x) /\ ~Drives(x)'
  BY DEF TaskInv, ThreadsInv, ThreadOK, Busies, Writers, Drives, Loop
<1>2. c.status = th[x].copy.status /\ c.step = th[x].copy.step
      /\ c.results = th[x].copy.results
  BY <1>1 DEF Checkpoint
<1>3. disk'[t] = c /\ \A u \in Tasks \ {t} : disk'[u] = disk[u]
  BY <1>0 DEF WriteBack, TaskInv, TypeOK
<1>4. HistoryGrows /\ (disk[t] # th[x].copy => t \in overwritten')
  BY <1>0 DEF WriteBack, HistoryGrows
<1>5. t \notin overwritten' => SameRecord(disk[t], disk'[t])
  <2> SUFFICES ASSUME disk[t] = th[x].copy PROVE SameRecord(disk[t], c)
    BY <1>3, <1>4
  <2>1. disk[t].status # "ABSENT" /\ disk[t] # NoTask
    BY <1>1, CheckpointIsPresent
  <2>2. c # NoTask
    BY <1>2, <2>1 DEF NoTask
  <2> QED
    BY <1>2, <2>1, <2>2 DEF SameRecord, Recorded
<1>6. ToolsOnly(t)
  BY <1>3 DEF ToolsOnly
<1> QED
  BY <1>1, <1>4, <1>5, <1>6, ToolsAside

LEMMA SaversTools ==
    ASSUME TaskInv, ToolsInv, NEW x \in Threads, StampSave(x) \/ StripSave(x) PROVE ToolsInv'
<1>1. th[x] \in Thread /\ th[x].pc \in Writers
  BY DEF StampSave, StripSave, Writers, TaskInv, TypeOK
<1>2. CASE StampSave(x)
  <2> DEFINE r == [th[x] EXCEPT !.pc = "memory", !.copy = NoTask]
  <2>1. r \in Thread /\ r.pc = "memory"
    BY <1>1 DEF Thread
  <2>2. th' = [th EXCEPT ![x] = r]
    BY <1>1, <1>2 DEF Thread, StampSave
  <2>3. OnlyMoves(x) /\ th'[x] = r
    BY <2>1, <2>2, ThreadSteps, Zenon DEF TaskInv
  <2> QED
    BY <1>1, <1>2, <2>1, <2>3, WriteBackTools DEF StampSave
<1>3. CASE StripSave(x)
  <2>1. OnlyMoves(x) /\ th'[x] = Rest
    BY <1>3, RestIsThread, ThreadSteps, Zenon DEF StripSave, Leave, TaskInv
  <2>2. th'[x].pc = "rest"
    BY <2>1 DEF Rest
  <2> QED
    BY <1>1, <1>3, <2>1, <2>2, WriteBackTools DEF StripSave
<1> QED
  BY <1>2, <1>3

\* A write that raises loses what its driver had not recorded.
LEMMA SaveRaisesTools ==
    ASSUME TaskInv, ToolsInv, NEW x \in Threads, SaveRaises(x) PROVE ToolsInv'
<1>1. OnlyMoves(x) /\ ~Drives(x)'
  BY StepsAside DEF SaveRaises
<1>2. UNCHANGED <<disk, invoked, confirmed, twice, overwritten>>
      /\ torn' = torn \cup Unrecorded({x})
  BY DEF SaveRaises
<1>3. HistoryGrows /\ ConfirmedOnce'
  BY <1>2 DEF HistoryGrows, ToolsInv, ConfirmedOnce
<1>4. CASE ~Drives(x)
  <2>1. Unrecorded({x}) = {}
    BY <1>4 DEF Unrecorded, Drives
  <2> QED
    BY <1>1, <1>2, <1>4, <2>1, AsideTools
<1>5. CASE Drives(x)
  <2>0. PICK t \in Tasks : t = th[x].task
    BY <1>5, DriverTyped
  <2>1. \A y \in Threads \ {x} : Drives(y) => th[y].task # t
    BY <1>5, <2>0, SoleDriver DEF TaskInv
  <2>2. Sound(t)' => /\ invoked'[t] = Recorded(disk'[t])
                     /\ confirmed'[t] \subseteq invoked'[t] /\ FileOK(disk'[t])
    <3> SUFFICES ASSUME t \notin overwritten', t \notin torn'
                 PROVE  /\ invoked[t] = Recorded(disk[t])
                        /\ confirmed[t] \subseteq invoked[t] /\ FileOK(disk[t])
      BY <1>2 DEF Sound
    <3>1. th[x].results \subseteq disk[t].results
      BY <1>2, <1>5, <2>0 DEF Unrecorded, Drives
    <3>2. Sound(t)
      BY <1>2 DEF Sound
    <3> QED
      BY <1>5, <2>0, <3>1, <3>2, DriverInv, CheckpointIsPresent DEF Carries, Recorded
  <2>3. ToolsOnly(t)
    BY <1>2 DEF ToolsOnly
  <2> QED
    BY <1>1, <1>3, <2>0, <2>1, <2>2, <2>3, ToolsRest
<1> QED
  BY <1>4, <1>5

\* So does the death of the process, for every driver.
LEMMA CrashTools ==
    ASSUME TaskInv, ToolsInv, Crash PROVE ToolsInv'
<1>1. UNCHANGED <<disk, invoked, confirmed, twice, overwritten>>
      /\ torn' = torn \cup Unrecorded(Threads) /\ th' = [x \in Threads |-> Rest]
  BY DEF Crash
<1>2. \A x \in Threads : th'[x].pc = "rest"
  BY <1>1 DEF Rest
<1>3. ASSUME NEW t \in Tasks PROVE ToolsOK(t)'
  <2>1. Drivers(t)' = {}
    BY <1>2 DEF Drivers, Drives, Loop
  <2>2. ASSUME t \notin overwritten', t \notin torn'
        PROVE  /\ invoked[t] = Recorded(disk[t])
               /\ confirmed[t] \subseteq invoked[t] /\ FileOK(disk[t])
    <3>1. Sound(t) /\ t \notin Unrecorded(Threads)
      BY <1>1, <2>2 DEF Sound
    <3>2. CASE Drivers(t) = {}
      BY <3>1, <3>2 DEF ToolsInv, ToolsOK
    <3>3. CASE Drivers(t) # {}
      <4>1. PICK x \in Threads : Drives(x) /\ th[x].task = t
        BY <3>3 DEF Drivers
      <4>2. th[x].results \subseteq disk[t].results
        BY <3>1, <4>1 DEF Unrecorded, Drives
      <4> QED
        BY <3>1, <4>1, <4>2, DriverInv, CheckpointIsPresent DEF Carries, Recorded
    <3> QED
      BY <3>2, <3>3
  <2> QED
    BY <1>1, <2>1, <2>2 DEF ToolsOK, Sound
<1> QED
  BY <1>1, <1>3 DEF ToolsInv, ConfirmedOnce

LEMMA SurroundingsTools ==
    ASSUME ToolsInv, UNCHANGED <<disk, th, taskHistory>> PROVE ToolsInv'
<1>1. UNCHANGED <<invoked, confirmed, twice, overwritten, torn>>
  BY DEF taskHistory
<1>2. ASSUME NEW t \in Tasks PROVE ToolsOK(t)'
  <2>1. Drivers(t)' = Drivers(t)
    BY DEF Drivers, Drives
  <2> QED
    BY <1>1, <2>1 DEF ToolsInv, ToolsOK, Sound
<1> QED
  BY <1>1, <1>2 DEF ToolsInv, ConfirmedOnce

LEMMA InitToolsInv == Init => ToolsInv
<1> SUFFICES ASSUME Init PROVE ToolsInv
  OBVIOUS
<1>1. \A x \in Threads : th[x].pc = "rest"
  BY DEF Init, Rest
<1>2. ASSUME NEW t \in Tasks PROVE ToolsOK(t)
  <2>1. Drivers(t) = {} /\ disk[t] = NoTask /\ invoked[t] = {} /\ confirmed[t] = {}
    BY <1>1 DEF Init, Drivers, Drives, Loop
  <2>2. FileOK(disk[t]) /\ Recorded(disk[t]) = {}
    BY <2>1 DEF FileOK, Recorded, NoTask
  <2> QED
    BY <2>1, <2>2 DEF ToolsOK
<1> QED
  BY <1>2 DEF Init, ToolsInv, ConfirmedOnce

LEMMA NextToolsInv == TaskInv /\ TaskInv' /\ ToolsInv /\ [Next]_vars => ToolsInv'
<1> SUFFICES ASSUME TaskInv, TaskInv', ToolsInv, [Next]_vars PROVE ToolsInv'
  OBVIOUS
<1>1. ASSUME NEW x \in Threads, Proceed(x) PROVE ToolsInv'
  BY <1>1, CallModelTools, ModelAnswersTools, NextToolTools, InvokeToolTools,
     RecordStepTools, InvokeConfirmedTools, RoutesTools, SaversTools DEF Proceed
<1>2. ASSUME NEW x \in Threads, Confirm(x) \/ Cancel(x) \/ SaveRaises(x) PROVE ToolsInv'
  BY <1>2, ConfirmTools, CancelTools, SaveRaisesTools
<1>3. ASSUME NEW x \in Threads, NEW t \in Tasks,
             StartRun(x, t) \/ AskConfirm(x, t) \/ AskCancel(x, t) \/ ResumeRunning(x, t)
      PROVE  ToolsInv'
  BY <1>3, StartRunTools, RoutesTools, ResumeRunningTools
<1>4. CASE \/ \E t \in Tasks : RequestCancel(t)
           \/ SwitchMode \/ UpsetSession \/ UNCHANGED vars
  BY <1>4, SurroundingsTools DEF RequestCancel, SwitchMode, UpsetSession, vars
<1>5. CASE Crash
  BY <1>5, CrashTools
<1> QED
  BY <1>1, <1>2, <1>3, <1>4, <1>5 DEF Next

\* What the tools did is in the checkpoint of their task or with its one
\* driver, in every reachable state: the invariant the next theorems rest on.
THEOREM ToolsInvHolds == Spec => [](TaskInv /\ ToolsInv)
<1>1. Init => TaskInv /\ ToolsInv
  BY InitTaskInv, InitToolsInv
<1>2. TaskInv /\ ToolsInv /\ [Next]_vars => (TaskInv /\ ToolsInv)'
  BY NextTaskInv, NextToolsInv
<1> QED
  BY <1>1, <1>2, PTL DEF Spec

LEMMA ToolsAreKeptFollows == TaskInv /\ ToolsInv => ToolsAreKept
<1> SUFFICES ASSUME TaskInv, ToolsInv, NEW t \in Tasks \ (overwritten \cup torn),
                    disk[t] # NoTask, disk[t].status \in Ended
             PROVE  disk[t].results = invoked[t]
  BY DEF ToolsInv, ToolsAreKept, ResultsAreComplete
<1>1. Drivers(t) = {}
  BY DEF TaskInv, ThreadsInv, NotEnded, Drivers, Ended
<1> QED
  BY <1>1 DEF ToolsInv, ToolsOK, Sound, Recorded

\* The pending tool of a step runs once for its confirmation, and a task ends
\* with the results of every tool that ran, over any number of confirmations,
\* cancellations, crashes and resumptions; exempt are the tasks whose
\* checkpoint a route overwrote, or where a failure came between a tool and
\* its checkpoint.
THEOREM ToolsAreKeptHolds == Spec => []ToolsAreKept
BY ToolsInvHolds, ToolsAreKeptFollows, PTL

\* The automatic tools a thread runs belong to a step later than the last one
\* its checkpoint records, also after a crash and a resumption.
THEOREM NoStepRepeatsHolds == Spec => NoStepRepeats
<1>1. ASSUME TaskInv, ToolsInv, NEW x \in Threads, th[x].pc = "invoke",
             th[x].task \notin overwritten
      PROVE  th[x].step > disk[th[x].task].step
  <2>1. Drives(x)
    BY <1>1 DEF Drives, Loop
  <2>2. AtStep(th[x], disk[th[x].task]) /\ disk[th[x].task] \in Checkpoint
        /\ th[x].pc = "invoke"
    BY <1>1, <2>1, DriverInv
  <2> QED
    BY <2>2, TaskAssumption DEF AtStep, Checkpoint
<1>2. TaskInv /\ ToolsInv =>
        [\A x \in Threads :
           (th[x].pc = "invoke" /\ th'[x].pc = "tools" /\ th[x].task \notin overwritten)
              => th[x].step > disk[th[x].task].step]_vars
  BY <1>1
<1> QED
  BY <1>2, ToolsInvHolds, PTL DEF NoStepRepeats

--------------------------------------------------------------------------------
(* The session                                                             *)

\* The routes between the loop and the session; a run that has not told the
\* session of its task yet.
Reports(x) == th[x].pc \in {"stampload", "stampsave", "memory"}
Owes(x)    == th[x].route = "run" /\ (Drives(x) \/ Reports(x))
Turned(t)  == \E i \in 1..Len(turns) : turns[i] = t
Told(t)    == t \in pending \/ Turned(t)

SessionInv ==
    /\ \A i, j \in 1..Len(turns) : turns[i] = turns[j] => i = j
    /\ \A t \in pending : ~Turned(t)
    /\ \A t \in Tasks : disk[t] = NoTask => ~Told(t)
    /\ \A x \in Threads : Owes(x) => ~Told(th[x].task)
    /\ \A x, y \in Threads : Owes(x) /\ Owes(y) /\ th[x].task = th[y].task => x = y

\* Without a failure a RUNNING task is driven, nobody resumes it on the command
\* line, and of a task that ended the session hears or has heard.
Settled(t)  == t \notin pending /\ \A x \in Threads : Owes(x) => th[x].task # t
FollowOK(t) ==
    troubles = 0 /\ t \notin overwritten =>
        /\ disk[t].status = "RUNNING" => Drivers(t) # {}
        /\ \A x \in Drivers(t) : th[x].route # "cli"
        /\ disk[t].status \in Ended /\ t \notin unheard =>
              \/ \E x \in Threads : Reports(x) /\ th[x].task = t /\ th[x].result \in Ended
              \/ Settled(t)
FollowInv == troubles \in Nat /\ \A t \in Tasks : FollowOK(t)

OwesLess == \A x \in Threads : Owes(x)' => Owes(x) /\ th'[x].task = th[x].task
DiskGrows == \A t \in Tasks : disk'[t] = NoTask => disk[t] = NoTask

\* Nothing is told to the session, which may be cleared.
LEMMA SessionShrinks ==
    ASSUME SessionInv, OwesLess, DiskGrows, pending' \subseteq pending,
           turns' = turns \/ turns' = <<>>
    PROVE  SessionInv'
<1>1. \A t : Turned(t)' => Turned(t)
  BY DEF Turned
<1>2. \A t : Told(t)' => Told(t)
  BY <1>1 DEF Told
<1>3. \A i, j \in 1..Len(turns') : turns'[i] = turns'[j] => i = j
  BY DEF SessionInv
<1> QED
  BY <1>1, <1>2, <1>3 DEF SessionInv, OwesLess, DiskGrows

\* The turns after one more, of which the oldest may be gone.
LEMMA TurnsAfter ==
    ASSUME SessionTypeOK, NEW t \in Tasks, turns' = Latest(Append(turns, t)),
           ~Turned(t), \A i, j \in 1..Len(turns) : turns[i] = turns[j] => i = j
    PROVE  /\ \A i, j \in 1..Len(turns') : turns'[i] = turns'[j] => i = j
           /\ \A u : Turned(u)' => Turned(u) \/ u = t
<1> DEFINE longer == Append(turns, t)
<1>1. turns \in Seq(Tasks) /\ Len(turns) \in Nat
  BY DEF SessionTypeOK
<1>2. /\ longer \in Seq(Tasks) /\ Len(longer) = Len(turns) + 1
      /\ \A i \in 1..Len(turns) : longer[i] = turns[i]
      /\ longer[Len(turns) + 1] = t
  BY <1>1
<1>3. \A i, j \in 1..Len(longer) : longer[i] = longer[j] => i = j
  BY <1>1, <1>2 DEF Turned
<1>4. \A i \in 1..Len(longer) : Turned(longer[i]) \/ longer[i] = t
  BY <1>1, <1>2 DEF Turned
<1> HIDE DEF longer
<1>5. CASE turns' = longer
  BY <1>3, <1>4, <1>5 DEF Turned
<1>6. CASE turns' = Tail(longer)
  <2>1. Len(turns') = Len(longer) - 1 /\ \A i \in 1..Len(turns') : turns'[i] = longer[i + 1]
    BY <1>1, <1>2, <1>6
  <2>2. \A i \in 1..Len(turns') : i + 1 \in 1..Len(longer)
    BY <1>1, <1>2, <2>1
  <2>3. \A i, j \in 1..Len(turns') : turns'[i] = turns'[j] => i = j
    <3> SUFFICES ASSUME NEW i \in 1..Len(turns'), NEW j \in 1..Len(turns'),
                        turns'[i] = turns'[j]
                 PROVE  i = j
      OBVIOUS
    <3>1. i + 1 = j + 1
      BY <1>3, <2>1, <2>2
    <3> QED
      BY <1>1, <1>2, <2>1, <3>1
  <2> QED
    BY <1>4, <2>1, <2>2, <2>3 DEF Turned
<1> QED
  BY <1>5, <1>6 DEF Latest, longer

\* The session hears of a task it had no turn of, and the run that owed it is
\* done with it.
LEMMA SessionHears ==
    ASSUME SessionTypeOK, SessionInv, OwesLess, DiskGrows, NEW t \in Tasks,
           ~Turned(t), disk'[t] # NoTask, \A x \in Threads : Owes(x)' => th'[x].task # t,
           AppendTurn(t) \/ (pending' = pending \cup {t} /\ turns' = turns)
    PROVE  SessionInv'
<1>1. CASE AppendTurn(t)
  <2>1. turns' = Latest(Append(turns, t)) /\ pending' = pending \ {t}
    BY <1>1 DEF AppendTurn
  <2>2. /\ \A i, j \in 1..Len(turns') : turns'[i] = turns'[j] => i = j
        /\ \A u : Turned(u)' => Turned(u) \/ u = t
    BY <2>1, TurnsAfter DEF SessionInv
  <2>3. \A u : Told(u)' => Told(u) \/ u = t
    BY <2>1, <2>2 DEF Told
  <2> QED
    BY <2>1, <2>2, <2>3 DEF SessionInv, OwesLess, DiskGrows
<1>2. CASE pending' = pending \cup {t} /\ turns' = turns
  <2>1. \A u : (Turned(u)' <=> Turned(u)) /\ (Told(u)' => Told(u) \/ u = t)
    BY <1>2 DEF Turned, Told
  <2>2. \A i, j \in 1..Len(turns') : turns'[i] = turns'[j] => i = j
    BY <1>2 DEF SessionInv
  <2> QED
    BY <1>2, <2>1, <2>2 DEF SessionInv, OwesLess, DiskGrows
<1> QED
  BY <1>1, <1>2

\* What a thread is to its task, and that a step leaves it so.
Serves(x, t) == th[x].task = t /\ (Drives(x) \/ Reports(x))
SameRole(x) ==
    /\ (Drives(x)' <=> Drives(x)) /\ (Reports(x)' <=> Reports(x))
    /\ Drives(x) \/ Reports(x) =>
          th'[x].task = th[x].task /\ th'[x].route = th[x].route /\ th'[x].result = th[x].result
SameStatus(t) == t \notin overwritten' => disk'[t].status = disk[t].status
Quiet ==
    /\ troubles' = troubles /\ overwritten \subseteq overwritten' /\ unheard \subseteq unheard'

\* A task whose checkpoint keeps its status and whose threads keep their roles.
LEMMA FollowFrame ==
    ASSUME FollowInv, Quiet, NEW t \in Tasks, SameStatus(t), t \in pending' => t \in pending,
           \A x \in Threads : Serves(x, t) \/ Serves(x, t)' => SameRole(x)
    PROVE  FollowOK(t)'
<1>1. Drivers(t)' = Drivers(t) /\ \A x \in Drivers(t) : th'[x].route = th[x].route
  BY DEF SameRole, Serves, Drivers, Drives, Reports
<1>2. \A x \in Threads :
         Reports(x) /\ th[x].task = t => /\ Reports(x)' /\ th'[x].task = t
                                         /\ th'[x].result = th[x].result
  BY DEF SameRole, Serves
<1>3. \A x \in Threads : Owes(x)' /\ th'[x].task = t => Owes(x) /\ th[x].task = t
  BY DEF SameRole, Serves, Owes
<1> QED
  BY <1>1, <1>2, <1>3 DEF FollowInv, FollowOK, Quiet, SameStatus, Settled

LEMMA StayersKeepRoles ==
    ASSUME NEW x \in Threads, OnlyMoves(x) PROVE \A y \in Threads \ {x} : SameRole(y)
BY DEF OnlyMoves, SameRole, Drives, Reports

\* Nobody's role changes.
LEMMA FollowStays ==
    ASSUME FollowInv, Quiet, \A t \in Tasks : SameStatus(t), pending' \subseteq pending,
           \A x \in Threads : SameRole(x)
    PROVE  FollowInv'
<1>1. ASSUME NEW t \in Tasks PROVE FollowOK(t)'
  <2>1. t \in pending' => t \in pending
    OBVIOUS
  <2>2. SameStatus(t) /\ \A x \in Threads : Serves(x, t) \/ Serves(x, t)' => SameRole(x)
    OBVIOUS
  <2> QED
    BY <2>1, <2>2, FollowFrame
<1> QED
  BY <1>1 DEF FollowInv, Quiet

\* One thread changes its role for one task.
LEMMA FollowStep ==
    ASSUME FollowInv, Quiet, NEW x \in Threads, OnlyMoves(x), NEW t \in Tasks,
           \A u \in Tasks \ {t} : SameStatus(u) /\ (u \in pending' => u \in pending)
                                  /\ ~Serves(x, u) /\ ~Serves(x, u)',
           FollowOK(t)'
    PROVE  FollowInv'
<1>1. ASSUME NEW u \in Tasks \ {t} PROVE FollowOK(u)'
  <2>1. SameStatus(u) /\ (u \in pending' => u \in pending)
    OBVIOUS
  <2>2. \A y \in Threads : Serves(y, u) \/ Serves(y, u)' => SameRole(y)
    BY StayersKeepRoles
  <2> QED
    BY <2>1, <2>2, FollowFrame
<1> QED
  BY <1>1 DEF FollowInv, Quiet

\* A failure ends what the invariant says.
LEMMA FollowFails ==
    ASSUME FollowInv, troubles' = troubles + 1 PROVE FollowInv'
BY DEF FollowInv, FollowOK

AllInv == TaskInv /\ SessionInv /\ FollowInv

\* A step in the loop, which may save the checkpoint of a step.
LEMMA LoopSession ==
    ASSUME AllInv, NEW x \in Threads, Drives(x), NEW t \in Tasks, t = th[x].task,
           OnlyMoves(x), Drives(x)', th'[x].task = t, th'[x].route = th[x].route,
           OnlyWrites(t), disk'[t] = disk[t] \/ disk'[t].status = "RUNNING",
           UNCHANGED <<troubles, overwritten, unheard, sessionVars>>
    PROVE  SessionInv' /\ FollowInv'
<1>1. UNCHANGED <<turns, pending>> /\ Quiet
  BY DEF sessionVars, Quiet
<1>2. disk'[t] # NoTask
  BY DriverTyped, CheckpointIsPresent DEF AllInv, NoTask
<1>3. OwesLess /\ DiskGrows
  BY <1>2 DEF OwesLess, Owes, Drives, Reports, Loop, OnlyMoves, OnlyWrites, DiskGrows
<1>4. SessionInv'
  BY <1>1, <1>3, SessionShrinks DEF AllInv
<1>5. FollowOK(t)'
  <2> SUFFICES ASSUME troubles = 0, t \notin overwritten
               PROVE  /\ Drivers(t)' # {} /\ \A y \in Drivers(t)' : th'[y].route # "cli"
                      /\ disk'[t].status \notin Ended
    BY DEF FollowOK
  <2>1. x \in Drivers(t) /\ Drivers(t)' = Drivers(t)
    BY DEF Drivers, OnlyMoves, Drives
  <2>2. \A y \in Drivers(t) : th[y].route # "cli"
    BY DEF AllInv, FollowInv, FollowOK
  <2>3. disk[t].status \notin Ended
    BY DEF AllInv, TaskInv, ThreadsInv, NotEnded, Ended
  <2>4. disk'[t].status \notin Ended
    BY <2>3 DEF Ended
  <2>5. \A y \in Drivers(t) : th'[y].route # "cli"
    <3> SUFFICES ASSUME NEW y \in Drivers(t) PROVE th'[y].route # "cli"
      OBVIOUS
    <3>1. CASE y = x
      BY <2>2, <3>1
    <3>2. CASE y # x
      BY <2>2, <3>2 DEF OnlyMoves, Drivers
    <3> QED
      BY <3>1, <3>2
  <2> QED
    BY <2>1, <2>4, <2>5
<1>6. \A u \in Tasks \ {t} : SameStatus(u) /\ ~Serves(x, u) /\ ~Serves(x, u)'
  BY DEF SameStatus, OnlyWrites, Serves
<1>7. FollowInv'
  BY <1>1, <1>5, <1>6, FollowStep DEF AllInv
<1> QED
  BY <1>4, <1>7

\* A thread has recorded how the task ended or paused, and reports it.
LEMMA ReportSession ==
    ASSUME AllInv, NEW x \in Threads, NEW t \in Tasks, t = th[x].task, OnlyMoves(x),
           th[x].route # "cli" => Reports(x)' /\ th'[x].task = t /\ th'[x].route = th[x].route
                                  /\ th'[x].result = disk'[t].status,
           th[x].route = "cli" => Drives(x) /\ th'[x] = Rest,
           Drives(x) \/ th[x].route # "run",
           OnlyWrites(t), disk'[t].status \in Ended \cup {"AWAITING_CONFIRMATION"},
           UNCHANGED <<troubles, overwritten, unheard, sessionVars>>
    PROVE  SessionInv' /\ FollowInv'
<1>0. Rest.route = "none" /\ Rest.pc = "rest" /\ NoTask.status = "ABSENT"
  BY DEF Rest, NoTask
<1>1. UNCHANGED <<turns, pending>> /\ Quiet
  BY DEF sessionVars, Quiet
<1>2. OwesLess /\ DiskGrows
  BY <1>0 DEF OwesLess, Owes, Drives, Reports, OnlyMoves, OnlyWrites, DiskGrows, Ended
<1>3. SessionInv'
  BY <1>1, <1>2, SessionShrinks DEF AllInv
<1>4. FollowOK(t)'
  <2> SUFFICES ASSUME troubles = 0, t \notin overwritten
               PROVE  /\ disk'[t].status # "RUNNING"
                      /\ \A y \in Drivers(t)' : th'[y].route # "cli"
                      /\ disk'[t].status \in Ended =>
                           \E y \in Threads : Reports(y)' /\ th'[y].task = t
                                              /\ th'[y].result \in Ended
    BY DEF FollowOK
  <2>1. \A y \in Drivers(t) : th[y].route # "cli"
    BY DEF AllInv, FollowInv, FollowOK
  <2>2. th[x].route # "cli"
    BY <2>1 DEF Drivers
  <2>3. \A y \in Drivers(t)' : y \in Drivers(t) /\ th'[y] = th[y]
    BY <2>2 DEF Drivers, OnlyMoves, Drives, Reports, Loop
  <2> QED
    BY <2>1, <2>2, <2>3 DEF Ended
<1>5. \A u \in Tasks \ {t} : SameStatus(u) /\ ~Serves(x, u) /\ ~Serves(x, u)'
  BY <1>0 DEF SameStatus, OnlyWrites, Serves, Drives, Reports, Loop
<1>6. FollowInv'
  BY <1>1, <1>4, <1>5, FollowStep DEF AllInv
<1> QED
  BY <1>3, <1>6

\* A thread outside the loop keeps its role, and no checkpoint that can be
\* trusted changes its status.
LEMMA AsideSession ==
    ASSUME AllInv, NEW x \in Threads, OnlyMoves(x), SameRole(x), DiskGrows, Quiet,
           \A t \in Tasks : SameStatus(t), UNCHANGED sessionVars
    PROVE  SessionInv' /\ FollowInv'
<1>1. UNCHANGED <<turns, pending>>
  BY DEF sessionVars
<1>2. \A y \in Threads : SameRole(y)
  BY StayersKeepRoles
<1>3. OwesLess
  BY <1>2 DEF OwesLess, SameRole, Owes
<1> QED
  BY <1>1, <1>2, <1>3, SessionShrinks, FollowStays DEF AllInv

LEMMA SurroundingsSession ==
    ASSUME AllInv, UNCHANGED <<th, disk, overwritten, unheard, troubles>>,
           pending' \subseteq pending, turns' = turns \/ turns' = <<>>
    PROVE  SessionInv' /\ FollowInv'
<1>1. \A x \in Threads : SameRole(x)
  BY DEF SameRole, Drives, Reports
<1>2. OwesLess /\ DiskGrows /\ Quiet /\ \A t \in Tasks : SameStatus(t)
  BY DEF OwesLess, Owes, Drives, Reports, DiskGrows, Quiet, SameStatus
<1> QED
  BY <1>1, <1>2, SessionShrinks, FollowStays DEF AllInv

LEMMA FinishSession ==
    ASSUME AllInv, NEW x \in Threads, Drives(x),
           NEW status \in Ended \cup {"AWAITING_CONFIRMATION"},
           status = "AWAITING_CONFIRMATION" => th[x].pc # "model", Finish(x, status)
    PROVE  SessionInv' /\ FollowInv'
<1>0. PICK t \in Tasks : t = th[x].task
  BY DriverTyped DEF AllInv
<1> DEFINE c == Snapshot(x, status)
<1>1. TaskInv /\ th[x] \in Thread
  BY DriverTyped DEF AllInv
<1>2. c \in Checkpoint /\ c.status = status
  BY <1>1, SnapshotTyped
<1>3. OnlyWrites(t) /\ disk'[t] = c
  BY <1>0, <1>1, <1>2, DiskSteps DEF Finish, SaveCheckpoint, TaskInv
<1>4. UNCHANGED <<troubles, overwritten, unheard, sessionVars>>
  BY DEF Finish, taskHistory, bounds
<1> HIDE DEF c
<1>5. CASE th[x].route = "cli"
  <2>1. OnlyMoves(x) /\ th'[x] = Rest
    BY <1>1, <1>5, RestIsThread, ThreadSteps, Zenon DEF Finish, Leave, TaskInv
  <2> QED
    BY <1>0, <1>2, <1>3, <1>4, <1>5, <2>1, ReportSession
<1>6. CASE th[x].route # "cli"
  <2> DEFINE r == [th[x] EXCEPT !.pc = "stampload", !.result = status]
  <2>1. r \in Thread /\ r.pc = "stampload" /\ r.task = t /\ r.route = th[x].route
        /\ r.result = status
    BY <1>0, <1>1 DEF Thread
  <2>2. th' = [th EXCEPT ![x] = r]
    BY <1>1, <1>6 DEF Thread, Finish
  <2>3. OnlyMoves(x) /\ th'[x] = r
    BY <1>1, <2>1, <2>2, ThreadSteps DEF TaskInv
  <2>4. Reports(x)' /\ th'[x].task = t /\ th'[x].route = th[x].route
        /\ th'[x].result = disk'[t].status
    BY <1>2, <1>3, <2>1, <2>3 DEF Reports
  <2> QED
    BY <1>0, <1>2, <1>3, <1>4, <1>6, <2>3, <2>4, ReportSession
<1> QED
  BY <1>5, <1>6

\* A step in the loop that writes no checkpoint.
LEMMA MovesSession ==
    ASSUME AllInv, NEW x \in Threads, Drives(x), NEW r \in Thread, th' = [th EXCEPT ![x] = r],
           r.task = th[x].task, r.route = th[x].route, r.pc \in Loop,
           UNCHANGED <<disk, troubles, overwritten, unheard, sessionVars>>
    PROVE  SessionInv' /\ FollowInv'
<1>0. PICK t \in Tasks : t = th[x].task
  BY DriverTyped DEF AllInv
<1>1. OnlyMoves(x) /\ th'[x] = r
  BY ThreadSteps DEF AllInv, TaskInv
<1>2. OnlyWrites(t)
  BY DEF OnlyWrites, DisksTyped, AllInv, TaskInv, TypeOK
<1>3. Drives(x)' /\ th'[x].task = t /\ th'[x].route = th[x].route
  BY <1>0, <1>1 DEF Drives
<1> QED
  BY <1>0, <1>1, <1>2, <1>3, LoopSession

LEMMA LoopsSession ==
    ASSUME AllInv, NEW x \in Threads,
           \/ CallModel(x) \/ ModelAnswers(x) \/ NextTool(x)
           \/ InvokeTool(x) \/ InvokeConfirmed(x)
    PROVE  SessionInv' /\ FollowInv'
<1>1. Drives(x) /\ TaskInv /\ th[x] \in Thread
  <2>1. Drives(x)
    BY DEF CallModel, ModelAnswers, NextTool, InvokeTool, InvokeConfirmed, Drives, Loop
  <2> QED
    BY <2>1, DriverTyped DEF AllInv
<1>2. CASE \E status \in Ended \cup {"AWAITING_CONFIRMATION"} :
             Finish(x, status) /\ (status = "AWAITING_CONFIRMATION" => th[x].pc # "model")
  BY <1>1, <1>2, FinishSession
<1>3. CASE /\ \E pc \in Loop : Goto(x, pc)
           /\ UNCHANGED <<disk, troubles, overwritten, unheard, sessionVars>>
  <2>1. PICK pc \in Loop : Goto(x, pc)
    BY <1>3
  <2> DEFINE r == [th[x] EXCEPT !.pc = pc]
  <2>2. r \in Thread /\ r.task = th[x].task /\ r.route = th[x].route /\ r.pc = pc
    BY <1>1 DEF Thread
  <2>3. th' = [th EXCEPT ![x] = r]
    BY <1>1, <2>1 DEF Thread, Goto
  <2> QED
    BY <1>1, <1>3, <2>2, <2>3, MovesSession
<1>4. CASE /\ th' = [th EXCEPT ![x].pc = "answer",
                        ![x].history = IF @ = "prefix" THEN "marked" ELSE @]
           /\ UNCHANGED <<disk, troubles, overwritten, unheard, sessionVars>>
  <2> DEFINE h == IF th[x].history = "prefix" THEN "marked" ELSE th[x].history
             r == [th[x] EXCEPT !.pc = "answer", !.history = h]
  <2>1. r \in Thread /\ r.task = th[x].task /\ r.route = th[x].route /\ r.pc = "answer"
    BY <1>1 DEF Thread, Loop
  <2>2. th' = [th EXCEPT ![x] = r]
    BY <1>1, <1>4 DEF Thread
  <2> QED
    BY <1>1, <1>4, <2>1, <2>2, MovesSession DEF Loop
<1>5. CASE InvokeTool(x) \/ InvokeConfirmed(x)
  <2> DEFINE r == [th[x] EXCEPT !.pc = "tools", !.results = @ \cup {th[x].step}]
  <2>1. th[x].step \in Steps
    BY <1>1, <1>5, DriverTyped DEF InvokeTool, InvokeConfirmed
  <2>2. r \in Thread /\ r.task = th[x].task /\ r.route = th[x].route /\ r.pc = "tools"
    BY <1>1, <2>1 DEF Thread, Loop
  <2>3. th' = [th EXCEPT ![x] = r]
    BY <1>1, <1>5 DEF Thread, InvokeTool, InvokeConfirmed
  <2>4. UNCHANGED <<disk, troubles, overwritten, unheard, sessionVars>>
    BY <1>5 DEF InvokeTool, InvokeConfirmed, bounds
  <2> QED
    BY <1>1, <2>2, <2>3, <2>4, MovesSession DEF Loop
<1>6. CASE CallModel(x)
  BY <1>2, <1>4, <1>6 DEF CallModel, Stops, Ended, bounds, taskHistory
<1>7. CASE ModelAnswers(x)
  BY <1>2, <1>3, <1>7 DEF ModelAnswers, Stops, Ended, Loop, bounds, taskHistory
<1>8. CASE NextTool(x)
  BY <1>2, <1>3, <1>8 DEF NextTool, Stops, Ended, Loop, bounds, taskHistory
<1> QED
  BY <1>5, <1>6, <1>7, <1>8

LEMMA RecordStepSession ==
    ASSUME AllInv, NEW x \in Threads, RecordStep(x) PROVE SessionInv' /\ FollowInv'
<1> DEFINE c == Snapshot(x, "RUNNING")
           r == [th[x] EXCEPT !.pc = "model", !.step = @ + 1]
<1>1. Drives(x) /\ th[x].pc # "model" /\ TaskInv
  BY DEF RecordStep, Drives, Loop, AllInv
<1>0. PICK t \in Tasks : t = th[x].task
  BY <1>1, DriverTyped
<1>2. th[x] \in Thread /\ th[x].step + 1 \in 0..MaxSteps + 1
  BY <1>1, DriverTyped, TaskAssumption DEF Steps
<1>3. r \in Thread /\ r.task = t /\ r.route = th[x].route /\ r.pc = "model"
  BY <1>0, <1>2 DEF Thread, Loop
<1>4. th' = [th EXCEPT ![x] = r]
  BY <1>2 DEF Thread, RecordStep
<1>5. OnlyMoves(x) /\ th'[x] = r
  BY <1>1, <1>3, <1>4, ThreadSteps DEF TaskInv
<1>6. c \in Checkpoint /\ c.status = "RUNNING"
  BY <1>1, SnapshotTyped
<1>7. OnlyWrites(t) /\ disk'[t] = c
  BY <1>0, <1>1, <1>6, DiskSteps DEF RecordStep, SaveCheckpoint, TaskInv
<1>8. UNCHANGED <<troubles, overwritten, unheard, sessionVars>>
  BY DEF RecordStep, taskHistory, bounds
<1>9. Drives(x)' /\ th'[x].task = t /\ th'[x].route = th[x].route
  BY <1>3, <1>5 DEF Drives, Loop
<1> QED
  BY <1>0, <1>1, <1>5, <1>6, <1>7, <1>8, <1>9, LoopSession

LEMMA StartRunSession ==
    ASSUME AllInv, NEW x \in Threads, NEW t \in Tasks, StartRun(x, t)
    PROVE  SessionInv' /\ FollowInv'
<1> DEFINE me == [Rest EXCEPT !.task = t, !.pc = "model", !.route = "run", !.step = 1]
           c == [status |-> "RUNNING", step |-> 0, results |-> {}, history |-> "prefix",
                 identity |-> identity]
<1>1. TaskInv /\ 1 \in 0..MaxSteps + 1 /\ 0 \in 0..MaxSteps
  BY TaskAssumption DEF AllInv
<1>2. me \in Thread /\ me.pc = "model" /\ me.task = t /\ me.route = "run"
  BY <1>1, RestIsThread DEF Rest, Thread, Loop
<1>3. c \in Checkpoint /\ c.status = "RUNNING"
  BY <1>1 DEF Checkpoint, TaskInv, TypeOK
<1>4. OnlyMoves(x) /\ th'[x] = me
  BY <1>1, <1>2, ThreadSteps, Zenon DEF StartRun, TaskInv
<1>5. OnlyWrites(t) /\ disk'[t] = c
  BY <1>1, <1>3, DiskSteps, Zenon DEF StartRun, TaskInv
<1>6. /\ disk[t] = NoTask /\ th[x].pc = "rest" /\ \A y \in Threads : ~Serves(y, t)
      /\ UNCHANGED <<turns, pending, troubles, overwritten, unheard>>
  BY DEF StartRun, Busy, Serves, Drives, Reports, Loop, bounds, taskHistory, sessionVars
<1> HIDE DEF me, c
<1>7. Drives(x)' /\ th'[x].task = t /\ th'[x].route = "run" /\ disk'[t].status = "RUNNING"
      /\ disk'[t] # NoTask
  BY <1>2, <1>3, <1>4, <1>5 DEF Drives, Loop, NoTask
<1>8. SessionInv'
  <2>1. ~Told(t) /\ \A u : Told(u)' <=> Told(u)
    BY <1>6 DEF AllInv, SessionInv, Told, Turned
  <2>2. \A y \in Threads \ {x} : Owes(y)' => Owes(y) /\ th'[y].task = th[y].task
                                             /\ th'[y].task # t
    BY <1>4, <1>6 DEF OnlyMoves, Owes, Drives, Reports, Serves
  <2>3. \A u : Turned(u)' <=> Turned(u)
    BY <1>6 DEF Turned
  <2>4. \A u \in Tasks : disk'[u] = NoTask => disk[u] = NoTask
    BY <1>5, <1>7 DEF OnlyWrites
  <2> QED
    BY <1>6, <1>7, <2>1, <2>2, <2>3, <2>4 DEF AllInv, SessionInv
<1>9. FollowOK(t)'
  <2>1. Drivers(t)' = {x}
    BY <1>4, <1>6, <1>7 DEF Drivers, OnlyMoves, Serves, Drives
  <2> QED
    BY <1>7, <2>1 DEF FollowOK, Ended
<1>10. Quiet /\ \A u \in Tasks \ {t} : SameStatus(u) /\ ~Serves(x, u) /\ ~Serves(x, u)'
  BY <1>5, <1>6, <1>7 DEF Quiet, SameStatus, OnlyWrites, Serves, Drives, Reports, Loop
<1>11. FollowInv'
  BY <1>4, <1>6, <1>9, <1>10, FollowStep DEF AllInv
<1> QED
  BY <1>8, <1>11

\* Without a failure nothing is left to resume, unless a route overwrote it.
LEMMA ResumeRunningSession ==
    ASSUME AllInv, NEW x \in Threads, NEW t \in Tasks, ResumeRunning(x, t)
    PROVE  SessionInv' /\ FollowInv'
<1> DEFINE c == disk[t]
           me == [Rest EXCEPT !.task = t, !.pc = "model", !.route = "cli",
                    !.step = ResumeAt(c), !.results = c.results, !.history = c.history]
<1>1. c \in Checkpoint /\ c.status = "RUNNING" /\ TaskInv
  BY DEF ResumeRunning, AllInv, TaskInv, TypeOK
<1>2. ResumeAt(c) \in 0..MaxSteps + 1
  BY <1>1, TaskAssumption DEF ResumeAt, Checkpoint
<1>3. me \in Thread /\ me.pc = "model" /\ me.task = t /\ me.route = "cli"
  BY <1>1, <1>2, RestIsThread DEF Rest, Thread, Loop, Checkpoint
<1>4. OnlyMoves(x) /\ th'[x] = me
  BY <1>1, <1>3, ThreadSteps, Zenon DEF ResumeRunning, TaskInv
<1>5. /\ th[x].pc = "rest" /\ Drivers(t) = {}
      /\ UNCHANGED <<disk, turns, pending, troubles, overwritten, unheard>>
  BY DEF ResumeRunning, Busy, Drivers, Drives, Loop, bounds, taskHistory, sessionVars
<1> HIDE DEF me
<1>6. OwesLess
  BY <1>3, <1>4 DEF OwesLess, Owes, OnlyMoves, Drives, Reports
<1>7. SessionInv'
  BY <1>5, <1>6, SessionShrinks DEF AllInv, DiskGrows
<1>8. FollowOK(t)'
  BY <1>1, <1>5 DEF AllInv, FollowInv, FollowOK
<1>9. Quiet /\ \A u \in Tasks \ {t} : SameStatus(u) /\ ~Serves(x, u) /\ ~Serves(x, u)'
  BY <1>3, <1>4, <1>5 DEF Quiet, SameStatus, Serves, Drives, Reports, Loop
<1>10. FollowInv'
  BY <1>4, <1>5, <1>8, <1>9, FollowStep DEF AllInv
<1> QED
  BY <1>7, <1>10

\* A request that finds its task, or is refused, and a copy that is read or
\* leaves the file as it was.
LEMMA RoutesSession ==
    ASSUME AllInv, NEW x \in Threads,
           \/ StampLoad(x) \/ StripLoad(x) \/ StampSave(x) \/ StripSave(x)
           \/ (\E t \in Tasks : AskConfirm(x, t) \/ AskCancel(x, t))
           \/ (Confirm(x) \/ Cancel(x)) /\ Leave(x) /\ UNCHANGED disk
    PROVE  SessionInv' /\ FollowInv'
<1>1. TaskInv /\ th[x] \in Thread /\ ~Drives(x) /\ Rest.pc = "rest"
  BY DEF AllInv, TaskInv, TypeOK, StampLoad, StripLoad, StampSave, StripSave, AskConfirm,
         AskCancel, Confirm, Cancel, Drives, Loop, Rest
<1>2. Quiet /\ UNCHANGED sessionVars
  BY DEF StampLoad, StripLoad, StampSave, StripSave, AskConfirm, AskCancel, Confirm, Cancel,
         WriteBack, Quiet, bounds, taskHistory
<1>3. OnlyMoves(x) /\ SameRole(x)
  <2>1. CASE StampLoad(x) \/ StampSave(x)
    <3> DEFINE r(pc, c) == [th[x] EXCEPT !.pc = pc, !.copy = c]
    <3>1. PICK pc \in {"stampsave", "memory"}, c \in Checkpoint \cup {NoTask} :
             th' = [th EXCEPT ![x].pc = pc, ![x].copy = c]
      BY <2>1 DEF StampLoad, StampSave, AllInv, TaskInv, ThreadsInv, ThreadOK, Busies
    <3>2. r(pc, c) \in Thread /\ r(pc, c).pc = pc /\ r(pc, c).task = th[x].task
          /\ r(pc, c).route = th[x].route /\ r(pc, c).result = th[x].result
      BY <1>1, <3>1 DEF Thread
    <3>3. th' = [th EXCEPT ![x] = r(pc, c)]
      BY <1>1, <3>1 DEF Thread
    <3> HIDE DEF r
    <3>4. OnlyMoves(x) /\ th'[x] = r(pc, c)
      BY <1>1, <3>2, <3>3, ThreadSteps DEF TaskInv
    <3> QED
      BY <2>1, <3>1, <3>2, <3>4 DEF SameRole, Drives, Reports, Loop, StampLoad, StampSave
  <2>2. CASE th[x].pc \notin {"stampload", "stampsave", "memory"}
    <3>1. OnlyMoves(x) /\ ~Drives(x)' /\ ~Reports(x)'
      <4>1. CASE Leave(x)
        <5>1. OnlyMoves(x) /\ th'[x] = Rest
          BY <1>1, <4>1, RestIsThread, ThreadSteps, Zenon DEF Leave, TaskInv
        <5> QED
          BY <1>1, <5>1 DEF Drives, Reports, Loop
      <4>2. CASE th' = [th EXCEPT ![x].pc = "stripsave", ![x].copy = disk[th[x].task]]
                 /\ th[x].pc = "stripload"
        <5> DEFINE r == [th[x] EXCEPT !.pc = "stripsave", !.copy = disk[th[x].task]]
        <5>1. disk[th[x].task] \in Checkpoint
          BY <4>2 DEF AllInv, TaskInv, ThreadsInv, ThreadOK, Busies
        <5>2. r \in Thread /\ r.pc = "stripsave"
          BY <1>1, <5>1 DEF Thread
        <5>3. th' = [th EXCEPT ![x] = r]
          BY <1>1, <4>2 DEF Thread
        <5>4. OnlyMoves(x) /\ th'[x] = r
          BY <1>1, <5>2, <5>3, ThreadSteps DEF TaskInv
        <5> QED
          BY <5>2, <5>4 DEF Drives, Reports, Loop
      <4>3. CASE \E t \in Tasks : AskConfirm(x, t) \/ AskCancel(x, t)
        <5> DEFINE me(t, route) == [Rest EXCEPT !.task = t, !.pc = "ask", !.route = route]
        <5>1. PICK t \in Tasks, route \in {"confirm", "cancel"} :
                 th' = [th EXCEPT ![x] = me(t, route)]
          BY <4>3, Zenon DEF AskConfirm, AskCancel
        <5>2. me(t, route) \in Thread /\ me(t, route).pc = "ask"
          BY <5>1, RestIsThread DEF Rest, Thread, Loop
        <5>3. OnlyMoves(x) /\ th'[x] = me(t, route)
          BY <1>1, <5>1, <5>2, ThreadSteps, Zenon DEF TaskInv
        <5> QED
          BY <5>2, <5>3 DEF Drives, Reports, Loop
      <4> QED
        BY <2>2, <4>1, <4>2, <4>3 DEF StampLoad, StripLoad, StampSave, StripSave
    <3> QED
      BY <1>1, <2>2, <3>1 DEF SameRole, Reports
  <2> QED
    BY <2>1, <2>2 DEF StripLoad, StripSave, AskConfirm, AskCancel, Confirm, Cancel
<1>4. DiskGrows /\ \A t \in Tasks : SameStatus(t)
  <2>1. CASE UNCHANGED disk
    BY <2>1 DEF DiskGrows, SameStatus
  <2>2. CASE StampSave(x) \/ StripSave(x)
    <3>1. th[x].copy \in Checkpoint /\ th[x].task \in Tasks
      BY <2>2 DEF StampSave, StripSave, AllInv, TaskInv, ThreadsInv, ThreadOK, Writers, Busies
    <3>2. PICK h : WriteBack(x, h)
      BY <2>2 DEF StampSave, StripSave
    <3>3. [th[x].copy EXCEPT !.history = h].status = th[x].copy.status
          /\ th[x].copy.status # "ABSENT"
      BY <3>1, CheckpointIsPresent DEF Checkpoint
    <3>4. disk'[th[x].task].status = th[x].copy.status
          /\ \A u \in Tasks \ {th[x].task} : disk'[u] = disk[u]
      BY <1>1, <3>1, <3>2, <3>3 DEF WriteBack, TaskInv, TypeOK
    <3> QED
      BY <3>2, <3>3, <3>4 DEF DiskGrows, SameStatus, WriteBack, NoTask
  <2> QED
    BY <2>1, <2>2 DEF StampLoad, StripLoad, AskConfirm, AskCancel
<1> QED
  BY <1>2, <1>3, <1>4, AsideSession

\* A confirmation that is taken, or failed by its hook.
LEMMA ConfirmSession ==
    ASSUME AllInv, NEW x \in Threads, Confirm(x) PROVE SessionInv' /\ FollowInv'
<1>0. PICK t \in Tasks : t = th[x].task
  BY DEF Confirm, AllInv, TaskInv, ThreadsInv, ThreadOK, Busies
<1> DEFINE c == disk[t]
           resumed == [Resumed(x, c) EXCEPT !.pc = "confirmed"]
           failed == [Resumed(x, c) EXCEPT !.pc = "stampload", !.result = "FAILED"]
           end == [c EXCEPT !.status = "FAILED"]
<1>1. TaskInv /\ th[x] \in Thread /\ th[x].pc = "ask" /\ th[x].route = "confirm"
      /\ LockFree(t) /\ c \in Checkpoint
  BY <1>0 DEF Confirm, AllInv, TaskInv, TypeOK, ThreadsInv, ThreadOK, Busies
<1>2. UNCHANGED <<troubles, overwritten, unheard, sessionVars>>
  BY DEF Confirm, taskHistory, bounds
<1>3. Resumed(x, c) \in Thread /\ Resumed(x, c).task = t /\ Resumed(x, c).route = "confirm"
  <2>1. c.step \in 0..MaxSteps + 1 /\ c.results \in SUBSET Steps
        /\ c.history \in {"prefix", "marked", "stripped"}
    BY <1>1, TaskAssumption DEF Checkpoint
  <2> QED
    BY <1>0, <1>1, <2>1 DEF Thread, Resumed
<1>4. CASE Leave(x) /\ UNCHANGED <<disk, lock>>
  BY <1>4, RoutesSession
<1>5. CASE Confirmable(c) /\ th' = [th EXCEPT ![x] = resumed] /\ UNCHANGED disk
  <2>1. resumed \in Thread /\ resumed.pc = "confirmed" /\ resumed.task = t
        /\ resumed.route = "confirm"
    BY <1>3 DEF Thread, Loop
  <2>2. OnlyMoves(x) /\ th'[x] = resumed
    BY <1>1, <1>5, <2>1, ThreadSteps, Zenon DEF TaskInv
  <2>3. th'[x].pc = "confirmed" /\ th'[x].task = t /\ th'[x].route = "confirm"
    BY <2>1, <2>2
  <2>4. \A y \in Threads : Drives(y) => th[y].task # t
    BY <1>1, <1>5, NobodyDrives DEF Confirmable, TaskInv
  <2>5. UNCHANGED <<turns, pending>> /\ Quiet /\ OwesLess /\ DiskGrows
    BY <1>2, <1>5, <2>2, <2>3
       DEF sessionVars, Quiet, OwesLess, DiskGrows, Owes, OnlyMoves, Drives, Reports
  <2>6. SessionInv'
    BY <2>5, SessionShrinks DEF AllInv
  <2>7. FollowOK(t)'
    <3>1. Drives(x)'
      BY <2>3 DEF Drives, Loop
    <3>2. \A y \in Threads \ {x} : ~(Drives(y)' /\ th'[y].task = t)
      BY <2>2, <2>4 DEF OnlyMoves, Drives
    <3>3. Drivers(t)' = {x}
      BY <2>3, <3>1, <3>2 DEF Drivers
    <3> QED
      BY <1>5, <2>3, <3>3 DEF FollowOK, Confirmable, Ended
  <2>8. \A u \in Tasks \ {t} : SameStatus(u) /\ ~Serves(x, u) /\ ~Serves(x, u)'
    BY <1>0, <1>5, <2>3 DEF SameStatus, Serves
  <2>9. FollowInv'
    BY <2>2, <2>5, <2>7, <2>8, FollowStep DEF AllInv
  <2> QED
    BY <2>6, <2>9
<1>6. CASE Confirmable(c) /\ th' = [th EXCEPT ![x] = failed] /\ disk' = [disk EXCEPT ![t] = end]
  <2>1. failed \in Thread /\ failed.pc = "stampload" /\ failed.task = t
        /\ failed.route = "confirm" /\ failed.result = "FAILED"
    BY <1>3 DEF Thread, Loop, Ended
  <2>2. OnlyMoves(x) /\ th'[x] = failed
    BY <1>1, <1>6, <2>1, ThreadSteps, Zenon DEF TaskInv
  <2>3. end \in Checkpoint /\ end.status = "FAILED"
    BY <1>1 DEF Checkpoint, Ended
  <2>4. OnlyWrites(t) /\ disk'[t] = end
    BY <1>1, <1>6, <2>3, DiskSteps, Zenon DEF TaskInv
  <2>5. Reports(x)' /\ th'[x].task = t /\ th'[x].route = "confirm"
        /\ th'[x].result = disk'[t].status /\ disk'[t].status = "FAILED"
    BY <2>1, <2>2, <2>3, <2>4 DEF Reports
  <2> QED
    BY <1>0, <1>1, <1>2, <2>2, <2>4, <2>5, ReportSession DEF Ended
<1> QED
  BY <1>0, <1>4, <1>5, <1>6, Zenon DEF Confirm

LEMMA CancelSession ==
    ASSUME AllInv, NEW x \in Threads, Cancel(x) PROVE SessionInv' /\ FollowInv'
<1>0. PICK t \in Tasks : t = th[x].task
  BY DEF Cancel, AllInv, TaskInv, ThreadsInv, ThreadOK, Busies
<1> DEFINE c == disk[t]
           r == [th[x] EXCEPT !.pc = "memory", !.result = "CANCELLED"]
           end == [c EXCEPT !.status = "CANCELLED", !.identity = identity]
<1>1. TaskInv /\ th[x] \in Thread /\ th[x].pc = "ask" /\ th[x].route = "cancel"
      /\ c \in Checkpoint
  BY <1>0 DEF Cancel, AllInv, TaskInv, TypeOK, ThreadsInv, ThreadOK, Busies
<1>2. UNCHANGED <<troubles, overwritten, unheard, sessionVars>>
  BY DEF Cancel, bounds
<1>3. CASE Leave(x) /\ UNCHANGED disk
  BY <1>3, RoutesSession
<1>4. CASE /\ c.status = "AWAITING_CONFIRMATION" /\ disk' = [disk EXCEPT ![t] = end]
           /\ th' = [th EXCEPT ![x].pc = "memory", ![x].result = "CANCELLED"]
  <2>1. r \in Thread /\ r.pc = "memory" /\ r.task = t /\ r.route = "cancel"
        /\ r.result = "CANCELLED"
    BY <1>0, <1>1 DEF Thread, Loop, Ended
  <2>2. th' = [th EXCEPT ![x] = r]
    BY <1>1, <1>4 DEF Thread
  <2>3. OnlyMoves(x) /\ th'[x] = r
    BY <1>1, <2>1, <2>2, ThreadSteps, Zenon DEF TaskInv
  <2>4. end \in Checkpoint /\ end.status = "CANCELLED"
    BY <1>1 DEF Checkpoint, Ended, TaskInv, TypeOK
  <2>5. OnlyWrites(t) /\ disk'[t] = end
    BY <1>1, <1>4, <2>4, DiskSteps, Zenon DEF TaskInv
  <2>6. Reports(x)' /\ th'[x].task = t /\ th'[x].route = "cancel"
        /\ th'[x].result = disk'[t].status /\ disk'[t].status = "CANCELLED"
    BY <2>1, <2>3, <2>4, <2>5 DEF Reports
  <2> QED
    BY <1>0, <1>1, <1>2, <2>3, <2>5, <2>6, ReportSession DEF Ended
<1> QED
  BY <1>0, <1>3, <1>4, Zenon DEF Cancel

\* Where a route goes after it has told the session.
LEMMA ToldMoves ==
    ASSUME AllInv, NEW x \in Threads, Remember(x) \/ Finalize(x)
    PROVE  /\ OnlyMoves(x) /\ ~Drives(x) /\ ~Drives(x)' /\ Reports(x) /\ ~Reports(x)'
           /\ th[x].task \in Tasks /\ disk[th[x].task] # NoTask
           /\ OwesLess /\ DiskGrows
           /\ UNCHANGED <<disk, troubles, overwritten>>
<1>1. th[x].task \in Tasks /\ disk[th[x].task] \in Checkpoint /\ th[x].pc = "memory"
      /\ th[x] \in Thread
  BY DEF Remember, Finalize, AllInv, TaskInv, TypeOK, ThreadsInv, ThreadOK, Busies
<1>2. OnlyMoves(x) /\ (th'[x] = Rest \/ th'[x].pc = "stripload")
  <2>1. CASE Leave(x)
    BY <2>1, RestIsThread, ThreadSteps, Zenon DEF Leave, AllInv, TaskInv
  <2>2. CASE Goto(x, "stripload")
    <3> DEFINE r == [th[x] EXCEPT !.pc = "stripload"]
    <3>1. r \in Thread /\ r.pc = "stripload"
      BY <1>1 DEF Thread
    <3>2. th' = [th EXCEPT ![x] = r]
      BY <1>1, <2>2 DEF Thread, Goto
    <3> QED
      BY <3>1, <3>2, ThreadSteps DEF AllInv, TaskInv
  <2> QED
    BY <2>1, <2>2 DEF Remember, Finalize
<1>3. th'[x].pc \in {"rest", "stripload"}
  BY <1>2 DEF Rest
<1>4. UNCHANGED <<disk, troubles, overwritten>>
  BY DEF Remember, Finalize, bounds
<1>5. ~Drives(x) /\ ~Drives(x)' /\ Reports(x) /\ ~Reports(x)'
  BY <1>1, <1>3 DEF Drives, Reports, Loop
<1>6. OwesLess /\ DiskGrows
  BY <1>2, <1>4, <1>5 DEF OwesLess, DiskGrows, Owes, OnlyMoves, Drives, Reports
<1> QED
  BY <1>1, <1>2, <1>4, <1>5, <1>6, CheckpointIsPresent

\* What the task of that route is afterwards.
LEMMA ToldFollows ==
    ASSUME AllInv, NEW x \in Threads, Remember(x) \/ Finalize(x), NEW t \in Tasks,
           t = th[x].task, Quiet, \A u \in Tasks \ {t} : u \in pending' => u \in pending,
           th[x].result \in Ended /\ t \notin unheard' => Settled(t)',
           Settled(t) => Settled(t)' \/ t \in unheard'
    PROVE  FollowInv'
<1>1. /\ OnlyMoves(x) /\ ~Drives(x) /\ ~Drives(x)' /\ Reports(x) /\ ~Reports(x)'
      /\ UNCHANGED <<disk, troubles, overwritten>>
  BY ToldMoves
<1>2. \A u \in Tasks \ {t} : SameStatus(u) /\ ~Serves(x, u) /\ ~Serves(x, u)'
  BY <1>1 DEF SameStatus, Serves
<1>3. FollowOK(t)'
  <2> SUFFICES ASSUME troubles = 0, t \notin overwritten
               PROVE  /\ disk[t].status = "RUNNING" => Drivers(t)' # {}
                      /\ \A y \in Drivers(t)' : th'[y].route # "cli"
                      /\ disk[t].status \in Ended /\ t \notin unheard' =>
                           \/ \E y \in Threads : Reports(y)' /\ th'[y].task = t
                                                 /\ th'[y].result \in Ended
                           \/ Settled(t)'
    BY <1>1 DEF FollowOK
  <2>1. Drivers(t)' = Drivers(t) /\ \A y \in Drivers(t) : th'[y] = th[y]
    BY <1>1 DEF Drivers, OnlyMoves, Drives
  <2>2. FollowOK(t)
    BY DEF AllInv, FollowInv
  <2>3. ASSUME disk[t].status \in Ended, t \notin unheard'
        PROVE  \/ \E y \in Threads : Reports(y)' /\ th'[y].task = t /\ th'[y].result \in Ended
               \/ Settled(t)'
    <3>1. CASE Settled(t)
      BY <2>3, <3>1
    <3>2. CASE \E y \in Threads : Reports(y) /\ th[y].task = t /\ th[y].result \in Ended
      <4>1. PICK y \in Threads : Reports(y) /\ th[y].task = t /\ th[y].result \in Ended
        BY <3>2
      <4>2. CASE y = x
        BY <2>3, <4>1, <4>2
      <4>3. CASE y # x
        <5>1. th'[y] = th[y]
          BY <1>1, <4>3 DEF OnlyMoves
        <5> QED
          BY <4>1, <5>1 DEF Reports
      <4> QED
        BY <4>2, <4>3
    <3> QED
      BY <2>2, <2>3, <3>1, <3>2 DEF FollowOK, Quiet
  <2> QED
    BY <2>1, <2>2, <2>3 DEF FollowOK
<1> QED
  BY <1>1, <1>2, <1>3, FollowStep DEF AllInv

LEMMA RememberSession ==
    ASSUME AllInv, NEW x \in Threads, Remember(x) PROVE SessionInv' /\ FollowInv'
<1>0. PICK t \in Tasks : t = th[x].task
  BY ToldMoves
<1>1. /\ OnlyMoves(x) /\ Reports(x) /\ ~Reports(x)' /\ ~Drives(x)' /\ OwesLess /\ DiskGrows
      /\ UNCHANGED <<disk, troubles, overwritten>> /\ disk[t] # NoTask
  BY <1>0, ToldMoves
<1>2. Owes(x) /\ ~Told(t)
  BY <1>0, <1>1 DEF Remember, Owes, AllInv, SessionInv
<1>3. \A y \in Threads : Owes(y)' => th'[y].task # t
  BY <1>0, <1>1, <1>2 DEF AllInv, SessionInv, OwesLess, Owes
<1>4. \/ UNCHANGED <<turns, pending>>
      \/ AppendTurn(t)
      \/ /\ pending' = pending \cup {t} /\ turns' = turns
         /\ th[x].result = "AWAITING_CONFIRMATION"
  BY <1>0 DEF Remember, RecordTask, sessionVars
<1>5. SessionInv'
  <2>1. CASE UNCHANGED <<turns, pending>>
    BY <1>1, <2>1, SessionShrinks DEF AllInv
  <2>2. CASE AppendTurn(t) \/ (pending' = pending \cup {t} /\ turns' = turns)
    BY <1>1, <1>2, <1>3, <2>2, SessionHears DEF AllInv, TaskInv, TypeOK, Told
  <2> QED
    BY <1>4, <2>1, <2>2
<1>6. /\ \A u \in Tasks \ {t} : u \in pending' => u \in pending
      /\ th[x].result \in Ended => Settled(t)'
      /\ ~Settled(t)
  BY <1>0, <1>2, <1>3, <1>4 DEF AppendTurn, Settled, Told, Ended
<1>7. Quiet
  BY <1>1 DEF Quiet, Remember
<1> QED
  BY <1>0, <1>5, <1>6, <1>7, ToldFollows

LEMMA FinalizeSession ==
    ASSUME AllInv, NEW x \in Threads, Finalize(x) PROVE SessionInv' /\ FollowInv'
<1>0. PICK t \in Tasks : t = th[x].task
  BY ToldMoves
<1>1. /\ OnlyMoves(x) /\ OwesLess /\ DiskGrows
      /\ UNCHANGED <<disk, troubles, overwritten>> /\ disk[t] # NoTask
  BY <1>0, ToldMoves
<1>2. t \in pending => ~Turned(t) /\ \A y \in Threads : Owes(y)' => th'[y].task # t
  BY <1>1 DEF AllInv, SessionInv, OwesLess, Told
<1>3. \/ UNCHANGED <<turns, pending>>
         /\ (t \in unheard' \/ th[x].result = "AWAITING_CONFIRMATION")
      \/ t \in pending /\ AppendTurn(t)
      \/ t \in pending /\ pending' = pending \ {t} /\ turns' = turns
  BY <1>0 DEF Finalize, FinalizeTask, Awaited, sessionVars
<1>4. SessionInv'
  <2>1. CASE pending' \subseteq pending /\ turns' = turns
    BY <1>1, <2>1, SessionShrinks DEF AllInv
  <2>2. CASE t \in pending /\ AppendTurn(t)
    BY <1>1, <1>2, <2>2, SessionHears DEF AllInv, TaskInv, TypeOK
  <2> QED
    BY <1>3, <2>1, <2>2
<1>5. /\ \A u \in Tasks : u \in pending' => u \in pending
      /\ th[x].result \in Ended /\ t \notin unheard' => Settled(t)'
  BY <1>2, <1>3 DEF AppendTurn, Settled, Ended
<1>6. Settled(t) => Settled(t)'
  BY <1>1, <1>5 DEF Settled, OwesLess
<1>7. Quiet
  BY <1>0, <1>1 DEF Quiet, Finalize
<1> QED
  BY <1>0, <1>4, <1>5, <1>6, <1>7, ToldFollows

LEMMA FaultsSession ==
    ASSUME AllInv, Crash \/ \E x \in Threads : SaveRaises(x)
    PROVE  SessionInv' /\ FollowInv'
<1>0. Rest.route = "none"
  BY DEF Rest
<1>1. UNCHANGED <<disk, turns, pending>> /\ troubles' = troubles + 1
  BY DEF Crash, SaveRaises, sessionVars
<1>2. OwesLess
  <2>1. CASE Crash
    BY <1>0, <2>1 DEF Crash, OwesLess, Owes
  <2>2. ASSUME NEW x \in Threads, SaveRaises(x) PROVE OwesLess
    <3>1. OnlyMoves(x) /\ th'[x] = Rest
      BY <2>2, RestIsThread, ThreadSteps, Zenon DEF SaveRaises, Leave, AllInv, TaskInv
    <3> QED
      BY <1>0, <3>1 DEF OwesLess, Owes, OnlyMoves, Drives, Reports
  <2> QED
    BY <2>1, <2>2
<1> QED
  BY <1>1, <1>2, SessionShrinks, FollowFails DEF AllInv, DiskGrows

LEMMA InitSession == Init => SessionInv /\ FollowInv
<1> SUFFICES ASSUME Init PROVE SessionInv /\ FollowInv
  OBVIOUS
<1>1. /\ turns = <<>> /\ pending = {} /\ troubles = 0
      /\ \A t \in Tasks : disk[t].status = "ABSENT"
      /\ \A x \in Threads : th[x].pc = "rest"
  BY DEF Init, SessionInit, Rest, NoTask
<1>2. \A t : ~Told(t)
  BY <1>1 DEF Told, Turned
<1>3. SessionInv
  BY <1>1, <1>2 DEF SessionInv, Owes, Drives, Reports, Loop
<1>4. FollowInv
  BY <1>1 DEF FollowInv, FollowOK, Drivers, Drives, Loop, Ended
<1> QED
  BY <1>3, <1>4

LEMMA NextSession == AllInv /\ [Next]_vars => SessionInv' /\ FollowInv'
<1> SUFFICES ASSUME AllInv, [Next]_vars PROVE SessionInv' /\ FollowInv'
  OBVIOUS
<1>1. ASSUME NEW x \in Threads, Proceed(x) PROVE SessionInv' /\ FollowInv'
  BY <1>1, LoopsSession, RecordStepSession, RoutesSession, RememberSession, FinalizeSession
     DEF Proceed
<1>2. ASSUME NEW x \in Threads, Confirm(x) \/ Cancel(x) \/ SaveRaises(x)
      PROVE  SessionInv' /\ FollowInv'
  BY <1>2, ConfirmSession, CancelSession, FaultsSession
<1>3. ASSUME NEW x \in Threads, NEW t \in Tasks,
             StartRun(x, t) \/ AskConfirm(x, t) \/ AskCancel(x, t) \/ ResumeRunning(x, t)
      PROVE  SessionInv' /\ FollowInv'
  BY <1>3, StartRunSession, RoutesSession, ResumeRunningSession
<1>4. CASE \/ \E t \in Tasks : RequestCancel(t)
           \/ SwitchMode \/ UpsetSession \/ UNCHANGED vars
  <2>1. UNCHANGED <<th, disk, overwritten, unheard, troubles>>
    BY <1>4 DEF RequestCancel, SwitchMode, UpsetSession, vars, bounds, taskHistory
  <2>2. pending' \subseteq pending /\ (turns' = turns \/ turns' = <<>>)
    BY <1>4 DEF RequestCancel, SwitchMode, UpsetSession, vars, sessionVars, Clear, Expire
  <2> QED
    BY <2>1, <2>2, SurroundingsSession
<1>5. CASE Crash
  BY <1>5, FaultsSession
<1> QED
  BY <1>1, <1>2, <1>3, <1>4, <1>5 DEF Next

\* The session has heard of a task at most once, and of a task that ended it
\* has heard or will hear, in every reachable state: the invariant behind the
\* next theorem.
THEOREM SessionInvHolds == Spec => []AllInv
<1>1. Init => AllInv
  BY InitTaskInv, InitSession DEF AllInv
<1>2. AllInv /\ [Next]_vars => AllInv'
  BY NextTaskInv, NextSession DEF AllInv
<1> QED
  BY <1>1, <1>2, PTL DEF Spec

LEMMA SessionIsKeptFollows == AllInv => SessionIsKept
<1> SUFFICES ASSUME AllInv PROVE SessionIsKept
  OBVIOUS
<1>1. OneTurnPerTask
  <2> SUFFICES ASSUME NEW t \in Tasks
               PROVE  Cardinality({i \in 1..Len(turns) : turns[i] = t}) <= 1
    BY DEF OneTurnPerTask
  <2>1. \A i, j \in {k \in 1..Len(turns) : turns[k] = t} : i = j
    BY DEF AllInv, SessionInv
  <2> QED
    BY <2>1, AtMostOne
<1>2. SessionFollowsTasks
  <2> SUFFICES ASSUME troubles = 0, NEW t \in pending \ (unheard \cup overwritten), Busy(t) = {}
               PROVE  disk[t].status = "AWAITING_CONFIRMATION"
    BY DEF SessionFollowsTasks
  <2>1. t \in Tasks /\ FollowOK(t) /\ ~Settled(t)
    BY DEF AllInv, FollowInv, Settled, TaskInv, TypeOK, SessionTypeOK
  <2>2. \A x \in Threads : ~Serves(x, t)
    BY DEF Busy, Serves, Drives, Reports, Loop
  <2>3. disk[t].status # "RUNNING" /\ disk[t].status \notin Ended
    BY <2>1, <2>2 DEF FollowOK, Serves, Drivers
  <2>4. disk[t] # NoTask
    BY <2>1 DEF AllInv, SessionInv, Told
  <2> QED
    BY <2>1, <2>3, <2>4 DEF AllInv, TaskInv, TypeOK, Checkpoint
<1> QED
  BY <1>1, <1>2 DEF SessionIsKept

\* A task gives its session one turn at most, over any number of
\* confirmations, recoveries and clears, and without failures the session waits
\* only for tasks that await a confirmation, but for those that ended before
\* the run that paused them was recorded and those a route overwrote.
THEOREM SessionIsKeptHolds == Spec => []SessionIsKept
BY SessionInvHolds, SessionIsKeptFollows, PTL

================================================================================
