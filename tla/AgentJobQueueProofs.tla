-------------------------- MODULE AgentJobQueueProofs --------------------------
(***************************************************************************)
(* Proofs about AgentJobQueue for every value of its constants: any number *)
(* of jobs, keys, faults and restarts.                                     *)
(*                                                                         *)
(* WithdrawnNeverRuns and AtMostOneExecution are not inductive by          *)
(* themselves: they rest on the fact that a body is held exactly for the   *)
(* QUEUED jobs of this process, that such a job was never started nor      *)
(* withdrawn, and that identities are not used twice.                      *)
(***************************************************************************)
EXTENDS AgentJobStream, FiniteSetTheorems, TLAPS

BodiesAreOfQueued == \A j \in JobIds : j \in requests <=> jobs[j].status = "QUEUED"

QueuedIsUnstarted == \A j \in requests : executions[j] = 0 /\ j \notin withdrawn

UnusedIsFresh ==
    \A j \in JobIds \ used :
        /\ executions[j] = 0 /\ j \notin withdrawn
        /\ jobs[j] = NoJob /\ disk[j] = NoJob

\* Nothing is active in memory, and no thread runs, unless the process is up.
QuietUnlessUp ==
    phase # "up" => worker = "none" /\ \A j \in JobIds : jobs[j].status \notin Active

\* The job the worker is busy with.
WorkerHoldsJob ==
    /\ worker \in {"executing", "returned", "failed", "cleanup", "unwinding"}
          => current \in JobIds
    /\ worker \in {"executing", "returned"} => jobs[current].status = "RUNNING"
    /\ worker = "returned" => outcome \in TaskResults

ExecutionInv ==
    /\ TypeOK
    /\ BodiesAreOfQueued /\ QueuedIsUnstarted /\ UnusedIsFresh
    /\ QuietUnlessUp /\ WorkerHoldsJob
    /\ AtMostOneExecution /\ WithdrawnNeverRuns

--------------------------------------------------------------------------------
LEMMA PresentIsJob ==
    ASSUME NEW x \in Job \cup {NoJob}, x.status # "ABSENT"
    PROVE  x \in Job
BY DEF NoJob

LEMMA JobIsPresent ==
    ASSUME NEW x \in Job PROVE x.status # "ABSENT"
<1>1. x.status \in Active \cup Terminal
  BY DEF Job
<1> QED
  BY <1>1 DEF Active, Terminal

LEMMA MovedType ==
    ASSUME NEW x \in Job, NEW s \in Active \cup Terminal, now \in Nat
    PROVE  Moved(x, s) \in Job /\ Moved(x, s).status = s
<1>1. x.seq + 1 \in Nat
  BY DEF Job
<1>2. \A n \in Nat :
        /\ [x EXCEPT !.status = s, !.updated = now, !.seq = n] \in Job
        /\ [x EXCEPT !.status = s, !.updated = now, !.seq = n].status = s
  BY DEF Job
<1>3. /\ [x EXCEPT !.status = s, !.updated = now, !.seq = x.seq + 1] \in Job
      /\ [x EXCEPT !.status = s, !.updated = now, !.seq = x.seq + 1].status = s
  BY <1>1, <1>2, Zenon
<1>4. Moved(x, s) = [x EXCEPT !.status = s, !.updated = now, !.seq = x.seq + 1]
  BY Zenon DEF Moved
<1> QED
  BY <1>3, <1>4, Zenon

LEMMA NewJobType ==
    ASSUME NEW k \in Keys \cup {NoKey}, NEW b \in Bodies, now \in Nat
    PROVE  NewJob(k, b) \in Job /\ NewJob(k, b).status = "QUEUED"
BY DEF NewJob, Job, Active, Terminal

\* A save writes one record or changes nothing.
LEMMA SaveType ==
    ASSUME TypeOK, NEW j \in JobIds, NEW job \in Job, NEW saved \in BOOLEAN,
           NEW files \in [JobIds -> Job \cup {NoJob}], Save(files, j, job, saved)
    PROVE  /\ disk' \in [JobIds -> Job \cup {NoJob}]
           /\ saveFaults' \in Nat
BY DEF Save, TypeOK

LEMMA InitExecutionInv == Init => ExecutionInv
<1> SUFFICES ASSUME Init PROVE ExecutionInv
  OBVIOUS
<1> USE DEF Init, Blank
<1>1. jobs \in [JobIds -> Job \cup {NoJob}] /\ disk \in [JobIds -> Job \cup {NoJob}]
  BY Zenon
<1>2. /\ controls \in [JobIds -> {"none", "live", "cancelled"}]
      /\ executions \in [JobIds -> Nat] /\ answered \in [JobIds -> SUBSET Bodies]
  OBVIOUS
<1>3. TypeOK
  <2>1. queue \in Seq(JobIds) /\ closed \in BOOLEAN
    <3>1. <<>> \in Seq(JobIds)
      OBVIOUS
    <3> QED
      BY <3>1, Zenon
  <2>2. /\ now \in Nat /\ saveFaults \in Nat /\ unlinkFaults \in Nat /\ restarts \in Nat
        /\ requests \in SUBSET JobIds /\ unread \in SUBSET JobIds
        /\ used \in SUBSET JobIds /\ withdrawn \in SUBSET JobIds
    OBVIOUS
  <2>3. /\ current \in JobIds \cup {NoJobId} /\ phase \in {"up", "loading", "down"}
        /\ outcome \in TaskResults \cup {"NONE", "RAISED"}
        /\ worker \in {"none", "waiting", "ready", "executing", "returned", "failed",
                       "cleanup", "unwinding", "dead", "stopped"}
    OBVIOUS
  <2> QED
    BY <1>1, <1>2, <2>1, <2>2, <2>3 DEF TypeOK
<1>4. BodiesAreOfQueued /\ QueuedIsUnstarted /\ UnusedIsFresh
  BY DEF BodiesAreOfQueued, QueuedIsUnstarted, UnusedIsFresh, NoJob
<1>5. QuietUnlessUp /\ WorkerHoldsJob /\ AtMostOneExecution /\ WithdrawnNeverRuns
  BY DEF QuietUnlessUp, WorkerHoldsJob, AtMostOneExecution, WithdrawnNeverRuns
<1> QED
  BY <1>3, <1>4, <1>5 DEF ExecutionInv

--------------------------------------------------------------------------------
(* One lemma per critical section.                                         *)

\* Removing terminal jobs and refusing the new one.
LEMMA RefusedInv ==
    ASSUME ExecutionInv, NEW gone \in SUBSET Finished, NEW stuck \in SUBSET gone,
           SubmitRefused(gone, stuck), answered' \in [JobIds -> SUBSET Bodies],
           unlinkFaults' \in Nat, UNCHANGED <<phase, unread, now, restarts>>
    PROVE  ExecutionInv'
<1> USE DEF ExecutionInv, SubmitRefused
<1>1. TypeOK'
  BY DEF TypeOK, Forgotten, Unlinked
<1>2. \A j \in gone : jobs[j].status \in Terminal
  BY DEF Finished
<1>3. BodiesAreOfQueued'
  BY <1>2 DEF BodiesAreOfQueued, Forgotten, NoJob, Terminal, TypeOK, Finished
<1>4. QueuedIsUnstarted'
  BY DEF QueuedIsUnstarted
<1>5. QuietUnlessUp'
  BY DEF QuietUnlessUp, Forgotten, NoJob, Active, TypeOK
<1>6. WorkerHoldsJob'
  BY <1>2 DEF WorkerHoldsJob, Forgotten, Terminal
<1>7. UnusedIsFresh'
  BY DEF UnusedIsFresh, Forgotten, Unlinked
<1> QED
  BY <1>1, <1>3, <1>4, <1>5, <1>6, <1>7
     DEF AtMostOneExecution, WithdrawnNeverRuns

LEMMA AcceptedInv ==
    ASSUME ExecutionInv, phase = "up",
           NEW gone \in SUBSET Finished, NEW stuck \in SUBSET gone,
           NEW k \in Keys \cup {NoKey}, NEW b \in Bodies,
           SubmitAccepted(gone, stuck, k, b), unlinkFaults' \in Nat,
           UNCHANGED <<phase, unread, now, restarts>>
    PROVE  ExecutionInv'
<1> USE DEF ExecutionInv
<1>1. PICK j \in JobIds \ used, saved \in BOOLEAN :
        /\ jobs' = [Forgotten(gone) EXCEPT ![j] = NewJob(k, b)]
        /\ requests' = (requests \ gone) \cup {j}
        /\ queue' = Append(queue, j)
        /\ Save(Unlinked(gone, stuck), j, NewJob(k, b), saved)
        /\ Notify(saved)
        /\ used' = used \cup {j}
        /\ answered' = IF saved THEN [answered EXCEPT ![j] = @ \cup {b}] ELSE answered
        /\ UNCHANGED <<controls, closed, current, outcome, executions, withdrawn>>
  BY DEF SubmitAccepted
<1>2. NewJob(k, b) \in Job /\ NewJob(k, b).status = "QUEUED"
  BY NewJobType DEF TypeOK
<1>3. Forgotten(gone) \in [JobIds -> Job \cup {NoJob}]
      /\ Unlinked(gone, stuck) \in [JobIds -> Job \cup {NoJob}]
  BY DEF TypeOK, Forgotten, Unlinked
<1>4. disk' \in [JobIds -> Job \cup {NoJob}] /\ saveFaults' \in Nat
  BY <1>1, <1>2, <1>3, SaveType
<1>5. queue' \in Seq(JobIds)
  BY <1>1 DEF TypeOK
<1>6. worker' \in {"none", "waiting", "ready", "executing", "returned", "failed",
                   "cleanup", "unwinding", "dead", "stopped"}
  BY <1>1 DEF Notify, TypeOK
<1>7. answered' \in [JobIds -> SUBSET Bodies]
  BY <1>1 DEF TypeOK
<1>8. TypeOK'
  BY <1>1, <1>2, <1>3, <1>4, <1>5, <1>6, <1>7 DEF TypeOK
<1>9. BodiesAreOfQueued'
  <2>1. \A i \in JobIds \ {j} : jobs'[i] = IF i \in gone THEN NoJob ELSE jobs[i]
    BY <1>1, <1>3 DEF Forgotten
  <2>2. jobs'[j].status = "QUEUED"
    BY <1>1, <1>2, <1>3
  <2>3. \A i \in gone : jobs[i].status # "QUEUED"
    BY DEF Finished, Terminal
  <2> QED
    BY <1>1, <2>1, <2>2, <2>3 DEF BodiesAreOfQueued, NoJob, Finished
<1>10. QueuedIsUnstarted' /\ UnusedIsFresh'
  <2>1. \A i \in JobIds \ used' : jobs'[i] \in {NoJob, jobs[i]}
    BY <1>1, <1>3 DEF Forgotten
  <2>2. \A i \in JobIds \ used' : disk'[i] \in {NoJob, disk[i]}
    BY <1>1, <1>3 DEF Save, Unlinked
  <2> QED
    BY <1>1, <2>1, <2>2 DEF QueuedIsUnstarted, UnusedIsFresh
<1>11. WorkerHoldsJob'
  <2>1. worker' \in {"executing", "returned", "failed", "cleanup", "unwinding"}
            => worker' = worker
    BY <1>1 DEF Notify
  <2>2. \A i \in JobIds : jobs[i].status = "RUNNING" => i # j /\ i \notin gone
    BY DEF UnusedIsFresh, NoJob, Finished, Terminal
  <2>3. \A i \in JobIds : jobs[i].status = "RUNNING" => jobs'[i] = jobs[i]
    BY <1>1, <1>3, <2>2 DEF Forgotten
  <2> QED
    BY <1>1, <2>1, <2>3 DEF WorkerHoldsJob
<1> QED
  BY <1>1, <1>8, <1>9, <1>10, <1>11
     DEF QuietUnlessUp, AtMostOneExecution, WithdrawnNeverRuns

LEMMA SubmitInv ==
    ASSUME ExecutionInv, NEW k \in Keys \cup {NoKey}, NEW b \in Bodies, Submit(k, b)
    PROVE  ExecutionInv'
<1> DEFINE keep == Retained \ Expired
<1> DEFINE match == {j \in keep : jobs[j].key = k}
<1>1. PICK victims \in SUBSET keep : \E stuck \in Stuck(Expired \cup victims) :
        /\ unlinkFaults' = unlinkFaults + Cardinality(stuck)
        /\ victims \in SUBSET Finished
        /\ \/ /\ SubmitRefused(Expired \cup victims, stuck)
              /\ answered' \in [JobIds -> SUBSET Bodies]
           \/ SubmitAccepted(Expired \cup victims, stuck, k, b)
  <2>1. \A o \in Oldest(keep) : o \in Finished
    BY DEF Oldest
  <2>2. Replay(match, b) => answered' \in [JobIds -> SUBSET Bodies]
    BY DEF Replay, ExecutionInv, TypeOK, Retained
  <2>3. UNCHANGED answered => answered' \in [JobIds -> SUBSET Bodies]
    BY DEF ExecutionInv, TypeOK
  <2> QED
    BY <2>1, <2>2, <2>3 DEF Submit, SameKey
<1>2. PICK stuck \in Stuck(Expired \cup victims) :
        /\ unlinkFaults' = unlinkFaults + Cardinality(stuck)
        /\ \/ /\ SubmitRefused(Expired \cup victims, stuck)
              /\ answered' \in [JobIds -> SUBSET Bodies]
           \/ SubmitAccepted(Expired \cup victims, stuck, k, b)
  BY <1>1
<1>3. Expired \cup victims \in SUBSET Finished
  BY <1>1 DEF Expired
<1>4. stuck \in SUBSET (Expired \cup victims)
  BY <1>2 DEF Stuck
<1>5. unlinkFaults' \in Nat
  <2>1. IsFiniteSet(stuck)
    BY <1>3, <1>4, QueueAssumption, FS_Subset DEF Finished
  <2> QED
    BY <1>2, <2>1, FS_CardinalityType DEF ExecutionInv, TypeOK
<1>6. phase = "up" /\ UNCHANGED <<phase, unread, now, restarts>>
  BY DEF Submit
<1> QED
  BY <1>2, <1>3, <1>4, <1>5, <1>6, RefusedInv, AcceptedInv

\* A change of one record that leaves it out of QUEUED, with or without a save.
LEMMA RecordChangeInv ==
    ASSUME ExecutionInv, NEW j \in JobIds, NEW job \in Job,
           jobs[j].status # "ABSENT", job.status # "QUEUED",
           jobs' = [jobs EXCEPT ![j] = job],
           NEW saved \in BOOLEAN, Save(disk, j, job, saved),
           requests' = requests \ {j}
    PROVE  /\ jobs' \in [JobIds -> Job \cup {NoJob}]
           /\ disk' \in [JobIds -> Job \cup {NoJob}] /\ saveFaults' \in Nat
           /\ requests' \in SUBSET JobIds
           /\ BodiesAreOfQueued'
           /\ \A i \in JobIds \ used : jobs'[i] = NoJob /\ disk'[i] = NoJob
           /\ jobs'[j] = job
<1>1. disk \in [JobIds -> Job \cup {NoJob}] /\ jobs \in [JobIds -> Job \cup {NoJob}]
  BY DEF ExecutionInv, TypeOK
<1>2. disk' \in [JobIds -> Job \cup {NoJob}] /\ saveFaults' \in Nat
  BY <1>1, SaveType DEF ExecutionInv
<1>3. j \in used
  BY DEF ExecutionInv, UnusedIsFresh, NoJob
<1>4. \A i \in JobIds \ used : jobs'[i] = NoJob /\ disk'[i] = NoJob
  BY <1>1, <1>3 DEF Save, ExecutionInv, UnusedIsFresh
<1>5. BodiesAreOfQueued'
  BY <1>1 DEF BodiesAreOfQueued, ExecutionInv
<1> QED
  BY <1>1, <1>2, <1>4, <1>5 DEF ExecutionInv, TypeOK

LEMMA CancelQueuedInv ==
    ASSUME ExecutionInv, NEW j \in JobIds, CancelQueued(j) PROVE ExecutionInv'
<1> USE DEF Cancellable, DropBody
<1> DEFINE job == Moved(jobs[j], "CANCELLED")
<1>1. job \in Job /\ job.status = "CANCELLED"
  BY PresentIsJob, MovedType DEF CancelQueued, ExecutionInv, TypeOK, Terminal
<1> HIDE DEF job
<1>2. PICK saved \in BOOLEAN : Save(disk, j, job, saved) /\ Notify(saved)
  BY DEF CancelQueued, job
<1>3. /\ jobs' \in [JobIds -> Job \cup {NoJob}]
      /\ disk' \in [JobIds -> Job \cup {NoJob}] /\ saveFaults' \in Nat
      /\ requests' \in SUBSET JobIds
      /\ BodiesAreOfQueued'
      /\ \A i \in JobIds \ used : jobs'[i] = NoJob /\ disk'[i] = NoJob
  BY <1>1, <1>2, RecordChangeInv DEF CancelQueued, job
<1>4. j \in requests /\ j \in used
  BY DEF CancelQueued, ExecutionInv, BodiesAreOfQueued, UnusedIsFresh, NoJob
<1>5. TypeOK'
  BY <1>2, <1>3, <1>4 DEF CancelQueued, Notify, ExecutionInv, TypeOK
<1>6. QueuedIsUnstarted' /\ UnusedIsFresh' /\ AtMostOneExecution' /\ WithdrawnNeverRuns'
  BY <1>3, <1>4
     DEF CancelQueued, ExecutionInv, QueuedIsUnstarted, UnusedIsFresh,
         AtMostOneExecution, WithdrawnNeverRuns
<1>7. QuietUnlessUp'
  BY DEF CancelQueued, QuietUnlessUp
<1>8. WorkerHoldsJob'
  <2>1. \A i \in JobIds : jobs[i].status = "RUNNING" => jobs'[i] = jobs[i]
    BY DEF CancelQueued, ExecutionInv, TypeOK
  <2> QED
    BY <1>2, <2>1 DEF CancelQueued, Notify, ExecutionInv, WorkerHoldsJob
<1> QED
  BY <1>3, <1>5, <1>6, <1>7, <1>8 DEF ExecutionInv

LEMMA CancelRunningInv ==
    ASSUME ExecutionInv, NEW j \in JobIds, CancelRunning(j) PROVE ExecutionInv'
<1> USE DEF Signal
<1> DEFINE moved == Moved(jobs[j], "RUNNING")
<1> DEFINE job == [moved EXCEPT !.cancel = "REQUESTED"]
<1>1. moved \in Job /\ moved.status = "RUNNING"
  BY PresentIsJob, MovedType DEF CancelRunning, ExecutionInv, TypeOK, Active
<1> HIDE DEF moved
<1>2. job \in Job /\ job.status = "RUNNING"
  BY <1>1 DEF Job
<1>3. PICK saved \in BOOLEAN : Save(disk, j, job, saved) /\ Notify(saved)
  BY DEF CancelRunning, job, moved
<1>4. jobs' = [jobs EXCEPT ![j] = job] /\ jobs[j].status = "RUNNING"
  BY DEF CancelRunning, job, moved
<1> HIDE DEF job
<1>5. requests' = requests \ {j}
  BY <1>4 DEF CancelRunning, ExecutionInv, BodiesAreOfQueued
<1>6. /\ jobs' \in [JobIds -> Job \cup {NoJob}]
      /\ disk' \in [JobIds -> Job \cup {NoJob}] /\ saveFaults' \in Nat
      /\ requests' \in SUBSET JobIds
      /\ BodiesAreOfQueued'
      /\ \A i \in JobIds \ used : jobs'[i] = NoJob /\ disk'[i] = NoJob
      /\ jobs'[j] = job
  BY <1>2, <1>3, <1>4, <1>5, RecordChangeInv
<1>7. controls' \in [JobIds -> {"none", "live", "cancelled"}]
  BY DEF CancelRunning, ExecutionInv, TypeOK
<1>8. TypeOK'
  BY <1>3, <1>6, <1>7 DEF CancelRunning, Notify, ExecutionInv, TypeOK, history
<1>9. QueuedIsUnstarted' /\ UnusedIsFresh' /\ AtMostOneExecution' /\ WithdrawnNeverRuns'
  BY <1>6
     DEF CancelRunning, history, ExecutionInv, QueuedIsUnstarted, UnusedIsFresh,
         AtMostOneExecution, WithdrawnNeverRuns
<1>10. QuietUnlessUp'
  BY DEF CancelRunning, QuietUnlessUp
<1>11. WorkerHoldsJob'
  <2>1. \A i \in JobIds : jobs[i].status = "RUNNING" => jobs'[i].status = "RUNNING"
    BY <1>2, <1>4 DEF ExecutionInv, TypeOK
  <2> QED
    BY <1>3, <2>1 DEF CancelRunning, Notify, ExecutionInv, WorkerHoldsJob
<1> QED
  BY <1>6, <1>8, <1>9, <1>10, <1>11 DEF ExecutionInv

\* A step that leaves records, bodies, files, identities and counts alone.
LEMMA QuietStepInv ==
    ASSUME ExecutionInv, TypeOK', WorkerHoldsJob',
           phase = "up", UNCHANGED <<jobs, requests, disk, history, phase>>
    PROVE  ExecutionInv'
BY DEF ExecutionInv, history, BodiesAreOfQueued, QueuedIsUnstarted, UnusedIsFresh,
       QuietUnlessUp, AtMostOneExecution, WithdrawnNeverRuns

LEMMA CloseInv == ASSUME ExecutionInv, Close PROVE ExecutionInv'
<1>1. TypeOK'
  BY DEF Close, Notify, ExecutionInv, TypeOK, history
<1>2. WorkerHoldsJob'
  BY DEF Close, Notify, ExecutionInv, WorkerHoldsJob
<1> QED
  BY <1>1, <1>2, QuietStepInv DEF Close

LEMMA WorkerWaitsInv ==
    ASSUME ExecutionInv, WorkerSleeps \/ WorkerStops PROVE ExecutionInv'
<1>1. TypeOK'
  BY DEF WorkerSleeps, WorkerStops, ExecutionInv, TypeOK, history, workerFrame
<1>2. WorkerHoldsJob'
  BY DEF WorkerSleeps, WorkerStops, WorkerHoldsJob
<1> QED
  BY <1>1, <1>2, QuietStepInv DEF WorkerSleeps, WorkerStops, workerFrame

LEMMA WorkerSkipsInv == ASSUME ExecutionInv, WorkerSkips PROVE ExecutionInv'
<1> USE DEF DropBody
<1>1. Head(queue) \in JobIds /\ Tail(queue) \in Seq(JobIds)
  BY DEF WorkerSkips, ExecutionInv, TypeOK
<1>2. Head(queue) \notin requests
  BY <1>1 DEF WorkerSkips, Runnable, ExecutionInv, BodiesAreOfQueued
<1>3. TypeOK'
  BY <1>1 DEF WorkerSkips, ExecutionInv, TypeOK, history, workerFrame
<1>4. WorkerHoldsJob'
  BY DEF WorkerSkips, ExecutionInv, WorkerHoldsJob
<1> QED
  BY <1>2, <1>3, <1>4, QuietStepInv DEF WorkerSkips, workerFrame

LEMMA WorkerTakesInv == ASSUME ExecutionInv, WorkerTakes PROVE ExecutionInv'
<1> USE DEF DropBody
<1> DEFINE j == Head(queue)
<1> DEFINE job == Moved(jobs[j], "RUNNING")
<1>1. j \in JobIds /\ Tail(queue) \in Seq(JobIds) /\ j \in requests
      /\ jobs[j].status = "QUEUED"
  BY DEF WorkerTakes, Runnable, ExecutionInv, TypeOK
<1>2. job \in Job /\ job.status = "RUNNING"
  BY <1>1, PresentIsJob, MovedType DEF ExecutionInv, TypeOK, Active
<1>3. PICK saved \in BOOLEAN :
        /\ Save(disk, j, job, saved)
        /\ worker' = IF saved THEN "executing" ELSE "dead"
        /\ executions' = IF saved THEN [executions EXCEPT ![j] = @ + 1] ELSE executions
  BY DEF WorkerTakes
<1>4. /\ queue' = Tail(queue) /\ requests' = requests \ {j}
      /\ controls' = [controls EXCEPT ![j] = "live"]
      /\ jobs' = [jobs EXCEPT ![j] = job] /\ current' = j
      /\ UNCHANGED <<outcome, used, withdrawn, answered, workerFrame>>
      /\ phase = "up"
  BY DEF WorkerTakes
<1> HIDE DEF job, j
<1>5. /\ jobs' \in [JobIds -> Job \cup {NoJob}]
      /\ disk' \in [JobIds -> Job \cup {NoJob}] /\ saveFaults' \in Nat
      /\ requests' \in SUBSET JobIds
      /\ BodiesAreOfQueued'
      /\ \A i \in JobIds \ used : jobs'[i] = NoJob /\ disk'[i] = NoJob
      /\ jobs'[j] = job
  BY <1>1, <1>2, <1>3, <1>4, RecordChangeInv
<1>6. /\ executions' \in [JobIds -> Nat] /\ executions'[j] <= 1
      /\ \A i \in JobIds \ {j} : executions'[i] = executions[i]
  BY <1>1, <1>3 DEF ExecutionInv, TypeOK, QueuedIsUnstarted
<1>7. j \in used /\ j \notin withdrawn
  BY <1>1 DEF ExecutionInv, QueuedIsUnstarted, UnusedIsFresh, NoJob
<1>8. TypeOK'
  <2>1. controls' \in [JobIds -> {"none", "live", "cancelled"}]
    BY <1>1, <1>4 DEF ExecutionInv, TypeOK
  <2>2. queue' \in Seq(JobIds)
    BY <1>1, <1>4 DEF j
  <2> QED
    BY <1>1, <1>3, <1>4, <1>5, <1>6, <2>1, <2>2 DEF workerFrame, ExecutionInv, TypeOK
<1>9. QueuedIsUnstarted' /\ UnusedIsFresh' /\ AtMostOneExecution' /\ WithdrawnNeverRuns'
  BY <1>1, <1>4, <1>5, <1>6, <1>7
     DEF ExecutionInv, TypeOK, QueuedIsUnstarted, UnusedIsFresh, AtMostOneExecution,
         WithdrawnNeverRuns
<1>10. QuietUnlessUp' /\ WorkerHoldsJob'
  <2>1. worker' \in {"executing", "dead"}
    BY <1>3
  <2> QED
    BY <1>1, <1>2, <1>4, <1>5, <2>1 DEF QuietUnlessUp, WorkerHoldsJob, workerFrame
<1> QED
  BY <1>5, <1>8, <1>9, <1>10 DEF ExecutionInv

LEMMA ExecutorReturnsInv == ASSUME ExecutionInv, ExecutorReturns PROVE ExecutionInv'
<1>1. PICK r \in TaskResults \cup {"RAISED"} :
        outcome' = r /\ worker' = IF r = "RAISED" THEN "failed" ELSE "returned"
  BY DEF ExecutorReturns
<1>2. TypeOK'
  BY <1>1 DEF ExecutorReturns, ExecutionInv, TypeOK, history, workerFrame
<1>3. WorkerHoldsJob'
  BY <1>1 DEF ExecutorReturns, ExecutionInv, WorkerHoldsJob
<1> QED
  BY <1>2, <1>3, QuietStepInv DEF ExecutorReturns, workerFrame

\* The worker writes the end of the job it holds.
LEMMA WorkerRecordInv ==
    ASSUME ExecutionInv, phase = "up",
           current \in JobIds, jobs[current].status = "RUNNING",
           NEW job \in Job, job.status \in Terminal,
           jobs' = [jobs EXCEPT ![current] = job],
           NEW saved \in BOOLEAN, Save(disk, current, job, saved),
           worker' \in {"cleanup", "failed", "unwinding"},
           UNCHANGED <<requests, queue, controls, current, outcome, history, workerFrame>>
    PROVE  ExecutionInv'
<1> USE DEF workerFrame, history
<1>1. requests' = requests \ {current}
  BY DEF ExecutionInv, BodiesAreOfQueued
<1>2. jobs[current].status # "ABSENT" /\ job.status # "QUEUED"
  BY DEF Terminal
<1>3. /\ jobs' \in [JobIds -> Job \cup {NoJob}]
      /\ disk' \in [JobIds -> Job \cup {NoJob}] /\ saveFaults' \in Nat
      /\ requests' \in SUBSET JobIds
      /\ BodiesAreOfQueued'
      /\ \A i \in JobIds \ used : jobs'[i] = NoJob /\ disk'[i] = NoJob
  BY <1>1, <1>2, RecordChangeInv
<1>4. TypeOK'
  BY <1>3 DEF ExecutionInv, TypeOK
<1>5. QueuedIsUnstarted' /\ UnusedIsFresh' /\ AtMostOneExecution' /\ WithdrawnNeverRuns'
  BY <1>3 DEF ExecutionInv, QueuedIsUnstarted, UnusedIsFresh, AtMostOneExecution,
              WithdrawnNeverRuns
<1>6. QuietUnlessUp' /\ WorkerHoldsJob'
  BY DEF QuietUnlessUp, WorkerHoldsJob
<1> QED
  BY <1>3, <1>4, <1>5, <1>6 DEF ExecutionInv

LEMMA WorkerRecordsResultInv ==
    ASSUME ExecutionInv, WorkerRecordsResult PROVE ExecutionInv'
<1> DEFINE moved == Moved(jobs[current], JobStatusOf(outcome))
<1> DEFINE job == [moved EXCEPT !.task = outcome]
<1>1. current \in JobIds /\ jobs[current].status = "RUNNING"
  BY DEF WorkerRecordsResult, ExecutionInv, WorkerHoldsJob
<1>2. JobStatusOf(outcome) \in Terminal
  BY DEF JobStatusOf, Terminal
<1>3. moved \in Job /\ moved.status \in Terminal
  BY <1>1, <1>2, PresentIsJob, MovedType DEF ExecutionInv, TypeOK
<1>4. PICK saved \in BOOLEAN :
         Save(disk, current, job, saved) /\ worker' = IF saved THEN "cleanup" ELSE "failed"
  BY DEF WorkerRecordsResult
<1>5. jobs' = [jobs EXCEPT ![current] = job]
  BY DEF WorkerRecordsResult
<1> HIDE DEF moved
<1>6. job \in Job /\ job.status \in Terminal
  <2>1. outcome \in TaskResults
    BY DEF WorkerRecordsResult, ExecutionInv, WorkerHoldsJob
  <2> QED
    BY <1>3, <2>1 DEF Job
<1> QED
  BY <1>1, <1>4, <1>5, <1>6, WorkerRecordInv DEF WorkerRecordsResult

LEMMA WorkerRecordsFailureInv ==
    ASSUME ExecutionInv, WorkerRecordsFailure PROVE ExecutionInv'
<1> USE DEF StillRunning
<1>1. current \in JobIds /\ phase = "up"
  BY DEF WorkerRecordsFailure, ExecutionInv, WorkerHoldsJob
<1>2. CASE jobs[current].status = "RUNNING"
  <2> DEFINE job == Moved(jobs[current], "FAILED")
  <2>1. job \in Job /\ job.status \in Terminal
    BY <1>1, <1>2, PresentIsJob, MovedType DEF ExecutionInv, TypeOK, Terminal
  <2>2. PICK saved \in BOOLEAN :
           /\ Save(disk, current, job, saved)
           /\ worker' = IF saved THEN "cleanup" ELSE "unwinding"
    BY <1>2 DEF WorkerRecordsFailure
  <2>3. jobs' = [jobs EXCEPT ![current] = job]
    BY <1>2 DEF WorkerRecordsFailure
  <2> HIDE DEF job
  <2> QED
    BY <1>1, <1>2, <2>1, <2>2, <2>3, WorkerRecordInv DEF WorkerRecordsFailure
<1>3. CASE jobs[current].status # "RUNNING"
  <2>1. worker' = "cleanup" /\ UNCHANGED <<jobs, disk, saveFaults>>
    BY <1>3 DEF WorkerRecordsFailure
  <2>2. TypeOK'
    BY <2>1 DEF WorkerRecordsFailure, ExecutionInv, TypeOK, history, workerFrame
  <2>3. WorkerHoldsJob'
    BY <1>1, <2>1 DEF WorkerRecordsFailure, WorkerHoldsJob
  <2> QED
    BY <1>1, <2>1, <2>2, <2>3, QuietStepInv DEF WorkerRecordsFailure, workerFrame
<1> QED
  BY <1>2, <1>3

LEMMA WorkerDropsControlInv ==
    ASSUME ExecutionInv, WorkerDropsControl PROVE ExecutionInv'
<1>1. TypeOK'
  BY DEF WorkerDropsControl, ExecutionInv, TypeOK, history, workerFrame
<1>2. WorkerHoldsJob'
  BY DEF WorkerDropsControl, WorkerHoldsJob
<1> QED
  BY <1>1, <1>2, QuietStepInv DEF WorkerDropsControl, workerFrame

\* The process is gone: nothing volatile is left to disagree with the history.
LEMMA NoProcessInv ==
    ASSUME ExecutionInv, NoProcess, phase' = "down", unread' = {}, disk' = disk,
           saveFaults' \in Nat, UNCHANGED <<now, unlinkFaults, restarts, history>>
    PROVE  ExecutionInv'
<1> USE DEF NoProcess, Blank, history
<1>1. jobs' \in [JobIds -> Job \cup {NoJob}]
      /\ controls' \in [JobIds -> {"none", "live", "cancelled"}]
  BY Zenon
<1>2. queue' \in Seq(JobIds) /\ closed' \in BOOLEAN /\ current' \in JobIds \cup {NoJobId}
  <2>1. <<>> \in Seq(JobIds)
    OBVIOUS
  <2> QED
    BY <2>1, Zenon
<1>3. TypeOK'
  BY <1>1, <1>2 DEF ExecutionInv, TypeOK
<1>4. BodiesAreOfQueued' /\ QueuedIsUnstarted' /\ UnusedIsFresh'
  BY DEF ExecutionInv, BodiesAreOfQueued, QueuedIsUnstarted, UnusedIsFresh, NoJob
<1>5. QuietUnlessUp' /\ WorkerHoldsJob'
  BY DEF QuietUnlessUp, WorkerHoldsJob, NoJob, Active
<1> QED
  BY <1>3, <1>4, <1>5 DEF ExecutionInv, AtMostOneExecution, WithdrawnNeverRuns

LEMMA CrashInv == ASSUME ExecutionInv, Crash PROVE ExecutionInv'
BY NoProcessInv DEF Crash, ExecutionInv, TypeOK

LEMMA BootInv == ASSUME ExecutionInv, Boot PROVE ExecutionInv'
<1> USE DEF Boot, volatile, history, ExecutionInv
<1>1. TypeOK'
  BY DEF TypeOK
<1>2. BodiesAreOfQueued' /\ QueuedIsUnstarted' /\ UnusedIsFresh' /\ QuietUnlessUp'
  BY DEF BodiesAreOfQueued, QueuedIsUnstarted, UnusedIsFresh, QuietUnlessUp
<1> QED
  BY <1>1, <1>2 DEF WorkerHoldsJob, AtMostOneExecution, WithdrawnNeverRuns

\* A file read back puts a terminal record in memory, or nothing.
LEMMA LoadedInv ==
    ASSUME ExecutionInv, phase = "loading", phase' = "loading",
           NEW j \in JobIds, j \in used, unread' \in SUBSET JobIds,
           \/ jobs' = jobs
           \/ \E job \in Job : job.status \in Terminal /\ jobs' = [jobs EXCEPT ![j] = job],
           disk' \in [JobIds -> Job \cup {NoJob}],
           \A i \in JobIds \ {j} : disk'[i] = disk[i],
           saveFaults' \in Nat, unlinkFaults' \in Nat,
           UNCHANGED <<requests, queue, controls, closed, worker, current, outcome,
                       now, restarts, history>>
    PROVE  ExecutionInv'
<1> USE DEF history, ExecutionInv
<1>1. jobs' \in [JobIds -> Job \cup {NoJob}]
      /\ \A i \in JobIds \ {j} : jobs'[i] = jobs[i]
  BY DEF TypeOK
<1>2. jobs'[j] = jobs[j] \/ jobs'[j].status \in Terminal
  BY DEF TypeOK
<1>3. TypeOK'
  BY <1>1 DEF TypeOK
<1>4. requests = {}
  BY DEF BodiesAreOfQueued, QuietUnlessUp, Active, TypeOK
<1>5. \A i \in JobIds : jobs'[i].status \notin Active
  BY <1>1, <1>2 DEF QuietUnlessUp, Active, Terminal
<1>6. BodiesAreOfQueued' /\ QuietUnlessUp'
  BY <1>4, <1>5 DEF BodiesAreOfQueued, QuietUnlessUp, Active
<1>7. UnusedIsFresh' /\ QueuedIsUnstarted' /\ WorkerHoldsJob'
  BY <1>1 DEF UnusedIsFresh, QueuedIsUnstarted, WorkerHoldsJob, QuietUnlessUp
<1> QED
  BY <1>3, <1>6, <1>7 DEF AtMostOneExecution, WithdrawnNeverRuns

LEMMA LoadFileInv == ASSUME ExecutionInv, NEW j \in JobIds, LoadFile(j) PROVE ExecutionInv'
<1>1. /\ phase = "loading" /\ unread \in SUBSET JobIds
      /\ disk \in [JobIds -> Job \cup {NoJob}] /\ UNCHANGED <<now, restarts, history>>
  BY DEF LoadFile, ExecutionInv, TypeOK
<1>2. CASE disk[j].status \in Terminal /\ Outlived(disk[j])
  <2>1. PICK stuck \in Stuck({j}) :
            disk' = Unlinked({j}, stuck)
            /\ unlinkFaults' = unlinkFaults + Cardinality(stuck)
    BY <1>2 DEF LoadFile, Active, Terminal
  <2>2. /\ unread' = unread \ {j} /\ UNCHANGED <<volatile, phase, saveFaults>>
    BY <1>2 DEF LoadFile, Active, Terminal
  <2>3. unlinkFaults' \in Nat
    BY <2>1, FS_Subset, FS_CardinalityType, QueueAssumption
       DEF Stuck, ExecutionInv, TypeOK
  <2>4. j \in used
    BY <1>2 DEF ExecutionInv, UnusedIsFresh, NoJob, Terminal
  <2>5. disk' \in [JobIds -> Job \cup {NoJob}] /\ \A i \in JobIds \ {j} : disk'[i] = disk[i]
    BY <1>1, <2>1 DEF Unlinked
  <2> QED
    BY <1>1, <2>2, <2>3, <2>4, <2>5, LoadedInv DEF volatile, ExecutionInv, TypeOK
<1>3. CASE disk[j].status \in Terminal /\ ~Outlived(disk[j])
  <2>1. /\ jobs' = [jobs EXCEPT ![j] = disk[j]] /\ unread' = unread \ {j}
        /\ UNCHANGED <<requests, queue, controls, closed, worker, current,
                       outcome, disk, phase, saveFaults, unlinkFaults>>
    BY <1>3 DEF LoadFile, Active, Terminal
  <2>2. disk[j] \in Job
    BY <1>1, <1>3, PresentIsJob DEF Terminal
  <2>3. j \in used
    BY <1>3 DEF ExecutionInv, UnusedIsFresh, NoJob, Terminal
  <2>4. /\ disk' \in [JobIds -> Job \cup {NoJob}] /\ \A i \in JobIds \ {j} : disk'[i] = disk[i]
        /\ saveFaults' \in Nat /\ unlinkFaults' \in Nat /\ unread' \in SUBSET JobIds
    BY <1>1, <2>1 DEF ExecutionInv, TypeOK
  <2> QED
    BY <1>1, <1>3, <2>1, <2>2, <2>3, <2>4, LoadedInv
<1>4. CASE disk[j].status \in Active
  <2> DEFINE job == Moved(disk[j], "INTERRUPTED")
  <2>1. disk[j] \in Job
    BY <1>1, <1>4, PresentIsJob DEF Active
  <2>2. job \in Job /\ job.status \in Terminal
    BY <2>1, MovedType DEF ExecutionInv, TypeOK, Terminal
  <2>3. j \in used
    BY <1>4 DEF ExecutionInv, UnusedIsFresh, NoJob, Active
  <2>4. unlinkFaults' = unlinkFaults
    BY <1>4 DEF LoadFile, Active, Terminal
  <2>5. \/ /\ Save(disk, j, job, TRUE)
           /\ jobs' = [jobs EXCEPT ![j] = job] /\ unread' = unread \ {j}
           /\ UNCHANGED <<requests, queue, controls, closed, worker, current,
                          outcome, phase>>
        \/ /\ Save(disk, j, job, FALSE)
           /\ phase' = "down" /\ unread' = {} /\ NoProcess
    BY <1>4 DEF LoadFile, LoadActive, Active, Terminal
  <2> HIDE DEF job
  <2>6. CASE /\ Save(disk, j, job, TRUE)
             /\ jobs' = [jobs EXCEPT ![j] = job] /\ unread' = unread \ {j}
             /\ UNCHANGED <<requests, queue, controls, closed, worker, current,
                            outcome, phase>>
    <3>1. /\ disk' \in [JobIds -> Job \cup {NoJob}]
          /\ \A i \in JobIds \ {j} : disk'[i] = disk[i]
          /\ saveFaults' \in Nat /\ unlinkFaults' \in Nat /\ unread' \in SUBSET JobIds
      BY <1>1, <2>2, <2>4, <2>6 DEF Save, ExecutionInv, TypeOK
    <3> QED
      BY <1>1, <2>2, <2>3, <2>6, <3>1, LoadedInv
  <2>7. CASE /\ Save(disk, j, job, FALSE)
             /\ phase' = "down" /\ unread' = {} /\ NoProcess
    <3>1. disk' = disk /\ saveFaults' \in Nat
      BY <2>7 DEF Save, ExecutionInv, TypeOK
    <3> QED
      BY <1>1, <2>4, <2>7, <3>1, NoProcessInv
  <2> QED
    BY <2>5, <2>6, <2>7
<1> QED
  BY <1>2, <1>3, <1>4 DEF LoadFile

LEMMA WorkerThreadStartsInv ==
    ASSUME ExecutionInv, WorkerThreadStarts PROVE ExecutionInv'
<1> USE DEF WorkerThreadStarts, history, ExecutionInv
<1>1. TypeOK'
  BY DEF TypeOK
<1>2. BodiesAreOfQueued' /\ QueuedIsUnstarted' /\ UnusedIsFresh' /\ QuietUnlessUp'
  BY DEF BodiesAreOfQueued, QueuedIsUnstarted, UnusedIsFresh, QuietUnlessUp
<1> QED
  BY <1>1, <1>2 DEF WorkerHoldsJob, AtMostOneExecution, WithdrawnNeverRuns

LEMMA TickInv == ASSUME ExecutionInv, Tick PROVE ExecutionInv'
<1> USE DEF Tick, volatile, history, ExecutionInv
<1>1. TypeOK'
  BY DEF TypeOK
<1>2. BodiesAreOfQueued' /\ QueuedIsUnstarted' /\ UnusedIsFresh' /\ QuietUnlessUp'
  BY DEF BodiesAreOfQueued, QueuedIsUnstarted, UnusedIsFresh, QuietUnlessUp
<1> QED
  BY <1>1, <1>2 DEF WorkerHoldsJob, AtMostOneExecution, WithdrawnNeverRuns

LEMMA StutterInv == ASSUME ExecutionInv, UNCHANGED vars PROVE ExecutionInv'
<1> USE DEF vars, volatile, history, ExecutionInv
<1>1. TypeOK'
  BY DEF TypeOK
<1>2. BodiesAreOfQueued' /\ QueuedIsUnstarted' /\ UnusedIsFresh' /\ QuietUnlessUp'
  BY DEF BodiesAreOfQueued, QueuedIsUnstarted, UnusedIsFresh, QuietUnlessUp
<1> QED
  BY <1>1, <1>2 DEF WorkerHoldsJob, AtMostOneExecution, WithdrawnNeverRuns

LEMMA NextExecutionInv == ASSUME ExecutionInv, [Next]_vars PROVE ExecutionInv'
<1>1. CASE \E k \in Keys \cup {NoKey}, b \in Bodies : Submit(k, b)
  BY <1>1, SubmitInv
<1>2. CASE \E j \in JobIds : CancelQueued(j) \/ CancelRunning(j) \/ LoadFile(j)
  BY <1>2, CancelQueuedInv, CancelRunningInv, LoadFileInv
<1>3. CASE WorkerStep
  BY <1>3, WorkerWaitsInv, WorkerSkipsInv, WorkerTakesInv, ExecutorReturnsInv,
     WorkerRecordsResultInv, WorkerRecordsFailureInv, WorkerDropsControlInv
     DEF WorkerStep
<1>4. CASE Close \/ Crash \/ Boot \/ WorkerThreadStarts \/ Tick
  BY <1>4, CloseInv, CrashInv, BootInv, WorkerThreadStartsInv, TickInv
<1>5. CASE UNCHANGED vars
  BY <1>5, StutterInv
<1> QED
  BY <1>1, <1>2, <1>3, <1>4, <1>5 DEF Next

THEOREM ExecutionInvariant == Spec => []ExecutionInv
BY InitExecutionInv, NextExecutionInv, PTL DEF Spec

\* TypeOK for any number of jobs, faults and restarts.
THEOREM TypesHold == Spec => []TypeOK
<1>1. ExecutionInv => TypeOK
  BY DEF ExecutionInv
<1> QED
  BY ExecutionInvariant, <1>1, PTL

\* The executor is entered at most once for a job, across crashes, restarts
\* and writes that raise.
THEOREM ExecutesAtMostOnce == Spec => []AtMostOneExecution
<1>1. ExecutionInv => AtMostOneExecution
  BY DEF ExecutionInv
<1> QED
  BY ExecutionInvariant, <1>1, PTL

\* A job cancelled while QUEUED is never given to the executor.
THEOREM WithdrawnJobsNeverRun == Spec => []WithdrawnNeverRuns
<1>1. ExecutionInv => WithdrawnNeverRuns
  BY DEF ExecutionInv
<1> QED
  BY ExecutionInvariant, <1>1, PTL

\* Both facts, as the runs check them.
THEOREM ExecutesOnceHolds == Spec => []ExecutesOnce
<1>1. AtMostOneExecution /\ WithdrawnNeverRuns => ExecutesOnce
  BY DEF ExecutesOnce
<1> QED
  BY ExecutesAtMostOnce, WithdrawnJobsNeverRun, <1>1, PTL

--------------------------------------------------------------------------------
(***************************************************************************)
(* AgentJobQueue implements JobLifecycle for any number of jobs, keys,     *)
(* restarts and refused removals, as long as no save fails.                *)
(*                                                                         *)
(* The abstract life is that of the files, while the code decides by the   *)
(* records in memory.  What ties them is Agree: a file is the record in    *)
(* memory, or the remains of a terminal one that could not be removed, or  *)
(* one a start has still to read.                                          *)
(***************************************************************************)

Agree(j) == disk[j] = jobs[j] \/ (jobs[j] = NoJob /\ disk[j].status \in Terminal)

FilesAgree ==
    /\ phase = "up" => unread = {}
    /\ \A j \in JobIds :
         /\ phase = "down" \/ j \in unread => jobs[j] = NoJob
         /\ phase # "down" /\ j \notin unread => Agree(j)

\* What is RUNNING in memory is in the worker's hands, so there is one.
RunningIsHeld ==
    phase = "up" =>
        \A j \in JobIds : jobs[j].status = "RUNNING" =>
            j = current /\ worker \in {"executing", "returned", "failed", "dead"}

OneRuns ==
    \A i, j \in JobIds : disk[i].status = "RUNNING" /\ disk[j].status = "RUNNING" => i = j

LifeInv == ExecutionInv /\ saveFaults = 0 /\ FilesAgree /\ RunningIsHeld /\ OneRuns

\* A file's life.
View(j) == IF disk[j].status = "ABSENT" /\ j \in used THEN "FORGOTTEN" ELSE disk[j].status

Lives ==
    /\ \A j \in JobIds : View(j)' # View(j) => <<View(j), View(j)'>> \in Durable!Moves
    /\ executions' = [j \in JobIds |-> IF View(j) = "QUEUED" /\ View(j)' = "RUNNING"
                                       THEN executions[j] + 1 ELSE executions[j]]

--------------------------------------------------------------------------------
(* From the life of each file to a step of JobLifecycle.                   *)

LEMMA StatusOfJob ==
    ASSUME NEW x \in Job \cup {NoJob}
    PROVE  x.status \in Active \cup Terminal \cup {"ABSENT"} /\ (x.status = "ABSENT" => x = NoJob)
<1>1. x \in Job => x.status \in Active \cup Terminal
  BY DEF Job
<1>2. x \in Job => x.status # "ABSENT"
  BY JobIsPresent
<1> QED
  BY <1>1, <1>2 DEF NoJob

LEMMA ViewTyped ==
    ASSUME TypeOK, NEW j \in JobIds
    PROVE  /\ DurableStatus[j] = View(j)
           /\ View(j) \in Durable!Ends \cup {"ABSENT", "QUEUED", "RUNNING", "FORGOTTEN"}
           /\ View(j) = "RUNNING" <=> disk[j].status = "RUNNING"
<1>1. disk[j] \in Job \cup {NoJob}
  BY DEF TypeOK
<1>2. disk[j].status \in Active \cup Terminal \cup {"ABSENT"}
  BY <1>1, StatusOfJob
<1> QED
  BY <1>2 DEF DurableStatus, View, Durable!Ends, Active, Terminal

LEMMA LivesIsNext ==
    ASSUME TypeOK, TypeOK', OneRuns', Lives PROVE Durable!Next
<1>1. DurableStatus' \in [JobIds -> Durable!Ends \cup {"ABSENT", "QUEUED", "RUNNING", "FORGOTTEN"}]
  <2>1. \A j \in JobIds : disk'[j].status \in Active \cup Terminal \cup {"ABSENT"}
    BY StatusOfJob DEF TypeOK
  <2> QED
    BY <2>1 DEF DurableStatus, Durable!Ends, Active, Terminal
<1>2. \A j \in JobIds : DurableStatus[j] = View(j) /\ DurableStatus'[j] = View(j)'
  BY DEF DurableStatus, View
<1>3. \A j \in JobIds : DurableStatus'[j] # DurableStatus[j] =>
        <<DurableStatus[j], DurableStatus'[j]>> \in Durable!Moves
  BY <1>2 DEF Lives
<1>4. \A i, j \in JobIds : DurableStatus'[i] = "RUNNING" /\ DurableStatus'[j] = "RUNNING" => i = j
  BY DEF DurableStatus, OneRuns
<1>5. executions' = [j \in JobIds |-> IF DurableStatus[j] = "QUEUED" /\ DurableStatus'[j] = "RUNNING"
                                      THEN executions[j] + 1 ELSE executions[j]]
  BY <1>2 DEF Lives
<1> QED
  BY <1>1, <1>3, <1>4, <1>5 DEF Durable!Next

--------------------------------------------------------------------------------
(* The shapes of a step.                                                   *)

\* The files and what was handed out stay.
LEMMA FilesStay ==
    ASSUME LifeInv, UNCHANGED <<disk, used, executions>> PROVE Lives /\ OneRuns'
<1>1. executions = [j \in JobIds |-> executions[j]]
  BY DEF LifeInv, ExecutionInv, TypeOK
<1>2. \A j \in JobIds : View(j)' = View(j)
  BY DEF View
<1>3. \A j \in JobIds : ~(View(j) = "QUEUED" /\ View(j)' = "RUNNING")
  BY <1>2
<1>4. OneRuns'
  BY DEF LifeInv, OneRuns
<1> QED
  BY <1>1, <1>2, <1>3, <1>4 DEF Lives

\* Files of terminal jobs go; one new file may come.
LEMMA FilesGo ==
    ASSUME LifeInv, TypeOK',
           UNCHANGED executions, used \subseteq used',
           \A j \in JobIds :
             \/ disk'[j] = disk[j] /\ (j \in used' => j \in used \/ disk[j].status # "ABSENT")
             \/ disk[j].status \in Terminal /\ disk'[j] = NoJob
             \/ j \notin used /\ disk'[j].status = "QUEUED"
    PROVE  Lives /\ OneRuns'
<1>1. /\ executions = [j \in JobIds |-> executions[j]]
      /\ \A j \in JobIds \ used : disk[j].status = "ABSENT"
      /\ \A j \in JobIds : disk[j].status \in Terminal => j \in used
  BY DEF LifeInv, ExecutionInv, TypeOK, UnusedIsFresh, NoJob, Terminal
<1>2. ASSUME NEW j \in JobIds
      PROVE  /\ View(j)' # View(j) => <<View(j), View(j)'>> \in Durable!Moves
             /\ ~(View(j) = "QUEUED" /\ View(j)' = "RUNNING")
             /\ disk'[j].status = "RUNNING" => disk[j].status = "RUNNING"
  <2>1. CASE disk'[j] = disk[j] /\ (j \in used' => j \in used \/ disk[j].status # "ABSENT")
    BY <2>1 DEF View
  <2>2. CASE disk[j].status \in Terminal /\ disk'[j] = NoJob
    BY <1>1, <2>2 DEF View, NoJob, Terminal, Durable!Moves, Durable!Ends
  <2>3. CASE j \notin used /\ disk'[j].status = "QUEUED"
    BY <1>1, <2>3 DEF View, Durable!Moves
  <2> QED
    BY <2>1, <2>2, <2>3
<1>3. OneRuns'
  BY <1>2 DEF LifeInv, OneRuns
<1> QED
  BY <1>1, <1>2, <1>3 DEF Lives

\* One file is written over.
LEMMA FileMoves ==
    ASSUME LifeInv, NEW j \in JobIds, NEW job \in Job, disk' = [disk EXCEPT ![j] = job],
           UNCHANGED used, disk[j].status # "ABSENT",
           \/ disk[j].status = job.status
           \/ <<disk[j].status, job.status>> \in Durable!Moves,
           executions' = IF disk[j].status = "QUEUED" /\ job.status = "RUNNING"
                         THEN [executions EXCEPT ![j] = @ + 1] ELSE executions,
           job.status = "RUNNING" => \A i \in JobIds \ {j} : disk[i].status # "RUNNING"
    PROVE  Lives /\ OneRuns'
<1>1. /\ executions \in [JobIds -> Nat] /\ disk \in [JobIds -> Job \cup {NoJob}]
  BY DEF LifeInv, ExecutionInv, TypeOK
<1>2. \A i \in JobIds : disk'[i] = IF i = j THEN job ELSE disk[i]
  BY <1>1
<1>3. job.status # "ABSENT"
  BY JobIsPresent
<1>4. View(j) = disk[j].status /\ View(j)' = job.status
  BY <1>2, <1>3 DEF View
<1>5. \A i \in JobIds \ {j} : View(i)' = View(i)
  BY <1>2 DEF View
<1>6. \A i \in JobIds : View(i)' # View(i) => <<View(i), View(i)'>> \in Durable!Moves
  BY <1>4, <1>5
<1>7. executions' = [i \in JobIds |-> IF View(i) = "QUEUED" /\ View(i)' = "RUNNING"
                                      THEN executions[i] + 1 ELSE executions[i]]
  BY <1>1, <1>4, <1>5
<1>8. OneRuns'
  BY <1>2 DEF LifeInv, OneRuns
<1> QED
  BY <1>6, <1>7, <1>8 DEF Lives

\* What every action owes.
Kept == Lives /\ saveFaults' = 0 /\ FilesAgree' /\ RunningIsHeld' /\ OneRuns'

\* No save fails.
LEMMA Saves ==
    ASSUME MaxSaveFaults = 0, saveFaults = 0, NEW files, NEW j, NEW job,
           NEW saved \in BOOLEAN, Save(files, j, job, saved)
    PROVE  saved = TRUE /\ disk' = [files EXCEPT ![j] = job] /\ saveFaults' = 0
<1>1. saved
  BY DEF Save
<1> QED
  BY <1>1 DEF Save

\* While the process is up a record in memory is in its file.
LEMMA UpAgrees ==
    ASSUME LifeInv, phase = "up", NEW j \in JobIds
    PROVE  Agree(j) /\ (jobs[j].status # "ABSENT" => disk[j] = jobs[j])
BY DEF LifeInv, FilesAgree, Agree, NoJob

\* A record of the process is changed and written.
LEMMA RecordKept ==
    ASSUME LifeInv, TypeOK', phase = "up", NEW j \in JobIds, jobs[j].status # "ABSENT",
           NEW job \in Job, jobs' = [jobs EXCEPT ![j] = job], disk' = [disk EXCEPT ![j] = job],
           UNCHANGED <<phase, unread, used>>, saveFaults' = 0,
           \/ jobs[j].status = job.status
           \/ <<jobs[j].status, job.status>> \in Durable!Moves,
           executions' = IF jobs[j].status = "QUEUED" /\ job.status = "RUNNING"
                         THEN [executions EXCEPT ![j] = @ + 1] ELSE executions,
           job.status = "RUNNING" => \A i \in JobIds \ {j} : jobs[i].status # "RUNNING",
           RunningIsHeld'
    PROVE  Kept
<1>1. disk[j] = jobs[j] /\ \A i \in JobIds : Agree(i)
  BY UpAgrees
<1>2. \A i \in JobIds : /\ jobs'[i] = IF i = j THEN job ELSE jobs[i]
                        /\ disk'[i] = IF i = j THEN job ELSE disk[i]
  BY DEF LifeInv, ExecutionInv, TypeOK
<1>3. FilesAgree'
  <2>1. \A i \in JobIds : Agree(i)'
    BY <1>1, <1>2 DEF Agree
  <2> QED
    BY <2>1 DEF LifeInv, FilesAgree
<1>4. job.status = "RUNNING" => \A i \in JobIds \ {j} : disk[i].status # "RUNNING"
  BY <1>1 DEF Agree, Terminal
<1>5. Lives /\ OneRuns'
  BY <1>1, <1>4, FileMoves
<1> QED
  BY <1>3, <1>5 DEF Kept

\* Records and files stay; what runs is still in the worker's hands.
LEMMA StillKept ==
    ASSUME LifeInv, RunningIsHeld',
           UNCHANGED <<jobs, disk, used, executions, phase, unread, saveFaults>>
    PROVE  Kept
<1>1. FilesAgree'
  BY DEF LifeInv, FilesAgree, Agree
<1> QED
  BY <1>1, FilesStay DEF Kept, LifeInv

--------------------------------------------------------------------------------
(* Step by step.                                                           *)

LEMMA SubmitShape ==
    ASSUME ExecutionInv, NEW k \in Keys \cup {NoKey}, NEW b \in Bodies, Submit(k, b)
    PROVE  /\ phase = "up" /\ UNCHANGED <<phase, unread>>
           /\ \E gone \in SUBSET Finished : \E stuck \in SUBSET gone :
                SubmitRefused(gone, stuck) \/ SubmitAccepted(gone, stuck, k, b)
<1> DEFINE keep == Retained \ Expired
<1>1. PICK victims \in SUBSET keep : \E stuck \in Stuck(Expired \cup victims) :
        /\ victims \in SUBSET Finished
        /\ \/ SubmitRefused(Expired \cup victims, stuck)
           \/ SubmitAccepted(Expired \cup victims, stuck, k, b)
  <2>1. \A o \in Oldest(keep) : o \in Finished
    BY DEF Oldest
  <2> QED
    BY <2>1 DEF Submit, SameKey
<1>2. PICK stuck \in Stuck(Expired \cup victims) :
        \/ SubmitRefused(Expired \cup victims, stuck)
        \/ SubmitAccepted(Expired \cup victims, stuck, k, b)
  BY <1>1
<1>3. Expired \cup victims \in SUBSET Finished /\ stuck \in SUBSET (Expired \cup victims)
  BY <1>1, <1>2 DEF Expired, Stuck
<1>4. phase = "up" /\ UNCHANGED <<phase, unread>>
  BY DEF Submit
<1> QED
  BY <1>2, <1>3, <1>4

LEMMA SubmitKept ==
    ASSUME LifeInv, TypeOK', MaxSaveFaults = 0,
           NEW k \in Keys \cup {NoKey}, NEW b \in Bodies, Submit(k, b)
    PROVE  Kept
<1>1. /\ phase = "up" /\ UNCHANGED <<phase, unread>>
      /\ \E gone \in SUBSET Finished : \E stuck \in SUBSET gone :
           SubmitRefused(gone, stuck) \/ SubmitAccepted(gone, stuck, k, b)
  BY SubmitShape DEF LifeInv
<1>2. PICK gone \in SUBSET Finished : \E stuck \in SUBSET gone :
        SubmitRefused(gone, stuck) \/ SubmitAccepted(gone, stuck, k, b)
  BY <1>1
<1>3. PICK stuck \in SUBSET gone : SubmitRefused(gone, stuck) \/ SubmitAccepted(gone, stuck, k, b)
  BY <1>2
<1>4. \A j \in JobIds : Agree(j)
  BY <1>1, UpAgrees
<1>5. \A j \in gone : j \in JobIds /\ disk[j] = jobs[j] /\ disk[j].status \in Terminal
  <2>1. \A j \in gone : j \in JobIds /\ jobs[j].status \in Terminal
    BY DEF Finished
  <2> QED
    BY <1>4, <2>1 DEF Agree, NoJob, Terminal
<1>6. CASE SubmitRefused(gone, stuck)
  <2>1. \A j \in JobIds : /\ jobs'[j] = IF j \in gone THEN NoJob ELSE jobs[j]
                          /\ disk'[j] = IF j \in gone \ stuck THEN NoJob ELSE disk[j]
    BY <1>6 DEF SubmitRefused, Forgotten, Unlinked
  <2>2. UNCHANGED <<used, executions, worker, current, saveFaults>>
    BY <1>6 DEF SubmitRefused
  <2>3. Lives /\ OneRuns'
    BY <1>5, <2>1, <2>2, FilesGo
  <2>4. FilesAgree'
    <3>1. \A j \in JobIds : Agree(j)'
      BY <1>4, <1>5, <2>1 DEF Agree
    <3> QED
      BY <1>1, <3>1 DEF LifeInv, FilesAgree
  <2>5. RunningIsHeld'
    BY <1>1, <2>1, <2>2 DEF LifeInv, RunningIsHeld, NoJob
  <2> QED
    BY <2>2, <2>3, <2>4, <2>5 DEF Kept, LifeInv
<1>7. CASE SubmitAccepted(gone, stuck, k, b)
  <2>1. PICK n \in JobIds \ used, saved \in BOOLEAN :
          /\ jobs' = [Forgotten(gone) EXCEPT ![n] = NewJob(k, b)]
          /\ Save(Unlinked(gone, stuck), n, NewJob(k, b), saved)
          /\ Notify(saved) /\ used' = used \cup {n}
          /\ UNCHANGED <<current, executions>>
    BY <1>7 DEF SubmitAccepted
  <2>2. disk' = [Unlinked(gone, stuck) EXCEPT ![n] = NewJob(k, b)] /\ saveFaults' = 0
    BY <2>1, Saves DEF LifeInv
  <2>3. \A j \in JobIds :
          /\ jobs'[j] = IF j = n THEN NewJob(k, b) ELSE IF j \in gone THEN NoJob ELSE jobs[j]
          /\ disk'[j] = IF j = n THEN NewJob(k, b)
                        ELSE IF j \in gone \ stuck THEN NoJob ELSE disk[j]
    BY <2>1, <2>2 DEF Forgotten, Unlinked
  <2>4. NewJob(k, b).status = "QUEUED"
    BY DEF NewJob
  <2> HIDE DEF NewJob
  <2>5. Lives /\ OneRuns'
    BY <1>5, <2>1, <2>3, <2>4, FilesGo
  <2>6. FilesAgree'
    <3>1. \A j \in JobIds : Agree(j)'
      BY <1>4, <1>5, <2>3 DEF Agree
    <3> QED
      BY <1>1, <3>1 DEF LifeInv, FilesAgree
  <2>7. RunningIsHeld'
    <3>1. \A j \in JobIds : jobs'[j].status = "RUNNING" => jobs[j].status = "RUNNING"
      BY <2>3, <2>4 DEF NoJob
    <3> QED
      BY <1>1, <2>1, <3>1 DEF LifeInv, RunningIsHeld, Notify
  <2> QED
    BY <2>2, <2>5, <2>6, <2>7 DEF Kept
<1> QED
  BY <1>3, <1>6, <1>7

LEMMA CancelQueuedKept ==
    ASSUME LifeInv, TypeOK', MaxSaveFaults = 0, NEW j \in JobIds, CancelQueued(j) PROVE Kept
<1> DEFINE job == Moved(jobs[j], "CANCELLED")
<1>1. job \in Job /\ job.status = "CANCELLED" /\ jobs[j].status = "QUEUED"
  BY PresentIsJob, MovedType DEF CancelQueued, Cancellable, LifeInv, ExecutionInv, TypeOK, Terminal
<1>2. PICK saved \in BOOLEAN : Save(disk, j, job, saved) /\ Notify(saved)
  BY DEF CancelQueued
<1>3. /\ phase = "up" /\ jobs' = [jobs EXCEPT ![j] = job]
      /\ UNCHANGED <<phase, unread, used, executions, current>>
  BY DEF CancelQueued
<1> HIDE DEF job
<1>4. disk' = [disk EXCEPT ![j] = job] /\ saveFaults' = 0
  BY <1>2, Saves DEF LifeInv
<1>5. RunningIsHeld'
  <2>1. \A i \in JobIds : jobs'[i].status = "RUNNING" => jobs[i].status = "RUNNING"
    BY <1>1, <1>3 DEF LifeInv, ExecutionInv, TypeOK
  <2> QED
    BY <1>2, <1>3, <2>1 DEF LifeInv, RunningIsHeld, Notify
<1>6. <<jobs[j].status, job.status>> \in Durable!Moves
  BY <1>1 DEF Durable!Moves
<1> QED
  BY <1>1, <1>3, <1>4, <1>5, <1>6, RecordKept

LEMMA CancelRunningKept ==
    ASSUME LifeInv, TypeOK', MaxSaveFaults = 0, NEW j \in JobIds, CancelRunning(j) PROVE Kept
<1> DEFINE moved == Moved(jobs[j], "RUNNING")
<1> DEFINE job == [moved EXCEPT !.cancel = "REQUESTED"]
<1>1. moved \in Job /\ moved.status = "RUNNING" /\ jobs[j].status = "RUNNING"
  <2>1. jobs[j].status = "RUNNING" /\ jobs[j] \in Job \cup {NoJob} /\ now \in Nat
    BY DEF CancelRunning, LifeInv, ExecutionInv, TypeOK
  <2>2. jobs[j] \in Job /\ "RUNNING" \in Active \cup Terminal
    BY <2>1, PresentIsJob DEF Active
  <2> QED
    BY <2>1, <2>2, MovedType
<1>2. PICK saved \in BOOLEAN : Save(disk, j, job, saved) /\ Notify(saved)
  BY DEF CancelRunning
<1>3. /\ phase = "up" /\ jobs' = [jobs EXCEPT ![j] = job]
      /\ UNCHANGED <<phase, unread, used, executions, current>>
  BY DEF CancelRunning, history
<1> HIDE DEF moved
<1>4. job \in Job /\ job.status = "RUNNING"
  BY <1>1 DEF Job
<1> HIDE DEF job
<1>5. disk' = [disk EXCEPT ![j] = job] /\ saveFaults' = 0
  BY <1>2, Saves DEF LifeInv
<1>6. RunningIsHeld'
  <2>1. \A i \in JobIds : jobs'[i].status = "RUNNING" => jobs[i].status = "RUNNING"
    BY <1>1, <1>3, <1>4 DEF LifeInv, ExecutionInv, TypeOK
  <2> QED
    BY <1>2, <1>3, <2>1 DEF LifeInv, RunningIsHeld, Notify
<1>7. \A i \in JobIds \ {j} : jobs[i].status # "RUNNING"
  BY <1>1, <1>3 DEF LifeInv, RunningIsHeld
<1> QED
  BY <1>1, <1>3, <1>4, <1>5, <1>6, <1>7, RecordKept

LEMMA WorkerTakesKept ==
    ASSUME LifeInv, TypeOK', MaxSaveFaults = 0, WorkerTakes PROVE Kept
<1> DEFINE j == Head(queue)
           job == Moved(jobs[j], "RUNNING")
<1>1. /\ phase = "up" /\ worker = "ready" /\ j \in JobIds /\ jobs[j].status = "QUEUED"
      /\ jobs' = [jobs EXCEPT ![j] = job] /\ current' = j /\ UNCHANGED <<phase, unread, used>>
  BY DEF WorkerTakes, Runnable, LifeInv, ExecutionInv, TypeOK, workerFrame
<1>2. job \in Job /\ job.status = "RUNNING"
  <2>1. jobs[j] \in Job /\ now \in Nat /\ "RUNNING" \in Active \cup Terminal
    BY <1>1, PresentIsJob DEF LifeInv, ExecutionInv, TypeOK, Active
  <2> QED
    BY <2>1, MovedType
<1>3. PICK saved \in BOOLEAN :
        /\ Save(disk, j, job, saved)
        /\ worker' = IF saved THEN "executing" ELSE "dead"
        /\ executions' = IF saved THEN [executions EXCEPT ![j] = @ + 1] ELSE executions
  BY DEF WorkerTakes
<1> HIDE DEF j, job
<1>4. /\ disk' = [disk EXCEPT ![j] = job] /\ saveFaults' = 0 /\ worker' = "executing"
      /\ executions' = [executions EXCEPT ![j] = @ + 1]
  <2>1. saved = TRUE /\ disk' = [disk EXCEPT ![j] = job] /\ saveFaults' = 0
    BY <1>3, Saves DEF LifeInv
  <2> QED
    BY <1>3, <2>1
<1>5. \A i \in JobIds : jobs[i].status # "RUNNING"
  BY <1>1 DEF LifeInv, RunningIsHeld
<1>6. RunningIsHeld'
  <2>1. \A i \in JobIds \ {j} : jobs'[i] = jobs[i]
    BY <1>1 DEF LifeInv, ExecutionInv, TypeOK
  <2> QED
    BY <1>1, <1>4, <1>5, <2>1 DEF RunningIsHeld
<1>7. <<jobs[j].status, job.status>> \in Durable!Moves
  BY <1>1, <1>2 DEF Durable!Moves
<1> QED
  BY <1>1, <1>2, <1>4, <1>5, <1>6, <1>7, RecordKept

\* The worker writes the end of the job it holds.
LEMMA WorkerRecordKept ==
    ASSUME LifeInv, TypeOK', MaxSaveFaults = 0, phase = "up",
           current \in JobIds, jobs[current].status = "RUNNING",
           NEW job \in Job, job.status \in Terminal,
           jobs' = [jobs EXCEPT ![current] = job],
           NEW saved \in BOOLEAN, Save(disk, current, job, saved),
           UNCHANGED <<history, workerFrame>>
    PROVE  Kept
<1>1. disk' = [disk EXCEPT ![current] = job] /\ saveFaults' = 0
  BY Saves DEF LifeInv
<1>2. RunningIsHeld'
  <2>1. \A i \in JobIds : jobs'[i] = IF i = current THEN job ELSE jobs[i]
    BY DEF LifeInv, ExecutionInv, TypeOK
  <2>2. \A i \in JobIds : jobs'[i].status # "RUNNING"
    BY <2>1 DEF LifeInv, RunningIsHeld, Terminal
  <2> QED
    BY <2>2 DEF RunningIsHeld
<1>3. job.status # "RUNNING" /\ <<jobs[current].status, job.status>> \in Durable!Moves
  BY DEF Terminal, Durable!Moves, Durable!Ends
<1> QED
  BY <1>1, <1>2, <1>3, RecordKept DEF history, workerFrame

LEMMA WorkerRecordsKept ==
    ASSUME LifeInv, TypeOK', MaxSaveFaults = 0, WorkerRecordsResult \/ WorkerRecordsFailure
    PROVE  Kept
<1>1. current \in JobIds /\ phase = "up"
  BY DEF WorkerRecordsResult, WorkerRecordsFailure, LifeInv, ExecutionInv, WorkerHoldsJob
<1>2. CASE WorkerRecordsResult
  <2> DEFINE moved == Moved(jobs[current], JobStatusOf(outcome))
  <2> DEFINE job == [moved EXCEPT !.task = outcome]
  <2>1. jobs[current].status = "RUNNING" /\ outcome \in TaskResults
    BY <1>2 DEF WorkerRecordsResult, LifeInv, ExecutionInv, WorkerHoldsJob
  <2>2. moved \in Job /\ moved.status \in Terminal
    <3>1. JobStatusOf(outcome) \in Terminal
      BY DEF JobStatusOf, Terminal
    <3>2. jobs[current] \in Job /\ now \in Nat
      BY <1>1, <2>1, PresentIsJob DEF LifeInv, ExecutionInv, TypeOK
    <3> QED
      BY <3>1, <3>2, MovedType
  <2>3. jobs' = [jobs EXCEPT ![current] = job] /\ \E saved \in BOOLEAN : Save(disk, current, job, saved)
    BY <1>2 DEF WorkerRecordsResult
  <2> HIDE DEF moved
  <2>4. job \in Job /\ job.status \in Terminal
    BY <2>1, <2>2 DEF Job
  <2> HIDE DEF job
  <2> QED
    BY <1>1, <1>2, <2>1, <2>3, <2>4, WorkerRecordKept DEF WorkerRecordsResult
<1>3. CASE WorkerRecordsFailure /\ StillRunning
  <2> DEFINE job == Moved(jobs[current], "FAILED")
  <2>1. jobs[current].status = "RUNNING"
    BY <1>3 DEF StillRunning
  <2>2. job \in Job /\ job.status \in Terminal
    <3>1. jobs[current] \in Job /\ now \in Nat /\ "FAILED" \in Terminal
      BY <1>1, <2>1, PresentIsJob DEF LifeInv, ExecutionInv, TypeOK, Terminal
    <3> QED
      BY <3>1, MovedType
  <2>3. jobs' = [jobs EXCEPT ![current] = job] /\ \E saved \in BOOLEAN : Save(disk, current, job, saved)
    BY <1>3 DEF WorkerRecordsFailure
  <2> HIDE DEF job
  <2> QED
    BY <1>1, <1>3, <2>1, <2>2, <2>3, WorkerRecordKept DEF WorkerRecordsFailure
<1>4. CASE WorkerRecordsFailure /\ ~StillRunning
  <2>1. UNCHANGED <<jobs, disk, used, executions, phase, unread, saveFaults>>
    BY <1>4 DEF WorkerRecordsFailure, history, workerFrame
  <2>2. \A i \in JobIds : jobs'[i].status # "RUNNING"
    BY <1>1, <1>4, <2>1 DEF StillRunning, LifeInv, RunningIsHeld
  <2> QED
    BY <2>1, <2>2, StillKept DEF RunningIsHeld
<1> QED
  BY <1>2, <1>3, <1>4

LEMMA QuietKept ==
    ASSUME LifeInv,
           \/ WorkerSleeps \/ WorkerStops \/ WorkerSkips \/ ExecutorReturns \/ WorkerDropsControl
           \/ Close \/ Tick \/ UNCHANGED vars
    PROVE  Kept
<1>1. UNCHANGED <<jobs, disk, used, executions, phase, unread, saveFaults>>
  BY DEF WorkerSleeps, WorkerStops, WorkerSkips, ExecutorReturns, WorkerDropsControl, Close, Tick,
         vars, volatile, history, workerFrame
<1>2. RunningIsHeld'
  <2>1. /\ current' = current
        /\ worker \in {"executing", "returned", "failed", "dead"} =>
             worker' \in {"executing", "returned", "failed", "dead"}
    BY DEF WorkerSleeps, WorkerStops, WorkerSkips, ExecutorReturns, WorkerDropsControl, Close, Tick,
           Notify, vars, volatile
  <2> QED
    BY <1>1, <2>1 DEF LifeInv, RunningIsHeld
<1> QED
  BY <1>1, <1>2, StillKept

\* A process that ends leaves its files, and the next one reads them.
LEMMA ProcessKept ==
    ASSUME LifeInv, Crash \/ Boot \/ WorkerThreadStarts PROVE Kept
<1>1. UNCHANGED <<disk, used, executions, saveFaults>>
  BY DEF Crash, Boot, WorkerThreadStarts, history
<1>2. CASE Crash
  <2>1. phase' = "down" /\ unread' = {} /\ \A j \in JobIds : jobs'[j] = NoJob
    BY <1>2 DEF Crash, NoProcess, Blank
  <2> QED
    BY <1>1, <2>1, FilesStay DEF Kept, LifeInv, FilesAgree, RunningIsHeld
<1>3. CASE Boot
  <2>1. /\ phase = "down" /\ phase' = "loading" /\ jobs' = jobs
        /\ \A j \in JobIds : jobs[j] = NoJob
        /\ \A j \in JobIds : j \notin unread' => disk[j].status = "ABSENT"
    BY <1>3 DEF Boot, volatile, LifeInv, FilesAgree
  <2>2. \A j \in JobIds : disk[j].status = "ABSENT" => disk[j] = NoJob
    BY StatusOfJob DEF LifeInv, ExecutionInv, TypeOK
  <2>3. FilesAgree' /\ RunningIsHeld'
    BY <1>1, <2>1, <2>2 DEF FilesAgree, RunningIsHeld, Agree
  <2> QED
    BY <1>1, <2>3, FilesStay DEF Kept, LifeInv
<1>4. CASE WorkerThreadStarts
  <2>1. phase = "loading" /\ phase' = "up" /\ unread = {} /\ UNCHANGED <<jobs, unread>>
    BY <1>4 DEF WorkerThreadStarts
  <2>2. FilesAgree'
    BY <1>1, <2>1 DEF LifeInv, FilesAgree, Agree
  <2>3. RunningIsHeld'
    BY <2>1 DEF LifeInv, ExecutionInv, QuietUnlessUp, RunningIsHeld, Active
  <2> QED
    BY <1>1, <2>2, <2>3, FilesStay DEF Kept, LifeInv
<1> QED
  BY <1>2, <1>3, <1>4

\* A file read at a start is taken over, removed, or closed.
LEMMA LoadFileKept ==
    ASSUME LifeInv, TypeOK', MaxSaveFaults = 0, NEW j \in JobIds, LoadFile(j) PROVE Kept
<1>1. /\ phase = "loading" /\ j \in unread /\ jobs[j] = NoJob
      /\ \A i \in JobIds : /\ i \in unread => jobs[i] = NoJob
                           /\ i \notin unread => Agree(i)
      /\ UNCHANGED <<used, executions>>
  BY DEF LoadFile, history, LifeInv, FilesAgree
<1>2. ASSUME NEW kept \in {NoJob, disk'[j]},
             phase' = "loading", unread' = unread \ {j}, jobs' = [jobs EXCEPT ![j] = kept],
             \A i \in JobIds \ {j} : disk'[i] = disk[i],
             kept = NoJob => disk'[j] = NoJob \/ disk'[j].status \in Terminal
      PROVE  FilesAgree' /\ RunningIsHeld'
  <2>1. \A i \in JobIds : jobs'[i] = IF i = j THEN kept ELSE jobs[i]
    BY <1>2 DEF LifeInv, ExecutionInv, TypeOK
  <2> QED
    BY <1>1, <1>2, <2>1 DEF FilesAgree, RunningIsHeld, Agree
<1>3. jobs = [jobs EXCEPT ![j] = NoJob]
  BY <1>1 DEF LifeInv, ExecutionInv, TypeOK
<1>4. CASE disk[j].status \in Terminal /\ Outlived(disk[j])
  <2>1. PICK stuck \in Stuck({j}) : disk' = Unlinked({j}, stuck)
    BY <1>4 DEF LoadFile, Active, Terminal
  <2>2. unread' = unread \ {j} /\ UNCHANGED <<volatile, phase, saveFaults>>
    BY <1>4 DEF LoadFile, Active, Terminal
  <2>3. \A i \in JobIds : disk'[i] = disk[i] \/ (i = j /\ disk'[i] = NoJob)
    BY <2>1 DEF Unlinked
  <2>4. FilesAgree' /\ RunningIsHeld'
    BY <1>1, <1>2, <1>3, <1>4, <2>2, <2>3 DEF volatile
  <2>5. Lives /\ OneRuns'
    BY <1>1, <1>4, <2>3, FilesGo
  <2> QED
    BY <2>2, <2>4, <2>5 DEF Kept, LifeInv
<1>5. CASE disk[j].status \in Terminal /\ ~Outlived(disk[j])
  <2>1. /\ jobs' = [jobs EXCEPT ![j] = disk[j]] /\ unread' = unread \ {j}
        /\ UNCHANGED <<disk, phase, saveFaults>>
    BY <1>5 DEF LoadFile, Active, Terminal
  <2>2. FilesAgree' /\ RunningIsHeld'
    BY <1>1, <1>2, <1>5, <2>1
  <2> QED
    BY <1>1, <2>1, <2>2, FilesStay DEF Kept, LifeInv
<1>6. CASE disk[j].status \in Active
  <2> DEFINE job == Moved(disk[j], "INTERRUPTED")
  <2>1. job \in Job /\ job.status = "INTERRUPTED"
    <3>1. disk[j] \in Job /\ now \in Nat /\ "INTERRUPTED" \in Terminal
      BY <1>6, PresentIsJob DEF LifeInv, ExecutionInv, TypeOK, Active, Terminal
    <3> QED
      BY <3>1, MovedType
  <2>2. \/ /\ Save(disk, j, job, TRUE)
           /\ jobs' = [jobs EXCEPT ![j] = job] /\ unread' = unread \ {j} /\ UNCHANGED phase
        \/ Save(disk, j, job, FALSE)
    BY <1>6 DEF LoadFile, LoadActive, Active, Terminal
  <2> HIDE DEF job
  <2>3. /\ disk' = [disk EXCEPT ![j] = job] /\ saveFaults' = 0
        /\ jobs' = [jobs EXCEPT ![j] = job] /\ unread' = unread \ {j} /\ UNCHANGED phase
    <3>1. ~Save(disk, j, job, FALSE)
      BY Saves DEF LifeInv
    <3>2. Save(disk, j, job, TRUE) => disk' = [disk EXCEPT ![j] = job] /\ saveFaults' = 0
      BY Saves DEF LifeInv
    <3> QED
      BY <2>2, <3>1, <3>2
  <2>4. disk'[j] = job /\ \A i \in JobIds \ {j} : disk'[i] = disk[i]
    BY <2>3 DEF LifeInv, ExecutionInv, TypeOK
  <2>5. FilesAgree' /\ RunningIsHeld'
    <3>1. job # NoJob
      BY <2>1 DEF NoJob
    <3> QED
      BY <1>1, <1>2, <2>3, <2>4, <3>1
  <2>6. Lives /\ OneRuns'
    <3>1. disk[j].status # "ABSENT" /\ <<disk[j].status, job.status>> \in Durable!Moves
      BY <1>6, <2>1 DEF Active, Durable!Moves, Durable!Ends
    <3> QED
      BY <1>1, <2>1, <2>3, <3>1, FileMoves
  <2> QED
    BY <2>3, <2>5, <2>6 DEF Kept
<1> QED
  BY <1>4, <1>5, <1>6 DEF LoadFile

--------------------------------------------------------------------------------
LEMMA InitLifeInv == Init => LifeInv /\ Durable!Init
<1> SUFFICES ASSUME Init PROVE LifeInv /\ Durable!Init
  OBVIOUS
<1>1. ExecutionInv
  BY InitExecutionInv
<1>2. /\ \A j \in JobIds : jobs[j] = NoJob /\ disk[j] = NoJob
      /\ phase = "up" /\ unread = {} /\ used = {} /\ saveFaults = 0
      /\ executions = [j \in JobIds |-> 0]
  BY DEF Init, Blank
<1>3. LifeInv
  BY <1>1, <1>2 DEF LifeInv, FilesAgree, RunningIsHeld, OneRuns, Agree, NoJob
<1>4. DurableStatus = [j \in JobIds |-> "ABSENT"]
  BY <1>2 DEF DurableStatus, NoJob
<1> QED
  BY <1>2, <1>3, <1>4 DEF Durable!Init

LEMMA StepLifeInv ==
    ASSUME LifeInv, MaxSaveFaults = 0, [Next]_vars PROVE LifeInv' /\ Durable!Next
<1>1. ExecutionInv' /\ TypeOK' /\ TypeOK
  BY NextExecutionInv DEF LifeInv, ExecutionInv
<1>2. Kept
  BY <1>1, SubmitKept, CancelQueuedKept, CancelRunningKept, WorkerTakesKept, WorkerRecordsKept,
     QuietKept, ProcessKept, LoadFileKept DEF Next, WorkerStep
<1> QED
  BY <1>1, <1>2, LivesIsNext DEF Kept, LifeInv

\* As long as no save fails, the files of the queue live the life JobLifecycle
\* promises, whatever is cancelled, evicted, left behind or read again.
THEOREM LifecycleIsImplemented == MaxSaveFaults = 0 => (Spec => ImplementsLifecycle)
<1> SUFFICES ASSUME MaxSaveFaults = 0 PROVE Spec => ImplementsLifecycle
  OBVIOUS
<1>1. Init => LifeInv /\ Durable!Init
  BY InitLifeInv
<1>2. LifeInv /\ [Next]_vars => LifeInv' /\ Durable!Next
  BY StepLifeInv
<1>3. Durable!Spec <=> Durable!Init /\ [][Durable!Next]_<<DurableStatus, executions>>
  BY DEF Durable!Spec
<1> QED
  BY <1>1, <1>2, <1>3, PTL DEF Spec, ImplementsLifecycle

--------------------------------------------------------------------------------
(***************************************************************************)
(* What AgentJobQueue keeps in its records, its files, its deque and its   *)
(* tokens, and what AgentJobStream tells of them, for every value of the   *)
(* constants.                                                              *)
(*                                                                         *)
(* RecordInv ties memory and files record by record, whatever failed, and  *)
(* says that what the process knows, or will know after its next start, is *)
(* within the limit and has one job per key.  WorkInv ties the records to  *)
(* the worker.  Steps are grouped by what they do to records and files, so *)
(* that each property is proved once per shape and not once per handler.   *)
(***************************************************************************)

SameOrigin(x, y) == x.key = y.key /\ x.body = y.body

\* A start has in memory what it has read; nothing is in memory without a process.
OnlyReadIsLoaded ==
    /\ phase = "up" => unread = {}
    /\ \A j \in JobIds : phase = "down" \/ j \in unread => jobs[j] = NoJob

RecordsAgree ==
    \A j \in JobIds :
      /\ jobs[j] # NoJob /\ disk[j] # NoJob =>
           /\ SameOrigin(jobs[j], disk[j])
           /\ disk[j].status \in Terminal => jobs[j] = disk[j]
      /\ jobs[j] # NoJob /\ (phase = "loading" \/ saveFaults = 0) => disk[j] = jobs[j]
      /\ disk[j] # NoJob /\ unlinkFaults = 0 /\ phase # "down" /\ j \notin unread
           => jobs[j] # NoJob

AnswersAgree ==
    \A j \in JobIds :
      /\ jobs[j] # NoJob => answered[j] \subseteq {jobs[j].body}
      /\ disk[j] # NoJob => answered[j] \subseteq {disk[j].body}
      /\ j \notin used => answered[j] = {}

\* What the process knows, or will know after its next start.
Known == {j \in JobIds : jobs[j] # NoJob \/ disk[j] # NoJob}
KeyOf(j) == IF jobs[j] # NoJob THEN jobs[j].key ELSE disk[j].key

KnownAreFew == unlinkFaults = 0 => Cardinality(Known) <= MaxJobs

KnownKeysDiffer ==
    unlinkFaults = 0 =>
        \A i, j \in Known : KeyOf(i) = KeyOf(j) /\ KeyOf(i) # NoKey => i = j

RecordInv ==
    /\ OnlyReadIsLoaded /\ RecordsAgree /\ AnswersAgree
    /\ KnownAreFew /\ KnownKeysDiffer

\* What RecordsOnlyAdvance says of a step.
Advances == \A j \in JobIds : FinalInFile(j) /\ CountedInMemory(j)

\* While no write fails a file that changes was unfinished and its sequence
\* does not fall; only a new job has a new file.
FilesAdvance ==
    /\ used \subseteq used'
    /\ saveFaults' = 0 =>
         /\ saveFaults = 0
         /\ \A j \in used :
              \/ disk'[j] \in {disk[j], NoJob}
              \/ disk[j].status \in Active /\ disk'[j].seq >= disk[j].seq

RecordsKept == RecordInv' /\ Advances /\ FilesAdvance

--------------------------------------------------------------------------------
LEMMA KnownIsFinite == IsFiniteSet(Known) /\ Cardinality(Known) \in Nat
BY QueueAssumption, FS_Subset, FS_CardinalityType DEF Known

LEMMA RecordIsPresent ==
    ASSUME TypeOK, NEW j \in JobIds
    PROVE  /\ jobs[j] # NoJob <=> jobs[j].status # "ABSENT"
           /\ jobs[j] # NoJob <=> jobs[j] \in Job
           /\ disk[j] # NoJob <=> disk[j].status # "ABSENT"
           /\ disk[j] # NoJob <=> disk[j] \in Job
BY PresentIsJob, JobIsPresent DEF TypeOK, NoJob

LEMMA MovedKeeps ==
    ASSUME NEW x \in Job, NEW s \in Active \cup Terminal, now \in Nat
    PROVE  /\ SameOrigin(Moved(x, s), x) /\ Moved(x, s).seq = x.seq + 1
           /\ Moved(x, s).cancel = x.cancel
BY DEF Moved, SameOrigin, Job

LEMMA SaveCases ==
    ASSUME TypeOK, NEW files \in [JobIds -> Job \cup {NoJob}], NEW j \in JobIds,
           NEW job \in Job, NEW saved \in BOOLEAN, Save(files, j, job, saved)
    PROVE  /\ \A i \in JobIds : disk'[i] = IF i = j /\ saved THEN job ELSE files[i]
           /\ saveFaults' = 0 => saved /\ saveFaults = 0
BY DEF Save, TypeOK

\* Nothing new is known and keys stay.
LEMMA NothingNew ==
    ASSUME RecordInv, unlinkFaults' = 0 => unlinkFaults = 0,
           Known' \subseteq Known, \A j \in Known' : KeyOf(j)' = KeyOf(j)
    PROVE  KnownAreFew' /\ KnownKeysDiffer'
<1>1. ASSUME unlinkFaults' = 0 PROVE Cardinality(Known') <= MaxJobs
  <2>1. Cardinality(Known) <= MaxJobs
    BY <1>1 DEF RecordInv, KnownAreFew
  <2>2. Cardinality(Known') <= Cardinality(Known) /\ Cardinality(Known') \in Nat
    BY KnownIsFinite, FS_Subset, FS_CardinalityType
  <2> QED
    BY <2>1, <2>2, KnownIsFinite, QueueAssumption
<1>2. KnownKeysDiffer'
  BY DEF RecordInv, KnownKeysDiffer
<1> QED
  BY <1>1, <1>2 DEF KnownAreFew

--------------------------------------------------------------------------------
(* The shapes of a step.                                                   *)

\* Neither records nor files change.
Unmoved ==
    /\ UNCHANGED <<jobs, disk, saveFaults, unlinkFaults, used, answered>>
    /\ \/ UNCHANGED <<phase, unread>>
       \/ phase = "loading" /\ phase' = "up" /\ unread = {} /\ unread' = {}
       \/ phase = "down" /\ phase' = "loading" /\ unread' = {j \in JobIds : disk[j].status # "ABSENT"}

LEMMA UnmovedKept == ASSUME TypeOK, RecordInv, Unmoved PROVE RecordsKept
<1> USE DEF RecordInv, Unmoved
<1>1. OnlyReadIsLoaded'
  BY DEF OnlyReadIsLoaded, TypeOK
<1>2. RecordsAgree'
  <2>1. CASE phase' = phase /\ unread' = unread
    BY <2>1 DEF RecordsAgree
  <2>2. CASE phase = "loading" /\ phase' = "up" /\ unread' = {} /\ unread = {}
    BY <2>2 DEF RecordsAgree
  <2>3. CASE phase = "down" /\ unread' = {j \in JobIds : disk[j].status # "ABSENT"}
    BY <2>3, RecordIsPresent DEF RecordsAgree, OnlyReadIsLoaded
  <2> QED
    BY <2>1, <2>2, <2>3
<1>3. AnswersAgree'
  BY DEF AnswersAgree
<1>4. KnownAreFew' /\ KnownKeysDiffer'
  BY DEF KnownAreFew, KnownKeysDiffer, Known, KeyOf
<1>5. Advances
  BY DEF Advances, FinalInFile, CountedInMemory
<1>6. FilesAdvance
  BY DEF FilesAdvance
<1> QED
  BY <1>1, <1>2, <1>3, <1>4, <1>5, <1>6 DEF RecordsKept

\* A record of an unfinished job changes, with or without its file.
Rewrites(j, job, saved) ==
    /\ phase = "up" /\ UNCHANGED <<phase, unread, unlinkFaults, used, answered>>
    /\ jobs[j].status \in Active
    /\ SameOrigin(job, jobs[j]) /\ job.seq = jobs[j].seq + 1
    /\ jobs' = [jobs EXCEPT ![j] = job] /\ Save(disk, j, job, saved)

LEMMA RewritesKept ==
    ASSUME TypeOK, RecordInv, NEW j \in JobIds, NEW job \in Job, NEW saved \in BOOLEAN,
           Rewrites(j, job, saved)
    PROVE  RecordsKept
<1> USE DEF RecordInv, Rewrites
<1>1. /\ \A i \in JobIds : jobs'[i] = IF i = j THEN job ELSE jobs[i]
      /\ \A i \in JobIds : disk'[i] = IF i = j /\ saved THEN job ELSE disk[i]
      /\ saveFaults' = 0 => saved /\ saveFaults = 0
  <2>1. \A i \in JobIds : jobs'[i] = IF i = j THEN job ELSE jobs[i]
    BY DEF TypeOK
  <2>2. disk \in [JobIds -> Job \cup {NoJob}]
    BY DEF TypeOK
  <2> QED
    BY <2>1, <2>2, SaveCases
<1>2. jobs[j] # NoJob /\ job # NoJob /\ disk[j].status \notin Terminal
  BY JobIsPresent DEF RecordsAgree, NoJob, Active, Terminal
<1>3. OnlyReadIsLoaded'
  BY <1>1, <1>2 DEF OnlyReadIsLoaded
<1>4. RecordsAgree'
  BY <1>1, <1>2 DEF RecordsAgree, SameOrigin
<1>5. AnswersAgree'
  BY <1>1, <1>2 DEF AnswersAgree, SameOrigin
<1>6. Known' \subseteq Known /\ \A i \in Known' : KeyOf(i)' = KeyOf(i)
  BY <1>1, <1>2 DEF Known, KeyOf, SameOrigin
<1>7. Advances
  BY <1>1, <1>2 DEF Advances, FinalInFile, CountedInMemory
<1>8. FilesAdvance
  <2>1. jobs[j].seq \in Nat
    BY <1>2 DEF TypeOK, Job
  <2> QED
    BY <1>1, <1>2, <2>1 DEF FilesAdvance, RecordsAgree, TypeOK
<1> QED
  BY <1>3, <1>4, <1>5, <1>6, <1>7, <1>8, NothingNew DEF RecordsKept

\* Terminal records go; their files go with them or could not be removed.
Removes(gone, stuck) ==
    /\ phase = "up" /\ UNCHANGED <<phase, unread, saveFaults, used>>
    /\ jobs' = Forgotten(gone) /\ disk' = Unlinked(gone, stuck)
    /\ unlinkFaults' = unlinkFaults + Cardinality(stuck)

\* A client is answered with a job that it asked for.
Answers ==
    \A j \in JobIds :
        \/ answered'[j] = answered[j]
        \/ jobs[j] # NoJob /\ answered'[j] = answered[j] \cup {jobs[j].body}

LEMMA StuckIsCounted ==
    ASSUME TypeOK, NEW gone \in SUBSET JobIds, NEW stuck \in SUBSET gone,
           unlinkFaults' = unlinkFaults + Cardinality(stuck), unlinkFaults' = 0
    PROVE  unlinkFaults = 0 /\ stuck = {}
<1>1. IsFiniteSet(stuck)
  BY QueueAssumption, FS_Subset
<1>2. Cardinality(stuck) \in Nat /\ (Cardinality(stuck) = 0 <=> stuck = {})
  BY <1>1, FS_CardinalityType, FS_EmptySet
<1> QED
  BY <1>2 DEF TypeOK

LEMMA RemovesKept ==
    ASSUME TypeOK, UnusedIsFresh, RecordInv, NEW gone \in SUBSET Finished, NEW stuck \in SUBSET gone,
           Removes(gone, stuck), Answers
    PROVE  RecordsKept
<1> USE DEF RecordInv, Removes
<1>1. /\ \A i \in JobIds : jobs'[i] = IF i \in gone THEN NoJob ELSE jobs[i]
      /\ \A i \in JobIds : disk'[i] = IF i \in gone \ stuck THEN NoJob ELSE disk[i]
      /\ gone \in SUBSET JobIds
  BY DEF Forgotten, Unlinked, Finished
<1>2. unlinkFaults' = 0 => unlinkFaults = 0 /\ stuck = {}
  BY <1>1, StuckIsCounted
<1>3. OnlyReadIsLoaded'
  BY <1>1 DEF OnlyReadIsLoaded
<1>4. RecordsAgree'
  BY <1>1, <1>2 DEF RecordsAgree
<1>5. AnswersAgree'
  <2> SUFFICES ASSUME NEW i \in JobIds
               PROVE  /\ jobs'[i] # NoJob => answered'[i] \subseteq {jobs'[i].body}
                      /\ disk'[i] # NoJob => answered'[i] \subseteq {disk'[i].body}
                      /\ i \notin used' => answered'[i] = {}
    BY DEF AnswersAgree
  <2>1. CASE answered'[i] = answered[i]
    BY <1>1, <2>1 DEF AnswersAgree
  <2>2. CASE jobs[i] # NoJob /\ answered'[i] = answered[i] \cup {jobs[i].body}
    BY <1>1, <2>2 DEF AnswersAgree, RecordsAgree, SameOrigin, UnusedIsFresh
  <2> QED
    BY <2>1, <2>2 DEF Answers
<1>6. Known' \subseteq Known
  BY <1>1 DEF Known
<1>7. \A i \in Known' : KeyOf(i)' = KeyOf(i)
  BY <1>1 DEF Known, KeyOf, RecordsAgree, SameOrigin
<1>8. Advances
  BY <1>1 DEF Advances, FinalInFile, CountedInMemory, Finished
<1>9. FilesAdvance
  BY <1>1 DEF FilesAdvance, TypeOK
<1> QED
  BY <1>2, <1>3, <1>4, <1>5, <1>6, <1>7, <1>8, <1>9, NothingNew DEF RecordsKept

\* One job comes, of a key that no other has, where there is room for one.
LEMMA AddsKept ==
    ASSUME TypeOK, UnusedIsFresh, RecordInv, phase = "up", UNCHANGED <<phase, unread>>,
           NEW gone \in SUBSET Finished, NEW stuck \in SUBSET gone,
           unlinkFaults' = unlinkFaults + Cardinality(stuck),
           NEW k \in Keys \cup {NoKey}, NEW b \in Bodies, SubmitAccepted(gone, stuck, k, b),
           Cardinality(Retained \ gone) < MaxJobs,
           k # NoKey => \A i \in Retained \ gone : jobs[i].key # k
    PROVE  RecordsKept
<1> DEFINE new == NewJob(k, b)
<1>1. /\ new \in Job /\ new # NoJob /\ new.key = k /\ new.body = b /\ new.status = "QUEUED"
  BY NewJobType, JobIsPresent DEF NewJob, NoJob, TypeOK
<1> HIDE DEF new
<1>2. PICK j \in JobIds \ used, saved \in BOOLEAN :
        /\ jobs' = [Forgotten(gone) EXCEPT ![j] = new]
        /\ Save(Unlinked(gone, stuck), j, new, saved)
        /\ used' = used \cup {j}
        /\ answered' = IF saved THEN [answered EXCEPT ![j] = @ \cup {b}] ELSE answered
  BY DEF SubmitAccepted, new
<1>3. \A i \in JobIds : jobs'[i] = IF i = j THEN new ELSE IF i \in gone THEN NoJob ELSE jobs[i]
  BY <1>2 DEF Forgotten
<1>4. /\ \A i \in JobIds :
            disk'[i] = IF i = j /\ saved THEN new ELSE IF i \in gone \ stuck THEN NoJob ELSE disk[i]
      /\ saveFaults' = 0 => saved /\ saveFaults = 0
  <2>1. Unlinked(gone, stuck) \in [JobIds -> Job \cup {NoJob}]
    BY DEF Unlinked, TypeOK
  <2>2. \A i \in JobIds : disk'[i] = IF i = j /\ saved THEN new ELSE Unlinked(gone, stuck)[i]
    BY <1>1, <1>2, <2>1, SaveCases
  <2>3. saveFaults' = 0 => saved /\ saveFaults = 0
    BY <1>1, <1>2, <2>1, SaveCases
  <2> QED
    BY <2>2, <2>3 DEF Unlinked
<1>5. \A i \in JobIds : answered'[i] = IF i = j /\ saved THEN answered[i] \cup {b} ELSE answered[i]
  BY <1>2 DEF TypeOK
<1>6. /\ jobs[j] = NoJob /\ disk[j] = NoJob /\ answered[j] = {}
      /\ gone \in SUBSET JobIds /\ j \notin gone
  BY DEF UnusedIsFresh, RecordInv, AnswersAgree, Finished, NoJob, Terminal
<1>7. unlinkFaults' = 0 => unlinkFaults = 0 /\ stuck = {}
  BY <1>6, StuckIsCounted
<1>8. OnlyReadIsLoaded'
  BY <1>3 DEF RecordInv, OnlyReadIsLoaded
<1>9. RecordsAgree'
  <2> SUFFICES ASSUME NEW i \in JobIds
               PROVE  /\ jobs'[i] # NoJob /\ disk'[i] # NoJob =>
                           /\ SameOrigin(jobs'[i], disk'[i])
                           /\ disk'[i].status \in Terminal => jobs'[i] = disk'[i]
                      /\ jobs'[i] # NoJob /\ (phase' = "loading" \/ saveFaults' = 0) => disk'[i] = jobs'[i]
                      /\ disk'[i] # NoJob /\ unlinkFaults' = 0 /\ phase' # "down" /\ i \notin unread'
                           => jobs'[i] # NoJob
    BY DEF RecordsAgree, SameOrigin
  <2>1. CASE i = j
    BY <1>1, <1>3, <1>4, <1>6, <2>1 DEF SameOrigin
  <2>2. CASE i # j
    BY <1>3, <1>4, <1>6, <1>7, <2>2 DEF RecordInv, RecordsAgree, SameOrigin
  <2> QED
    BY <2>1, <2>2
<1>10. AnswersAgree'
  BY <1>1, <1>2, <1>3, <1>4, <1>5, <1>6 DEF RecordInv, AnswersAgree
<1>11. ASSUME unlinkFaults' = 0
       PROVE  Known' = (Retained \ gone) \cup {j} /\ j \notin Retained
  <2>1. Known = Retained
    BY <1>7, <1>11, RecordIsPresent
       DEF Known, Retained, RecordInv, RecordsAgree, OnlyReadIsLoaded
  <2>2. \A i \in JobIds : i # j =>
          (jobs'[i] # NoJob \/ disk'[i] # NoJob <=> i \in Known \ gone)
    BY <1>3, <1>4, <1>6, <1>7, <1>11 DEF Known
  <2> QED
    BY <1>1, <1>3, <1>6, <2>1, <2>2 DEF Known, Retained, NoJob
<1>12. KnownAreFew'
  <2>1. IsFiniteSet(Retained \ gone)
    BY QueueAssumption, FS_Subset DEF Retained
  <2>2. /\ Cardinality((Retained \ gone) \cup {j}) = Cardinality(Retained \ gone) + 1
        /\ Cardinality(Retained \ gone) \in Nat
    <3>1. j \notin Retained \ gone
      BY <1>6 DEF Retained, NoJob
    <3> QED
      BY <2>1, <3>1, FS_AddElement, FS_CardinalityType
  <2>3. Cardinality((Retained \ gone) \cup {j}) <= MaxJobs
    BY <2>2, QueueAssumption
  <2> QED
    BY <1>11, <2>3 DEF KnownAreFew
<1>13. KnownKeysDiffer'
  <2>1. \A i \in Retained \ gone : KeyOf(i)' = jobs[i].key /\ KeyOf(i) = jobs[i].key /\ i \in Known
    BY <1>3, <1>6, RecordIsPresent DEF KeyOf, Retained, Known, NoJob
  <2>2. KeyOf(j)' = k
    BY <1>1, <1>3 DEF KeyOf
  <2> QED
    BY <1>7, <1>11, <2>1, <2>2 DEF KnownKeysDiffer, RecordInv
<1>14. Advances
  BY <1>1, <1>3, <1>4, <1>6 DEF Advances, FinalInFile, CountedInMemory, Finished, NoJob, Terminal
<1>15. FilesAdvance
  BY <1>2, <1>4, <1>6 DEF FilesAdvance, TypeOK
<1> QED
  BY <1>8, <1>9, <1>10, <1>12, <1>13, <1>14, <1>15 DEF RecordsKept, RecordInv

\* The process ends, perhaps in a write that raised.
Ends ==
    /\ phase' = "down" /\ unread' = {} /\ jobs' = Blank
    /\ saveFaults' = saveFaults \/ saveFaults' # 0
    /\ UNCHANGED <<disk, unlinkFaults, used, answered>>

LEMMA EndsKept == ASSUME TypeOK, RecordInv, Ends PROVE RecordsKept
<1> USE DEF RecordInv, Ends
<1>1. \A i \in JobIds : jobs'[i] = NoJob
  BY DEF Blank
<1>2. OnlyReadIsLoaded'
  BY <1>1 DEF OnlyReadIsLoaded
<1>3. RecordsAgree'
  BY <1>1 DEF RecordsAgree
<1>4. AnswersAgree'
  BY <1>1 DEF AnswersAgree
<1>5. Known' \subseteq Known /\ \A i \in Known' : KeyOf(i)' = KeyOf(i)
  BY <1>1 DEF Known, KeyOf, RecordsAgree, SameOrigin
<1>6. Advances
  BY DEF Advances, FinalInFile, CountedInMemory
<1>7. FilesAdvance
  BY DEF FilesAdvance
<1> QED
  BY <1>2, <1>3, <1>4, <1>5, <1>6, <1>7, NothingNew DEF RecordsKept

\* A start reads a file: it is removed, or its record is in memory as it is in the file.
Reads(j) ==
    /\ phase = "loading" /\ phase' = phase /\ j \in unread /\ unread' = unread \ {j}
    /\ disk[j] # NoJob /\ UNCHANGED <<used, answered>>
    /\ \A i \in JobIds \ {j} : jobs'[i] = jobs[i] /\ disk'[i] = disk[i]
    /\ saveFaults' = 0 => saveFaults = 0
    /\ unlinkFaults' = 0 => unlinkFaults = 0
    /\ \/ /\ jobs'[j] = NoJob /\ disk'[j] \in {disk[j], NoJob}
          /\ unlinkFaults' = 0 => disk'[j] = NoJob
       \/ jobs'[j] = disk[j] /\ disk'[j] = disk[j]
       \/ /\ disk[j].status \in Active /\ disk'[j] # NoJob /\ SameOrigin(disk'[j], disk[j])
          /\ disk'[j].seq >= disk[j].seq /\ jobs'[j] = disk'[j]

LEMMA ReadsKept ==
    ASSUME TypeOK, RecordInv, NEW j \in JobIds, Reads(j) PROVE RecordsKept
<1> USE DEF RecordInv, Reads
<1>1. jobs[j] = NoJob
  BY DEF OnlyReadIsLoaded
<1>2. OnlyReadIsLoaded'
  BY <1>1 DEF OnlyReadIsLoaded
<1>3. RecordsAgree'
  <2> SUFFICES ASSUME NEW i \in JobIds
               PROVE  /\ jobs'[i] # NoJob /\ disk'[i] # NoJob =>
                           /\ SameOrigin(jobs'[i], disk'[i])
                           /\ disk'[i].status \in Terminal => jobs'[i] = disk'[i]
                      /\ jobs'[i] # NoJob /\ (phase' = "loading" \/ saveFaults' = 0) => disk'[i] = jobs'[i]
                      /\ disk'[i] # NoJob /\ unlinkFaults' = 0 /\ phase' # "down" /\ i \notin unread'
                           => jobs'[i] # NoJob
    BY DEF RecordsAgree, SameOrigin
  <2>1. CASE i = j
    BY <1>1, <2>1 DEF SameOrigin
  <2>2. CASE i # j
    BY <2>2 DEF RecordsAgree, SameOrigin
  <2> QED
    BY <2>1, <2>2
<1>4. AnswersAgree'
  <2>1. \A i \in JobIds \ {j} : /\ jobs'[i] # NoJob => answered'[i] \subseteq {jobs'[i].body}
                               /\ disk'[i] # NoJob => answered'[i] \subseteq {disk'[i].body}
    BY DEF AnswersAgree
  <2>2. /\ jobs'[j] # NoJob => answered'[j] \subseteq {jobs'[j].body}
        /\ disk'[j] # NoJob => answered'[j] \subseteq {disk'[j].body}
    BY DEF AnswersAgree, SameOrigin
  <2> QED
    BY <2>1, <2>2 DEF AnswersAgree
<1>5. Known' \subseteq Known /\ \A i \in Known' : KeyOf(i)' = KeyOf(i)
  <2>1. \A i \in JobIds \ {j} : (i \in Known' <=> i \in Known) /\ KeyOf(i)' = KeyOf(i)
    BY DEF Known, KeyOf
  <2>2. j \in Known /\ (j \in Known' => KeyOf(j)' = KeyOf(j))
    BY <1>1 DEF Known, KeyOf, SameOrigin
  <2> QED
    BY <2>1, <2>2 DEF Known
<1>6. Advances
  BY DEF Advances, FinalInFile, CountedInMemory, Active, Terminal
<1>7. FilesAdvance
  BY DEF FilesAdvance, TypeOK
<1> QED
  BY <1>2, <1>3, <1>4, <1>5, <1>6, <1>7, NothingNew DEF RecordsKept

--------------------------------------------------------------------------------
(* Step by step.                                                           *)

LEMMA SubmitRecords ==
    ASSUME ExecutionInv, RecordInv, NEW k \in Keys \cup {NoKey}, NEW b \in Bodies, Submit(k, b)
    PROVE  RecordsKept
<1> DEFINE keep == Retained \ Expired
<1> DEFINE match == SameKey(k, keep)
<1>1. PICK victims \in SUBSET keep : \E stuck \in Stuck(Expired \cup victims) :
        /\ unlinkFaults' = unlinkFaults + Cardinality(stuck)
        /\ victims \in SUBSET Finished
        /\ \/ SubmitRefused(Expired \cup victims, stuck) /\ (Replay(match, b) \/ UNCHANGED answered)
           \/ /\ SubmitAccepted(Expired \cup victims, stuck, k, b)
              /\ k = NoKey \/ match = {}
              /\ ~AtCapacity(keep \ victims)
  <2>1. \A o \in Oldest(keep) : o \in Finished
    BY DEF Oldest
  <2> QED
    BY <2>1 DEF Submit
<1>2. PICK stuck \in Stuck(Expired \cup victims) :
        /\ unlinkFaults' = unlinkFaults + Cardinality(stuck)
        /\ \/ SubmitRefused(Expired \cup victims, stuck) /\ (Replay(match, b) \/ UNCHANGED answered)
           \/ /\ SubmitAccepted(Expired \cup victims, stuck, k, b)
              /\ k = NoKey \/ match = {}
              /\ ~AtCapacity(keep \ victims)
  BY <1>1
<1> DEFINE gone == Expired \cup victims
<1>3. gone \in SUBSET Finished /\ stuck \in SUBSET gone
  BY <1>1, <1>2 DEF Expired, Stuck
<1>4. phase = "up" /\ UNCHANGED <<phase, unread>>
  BY DEF Submit
<1>5. TypeOK /\ UnusedIsFresh
  BY DEF ExecutionInv
<1>6. CASE SubmitRefused(gone, stuck) /\ (Replay(match, b) \/ UNCHANGED answered)
  <2>1. Removes(gone, stuck)
    BY <1>2, <1>4, <1>6 DEF SubmitRefused, Removes
  <2>2. Answers
    <3>1. CASE UNCHANGED answered
      BY <3>1 DEF Answers
    <3>2. CASE Replay(match, b)
      <4>1. PICK j \in match : answered' = IF jobs[j].body = b
                                          THEN [answered EXCEPT ![j] = @ \cup {b}] ELSE answered
        BY <3>2 DEF Replay
      <4>2. jobs[j] # NoJob
        BY <1>5, <4>1, RecordIsPresent DEF SameKey, Retained
      <4> QED
        BY <1>5, <4>1, <4>2 DEF Answers, TypeOK
    <3> QED
      BY <1>6, <3>1, <3>2
  <2> QED
    BY <1>3, <1>5, <2>1, <2>2, RemovesKept
<1>7. CASE /\ SubmitAccepted(gone, stuck, k, b)
           /\ k = NoKey \/ match = {}
           /\ ~AtCapacity(keep \ victims)
  <2>1. Retained \ gone = keep \ victims
    OBVIOUS
  <2>2. Cardinality(Retained \ gone) < MaxJobs
    <3>1. IsFiniteSet(Retained \ gone)
      BY QueueAssumption, FS_Subset DEF Retained
    <3>2. Cardinality(Retained \ gone) \in Nat
      BY <3>1, FS_CardinalityType
    <3> QED
      BY <1>7, <2>1, <3>2, QueueAssumption DEF AtCapacity
  <2>3. k # NoKey => \A i \in Retained \ gone : jobs[i].key # k
    BY <1>7 DEF SameKey
  <2> QED
    BY <1>2, <1>3, <1>4, <1>5, <1>7, <2>2, <2>3, AddsKept
<1> QED
  BY <1>2, <1>6, <1>7

LEMMA CancelRecords ==
    ASSUME ExecutionInv, RecordInv, NEW j \in JobIds, CancelQueued(j) \/ CancelRunning(j)
    PROVE  RecordsKept
<1>1. TypeOK /\ now \in Nat
  BY DEF ExecutionInv, TypeOK
<1>2. jobs[j].status \in Active /\ jobs[j] \in Job
  BY <1>1, PresentIsJob DEF CancelQueued, CancelRunning, Cancellable, Active, TypeOK
<1>3. CASE CancelQueued(j)
  <2> DEFINE job == Moved(jobs[j], "CANCELLED")
  <2>1. job \in Job /\ SameOrigin(job, jobs[j]) /\ job.seq = jobs[j].seq + 1
    BY <1>1, <1>2, MovedType, MovedKeeps DEF Terminal
  <2>2. PICK saved \in BOOLEAN : Save(disk, j, job, saved)
    BY <1>3 DEF CancelQueued
  <2>3. Rewrites(j, job, saved)
    BY <1>2, <1>3, <2>1, <2>2 DEF CancelQueued, Rewrites
  <2> QED
    BY <1>1, <2>1, <2>3, RewritesKept
<1>4. CASE CancelRunning(j)
  <2> DEFINE moved == Moved(jobs[j], "RUNNING")
  <2> DEFINE job == [moved EXCEPT !.cancel = "REQUESTED"]
  <2>1. moved \in Job /\ SameOrigin(moved, jobs[j]) /\ moved.seq = jobs[j].seq + 1
    BY <1>1, <1>2, MovedType, MovedKeeps DEF Active
  <2>2. job = [Moved(jobs[j], "RUNNING") EXCEPT !.cancel = "REQUESTED"]
    OBVIOUS
  <2> HIDE DEF moved
  <2>3. job \in Job /\ SameOrigin(job, jobs[j]) /\ job.seq = jobs[j].seq + 1
    BY <2>1 DEF Job, SameOrigin
  <2> HIDE DEF job
  <2>4. PICK saved \in BOOLEAN : Save(disk, j, job, saved)
    BY <1>4, <2>2 DEF CancelRunning
  <2>5. Rewrites(j, job, saved)
    BY <1>2, <1>4, <2>2, <2>3, <2>4 DEF CancelRunning, Rewrites, history
  <2> QED
    BY <1>1, <2>3, <2>5, RewritesKept
<1> QED
  BY <1>3, <1>4

LEMMA WorkerTakesRecords == ASSUME ExecutionInv, RecordInv, WorkerTakes PROVE RecordsKept
<1> DEFINE j == Head(queue)
<1> DEFINE job == Moved(jobs[j], "RUNNING")
<1>1. TypeOK /\ now \in Nat
  BY DEF ExecutionInv, TypeOK
<1>2. j \in JobIds
  BY DEF WorkerTakes, ExecutionInv, TypeOK
<1>3. jobs[j].status = "QUEUED"
  BY DEF WorkerTakes, Runnable
<1> HIDE DEF j
<1>4. jobs[j].status \in Active /\ jobs[j] \in Job
  BY <1>1, <1>2, <1>3, PresentIsJob DEF Active, TypeOK
<1>5. job \in Job /\ SameOrigin(job, jobs[j]) /\ job.seq = jobs[j].seq + 1
  BY <1>1, <1>4, MovedType, MovedKeeps DEF Active
<1>6. PICK saved \in BOOLEAN : Save(disk, j, job, saved)
  BY DEF WorkerTakes, j
<1>7. Rewrites(j, job, saved)
  BY <1>4, <1>5, <1>6 DEF WorkerTakes, Rewrites, workerFrame, j
<1> QED
  BY <1>1, <1>2, <1>5, <1>7, RewritesKept

LEMMA WorkerRecordsRecords ==
    ASSUME ExecutionInv, RecordInv, WorkerRecordsResult \/ WorkerRecordsFailure
    PROVE  RecordsKept
<1>1. TypeOK /\ now \in Nat /\ outcome \in TaskResults \cup {"NONE", "RAISED"}
  BY DEF ExecutionInv, TypeOK
<1>2. current \in JobIds
  BY DEF WorkerRecordsResult, WorkerRecordsFailure, ExecutionInv, WorkerHoldsJob
<1>3. CASE WorkerRecordsResult
  <2> DEFINE moved == Moved(jobs[current], JobStatusOf(outcome))
  <2> DEFINE job == [moved EXCEPT !.task = outcome]
  <2>1. jobs[current].status \in Active /\ jobs[current] \in Job /\ outcome \in TaskResults
    BY <1>1, <1>2, <1>3, PresentIsJob
       DEF WorkerRecordsResult, ExecutionInv, WorkerHoldsJob, Active, TypeOK
  <2>2. JobStatusOf(outcome) \in Active \cup Terminal
    BY DEF JobStatusOf, Terminal
  <2>3. moved \in Job /\ SameOrigin(moved, jobs[current]) /\ moved.seq = jobs[current].seq + 1
    BY <1>1, <2>1, <2>2, MovedType, MovedKeeps
  <2>4. job = [Moved(jobs[current], JobStatusOf(outcome)) EXCEPT !.task = outcome]
    OBVIOUS
  <2> HIDE DEF moved
  <2>5. job \in Job /\ SameOrigin(job, jobs[current]) /\ job.seq = jobs[current].seq + 1
    BY <2>1, <2>3 DEF Job, SameOrigin
  <2> HIDE DEF job
  <2>6. PICK saved \in BOOLEAN : Save(disk, current, job, saved)
    BY <1>3, <2>4 DEF WorkerRecordsResult
  <2>7. Rewrites(current, job, saved)
    BY <1>3, <2>1, <2>4, <2>5, <2>6 DEF WorkerRecordsResult, Rewrites, workerFrame, history
  <2> QED
    BY <1>1, <1>2, <2>5, <2>7, RewritesKept
<1>4. CASE WorkerRecordsFailure /\ StillRunning
  <2> DEFINE job == Moved(jobs[current], "FAILED")
  <2>1. jobs[current].status \in Active /\ jobs[current] \in Job
    BY <1>1, <1>2, <1>4, PresentIsJob DEF StillRunning, Active, TypeOK
  <2>2. job \in Job /\ SameOrigin(job, jobs[current]) /\ job.seq = jobs[current].seq + 1
    BY <1>1, <2>1, MovedType, MovedKeeps DEF Terminal
  <2>3. PICK saved \in BOOLEAN : Save(disk, current, job, saved)
    BY <1>4 DEF WorkerRecordsFailure
  <2>4. Rewrites(current, job, saved)
    BY <1>4, <2>1, <2>2, <2>3 DEF WorkerRecordsFailure, Rewrites, workerFrame, history
  <2> QED
    BY <1>1, <1>2, <2>2, <2>4, RewritesKept
<1>5. CASE WorkerRecordsFailure /\ ~StillRunning
  <2>1. Unmoved
    BY <1>5 DEF WorkerRecordsFailure, Unmoved, workerFrame, history
  <2> QED
    BY <1>1, <2>1, UnmovedKept
<1> QED
  BY <1>3, <1>4, <1>5

LEMMA LoadFileRecords ==
    ASSUME ExecutionInv, RecordInv, NEW j \in JobIds, LoadFile(j) PROVE RecordsKept
<1>1. TypeOK /\ now \in Nat /\ jobs \in [JobIds -> Job \cup {NoJob}]
      /\ disk \in [JobIds -> Job \cup {NoJob}] /\ saveFaults \in Nat /\ unlinkFaults \in Nat
  BY DEF ExecutionInv, TypeOK
<1>2. phase = "loading" /\ j \in unread /\ UNCHANGED <<used, answered>> /\ jobs[j] = NoJob
  BY DEF LoadFile, history, RecordInv, OnlyReadIsLoaded
<1>3. CASE /\ disk[j].status \in Terminal
           /\ \E stuck \in Stuck({j}) :
                 /\ disk' = Unlinked({j}, stuck)
                 /\ unlinkFaults' = unlinkFaults + Cardinality(stuck)
           /\ unread' = unread \ {j} /\ UNCHANGED <<volatile, phase, saveFaults>>
  <2>1. PICK stuck \in SUBSET {j} : /\ disk' = Unlinked({j}, stuck)
                                   /\ unlinkFaults' = unlinkFaults + Cardinality(stuck)
    BY <1>3 DEF Stuck
  <2>2. disk[j] # NoJob /\ UNCHANGED jobs
    BY <1>3 DEF NoJob, Terminal, volatile
  <2>3. unlinkFaults' = 0 => unlinkFaults = 0 /\ stuck = {}
    BY <1>1, <2>1, StuckIsCounted
  <2>4. /\ \A i \in JobIds \ {j} : disk'[i] = disk[i]
        /\ disk'[j] \in {disk[j], NoJob}
        /\ stuck = {} => disk'[j] = NoJob
    BY <2>1 DEF Unlinked
  <2>5. Reads(j)
    BY <1>2, <1>3, <2>2, <2>3, <2>4 DEF Reads
  <2> QED
    BY <1>1, <2>5, ReadsKept
<1>4. CASE /\ disk[j].status \in Terminal /\ jobs' = [jobs EXCEPT ![j] = disk[j]]
           /\ unread' = unread \ {j}
           /\ UNCHANGED <<disk, phase, saveFaults, unlinkFaults>>
  <2>1. disk[j] # NoJob
    BY <1>4 DEF NoJob, Terminal
  <2>2. jobs'[j] = disk[j] /\ \A i \in JobIds \ {j} : jobs'[i] = jobs[i]
    BY <1>1, <1>4
  <2>3. Reads(j)
    BY <1>2, <1>4, <2>1, <2>2 DEF Reads
  <2> QED
    BY <1>1, <2>3, ReadsKept
<1>5. CASE disk[j].status \in Active /\ LoadActive(j) /\ UNCHANGED unlinkFaults
  <2> DEFINE job == Moved(disk[j], "INTERRUPTED")
  <2>1. disk[j] \in Job /\ disk[j] # NoJob
    BY <1>1, <1>5 DEF NoJob, Active
  <2>2. job \in Job /\ SameOrigin(job, disk[j]) /\ job.seq >= disk[j].seq
    <3>1. job \in Job /\ SameOrigin(job, disk[j]) /\ job.seq = disk[j].seq + 1
      BY <1>1, <2>1, MovedType, MovedKeeps DEF Terminal
    <3>2. disk[j].seq \in Nat
      BY <2>1 DEF Job
    <3> QED
      BY <3>1, <3>2
  <2>3. job # NoJob
    BY <2>2, JobIsPresent DEF NoJob
  <2> HIDE DEF job
  <2>4. CASE /\ Save(disk, j, job, TRUE) /\ jobs' = [jobs EXCEPT ![j] = job]
             /\ unread' = unread \ {j} /\ UNCHANGED phase
    <3>1. /\ disk'[j] = job /\ \A i \in JobIds \ {j} : disk'[i] = disk[i]
          /\ saveFaults' = saveFaults
      BY <1>1, <2>4 DEF Save
    <3>2. jobs'[j] = job /\ \A i \in JobIds \ {j} : jobs'[i] = jobs[i]
      BY <1>1, <2>4
    <3>3. Reads(j)
      BY <1>2, <1>5, <2>1, <2>2, <2>3, <2>4, <3>1, <3>2 DEF Reads
    <3> QED
      BY <1>1, <3>3, ReadsKept
  <2>5. CASE Save(disk, j, job, FALSE) /\ phase' = "down" /\ unread' = {} /\ NoProcess
    <3>1. UNCHANGED disk /\ saveFaults' # 0
      BY <1>1, <2>5 DEF Save
    <3>2. Ends
      BY <1>2, <1>5, <2>5, <3>1 DEF Ends, NoProcess
    <3> QED
      BY <1>1, <3>2, EndsKept
  <2> QED
    BY <1>5, <2>4, <2>5 DEF LoadActive, job
<1> QED
  BY <1>3, <1>4, <1>5 DEF LoadFile

\* Everything else leaves records and files alone, or ends the process.
LEMMA OtherRecords ==
    ASSUME ExecutionInv, RecordInv,
           \/ Close \/ WorkerSleeps \/ WorkerStops \/ WorkerSkips \/ ExecutorReturns
           \/ WorkerDropsControl \/ Boot \/ WorkerThreadStarts \/ Tick \/ UNCHANGED vars \/ Crash
    PROVE  RecordsKept
<1>1. TypeOK
  BY DEF ExecutionInv
<1>2. CASE Crash
  <2>1. Ends
    BY <1>2 DEF Crash, NoProcess, Ends, history
  <2> QED
    BY <1>1, <2>1, EndsKept
<1>3. CASE Close \/ WorkerSleeps \/ WorkerStops \/ WorkerSkips \/ ExecutorReturns \/ WorkerDropsControl
  <2>1. Unmoved
    BY <1>3 DEF Close, WorkerSleeps, WorkerStops, WorkerSkips, ExecutorReturns,
                WorkerDropsControl, Unmoved, workerFrame, history
  <2> QED
    BY <1>1, <2>1, UnmovedKept
<1>4. CASE Boot \/ WorkerThreadStarts \/ Tick \/ UNCHANGED vars
  <2>1. Unmoved
    BY <1>4 DEF Boot, WorkerThreadStarts, Tick, Unmoved, volatile, history, vars
  <2> QED
    BY <1>1, <2>1, UnmovedKept
<1> QED
  BY <1>2, <1>3, <1>4

LEMMA NextRecords == ASSUME ExecutionInv, RecordInv, [Next]_vars PROVE RecordsKept
BY SubmitRecords, CancelRecords, WorkerTakesRecords, WorkerRecordsRecords, LoadFileRecords,
   OtherRecords DEF Next, WorkerStep

LEMMA InitRecords == Init => RecordInv
<1> SUFFICES ASSUME Init PROVE RecordInv
  OBVIOUS
<1>1. \A j \in JobIds : jobs[j] = NoJob /\ disk[j] = NoJob /\ answered[j] = {}
  BY DEF Init, Blank
<1>2. Known = {}
  BY <1>1 DEF Known
<1>3. KnownAreFew
  BY <1>2, FS_EmptySet, QueueAssumption DEF KnownAreFew
<1> QED
  BY <1>1, <1>2, <1>3
     DEF Init, RecordInv, OnlyReadIsLoaded, RecordsAgree, AnswersAgree, KnownKeysDiffer

\* Memory and files agree record by record, and what the process knows stays
\* within its limit with one job per key, whatever fails, crashes or restarts.
THEOREM RecordInvariant == Spec => []RecordInv
<1>1. ExecutionInv /\ RecordInv /\ [Next]_vars => RecordInv'
  BY NextRecords DEF RecordsKept
<1> QED
  BY ExecutionInvariant, InitRecords, <1>1, PTL DEF Spec

\* Retention holds its limit however submissions, ends, expiry, crashes and
\* starts alternate, as long as removed files go (RetentionIsBounded).
THEOREM RetentionHolds == Spec => []RetentionIsBounded
<1>1. ExecutionInv /\ RecordInv => RetentionIsBounded
  <2> SUFFICES ASSUME ExecutionInv, RecordInv, unlinkFaults = 0
               PROVE  Cardinality(Retained) <= MaxJobs
    BY DEF RetentionIsBounded
  <2>1. Retained \subseteq Known
    BY RecordIsPresent DEF Retained, Known, ExecutionInv
  <2>2. Cardinality(Retained) <= Cardinality(Known) /\ Cardinality(Retained) \in Nat
    BY <2>1, KnownIsFinite, FS_Subset, FS_CardinalityType
  <2> QED
    BY <2>2, KnownIsFinite, QueueAssumption DEF RecordInv, KnownAreFew
<1> QED
  BY ExecutionInvariant, RecordInvariant, <1>1, PTL

\* A key names one job, and answers with it only a request of its body, through
\* any number of expiries, evictions and starts (KeysAreKept).
THEOREM KeysAreKeptHolds == Spec => []KeysAreKept
<1>1. ExecutionInv /\ RecordInv => KeysAreKept
  <2> SUFFICES ASSUME ExecutionInv, RecordInv PROVE KeysAreKept
    OBVIOUS
  <2>1. \A j \in Retained : j \in Known /\ jobs[j] # NoJob /\ KeyOf(j) = jobs[j].key
    BY RecordIsPresent DEF Retained, Known, KeyOf, ExecutionInv
  <2>2. OneJobPerKey
    BY <2>1 DEF OneJobPerKey, RecordInv, KnownKeysDiffer
  <2>3. AnswersMatchRequests
    BY <2>1 DEF AnswersMatchRequests, RecordInv, AnswersAgree, Retained
  <2> QED
    BY <2>2, <2>3 DEF KeysAreKept
<1> QED
  BY ExecutionInvariant, RecordInvariant, <1>1, PTL

\* Until a write or a removal fails the files are the memory, so a crash
\* between any two steps loses nothing that was acknowledged (FilesFollowMemory).
THEOREM FilesFollowMemoryHolds == Spec => []FilesFollowMemory
<1>1. ExecutionInv /\ RecordInv => FilesFollowMemory
  <2> SUFFICES ASSUME ExecutionInv, RecordInv, phase = "up", saveFaults = 0, unlinkFaults = 0
               PROVE  disk = jobs
    BY DEF FilesFollowMemory
  <2>1. \A j \in JobIds : disk[j] = jobs[j]
    BY DEF RecordInv, RecordsAgree, OnlyReadIsLoaded
  <2> QED
    BY <2>1 DEF ExecutionInv, TypeOK
<1> QED
  BY ExecutionInvariant, RecordInvariant, <1>1, PTL

\* A terminal file is only ever removed, and a change in memory raises the
\* sequence by one: no step does otherwise (RecordsOnlyAdvance).
THEOREM RecordsOnlyAdvanceHolds == Spec => RecordsOnlyAdvance
<1>1. ExecutionInv /\ RecordInv /\ [Next]_vars => [\A j \in JobIds : FinalInFile(j) /\ CountedInMemory(j)]_vars
  BY NextRecords DEF RecordsKept, Advances
<1> QED
  BY ExecutionInvariant, RecordInvariant, <1>1, PTL DEF Spec, RecordsOnlyAdvance

--------------------------------------------------------------------------------
(* The worker, its deque and its tokens.                                   *)

\* No id is in the deque twice, and every QUEUED job is in it.
QueueIsInOrder ==
    /\ \A i, k \in 1..Len(queue) : queue[i] = queue[k] => i = k
    /\ \A i \in 1..Len(queue) : queue[i] \in used
    /\ \A j \in Queued : \E i \in 1..Len(queue) : queue[i] = j

TokensAreTold ==
    \A j \in JobIds :
      /\ jobs[j].status = "QUEUED" => jobs[j].cancel = "NONE"
      /\ phase = "up" /\ jobs[j].status = "RUNNING" /\ jobs[j].cancel = "REQUESTED"
           => controls[j] = "cancelled"

WorkInv == RunningIsHeld /\ QueueIsInOrder /\ TokensAreTold /\ NoLostWakeup

Holding == {"executing", "returned", "failed", "dead"}

\* No job becomes active, and what runs is held as before.
Calm ==
    /\ \A i \in JobIds : jobs'[i].status \in Active => jobs'[i] = jobs[i]
    /\ used' = used
    /\ \/ queue' = queue
       \/ queue' = <<>> /\ \A i \in JobIds : jobs'[i].status # "QUEUED"
    /\ saveFaults' = 0 => saveFaults = 0
    /\ worker' = "waiting" => worker = "waiting" \/ Queued = {}
    /\ phase' = "up" => \A i \in JobIds : jobs'[i].status = "RUNNING" =>
            /\ phase = "up" /\ current' = current /\ worker' \in Holding
            /\ controls'[i] \in {controls[i], "cancelled"}

LEMMA CalmKept == ASSUME TypeOK, WorkInv, Calm PROVE WorkInv'
<1> USE DEF WorkInv, Calm
<1>1. RunningIsHeld'
  BY DEF RunningIsHeld, Active, Holding
<1>2. Queued' \subseteq Queued
  BY DEF Queued, Active
<1>3. QueueIsInOrder'
  <2>1. CASE queue' = queue
    BY <1>2, <2>1 DEF QueueIsInOrder
  <2>2. CASE queue' = <<>> /\ \A i \in JobIds : jobs'[i].status # "QUEUED"
    BY <2>2 DEF QueueIsInOrder, Queued
  <2> QED
    BY <2>1, <2>2
<1>4. TokensAreTold'
  BY DEF TokensAreTold, Active
<1>5. NoLostWakeup'
  BY <1>2 DEF NoLostWakeup
<1> QED
  BY <1>1, <1>3, <1>4, <1>5

LEMMA TailInOrder ==
    ASSUME QueueIsInOrder, TypeOK, queue # <<>>, queue' = Tail(queue), used' = used,
           Queued' \subseteq Queued \ {Head(queue)}
    PROVE  QueueIsInOrder'
<1>1. /\ Len(queue) \in Nat \ {0} /\ Len(queue') = Len(queue) - 1
      /\ \A i \in 1..Len(queue') : queue'[i] = queue[i + 1]
      /\ Head(queue) = queue[1]
  BY DEF TypeOK
<1>2. \A i \in 1..Len(queue') : i + 1 \in 1..Len(queue)
  BY <1>1
<1>3. \A i, k \in 1..Len(queue') : queue'[i] = queue'[k] => i = k
  <2> SUFFICES ASSUME NEW i \in 1..Len(queue'), NEW k \in 1..Len(queue'), queue'[i] = queue'[k]
               PROVE  i = k
    OBVIOUS
  <2>1. i + 1 = k + 1
    BY <1>1, <1>2 DEF QueueIsInOrder
  <2> QED
    BY <1>1, <2>1
<1>4. \A j \in Queued' : \E i \in 1..Len(queue') : queue'[i] = j
  <2> SUFFICES ASSUME NEW j \in Queued' PROVE \E i \in 1..Len(queue') : queue'[i] = j
    OBVIOUS
  <2>1. PICK i \in 1..Len(queue) : queue[i] = j
    BY DEF QueueIsInOrder
  <2>2. i # 1
    BY <1>1, <2>1
  <2>3. i - 1 \in 1..Len(queue') /\ queue'[i - 1] = queue[i]
    BY <1>1, <2>2
  <2> QED
    BY <2>1, <2>3
<1> QED
  BY <1>1, <1>2, <1>3, <1>4 DEF QueueIsInOrder

LEMMA AppendInOrder ==
    ASSUME QueueIsInOrder, TypeOK, NEW j \in JobIds \ used, queue' = Append(queue, j),
           used' = used \cup {j}, Queued' \subseteq Queued \cup {j}
    PROVE  QueueIsInOrder'
<1>1. /\ Len(queue) \in Nat /\ Len(queue') = Len(queue) + 1
      /\ \A i \in 1..Len(queue) : queue'[i] = queue[i]
      /\ queue'[Len(queue) + 1] = j
  BY DEF TypeOK
<1>2. \A i \in 1..Len(queue') : i \in 1..Len(queue) \/ i = Len(queue) + 1
  BY <1>1
<1>3. \A i, k \in 1..Len(queue') : queue'[i] = queue'[k] => i = k
  BY <1>1, <1>2 DEF QueueIsInOrder
<1>4. \A i \in 1..Len(queue') : queue'[i] \in used'
  BY <1>1, <1>2 DEF QueueIsInOrder
<1>5. \A i \in Queued' : \E k \in 1..Len(queue') : queue'[k] = i
  <2> SUFFICES ASSUME NEW i \in Queued' PROVE \E k \in 1..Len(queue') : queue'[k] = i
    OBVIOUS
  <2>1. CASE i = j
    BY <1>1, <2>1
  <2>2. CASE i \in Queued
    <3>1. PICK k \in 1..Len(queue) : queue[k] = i
      BY <2>2 DEF QueueIsInOrder
    <3>2. k \in 1..Len(queue') /\ queue'[k] = i
      BY <1>1, <3>1
    <3> QED
      BY <3>2
  <2> QED
    BY <2>1, <2>2
<1> QED
  BY <1>3, <1>4, <1>5 DEF QueueIsInOrder

LEMMA SubmitWork ==
    ASSUME ExecutionInv, WorkInv, NEW k \in Keys \cup {NoKey}, NEW b \in Bodies, Submit(k, b)
    PROVE  WorkInv'
<1>1. PICK gone \in SUBSET Finished : phase = "up" /\ UNCHANGED <<phase, unread>> /\ \E stuck \in SUBSET gone :
        SubmitRefused(gone, stuck) \/ SubmitAccepted(gone, stuck, k, b)
  BY SubmitShape
<1>2. PICK stuck \in SUBSET gone : SubmitRefused(gone, stuck) \/ SubmitAccepted(gone, stuck, k, b)
  BY <1>1
<1>3. TypeOK
  BY DEF ExecutionInv
<1>4. CASE SubmitRefused(gone, stuck)
  <2>1. \A i \in JobIds : jobs'[i].status \in Active => jobs'[i] = jobs[i]
    BY <1>4 DEF SubmitRefused, Forgotten, NoJob, Active
  <2>2. \A i \in JobIds : jobs'[i].status = "RUNNING" => jobs[i].status = "RUNNING"
    BY <2>1 DEF Active
  <2>3. Calm
    BY <1>1, <1>4, <2>1, <2>2 DEF SubmitRefused, Calm, WorkInv, RunningIsHeld, Holding
  <2> QED
    BY <1>3, <2>3, CalmKept
<1>5. CASE SubmitAccepted(gone, stuck, k, b)
  <2> DEFINE new == NewJob(k, b)
  <2>1. new.status = "QUEUED" /\ new.cancel = "NONE"
    BY DEF NewJob
  <2> HIDE DEF new
  <2>2. PICK j \in JobIds \ used, saved \in BOOLEAN :
          /\ jobs' = [Forgotten(gone) EXCEPT ![j] = new]
          /\ queue' = Append(queue, j)
          /\ saveFaults' = IF saved THEN saveFaults ELSE saveFaults + 1
          /\ Notify(saved)
          /\ used' = used \cup {j}
          /\ UNCHANGED <<controls, closed, current, outcome, executions, withdrawn>>
    BY <1>5 DEF SubmitAccepted, Save, new
  <2>3. \A i \in JobIds : jobs'[i] = IF i = j THEN new ELSE IF i \in gone THEN NoJob ELSE jobs[i]
    BY <2>2 DEF Forgotten
  <2>4. Queued' \subseteq Queued \cup {j}
    BY <2>3 DEF Queued, NoJob
  <2>5. QueueIsInOrder'
    BY <1>3, <2>2, <2>4, AppendInOrder DEF WorkInv
  <2>6. RunningIsHeld'
    BY <1>1, <2>1, <2>2, <2>3 DEF WorkInv, RunningIsHeld, NoJob, Notify
  <2>7. TokensAreTold'
    BY <1>1, <2>1, <2>2, <2>3 DEF WorkInv, TokensAreTold, NoJob
  <2>8. NoLostWakeup'
    BY <1>3, <2>2 DEF NoLostWakeup, Notify, TypeOK
  <2> QED
    BY <2>5, <2>6, <2>7, <2>8 DEF WorkInv
<1> QED
  BY <1>2, <1>4, <1>5

\* The record of one job changes; it is not QUEUED afterwards.
LEMMA MovesOne ==
    ASSUME TypeOK, NEW j \in JobIds, NEW s \in Active \cup Terminal, jobs[j] \in Job,
           jobs' = [jobs EXCEPT ![j] = Moved(@, s)]
    PROVE  /\ \A i \in JobIds \ {j} : jobs'[i] = jobs[i]
           /\ jobs'[j].status = s /\ jobs'[j].cancel = jobs[j].cancel
BY MovedType, MovedKeeps DEF TypeOK

LEMMA CancelQueuedWork ==
    ASSUME ExecutionInv, WorkInv, NEW j \in JobIds, CancelQueued(j) PROVE WorkInv'
<1>1. TypeOK /\ jobs[j] \in Job /\ jobs[j].status = "QUEUED" /\ phase = "up"
  BY PresentIsJob DEF ExecutionInv, TypeOK, CancelQueued, Cancellable
<1>2. /\ \A i \in JobIds \ {j} : jobs'[i] = jobs[i]
      /\ jobs'[j].status = "CANCELLED"
  BY <1>1, MovesOne DEF CancelQueued, Terminal
<1>3. \E saved \in BOOLEAN : Save(disk, j, Moved(jobs[j], "CANCELLED"), saved) /\ Notify(saved)
  BY DEF CancelQueued
<1>4. saveFaults' = 0 => saveFaults = 0
  BY <1>1, <1>3 DEF Save, TypeOK
<1>5. worker' = worker \/ (worker = "waiting" /\ worker' = "ready")
  BY <1>3 DEF Notify
<1>6. Calm
  BY <1>1, <1>2, <1>4, <1>5
     DEF CancelQueued, Calm, Active, WorkInv, RunningIsHeld, Holding
<1> QED
  BY <1>1, <1>6, CalmKept

LEMMA CancelRunningWork ==
    ASSUME ExecutionInv, WorkInv, NEW j \in JobIds, CancelRunning(j) PROVE WorkInv'
<1>1. TypeOK /\ jobs[j] \in Job /\ jobs[j].status = "RUNNING" /\ phase = "up"
  BY PresentIsJob DEF ExecutionInv, TypeOK, CancelRunning
<1> DEFINE moved == Moved(jobs[j], "RUNNING")
<1> DEFINE job == [moved EXCEPT !.cancel = "REQUESTED"]
<1>2. moved \in Job /\ moved.status = "RUNNING" /\ now \in Nat
  BY <1>1, MovedType DEF Active, TypeOK
<1>3. \E saved \in BOOLEAN : Save(disk, j, job, saved) /\ Notify(saved)
  BY DEF CancelRunning
<1>4. jobs' = [jobs EXCEPT ![j] = job]
  BY DEF CancelRunning
<1> HIDE DEF moved
<1>5. job.status = "RUNNING"
  BY <1>2 DEF Job
<1> HIDE DEF job
<1>6. \A i \in JobIds : jobs'[i] = IF i = j THEN job ELSE jobs[i]
  BY <1>1, <1>4 DEF TypeOK
<1>7. saveFaults' = 0 => saveFaults = 0
  BY <1>1, <1>3 DEF Save, TypeOK
<1>8. worker' = worker \/ (worker = "waiting" /\ worker' = "ready")
  BY <1>3 DEF Notify
<1>9. controls'[j] = "cancelled" /\ \A i \in JobIds \ {j} : controls'[i] = controls[i]
  BY <1>1 DEF CancelRunning, Signal, TypeOK
<1>10. UNCHANGED <<queue, used, phase, current>>
  BY DEF CancelRunning, history
<1>11. Queued' = Queued
  BY <1>1, <1>5, <1>6 DEF Queued
<1>12. QueueIsInOrder'
  BY <1>10, <1>11 DEF WorkInv, QueueIsInOrder
<1>13. RunningIsHeld'
  BY <1>1, <1>6, <1>8, <1>10 DEF WorkInv, RunningIsHeld
<1>14. TokensAreTold'
  BY <1>5, <1>6, <1>9, <1>10 DEF WorkInv, TokensAreTold
<1>15. NoLostWakeup'
  BY <1>7, <1>8, <1>11 DEF WorkInv, NoLostWakeup
<1> QED
  BY <1>12, <1>13, <1>14, <1>15 DEF WorkInv

LEMMA WorkerTakesWork == ASSUME ExecutionInv, WorkInv, WorkerTakes PROVE WorkInv'
<1> DEFINE j == Head(queue)
<1>1. TypeOK /\ queue # <<>> /\ phase = "up" /\ worker = "ready" /\ j \in JobIds
  BY DEF ExecutionInv, TypeOK, WorkerTakes
<1>2. jobs[j].status = "QUEUED" /\ jobs[j] \in Job
  BY <1>1, PresentIsJob DEF TypeOK, WorkerTakes, Runnable
<1>3. /\ \A i \in JobIds \ {j} : jobs'[i] = jobs[i]
      /\ jobs'[j].status = "RUNNING" /\ jobs'[j].cancel = jobs[j].cancel
  BY <1>1, <1>2, MovesOne DEF WorkerTakes, Active
<1>4. /\ queue' = Tail(queue) /\ current' = j /\ worker' \in {"executing", "dead"}
      /\ UNCHANGED <<used, phase>>
  BY DEF WorkerTakes, workerFrame
<1>5. Queued' \subseteq Queued \ {j}
  BY <1>3 DEF Queued
<1>6. QueueIsInOrder'
  BY <1>1, <1>4, <1>5, TailInOrder DEF WorkInv
<1>7. RunningIsHeld'
  BY <1>1, <1>3, <1>4 DEF WorkInv, RunningIsHeld
<1>8. TokensAreTold'
  BY <1>1, <1>2, <1>3, <1>4 DEF WorkInv, TokensAreTold, RunningIsHeld
<1>9. NoLostWakeup'
  BY <1>4 DEF NoLostWakeup
<1> QED
  BY <1>6, <1>7, <1>8, <1>9 DEF WorkInv

LEMMA WorkerSkipsWork == ASSUME ExecutionInv, WorkInv, WorkerSkips PROVE WorkInv'
<1>1. /\ TypeOK /\ queue # <<>> /\ ~Runnable(Head(queue)) /\ queue' = Tail(queue)
      /\ UNCHANGED <<jobs, controls, worker, current, saveFaults, used, phase>>
  BY DEF ExecutionInv, WorkerSkips, history, workerFrame
<1>2. Head(queue) \notin Queued
  BY <1>1 DEF Runnable, ExecutionInv, BodiesAreOfQueued, Queued
<1>3. Queued' = Queued
  BY <1>1 DEF Queued
<1>4. QueueIsInOrder'
  BY <1>1, <1>2, <1>3, TailInOrder DEF WorkInv
<1> QED
  BY <1>1, <1>3, <1>4 DEF WorkInv, RunningIsHeld, TokensAreTold, NoLostWakeup

LEMMA WorkerRecordsWork ==
    ASSUME ExecutionInv, WorkInv, WorkerRecordsResult \/ WorkerRecordsFailure PROVE WorkInv'
<1>1. /\ TypeOK /\ phase = "up" /\ worker \in {"returned", "failed"} /\ current \in JobIds
      /\ now \in Nat
  BY DEF ExecutionInv, TypeOK, WorkerRecordsResult, WorkerRecordsFailure, WorkerHoldsJob
<1>2. UNCHANGED <<queue, controls, current, used, phase>>
  BY DEF WorkerRecordsResult, WorkerRecordsFailure, workerFrame, history
<1>3. \A i \in JobIds \ {current} : jobs'[i] = jobs[i]
  <2>1. \A job : jobs' = [jobs EXCEPT ![current] = job] =>
                   \A i \in JobIds \ {current} : jobs'[i] = jobs[i]
    BY <1>1 DEF TypeOK
  <2> QED
    BY <2>1 DEF WorkerRecordsResult, WorkerRecordsFailure
<1>4. \/ jobs'[current].status \notin Active
      \/ jobs'[current] = jobs[current] /\ jobs[current].status # "RUNNING"
  <2>1. CASE WorkerRecordsResult
    <3> DEFINE moved == Moved(jobs[current], JobStatusOf(outcome))
    <3>1. jobs[current] \in Job /\ outcome \in TaskResults
      BY <1>1, <2>1, PresentIsJob DEF WorkerRecordsResult, ExecutionInv, WorkerHoldsJob, TypeOK
    <3>2. JobStatusOf(outcome) \in Terminal
      BY DEF JobStatusOf, Terminal
    <3>3. moved \in Job /\ moved.status \in Terminal
      BY <1>1, <3>1, <3>2, MovedType
    <3>4. jobs' = [jobs EXCEPT ![current] = [moved EXCEPT !.task = outcome]]
      BY <2>1 DEF WorkerRecordsResult
    <3> HIDE DEF moved
    <3>5. jobs'[current].status = moved.status
      BY <1>1, <3>3, <3>4 DEF TypeOK, Job
    <3> QED
      BY <3>3, <3>5 DEF Active, Terminal
  <2>2. CASE WorkerRecordsFailure /\ StillRunning
    <3>1. jobs[current] \in Job
      BY <1>1, <2>2, PresentIsJob DEF StillRunning, TypeOK
    <3>2. jobs' = [jobs EXCEPT ![current] = Moved(@, "FAILED")]
      BY <1>1, <2>2 DEF WorkerRecordsFailure, TypeOK
    <3>3. jobs'[current].status = "FAILED"
      BY <1>1, <3>1, <3>2, MovesOne DEF Terminal
    <3> QED
      BY <3>3 DEF Active
  <2>3. CASE WorkerRecordsFailure /\ ~StillRunning
    BY <2>3 DEF WorkerRecordsFailure, StillRunning
  <2> QED
    BY <2>1, <2>2, <2>3
<1>5. saveFaults' = 0 => saveFaults = 0
  BY <1>1 DEF WorkerRecordsResult, WorkerRecordsFailure, Save, TypeOK
<1>6. worker' # "waiting"
  BY DEF WorkerRecordsResult, WorkerRecordsFailure
<1>7. Calm
  BY <1>1, <1>2, <1>3, <1>4, <1>5, <1>6 DEF Calm, Active, WorkInv, RunningIsHeld, Holding
<1> QED
  BY <1>1, <1>7, CalmKept

LEMMA LoadFileWork ==
    ASSUME ExecutionInv, WorkInv, NEW j \in JobIds, LoadFile(j) PROVE WorkInv'
<1>1. TypeOK /\ now \in Nat /\ phase = "loading" /\ UNCHANGED used
  BY DEF ExecutionInv, TypeOK, LoadFile, history
<1>2. \A i \in JobIds : jobs'[i].status \in Active => jobs'[i] = jobs[i]
  <2>1. CASE jobs' = jobs
    BY <2>1
  <2>2. CASE jobs' = [jobs EXCEPT ![j] = disk[j]] /\ disk[j].status \in Terminal
    BY <1>1, <2>2 DEF TypeOK, Active, Terminal
  <2>3. CASE jobs' = [jobs EXCEPT ![j] = Moved(disk[j], "INTERRUPTED")] /\ disk[j].status \in Active
    <3>1. disk[j] \in Job
      BY <1>1, <2>3 DEF TypeOK, NoJob, Active
    <3>2. Moved(disk[j], "INTERRUPTED").status = "INTERRUPTED"
      BY <1>1, <3>1, MovedType DEF Terminal
    <3> QED
      BY <1>1, <2>3, <3>2 DEF TypeOK, Active
  <2>4. CASE jobs' = Blank
    BY <2>4 DEF Blank, NoJob, Active
  <2> QED
    BY <2>1, <2>2, <2>3, <2>4 DEF LoadFile, LoadActive, NoProcess, volatile
<1>3. queue' \in {queue, <<>>} /\ (queue' = queue \/ jobs' = Blank) /\ phase' \in {"loading", "down"}
  BY <1>1 DEF LoadFile, LoadActive, NoProcess, volatile
<1>4. worker' \in {worker, "none"} /\ (saveFaults' = 0 => saveFaults = 0)
  BY <1>1 DEF LoadFile, LoadActive, NoProcess, volatile, Save, TypeOK
<1>5. Calm
  BY <1>1, <1>2, <1>3, <1>4 DEF Calm, Blank, NoJob
<1> QED
  BY <1>1, <1>5, CalmKept

LEMMA OtherWork ==
    ASSUME ExecutionInv, WorkInv,
           \/ Close \/ WorkerSleeps \/ WorkerStops \/ ExecutorReturns \/ WorkerDropsControl
           \/ Crash \/ Boot \/ WorkerThreadStarts \/ Tick \/ UNCHANGED vars
    PROVE  WorkInv'
<1>1. TypeOK
  BY DEF ExecutionInv
<1> USE DEF Calm, WorkInv, RunningIsHeld, Holding
<1>2. CASE Close
  <2>1. controls' = [j \in JobIds |-> IF controls[j] = "none" THEN "none" ELSE "cancelled"]
    BY <1>2 DEF Close
  <2>2. Calm
    BY <1>2, <2>1 DEF Close, Notify, history
  <2> QED
    BY <1>1, <2>2, CalmKept
<1>3. CASE WorkerSleeps
  <2>1. Queued = {}
    BY <1>3 DEF WorkerSleeps, QueueIsInOrder
  <2>2. Calm
    BY <1>3, <2>1 DEF WorkerSleeps, history, workerFrame
  <2> QED
    BY <1>1, <2>2, CalmKept
<1>4. CASE WorkerStops \/ ExecutorReturns \/ WorkerDropsControl
  <2>1. Calm
    BY <1>4 DEF WorkerStops, ExecutorReturns, WorkerDropsControl, history, workerFrame
  <2> QED
    BY <1>1, <2>1, CalmKept
<1>5. CASE Crash
  <2>1. Calm
    BY <1>5 DEF Crash, NoProcess, Blank, NoJob, Active, history
  <2> QED
    BY <1>1, <2>1, CalmKept
<1>6. CASE Boot \/ Tick \/ UNCHANGED vars
  <2>1. Calm
    BY <1>6 DEF Boot, Tick, vars, volatile, history
  <2> QED
    BY <1>1, <2>1, CalmKept
<1>7. CASE WorkerThreadStarts
  <2>1. \A i \in JobIds : jobs[i].status \notin Active
    BY <1>7 DEF WorkerThreadStarts, ExecutionInv, QuietUnlessUp
  <2>2. Calm
    BY <1>7, <2>1 DEF WorkerThreadStarts, Active, history
  <2> QED
    BY <1>1, <2>2, CalmKept
<1> QED
  BY <1>2, <1>3, <1>4, <1>5, <1>6, <1>7

LEMMA NextWork == ASSUME ExecutionInv, WorkInv, [Next]_vars PROVE WorkInv'
BY SubmitWork, CancelQueuedWork, CancelRunningWork, WorkerTakesWork, WorkerSkipsWork,
   WorkerRecordsWork, LoadFileWork, OtherWork DEF Next, WorkerStep

LEMMA InitWork == Init => WorkInv
BY DEF Init, Blank, NoJob, WorkInv, RunningIsHeld, QueueIsInOrder, TokensAreTold,
       NoLostWakeup, Queued

\* The worker, the deque and the tokens agree with the records at every lock
\* release, whatever fails, crashes or restarts.
THEOREM WorkInvariant == Spec => []WorkInv
<1>1. ExecutionInv /\ WorkInv /\ [Next]_vars => WorkInv'
  BY NextWork
<1> QED
  BY ExecutionInvariant, InitWork, <1>1, PTL DEF Spec

\* Whatever is submitted, cancelled, evicted or badly written, a QUEUED job has
\* its body and one place in the deque, a RUNNING one is the worker's, and a
\* recorded cancellation is in its token (MemoryIsCoherent).
THEOREM MemoryIsCoherentHolds == Spec => []MemoryIsCoherent
<1>1. ExecutionInv /\ WorkInv => MemoryIsCoherent
  <2> SUFFICES ASSUME ExecutionInv, WorkInv PROVE MemoryIsCoherent
    OBVIOUS
  <2>1. requests = Queued
    BY DEF ExecutionInv, TypeOK, BodiesAreOfQueued, Queued
  <2>2. \A j \in Queued : Cardinality(Positions(j)) = 1
    <3> SUFFICES ASSUME NEW j \in Queued PROVE Cardinality(Positions(j)) = 1
      OBVIOUS
    <3>1. PICK i \in 1..Len(queue) : queue[i] = j
      BY DEF WorkInv, QueueIsInOrder
    <3>2. Positions(j) = {i}
      BY <3>1 DEF Positions, WorkInv, QueueIsInOrder
    <3> QED
      BY <3>2, FS_Singleton
  <2>3. QueueAccounting
    BY <2>1, <2>2 DEF QueueAccounting, WorkInv, RunningIsHeld
  <2>4. CancelReachesToken
    BY DEF CancelReachesToken, WorkInv, TokensAreTold
  <2> QED
    BY <2>3, <2>4 DEF MemoryIsCoherent
<1> QED
  BY ExecutionInvariant, WorkInvariant, <1>1, PTL

\* No QUEUED job is left behind a sleeping worker, as long as no write fails
\* (NoLostWakeup).
THEOREM NoLostWakeupHolds == Spec => []NoLostWakeup
<1>1. WorkInv => NoLostWakeup
  BY DEF WorkInv
<1> QED
  BY WorkInvariant, <1>1, PTL

--------------------------------------------------------------------------------
(* The client of the stream.                                               *)

\* What was told of a job is in its file, while there is one.
ToldIsFiled ==
    /\ stream = "following" \/ told # "NONE" => followed \in JobIds /\ followed \in used
    /\ saveFaults = 0 /\ followed \in JobIds /\ disk[followed] # NoJob =>
         /\ told # "NONE" => disk[followed].seq >= after
         /\ told \in Terminal => disk[followed].status = told /\ disk[followed].seq = after
    /\ told = "NONE" => after = -1
    /\ after \in Int

\* A step of the queue takes nothing back.
LEMMA QueueStepTold ==
    ASSUME ExecutionInv, ExecutionInv', RecordInv, ToldIsFiled, [Next]_vars, UNCHANGED clientVars
    PROVE  ToldIsFiled'
<1>1. used \subseteq used' /\ (saveFaults' = 0 => saveFaults = 0) /\ FilesAdvance
  BY NextRecords DEF RecordsKept, FilesAdvance
<1>2. /\ UNCHANGED <<stream, followed, after, told>>
      /\ disk \in [JobIds -> Job \cup {NoJob}] /\ disk' \in [JobIds -> Job \cup {NoJob}]
  BY DEF clientVars, ExecutionInv, TypeOK
<1>3. ASSUME saveFaults' = 0, followed' \in JobIds, disk'[followed] # NoJob
      PROVE  /\ told' # "NONE" => disk'[followed].seq >= after
             /\ told' \in Terminal => disk'[followed].status = told /\ disk'[followed].seq = after
  <2>1. CASE told = "NONE"
    BY <1>2, <2>1 DEF Terminal
  <2>2. CASE told # "NONE" /\ disk'[followed] = disk[followed]
    BY <1>1, <1>2, <1>3, <2>2 DEF ToldIsFiled
  <2>3. CASE told # "NONE" /\ disk[followed].status \in Active
               /\ disk'[followed].seq >= disk[followed].seq
    <3>1. disk[followed] \in Job /\ disk'[followed] \in Job /\ disk[followed] # NoJob
      BY <1>2, <1>3, <2>3 DEF NoJob, Active
    <3>2. disk[followed].seq \in Nat /\ disk'[followed].seq \in Nat
      BY <3>1 DEF Job
    <3>3. disk[followed].seq >= after /\ told \notin Terminal /\ after \in Int
      BY <1>1, <1>2, <1>3, <2>3, <3>1 DEF ToldIsFiled, Active, Terminal
    <3> QED
      BY <1>2, <2>3, <3>2, <3>3
  <2>4. told # "NONE" => followed \in used
    BY DEF ToldIsFiled
  <2> QED
    BY <1>1, <1>2, <1>3, <2>1, <2>2, <2>3, <2>4 DEF FilesAdvance
<1> QED
  BY <1>1, <1>2, <1>3 DEF ToldIsFiled

LEMMA ClientStepTold ==
    ASSUME ExecutionInv, RecordInv, ToldIsFiled,
           (\E j \in JobIds : OpenStream(j)) \/ Serve \/ StreamBreaks
    PROVE  ToldIsFiled' /\ UNCHANGED vars
<1>1. UNCHANGED <<disk, used, saveFaults>> /\ UNCHANGED vars
  BY DEF OpenStream, Serve, SendEvent, StreamLosesJob, StreamBreaks, vars, history
<1>2. CASE \E j \in JobIds : OpenStream(j)
  <2>1. PICK j \in JobIds : OpenStream(j)
    BY <1>2
  <2>2. j \in used
    BY <2>1 DEF OpenStream, ExecutionInv, UnusedIsFresh, NoJob
  <2>3. followed' = j /\ followed \in {NoJobId, j} /\ UNCHANGED <<after, told>>
    BY <2>1 DEF OpenStream
  <2>4. told # "NONE" => followed = j
    BY <2>3, QueueAssumption DEF ToldIsFiled
  <2> QED
    BY <1>1, <2>2, <2>3, <2>4 DEF ToldIsFiled, Terminal
<1>3. CASE SendEvent
  <2>1. /\ followed \in JobIds /\ followed \in used /\ followed' = followed
        /\ jobs[followed] \in Job /\ after' = jobs[followed].seq /\ told' = jobs[followed].status
    BY <1>3, PresentIsJob DEF SendEvent, ToldIsFiled, ExecutionInv, TypeOK
  <2>2. after' \in Nat /\ told' # "NONE"
    BY <2>1 DEF Job, Active, Terminal
  <2>3. saveFaults = 0 => disk[followed] = jobs[followed]
    BY <2>1, JobIsPresent DEF RecordInv, RecordsAgree, NoJob
  <2> QED
    BY <1>1, <2>1, <2>2, <2>3 DEF ToldIsFiled
<1>4. CASE StreamLosesJob \/ StreamBreaks
  BY <1>1, <1>4 DEF StreamLosesJob, StreamBreaks, ToldIsFiled
<1> QED
  BY <1>1, <1>2, <1>3, <1>4 DEF Serve

\* What a client was told is in the job's record or in its file, over every
\* reconnection and restart.
THEOREM StreamInvariant == StreamSpec => [](ExecutionInv /\ RecordInv /\ ToldIsFiled)
<1>1. StreamInit => ExecutionInv /\ RecordInv /\ ToldIsFiled
  BY InitExecutionInv, InitRecords DEF StreamInit, ToldIsFiled, Terminal, Init, Blank
<1>2. ExecutionInv /\ RecordInv /\ ToldIsFiled /\ [StreamNext]_streamVars
        => (ExecutionInv /\ RecordInv /\ ToldIsFiled)'
  <2> SUFFICES ASSUME ExecutionInv, RecordInv, ToldIsFiled, [StreamNext]_streamVars
               PROVE  (ExecutionInv /\ RecordInv /\ ToldIsFiled)'
    OBVIOUS
  <2>1. CASE [Next]_vars /\ UNCHANGED clientVars
    BY <2>1, NextExecutionInv, NextRecords, QueueStepTold DEF RecordsKept
  <2>2. CASE (\E j \in JobIds : OpenStream(j)) \/ Serve \/ StreamBreaks
    BY <2>2, ClientStepTold, NextExecutionInv, NextRecords DEF RecordsKept
  <2> QED
    BY <2>1, <2>2 DEF StreamNext, streamVars
<1> QED
  BY <1>1, <1>2, PTL DEF StreamSpec

\* No crash, restart or reconnection takes back what a client was told of a job
\* (ToldIsTrue).
THEOREM ToldIsTrueHolds == StreamSpec => []ToldIsTrue
<1>1. ExecutionInv /\ RecordInv /\ ToldIsFiled => ToldIsTrue
  <2> SUFFICES ASSUME ExecutionInv, RecordInv, ToldIsFiled PROVE ToldIsTrue
    OBVIOUS
  <2>1. ToldEndIsTheEnd
    <3> SUFFICES ASSUME saveFaults = 0, told \in Terminal, phase = "up", jobs[followed] # NoJob
                 PROVE  jobs[followed].status = told /\ jobs[followed].seq = after
      BY DEF ToldEndIsTheEnd
    <3>1. followed \in JobIds
      BY DEF ToldIsFiled, Terminal
    <3> QED
      BY <3>1 DEF ToldIsFiled, RecordInv, RecordsAgree
  <2>2. ToldIsDurable
    <3> SUFFICES ASSUME saveFaults = 0, stream = "following", disk[followed] # NoJob
                 PROVE  disk[followed].seq >= after
      BY DEF ToldIsDurable
    <3>1. followed \in JobIds /\ disk[followed] \in Job
      BY DEF ToldIsFiled, ExecutionInv, TypeOK
    <3>2. disk[followed].seq \in Nat
      BY <3>1 DEF Job
    <3> QED
      BY <3>1, <3>2 DEF ToldIsFiled
  <2> QED
    BY <2>1, <2>2 DEF ToldIsTrue
<1> QED
  BY StreamInvariant, <1>1, PTL

================================================================================
