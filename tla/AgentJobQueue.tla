----------------------------- MODULE AgentJobQueue -----------------------------
(***************************************************************************)
(* PersistentAgentJobQueue of packages/harness/task_queue.py: HTTP threads *)
(* submit and cancel jobs, one worker thread executes them, and every      *)
(* change of a job's metadata is written to one JSON file per job.  All    *)
(* methods run under one condition variable, so each critical section is   *)
(* one action here; the executor runs between two of them.                 *)
(*                                                                         *)
(* Volatile: jobs, requests, queue, controls, closed, the worker thread.   *)
(* Durable: disk.  A crash or an exit loses the former and keeps the       *)
(* latter; a start reads the files back one at a time.                     *)
(***************************************************************************)
EXTENDS Integers, Sequences, FiniteSets

CONSTANTS
    JobIds,           \* identities uuid4 can hand out; each is used once
    Keys,             \* idempotency keys a client may send
    NoKey,            \* a request without the header
    NoJobId,          \* no job was taken yet
    Bodies,           \* request bodies the SHA-256 tells apart
    MaxPending,       \* QUEUED jobs admitted at once
    MaxJobs,          \* jobs retained in memory
    Retention,        \* age after which a terminal job is pruned
    MaxClock,         \* bound on the clock
    MaxSaveFaults,    \* bound on the writes that raise
    MaxUnlinkFaults,  \* bound on the removals the file system refuses
    MaxRestarts       \* bound on process restarts

ASSUME QueueAssumption ==
    /\ IsFiniteSet(JobIds)
    /\ NoKey \notin Keys /\ NoJobId \notin JobIds
    /\ MaxPending \in Nat \ {0} /\ MaxJobs \in Nat \ {0} /\ Retention \in Nat
    /\ MaxClock \in Nat /\ MaxSaveFaults \in Nat
    /\ MaxUnlinkFaults \in Nat /\ MaxRestarts \in Nat

VARIABLES
    jobs,         \* self._jobs: metadata of every job in memory
    requests,     \* self._requests: jobs whose body is still held
    queue,        \* self._queue: ids in submission order, stale ones included
    controls,     \* self._controls: the cancellation token of a running job
    closed,       \* self._closed
    worker,       \* where the only worker thread is
    current,      \* the job the worker took last, or NoJobId
    outcome,      \* what the executor answered, while the job is being recorded
    disk,         \* job_<id>.json files
    phase,        \* is the process loading, up or down
    unread,       \* files _load_metadata has still to read
    now,          \* time.time()
    saveFaults, unlinkFaults, restarts,
    used,         \* history: ids handed out so far
    executions,   \* history: how often the executor was entered for a job
    withdrawn,    \* history: jobs cancelled while QUEUED
    answered      \* history: bodies of the clients a job was returned to

volatile == <<jobs, requests, queue, controls, closed, worker, current, outcome>>
history  == <<used, executions, withdrawn, answered>>
vars == <<volatile, disk, phase, unread, now, saveFaults, unlinkFaults,
          restarts, history>>

--------------------------------------------------------------------------------
(* Definitions named Faulty... are wrong variants of the definition that    *)
(* follows them; they are used only to show which property would notice.   *)

FaultyActive == {"QUEUED", "RUNNING", "FAILED"}
Active   == {"QUEUED", "RUNNING"}
Terminal == {"COMPLETED", "FAILED", "CANCELLED", "INTERRUPTED"}

\* Statuses run_task's result can carry; a budget stop is a FAILED task whose
\* error code names the budget.
TaskResults == {"COMPLETED", "AWAITING_CONFIRMATION", "FAILED",
                "BUDGET_STOPPED", "CANCELLED"}

Job == [status  : Active \cup Terminal, seq : Nat, created : Nat, updated : Nat,
        key     : Keys \cup {NoKey}, body : Bodies, cancel : {"NONE", "REQUESTED"},
        task    : TaskResults \cup {"NONE"}]

\* Stands for "no such entry" in jobs and "no such file" in disk.
NoJob == [status |-> "ABSENT"]

NewJob(k, b) ==
    [status |-> "QUEUED", seq |-> 0, created |-> now, updated |-> now,
     key |-> k, body |-> b, cancel |-> "NONE", task |-> "NONE"]

Retained == {j \in JobIds : jobs[j].status # "ABSENT"}
Queued   == {j \in JobIds : jobs[j].status = "QUEUED"}
Finished == {j \in JobIds : jobs[j].status \in Terminal}

\* _prune_locked: terminal records older than the retention time.
Outlived(job) == job.updated + Retention < now
Expired == {j \in Finished : Outlived(jobs[j])}

\* _remove_oldest_terminal_locked, among the records in keep.
Oldest(keep) ==
    {j \in keep \cap Finished :
        \A i \in keep \cap Finished : jobs[j].updated <= jobs[i].updated}

FaultyMoved(job, status) ==
    [job EXCEPT !.status = status, !.updated = now, !.seq = job.seq - 1]

\* _transition_locked without its save: status, updated_epoch and sequence.
Moved(job, status) ==
    [job EXCEPT !.status = status, !.updated = now, !.seq = job.seq + 1]

FaultySave(files, j, job, saved) ==   \* progress is not worth a write
    /\ saved \/ saveFaults < MaxSaveFaults
    /\ disk' = IF saved /\ job.status # "RUNNING" THEN [files EXCEPT ![j] = job] ELSE files
    /\ saveFaults' = IF saved THEN saveFaults ELSE saveFaults + 1

\* write_json_atomic replaces the whole file or raises and leaves the old one.
Save(files, j, job, saved) ==
    /\ saved \/ saveFaults < MaxSaveFaults
    /\ disk' = IF saved THEN [files EXCEPT ![j] = job] ELSE files
    /\ saveFaults' = IF saved THEN saveFaults ELSE saveFaults + 1

FaultyNotify(saved) == worker' = worker

\* notify_all comes after the save, so a save that raises wakes nobody.
Notify(saved) == worker' = IF saved /\ worker = "waiting" THEN "ready" ELSE worker

FaultyDropBody(j) == requests' = requests

\* self._requests.pop(job_id, None)
DropBody(j) == requests' = requests \ {j}

\* _remove_job_locked for a set of jobs; an unlink error is swallowed and the
\* file stays.
Unlinked(gone, stuck) == [j \in JobIds |-> IF j \in gone \ stuck THEN NoJob ELSE disk[j]]
Forgotten(gone) == [j \in JobIds |-> IF j \in gone THEN NoJob ELSE jobs[j]]
Stuck(gone) ==
    {s \in SUBSET gone : unlinkFaults + Cardinality(s) <= MaxUnlinkFaults}

--------------------------------------------------------------------------------
(* HTTP threads                                                            *)

\* No job is made (a replay, a conflict, a full queue): only what the calls
\* before the answer removed has changed.
SubmitRefused(gone, stuck) ==
    /\ jobs' = Forgotten(gone)
    /\ requests' = requests \ gone
    /\ disk' = Unlinked(gone, stuck)
    /\ UNCHANGED <<queue, controls, closed, worker, current, outcome, saveFaults,
                   used, executions, withdrawn>>

FaultySameKey(k, keep) == {j \in keep : jobs[j].key = k /\ jobs[j].status \in Active}
SameKey(k, keep) == {j \in keep : jobs[j].key = k}

FaultyReplay(match, b) ==
    \E j \in match :
        /\ \A i \in match : jobs[i].created <= jobs[j].created
        /\ answered' = [answered EXCEPT ![j] = @ \cup {b}]

\* _find_idempotent_locked: the newest job of the key.  It is returned to a
\* client with the same body; another body is a conflict.
Replay(match, b) ==
    \E j \in match :
        /\ \A i \in match : jobs[i].created <= jobs[j].created
        /\ answered' = IF jobs[j].body = b
                       THEN [answered EXCEPT ![j] = @ \cup {b}] ELSE answered

\* A save that raises leaves the new job in all three containers.
SubmitAccepted(gone, stuck, k, b) ==
    \E j \in JobIds \ used, saved \in BOOLEAN :
        /\ jobs' = [Forgotten(gone) EXCEPT ![j] = NewJob(k, b)]
        /\ requests' = (requests \ gone) \cup {j}
        /\ queue' = Append(queue, j)
        /\ Save(Unlinked(gone, stuck), j, NewJob(k, b), saved)
        /\ Notify(saved)
        /\ used' = used \cup {j}
        /\ answered' = IF saved THEN [answered EXCEPT ![j] = @ \cup {b}] ELSE answered
        /\ UNCHANGED <<controls, closed, current, outcome, executions, withdrawn>>

QueueIsFull == Cardinality(Queued) >= MaxPending

FaultyAtCapacity(keep) == Cardinality(keep) > MaxJobs
AtCapacity(keep)       == Cardinality(keep) >= MaxJobs

Submit(k, b) ==
    /\ phase = "up" /\ ~closed
    /\ LET keep  == Retained \ Expired
           match == SameKey(k, keep)
       IN  \E victims \in SUBSET keep :
           LET gone == Expired \cup victims IN
           \E stuck \in Stuck(gone) :
             /\ unlinkFaults' = unlinkFaults + Cardinality(stuck)
             /\ \/ /\ k # NoKey /\ match # {} /\ victims = {}
                   /\ SubmitRefused(gone, stuck) /\ Replay(match, b)
                \/ /\ k = NoKey \/ match = {}
                   /\ QueueIsFull /\ victims = {}
                   /\ SubmitRefused(gone, stuck) /\ UNCHANGED answered
                \/ /\ k = NoKey \/ match = {}
                   /\ ~QueueIsFull
                   /\ IF AtCapacity(keep) /\ Oldest(keep) # {}
                      THEN \E o \in Oldest(keep) : victims = {o}
                      ELSE victims = {}
                   /\ IF AtCapacity(keep \ victims)
                      THEN SubmitRefused(gone, stuck) /\ UNCHANGED answered
                      ELSE SubmitAccepted(gone, stuck, k, b)
    /\ UNCHANGED <<phase, unread, now, restarts>>

FaultyCancellable(j) == jobs[j].status \notin {"ABSENT", "RUNNING"}
Cancellable(j)       == jobs[j].status = "QUEUED"

\* cancel of a QUEUED job: immediate; its id stays in the deque.
CancelQueued(j) ==
    /\ phase = "up" /\ Cancellable(j)
    /\ DropBody(j)
    /\ jobs' = [jobs EXCEPT ![j] = Moved(@, "CANCELLED")]
    /\ \E saved \in BOOLEAN :
          Save(disk, j, Moved(jobs[j], "CANCELLED"), saved) /\ Notify(saved)
    /\ withdrawn' = withdrawn \cup {j}
    /\ UNCHANGED <<queue, controls, closed, current, outcome, phase, unread, now,
                   unlinkFaults, restarts, used, executions, answered>>

FaultySignal(j) == controls' = controls

\* ExecutionControl.request_cancel on the token of the job.
Signal(j) == controls' = [controls EXCEPT ![j] = "cancelled"]

\* cancel of a RUNNING job: the token is set and the request recorded, once.
CancelRunning(j) ==
    /\ phase = "up" /\ jobs[j].status = "RUNNING"
    /\ controls[j] # "none" /\ jobs[j].cancel = "NONE"
    /\ LET job == [Moved(jobs[j], "RUNNING") EXCEPT !.cancel = "REQUESTED"]
       IN  /\ jobs' = [jobs EXCEPT ![j] = job]
           /\ \E saved \in BOOLEAN : Save(disk, j, job, saved) /\ Notify(saved)
    /\ Signal(j)
    /\ UNCHANGED <<requests, queue, closed, current, outcome, phase, unread, now,
                   unlinkFaults, restarts, history>>

\* The FastAPI shutdown hook; join has a timeout, so the exit may come at once.
Close ==
    /\ phase = "up" /\ ~closed
    /\ closed' = TRUE
    /\ controls' = [j \in JobIds |-> IF controls[j] = "none" THEN "none"
                                                             ELSE "cancelled"]
    /\ Notify(TRUE)
    /\ UNCHANGED <<jobs, requests, queue, current, outcome, disk, phase, unread,
                   now, saveFaults, unlinkFaults, restarts, history>>

--------------------------------------------------------------------------------
(* The worker thread                                                       *)

workerFrame == <<closed, phase, unread, now, unlinkFaults, restarts>>

WorkerSleeps ==
    /\ phase = "up" /\ worker = "ready" /\ queue = <<>> /\ ~closed
    /\ worker' = "waiting"
    /\ UNCHANGED <<jobs, requests, queue, controls, current, outcome, disk,
                   saveFaults, history, workerFrame>>

WorkerStops ==
    /\ phase = "up" /\ worker = "ready" /\ closed
    /\ worker' = "stopped"
    /\ UNCHANGED <<jobs, requests, queue, controls, current, outcome, disk,
                   saveFaults, history, workerFrame>>

FaultyRunnable(j) == jobs[j].status # "ABSENT"
Runnable(j)       == jobs[j].status = "QUEUED" /\ j \in requests

\* popleft of an id whose job was cancelled, or cancelled and removed.
WorkerSkips ==
    /\ phase = "up" /\ worker = "ready" /\ queue # <<>> /\ ~closed
    /\ ~Runnable(Head(queue))
    /\ queue' = Tail(queue)
    /\ DropBody(Head(queue))
    /\ UNCHANGED <<jobs, controls, worker, current, outcome, disk, saveFaults,
                   history, workerFrame>>

\* The transition to RUNNING is outside the try block: a save that raises
\* ends the thread with the job RUNNING and its token registered.
WorkerTakes ==
    /\ phase = "up" /\ worker = "ready" /\ queue # <<>> /\ ~closed
    /\ Runnable(Head(queue))
    /\ LET j == Head(queue) IN
       \E saved \in BOOLEAN :
        /\ queue' = Tail(queue)
        /\ DropBody(j)
        /\ controls' = [controls EXCEPT ![j] = "live"]
        /\ jobs' = [jobs EXCEPT ![j] = Moved(@, "RUNNING")]
        /\ Save(disk, j, Moved(jobs[j], "RUNNING"), saved)
        /\ current' = j
        /\ worker' = IF saved THEN "executing" ELSE "dead"
        /\ executions' = IF saved THEN [executions EXCEPT ![j] = @ + 1] ELSE executions
    /\ UNCHANGED <<outcome, used, withdrawn, answered, workerFrame>>

\* execute_agent_request returns a result or raises.  It reports CANCELLED
\* only when a check of the token found it set.
ExecutorReturns ==
    /\ phase = "up" /\ worker = "executing"
    /\ \E r \in TaskResults \cup {"RAISED"} :
        /\ r = "CANCELLED" => controls[current] = "cancelled"
        /\ outcome' = r
        /\ worker' = IF r = "RAISED" THEN "failed" ELSE "returned"
    /\ UNCHANGED <<jobs, requests, queue, controls, current, disk, saveFaults,
                   history, workerFrame>>

FaultyJobStatusOf(r) == CASE r = "CANCELLED"             -> "CANCELLED"
                          [] r = "AWAITING_CONFIRMATION" -> "RUNNING"
                          [] OTHER                       -> "COMPLETED"
JobStatusOf(r) == CASE r = "CANCELLED"      -> "CANCELLED"
                    [] r = "BUDGET_STOPPED" -> "FAILED"
                    [] OTHER                -> "COMPLETED"

\* The second critical section; a save that raises enters the handler with
\* the terminal status already in memory.
WorkerRecordsResult ==
    /\ phase = "up" /\ worker = "returned"
    /\ LET job == [Moved(jobs[current], JobStatusOf(outcome)) EXCEPT !.task = outcome]
       IN  /\ jobs' = [jobs EXCEPT ![current] = job]
           /\ \E saved \in BOOLEAN :
                /\ Save(disk, current, job, saved)
                /\ worker' = IF saved THEN "cleanup" ELSE "failed"
    /\ UNCHANGED <<requests, queue, controls, current, outcome, history, workerFrame>>

FaultyStillRunning == jobs[current].status # "ABSENT"
StillRunning       == jobs[current].status = "RUNNING"

\* except Exception: EXECUTION_FAILED if the job is still RUNNING.  A save
\* that raises here leaves the thread once the finally block has run.
WorkerRecordsFailure ==
    /\ phase = "up" /\ worker = "failed"
    /\ IF StillRunning
       THEN LET job == Moved(jobs[current], "FAILED") IN
            /\ jobs' = [jobs EXCEPT ![current] = job]
            /\ \E saved \in BOOLEAN :
                 /\ Save(disk, current, job, saved)
                 /\ worker' = IF saved THEN "cleanup" ELSE "unwinding"
       ELSE worker' = "cleanup" /\ UNCHANGED <<jobs, disk, saveFaults>>
    /\ UNCHANGED <<requests, queue, controls, current, outcome, history, workerFrame>>

\* finally: the token is dropped in a critical section of its own.
WorkerDropsControl ==
    /\ phase = "up" /\ worker \in {"cleanup", "unwinding"}
    /\ controls' = [controls EXCEPT ![current] = "none"]
    /\ worker' = IF worker = "cleanup" THEN "ready" ELSE "dead"
    /\ outcome' = "NONE"
    /\ UNCHANGED <<jobs, requests, queue, current, disk, saveFaults, history,
                   workerFrame>>

--------------------------------------------------------------------------------
(* The process: a crash or exit at any point, and the load of a new start  *)

Blank == [j \in JobIds |-> NoJob]

NoProcess ==
    /\ jobs' = Blank /\ requests' = {} /\ queue' = <<>>
    /\ controls' = [j \in JobIds |-> "none"] /\ closed' = FALSE
    /\ worker' = "none" /\ current' = NoJobId /\ outcome' = "NONE"

Crash ==
    /\ phase \in {"up", "loading"}
    /\ restarts < MaxRestarts
    /\ phase' = "down" /\ unread' = {} /\ NoProcess
    /\ UNCHANGED <<disk, now, saveFaults, unlinkFaults, restarts, history>>

Boot ==
    /\ phase = "down"
    /\ phase' = "loading" /\ restarts' = restarts + 1
    /\ unread' = {j \in JobIds : disk[j].status # "ABSENT"}
    /\ UNCHANGED <<volatile, disk, now, saveFaults, unlinkFaults, history>>

FaultyLoadReplays(j) ==  \* an unfinished job is run again
    /\ jobs' = [jobs EXCEPT ![j] = [disk[j] EXCEPT !.status = "QUEUED"]]
    /\ requests' = requests \cup {j} /\ queue' = Append(queue, j)
    /\ unread' = unread \ {j}
    /\ UNCHANGED <<disk, saveFaults, controls, closed, worker, current, outcome, phase>>

\* A job of the previous process is INTERRUPTED.  The save is not guarded:
\* when it raises, the constructor and the start fail.
LoadActive(j) ==
    LET job == Moved(disk[j], "INTERRUPTED") IN
    \/ /\ Save(disk, j, job, TRUE)
       /\ jobs' = [jobs EXCEPT ![j] = job] /\ unread' = unread \ {j}
       /\ UNCHANGED <<requests, queue, controls, closed, worker, current,
                      outcome, phase>>
    \/ /\ Save(disk, j, job, FALSE) /\ restarts < MaxRestarts
       /\ phase' = "down" /\ unread' = {} /\ NoProcess

\* One iteration of _load_metadata.
LoadFile(j) ==
    /\ phase = "loading" /\ j \in unread
    /\ \/ /\ disk[j].status \in Terminal /\ Outlived(disk[j])
          /\ \E stuck \in Stuck({j}) :
                /\ disk' = Unlinked({j}, stuck)
                /\ unlinkFaults' = unlinkFaults + Cardinality(stuck)
          /\ unread' = unread \ {j}
          /\ UNCHANGED <<volatile, phase, saveFaults>>
       \/ /\ disk[j].status \in Terminal /\ ~Outlived(disk[j])
          /\ jobs' = [jobs EXCEPT ![j] = disk[j]]
          /\ unread' = unread \ {j}
          /\ UNCHANGED <<requests, queue, controls, closed, worker, current,
                         outcome, disk, phase, saveFaults, unlinkFaults>>
       \/ /\ disk[j].status \in Active /\ LoadActive(j)
          /\ UNCHANGED unlinkFaults
    /\ UNCHANGED <<now, restarts, history>>

WorkerThreadStarts ==
    /\ phase = "loading" /\ unread = {}
    /\ phase' = "up" /\ worker' = "ready"
    /\ UNCHANGED <<jobs, requests, queue, controls, closed, current, outcome, disk,
                   unread, now, saveFaults, unlinkFaults, restarts, history>>

\* _load_metadata reads the clock once, so time stands still while loading.
Tick ==
    /\ phase # "loading" /\ now < MaxClock
    /\ now' = now + 1
    /\ UNCHANGED <<volatile, disk, phase, unread, saveFaults, unlinkFaults,
                   restarts, history>>

--------------------------------------------------------------------------------
Init ==
    /\ jobs = Blank /\ requests = {} /\ queue = <<>>
    /\ controls = [j \in JobIds |-> "none"] /\ closed = FALSE
    /\ worker = "ready" /\ current = NoJobId /\ outcome = "NONE"
    /\ disk = Blank /\ phase = "up" /\ unread = {} /\ now = 0
    /\ saveFaults = 0 /\ unlinkFaults = 0 /\ restarts = 0
    /\ used = {} /\ executions = [j \in JobIds |-> 0] /\ withdrawn = {}
    /\ answered = [j \in JobIds |-> {}]

WorkerStep ==
    \/ WorkerSleeps \/ WorkerStops \/ WorkerSkips \/ WorkerTakes
    \/ ExecutorReturns \/ WorkerRecordsResult \/ WorkerRecordsFailure
    \/ WorkerDropsControl

Next ==
    \/ \E k \in Keys \cup {NoKey}, b \in Bodies : Submit(k, b)
    \/ \E j \in JobIds : CancelQueued(j) \/ CancelRunning(j) \/ LoadFile(j)
    \/ Close \/ WorkerStep \/ Crash \/ Boot \/ WorkerThreadStarts \/ Tick

Spec == Init /\ [][Next]_vars

\* The worker thread keeps being scheduled, and the executor returns: its
\* model and tool calls carry timeouts and its steps are bounded.
FairSpec == Spec /\ WF_vars(WorkerStep)

--------------------------------------------------------------------------------
(* Properties                                                              *)

TypeOK ==
    /\ jobs \in [JobIds -> Job \cup {NoJob}] /\ disk \in [JobIds -> Job \cup {NoJob}]
    /\ requests \in SUBSET JobIds /\ queue \in Seq(JobIds)
    /\ controls \in [JobIds -> {"none", "live", "cancelled"}]
    /\ closed \in BOOLEAN
    /\ worker \in {"none", "waiting", "ready", "executing", "returned", "failed",
                   "cleanup", "unwinding", "dead", "stopped"}
    /\ current \in JobIds \cup {NoJobId}
    /\ outcome \in TaskResults \cup {"NONE", "RAISED"}
    /\ phase \in {"up", "loading", "down"}
    /\ unread \in SUBSET JobIds
    /\ now \in Nat /\ saveFaults \in Nat /\ unlinkFaults \in Nat /\ restarts \in Nat
    /\ used \in SUBSET JobIds /\ withdrawn \in SUBSET JobIds
    /\ executions \in [JobIds -> Nat] /\ answered \in [JobIds -> SUBSET Bodies]

\* A request is executed at most once, whatever is cancelled, evicted, written
\* badly or restarted: the body lives in memory only and nothing is replayed.
AtMostOneExecution == \A j \in JobIds : executions[j] <= 1

\* A job cancelled while QUEUED produces no task, in this process or after a
\* restart that reads an older file of it.
WithdrawnNeverRuns == \A j \in withdrawn : executions[j] = 0

\* Both: over any schedule, failing write, crash and restart, a job runs once
\* or never, and never after it was withdrawn.
ExecutesOnce == AtMostOneExecution /\ WithdrawnNeverRuns

Positions(j) == {i \in 1..Len(queue) : queue[i] = j}

\* The three containers agree: a QUEUED job of this process has its body and
\* waits exactly once in the deque, no body outlives the QUEUED status, and a
\* job is RUNNING only in the worker's hands.
QueueAccounting ==
    phase = "up" =>
        /\ requests = Queued
        /\ \A j \in Queued : Cardinality(Positions(j)) = 1
        /\ \A j \in JobIds : jobs[j].status = "RUNNING" =>
              j = current /\ worker \in {"executing", "returned", "failed", "dead"}

\* However submissions, ends, expiry and reloading alternate, the retained
\* records stay within their limit as long as removed files really go.
RetentionIsBounded == unlinkFaults = 0 => Cardinality(Retained) <= MaxJobs

\* One retained job per idempotency key, so a retry finds the job of the first
\* call, also after a restart.
OneJobPerKey ==
    unlinkFaults = 0 =>
        \A i, j \in Retained : jobs[i].key = jobs[j].key /\ jobs[i].key # NoKey => i = j

\* A client is only ever handed a job made from the body it sent, whatever was
\* pruned, evicted or reloaded between two uses of its key.
AnswersMatchRequests == \A j \in Retained : answered[j] \subseteq {jobs[j].body}

\* What an idempotency key promises: one job, and the job of that request.
KeysAreKept == OneJobPerKey /\ AnswersMatchRequests

\* While no write or removal has failed, the files are the memory: a crash
\* between any two steps loses no acknowledged change.
FilesFollowMemory ==
    phase = "up" /\ saveFaults = 0 /\ unlinkFaults = 0 => disk = jobs

\* A recorded cancellation request has reached the executor's token.
CancelReachesToken ==
    phase = "up" =>
      \A j \in JobIds : (jobs[j].status = "RUNNING" /\ jobs[j].cancel = "REQUESTED")
                           => controls[j] = "cancelled"

\* What the worker, the canceller and the counters read fits together.
MemoryIsCoherent == QueueAccounting /\ CancelReachesToken

\* A QUEUED job is never left behind a sleeping worker: notify follows every
\* append.  With a save that raises this is lost until the next notification.
NoLostWakeup == saveFaults = 0 /\ worker = "waiting" => Queued = {}

\* The only worker thread lives as long as the process takes jobs.
WorkerServes == phase = "up" /\ ~closed => worker # "dead"

\* Records only advance.  Once a file holds a terminal record it is only ever
\* removed, also by a start after a crash; and a reader that polls by sequence
\* misses no change: every change of a job in memory raises its sequence by
\* one, and a terminal job does not change.
FinalInFile(j) == disk[j].status \in Terminal => disk'[j] \in {disk[j], NoJob}
CountedInMemory(j) ==
    phase = "up" /\ phase' = "up" /\ jobs[j] # jobs'[j] /\ jobs[j] # NoJob =>
        \/ jobs'[j] = NoJob /\ jobs[j].status \in Terminal
        \/ jobs[j].status \in Active /\ jobs'[j].seq = jobs[j].seq + 1
RecordsOnlyAdvance == [][\A j \in JobIds : FinalInFile(j) /\ CountedInMemory(j)]_vars

\* A job that is QUEUED or RUNNING reaches a terminal status unless the
\* process is closed or dies, or a write fails, first: with one worker, in
\* submission order.
Settles(j) ==
    jobs[j].status \in Active
        ~> (jobs[j].status \notin Active \/ closed \/ phase # "up" \/ saveFaults > 0)
EveryJobSettles == \A j \in JobIds : Settles(j)

\* The durable view of a job; a removed file is a forgotten job.
DurableStatus ==
    [j \in JobIds |-> IF disk[j].status = "ABSENT" /\ j \in used THEN "FORGOTTEN"
                                                                 ELSE disk[j].status]

Durable == INSTANCE JobLifecycle WITH status <- DurableStatus, tasks <- executions

\* The files of the queue live the life JobLifecycle promises (checked while
\* no save fails; a save that fails hides the step it should have recorded).
ImplementsLifecycle == Durable!Spec

================================================================================
