------------------------------- MODULE AgentTask -------------------------------
(***************************************************************************)
(* The life of agent tasks of one session: AgentLoop.run, resume and       *)
(* cancel of packages/harness/agent_loop.py, the routes of                 *)
(* apps/api_server.py around them, and the checkpoint file of each task.   *)
(* A run takes no lock; a confirmation and a cancellation hold the lock of *)
(* the task inside the loop only, while the routes read, change and write  *)
(* the checkpoint before and after it.                                     *)
(***************************************************************************)
EXTENDS SessionMemory

CONSTANTS
    Threads,      \* request threads and the job worker
    NoThread,     \* nobody holds the lock
    MaxSteps,     \* max_steps of the loop
    MaxSwitches,  \* bound on changes of the model mode
    MaxTroubles,  \* bound on crashes and on checkpoint writes that raise
    MaxUpsets     \* bound on clears and the expiry of the session

ASSUME TaskAssumption ==
    /\ IsFiniteSet(Threads) /\ NoThread \notin Threads
    /\ MaxSteps \in Nat \ {0}
    /\ MaxSwitches \in Nat /\ MaxTroubles \in Nat /\ MaxUpsets \in Nat

VARIABLES
    disk,        \* task_<id>.json
    lock,        \* self._task_locks
    token,       \* the ExecutionControl the loop of a task reads
    identity,    \* model_identity: the mode that is active
    th,          \* what each thread is doing
    switches, troubles, upsets,
    invoked,     \* history: the steps of a task in which a tool ran
    confirmed,   \* history: the steps of a task whose pending tool ran
    twice,       \* history: tasks with a pending tool that ran once more
    overwritten, \* history: tasks whose checkpoint was replaced by an older copy
    torn,        \* history: tasks with a tool that ran and was not recorded
    unheard      \* history: tasks whose end the session did not take: it found
                 \* no pending entry, or refused the answer

taskHistory == <<invoked, confirmed, twice, overwritten, torn, unheard>>
bounds == <<switches, troubles, upsets>>
vars == <<disk, lock, token, identity, th, bounds, taskHistory, sessionVars>>

Ended  == {"COMPLETED", "FAILED", "CANCELLED"}
Steps  == 1..MaxSteps
NoTask == [status |-> "ABSENT"]

\* results stands for tool_results: the steps whose calls are in it.
\* history stands for model_history: the session's turns only, those and the
\* task's own messages, or the latter alone.
Checkpoint == [status : Ended \cup {"RUNNING", "AWAITING_CONFIRMATION"},
               step : 0..MaxSteps, results : SUBSET Steps,
               history : {"prefix", "marked", "stripped"},
               identity : {"offline", "remote"}]

Loop == {"model", "answer", "tools", "invoke", "confirmed", "record"}

\* A thread: where it is, its task, the entry point it serves, what the loop
\* carries, the checkpoint its route has loaded and the status it reports.
Thread == [pc : Loop \cup {"rest", "ask", "stampload", "stampsave", "memory",
                          "stripload", "stripsave"},
           task : Tasks \cup {NoTask}, route : {"none", "run", "confirm", "cancel", "cli"},
           step : 0..MaxSteps + 1, results : SUBSET Steps,
           history : {"prefix", "marked", "stripped"},
           copy : Checkpoint \cup {NoTask},
           result : Ended \cup {"NONE", "AWAITING_CONFIRMATION"}]

Rest == [pc |-> "rest", task |-> NoTask, route |-> "none", step |-> 0, results |-> {},
            history |-> "prefix", copy |-> NoTask, result |-> "NONE"]

Busy(t)   == {x \in Threads : th[x].pc # "rest" /\ th[x].task = t}
Stopped(x) == th[x].route = "run" /\ token[th[x].task] = "cancelled"

FaultySnapshot(x, status) ==   \* the step that was not executed is recorded
    [status |-> status, step |-> th[x].step, results |-> th[x].results,
     history |-> th[x].history, identity |-> identity]

\* _checkpoint of what the thread holds; a task out of steps ends at the last.
Snapshot(x, status) ==
    [status |-> status, step |-> IF th[x].step > MaxSteps THEN MaxSteps ELSE th[x].step,
     results |-> th[x].results, history |-> th[x].history, identity |-> identity]

SaveCheckpoint(x, status) == disk' = [disk EXCEPT ![th[x].task] = Snapshot(x, status)]
Release(x) == lock' = [t \in Tasks |-> IF lock[t] = x THEN NoThread ELSE lock[t]]
FaultyLockFree(t) == TRUE
LockFree(t) == lock[t] = NoThread
Goto(x, pc) == th' = [th EXCEPT ![x].pc = pc]
Leave(x)    == th' = [th EXCEPT ![x] = Rest]

--------------------------------------------------------------------------------
(* The loop                                                                *)

\* run: a fresh task id and a first checkpoint, then step 1.  The route
\* found the session before.
StartRun(x, t) ==
    /\ th[x].pc = "rest" /\ disk[t] = NoTask /\ Busy(t) = {} /\ ~expired
    /\ LET me == [Rest EXCEPT !.task = t, !.pc = "model", !.route = "run", !.step = 1] IN
       /\ th' = [th EXCEPT ![x] = me]
       /\ disk' = [disk EXCEPT ![t] =
            [status |-> "RUNNING", step |-> 0, results |-> {}, history |-> "prefix",
             identity |-> identity]]
    /\ token' = [token EXCEPT ![t] = "live"]
    /\ UNCHANGED <<lock, identity, bounds, taskHistory, sessionVars>>

\* A result of the loop: its checkpoint, and back to the route.  Nothing reads
\* the token any more; the command line has nothing left to do.
Finish(x, status) ==
    /\ SaveCheckpoint(x, status)
    /\ Release(x)
    /\ token' = [token EXCEPT ![th[x].task] = "none"]
    /\ IF th[x].route = "cli" THEN Leave(x)
       ELSE th' = [th EXCEPT ![x].pc = "stampload", ![x].result = status]
    /\ UNCHANGED <<identity, bounds, taskHistory, sessionVars>>

\* A safe point: a cancelled token stops the task; the deadline, a budget, a
\* guard hook, a denied tool or a model error fails it.
Stops(x) == \/ Stopped(x) /\ Finish(x, "CANCELLED")
            \/ Finish(x, "FAILED")

\* The head of one step up to the request to the model.
CallModel(x) ==
    /\ th[x].pc = "model"
    /\ \/ th[x].step > MaxSteps /\ Finish(x, "FAILED")
       \/ th[x].step <= MaxSteps /\ Stops(x)
       \/ /\ th[x].step <= MaxSteps /\ ~Stopped(x)
          /\ th' = [th EXCEPT ![x].pc = "answer",
                       ![x].history = IF @ = "prefix" THEN "marked" ELSE @]
          /\ UNCHANGED <<disk, lock, token, identity, bounds, taskHistory, sessionVars>>

\* The answer: final, one call that needs confirmation, or automatic calls.
ModelAnswers(x) ==
    /\ th[x].pc = "answer"
    /\ \/ Stops(x)
       \/ ~Stopped(x) /\ Finish(x, "COMPLETED")
       \/ ~Stopped(x) /\ Finish(x, "AWAITING_CONFIRMATION")
       \/ /\ ~Stopped(x)
          /\ Goto(x, "tools")
          /\ UNCHANGED <<disk, lock, token, identity, bounds, taskHistory, sessionVars>>

\* The safe points before and after an automatic call; the calls of one answer
\* count as one, since nothing is saved between them.
NextTool(x) ==
    /\ th[x].pc = "tools"
    /\ \/ Stops(x)
       \/ /\ ~Stopped(x)
          /\ Goto(x, IF th[x].step \in th[x].results THEN "record" ELSE "invoke")
          /\ UNCHANGED <<disk, lock, token, identity, bounds, taskHistory, sessionVars>>

InvokeTool(x) ==
    /\ th[x].pc = "invoke"
    /\ th' = [th EXCEPT ![x].pc = "tools", ![x].results = @ \cup {th[x].step}]
    /\ invoked' = [invoked EXCEPT ![th[x].task] = @ \cup {th[x].step}]
    /\ UNCHANGED <<disk, lock, token, identity, bounds, confirmed, twice,
                   overwritten, torn, unheard, sessionVars>>

\* The checkpoint after the tools of a step, and on to the next step.
RecordStep(x) ==
    /\ th[x].pc = "record"
    /\ SaveCheckpoint(x, "RUNNING")
    /\ th' = [th EXCEPT ![x].pc = "model", ![x].step = @ + 1]
    /\ UNCHANGED <<lock, token, identity, bounds, taskHistory, sessionVars>>

--------------------------------------------------------------------------------
(* Confirmation, cancellation, resumption                                  *)

\* confirm_agent_task and cancel_agent_task find a checkpoint.
AskConfirm(x, t) ==
    /\ th[x].pc = "rest" /\ disk[t] # NoTask
    /\ th' = [th EXCEPT ![x] = [Rest EXCEPT !.task = t, !.pc = "ask", !.route = "confirm"]]
    /\ UNCHANGED <<disk, lock, token, identity, bounds, taskHistory, sessionVars>>

AskCancel(x, t) ==
    /\ th[x].pc = "rest" /\ disk[t] # NoTask
    /\ th' = [th EXCEPT ![x] = [Rest EXCEPT !.task = t, !.pc = "ask", !.route = "cancel"]]
    /\ UNCHANGED <<disk, lock, token, identity, bounds, taskHistory, sessionVars>>

FaultyConfirmable(c) ==   \* only a task that ran to its end is refused
    c.status \notin {"COMPLETED", "FAILED"} /\ c.identity = identity
Confirmable(c) == c.status = "AWAITING_CONFIRMATION" /\ c.identity = identity

FaultyResumed(x, c) ==   \* the tool results of earlier steps are not restored
    [th[x] EXCEPT !.step = c.step, !.history = c.history]
\* What _resume restores from the checkpoint.
Resumed(x, c) ==
    [th[x] EXCEPT !.step = c.step, !.results = c.results, !.history = c.history]

\* Under the lock: the request is refused, or the confirmation hook passes
\* and the pending tool is next, or the hook fails the task.
Confirm(x) ==
    LET t == th[x].task  c == disk[t] IN
    /\ th[x].pc = "ask" /\ th[x].route = "confirm" /\ LockFree(t)
    /\ \/ ~Confirmable(c) /\ Leave(x) /\ UNCHANGED <<disk, lock>>
       \/ /\ Confirmable(c)
          /\ lock' = [lock EXCEPT ![t] = x]
          /\ th' = [th EXCEPT ![x] = [Resumed(x, c) EXCEPT !.pc = "confirmed"]]
          /\ UNCHANGED disk
       \/ /\ Confirmable(c)
          /\ th' = [th EXCEPT ![x] = [Resumed(x, c) EXCEPT !.pc = "stampload",
                                                           !.result = "FAILED"]]
          /\ disk' = [disk EXCEPT ![t] = [c EXCEPT !.status = "FAILED"]]
          /\ UNCHANGED lock
    /\ UNCHANGED <<token, identity, bounds, taskHistory, sessionVars>>

\* The confirmed tool is invoked while the checkpoint still awaits it; what
\* follows is as after an automatic call.
InvokeConfirmed(x) ==
    LET t == th[x].task  s == th[x].step IN
    /\ th[x].pc = "confirmed"
    /\ th' = [th EXCEPT ![x].pc = "tools", ![x].results = @ \cup {s}]
    /\ invoked' = [invoked EXCEPT ![t] = @ \cup {s}]
    /\ confirmed' = [confirmed EXCEPT ![t] = @ \cup {s}]
    /\ twice' = IF s \in confirmed[t] THEN twice \cup {t} ELSE twice
    /\ UNCHANGED <<disk, lock, token, identity, bounds, overwritten, torn,
                   unheard, sessionVars>>

\* cancel: only a pending confirmation can be cancelled.
Cancel(x) ==
    LET t == th[x].task  c == disk[t] IN
    /\ th[x].pc = "ask" /\ th[x].route = "cancel" /\ LockFree(t)
    /\ \/ /\ c.status # "AWAITING_CONFIRMATION" /\ Leave(x)
          /\ UNCHANGED disk
       \/ /\ c.status = "AWAITING_CONFIRMATION"
          /\ disk' = [disk EXCEPT ![t] =
                        [c EXCEPT !.status = "CANCELLED", !.identity = identity]]
          /\ th' = [th EXCEPT ![x].pc = "memory", ![x].result = "CANCELLED"]
    /\ UNCHANGED <<lock, token, identity, bounds, invoked, confirmed, twice, overwritten, torn,
                   unheard, sessionVars>>

FaultyResumeAt(c) == c.step
ResumeAt(c) == c.step + 1

\* agent_cli --resume-task-id, once nothing runs the task any more: a RUNNING
\* checkpoint continues after the last recorded step.
ResumeRunning(x, t) ==
    LET c == disk[t] IN
    /\ th[x].pc = "rest" /\ Busy(t) = {}
    /\ c # NoTask /\ c.status = "RUNNING" /\ c.identity = identity
    /\ lock' = [lock EXCEPT ![t] = x]
    /\ th' = [th EXCEPT ![x] = [Rest EXCEPT !.task = t, !.pc = "model", !.route = "cli",
                !.step = ResumeAt(c), !.results = c.results, !.history = c.history]]
    /\ UNCHANGED <<disk, token, identity, bounds, taskHistory, sessionVars>>

--------------------------------------------------------------------------------
(* The routes after the loop: load, change and save without a lock         *)

\* _persist_execution_snapshot of a run, confirmed_by of a confirmation.
StampLoad(x) ==
    /\ th[x].pc = "stampload"
    /\ th' = [th EXCEPT ![x].pc = "stampsave", ![x].copy = disk[th[x].task]]
    /\ UNCHANGED <<disk, lock, token, identity, bounds, taskHistory, sessionVars>>

\* The copy replaces whatever the file holds by now.
WriteBack(x, history) ==
    LET t == th[x].task IN
    /\ disk' = [disk EXCEPT ![t] = [th[x].copy EXCEPT !.history = history]]
    /\ overwritten' = IF disk[t] # th[x].copy THEN overwritten \cup {t} ELSE overwritten

StampSave(x) ==
    /\ th[x].pc = "stampsave"
    /\ WriteBack(x, th[x].copy.history)
    /\ th' = [th EXCEPT ![x].pc = "memory", ![x].copy = NoTask]
    /\ UNCHANGED <<lock, token, identity, bounds, invoked, confirmed, twice, torn,
                   unheard, sessionVars>>

\* record_task for a run; one that raises is the end of the request.
Remember(x) ==
    LET t == th[x].task  status == th[x].result IN
    /\ th[x].pc = "memory" /\ th[x].route = "run"
    /\ \E fits \in BOOLEAN :
          IF RecordRaises(t, status, fits)
          THEN Leave(x) /\ UNCHANGED sessionVars
          ELSE RecordTask(t, status)
               /\ IF status \in Ended THEN Goto(x, "stripload") ELSE Leave(x)
    /\ UNCHANGED <<disk, lock, token, identity, bounds, invoked, confirmed, twice,
                   overwritten, torn, unheard>>

\* finalize_task for a confirmation or a cancellation; one that raises is the
\* end of the request, with the task ended and its pending entry kept.
Finalize(x) ==
    LET t == th[x].task  status == th[x].result IN
    /\ th[x].pc = "memory" /\ th[x].route \in {"confirm", "cancel"}
    /\ \E fits \in BOOLEAN :
          IF Awaited(t) /\ ~Refuses(status, fits)
          THEN FinalizeTask(t, status) /\ Goto(x, "stripload") /\ UNCHANGED unheard
          ELSE Leave(x) /\ unheard' = unheard \cup {t} /\ UNCHANGED sessionVars
    /\ UNCHANGED <<disk, lock, token, identity, bounds, invoked, confirmed, twice,
                   overwritten, torn>>

\* strip_checkpoint_session_prefix: without exactly one message of its own
\* the task has no marker and the call raises.
StripLoad(x) ==
    LET t == th[x].task IN
    /\ th[x].pc = "stripload"
    /\ IF disk[t].history = "prefix"
       THEN Leave(x)
       ELSE th' = [th EXCEPT ![x].pc = "stripsave", ![x].copy = disk[t]]
    /\ UNCHANGED <<disk, lock, token, identity, bounds, invoked, confirmed, twice,
                   overwritten, torn, unheard, sessionVars>>

StripSave(x) ==
    LET t == th[x].task IN
    /\ th[x].pc = "stripsave"
    /\ WriteBack(x, "stripped")
    /\ Leave(x)
    /\ UNCHANGED <<lock, token, identity, bounds, invoked, confirmed, twice, torn,
                   unheard, sessionVars>>

--------------------------------------------------------------------------------
(* The surroundings                                                        *)

\* PersistentAgentJobQueue.cancel on the job that runs the task.
RequestCancel(t) ==
    /\ \E x \in Busy(t) : th[x].route = "run" /\ th[x].pc \in Loop
    /\ token[t] = "live" /\ token' = [token EXCEPT ![t] = "cancelled"]
    /\ UNCHANGED <<disk, lock, identity, th, bounds, taskHistory, sessionVars>>

SwitchMode ==
    /\ switches < MaxSwitches /\ switches' = switches + 1
    /\ identity' = IF identity = "remote" THEN "offline" ELSE "remote"
    /\ UNCHANGED <<disk, lock, token, th, troubles, upsets, taskHistory, sessionVars>>

UpsetSession ==
    /\ upsets < MaxUpsets /\ upsets' = upsets + 1
    /\ Clear \/ Expire
    /\ UNCHANGED <<disk, lock, token, identity, th, switches, troubles, taskHistory>>

\* Tasks of these threads with a tool whose result is in no checkpoint.
Unrecorded(xs) ==
    {th[x].task : x \in {y \in xs : th[y].pc \in Loop
                           /\ ~(th[y].results \subseteq disk[th[y].task].results)}}

\* A write of a checkpoint or of the session raises: the request ends with the
\* old file.
SaveRaises(x) ==
    /\ \/ th[x].pc \in {"model", "answer", "tools", "record", "stampsave", "memory", "stripsave"}
       \/ th[x].pc = "ask" /\ LockFree(th[x].task)
    /\ troubles < MaxTroubles /\ troubles' = troubles + 1
    /\ Release(x) /\ Leave(x)
    /\ torn' = torn \cup Unrecorded({x})
    /\ UNCHANGED <<disk, token, identity, switches, upsets, invoked, confirmed,
                   twice, overwritten, unheard, sessionVars>>

\* The process dies and is started again: the files are what is left.
Crash ==
    /\ troubles < MaxTroubles /\ troubles' = troubles + 1
    /\ \E x \in Threads : th[x].pc # "rest"
    /\ th' = [x \in Threads |-> Rest]
    /\ lock' = [t \in Tasks |-> NoThread] /\ token' = [t \in Tasks |-> "none"]
    /\ torn' = torn \cup Unrecorded(Threads)
    /\ UNCHANGED <<disk, identity, switches, upsets, invoked, confirmed, twice,
                   overwritten, unheard, sessionVars>>

--------------------------------------------------------------------------------
Init ==
    /\ SessionInit
    /\ disk = [t \in Tasks |-> NoTask] /\ lock = [t \in Tasks |-> NoThread]
    /\ token = [t \in Tasks |-> "none"] /\ identity = "offline"
    /\ th = [x \in Threads |-> Rest]
    /\ switches = 0 /\ troubles = 0 /\ upsets = 0
    /\ invoked = [t \in Tasks |-> {}] /\ confirmed = [t \in Tasks |-> {}] /\ twice = {}
    /\ overwritten = {} /\ torn = {} /\ unheard = {}

\* A thread that is not waiting for a lock.
Proceed(x) ==
    \/ CallModel(x) \/ ModelAnswers(x) \/ NextTool(x) \/ InvokeTool(x) \/ RecordStep(x)
    \/ InvokeConfirmed(x) \/ StampLoad(x) \/ StampSave(x) \/ Remember(x) \/ Finalize(x)
    \/ StripLoad(x) \/ StripSave(x)

Next ==
    \/ \E x \in Threads : Proceed(x) \/ Confirm(x) \/ Cancel(x) \/ SaveRaises(x)
    \/ \E x \in Threads, t \in Tasks :
          StartRun(x, t) \/ AskConfirm(x, t) \/ AskCancel(x, t) \/ ResumeRunning(x, t)
    \/ \E t \in Tasks : RequestCancel(t)
    \/ SwitchMode \/ UpsetSession \/ Crash

Spec == Init /\ [][Next]_vars

--------------------------------------------------------------------------------
(* Properties                                                              *)

TypeOK ==
    /\ SessionTypeOK
    /\ disk \in [Tasks -> Checkpoint \cup {NoTask}] /\ lock \in [Tasks -> Threads \cup {NoThread}]
    /\ token \in [Tasks -> {"none", "live", "cancelled"}] /\ identity \in {"offline", "remote"}
    /\ th \in [Threads -> Thread]
    /\ invoked \in [Tasks -> SUBSET Steps] /\ confirmed \in [Tasks -> SUBSET Steps]

\* At most one thread is inside the loop of a task: a run that handed over to
\* a confirmation has left it, and the lock keeps two confirmations apart.
OneDriver == \A t \in Tasks : Cardinality({x \in Busy(t) : th[x].pc \in Loop}) <= 1

\* A confirmation is consumed once: the pending tool of a step runs at most
\* once, unless a checkpoint was overwritten by an older copy, or the process
\* or a write failed between the tool and its checkpoint.
ConfirmedOnce == twice \subseteq overwritten \cup torn

\* Every tool that ran is in the results of the finished task, over any number
\* of confirmations and restarts, unless its checkpoint was overwritten or the
\* process or a write failed between a tool and its checkpoint.
ResultsAreComplete ==
    \A t \in Tasks \ (overwritten \cup torn) :
        (disk[t] # NoTask /\ disk[t].status \in Ended) => disk[t].results = invoked[t]

\* Both: a tool runs for its confirmation, and its result is kept.
ToolsAreKept == ConfirmedOnce /\ ResultsAreComplete

\* A task gives its session one turn at most, however often it is confirmed,
\* cancelled or recovered.
OneTurnPerTask == \A t \in Tasks : Cardinality({i \in 1..Len(turns) : turns[i] = t}) <= 1

\* The session waits only for tasks that await a confirmation, once their
\* requests are done.  The exceptions are the ends it did not take: one that
\* overtook the record of the run that paused the task, and one whose answer
\* is blank or too long, for which finalize_task raises and leaves the entry.
SessionFollowsTasks ==
    troubles = 0 =>
        \A t \in pending \ (unheard \cup overwritten) :
            Busy(t) = {} => disk[t].status = "AWAITING_CONFIRMATION"

\* Both, for tasks that compete for a session that is cleared and expires.
SessionIsKept == OneTurnPerTask /\ SessionFollowsTasks

\* A finished task stays as it ended, unless its checkpoint was overwritten.
EndIsFinal ==
    [][\A t \in Tasks :
         (disk[t] # NoTask /\ disk[t].status \in Ended /\ t \notin overwritten')
            => disk'[t].status = disk[t].status]_vars

\* A step the checkpoint records is not executed again, also after a crash:
\* the automatic tools that run belong to a later step.
NoStepRepeats ==
    [][\A x \in Threads :
         (th[x].pc = "invoke" /\ th'[x].pc = "tools" /\ th[x].task \notin overwritten)
            => th[x].step > disk[th[x].task].step]_vars

\* Each confirmation is consumed once.  Two requests that overlap break it:
\* the first one writes its copy back over the end the second one recorded.
ConfirmationIsConsumedOnce == twice = {}

================================================================================
