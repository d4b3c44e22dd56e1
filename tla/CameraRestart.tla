------------------------------ MODULE CameraRestart ------------------------------
(***************************************************************************)
(* CameraRestartTools.restart of packages/harness/camera_tools.py against  *)
(* the supervisor: one call at a time, which writes the control file and   *)
(* waits for the supervisor's answer in its published state.               *)
(***************************************************************************)
EXTENDS VisionSupervisor

VARIABLES
    call,      \* "idle" or the request the call waits for
    before,    \* the generation before the request
    outcome    \* history: how the call of a request ended

clientVars == <<call, before, outcome>>
vars == <<supervisorVars, clientVars>>

\* _require_healthy; the state of a supervisor that died counts until it is
\* older than ten seconds.
Healthy == published.status = "RUNNING" /\ published.worker

RequestRestart(r) ==
    /\ call = NoRequest /\ outcome[r] = "NONE" /\ Healthy
    /\ call' = r /\ before' = published.generation
    /\ request' = [id |-> r, valid |-> TRUE]
    /\ outcome' = [outcome EXCEPT ![r] = "WAITING"]
    /\ UNCHANGED <<pc, stop, generation, wasRunning, memory, published, outside, boots,
                   troubles, restarts, lifecycleVars>>

FaultyConfirmed ==   \* the generation is not compared
    /\ published.id = call /\ published.status = "RUNNING"
Confirmed ==
    /\ published.id = call /\ published.control = "COMPLETED"
    /\ published.status = "RUNNING" /\ published.worker
    /\ published.generation > before

RestartReturns ==
    /\ call # NoRequest /\ Confirmed
    /\ outcome' = [outcome EXCEPT ![call] = "DONE"]
    /\ call' = NoRequest /\ before' = 0
    /\ UNCHANGED supervisorVars

\* Ninety seconds have passed, so the request expired long before.
RestartTimesOut ==
    /\ call # NoRequest /\ ~request.valid
    /\ outcome' = [outcome EXCEPT ![call] = "FAILED"]
    /\ call' = NoRequest /\ before' = 0
    /\ UNCHANGED supervisorVars

\* The process of the tool dies while it waits.
CallerDies ==
    /\ call # NoRequest /\ boots < MaxBoots
    /\ outcome' = [outcome EXCEPT ![call] = "LOST"]
    /\ call' = NoRequest /\ before' = 0
    /\ UNCHANGED supervisorVars

\* Thirty seconds have passed since the request was written.
RequestExpires ==
    /\ request.valid /\ request' = [request EXCEPT !.valid = FALSE]
    /\ UNCHANGED <<pc, stop, generation, wasRunning, memory, published, outside, boots,
                   troubles, restarts, lifecycleVars, clientVars>>

Init == SupervisorInit /\ call = NoRequest /\ before = 0 /\ outcome = [r \in Requests |-> "NONE"]

Next ==
    \/ SupervisorNext /\ UNCHANGED clientVars
    \/ \E r \in Requests : RequestRestart(r)
    \/ RestartReturns \/ RestartTimesOut \/ CallerDies \/ RequestExpires

Spec == Init /\ [][Next]_vars

\* The loop of the supervisor runs, and a worker that is up and has a camera
\* delivers frames.
FairSpec ==
    /\ Spec
    /\ WF_vars(Run /\ UNCHANGED clientVars)
    /\ WF_vars(WorkerFrame /\ UNCHANGED clientVars)

--------------------------------------------------------------------------------
(* Properties                                                              *)

Statuses == OutageStatuses \cup {"STARTING", "RUNNING", "STOPPED"}

TypeOK ==
    /\ LifecycleTypeOK
    /\ pc \in {"off", "check", "poll", "look", "ended"} /\ stop \in BOOLEAN
    /\ generation \in Nat /\ wasRunning \in BOOLEAN
    /\ {lastId, pendingId, request.id, call} \subseteq Requests \cup {NoRequest}
    /\ control \in {"NONE", "ACCEPTED", "COMPLETED"} /\ published.status \in Statuses
    /\ device \in {"there", "gone"} /\ worker \in {"none", "up", "exited"}
    /\ vision \in {"absent", "old", "fresh", "stale"}

\* A confirmed restart happens once, over every stop, crash and start of the
\* supervisor while the control file is still there.
RestartsOnce == again = {}

\* A restart that is reported done had its worker replaced, and the new one
\* has delivered a frame.
DoneMeansRestarted == \A r \in Requests : outcome[r] = "DONE" => r \in served \cap cured

\* Both: what the tool reports of a restart is what the supervisor did.
RestartsAreHonest == RestartsOnce /\ DoneMeansRestarted

\* Outages and recoveries come in pairs: after an outage comes the recovery
\* that names it, unless the process ended during the outage.
OutagesArePaired ==
    \A i \in 1..Len(emitted) :
        emitted[i] = IF i > 1 /\ emitted[i - 1].type = "CAMERA_OFFLINE" /\ i - 1 \notin cutShort
                     THEN [type |-> "CAMERA_RECOVERED", offline |-> i - 1]
                     ELSE [type |-> "CAMERA_OFFLINE", offline |-> i]

\* No event is in the file twice, however its writes failed.
LinesAreUnique == IsInjective(lines)

\* An event that no longer waits is in the table and in the file, unless its
\* line follows a torn one or the process ended before it was written.
EventsAreKept ==
    \A e \in 1..Len(emitted) : e \notin Range(waiting) \cup garbled \cup dropped
                                  => e \in table /\ e \in Range(lines)

\* Both: each event is in each store once, or it still waits.
EventsAreKeptOnce == LinesAreUnique /\ EventsAreKept

\* With a camera the supervisor comes back to RUNNING, after whatever failed.
SupervisorRecovers ==
    (pc # "off" /\ device = "there" /\ ~stop)
        ~> (published.status = "RUNNING" \/ device = "gone" \/ stop \/ pc = "off")

================================================================================
