---------------------------- MODULE VisionSupervisor ----------------------------
(***************************************************************************)
(* apps/vision_supervisor.py: one process starts the vision worker, polls  *)
(* it, serves one restart request at a time from a control file and        *)
(* publishes its state.  pc names the place in run(); "look" is the part   *)
(* of an iteration after child.poll() found the worker alive.  The count   *)
(* of restarts is one less than the generation whenever a worker runs, and *)
(* is left out.                                                            *)
(***************************************************************************)
EXTENDS CameraLifecycle

CONSTANTS
    Requests,     \* identities uuid4 can hand out
    NoRequest,    \* no request
    MaxBoots,     \* bound on starts of the supervisor
    MaxTroubles   \* bound on failures of worker and device

ASSUME SupervisorAssumption ==
    /\ NoRequest \notin Requests
    /\ MaxBoots \in Nat \ {0} /\ MaxTroubles \in Nat /\ MaxFaults \in Nat

VARIABLES
    pc,           \* "off", "check", "poll", "look" or "ended"
    stop,         \* stop_event
    generation,
    wasRunning,   \* generation_was_running
    lastId,       \* last_control_request_id
    control,      \* last_control_status
    pendingId,    \* _pending_restart_request_id
    published,    \* vision-supervisor.json
    device,       \* the camera is plugged in
    worker,       \* the child process
    vision,       \* current-vision.json, seen from the current generation
    request,      \* vision-control.json
    boots, troubles,
    served,       \* history: requests a worker was terminated for
    again,        \* history: requests served more than once
    cured         \* history: requests followed by a frame of a new worker

memory == <<lastId, control, pendingId>>
outside == <<device, worker, vision>>
restarts == <<served, again, cured>>
supervisorVars == <<pc, stop, generation, wasRunning, memory, published, outside, request,
                    boots, troubles, restarts, lifecycleVars>>

NoFile == [id |-> NoRequest, valid |-> FALSE]
Published(status, gen, w, id, c) ==
    [status |-> status, generation |-> gen, worker |-> w, id |-> id, control |-> c]

\* _publish with what the fields hold after the action; w is the worker then.
Publish(status, w) ==
    /\ published' = Published(status, generation', w = "up", lastId', control')
    /\ OnStatus(status)

\* read_restart_request: one that has not expired and was not served last.
Readable == request.valid /\ request.id # lastId

--------------------------------------------------------------------------------
(* The loop                                                                *)

FaultyRemembered == NoRequest
FaultyRememberedWhole == IF request.valid THEN request ELSE NoRequest
\* A request that predates this process is never replayed.
Remembered == IF request.valid THEN request.id ELSE NoRequest

Boot ==
    /\ pc = "off" /\ boots < MaxBoots
    /\ boots' = boots + 1 /\ pc' = "check" /\ lastId' = Remembered
    /\ UNCHANGED <<stop, generation, wasRunning, control, pendingId, outside, request,
                   troubles, restarts>>
    /\ Publish("STARTING", worker')

WaitForCamera ==
    /\ pc = "check" /\ ~stop /\ device = "gone"
    /\ UNCHANGED <<pc, stop, generation, wasRunning, memory, outside, request, boots,
                   troubles, restarts>>
    /\ Publish("WAITING_FOR_CAMERA", worker')

\* Popen and the two publications around it; a frame of the generation before
\* does not count for this one.
Launch ==
    /\ pc = "check" /\ ~stop /\ device = "there"
    /\ generation' = generation + 1 /\ wasRunning' = FALSE
    /\ worker' = "up" /\ vision' = IF vision = "absent" THEN "absent" ELSE "old"
    /\ pc' = "poll"
    /\ UNCHANGED <<stop, memory, device, request, boots, troubles, restarts>>
    /\ Publish("STARTING", worker')

LaunchFails ==
    /\ pc = "check" /\ ~stop /\ device = "there"
    /\ troubles < MaxTroubles /\ troubles' = troubles + 1
    /\ generation' = generation + 1
    /\ UNCHANGED <<pc, stop, wasRunning, memory, outside, request, boots, restarts>>
    /\ Publish("RESTARTING", worker')

FaultyPollWorker ==   \* an exit is left to the age of the last frame
    /\ pc = "poll" /\ ~stop
    /\ pc' = "look"
    /\ UNCHANGED <<stop, generation, wasRunning, memory, published, outside, request,
                   boots, troubles, restarts, lifecycleVars>>

\* child.poll(): an exit ends the generation.
PollWorker ==
    /\ pc = "poll" /\ ~stop
    /\ pc' = IF worker = "up" THEN "look" ELSE "ended"
    /\ UNCHANGED <<stop, generation, wasRunning, memory, published, outside, request,
                   boots, troubles, restarts, lifecycleVars>>

\* A published end of the generation, and the termination of its worker.
EndGeneration(status) ==
    /\ pc' = "ended" /\ worker' = IF worker = "up" THEN "exited" ELSE worker
    /\ UNCHANGED <<stop, generation, wasRunning, device, vision, request, boots>>
    /\ Publish(status, worker)

AcceptRequest ==
    /\ pc = "look" /\ Readable
    /\ lastId' = request.id /\ pendingId' = request.id /\ control' = "ACCEPTED"
    /\ served' = served \cup {request.id}
    /\ again' = IF request.id \in served THEN again \cup {request.id} ELSE again
    /\ UNCHANGED <<troubles, cured>>
    /\ EndGeneration("RESTARTING")

SeeDeviceGone ==
    /\ pc = "look" /\ ~Readable /\ device = "gone"
    /\ UNCHANGED <<memory, troubles, restarts>>
    /\ EndGeneration("CAMERA_OFFLINE")

\* Both sides are None before the first request, which completes nothing.
Answers == pendingId = lastId

\* A fresh frame answers the restart that waits for it; the first of all
\* generations sets COMPLETED without one.
SeeFresh ==
    /\ pc = "look" /\ ~Readable /\ device = "there" /\ vision = "fresh"
    /\ wasRunning' = TRUE
    /\ control' = IF Answers THEN "COMPLETED" ELSE control
    /\ pendingId' = IF Answers THEN NoRequest ELSE pendingId
    /\ pc' = "poll"
    /\ UNCHANGED <<stop, generation, lastId, outside, request, boots, troubles, restarts>>
    /\ Publish("RUNNING", worker')

SeeStalled ==
    /\ pc = "look" /\ ~Readable /\ device = "there" /\ vision # "fresh" /\ wasRunning
    /\ UNCHANGED <<memory, troubles, restarts>>
    /\ EndGeneration("VISION_STALLED")

\* No frame yet: STARTING again, or the startup timeout has passed.
SeeNothing ==
    /\ pc = "look" /\ ~Readable /\ device = "there" /\ vision # "fresh" /\ ~wasRunning
    /\ pc' = "poll"
    /\ UNCHANGED <<stop, generation, wasRunning, memory, outside, request, boots, troubles,
                   restarts>>
    /\ Publish("STARTING", worker')

StartupTimesOut ==
    /\ pc = "look" /\ ~Readable /\ device = "there" /\ vision # "fresh" /\ ~wasRunning
    /\ troubles < MaxTroubles /\ troubles' = troubles + 1
    /\ UNCHANGED <<memory, restarts>>
    /\ EndGeneration("VISION_STALLED")

Relaunch ==
    /\ pc = "ended" /\ ~stop
    /\ pc' = "check" /\ worker' = "none"
    /\ UNCHANGED <<stop, generation, wasRunning, memory, device, vision, request, boots,
                   troubles, restarts>>
    /\ Publish("RESTARTING", worker')

\* The process and its worker are gone, and its memory with them.
Ends ==
    /\ pc' = "off" /\ worker' = "none" /\ stop' = FALSE
    /\ generation' = 0 /\ wasRunning' = FALSE
    /\ lastId' = NoRequest /\ control' = "NONE" /\ pendingId' = NoRequest

\* The finally block.
Exit ==
    /\ stop /\ pc \in {"check", "poll", "ended"}
    /\ published' = Published("STOPPED", generation, FALSE, lastId, control)
    /\ Ends /\ LastStatus
    /\ UNCHANGED <<device, vision, request, boots, troubles, restarts>>

--------------------------------------------------------------------------------
(* The surroundings                                                        *)

\* SIGTERM, between any two steps: request_stop terminates the worker itself.
Stop ==
    /\ pc # "off" /\ ~stop /\ boots < MaxBoots
    /\ stop' = TRUE /\ worker' = IF worker = "up" THEN "exited" ELSE worker
    /\ UNCHANGED <<pc, generation, wasRunning, memory, published, device, vision, request,
                   boots, troubles, restarts, lifecycleVars>>

\* Power loss, or a state file that cannot be written: the last publication
\* stays as it was.
Crash ==
    /\ pc # "off" /\ boots < MaxBoots
    /\ Ends /\ Lost
    /\ UNCHANGED <<published, device, vision, request, boots, troubles, restarts>>

WorkerFrame ==
    /\ worker = "up" /\ device = "there" /\ vision # "fresh"
    /\ vision' = "fresh"
    /\ cured' = cured \cup (IF lastId \in served THEN {lastId} ELSE {})
    /\ UNCHANGED <<pc, stop, generation, wasRunning, memory, published, device, worker,
                   request, boots, troubles, served, again, lifecycleVars>>

\* A worker that hangs or exits; a dead one leaves its last frame to age.
WorkerFails ==
    /\ worker = "up" /\ troubles < MaxTroubles /\ troubles' = troubles + 1
    /\ \/ worker' = "exited" /\ UNCHANGED vision
       \/ vision = "fresh" /\ vision' = "stale" /\ UNCHANGED worker
    /\ UNCHANGED <<pc, stop, generation, wasRunning, memory, published, device, request,
                   boots, restarts, lifecycleVars>>

FrameAges ==
    /\ vision = "fresh" /\ (worker # "up" \/ device = "gone")
    /\ vision' = "stale"
    /\ UNCHANGED <<pc, stop, generation, wasRunning, memory, published, device, worker,
                   request, boots, troubles, restarts, lifecycleVars>>

DeviceChanges ==
    /\ \/ /\ device = "there" /\ device' = "gone"
          /\ troubles < MaxTroubles /\ troubles' = troubles + 1
       \/ device = "gone" /\ device' = "there" /\ UNCHANGED troubles
    /\ UNCHANGED <<pc, stop, generation, wasRunning, memory, published, worker, vision,
                   request, boots, restarts, lifecycleVars>>

--------------------------------------------------------------------------------
SupervisorInit ==
    /\ pc = "off" /\ stop = FALSE /\ generation = 0 /\ wasRunning = FALSE
    /\ lastId = NoRequest /\ control = "NONE" /\ pendingId = NoRequest
    /\ published = Published("STOPPED", 0, FALSE, NoRequest, "NONE")
    /\ device = "there" /\ worker = "none" /\ vision = "absent" /\ request = NoFile
    /\ boots = 0 /\ troubles = 0 /\ served = {} /\ again = {} /\ cured = {}
    /\ LifecycleInit

Run == \/ WaitForCamera \/ Launch \/ PollWorker \/ AcceptRequest \/ SeeDeviceGone
       \/ SeeFresh \/ SeeStalled \/ SeeNothing \/ Relaunch \/ Exit

SupervisorNext ==
    \/ Boot \/ Run \/ LaunchFails \/ StartupTimesOut \/ Stop \/ Crash
    \/ WorkerFrame \/ WorkerFails \/ FrameAges \/ DeviceChanges

================================================================================
