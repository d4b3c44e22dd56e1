# EdgeSentinel VisionOps: TLA+ models

EdgeSentinel runs on one edge device. A supervisor process keeps a vision
worker alive; the worker turns frames into zone and stock events; an API
process serves the dashboard, an agent that calls tools, and a queue of agent
jobs; command line programs clean up, back up, restore and restart. State
lives in JSON files replaced as a whole, in a SQLite table with a JSON Lines
file beside it, and in memory under locks. This directory models the parts
whose correctness depends on the order of steps of several actors, on writes
that fail, on processes that die, and on rules that were written apart and
have to agree.

Source paths are relative to the repository's root; `PROJECT.json` maps every
definition to the lines it stands for.

## 1. Inventory

### Components modelled

| Component | Source | State | Operations | Hard behaviour | Correct means |
|---|---|---|---|---|---|
| Agent job queue | `packages/harness/task_queue.py` | metadata, bodies, deque and tokens in memory, one file per job | submit, cancel, close, worker loop, load | a write that raises in a critical section, a crash at any step, stale ids in the deque, eviction at two limits | a job runs at most once, ends once, and its file says so |
| Job event stream | `apps/api_server.py` | last id sent | open, send, end | the stream breaks, the process restarts, a notification is skipped | changes in order, one end, never ahead of the files |
| Model runtime | `packages/harness/model_runtime.py` | mode, circuit breaker, counters | set_mode, generate | late answers of concurrent callers, untranslated exceptions | fields agree, every request is counted, a call always returns |
| Agent loop and tool calls | `packages/harness/agent_loop.py`, `registry.py`, `router.py`, `policy.py`, `hooks.py`, `execution_control.py`, `checkpoint.py` | one checkpoint per task, locks, tokens, counters | run, resume, cancel; route, validate, invoke | pause for a person, crash between tool and checkpoint, a cancellation between check and act, budgets that are read before they are spent | no recorded step twice, an end stays, one driver; nothing runs outside the rules |
| Task routes | `apps/api_server.py` | a copy of the checkpoint | run, confirm, cancel | load and save without the task's lock | a confirmation is consumed once |
| Session memory | `packages/harness/session_memory.py` | turns, pending tasks, expiry | record, finalize, clear, expire | a confirmation overtakes the record of the pause; an answer the session refuses | one turn per task, no dead pending entry |
| Offline model and default tools | `packages/harness/mock_model.py`, `default_tools.py` | the text, the route, the results so far | decide, call, confirm | keywords of the model, of the router and the schemas written apart; calls that follow from results | calls fit their schemas, deletions name what was shown |
| Long-term memory | `packages/harness/long_term_memory.py` | one file, one lock per process | remember, forget | two processes, a write that raises | the file stays readable, what was confirmed is kept |
| MCP host, client, server | `packages/mcp/` | child process, queue of answers, request numbers, what discovery found | connect, request, close, discover | late, unreadable and missing answers, a second process with the first one's queue | each caller its own answer; a discovery that read the running server leaves nothing of an earlier one |
| Authentication | `packages/api/auth_service.py` | sessions, failures, lockouts | login, authenticate, logout | the slow verification runs without the lock | lockouts are earned, sessions that ended are dead |
| Event table and reports | `packages/events/sqlite_store.py`, `summary.py` | rows and their status | append, query, acknowledge, summarize | rows come in between two pages or two statements of one report; two acknowledgements | pages are exact, the first acknowledgement stays, a report adds up |
| Vision worker | `apps/vision_probe.py`, `packages/tracking/`, `packages/analytics/`, `packages/events/engine.py` | tracks, presence per zone, stable counts, checkpoints | one frame at a time | missed and swapped detections, reloads with tracks inside, a write that fails between image, line and row or is torn | visits in order, exact debounce, counts that add up from the file |
| Zone configuration | `packages/api/zone_service.py`, `packages/analytics/zone_reloader.py` | file, backups, engine in force | save, reload | two savers and an editor, a change between two digests | saves replace what was seen, the file is followed |
| Vision supervisor | `apps/vision_supervisor.py` | generation, published state, last request | start, poll, relaunch, accept, stop | a signal between two steps, a restart during a request, stale frames | back to RUNNING; a request served once |
| Camera events | `packages/monitoring/camera_events.py` | open outage, waiting events, two stores | on_status, retry | one of two writes fails, or writes a part | outages paired with recoveries, each event once in both stores |
| Camera restart tool | `packages/harness/camera_tools.py` | the call that waits | request, confirm, time out | the supervisor dies while the caller waits | done means done |
| Retention | `packages/monitoring/retention.py`, `packages/harness/retention_tools.py` | cached preview, audit | preview, confirmed cleanup | files written after they were shown, two cleanups, death between two removals | audited before removed, the newest stay |
| Recovery | `packages/harness/disaster_recovery.py`, `recovery_export.py`, `scripts/recovery_capacity_manager.py` | backups, exports, plan | create, export, restore, remove | the copy is not atomic, a restore or a removal dies or raises half-way | rows have their images, a restore is whole, only planned backups go |
| Service manager | `apps/service_manager.py`, `apps/reboot_marker.py` | state file, process, marker | start, stop, status, mark, verify | process ids used again, calls that overlap or are killed, reboots | the record names what runs, stopped means nothing runs |

How they interact. The HTTP threads put jobs into the queue. Its worker thread
calls `execute_agent_request`, which runs the agent loop and then writes the
checkpoint and the session. The loop asks the model runtime (or the offline
model behind it) and invokes tools through the router, the registry and the
policy; a tool that needs a person ends the run, and a later HTTP thread
resumes it. `cancel` of the queue sets a token that the loop reads at its safe
points. Tools read what the vision worker publishes: its state file, the event
table and the images. The worker polls the configuration the zone service
replaces. The restart tool and the supervisor share two files: the request and
the published state; each publication of the supervisor also drives the camera
events. Cleanup and recovery work on the files of all of them without telling
them.

### Not modelled

Each has an entry in `PROJECT.json` with the reason.

- **No decisions to check**: trace and audit logs that nothing reads back to
  decide, the read-only services and measurements, the TLS proxy, the
  dashboard's own code, shell scripts and units.
- **Text**: prompt building and token estimates (`context.py`), the wording of
  answers, how a message scores against a tool's aliases (a constant here),
  how the gateway writes a request and reads a response.
- **Formats and numbers**: polygons and anchors (a constant table of which box
  is in which zone), detectors and cameras (inputs), archives, encryption,
  password hashes and signatures (exact), validation of a zone document (good,
  broken, or alien), migration of old databases.
- **Batch tools of the repository**: release checks, publication, the
  evaluation harness.

## 2. Plan

Done, in this order: queue and stream, circuit, task and session, supervisor
with camera events and restart requests; zone events against `ZonePresence`,
tracking and inventory with the event path, zone configuration; tool calls
under their limits, logins, event table, reports, long-term memory, MCP;
retention, recovery, service manager; offline model and default tools.

What is left, in the order of its worth:

1. Compositions across a file: cleanup against the vision worker's event path,
   a restore against the zone reloader.
2. The trimming of a prompt (`context.py`) as an algorithm over message sizes;
   the migration of old event databases.

## 3. Modules

| Module | Models | Composed of |
|---|---|---|
| `AgentJobQueue` | `PersistentAgentJobQueue`, one action per critical section | |
| `JobLifecycle` | abstract: the life of one job in its file | |
| `AgentJobStream` | `stream_agent_job`, one client of one job | EXTENDS `AgentJobQueue` |
| `ModelCircuit` | `SwitchableModel` | |
| `DefaultTools` | the registered tools: schemas, policy, dependencies | |
| `OfflineAgent` | a task on the offline model | EXTENDS `DefaultTools`, INSTANCE `ToolCatalog` |
| `AgentRuntime` | stream, circuit and offline model | EXTENDS the three |
| `SessionMemory` | one session file: operators, no Next of its own | |
| `AgentTask` | loop, routes and checkpoints of the session's tasks | EXTENDS `SessionMemory` |
| `ToolCatalog` | validation, policy decision and routing, as operators | |
| `ToolTurn` | one task's turns: model, guards, budgets, handlers | EXTENDS `ToolCatalog` |
| `AuthSessions` | `AuthService` | |
| `EventLedger` | query pages and acknowledgements | |
| `EventSummary` | `EventSummaryService.summarize`, statement by statement | |
| `LongTermMemory` | `LongTermMemoryStore`, in two processes | |
| `McpSession` | host, client and server over pipes | |
| `ApiServices` | the six above | EXTENDS them |
| `Tracking` | the tracker of one frame | |
| `ZoneEvents` | tracker, zone snapshot, people, enter/dwell/exit | EXTENDS `Tracking` |
| `ZonePresence` | abstract: what is said of a track in a zone | |
| `Inventory` | debounced counts and the left-behind wait, as operators | |
| `VisionProbe` | stock, images, records, published state of a frame | EXTENDS `Inventory` |
| `ZoneConfig` | savers, editors and the reloader of the configuration | |
| `VisionPipeline` | the three above | EXTENDS `ZoneEvents`, `VisionProbe`, `ZoneConfig` |
| `CameraLifecycle` | the events: operators, no Next of its own | |
| `VisionSupervisor` | the supervisor's loop | EXTENDS `CameraLifecycle` |
| `CameraRestart` | the restart tool against the supervisor | EXTENDS `VisionSupervisor` |
| `Retention`, `Recovery`, `ServiceHost` | the host's programs | |
| `HostServices` | the three above | EXTENDS them |
| `...Proofs` | proofs about the module named, or about the two or three parts of a composition | EXTENDS it or them |
| `MC...` | model values, inputs, symmetry and constraints | EXTENDS the module named |

Definitions named `Faulty...` are wrong variants of the definition after them.
They are in no specification; replacing the right one by the wrong one shows
which property notices. Variables marked *history* record what happened; no
guard of the program reads them.

`AgentRuntime`, `ApiServices`, `VisionPipeline` and `HostServices` put
components side by side that share no variable: a variable `part` says whose
behaviour it is, and the others rest. An interleaving of two of them would show
nothing that one alone does not, so none is lost, and each component keeps its
own specification (`ZoneSpec`, `TurnSpec`, ...). Components that do share state
are composed for real: stream and queue, task and session, supervisor, camera
events and restart tool, tracker and zones, stock and records, savers and
reloader.

### The job queue

Every method of the class runs under one condition variable, so a critical
section is an action. The worker's loop has several: wait and take
(`WorkerSleeps`, `WorkerSkips`, `WorkerTakes`), record the result, record a
failure, drop the token; the executor runs between them without the lock.
`jobs`, `requests`, `queue`, `controls` are the containers of the object,
`disk` the files. `Save` replaces a file or raises with the old one in place,
and every action that saves has both outcomes: after a raise, the memory is
already changed, what follows is skipped, `notify_all` included. `Crash` loses
the memory at any point; `Boot` and `LoadFile` read the files back one by one,
so a second crash may meet a half-finished load. Bodies and keys are model
values; an id is used once, as a UUID is.

### The stream

One client, one job. `Changed` is the predicate `wait_for_change` evaluates.
The wait has a timeout, so a wake-up that never came is not needed for it to be
true, and `SendEvent` does not depend on one. The client reconnects with the
last id it saw.

### The circuit breaker

A call goes through the lock twice, at admission and when its answer comes;
`pc` says where it is. `Fails` and `Succeeds` act on whatever the circuit is by
then, which is what the code does: a late answer of an early call may close or
open a circuit that another call probes. Retries do not touch the lock.
`Escapes` is an exception the gateway does not translate; it leaves a half-open
circuit without a probe, which is why `ProbeDecides` excepts it.

### The offline model and the tools

`DefaultTools` has every registered tool with its input schema, policy and
route dependency. `OfflineAgent` has every rule of `generate` in the order of
the code (the order matters: the first rule that matches decides) and the two
chains in which a result leads to another call. A text is what it says, as a set
of keyword groups, and what it gives: ids, numbers, names. The router finds any
of the sets `Found` allows, because its aliases are written apart from the
model's keywords. `ToolCatalog` then validates the call as the registry does.
A handler is a step that succeeds or fails, with data that may be stale.

### Tasks and sessions

`th` is a thread with its program counter. The loop holds the task's lock only
in `resume` and `cancel`; a run takes none. After the loop, each route loads a
checkpoint, changes it and saves it without a lock: `StampLoad`/`StampSave` and
`StripLoad`/`StripSave`. Results are sets of steps, because what matters is
which step's tool ran and which is recorded. Abstractions:

- all tasks belong to one session;
- budgets, deadline, guard hooks, denied tools and model errors are one
  nondeterministic failure at the safe points where the code checks them;
- the automatic calls of one answer are one call: nothing is saved between them;
- a checkpoint with status PAUSED exists only as the RUNNING checkpoint a
  crash leaves, and the command line resumes it when no thread runs the task,
  as an operator would; two operators who resume the same task at once are not
  modelled;
- one session file is cleared or expires; creating sessions is not modelled.

### Tool calls

`ToolTurn` opens what `AgentTask` treats as one step: the safe points before
the model, before a guard and before a handler, the counters of execution
control, the deadline, the hooks and the policy, in their order.
A cancellation or the passing of time comes between any two. A budget is
checked before it is spent, so the answer that breaks a token budget is the
last. Scores of the router are an input; its choice, order and dependencies
are modelled in `ToolCatalog`.

### Logins

`login` looks at the lockouts, verifies the password without the lock, then
counts a failure or opens a session: `AuthSessions` splits it there. Time is a
counter; tables have the limits the code evicts at. `missed` is the history a
lockout is judged by: the failures of a key since its last success, each with its
time and its number among those of that time.

### Event table and reports

In `EventLedger` a client walks by cursor while rows arrive and are
acknowledged; acknowledgement reads and updates over two connections. In
`EventSummary` a report is a sequence of statements, one step each, with
arrivals and changes of status between; groups, timeline buckets, comparison
and reference windows are translated from `summary.py`, limits included.
`changes` and `grew` say what came between, and the properties say what a
report may be wrong about then. The list strips its text filters
(`event_service.py:86-88`), the counting statements do not (`summary.py:115`):
with a filter that is `padded` with spaces the list finds rows and every count is
zero, and the properties state both halves.

### Long-term memory

A call takes its store's lock, loads, changes its copy and saves. Two processes
have two locks and one file; `overtaken` marks what such a lost update may have
undone. The code has no lock between processes, so no property promises more.

### MCP

A client waits for one answer at a time and only so long. Its queue and its
numbers outlive the process, so `replies` can hold answers of a server that is
gone. Reader thread, server, wire and caller are separate actions. `discover`
reads three lists, one request each, and the host passes on what its rules
allow. It replaces what it knew only when it has all three (`host.py:26-29`), so a
discovery that fails earlier leaves the tools of an earlier server, which are
passed on to the present one. `taken`, the start whose three lists were last read
in full, tells the two cases apart: `HostFollowsTheLists` holds the host to the
running server once its lists were read, and until then to tools that some server
listed as safe.

### The vision worker

`ZoneEvents` is one frame: match by overlap (fractions of integers), drop lost
tracks, take the zones each box is in, count people, move each pair of zone and
track through the debounce. A reload begins a new engine when zones changed. The
events told refine `ZonePresence`: ENTER, at most one DWELL, EXIT. `window` keeps
who was present in the last frames, and the debounce is compared with its
definition over them.

`VisionProbe` is the stock of the same frame on the way to the records: stable
counts, image before and after, line, row, published state, with a write that
raises and a process that ends at any of them and is started again over the
same files. An image, written in place, may be left in part (`Torn`), and so may
a line; the next life then writes its first line behind that part (`tornTail`,
`glued`), which costs that line and no other. `sitting` is the history the image
before is judged by: how long a count is in force, whether a checkpoint must show
it by now, and which count is owed to the change that ended it. `Inventory` holds
the two counters as functions.

`ZoneConfig` has two callers of the API, who load, check the version they saw,
back up and replace under the service's lock, an editor who obeys no lock, and
the reloader, which takes a digest, loads and takes the digest again. Contents
are good, broken (the engine refuses them and the error is handled) or alien
(JSON that is no object: an error nobody handles ends the worker).

### Supervisor, camera events, restart requests

`pc` is the place in `run()`: `check` before the device test, `poll` before
`child.poll()`, `look` after it found the worker alive, `ended` after a
generation. A signal comes between any two. Every `Publish` composes the state
file with `OnStatus` of the camera events. `vision` is the frame file as the
supervisor sees it: absent, of an older generation, fresh or stale.
Abstractions: `Popen` and the two publications around it are one step; the
restart count, always one less than the generation of a running worker, is left
out; the ten seconds after which the tool distrusts the state of a dead
supervisor are not modelled (a request to a dead supervisor is thus allowed
more often than in the code); one request at a time.

Events are numbers in the order they were made. `Failures` lists how
`writer.append` can go wrong: no row, row and no line, row and a part of a
line, all written and `close` raises. A line written after a torn one is
glued to it and unreadable.

### Retention

One category. Programs append to or make files and know nothing of a cleanup.
A preview is cached; a plan is what a person was shown. The confirmed call
rechecks each file, removes it and writes the audit before and after. Two
cleanups overlap; the process dies between any two steps.

### Recovery

A backup copies the three protected sources one by one from the running
system, in the order of the code, then is published by a rename. A restore
works with the service stopped: it saves what is there, replaces file by file,
and undoes itself when one raises; a death leaves it in the middle. The
capacity manager shows a plan and later removes by it, under the lock it shares
with the export. A removal is the deletion of a directory file by file
(`BeginDelete`, `FinishDelete`): meanwhile, and after a death, the backup is `torn`,
and `bare` when its manifest is gone. Nothing keeps a restore from a backup that is
being removed; it then meets a file that is gone and undoes itself.

### The service manager

Processes have ids that are used again and groups that outlive their leader.
`start` reads the state file, starts and writes; `stop` signals the group and
waits; both can overlap with another operator's call or be killed between
steps, which `spoilt` records. The marker is written before a reboot of the
host and verified after; a second `prepare` overwrites it.

## 4. Runs

Passing runs:

| Run | Instance | Shows |
|---|---|---|
| `queue_limits` | 3 jobs, 1 key, 2 bodies, 1 waiting place, 2 records, 1 restart, no faults, fair worker | retention limit, replies by key, wake-ups, the refinement of `JobLifecycle`; a job that waits, also behind another one, or runs comes to an end |
| `queue_faults` | 2 jobs, 1 key, 1 failing write, 1 failing removal, 1 restart, 1 tick | at most one execution, agreement of containers and files, records only advance |
| `agent_runtime` | stream: 2 jobs, 1 record, 1 failing write, 1 restart; circuit: 2 callers, 2 tries, threshold 2, 4 requests, 1 switch, 1 escape; offline: every pair of 50 keyword groups | what is told is true and complete; the circuit is coherent and accounts; streams end, calls return; what the offline model asks for makes sense |
| `agent_task` | 2 threads, tasks of 2 steps; requests that overlap on 1 task, with 1 mode switch and 1 crash or failing write, or with 1 clear or expiry of the session; or 2 tasks, a request at a time each, and 1 pending place | one driver, confirmations, results, ends, no repeated step; the session waits for those who wait and no others |
| `camera_restart` | 1 request, 2 starts of the supervisor, 1 failure of worker or device, 2 failing event writes | restarts, pairing and storage of events, recovery |
| `vision` | 2 tracks, 2 zones, 2 configurations; 3 events, 2 lives of the worker; 2 savers with 2 saves, 2 edits | visits in order, exact debounce, records that add up, earned alarms, atomic saves, the file followed |
| `api_services` | 3 tools and 2 calls an answer; 2 clients, 2 accounts; 3 events; 3 callers in 2 processes; 2 starts of a server, 9 requests; reports over 3 rows with 1 change of status | rules and budgets, lockouts, pages, reports, remembered facts, MCP answers |
| `host_services` | 3 files, 2 cleanups, 1 death; 2 backups, 1 trouble; 2 operators, 2 process ids, 2 starts, 1 reboot | audited removals, whole restores, planned removals, one runtime |

Runs that show the code disagreeing with what the repository says of it:

| Run | Disagreement |
|---|---|
| `queue_worker_lost` | a write that raises while a job is started ends the only worker; the queue accepts further jobs |
| `agent_task_stale_write` | a route writes its copy back over the end a second confirmation recorded; the confirmed tool runs twice |
| `vision_before_image` | the frame that confirms the loss of some objects of a class replaces the checkpoint before the event copies it; the image before shows what is left |
| `offline_cleanup` | the dashboard's cleanup text routes to the preview only, so the cleanup that should follow it is denied |

These are quoted, with lines, under `findings` in `PROJECT.json`. Others met
while modelling have no run of their own:

- `docs/implementation-journal.md:8091` says the `net_change` of the groups
  equals that of the total; with more groups than the limit in the two windows
  together it does not. `PartsAddUp` states the condition.
- Offline, the router denies more of the tested texts than the cleanup's, such
  as the "Show open events" of `scripts/check_event_disposition_filter_agent.ps1:195`.
  A request for removed items that says "open" sends a `status` their schema
  rejects; `CallsFitSchemas` excepts it by name.
- `vision.get_performance` is answered without a look at `stale`, though the
  answers of the other vision tools refuse stale data.
- A SIGTERM that arrives after the worker was found alive is published as an
  outage; a late failure ends the cooldown of an open circuit early; an
  untranslated exception leaves a circuit half open.
- `record_task` and `finalize_task` raise for an answer that is blank or longer
  than 4000 characters (`session_memory.py:308-312`, `516-519`), after the task has
  ended: the request fails and the task's pending entry stays in the session.
  `SessionFollowsTasks` excepts it.
- An event filter with spaces around it makes the list and the total of one
  report disagree (above). No document says which of the two is meant.
- A host keeps and passes on the tools of an earlier server while the discovery
  of the present one has not read its third list (above).
- A death inside the removal of a backup may leave a directory without its
  manifest; `scan_local_backups` raises on it, so neither a preview nor a removal
  works until somebody removes it by hand.
- A restore during a backup makes its rows and images disagree; nothing keeps
  the two apart. `RowsHaveImages` excepts it.

### Bounds

- Two jobs are enough for every property of a pair (same key, eviction, order
  in the deque); the third of `queue_limits` makes both limits bite while one
  job waits and one runs. One failing write and one restart already occur at
  every point of every action, a restart after a failing write included.
- The clock of the queue has two values: younger or older than the retention.
- Two callers of the model separate an early and a late answer; four requests
  open the circuit, probe it and leave one late.
- Jobs, threads and tasks, clients and accounts differ by name only: no step and no
  property picks one of them, so the runs of the task, the services of the API and
  `queue_faults`, which check no liveness, use symmetry. `queue_limits` checks
  liveness: there the constraint `IdsInOrder` hands the ids out in one order
  instead; it cuts off no step of the worker.
- `Scope` of `MCAgentTask` bounds `agent_task` to three kinds of history: one task
  with failures and changes of the model, one task whose session is cleared or
  expires, and two tasks that never have two requests each at a time and meet no
  failure. Two tasks share the session only, so overlapping requests on one of
  them (the first two kinds) and competition for the session (the third) are
  kept apart; the theorems of `AgentTaskProofs` need no such scope.
- Two keyword groups are what one rule sees of another before it: a rule tests
  at most a few groups, and what the router finds is free. Each text comes with
  no values, good ones, ones out of range, ids, and something to remember.
- Two threads are a run and a confirmation, or two confirmations, or a
  confirmation and a cancellation. Two steps are a recorded one and an
  unrecorded one. One trouble is a crash or a failing write.
- Two starts of the supervisor and one failure: the second start meets the
  request of the first. Two failing event writes make both stores fail, or the
  same event fail twice.
- Two tracks swap, merge and cross; a track is missed once and lost at the
  second, while enter and exit take two frames, so each can be cut off half-way.
  Two lives of the worker make the second read the files of the first. Counts
  up to two make a change by more than one happen.
- Two savers, two versions and two edits let a content change and change back
  between two digests.
- Limits of the services are set to one or two so that they are hit: one
  session, two failures, one routed place left for a dependency, one external
  call, two groups of three labels. Three events with two at the same time
  exercise the order of the cursor. Nine requests to MCP servers are two
  handshakes and two discoveries and a call, or discoveries that fail between.
- Three files with one to keep leave two candidates; two backups and a keep
  count of one leave one that may go. One trouble of a restore is a lost file, an
  error or a death, so a run does not combine them; `RecoveryIsSafeHolds` covers any
  number. An error because the backup is being removed costs no trouble. Two process ids let one be used again by
  another program while the record still names it.
- `CHECK_DEADLOCK FALSE` everywhere: these systems may rest. A closed queue whose
  restarts are used up, callers out of requests, finished tasks and a supervisor
  out of starts have no further step. What must not get stuck is stated as
  `NoLostWakeup` and as the liveness properties.

### Fairness

- `WF(WorkerStep)`: a thread of the process that is not blocked runs; the
  executor returns, because model and tool calls have timeouts and steps are
  bounded.
- `WF(Serve)`: the stream's generator is iterated by a server thread and its
  wait has a timeout.
- `WF(Progress(c))` per caller of the model: a request has a timeout.
- `WF(Run)` and `WF(WorkerFrame)`: the supervisor's loop runs, and a worker that
  is up with a camera delivers frames. A start of the supervisor (`Boot`) is
  never fair: the unit is oneshot and nothing restarts it. Neither is a client,
  a crash, a failure or a repair of the device.
- `WF(Reloads)` and `WF(ReloaderStarts)`: the frame loop polls the
  configuration, and the supervisor starts the worker again. Savers, editors
  and deaths are not fair; `FileIsFollowed` speaks of a file that comes to rest.

The specifications of the joined modules state the same for the part that acts.
The liveness properties name what excuses them: a closed queue, a dead process,
a failed write, a camera that is gone, a configuration the engine refuses.

## 5. Proofs

Checked by TLAPS for every value of the constants that satisfies the named
assumptions of the modules (`QueueAssumption`, `CircuitAssumption`,
`SessionAssumption`, `TaskAssumption`, `ZoneAssumption`, `ZoneConfigAssumption`,
`SupervisorAssumption`, `ProbeAssumption`, `RetentionAssumption`,
`RecoveryAssumption`, `HostAssumption`, `MemoryAssumption`, `CatalogAssumption`,
`TurnAssumption`, `OfflineAssumption`, `AuthAssumption`, `LedgerAssumption`, `SummaryAssumption`); nothing
else is assumed. The runs evaluate each of them. `ZoneAssumption` says that a frame is
a sequence of detections, each a class and a box, and a configuration a set of zones;
`LedgerAssumption` that a row is three numbers and a page has at least one row;
`SummaryAssumption` that the limits are positive, there is a reference, and the
spread that still counts as stable is below 100 percent (it is 50, summary.py:19);
`OfflineAssumption` that memories and files are finitely many and what a user gives has
an integer for its size.
`CatalogAssumption` says of schemas what holds of every registered one (the
parts of a list or an object are neither) and of `ROUTE_DEPENDENCIES` that what a
tool depends on depends on nothing itself; `SchemasAreFlat` checks the first on
`DefaultSchemas`, and the second is read off the four rows of `DefaultDepends`.

`AgentJobQueueProofs`:

- `TypesHold`: `Spec => []TypeOK`.
- `ExecutesOnceHolds`: `Spec => []ExecutesOnce`, from its two halves,
  `ExecutesAtMostOnce` and `WithdrawnJobsNeverRun`.

All follow from one inductive invariant, `ExecutionInv`. That a job's
count of executions is at most one is not inductive: a step could take a job
from the deque that has run already. What forbids it is a chain. The worker
executes only a job it finds QUEUED (`Runnable`), and a QUEUED job has never
been executed nor withdrawn (`QueuedIsUnstarted`). That stays true because a
job becomes QUEUED only when it is made, from an id that was never used
(`UnusedIsFresh`), and because a start reads every unfinished file back as
INTERRUPTED. For that argument nothing may be QUEUED while the process is not
up (`QuietUnlessUp`); a body belongs to a QUEUED job (`BodiesAreOfQueued`), and
the record of the job in the worker's hands is still there
(`WorkerHoldsJob`), without which recording a result would have no type. There
is one lemma per action, and a lemma for each of the two shapes of change that
several actions share (a record that changes, a process that ends).

The same module proves the refinement, for any number of jobs, keys, restarts
and refused removals:

- `LifecycleIsImplemented`: `MaxSaveFaults = 0 => (Spec => ImplementsLifecycle)`.
  The abstract life is that of the files, while the code decides by the records
  in memory, so the invariant `LifeInv` ties them: a file is the record in
  memory, or what is left of a terminal one whose removal was refused, or one a
  start has still to read (`FilesAgree`). At most one file says RUNNING, because
  what runs in memory is in the worker's hands (`RunningIsHeld`). A step then
  is one of three shapes: files stay, terminal ones go and a new one may come,
  one is written over. A save that fails hides the step it should have recorded,
  which is why the theorem, like the run, excludes it.

From the types and `ExecutionInv` it goes on to the records, and to the stream:

- `RetentionHolds`, `KeysAreKeptHolds`, `FilesFollowMemoryHolds` and
  `RecordsOnlyAdvanceHolds`, from `RecordInv`. The limit on retained records is
  not inductive: a start empties the memory and fills it from the files one by
  one. So the invariant counts what the process knows, or will know after its
  next start (`Known`, from memory and files), and asks of those, and not of
  the retained ones, that they are few (`KnownAreFew`) and have different keys
  (`KnownKeysDiffer`). For that a record and its file must agree as far as
  failures let them (`RecordsAgree`): a file that holds an end is the record,
  and a file nobody has to read yet has its record in memory while no removal
  was refused.
- `MemoryIsCoherentHolds` and `NoLostWakeupHolds`, from `WorkInv`: the deque holds
  the QUEUED jobs in the order of their numbers, each once (`QueueIsInOrder`), so
  that taking the head takes a job out of it for good; the token of a RUNNING job
  was told of its cancellation (`TokensAreTold`).
- `ToldIsTrueHolds`, of `AgentJobStream`: what was told is in the file, or a later
  record is (`ToldIsFiled`), which needs of each step of the queue that files
  only advance while no save fails (`FilesAdvance`).

`AgentRuntimeProofs`, for any number of callers of the circuit:

- `CircuitIsSoundHolds`: `CircuitSpec => []CircuitIsSound`, from its conjunction
  with the types. The fields are only written together under the lock, so the
  lateness of an answer cannot make them disagree, although it can make them
  wrong. A half-open circuit has a probe on its way, because whoever half-opens
  it is one, and every end of a call but an untranslated exception leaves the
  half-open state.
- `RequestsAreAccounted`: `CircuitSpec => []RequestsAccounted`. The difficulty is
  the number of requests in flight, a cardinality over the callers: each step
  that sends or ends a request changes that set by one thread (`FlightStarts`,
  `FlightEnds`) and moves one counter with it, and every other step leaves both
  alone (`SameFlight`).

and for any messages a user may write, any memory records and any files:

- `OfflineIsSoundHolds`: `OfflineSpec => []OfflineIsSound`. The invariant
  `OfflineInv` lists the phases of a task: before its first call, waiting for the
  result, with it, and the same for a second call. Each phase says of its calls what
  they are (`FirstCall`, `SecondCall`) and of each result that it belongs to its call
  and is something the tool can find (`Answered`). After a second result nothing is
  asked, because the two tools that go on are not the two that went before: that is
  why there is no third. What a first call is comes from the model's rules alone
  (`FirstIsGood`): each of the nine groups yields good calls only, lists of good rules
  joined are good (`JoinedRules`), and the first rule that applies is one of them
  (`LeastOfNaturals`). Whether a call is good depends on the tables: `ToolTable` looks
  the 33 tools up in what `DefaultSchemas` puts together, and `ToolProperties` and its
  like the arguments in the schemas. An argument is then accepted because its number
  or text is within bounds (`WholeAccepted`, `TextAccepted`), or it was given by the
  user, and what two good parts are put together of is good (`MergeAccepted`). The
  hard group is the summary: of its four forms (`SummaryShape`) only those aligned to
  yesterday or last week name an offset, these also compare, and the interval they
  compare with is 1440 or 10080 minutes away; a question about more minutes than that
  is one the schema refuses (`SummaryTaken`). A cleanup names the previewed files, all
  different (`Permuted`, `NamesAreDistinct`), and the hundred the preview lists are the
  hundred the schema takes, which is why `Finds` has that limit.

`AgentTaskProofs`, for any number of tasks, threads, steps, crashes and failing
writes:

- `TaskInvHolds`: `Spec => []TaskInv`, and from it `TypesHold`,
- `OneDriverHolds`: `Spec => []OneDriver`,
- `EndIsFinalHolds`: `Spec => EndIsFinal`,
- `ToolsAreKeptHolds`: `Spec => []ToolsAreKept`, and `NoStepRepeatsHolds`:
  `Spec => NoStepRepeats`,
- `SessionIsKeptHolds`: `Spec => []SessionIsKept`,

which is every property of the module but liveness. `OneDriver` is not inductive, because a run takes no lock. Who holds the lock
is alone among the confirmations and resumptions (`HoldsLock`); a run is alone
because its checkpoint says RUNNING, which a confirmation and a cancellation
refuse, and because no other thread of its task is further than the head of its
request, so that none has a copy of the checkpoint to write back (`RunsAlone`).
`EndIsFinal` adds that the checkpoint of a driven task has not ended, as far as
it was not overwritten (`NotEnded`), and the types need that what awaits a
confirmation belongs to a step of the loop (`DiskOK`).

That results are complete and no confirmation runs twice is a statement about
files, and the tools have run before a file says so. The invariant (`ToolsInv`)
says for every place in the loop what the driver carries beyond its checkpoint
(`AtStep`, `Carries`), and that without a driver the tools that ran are those the
checkpoint records. For the session (`SessionInv`, `FollowInv`) it says who still
owes it a turn: one run per task at most, and only one the session was not told
of; and that a task which ended without a failure is either settled with the
session or has a route on its way to tell it. The actions fall into a
few shapes, one lemma each: a step inside the loop, leaving it, joining it,
taking the lock, ending a task that awaits, a step of a route, a copy written
back. Each action then has a lemma that fits it to its shape.

`CameraRestartProofs`, for any number of requests, starts of the supervisor,
changes of status and failing writes:

- `RestartsAreHonestHolds`: `Spec => []RestartsAreHonest`. The control file outlives
  the process, so a start finds requests that were served before. That it serves
  none twice rests on the last id the published state hands on: a valid request
  that was served is the last one (`ServedIsLast`), whichever process served it.
  A frame of the new worker is only believed while the request is pending
  (`FreshIsCured`), and `COMPLETED`, in memory or in the file a new process reads,
  names a restart that was served and cured (`CompletedIsCured`).
- `OutagesArePairedHolds`: `Spec => []OutagesArePaired`, with the open outage, if
  any, the last event (`LastIsOpen`).
- `EventsAreKeptOnceHolds`: `Spec => []EventsAreKeptOnce`. An attempt writes any number
  of the waiting events, a recursive function over their number, so what it
  leaves in the two stores is an induction (`AllWrittenGrows`). The library's
  induction theorems take a predicate as a parameter; `SetInduction` states the
  principle for a set instead, and is proved from the well-foundedness of `<`.

`VisionProofs`, for any zones, tracks, cameras and configurations:

- `PresenceIsImplemented`: `ZoneSpec => ImplementsPresence`. The abstract state
  is read off the visit alone, so a step of the engine is a set of keys present
  and a time passed (`Snapshot`), whatever matching, loss or reload produced it.
  The only thing to know of the states is that a visit that is still entering
  was not told to dwell (`VisitsBegin`); each of the ways a visit can go in a
  frame is then a step `ZonePresence` allows that key.

and, for any number of savers, contents and edits:

- `SavesAreAtomicHolds`: `ConfigSpec => SavesAreAtomic`, from `SaverInv`: the lock
  has one holder, and what a holder past its second check expects, and the copy
  it made, are what the file holds unless an editor touched it.
- `EngineIsKnownHolds`: `ConfigSpec => []EngineIsKnown`, from `ReloadInv`. That the
  two digests of a load suffice is an argument about how often the file changed
  between them (`LoadIsJudged`): not at all, and all three reads agree; once,
  and what was parsed is the old content or the present one, so equal digests
  still mean it is both; only a second change can hide in between.

and, for any classes, visible counts, confirmation frames, lives and failures of
the stores:

- `AlarmsAreEarnedHolds`: `ProbeSpec => AlarmsAreEarned`, and the debounce of
  `RecordsAreSoundHolds`, from `EnginesInv`. The properties speak of the last
  frames and the engines keep counters, so the invariant relates the two in both
  directions: the candidate of a class was seen in the frames its counter says,
  and whatever was seen in the last k frames has a counter of at least k
  (`CandidateIsSeen`); the same of the wait of an object nobody attends to
  (`WaitIsQuiet`). The first makes a change and an alarm never early, the second
  never late. The window must be as long as the longest confirmation (`Span`),
  or a counter would say more than the frames that are left.
- `RecordsAreSoundHolds`: `ProbeSpec => []RecordsAreSound`, from `EnginesInv` and
  `FilesInv`. In a life, what a file says of a class, with the event that is not
  written yet, ends at the stable count, and there is one such event at most
  (`Told`, `AccountsAre`); it follows that changes are chained and that what is
  published was recorded. The rows are the lines but for the one between its two
  writes (`RowsAre`). The records of one life and class are picked by a recursive
  function, so that one more record picks one more or none is an induction over
  the file (`AmongOneMore`). A line behind a torn one is the first of its life
  because a life ends where a line is torn (`TornAre`). Of the images it says that
  what a checkpoint must show by now it shows, unless the frame of a change has
  replaced it (`PicturesAre`), and that none shows a frame without its object
  (`ImagesShow`).

and, for any detections, zones, confirmations and configurations over time:

- `FramesAreFollowedHolds`: `ZoneSpec => []FramesAreFollowed`, from `FollowInv`. The
  tracker's loop is a recursive function over the candidates that are left; that it
  ends with a matching in which whoever is left out gives way to one that comes
  sooner is an induction over their number (`MatchingLoops`, `MatchingIsGreedy`),
  and needs that the order is one: the overlaps are fractions, compared by
  products (`FractionsAreOrdered`), ties are broken by the identity and the place
  (`SoonerIsAnOrder`). New tracks take the next numbers in the order of their
  detections (`NewIdsAreNew`), so a number is given once. For the debounce the
  invariant relates a visit's counters with the last frames both ways
  (`Debounced`): a counter is the run of frames with, or without, the key that the
  window ends in, up to the longest confirmation. The first way makes an entry or
  an exit never early, the second never late.

`HostServicesProofs`, for any number of files, cleanups, writers and deaths:

- `CleanupsAreSafeHolds`: `RetentionSpec => []CleanupsAreSafe`, with
  `NewestStayHolds` on the way. That the newest files stay is not inductive,
  since a removal looks at its own row only and several plans are in flight.
  The invariant says that every row still to be removed, whose file is as it was
  shown, has `MinKeep` newer files beside it (`HasNewer`). A removal takes a file
  from that set only when the removed file is newer than the other row's, and
  then the files newer than the removed one, which are `MinKeep` already, are
  newer than the other's as well. A writer makes a file the newest, since a plan
  only shows files of earlier days (`ShownLongAgo`). The audit is `RecordInv`:
  the stage of a cleanup decides which of its records exist.

and, for any process ids, operators, deaths and reboots:

- `HostIsSoundHolds`: `HostSpec => []HostIsSound`, from `HostInv`. Until the first
  call that overlaps another or is killed at the wrong moment there is one call
  at a time (`Alone`), and what runs is named, with its start, by the record or by
  the copy a launch has still to write (`RuntimeIsNamed`). A stop may write that
  nothing runs because a group without its leader is only left while the stop
  awaits it (`OrphansAreAwaited`, `NoneWhileWritten`). The marker needs that times
  only grow: the record is the one it saw, or one started after it
  (`MarkerIsOlder`).

and, for any number of backups, contents, losses and failures:

- `RecoveryIsSafeHolds`: `RecoverySpec => []RecoveryIsSafe`, from `RecoveryInv`,
  three invariants side by side. `CopyIsOrdered` says which files a backup has
  copied and that its rows, copied or still live, fit the images, copied or still
  live: images are saved before their rows and copied after them.
  `PlanIsSaved` says that a listed file is as the plan saw it or as the backup has
  it, and that what is replaced was saved. `PlanIsKept` says that nobody exports
  while backups are removed, which keeps the plan the inventory; that the newest export is retained, whatever the
  sizes, is an induction over the exports (`NewestIsRetained`). The id of an
  attempt that failed may be used again, so the history `sound` judges it anew
  at each start.

`ServiceProofs`:

- `CallsAreGovernedHolds`: `TurnSpec => []CallsAreGoverned`, for any catalogue,
  rules, schemas, scores, limits and answers, from `TurnSound`. The counters are
  ahead of what happened by exactly the call or request that was charged and has
  not begun (`CountersLead`), so a budget that bounds the counter bounds what
  happens, whatever cancellation or deadline comes between the two. The call whose
  handler is next has passed its guard under the route it will run with
  (`CallsWait`), and whoever is overtaken by a cancellation meets it at the next
  check (`LateOnce`). That a route can be used is a lemma about the router
  (`RoutesAreUsable`): an order gives each tool a place of its own
  (`PlacesDiffer`), so the list names no tool twice, and the dependencies are added
  by an induction over it (`DependenciesServe`).
- `LoginsAreSoundHolds`: `AuthSpec => []LoginsAreSound`, for any number of threads,
  accounts, failures and sessions, from `LoginsInv`. Logins verify without the lock
  and count with the time they read before, so the list of a key is not in the order
  of time, and lists are cut, filtered and dropped. The invariant therefore counts:
  of any time on, a list holds no more failures than the history has marked, or the
  marks are enough for a lockout already (`Backed`); filtering and cutting only
  lower the first number (`StillRecentKeeps`, `LatestIsLess`), and a failure raises
  both (`OneMoreIsBacked`). That the eviction leaves room is the order of the
  sessions again: no two have as many younger ones (`RoomForOne`).
- `MemoryIsKeptHolds`: `MemorySpec => []MemoryIsKept`, for any number of threads,
  processes and spellings, from `MemoryInv`: a caller past its load holds the lock
  of its store, and its copy is the file unless another process has saved since.
  What a save then makes of its copy is a lemma about the operation alone
  (`RememberedIsWhole`, `ForgottenIsWhole`): an accepted file again, in which only
  the key of the operation has changed.
- `McpIsSoundHolds`: `McpSpec => []McpIsSound`, for any servers and lists, from
  `McpInv`. A number is given to one request only, whichever process answers it
  (`IdsAreOne`), so that an answer which comes after a time-out, or from a process
  that was closed since, is taken for no other request; and the answer that ends
  a start comes from the process that was started (`StartsHere`). What the host knows
  is the running server's from the moment `discover` has the third list until a
  further start, because the three requests went to one process.

- `EventsAreExactHolds`: `ApiSpec => []EventsAreExact`, from `LedgerIsExactHolds` and
  `SummaryIsExactHolds`, since a step of the API is one of the table, one of a
  report, or leaves both.

`LedgerIsExactHolds`: `LedgerSpec => []LedgerIsExact`, for any rows, filters, page sizes
and operators. A walk that only says that its pages are in order is not inductive: a
page continues from the last row given, so the invariant adds that nothing was given
below the cursor, and that what matched all along and is not yet given is below it
(`Walked`). What a statement with a limit returns is the rows that few are above
(`NewestIs`); the row that tells of more pages is one of them, so a page that is the
last leaves none out (`PageIs`). Of the acknowledgements, an answer is what the row
held when it was read, and a row is written once (`AnswersInv`).

`SummaryIsExactHolds`: `SummarySpec => []SummaryIsExact`, for any table, question, limit
of groups and references, from `SummarySound`: until the first change each part that
was read is that of the table (`Tells`), and while rows only arrive it is at most
that (`Grows`). What a finished report says is then arithmetic over sums. The
library's sum is a fold over a set in no particular order, so `SumIs` first shows
that it is one summand and the rest, whichever comes first; `SumUnion`, `SumAtMost`,
`SumOfFibers` and `SumBounds` follow by induction over finite sets (`GrowingSets`).
The timeline adds up because every minute of the window falls into a shown bucket
(`BucketsHold`); the changes of the groups because a window has no row of a name it
does not tell of (`SumOfAt`) and no name is cut while there is room (`KeptAre`); a
report without change has none in any group, kept or not, because the largest is
kept; and references that are called reliable are not zero because a spread from
zero is at least the average (`ReferencesAre`).

Only model-checked: all liveness (`StreamCatchesUp`, `EveryJobSettles`, `CallsReturn`,
`SupervisorRecovers`, `FileIsFollowed`), because liveness under fairness and ENABLED are
beyond the prover. Every invariant and every action property of a passing run has a
theorem. `DefaultTools` puts its tables together with `Field` and `++` because the
operators of module TLC for that have no definition a proof could expand.
