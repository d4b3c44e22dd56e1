----------------------------- MODULE ServiceHost -----------------------------
(***************************************************************************)
(* apps/service_manager.py and apps/reboot_marker.py: operators start and  *)
(* stop the runtime of one container by a state file and a process id, and *)
(* a marker proves that it came back after a reboot of the host.  Process  *)
(* ids are reused, processes end on their own, calls overlap and are       *)
(* killed.                                                                 *)
(***************************************************************************)
EXTENDS Naturals

CONSTANTS
    Operators,
    Pids,
    Modes,        \* of saving the zone configuration: "readonly", "saving"
    MaxStarts,    \* bound: starts that reach Popen
    MaxReboots    \* bound: ends of the container or of the host

VARIABLES
    record,   \* service.json
    slot,     \* per process id: who leads its group and who else is in it
    op,       \* per operator: the call in progress
    stamp,    \* started_at of the newest start
    boot,     \* the boot id
    downs,    \* ends of the container or of the host so far
    marker,   \* reboot-preflight.json
    spoilt    \* history: a call overlapped, was killed, or left orphans

hostVars == <<record, slot, op, stamp, boot, downs, marker, spoilt>>

NoPid == 0
ASSUME HostAssumption == NoPid \notin Pids

Idle == [pc |-> "idle", pid |-> NoPid, mode |-> "saving",
         copy |-> [status |-> "none", pid |-> NoPid, started |-> 0, mode |-> "saving"]]
Empty == [leader |-> "none", crew |-> FALSE, started |-> 0]

HostInit ==
    /\ record = Idle.copy
    /\ slot = [p \in Pids |-> Empty]
    /\ op = [o \in Operators |-> Idle]
    /\ stamp = 0 /\ boot = 0 /\ downs = 0
    /\ marker = [state |-> "none", boot |-> 0, started |-> 0, stamp |-> 0]
    /\ spoilt = FALSE

\* A launcher that exited stays a zombie until the start that made it polls.
Zombie(p) == \E o \in Operators : op[o].pc \in {"record", "settle"} /\ op[o].pid = p
ProcessExists(p) == p # NoPid /\ (slot[p].leader # "none" \/ Zombie(p))
ProcessMatches(p) == p # NoPid /\ slot[p].leader = "launcher"
FaultyGroupExists(p) == ProcessExists(p)
GroupExists(p) == ProcessExists(p) \/ slot[p].crew
Free(p) == slot[p] = Empty /\ ~Zombie(p)

Moves(o, to) == op' = [op EXCEPT ![o] = to]
\* What calls that overlap may do to each other is not promised.
Enters == spoilt' = (spoilt \/ \E o \in Operators : op[o] # Idle)

Startable == ~ProcessExists(record.pid)

BeginStart(o, mode) ==
    /\ op[o] = Idle /\ stamp < MaxStarts
    /\ Startable
    /\ Moves(o, [Idle EXCEPT !.pc = "launch", !.mode = mode])
    /\ Enters
    /\ UNCHANGED <<record, slot, stamp, boot, downs, marker>>

Launch(o, p) ==
    /\ op[o].pc = "launch" /\ Free(p) /\ stamp < MaxStarts
    /\ stamp' = stamp + 1
    /\ slot' = [slot EXCEPT ![p] = [leader |-> "launcher", crew |-> TRUE, started |-> stamp']]
    /\ Moves(o, [op[o] EXCEPT !.pc = "record", !.pid = p,
                              !.copy = [status |-> "running", pid |-> p,
                                        started |-> stamp', mode |-> op[o].mode]])
    /\ UNCHANGED <<record, boot, downs, marker, spoilt>>

Record(o) ==
    /\ op[o].pc = "record"
    /\ record' = op[o].copy
    /\ Moves(o, [op[o] EXCEPT !.pc = "settle"])
    /\ UNCHANGED <<slot, stamp, boot, downs, marker, spoilt>>

\* After three seconds: the launcher still runs, or the start failed.
Settle(o) ==
    /\ op[o].pc = "settle"
    /\ record' = IF ProcessMatches(op[o].pid) THEN record
                                              ELSE [op[o].copy EXCEPT !.status = "failed"]
    /\ Moves(o, Idle)
    /\ UNCHANGED <<slot, stamp, boot, downs, marker, spoilt>>

\* A verified launcher is signalled and awaited; with no process left the
\* call only has its record to write.
BeginStop(o) ==
    /\ op[o] = Idle /\ record.pid # NoPid
    /\ ProcessExists(record.pid) => ProcessMatches(record.pid)
    /\ Moves(o, [Idle EXCEPT !.pc = IF ProcessMatches(record.pid) THEN "await" ELSE "write",
                             !.pid = record.pid, !.copy = record])
    /\ Enters
    /\ UNCHANGED <<record, slot, stamp, boot, downs, marker>>

GroupIsGone(o) ==
    /\ op[o].pc = "await" /\ ~GroupExists(op[o].pid)
    /\ Moves(o, [op[o] EXCEPT !.pc = "write"])
    /\ UNCHANGED <<record, slot, stamp, boot, downs, marker, spoilt>>

\* No forced kill: a group that outlives its leader is on its own afterwards.
StopTimesOut(o) ==
    /\ op[o].pc = "await" /\ GroupExists(op[o].pid)
    /\ Moves(o, Idle)
    /\ spoilt' = (spoilt \/ slot[op[o].pid].leader = "none")
    /\ UNCHANGED <<record, slot, stamp, boot, downs, marker>>

WriteStopped(o) ==
    /\ op[o].pc = "write"
    /\ record' = [op[o].copy EXCEPT !.status = "stopped", !.pid = NoPid]
    /\ Moves(o, Idle)
    /\ UNCHANGED <<slot, stamp, boot, downs, marker, spoilt>>

\* The manager itself is killed: a launcher not yet recorded is lost, and so
\* is a group that outlives its leader.
ManagerDies(o) ==
    /\ op[o] # Idle
    /\ Moves(o, Idle)
    /\ spoilt' = (spoilt \/ op[o].pc = "record"
                          \/ (op[o].pc = "await" /\ slot[op[o].pid].leader = "none"))
    /\ UNCHANGED <<record, slot, stamp, boot, downs, marker>>

\* The script's exit trap takes the other processes along, unless it was
\* killed outright, or signalled together with them and was the faster one.
LauncherExits(p) ==
    /\ slot[p].leader = "launcher"
    /\ slot' = [slot EXCEPT ![p] = Empty]
    /\ UNCHANGED <<record, op, stamp, boot, downs, marker, spoilt>>
LauncherDiesAlone(p) ==
    /\ slot[p].leader = "launcher"
    /\ slot' = [slot EXCEPT ![p].leader = "none"]
    /\ spoilt' = (spoilt \/ ~\E o \in Operators : op[o].pc = "await" /\ op[o].pid = p)
    /\ UNCHANGED <<record, op, stamp, boot, downs, marker>>
RestEnds(p) ==
    /\ slot[p].leader = "none" /\ slot[p].crew
    /\ slot' = [slot EXCEPT ![p] = Empty]
    /\ UNCHANGED <<record, op, stamp, boot, downs, marker, spoilt>>
\* Another program gets the process id, and ends.
PidIsReused(p) ==
    /\ Free(p)
    /\ slot' = [slot EXCEPT ![p].leader = "other"]
    /\ UNCHANGED <<record, op, stamp, boot, downs, marker, spoilt>>
OtherEnds(p) ==
    /\ slot[p].leader = "other"
    /\ slot' = [slot EXCEPT ![p] = Empty]
    /\ UNCHANGED <<record, op, stamp, boot, downs, marker, spoilt>>

\* The container is restarted, or the host with it; the files stay.
Down(reboots) ==
    /\ downs < MaxReboots
    /\ downs' = downs + 1
    /\ boot' = boot + (IF reboots THEN 1 ELSE 0)
    /\ slot' = [p \in Pids |-> Empty]
    /\ op' = [o \in Operators |-> Idle]
    /\ UNCHANGED <<record, stamp, marker, spoilt>>

\* runtime_snapshot: both commands refuse another runtime than a read-only
\* one whose record says running.
Snapshot == record.status = "running" /\ record.mode = "readonly"

PrepareMarker ==
    /\ Snapshot
    /\ marker' = [state |-> "prepared", boot |-> boot, started |-> record.started, stamp |-> stamp]
    /\ Enters
    /\ UNCHANGED <<record, slot, op, stamp, boot, downs>>

FaultyRebooted == marker.boot # boot
Rebooted == marker.boot # boot /\ marker.started # record.started

VerifyReboot ==
    /\ marker.state = "prepared" /\ Snapshot /\ Rebooted
    /\ marker' = [marker EXCEPT !.state = "verified"]
    /\ UNCHANGED <<record, slot, op, stamp, boot, downs, spoilt>>

HostNext ==
    \/ \E o \in Operators :
          \/ \E mode \in Modes : BeginStart(o, mode)
          \/ \E p \in Pids : Launch(o, p)
          \/ Record(o) \/ Settle(o)
          \/ BeginStop(o) \/ GroupIsGone(o) \/ StopTimesOut(o) \/ WriteStopped(o)
          \/ ManagerDies(o)
    \/ \E p \in Pids : LauncherExits(p) \/ LauncherDiesAlone(p) \/ RestEnds(p)
                       \/ PidIsReused(p) \/ OtherEnds(p)
    \/ \E reboots \in BOOLEAN : Down(reboots)
    \/ PrepareMarker \/ VerifyReboot

HostSpec == HostInit /\ [][HostNext]_hostVars

------------------------------------------------------------------------------
Ours(p) == slot[p].crew
Launching == \E o \in Operators : op[o].pc = "record"

\* Whatever processes of the runtime there are, the record names them, so
\* that a stop can find them; there are never two runtimes.
RuntimeIsManaged == ~spoilt /\ ~Launching => \A p \in Pids : Ours(p) => record.pid = p

\* A record that says stopped or failed, or a stop that has only its record
\* to write, leaves nothing running.
StoppedMeansNone ==
    ~spoilt /\ (record.status = "stopped" \/ \E o \in Operators : op[o].pc = "write")
        => \A p \in Pids : Ours(p) => \E o \in Operators : op[o].pc = "record" /\ op[o].pid = p

\* The marker is verified only when nothing it saw is running any more and
\* the runtime was started anew.  (That may have been before the reboot: the
\* record may say running and nothing came back.)
VerifiedMeansRestarted ==
    ~spoilt /\ marker.state = "verified" =>
        /\ stamp > marker.stamp
        /\ \A p \in Pids : Ours(p) => slot[p].started > marker.started

\* start, stop and the reboot marker against reused ids, processes that end
\* when they like, calls that are killed, and reboots.
HostIsSound == RuntimeIsManaged /\ StoppedMeansNone /\ VerifiedMeansRestarted
==============================================================================
