----------------------------- MODULE AgentJobStream -----------------------------
(***************************************************************************)
(* stream_agent_job of apps/api_server.py over AgentJobQueue: one client   *)
(* follows one job as server-sent events.  Each round of the generator is  *)
(* one wait_for_change; the client keeps the last id it was sent and opens *)
(* the next stream after it.                                               *)
(***************************************************************************)
EXTENDS AgentJobQueue

VARIABLES
    stream,    \* "idle", "following" a job, or "ended"
    followed,  \* the job the client follows, or NoJobId
    after,     \* sequence of the last event sent, -1 before the first
    told       \* status of the last event sent, "NONE" before the first

clientVars == <<stream, followed, after, told>>
streamVars == <<vars, clientVars>>

\* The route answers 404 unless the job is retained; the query parameter
\* defaults to -1, a client that lost its stream sends the last id instead.
OpenStream(j) ==
    /\ phase = "up" /\ stream # "following" /\ told \notin Terminal
    /\ followed \in {NoJobId, j}
    /\ jobs[j].status # "ABSENT"
    /\ stream' = "following" /\ followed' = j
    /\ UNCHANGED <<vars, after, told>>

FaultyChangedStatus == jobs[followed].status # told

\* wait_for_change looks at the state, not at the notification, so a change
\* is seen after a wake-up and after the 15 s timeout alike.
Changed == jobs[followed].seq > after \/ jobs[followed].status \in Terminal

SendEvent ==
    /\ phase = "up" /\ stream = "following"
    /\ jobs[followed].status # "ABSENT" /\ Changed
    /\ after' = jobs[followed].seq
    /\ told' = jobs[followed].status
    /\ stream' = IF told' \in Terminal THEN "ended" ELSE "following"
    /\ UNCHANGED <<vars, followed>>

\* AgentJobUnavailable: the job was pruned or evicted between two rounds.
StreamLosesJob ==
    /\ phase = "up" /\ stream = "following" /\ jobs[followed].status = "ABSENT"
    /\ stream' = "ended"
    /\ UNCHANGED <<vars, followed, after, told>>

\* The client, the connection or the process goes away: at any time.
StreamBreaks ==
    /\ stream = "following"
    /\ stream' = "idle"
    /\ UNCHANGED <<vars, followed, after, told>>

StreamInit ==
    Init /\ stream = "idle" /\ followed = NoJobId /\ after = -1 /\ told = "NONE"

Serve == SendEvent \/ StreamLosesJob

StreamNext ==
    \/ Next /\ UNCHANGED clientVars
    \/ \E j \in JobIds : OpenStream(j)
    \/ Serve \/ StreamBreaks

StreamSpec == StreamInit /\ [][StreamNext]_streamVars

\* The generator is iterated by a server thread and its wait has a timeout.
FairStreamSpec ==
    StreamSpec /\ WF_streamVars(WorkerStep /\ UNCHANGED clientVars) /\ WF_streamVars(Serve)

--------------------------------------------------------------------------------
\* The end the client was told is the end of the job: while the record exists
\* nothing contradicts it, also after a restart.
ToldEndIsTheEnd ==
    (saveFaults = 0 /\ told \in Terminal /\ phase = "up" /\ jobs[followed] # NoJob)
        => jobs[followed].status = told /\ jobs[followed].seq = after

\* The client is never ahead of the files: what it was told survives a crash.
ToldIsDurable ==
    (saveFaults = 0 /\ stream = "following" /\ disk[followed] # NoJob)
        => disk[followed].seq >= after

\* Both: no crash, restart or reconnection takes back what a client was told.
ToldIsTrue == ToldEndIsTheEnd /\ ToldIsDurable

\* Every change of a followed job is told or overtaken by a later one, also
\* when the writer failed before it could notify.
StreamCatchesUp ==
    [](stream = "following" => <>(stream # "following" \/ closed \/ phase # "up"
                                  \/ jobs[followed] = NoJob
                                  \/ after = jobs[followed].seq))

================================================================================
