------------------------------ MODULE JobLifecycle ------------------------------
(***************************************************************************)
(* What PersistentAgentJobQueue promises of a job, without its containers, *)
(* threads and files: the life of every job as its durable record tells    *)
(* it.  A record appears when a job is accepted, follows one path to one   *)
(* terminal status and may then be forgotten; a task is started at most    *)
(* once, only from QUEUED, and never again by a restart.                   *)
(***************************************************************************)
EXTENDS Naturals

CONSTANT JobIds

VARIABLES
    status,   \* the durable status of each job
    tasks     \* how many tasks were started for it

Ends == {"COMPLETED", "FAILED", "CANCELLED", "INTERRUPTED"}

Moves ==
    {<<"ABSENT", "QUEUED">>,  <<"QUEUED", "RUNNING">>}
        \cup ({"QUEUED"} \X {"CANCELLED", "INTERRUPTED"})
        \cup ({"RUNNING"} \X Ends)
        \cup (Ends \X {"FORGOTTEN"})

Init ==
    /\ status = [j \in JobIds |-> "ABSENT"]
    /\ tasks = [j \in JobIds |-> 0]

\* One call may forget several expired jobs and accept a new one; at most one
\* job is started by a step, and only when none is running.
Next ==
    /\ status' \in [JobIds -> Ends \cup {"ABSENT", "QUEUED", "RUNNING", "FORGOTTEN"}]
    /\ \A j \in JobIds : status'[j] # status[j] => <<status[j], status'[j]>> \in Moves
    /\ \A i, j \in JobIds : status'[i] = "RUNNING" /\ status'[j] = "RUNNING" => i = j
    /\ tasks' = [j \in JobIds |-> IF status[j] = "QUEUED" /\ status'[j] = "RUNNING"
                                  THEN tasks[j] + 1 ELSE tasks[j]]

Spec == Init /\ [][Next]_<<status, tasks>>

================================================================================
