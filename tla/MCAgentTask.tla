------------------------------ MODULE MCAgentTask ------------------------------
(* AgentTask with one or two tasks and a few threads.                      *)
EXTENDS AgentTask, TLC

CONSTANTS t1, t2, x1, x2, x3

ThreadSymmetry == Permutations(Threads) \cup Permutations(Tasks)

\* Either requests on one task overlap, and its session is cleared or expires
\* or there are failures and changes of mode; or two tasks, with a request at a
\* time each, compete for a session that is cleared or expires.
Started == {t \in Tasks : disk[t] # NoTask}
Scope ==
    /\ upsets = 0 \/ (switches = 0 /\ troubles = 0)
    /\ \/ Cardinality(Started) <= 1
       \/ /\ switches = 0 /\ troubles = 0 /\ overwritten = {}
          /\ \A t \in Tasks : Cardinality(Busy(t)) <= 1

================================================================================
