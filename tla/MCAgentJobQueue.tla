---------------------------- MODULE MCAgentJobQueue ----------------------------
(* AgentJobQueue on small sets of jobs, keys and bodies for TLC.           *)
EXTENDS AgentJobQueue, TLC

CONSTANTS j1, j2, j3, key1, b1, b2

\* Ids and bodies are interchangeable: symmetric for the safety runs.
JobSymmetry == Permutations(JobIds) \cup Permutations(Bodies)

\* The same for a run with liveness: the ids are handed out in one order.
IdsInOrder == (j2 \in used => j1 \in used) /\ (j3 \in used => j2 \in used)

================================================================================
