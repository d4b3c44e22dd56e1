---------------------------- MODULE AgentRuntime ----------------------------
(***************************************************************************)
(* What a task meets on its way besides the loop itself: the client that   *)
(* follows its job, the model with its circuit breaker, and the offline    *)
(* model with the tools it asks for.  They share no state in the models,   *)
(* so every behaviour is one component's, and "part" says whose.           *)
(***************************************************************************)
EXTENDS AgentJobStream, ModelCircuit, OfflineAgent

VARIABLE part

runtimeVars == <<part, streamVars, modelVars, offlineVars>>

\* A part that does not act starts in one of its initial states only.
RuntimeInit ==
  /\ part \in {"stream", "circuit", "offline"}
  /\ part = "offline" \/ prompt = CHOOSE p \in Prompts : TRUE
  /\ StreamInit /\ CircuitInit /\ OfflineInit

RuntimeNext ==
  \/ part = "stream" /\ StreamNext /\ UNCHANGED <<part, modelVars, offlineVars>>
  \/ part = "circuit" /\ CircuitNext /\ UNCHANGED <<part, streamVars, offlineVars>>
  \/ part = "offline" /\ OfflineNext /\ UNCHANGED <<part, streamVars, modelVars>>

\* The fairness of FairStreamSpec and FairCircuitSpec, each for its part.
RuntimeSpec ==
  /\ RuntimeInit /\ [][RuntimeNext]_runtimeVars
  /\ WF_streamVars(part = "stream" /\ WorkerStep /\ UNCHANGED clientVars)
  /\ WF_streamVars(part = "stream" /\ Serve)
  /\ \A c \in Callers : WF_modelVars(part = "circuit" /\ Progress(c))
=============================================================================
