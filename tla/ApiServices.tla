---------------------------- MODULE ApiServices -----------------------------
(***************************************************************************)
(* The services of the API process beside the queue and the model, each a  *)
(* component of its own: the turns of a task under its limits, the logins, *)
(* the event table, the reports over it and the long-term memory; and the  *)
(* tools' other door, the MCP host and its server.  They share no state in *)
(* the models, so no interleaving of two shows what one alone does not:    *)
(* every behaviour is one component's, and "part" says whose.              *)
(***************************************************************************)
EXTENDS ToolTurn, AuthSessions, EventLedger, LongTermMemory, McpSession, EventSummary

VARIABLE part

apiVars == <<part, turnVars, authVars, ledgerVars, memoryVars, mcpVars, summaryVars>>

ApiInit ==
  /\ part \in {"turn", "logins", "events", "memory", "mcp", "summary"}
  /\ TurnInit /\ AuthInit /\ LedgerInit /\ MemoryInit /\ McpInit /\ SummaryInit

ApiNext ==
  \/ part = "turn" /\ TurnNext /\ UNCHANGED <<part, authVars, ledgerVars, memoryVars, mcpVars, summaryVars>>
  \/ part = "logins" /\ AuthNext /\ UNCHANGED <<part, turnVars, ledgerVars, memoryVars, mcpVars, summaryVars>>
  \/ part = "events" /\ LedgerNext /\ UNCHANGED <<part, turnVars, authVars, memoryVars, mcpVars, summaryVars>>
  \/ part = "memory" /\ MemoryNext /\ UNCHANGED <<part, turnVars, authVars, ledgerVars, mcpVars, summaryVars>>
  \/ part = "mcp" /\ McpNext /\ UNCHANGED <<part, turnVars, authVars, ledgerVars, memoryVars, summaryVars>>
  \/ part = "summary" /\ SummaryNext /\ UNCHANGED <<part, turnVars, authVars, ledgerVars, memoryVars, mcpVars>>

ApiSpec == ApiInit /\ [][ApiNext]_apiVars

-----------------------------------------------------------------------------
\* What is told of the event table, in pages, acknowledgements or reports, is
\* what the table held, also while rows come in and change their status.
EventsAreExact == LedgerIsExact /\ SummaryIsExact
=============================================================================
