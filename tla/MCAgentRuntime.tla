--------------------------- MODULE MCAgentRuntime ---------------------------
(* AgentRuntime: two jobs and a client, two callers of the model, and what *)
(* users say to the offline model: two groups of keywords, with no, good   *)
(* or bad numbers, with ids, with something to remember.                   *)
EXTENDS AgentRuntime

CONSTANTS j1, j2, key1, b1, c1, c2

Topics ==
  {"shell", "restore preview", "create backup", "backups", "forget", "recall", "snapshot",
   "restart", "model", "performance", "benchmark", "camera status", "weather",
   "cleanup history", "cleanup", "retention", "storage", "health", "evidence", "report",
   "acknowledge", "detail", "person", "track", "how many", "compare", "stock", "left", "right",
   "removed", "removals", "open", "handled", "tally", "zone", "zone event", "people", "objects",
   "summary", "trend", "compare events", "assess", "yesterday", "last week", "bottle", "events",
   "dwell", "camera", "offline", "recovered"}

Numbers(minutes, track, expected, letters) ==
  [n \in {"minutes", "track_id", "expected", "confidence", "class", "location", "severity"} |->
     CASE n = "minutes" -> Number(minutes) [] n = "track_id" -> Number(track)
       [] n = "expected" -> Number(expected) [] n = "class" -> Name("bottle")
       [] n = "confidence" -> [type |-> "number", size |-> 1, parts |-> <<>>]
       [] n = "location" -> Id(letters, "place") [] OTHER -> Choice(3)]
Ids == [n \in {"backup_id", "memory_id", "event_id"} |-> Id(IF n = "backup_id" THEN 35 ELSE 36, n)]
Keepsake == [n \in {"key", "value", "query"} |-> Id(IF n = "query" THEN 100 ELSE 1, n)]
Giving == {Nothing, Numbers(1440, 7, 2, 8), Numbers(9999, 0, 999, 1), Ids, Keepsake}

Pairs == {{t, u} : t \in Topics, u \in Topics}

MCPrompts ==
  {[says |-> says, gives |-> gives, skill |-> FALSE] : says \in Pairs, gives \in Giving}
  \cup {[says |-> {t}, gives |-> Nothing, skill |-> TRUE] : t \in Topics}

\* The router finds nothing, the tool the model will ask for, or another one
\* that brings a tool along.
MCFound(p) ==
  {{}, {FirstDecision(p).tool}, {"memory.forget"}, {"system.cleanup_retained_data"}}

\* The message of the dashboard's button ("clean the previewed old logs",
\* apps/dashboard/index.html:720) and what the router finds in it.
CleanPreviewedLogs == {[says |-> {"cleanup"}, gives |-> Nothing, skill |-> FALSE]}
CleanPreviewedFound(p) == {{"system.preview_data_retention"}}
=============================================================================
