----------------------------- MODULE SessionMemory -----------------------------
(***************************************************************************)
(* One session file of packages/harness/session_memory.py.  Every method   *)
(* loads, changes and saves the file under the lock of the session, so     *)
(* each is one operator here; AgentTask composes them with the tasks.      *)
(***************************************************************************)
EXTENDS Integers, Sequences, FiniteSets

CONSTANTS
    Tasks,         \* task identities uuid4 can hand out
    PendingLimit,  \* unfinished tasks one session may hold
    MaxTurns       \* turns a session keeps

ASSUME SessionAssumption ==
    /\ IsFiniteSet(Tasks) /\ PendingLimit \in Nat \ {0} /\ MaxTurns \in Nat \ {0}

VARIABLES
    turns,     \* payload["turns"]: the task of each turn, oldest first
    pending,   \* payload["pending_tasks"]
    expired    \* the session is refused: past expires_at_epoch, pruned, or a
               \* text of it grew over its limit when it was redacted

sessionVars == <<turns, pending, expired>>

SessionInit == turns = <<>> /\ pending = {} /\ expired = FALSE

Latest(seq) == IF Len(seq) > MaxTurns THEN Tail(seq) ELSE seq

FaultyAppendTurn(t) ==    \* the pending entry survives its turn
    turns' = Latest(Append(turns, t)) /\ pending' = pending

\* _append_turn keeps the latest turns and drops the pending entry.
AppendTurn(t) == turns' = Latest(Append(turns, t)) /\ pending' = pending \ {t}

HasRoom(t) == Cardinality(pending) < PendingLimit \/ t \in pending

\* _bounded_text refuses the answer of a completed task that is blank or has
\* more than 4000 characters; the other ends have short answers of their own.
Refuses(status, fits) == status = "COMPLETED" /\ ~fits

\* Does record_task raise: the session has expired, its pending list is full,
\* or the answer does not fit.
RecordRaises(t, status, fits) ==
    expired \/ Refuses(status, fits) \/ (status = "AWAITING_CONFIRMATION" /\ ~HasRoom(t))

\* record_task after run returned.
RecordTask(t, status) ==
    /\ \/ /\ status = "AWAITING_CONFIRMATION"
          /\ pending' = pending \cup {t} /\ UNCHANGED turns
       \/ status \in {"COMPLETED", "CANCELLED"} /\ AppendTurn(t)
       \/ status = "FAILED" /\ UNCHANGED <<turns, pending>>
    /\ UNCHANGED expired

\* Does finalize_task find the session that waits for the task.
Awaited(t) == ~expired /\ t \in pending

\* finalize_task of a task it awaits, after a confirmation or a cancellation.
FinalizeTask(t, status) ==
    /\ \/ status \in {"COMPLETED", "CANCELLED"} /\ AppendTurn(t)
       \/ status = "FAILED" /\ pending' = pending \ {t} /\ UNCHANGED turns
       \/ status = "AWAITING_CONFIRMATION" /\ UNCHANGED <<turns, pending>>
    /\ UNCHANGED expired

\* clear, by the user of the session.
Clear == ~expired /\ turns' = <<>> /\ pending' = {} /\ UNCHANGED expired

\* Time passes expires_at_epoch and prune_expired removes the file later, or a
\* saved text is longer redacted than _validate_payload admits: no load takes
\* the session again.
Expire == ~expired /\ expired' = TRUE /\ UNCHANGED <<turns, pending>>

SessionTypeOK ==
    /\ turns \in Seq(Tasks) /\ pending \in SUBSET Tasks /\ expired \in BOOLEAN

================================================================================
