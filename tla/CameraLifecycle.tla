---------------------------- MODULE CameraLifecycle ----------------------------
(***************************************************************************)
(* The camera events of packages/monitoring/camera_events.py: what a       *)
(* published status of the supervisor makes of the outage, and how an      *)
(* event reaches the SQLite table and the JSON Lines file.  VisionSupervisor *)
(* composes OnStatus with every publication.                               *)
(***************************************************************************)
EXTENDS Integers, Sequences, SequencesExt

CONSTANT MaxFaults   \* bound on event writes that raise

VARIABLES
    everRunning,  \* ever_running
    outage,       \* offline_event_id while outage_active, else 0
    waiting,      \* pending_events, by id, oldest first
    table,        \* the SQLite rows
    lines,        \* the readable JSON Lines, by event id
    tornTail,     \* the file ends in a part of a line
    faults,
    emitted,      \* history: the events, an id is a place in here
    garbled,      \* history: events whose line was glued to a torn one
    dropped,      \* history: events still waiting when the process ended
    cutShort      \* history: outages that were open when the process ended

store == <<table, lines, tornTail, garbled>>
lifecycleVars == <<everRunning, outage, waiting, store, faults, emitted, dropped, cutShort>>

OutageStatuses == {"CAMERA_OFFLINE", "VISION_STALLED", "RESTARTING", "WAITING_FOR_CAMERA"}
Event == [type : {"CAMERA_OFFLINE", "CAMERA_RECOVERED"}, offline : Nat]

\* How one call of writer.append can go: done, SQLite raises, the line is not
\* written, written in part, or written and closing the file raises.
Failures == {"table", "line", "torn", "close"}

State == [table |-> table, lines |-> lines, torn |-> tornTail, garbled |-> garbled]

FaultyHasLine(s, e) == FALSE
HasLine(s, e) == e \in Range(s.lines)

FaultyWritten(s, e, how) ==   \* the line is written only with its row
    IF how = "table" \/ e \in s.table THEN s
    ELSE [s EXCEPT !.table = @ \cup {e},
                   !.lines = IF how \in {"line", "torn"} THEN @ ELSE Append(@, e)]

\* append checks both sides, so that a repeated call adds what is missing.  A
\* line after a torn one cannot be read.
Written(s, e, how) ==
    LET row == [s EXCEPT !.table = @ \cup {e}] IN
    IF how = "table" THEN s
    ELSE IF HasLine(s, e) \/ how = "line" THEN row
    ELSE IF how = "torn" THEN [row EXCEPT !.torn = TRUE]
    ELSE IF s.torn THEN [row EXCEPT !.torn = FALSE, !.garbled = @ \cup {e}]
    ELSE [row EXCEPT !.lines = Append(@, e)]

AllWritten(s, es) ==
    LET after[n \in 0..Len(es)] ==
            IF n = 0 THEN s ELSE Written(after[n - 1], es[n], "done")
    IN after[Len(es)]

StoreIs(s) ==
    table' = s.table /\ lines' = s.lines /\ tornTail' = s.torn /\ garbled' = s.garbled

\* _retry_pending: n events go through, then the next one, if any, fails.
Retry(n, how) ==
    LET done == AllWritten(State, SubSeq(waiting, 1, n)) IN
    IF n = Len(waiting) THEN done ELSE Written(done, waiting[n + 1], how)

FaultyRemaining(n) == waiting
Remaining(n) == SubSeq(waiting, n + 1, Len(waiting))
RetryCost(n) == IF n = Len(waiting) THEN 0 ELSE 1

FaultyOpens(status) == status \in OutageStatuses /\ everRunning
Opens(status)  == status \in OutageStatuses /\ everRunning /\ outage = 0
Closes(status) == status = "RUNNING" /\ everRunning /\ outage # 0

\* on_status when it makes no event.
Quiet(status, n, how) ==
    /\ ~Opens(status) /\ ~Closes(status)
    /\ everRunning' = (everRunning \/ status = "RUNNING")
    /\ StoreIs(Retry(n, how)) /\ waiting' = Remaining(n)
    /\ faults' = faults + RetryCost(n)
    /\ UNCHANGED <<outage, emitted>>

\* _emit_offline and _emit_recovered, then _persist.
Emits(status, n, how, last) ==
    LET id == Len(emitted) + 1 IN
    /\ Opens(status) \/ Closes(status)
    /\ emitted' = Append(emitted, IF Opens(status)
                                  THEN [type |-> "CAMERA_OFFLINE", offline |-> id]
                                  ELSE [type |-> "CAMERA_RECOVERED", offline |-> outage])
    /\ outage' = IF Opens(status) THEN id ELSE 0
    /\ StoreIs(Written(Retry(n, how), id, last))
    /\ waiting' = IF last = "done" THEN Remaining(n) ELSE Append(Remaining(n), id)
    /\ faults' = faults + RetryCost(n) + (IF last = "done" THEN 0 ELSE 1)
    /\ UNCHANGED everRunning

OnStatus(status) ==
    /\ \E n \in 0..Len(waiting), how \in Failures :
          \/ Quiet(status, n, how)
          \/ \E last \in Failures \cup {"done"} : Emits(status, n, how, last)
    /\ faults' <= MaxFaults
    /\ UNCHANGED <<dropped, cutShort>>

\* The process ends: what is left to write is gone with it.
Forget(left) ==
    /\ everRunning' = FALSE /\ outage' = 0 /\ waiting' = <<>>
    /\ dropped' = dropped \cup Range(left)
    /\ cutShort' = cutShort \cup ({outage} \ {0})
    /\ UNCHANGED emitted

\* on_status of the last publication, then the end.
LastStatus ==
    /\ \E n \in 0..Len(waiting), how \in Failures :
          /\ StoreIs(Retry(n, how)) /\ faults' = faults + RetryCost(n)
          /\ Forget(Remaining(n))
    /\ faults' <= MaxFaults

Lost == Forget(waiting) /\ UNCHANGED <<store, faults>>

LifecycleInit ==
    /\ everRunning = FALSE /\ outage = 0 /\ waiting = <<>>
    /\ table = {} /\ lines = <<>> /\ tornTail = FALSE
    /\ faults = 0 /\ emitted = <<>> /\ garbled = {} /\ dropped = {} /\ cutShort = {}

LifecycleTypeOK ==
    /\ everRunning \in BOOLEAN /\ outage \in 0..Len(emitted)
    /\ waiting \in Seq(1..Len(emitted)) /\ table \subseteq 1..Len(emitted)
    /\ lines \in Seq(1..Len(emitted)) /\ tornTail \in BOOLEAN
    /\ faults \in 0..MaxFaults /\ emitted \in Seq(Event)

================================================================================
