---------------------------- MODULE EventLedger -----------------------------
(***************************************************************************)
(* The table of events (packages/events/sqlite_store.py) as its readers    *)
(* and operators share it: a client lists it page by page with a cursor    *)
(* (packages/api/event_service.py) while the probe adds rows, late ones    *)
(* too, and operators acknowledge them over connections of their own.      *)
(* A row is <<timestamp, frame_id, event_id>>; its type, class, camera and *)
(* severity are one value, its kind.                                       *)
(***************************************************************************)
EXTENDS Integers, FiniteSets, FiniteSetsExt, Sequences, SequencesExt

CONSTANTS Events, Kind, Reviewers,
          PageLimits,    \* the limits a client may ask for (1..100)
          Openings,      \* what "minutes" before now may be, 0 for no window
          MaxAnswers     \* bound: answers of acknowledge

ASSUME LedgerAssumption ==
  /\ Events \subseteq Nat \X Nat \X Nat
  /\ PageLimits \subseteq Nat \ {0}
  /\ "OPEN" \notin Reviewers

VARIABLES rows,          \* events INSERTed
          acknowledged,  \* acknowledged_by, or "OPEN"
          deciding,      \* what each operator's connection has SELECTed
          answers,       \* history: the answers of acknowledge
          walk           \* a client's pages: its cursor, what it was given

ledgerVars == <<rows, acknowledged, deciding, answers, walk>>

Statuses == {"any", "OPEN", "ACKNOWLEDGED"}
Filters == [status : Statuses, kind : {"any"} \cup {Kind[e] : e \in Events}]
Origin == CHOOSE e \in Events : TRUE
NoWalk == [at |-> "idle", filters |-> [status |-> "any", kind |-> "any"], since |-> 0,
           sort |-> Origin, seen |-> <<>>, steady |-> {}]
Undecided == [at |-> "idle", event |-> Origin, already |-> "no"]

LedgerInit ==
  /\ rows = {} /\ acknowledged = [e \in Events |-> "OPEN"]
  /\ deciding = [o \in Reviewers |-> Undecided]
  /\ answers = {} /\ walk = NoWalk

AppendEvent(e) ==
  /\ e \notin rows
  /\ rows' = rows \cup {e}
  /\ UNCHANGED <<acknowledged, deciding, answers, walk>>

\* ORDER BY timestamp, frame_id, event_id.
Below(e, f) ==
  \/ e[1] < f[1]
  \/ e[1] = f[1] /\ e[2] < f[2]
  \/ e[1] = f[1] /\ e[2] = f[2] /\ e[3] < f[3]

Status(e) == IF acknowledged[e] = "OPEN" THEN "OPEN" ELSE "ACKNOWLEDGED"

Matching(filters, since) ==
  {e \in rows : /\ filters.status \in {"any", Status(e)}
                /\ filters.kind \in {"any", Kind[e]}
                /\ e[1] >= since}

\* ORDER BY ... DESC LIMIT n: as many of the set are above a row as stand before it.
Newest(set, n) ==
  [i \in 1..(IF Cardinality(set) < n THEN Cardinality(set) ELSE n) |->
     CHOOSE e \in set : Cardinality({f \in set : Below(e, f)}) = i - 1]

FaultyFollowing(set, sort) == {e \in set : e[1] < sort[1]}

\* query's "before".
Following(set, sort) == {e \in set : Below(e, sort)}

\* list_events: one row more than asked for tells whether there are more.
Page(candidates, filters, since, limit) ==
  LET found == Newest(candidates, limit + 1)
      page == SubSeq(found, 1, IF Len(found) > limit THEN limit ELSE Len(found))
      matching == Matching(filters, since)
  IN  walk' = [at |-> IF Len(found) > limit THEN "more" ELSE "done",
               filters |-> filters, since |-> since,
               sort |-> IF page = <<>> THEN walk.sort ELSE page[Len(page)],
               seen |-> walk.seen \o page,
               steady |-> IF walk.at = "more" THEN walk.steady \cap matching ELSE matching]

FirstPage(filters, since, limit) ==
  /\ walk.at = "idle"
  /\ Page(Matching(filters, since), filters, since, limit)
  /\ UNCHANGED <<rows, acknowledged, deciding, answers>>

\* A cursor brings its filters and its window; other filters are refused.
NextPage(limit) ==
  /\ walk.at = "more"
  /\ Page(Following(Matching(walk.filters, walk.since), walk.sort), walk.filters, walk.since, limit)
  /\ UNCHANGED <<rows, acknowledged, deciding, answers>>

\* The secret that signs the cursors goes with the process, or the client leaves.
CursorLost ==
  /\ walk.at # "idle" /\ walk' = NoWalk
  /\ UNCHANGED <<rows, acknowledged, deciding, answers>>

\* acknowledge reads the row outside a transaction ...
SelectEvent(o, e) ==
  /\ deciding[o].at = "idle" /\ e \in rows /\ Cardinality(answers) < MaxAnswers
  /\ deciding' = [deciding EXCEPT ![o] =
       [at |-> "read", event |-> e, already |-> IF Status(e) = "OPEN" THEN "no" ELSE "yes"]]
  /\ UNCHANGED <<rows, acknowledged, answers, walk>>

FaultyUpdatable(o) == deciding[o].already = "no"

\* UPDATE ... WHERE status != 'ACKNOWLEDGED'
Updatable(o) == deciding[o].already = "no" /\ Status(deciding[o].event) = "OPEN"

\* ... and updates it in one that the last SELECT belongs to.
Acknowledge(o) ==
  /\ deciding[o].at = "read"
  /\ LET e == deciding[o].event
     IN  /\ acknowledged' = IF Updatable(o) THEN [acknowledged EXCEPT ![e] = o] ELSE acknowledged
         /\ answers' = answers \cup {[event |-> e, to |-> o, already |-> deciding[o].already,
                                      by |-> acknowledged'[e]]}
  /\ deciding' = [deciding EXCEPT ![o] = Undecided]
  /\ UNCHANGED <<rows, walk>>

LedgerNext ==
  \/ \E e \in Events : AppendEvent(e)
  \/ \E filters \in Filters, since \in Openings, limit \in PageLimits :
       FirstPage(filters, since, limit)
  \/ \E limit \in PageLimits : NextPage(limit)
  \/ CursorLost
  \/ \E o \in Reviewers : Acknowledge(o) \/ \E e \in Events : SelectEvent(o, e)

LedgerSpec == LedgerInit /\ [][LedgerNext]_ledgerVars

-----------------------------------------------------------------------------
\* A client that follows its cursor to the end was given no event twice, all
\* in order, and every event that matched its filters at each of its requests.
WalksAreExact ==
  /\ \A i, j \in DOMAIN walk.seen : i < j => Below(walk.seen[j], walk.seen[i])
  /\ walk.at = "done" => walk.steady \subseteq ToSet(walk.seen)

\* All answers about an event name the same operator, the one the row holds,
\* also those of two connections that both found it open.
FirstAcknowledgementStays ==
  \A a \in answers : a.by = acknowledged[a.event] /\ a.by # "OPEN"

\* Both: pages are exact and the first acknowledgement is the only one.
LedgerIsExact == WalksAreExact /\ FirstAcknowledgementStays
=============================================================================
