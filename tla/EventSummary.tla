---------------------------- MODULE EventSummary ----------------------------
(***************************************************************************)
(* EventSummaryService.summarize (packages/events/summary.py): a report    *)
(* put together from several statements over the table of events           *)
(* (sqlite_store.py summarize, summarize_timeline), each of which sees     *)
(* what the probe and the operators made of the table since the last.      *)
(* "matching" counts the rows that match the report's filters, as the list *)
(* of events reads them, by their minute and their name in one dimension   *)
(* (type, severity, class or zone); an acknowledgement takes a row out of  *)
(* a filter or brings it in.                                               *)
(***************************************************************************)
EXTENDS Integers, FiniteSets, FiniteSetsExt, Functions, Sequences, SequencesExt

CONSTANTS
    Labels,            \* the names of the dimension, in their order
    GroupLimit,        \* GROUP_LIMIT (20)
    BucketLimit,       \* buckets of a timeline (100)
    Questions,         \* what reports are asked for: span is minutes, offset is
                       \* comparison_offset_minutes (0 for the window just before, -1 for
                       \* none), bucket is bucket_minutes (15, 30, 60) or 0 for no timeline,
                       \* padded: a filter's text has spaces around it, or nothing else
    References,        \* the offsets of the reference baselines (1440, 10080)
    RecentLimit,       \* recent_limit
    MinimumEvents, MinimumPercent,
    StableSpread,      \* REFERENCE_STABILITY_SPREAD_PERCENT
    Present,           \* the minute in which the report begins
    MaxRows, MaxChanges \* bounds: rows at the beginning, changes meanwhile

ASSUME SummaryAssumption ==
    /\ {GroupLimit, BucketLimit, RecentLimit, MinimumEvents, MinimumPercent, Present} \subseteq Nat \ {0}
    /\ References \subseteq Nat /\ IsFiniteSet(References) /\ References # {}
    /\ Labels \in Seq(ToSet(Labels)) /\ StableSpread \in 0..99
    /\ Questions \subseteq [span : Nat \ {0}, offset : Int, bucket : Nat, padded : {"yes", "no"}]
    \* A timeline of 1440 minutes fits (1440 / 15 + 2 <= 100), a reference lies before the window.
    /\ \A q \in Questions : /\ q.bucket > 0 => q.span \div q.bucket + 2 <= BucketLimit
                             /\ \A r \in References : r >= q.span

VARIABLES
    matching,  \* <<minute, name>> -> rows that match
    stage,     \* the next statement
    report,    \* what was asked and what the statements returned
    changes, grew    \* history: changes since it began, and were they only new rows

summaryVars == <<matching, stage, report, changes, grew>>

LabelSet == ToSet(Labels)
Cells == (0..(Present + 1)) \X LabelSet
Position(n) == CHOOSE i \in DOMAIN Labels : Labels[i] = n
Count(cells) == SumFunctionOnSet(matching, cells)
NoGroups == [counts |-> [n \in {} |-> 0], truncated |-> FALSE]
NoReport == [span |-> 0, offset |-> -1, bucket |-> 0, padded |-> "no", recent |-> 0, total |-> 0,
             groups |-> NoGroups, lines |-> [b \in {} |-> 0], before |-> 0, earlier |-> NoGroups,
             baselines |-> [o \in {} |-> 0]]

SummaryInit ==
    /\ matching = [c \in Cells |-> 0]
    /\ stage = "idle" /\ report = NoReport
    /\ changes = 0 /\ grew = TRUE

Writing == stage \notin {"idle", "done"} /\ changes < MaxChanges

RowStored(cell) ==
    /\ stage = "idle" /\ Count(Cells) < MaxRows
    /\ cell[1] <= Present
    /\ matching' = [matching EXCEPT ![cell] = @ + 1]
    /\ UNCHANGED <<stage, report, changes, grew>>

\* Meanwhile the probe adds rows, of this minute and the next, and operators acknowledge.
RowArrives(cell) ==
    /\ Writing /\ cell[1] >= Present
    /\ matching' = [matching EXCEPT ![cell] = @ + 1]
    /\ changes' = changes + 1
    /\ UNCHANGED <<stage, report, grew>>

RowAcknowledged(cell) ==
    /\ Writing /\ matching[cell] > 0
    /\ matching' = [matching EXCEPT ![cell] = @ - 1]
    /\ changes' = changes + 1 /\ grew' = FALSE
    /\ UNCHANGED <<stage, report>>

-----------------------------------------------------------------------------
(* The statements.                                                         *)

Since(r) == Present - r.span
\* Where the window begins that the current one is compared with.
Offset(r) == IF r.offset = 0 THEN r.span ELSE r.offset
FaultyWindowCells(since, until) == {c \in Cells : since <= c[1] /\ c[1] <= until}
WindowCells(since, until) == {c \in Cells : since <= c[1] /\ c[1] < until}
\* The rows a counting statement finds: it compares the filters as they came,
\* and no row has a name with spaces around it.
Counted(r, cells) == IF r.padded = "yes" THEN {} ELSE cells
Listed(r) == {c \in Cells : Since(r) <= c[1]}
Current(r) == Counted(r, Listed(r))
Compared(r) == Counted(r, WindowCells(Since(r) - Offset(r), Since(r) - Offset(r) + r.span))
Baseline(r, offset) == Counted(r, WindowCells(Since(r) - offset, Since(r) - offset + r.span))

Least(m, n) == IF m < n THEN m ELSE n

\* GROUP BY name ORDER BY count DESC, name LIMIT group_limit + 1.
Ahead(counts, m, n) ==
    counts[m] > counts[n] \/ (counts[m] = counts[n] /\ Position(m) < Position(n))
Grouped(cells) ==
    LET counts == [n \in LabelSet |-> Count({c \in cells : c[2] = n})]
        found == {n \in LabelSet : counts[n] > 0}
        kept == {n \in found : Cardinality({m \in found : Ahead(counts, m, n)}) < GroupLimit}
    IN  [counts |-> [n \in kept |-> counts[n]], truncated |-> Cardinality(found) > GroupLimit]

\* The offset must not be shorter than the span.
Acceptable(q) == q.offset <= 0 \/ q.offset >= q.span

\* The list takes the spaces away (EventQueryService._optional_text), which
\* the statements after it do not.
ListRecent(q) ==
    /\ stage = "idle" /\ Acceptable(q)
    /\ report' = [NoReport EXCEPT !.span = q.span, !.offset = q.offset, !.bucket = q.bucket,
                    !.padded = q.padded, !.recent = Least(RecentLimit, Count(Listed(q)))]
    /\ stage' = "total"
    /\ UNCHANGED <<matching, changes, grew>>

CountTotal ==
    /\ stage = "total"
    /\ report' = [report EXCEPT !.total = Count(Current(report))]
    /\ stage' = "groups"
    /\ UNCHANGED <<matching, changes, grew>>

GroupCurrent ==
    /\ stage = "groups"
    /\ report' = [report EXCEPT !.groups = Grouped(Current(report))]
    /\ stage' = IF report.bucket > 0 THEN "timeline"
                ELSE IF report.offset >= 0 THEN "before" ELSE "baselines"
    /\ UNCHANGED <<matching, changes, grew>>

BucketOf(minute, width) == (minute \div width) * width

ReadTimeline ==
    /\ stage = "timeline"
    /\ report' = [report EXCEPT !.lines =
                    [b \in {BucketOf(c[1], report.bucket) : c \in Current(report)} |->
                       Count({c \in Current(report) : BucketOf(c[1], report.bucket) = b})]]
    /\ stage' = IF report.offset >= 0 THEN "before" ELSE "baselines"
    /\ UNCHANGED <<matching, changes, grew>>

CountBefore ==
    /\ stage = "before"
    /\ report' = [report EXCEPT !.before = Count(Compared(report))]
    /\ stage' = "earlier"
    /\ UNCHANGED <<matching, changes, grew>>

GroupBefore ==
    /\ stage = "earlier"
    /\ report' = [report EXCEPT !.earlier = Grouped(Compared(report))]
    /\ stage' = "baselines"
    /\ UNCHANGED <<matching, changes, grew>>

\* Yesterday first, then last week.
CountBaseline ==
    /\ stage = "baselines"
    /\ LET counted == DOMAIN report.baselines
           next == Min(References \ counted)
       IN  /\ report' = [report EXCEPT !.baselines =
                            [o \in counted \union {next} |->
                               IF o = next THEN Count(Baseline(report, o)) ELSE report.baselines[o]]]
           /\ stage' = IF counted \union {next} = References THEN "done" ELSE "baselines"
    /\ UNCHANGED <<matching, changes, grew>>

SummaryNext ==
    \/ \E q \in Questions : ListRecent(q)
    \/ CountTotal \/ GroupCurrent \/ ReadTimeline \/ CountBefore \/ GroupBefore \/ CountBaseline
    \/ \E c \in Cells : RowStored(c) \/ RowArrives(c) \/ RowAcknowledged(c)

SummarySpec == SummaryInit /\ [][SummaryNext]_summaryVars

-----------------------------------------------------------------------------
(* The report.                                                             *)

\* _fill_timeline: the buckets from the one of the window's start to the one of its end.
FaultyShown(r) == {b \in DOMAIN r.lines : Since(r) <= b /\ b <= Present}
Shown(r) ==
    LET first == BucketOf(Since(r), r.bucket)
        last == BucketOf(Present, r.bucket)
    IN  {b \in DOMAIN r.lines : first <= b /\ b <= last /\ (b - first) \div r.bucket < BucketLimit}

At(counts, n) == IF n \in DOMAIN counts THEN counts[n] ELSE 0
Magnitude(x) == IF x < 0 THEN -x ELSE x
\* round(change / base * 100, 2), in hundredths of a percent.
Hundredths(change, base) == (20000 * Magnitude(change) + base) \div (2 * base)

\* _assess_change
Exceeded(current, base) ==
    IF base = 0 THEN current >= MinimumEvents
    ELSE /\ Magnitude(current - base) >= MinimumEvents
         /\ Hundredths(current - base, base) >= 100 * MinimumPercent

\* _compare_groups: the names of either window, the largest changes first, cut again.
Changed(r) ==
    LET names == DOMAIN r.groups.counts \union DOMAIN r.earlier.counts
    IN  [n \in names |-> At(r.groups.counts, n) - At(r.earlier.counts, n)]
Contributors(r) ==
    LET change == Changed(r)
        size == [n \in DOMAIN change |-> Magnitude(change[n])]
        kept == {n \in DOMAIN size : Cardinality({m \in DOMAIN size : Ahead(size, m, n)}) < GroupLimit}
    IN  [n \in kept |-> change[n]]

\* _structural_changes
Complete(r) == ~r.groups.truncated /\ ~r.earlier.truncated
Net(r) == SumFunction(Contributors(r))
Gross(r) == SumFunction([n \in DOMAIN Contributors(r) |-> Magnitude(Contributors(r)[n])])
Offsetting(r) == (Gross(r) - Magnitude(Net(r))) \div 2
Significant(r) ==
    {n \in DOMAIN Contributors(r) : Exceeded(At(r.groups.counts, n), At(r.earlier.counts, n))}
Structure(r) ==
    CASE ~Complete(r) -> "PARTIAL"
      [] Complete(r) /\ ~Exceeded(r.total, r.before) /\ Significant(r) # {} -> "MASKED"
      [] Complete(r) /\ (Exceeded(r.total, r.before) \/ Significant(r) = {}) ->
           IF Offsetting(r) > 0 THEN "OPPOSING" ELSE IF Gross(r) > 0 THEN "ONE_DIRECTION" ELSE "NO_CHANGE"

\* _assess_reference_baselines and _assess_reference_consistency; the average is a fraction of totals.
Sum(r) == SumFunction(r.baselines)
Standing(r) ==
    LET now == r.total * Cardinality(References) IN
    CASE Sum(r) = 0 -> IF r.total > 0 THEN "NEW_ACTIVITY" ELSE "NO_HISTORY"
      [] Sum(r) > 0 /\ now > Sum(r) -> "ABOVE"
      [] Sum(r) > 0 /\ now < Sum(r) -> "BELOW"
      [] Sum(r) > 0 /\ now = Sum(r) -> "MATCHES"
Spread(r) == Max({r.baselines[o] : o \in References}) - Min({r.baselines[o] : o \in References})
Reliable(r) ==
    Sum(r) > 0 /\ Hundredths(Spread(r) * Cardinality(References), Sum(r)) <= 100 * StableSpread

-----------------------------------------------------------------------------
(* Properties.                                                             *)

\* With no change of the table between the statements, the parts of a report tell of the same
\* rows: the list, the timeline and the groups add up to the total; two adjacent windows hold
\* each row once; and the changes of all groups add up to the change of the total, unless one
\* of them was cut off, of either window or of both together.  A filter with spaces around it is
\* the exception: the list is that of the filter without them and everything else counts nothing.
PartsAddUp ==
    stage = "done" /\ changes = 0 =>
      /\ report.padded = "no" => report.recent = Least(RecentLimit, report.total)
      /\ report.padded = "yes" => report.recent = Least(RecentLimit, Count(Listed(report))) /\ report.total = 0
      /\ report.bucket > 0 => SumFunctionOnSet(report.lines, Shown(report)) = report.total
      /\ report.offset = 0 /\ report.padded = "no" =>
           report.total + report.before = Count({c \in Cells : c[1] >= Since(report) - report.span})
      /\ Complete(report) /\ report.offset >= 0 /\ Cardinality(DOMAIN Changed(report)) <= GroupLimit =>
           Net(report) = report.total - report.before

\* While rows only arrive, a part read later never tells of less, but for such a filter.
PartsOnlyGrow ==
    stage = "done" /\ grew =>
      /\ report.padded = "no" => report.recent <= report.total
      /\ ~report.groups.truncated => report.total <= SumFunction(report.groups.counts)

\* By the table itself: some name became significantly more or less frequent, the rows together
\* did not.
Hides(r) ==
    LET Rows(n, cells) == Count({c \in cells : c[2] = n}) IN
    /\ ~Exceeded(Count(Current(r)), Count(Compared(r)))
    /\ \E n \in LabelSet : Exceeded(Rows(n, Current(r)), Rows(n, Compared(r)))

\* What is called offset is what was lost in one group and won in another, and no group changed
\* when no change is told; a report is called masked exactly when a significant change hides
\* behind the total, with no change of the table meanwhile and no group cut off; and a report that
\* is compared with its references agrees with each of them when they agree with each other.
SignalsAreTrue ==
    stage = "done" =>
      /\ LET up == SumFunctionOnSet(Contributors(report), {n \in DOMAIN Contributors(report) : Contributors(report)[n] > 0})
             down == SumFunctionOnSet(Contributors(report), {n \in DOMAIN Contributors(report) : Contributors(report)[n] < 0})
         IN  Offsetting(report) = Least(up, -down)
      /\ Structure(report) = "NO_CHANGE" => \A n \in DOMAIN Changed(report) : Changed(report)[n] = 0
      /\ changes = 0 /\ report.offset >= 0 /\ Complete(report) /\ Cardinality(DOMAIN Changed(report)) <= GroupLimit =>
           (Structure(report) = "MASKED" <=> Hides(report))
      /\ Standing(report) = "ABOVE" /\ Spread(report) = 0 => \A o \in References : report.total > report.baselines[o]
      /\ Reliable(report) => \A o \in References : report.baselines[o] > 0

\* The report as a whole.
SummaryIsExact == PartsAddUp /\ PartsOnlyGrow /\ SignalsAreTrue
=============================================================================
