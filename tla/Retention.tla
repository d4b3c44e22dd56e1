------------------------------ MODULE Retention ------------------------------
(***************************************************************************)
(* The cleanup of old files: the bounded preview with its cache            *)
(* (packages/monitoring/retention.py) and the confirmed removal with its   *)
(* audit (packages/harness/retention_tools.py).  The files of one category *)
(* go on being written by programs that know nothing of it; a plan is      *)
(* confirmed by a person long after it was shown; two cleanups may run at  *)
(* once and the process may die between any two removals.                  *)
(***************************************************************************)
EXTENDS Integers, FiniteSets, FiniteSetsExt, Sequences, SequencesExt

CONSTANTS Paths, PathOrder,      \* files of the category, and the order of their names
          Cleanups,              \* calls of the confirmed tool
          MinKeep, RetentionDays, CandidateLimit,
          MaxDays, MaxWrites, MaxDeaths   \* bounds

ASSUME RetentionAssumption ==
  /\ {MinKeep, RetentionDays} \subseteq Nat /\ CandidateLimit \in Nat \ {0}
  /\ PathOrder \in [Paths -> Int]

VARIABLES day,
          files,       \* [modified, size] of the files there are
          cache,       \* _cached_snapshot, or NoSnapshot
          call,        \* what each cleanup is doing
          audit,       \* retention-cleanup-audit.jsonl
          writes, deaths,
          removed      \* history: the removals, and what was checked before each

retentionVars == <<day, files, cache, call, audit, writes, deaths, removed>>

NoSnapshot == [taken |-> "no", rows |-> {}]
NotCalled == [at |-> "idle", plan |-> {}, left |-> <<>>, deleted |-> {}, failed |-> {},
              checked |-> {}]

RetentionInit ==
  /\ day = 0 /\ files = [p \in {} |-> 0]
  /\ cache = NoSnapshot
  /\ call = [c \in Cleanups |-> NotCalled]
  /\ audit = <<>> /\ writes = 0 /\ deaths = 0 /\ removed = {}

\* A program appends to a file or makes it; both leave the day's time.
WriteFile(p) ==
  /\ writes < MaxWrites /\ writes' = writes + 1
  /\ files' = [q \in DOMAIN files \cup {p} |->
                 IF q # p THEN files[q]
                 ELSE [modified |-> day, size |-> IF p \in DOMAIN files THEN files[p].size + 1 ELSE 1]]
  /\ UNCHANGED <<day, cache, call, audit, deaths, removed>>

NextDay ==
  /\ day < MaxDays /\ day' = day + 1
  /\ UNCHANGED <<files, cache, call, audit, writes, deaths, removed>>

Older(p, q) ==
  \/ files[p].modified < files[q].modified
  \/ files[p].modified = files[q].modified /\ PathOrder[p] < PathOrder[q]

FaultyProtected ==
  {p \in DOMAIN files : files[p].modified >= day - RetentionDays}

\* The newest files are kept whatever their age.
Protected == {p \in DOMAIN files : Cardinality({q \in DOMAIN files : Older(p, q)}) < MinKeep}

Eligible == {p \in DOMAIN files \ Protected : files[p].modified < day - RetentionDays}

\* _scan: the oldest ones, with what identifies their content.
Row(p) == [path |-> p, file |-> files[p]]
Scan == {Row(p) : p \in {p \in Eligible :
                           Cardinality({q \in Eligible : Older(q, p)}) < CandidateLimit}}

\* preview: while the cache is young it answers, whatever happened since.
Shown(rows) ==
  /\ rows = IF cache.taken = "yes" THEN cache.rows ELSE Scan
  /\ cache' = [taken |-> "yes", rows |-> rows]

\* A person confirms some of the files a preview showed.
Confirm(c, rows, chosen) ==
  /\ call[c].at = "idle" /\ Shown(rows)
  /\ chosen \subseteq rows /\ chosen # {}
  /\ call' = [call EXCEPT ![c] = [NotCalled EXCEPT !.at = "confirmed", !.plan = chosen]]
  /\ UNCHANGED <<day, files, audit, writes, deaths, removed>>

CacheExpires ==
  /\ cache.taken = "yes" /\ cache' = NoSnapshot
  /\ UNCHANGED <<day, files, call, audit, writes, deaths, removed>>

FaultyCurrent(plan) == plan \subseteq (IF cache.taken = "yes" THEN cache.rows ELSE Scan)

\* The plan id of the confirmed paths must be that of a forced preview.
Current(plan) == plan \subseteq Scan

\* cleanup until its PREPARED record is on disk.
Prepare(c) ==
  /\ call[c].at = "confirmed"
  /\ cache' = [taken |-> "yes", rows |-> Scan]
  /\ IF Current(call[c].plan)
     THEN /\ audit' = Append(audit, [of |-> c, status |-> "PREPARED",
                                     paths |-> {r.path : r \in call[c].plan}])
          /\ \E order \in SetToSeqs(call[c].plan) :
               call' = [call EXCEPT ![c].at = "recheck", ![c].left = order]
     ELSE /\ call' = [call EXCEPT ![c] = NotCalled]
          /\ UNCHANGED audit
  /\ UNCHANGED <<day, files, writes, deaths, removed>>

Failed(c) == [call EXCEPT ![c].failed = @ \cup {Head(call[c].left).path},
                          ![c].left = Tail(@), ![c].at = "recheck"]

FaultyUnchanged(row) == row.path \in DOMAIN files

\* _recheck_candidate.
Unchanged(row) == row.path \in DOMAIN files /\ files[row.path] = row.file

Recheck(c) ==
  /\ call[c].at = "recheck" /\ call[c].left # <<>>
  /\ call' = IF Unchanged(Head(call[c].left))
             THEN [call EXCEPT ![c].at = "unlink",
                               ![c].checked = {files[Head(call[c].left).path]}]
             ELSE Failed(c)
  /\ UNCHANGED <<day, files, cache, audit, writes, deaths, removed>>

\* os.unlink, a step later: the file may be gone by then, or have grown.
Unlink(c) ==
  /\ call[c].at = "unlink"
  /\ LET row == Head(call[c].left)
     IN  IF row.path \in DOMAIN files
         THEN /\ files' = [q \in DOMAIN files \ {row.path} |-> files[q]]
              /\ removed' = removed \cup {[by |-> c, row |-> row, checked |-> call[c].checked,
                                           gone |-> files[row.path]]}
              /\ call' = [call EXCEPT ![c].deleted = @ \cup {row.path},
                                      ![c].left = Tail(@), ![c].at = "recheck"]
         ELSE /\ call' = Failed(c)
              /\ UNCHANGED <<files, removed>>
  /\ UNCHANGED <<day, cache, audit, writes, deaths>>

FinishCleanup(c) ==
  /\ call[c].at = "recheck" /\ call[c].left = <<>>
  /\ audit' = Append(audit, [of |-> c, status |-> IF call[c].failed = {} THEN "COMPLETED" ELSE "PARTIAL",
                             paths |-> call[c].deleted])
  /\ cache' = NoSnapshot
  /\ call' = [call EXCEPT ![c].at = "done"]
  /\ UNCHANGED <<day, files, writes, deaths, removed>>

\* The process dies: its cleanups end where they were, the cache is gone.
CleanupDies ==
  /\ deaths < MaxDeaths /\ deaths' = deaths + 1
  /\ \E c \in Cleanups : call[c].at \notin {"idle", "done"}
  /\ call' = [c \in Cleanups |-> IF call[c].at \in {"idle", "confirmed"} THEN NotCalled
                                 ELSE [call[c] EXCEPT !.at = "done"]]
  /\ cache' = NoSnapshot
  /\ UNCHANGED <<day, files, audit, writes, removed>>

RetentionNext ==
  \/ \E p \in Paths : WriteFile(p)
  \/ NextDay \/ CacheExpires \/ CleanupDies
  \/ \E c \in Cleanups :
       \/ \E rows \in {IF cache.taken = "yes" THEN cache.rows ELSE Scan} :
            \E chosen \in SUBSET rows : Confirm(c, rows, chosen)
       \/ Prepare(c) \/ Recheck(c) \/ Unlink(c) \/ FinishCleanup(c)

RetentionSpec == RetentionInit /\ [][RetentionNext]_retentionVars

-----------------------------------------------------------------------------
RecordsOf(c, statuses) ==
  UNION {audit[i].paths : i \in {i \in DOMAIN audit : audit[i].of = c /\ audit[i].status \in statuses}}

\* Every removal is in the audit before it happens, also when the process died
\* in the middle, and a cleanup that ended reports exactly its own removals,
\* also of files another one was removing at the same time.
RemovalsAreAudited ==
  \A c \in Cleanups :
    LET gone == {r.row.path : r \in {r \in removed : r.by = c}}
    IN  /\ gone \subseteq RecordsOf(c, {"PREPARED"})
        /\ RecordsOf(c, {"COMPLETED", "PARTIAL"}) \in {{}, gone}

\* What was checked right before a removal is what the person had confirmed.
ConfirmedContentGoes == \A r \in removed : r.checked = {r.row.file}

\* With any number of plans in flight the newest files stay, unless a file
\* was written to after it was checked and before it was removed.
NewestStay ==
  removed # {} /\ (\A r \in removed : r.gone = r.row.file) =>
    Cardinality(DOMAIN files) >= MinKeep

CleanupsAreSafe == RemovalsAreAudited /\ ConfirmedContentGoes /\ NewestStay
=============================================================================
