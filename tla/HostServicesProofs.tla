-------------------------- MODULE HostServicesProofs ---------------------------
(***************************************************************************)
(* The programs that look after the host.                                  *)
(*                                                                         *)
(* The cleanup is safe for any number of files, cleanups and deaths.  The  *)
(* heart is HasNewer: a row that a cleanup still has to remove, and whose  *)
(* file is as it was shown, has MinKeep newer files beside it.  A removal  *)
(* keeps that of every other row, whoever shows it: what is newer than the *)
(* removed file is newer than the other row's as well.                     *)
(*                                                                         *)
(* The service manager is sound for any number of process ids, operators,  *)
(* starts and reboots.  The heart is RuntimeIsNamed: what runs is named by *)
(* the record, or by the copy that a launch has still to write.            *)
(*                                                                         *)
(* Backups are sound for any number of them, whatever is lost and raised.  *)
(* The heart is the order of the copies (CopyIsOrdered): images after the  *)
(* rows that name them, so that images saved meanwhile do no harm; and     *)
(* that what a restore replaces was saved as the plan saw it (PlanIsSaved).*)
(***************************************************************************)
EXTENDS HostServices, FiniteSetTheorems, SequenceTheorems, WellFoundedInduction, TLAPS

FileType == [modified : Nat, size : Nat]
RowType == [path : Paths, file : FileType]
CallType ==
  [at : {"idle", "confirmed", "recheck", "unlink", "done"}, plan : SUBSET RowType,
   left : Seq(RowType), deleted : SUBSET Paths, failed : SUBSET Paths, checked : SUBSET FileType]
RecordType ==
  [of : Cleanups, status : {"PREPARED", "COMPLETED", "PARTIAL"}, paths : SUBSET Paths]
RemovalType == [by : Cleanups, row : RowType, checked : SUBSET FileType, gone : FileType]

FilesOK ==
  /\ files \in [DOMAIN files -> FileType]
  /\ DOMAIN files \subseteq Paths /\ IsFiniteSet(DOMAIN files)
  /\ \A p \in DOMAIN files : files[p].modified <= day

CleanupTypes ==
  /\ day \in Nat /\ FilesOK
  /\ cache \in [taken : {"yes", "no"}, rows : SUBSET RowType]
  /\ call \in [Cleanups -> CallType]
  /\ audit \in Seq(RecordType)
  /\ removed \subseteq RemovalType

\* The rows a cleanup has still to look at or to remove.
Pending(c) ==
  IF call[c].at \in {"recheck", "unlink"} THEN {call[c].left[i] : i \in 1..Len(call[c].left)} ELSE {}

Newer(p) == {q \in DOMAIN files : Older(p, q)}

\* No removal so far hit a file that was written to after it was checked.
Undisturbed == \A r \in removed : r.gone = r.row.file

ShownLongAgo == \A c \in Cleanups : \A r \in Pending(c) : r.file.modified < day

HasNewer ==
  Undisturbed =>
    \A c \in Cleanups : \A r \in Pending(c) : Unchanged(r) => Cardinality(Newer(r.path)) >= MinKeep

CheckedIsFirst ==
  \A c \in Cleanups :
    call[c].at = "unlink" => call[c].left # <<>> /\ call[c].checked = {Head(call[c].left).file}

GoneOf(c) == {r.row.path : r \in {r \in removed : r.by = c}}

\* Where a cleanup is, what it removed and what it wrote belong together.
Recorded(c) ==
  /\ call[c].at \in {"idle", "confirmed"} =>
       /\ RecordsOf(c, {"COMPLETED", "PARTIAL"}) = {}
       /\ GoneOf(c) = {} /\ call[c].deleted = {}
  /\ call[c].at \in {"recheck", "unlink"} =>
       /\ RecordsOf(c, {"COMPLETED", "PARTIAL"}) = {}
       /\ call[c].deleted = GoneOf(c)
       /\ \A r \in Pending(c) : r.path \in RecordsOf(c, {"PREPARED"})
  /\ GoneOf(c) \subseteq RecordsOf(c, {"PREPARED"})
  /\ RecordsOf(c, {"COMPLETED", "PARTIAL"}) \in {{}, GoneOf(c)}

-----------------------------------------------------------------------------
(* The order of files and what a scan returns.                             *)

LEMMA OlderIsAnOrder ==
  ASSUME CleanupTypes, NEW p \in DOMAIN files, NEW q \in DOMAIN files, NEW r \in DOMAIN files
  PROVE  ~Older(p, p) /\ (Older(p, q) /\ Older(q, r) => Older(p, r))
<1>1. \A x \in {p, q, r} : files[x].modified \in Nat /\ PathOrder[x] \in Int
  BY RetentionAssumption DEF CleanupTypes, FilesOK, FileType
<1> QED
  BY <1>1 DEF Older

LEMMA NewerIsFinite ==
  ASSUME CleanupTypes, NEW p
  PROVE  IsFiniteSet(Newer(p)) /\ Cardinality(Newer(p)) \in Nat
BY FS_Subset, FS_CardinalityType DEF CleanupTypes, FilesOK, Newer

LEMMA ScanShowsOldFiles ==
  ASSUME CleanupTypes
  PROVE  /\ Scan \subseteq RowType /\ IsFiniteSet(Scan)
         /\ \A r \in Scan : /\ Unchanged(r) /\ r.file.modified < day
                            /\ Cardinality(Newer(r.path)) >= MinKeep
<1> DEFINE shown == {p \in Eligible : Cardinality({q \in Eligible : Older(q, p)}) < CandidateLimit}
<1>1. Scan = {Row(p) : p \in shown}
  BY DEF Scan
<1>2. shown \subseteq DOMAIN files
  BY DEF Eligible
<1>3. ASSUME NEW p \in shown
      PROVE  /\ Row(p) \in RowType /\ Unchanged(Row(p)) /\ Row(p).file.modified < day
             /\ Cardinality(Newer(Row(p).path)) >= MinKeep
  <2>1. p \in DOMAIN files /\ p \notin Protected /\ files[p].modified < day - RetentionDays
    BY DEF Eligible
  <2>2. files[p] \in FileType /\ files[p].modified \in Nat /\ day \in Nat /\ p \in Paths
    BY <2>1 DEF CleanupTypes, FilesOK, FileType
  <2>3. files[p].modified < day
    BY <2>1, <2>2, RetentionAssumption
  <2>4. Cardinality(Newer(p)) >= MinKeep
    BY <2>1, NewerIsFinite, RetentionAssumption DEF Protected, Newer
  <2> QED
    BY <2>1, <2>2, <2>3, <2>4 DEF Row, RowType, Unchanged
<1>4. IsFiniteSet(Scan)
  <2>1. IsFiniteSet(shown)
    BY <1>2, FS_Subset DEF CleanupTypes, FilesOK
  <2> DEFINE show == [p \in shown |-> Row(p)]
  <2>2. show \in Surjection(shown, Scan)
    BY <1>1 DEF Surjection
  <2> QED
    BY <2>1, <2>2, FS_Surjection
<1> HIDE DEF shown
<1> QED
  BY <1>1, <1>3, <1>4

LEMMA CurrentPlanIsOld ==
  ASSUME CleanupTypes, NEW plan, Current(plan), NEW order \in SetToSeqs(plan)
  PROVE  /\ order \in Seq(RowType)
         /\ \A i \in 1..Len(order) :
              /\ order[i] \in plan /\ order[i] \in RowType
              /\ Unchanged(order[i]) /\ order[i].file.modified < day
              /\ Cardinality(Newer(order[i].path)) >= MinKeep
<1>1. plan \subseteq Scan
  BY DEF Current
<1>2. Cardinality(plan) \in Nat
  BY <1>1, ScanShowsOldFiles, FS_Subset, FS_CardinalityType
<1>3. order \in [1..Cardinality(plan) -> plan]
  BY DEF SetToSeqs
<1>4. order \in Seq(plan) /\ Len(order) = Cardinality(plan)
  BY <1>2, <1>3
<1> QED
  BY <1>1, <1>3, <1>4, ScanShowsOldFiles

-----------------------------------------------------------------------------
(* What a cleanup has pending after a step.                                *)

LEMMA TailIsPending ==
  ASSUME NEW s \in Seq(RowType), s # <<>>
  PROVE  /\ Tail(s) \in Seq(RowType) /\ Head(s) \in RowType
         /\ \A i \in 1..Len(Tail(s)) : Tail(s)[i] = s[i + 1] /\ i + 1 \in 1..Len(s)
         /\ Head(s) = s[1] /\ 1 \in 1..Len(s)
BY HeadTailProperties

KeepInv ==
  CleanupTypes /\ ShownLongAgo /\ HasNewer /\ CheckedIsFirst /\ ConfirmedContentGoes /\ NewestStay

\* The files stay; what is pending now was pending before or is safe as shown.
LEMMA FilesStay ==
  ASSUME KeepInv, day' >= day, day' \in Nat, UNCHANGED <<files, removed>>,
         \A c \in Cleanups : \A r \in Pending(c)' :
            \/ r \in Pending(c)
            \/ r \in RowType /\ r.file.modified < day /\ Cardinality(Newer(r.path)) >= MinKeep
  PROVE  ShownLongAgo' /\ HasNewer' /\ ConfirmedContentGoes' /\ NewestStay'
<1>1. \A r : (Unchanged(r)' <=> Unchanged(r)) /\ Newer(r.path)' = Newer(r.path)
  BY DEF Unchanged, Newer, Older
<1>2. Undisturbed' <=> Undisturbed
  BY DEF Undisturbed
<1>3. HasNewer'
  BY <1>1, <1>2 DEF KeepInv, HasNewer
<1>4. ShownLongAgo'
  <2> SUFFICES ASSUME NEW c \in Cleanups, NEW r \in Pending(c)' PROVE r.file.modified < day'
    BY DEF ShownLongAgo
  <2>1. r.file.modified < day
    BY DEF KeepInv, ShownLongAgo
  <2>2. r.file.modified \in Nat
    <3>1. Pending(c) \subseteq RowType
      BY DEF KeepInv, CleanupTypes, CallType, Pending
    <3> QED
      BY <3>1 DEF RowType, FileType
  <2> QED
    BY <2>1, <2>2 DEF KeepInv, CleanupTypes
<1>5. ConfirmedContentGoes' /\ NewestStay'
  BY DEF KeepInv, ConfirmedContentGoes, NewestStay
<1> QED
  BY <1>3, <1>4, <1>5

-----------------------------------------------------------------------------
(* Every action keeps what is pending safe, one lemma each.                *)

LEMMA WriteKeeps == ASSUME KeepInv, NEW p \in Paths, WriteFile(p) PROVE KeepInv'
<1> DEFINE new == [modified |-> day,
                   size |-> IF p \in DOMAIN files THEN files[p].size + 1 ELSE 1]
<1>1. /\ files' = [q \in DOMAIN files \cup {p} |-> IF q # p THEN files[q] ELSE new]
      /\ UNCHANGED <<day, cache, call, audit, deaths, removed>>
  BY DEF WriteFile
<1>2. new \in FileType /\ new.modified = day
  BY DEF KeepInv, CleanupTypes, FilesOK, FileType
<1> HIDE DEF new
<1>3. DOMAIN files' = DOMAIN files \cup {p}
  BY <1>1
<1>4. FilesOK'
  <2>1. IsFiniteSet(DOMAIN files \cup {p})
    BY FS_AddElement DEF KeepInv, CleanupTypes, FilesOK
  <2>2. IsFiniteSet(DOMAIN files')
    BY <1>3, <2>1
  <2> QED
    BY <1>1, <1>2, <1>3, <2>2 DEF KeepInv, CleanupTypes, FilesOK
<1>5. CleanupTypes'
  BY <1>1, <1>4 DEF KeepInv, CleanupTypes
<1>6. \A c \in Cleanups : Pending(c)' = Pending(c) /\ Pending(c) \subseteq RowType
  BY <1>1 DEF KeepInv, CleanupTypes, CallType, Pending
<1>7. HasNewer'
  <2> SUFFICES ASSUME Undisturbed', NEW c \in Cleanups, NEW r \in Pending(c)', Unchanged(r)'
               PROVE  Cardinality(Newer(r.path)') >= MinKeep
    BY DEF HasNewer
  <2>1. Undisturbed /\ r \in Pending(c) /\ r \in RowType
    BY <1>1, <1>6 DEF Undisturbed
  <2>2. r.file.modified < day
    BY <2>1 DEF KeepInv, ShownLongAgo
  <2>3. r.path # p
    BY <1>1, <1>2, <1>3, <2>2 DEF Unchanged, KeepInv, CleanupTypes
  <2>4. Unchanged(r)
    BY <1>1, <1>3, <2>3 DEF Unchanged
  <2>5. Cardinality(Newer(r.path)) >= MinKeep
    BY <2>1, <2>4 DEF KeepInv, HasNewer
  <2>6. Newer(r.path) \subseteq Newer(r.path)'
    <3> SUFFICES ASSUME NEW q \in DOMAIN files, Older(r.path, q) PROVE Older(r.path, q)'
      BY <1>3 DEF Newer
    <3>1. CASE q = p
      <4>1. files'[q].modified = day /\ files'[r.path].modified < day
        BY <1>1, <1>2, <1>3, <2>2, <2>3, <2>4, <3>1 DEF Unchanged
      <4> QED
        BY <4>1 DEF Older
    <3>2. CASE q # p
      BY <1>1, <1>3, <2>3, <2>4, <3>2 DEF Older, Unchanged
    <3> QED
      BY <3>1, <3>2
  <2>7. IsFiniteSet(Newer(r.path)') /\ Cardinality(Newer(r.path)') \in Nat
    BY <1>4, FS_Subset, FS_CardinalityType DEF FilesOK, Newer
  <2>8. Cardinality(Newer(r.path)) <= Cardinality(Newer(r.path)')
    BY <2>6, <2>7, FS_Subset
  <2> QED
    BY <2>5, <2>7, <2>8, NewerIsFinite, RetentionAssumption DEF KeepInv
<1>8. NewestStay'
  <2>1. Cardinality(DOMAIN files) <= Cardinality(DOMAIN files') /\ Cardinality(DOMAIN files') \in Nat
    BY <1>3, <1>4, FS_Subset, FS_CardinalityType DEF FilesOK
  <2>2. Cardinality(DOMAIN files) \in Nat
    BY FS_CardinalityType DEF KeepInv, CleanupTypes, FilesOK
  <2> QED
    BY <1>1, <2>1, <2>2, RetentionAssumption DEF KeepInv, NewestStay
<1> QED
  BY <1>1, <1>5, <1>6, <1>7, <1>8
  DEF KeepInv, ShownLongAgo, CheckedIsFirst, ConfirmedContentGoes

LEMMA ConfirmKeeps ==
  ASSUME KeepInv, NEW c \in Cleanups, NEW rows, NEW chosen, Confirm(c, rows, chosen)
  PROVE  KeepInv'
<1>1. rows \subseteq RowType
  BY ScanShowsOldFiles DEF Confirm, Shown, KeepInv, CleanupTypes
<1> DEFINE waiting == [NotCalled EXCEPT !.at = "confirmed", !.plan = chosen]
<1>2. chosen \subseteq RowType /\ <<>> \in Seq(RowType)
  BY <1>1 DEF Confirm
<1>3. NotCalled \in CallType
  BY <1>2 DEF NotCalled, CallType
<1>4. waiting \in CallType /\ waiting.at = "confirmed"
  BY <1>2, <1>3 DEF CallType
<1>5. call' = [call EXCEPT ![c] = waiting] /\ UNCHANGED <<day, files, audit, removed>>
  BY DEF Confirm
<1>6. cache' \in [taken : {"yes", "no"}, rows : SUBSET RowType]
  BY <1>1 DEF Confirm, Shown
<1> HIDE DEF waiting
<1>7. CleanupTypes'
  BY <1>4, <1>5, <1>6 DEF KeepInv, CleanupTypes, FilesOK
<1>8. \A d \in Cleanups : Pending(d)' \subseteq Pending(d)
  BY <1>4, <1>5 DEF Pending, KeepInv, CleanupTypes
<1>9. CheckedIsFirst'
  BY <1>4, <1>5 DEF CheckedIsFirst, KeepInv, CleanupTypes
<1> QED
  BY <1>7, <1>8, <1>9, FilesStay DEF Confirm, KeepInv, CleanupTypes

LEMMA QuietKeeps == ASSUME KeepInv, NextDay \/ CacheExpires \/ UNCHANGED retentionVars PROVE KeepInv'
<1>1. /\ UNCHANGED <<files, call, audit, removed>>
      /\ day' \in {day, day + 1} /\ cache' \in {cache, NoSnapshot}
  BY DEF NextDay, CacheExpires, retentionVars
<1>2. CleanupTypes' /\ day' >= day
  BY <1>1 DEF KeepInv, CleanupTypes, FilesOK, NoSnapshot, FileType
<1>3. (\A c \in Cleanups : Pending(c)' = Pending(c)) /\ CheckedIsFirst'
  BY <1>1 DEF Pending, KeepInv, CheckedIsFirst
<1> QED
  BY <1>1, <1>2, <1>3, FilesStay DEF KeepInv, CleanupTypes

LEMMA PrepareKeeps == ASSUME KeepInv, NEW c \in Cleanups, Prepare(c) PROVE KeepInv'
<1> DEFINE plan == call[c].plan
           entry == [of |-> c, status |-> "PREPARED", paths |-> {r.path : r \in plan}]
<1>1. /\ call[c].at = "confirmed" /\ UNCHANGED <<day, files, writes, deaths, removed>>
      /\ cache' = [taken |-> "yes", rows |-> Scan]
  BY DEF Prepare
<1>2. call[c] \in CallType /\ plan \subseteq RowType
  BY DEF KeepInv, CleanupTypes, CallType
<1>3. cache' \in [taken : {"yes", "no"}, rows : SUBSET RowType]
  BY <1>1, ScanShowsOldFiles DEF KeepInv
<1>4. CASE ~Current(plan)
  <2>1. call' = [call EXCEPT ![c] = NotCalled] /\ UNCHANGED audit
    BY <1>4 DEF Prepare
  <2>2. CleanupTypes'
    BY <1>1, <1>3, <2>1 DEF KeepInv, CleanupTypes, FilesOK, NotCalled, CallType
  <2>3. (\A d \in Cleanups : Pending(d)' \subseteq Pending(d)) /\ CheckedIsFirst'
    BY <2>1 DEF Pending, NotCalled, KeepInv, CleanupTypes, CheckedIsFirst
  <2> QED
    BY <1>1, <2>2, <2>3, FilesStay DEF KeepInv, CleanupTypes
<1>5. CASE Current(plan)
  <2>1. PICK order \in SetToSeqs(plan) : call' = [call EXCEPT ![c].at = "recheck", ![c].left = order]
    BY <1>5 DEF Prepare
  <2>2. audit' = Append(audit, entry)
    BY <1>5 DEF Prepare
  <2>3. /\ order \in Seq(RowType)
        /\ \A i \in 1..Len(order) :
             /\ order[i] \in plan /\ order[i] \in RowType /\ order[i].file.modified < day
             /\ Cardinality(Newer(order[i].path)) >= MinKeep
    BY <1>5, CurrentPlanIsOld DEF KeepInv
  <2>4. call'[c] = [call[c] EXCEPT !.at = "recheck", !.left = order]
    BY <2>1 DEF KeepInv, CleanupTypes
  <2>5. \A d \in Cleanups \ {c} : call'[d] = call[d]
    BY <2>1 DEF KeepInv, CleanupTypes
  <2>6. call'[c] \in CallType /\ call'[c].at = "recheck" /\ call'[c].left = order
    BY <1>2, <2>3, <2>4 DEF CallType
  <2>7. entry \in RecordType
    BY <1>2 DEF RecordType, RowType
  <2>8. call' \in [Cleanups -> CallType]
    BY <2>1, <2>5, <2>6 DEF KeepInv, CleanupTypes
  <2>9. CleanupTypes'
    BY <1>1, <1>3, <2>2, <2>7, <2>8 DEF KeepInv, CleanupTypes, FilesOK
  <2>10. \A d \in Cleanups : \A r \in Pending(d)' :
            \/ r \in Pending(d)
            \/ r \in RowType /\ r.file.modified < day /\ Cardinality(Newer(r.path)) >= MinKeep
    BY <2>3, <2>5, <2>6 DEF Pending
  <2>11. CheckedIsFirst'
    BY <2>5, <2>6 DEF KeepInv, CheckedIsFirst
  <2> QED
    BY <1>1, <2>9, <2>10, <2>11, FilesStay DEF KeepInv, CleanupTypes
<1> QED
  BY <1>4, <1>5

\* The call of c becomes one that has at most what it had pending.
LEMMA CallChanges ==
  ASSUME KeepInv, NEW c \in Cleanups, NEW after \in CallType,
         call' = [call EXCEPT ![c] = after],
         after.at \in {"recheck", "unlink"} =>
           \A i \in 1..Len(after.left) : after.left[i] \in Pending(c)
  PROVE  /\ call' \in [Cleanups -> CallType]
         /\ \A d \in Cleanups : Pending(d)' \subseteq Pending(d)
         /\ \A d \in Cleanups : call'[d] = IF d = c THEN after ELSE call[d]
<1>1. \A d \in Cleanups : call'[d] = IF d = c THEN after ELSE call[d]
  BY DEF KeepInv, CleanupTypes
<1>2. call' \in [Cleanups -> CallType]
  BY <1>1 DEF KeepInv, CleanupTypes
<1>3. ASSUME NEW d \in Cleanups PROVE Pending(d)' \subseteq Pending(d)
  <2>1. CASE d = c
    <3>1. Pending(d)' = IF after.at \in {"recheck", "unlink"}
                        THEN {after.left[i] : i \in 1..Len(after.left)} ELSE {}
      BY <1>1, <2>1 DEF Pending
    <3> QED
      BY <2>1, <3>1
  <2>2. CASE d # c
    BY <1>1, <2>2 DEF Pending
  <2> QED
    BY <2>1, <2>2
<1> QED
  BY <1>1, <1>2, <1>3

LEMMA FirstIsPending ==
  ASSUME KeepInv, NEW c \in Cleanups, call[c].at \in {"recheck", "unlink"}, call[c].left # <<>>
  PROVE  /\ call[c] \in CallType /\ Tail(call[c].left) \in Seq(RowType)
         /\ Head(call[c].left) \in RowType /\ Head(call[c].left) \in Pending(c)
         /\ \A i \in 1..Len(call[c].left) : call[c].left[i] \in Pending(c)
         /\ \A i \in 1..Len(Tail(call[c].left)) : Tail(call[c].left)[i] \in Pending(c)
<1>1. call[c] \in CallType /\ call[c].left \in Seq(RowType)
  BY DEF KeepInv, CleanupTypes, CallType
<1>2. \A i \in 1..Len(call[c].left) : call[c].left[i] \in Pending(c)
  BY DEF Pending
<1> QED
  BY <1>1, <1>2, TailIsPending

LEMMA FailedKeeps ==
  ASSUME KeepInv, NEW c \in Cleanups, call[c].at \in {"recheck", "unlink"}, call[c].left # <<>>,
         call' = Failed(c), UNCHANGED <<day, files, cache, audit, removed>>
  PROVE  KeepInv'
<1> DEFINE after == [call[c] EXCEPT !.failed = @ \cup {Head(call[c].left).path},
                                    !.left = Tail(@), !.at = "recheck"]
<1>1. call' = [call EXCEPT ![c] = after]
  BY DEF Failed
<1>2. after \in CallType /\ after.at = "recheck" /\ after.left = Tail(call[c].left)
  BY FirstIsPending DEF CallType, RowType
<1> HIDE DEF after
<1>3. /\ call' \in [Cleanups -> CallType]
      /\ \A d \in Cleanups : Pending(d)' \subseteq Pending(d)
      /\ \A d \in Cleanups : call'[d] = IF d = c THEN after ELSE call[d]
  BY <1>1, <1>2, FirstIsPending, CallChanges
<1>4. CleanupTypes' /\ CheckedIsFirst'
  BY <1>2, <1>3 DEF KeepInv, CleanupTypes, FilesOK, CheckedIsFirst
<1> QED
  BY <1>3, <1>4, FilesStay DEF KeepInv, CleanupTypes

LEMMA RecheckKeeps == ASSUME KeepInv, NEW c \in Cleanups, Recheck(c) PROVE KeepInv'
<1> DEFINE row == Head(call[c].left)
           after == [call[c] EXCEPT !.at = "unlink", !.checked = {files[row.path]}]
<1>1. /\ call[c].at = "recheck" /\ call[c].left # <<>>
      /\ UNCHANGED <<day, files, cache, audit, removed>>
  BY DEF Recheck
<1>2. CASE ~Unchanged(row)
  BY <1>1, <1>2, FailedKeeps DEF Recheck
<1>3. CASE Unchanged(row)
  <2>1. files[row.path] \in FileType /\ files[row.path] = row.file
    BY <1>3 DEF Unchanged, KeepInv, CleanupTypes, FilesOK
  <2>2. after \in CallType /\ after.at = "unlink" /\ after.left = call[c].left
        /\ after.checked = {row.file}
    BY <1>1, <2>1, FirstIsPending DEF CallType
  <2>3. call' = [call EXCEPT ![c] = after]
    BY <1>3 DEF Recheck
  <2> HIDE DEF after
  <2>4. /\ call' \in [Cleanups -> CallType]
        /\ \A d \in Cleanups : Pending(d)' \subseteq Pending(d)
        /\ \A d \in Cleanups : call'[d] = IF d = c THEN after ELSE call[d]
    BY <1>1, <2>2, <2>3, FirstIsPending, CallChanges
  <2>5. CleanupTypes'
    BY <1>1, <2>4 DEF KeepInv, CleanupTypes, FilesOK
  <2>6. CheckedIsFirst'
    BY <1>1, <2>2, <2>4 DEF KeepInv, CheckedIsFirst
  <2> QED
    BY <1>1, <2>4, <2>5, <2>6, FilesStay DEF KeepInv, CleanupTypes
<1> QED
  BY <1>2, <1>3

LEMMA FinishKeeps == ASSUME KeepInv, NEW c \in Cleanups, FinishCleanup(c) PROVE KeepInv'
<1> DEFINE after == [call[c] EXCEPT !.at = "done"]
           entry == [of |-> c, status |-> IF call[c].failed = {} THEN "COMPLETED" ELSE "PARTIAL",
                      paths |-> call[c].deleted]
<1>1. /\ call' = [call EXCEPT ![c] = after] /\ audit' = Append(audit, entry)
      /\ cache' = NoSnapshot /\ UNCHANGED <<day, files, removed>>
  BY DEF FinishCleanup
<1>2. call[c] \in CallType
  BY DEF KeepInv, CleanupTypes
<1>3. after \in CallType /\ after.at = "done"
  BY <1>2 DEF CallType
<1>4. entry \in RecordType /\ NoSnapshot \in [taken : {"yes", "no"}, rows : SUBSET RowType]
  BY <1>2 DEF CallType, RecordType, NoSnapshot
<1> HIDE DEF after, entry
<1>5. /\ call' \in [Cleanups -> CallType]
      /\ \A d \in Cleanups : Pending(d)' \subseteq Pending(d)
      /\ \A d \in Cleanups : call'[d] = IF d = c THEN after ELSE call[d]
  BY <1>1, <1>3, CallChanges
<1>6. CleanupTypes' /\ CheckedIsFirst'
  BY <1>1, <1>3, <1>4, <1>5 DEF KeepInv, CleanupTypes, FilesOK, CheckedIsFirst
<1> QED
  BY <1>1, <1>5, <1>6, FilesStay DEF KeepInv, CleanupTypes

LEMMA DeathKeeps == ASSUME KeepInv, CleanupDies PROVE KeepInv'
<1>1. /\ call' = [c \in Cleanups |-> IF call[c].at \in {"idle", "confirmed"} THEN NotCalled
                                     ELSE [call[c] EXCEPT !.at = "done"]]
      /\ cache' = NoSnapshot /\ UNCHANGED <<day, files, audit, removed>>
  BY DEF CleanupDies
<1>2. NotCalled \in CallType /\ NotCalled.at = "idle"
  BY DEF NotCalled, CallType
<1>3. \A c \in Cleanups : [call[c] EXCEPT !.at = "done"] \in CallType
  BY DEF KeepInv, CleanupTypes, CallType
<1>4. call' \in [Cleanups -> CallType] /\ \A c \in Cleanups : call'[c].at \in {"idle", "done"}
  BY <1>1, <1>2, <1>3 DEF CallType, KeepInv, CleanupTypes
<1>5. (\A c \in Cleanups : Pending(c)' \subseteq Pending(c)) /\ CheckedIsFirst'
  BY <1>4 DEF Pending, CheckedIsFirst
<1>6. NoSnapshot \in [taken : {"yes", "no"}, rows : SUBSET RowType]
  BY DEF NoSnapshot
<1>7. CleanupTypes'
  BY <1>1, <1>4, <1>6 DEF KeepInv, CleanupTypes, FilesOK
<1> QED
  BY <1>1, <1>5, <1>7, FilesStay DEF KeepInv, CleanupTypes

\* The removal itself: who is older than the removed file has lost one newer
\* file and keeps all that are newer than that.
LEMMA UnlinkKeeps == ASSUME KeepInv, NEW c \in Cleanups, Unlink(c) PROVE KeepInv'
<1> DEFINE row == Head(call[c].left)
           gone == [by |-> c, row |-> row, checked |-> call[c].checked, gone |-> files[row.path]]
           after == [call[c] EXCEPT !.deleted = @ \cup {row.path}, !.left = Tail(@), !.at = "recheck"]
<1>1. /\ call[c].at = "unlink" /\ call[c].left # <<>> /\ call[c].checked = {row.file}
      /\ UNCHANGED <<day, cache, audit>>
  BY DEF Unlink, KeepInv, CheckedIsFirst
<1>2. CASE row.path \notin DOMAIN files
  BY <1>1, <1>2, FailedKeeps DEF Unlink
<1>3. CASE row.path \in DOMAIN files
  <2>1. /\ files' = [q \in DOMAIN files \ {row.path} |-> files[q]]
        /\ removed' = removed \cup {gone}
        /\ call' = [call EXCEPT ![c] = after]
    BY <1>3 DEF Unlink
  <2>2. row \in RowType /\ row \in Pending(c) /\ row.path \in Paths
    BY <1>1, FirstIsPending DEF RowType
  <2>3. gone \in RemovalType
    BY <1>1, <1>3, <2>2, FirstIsPending
    DEF RemovalType, RowType, CallType, KeepInv, CleanupTypes, FilesOK
  <2>4. after \in CallType /\ after.at = "recheck" /\ after.left = Tail(call[c].left)
    BY <1>1, <2>2, FirstIsPending DEF CallType
  <2>5. gone.row = row /\ gone.checked = {row.file} /\ gone.gone = files[row.path]
    BY <1>1
  <2> HIDE DEF after, gone
  <2>6. /\ call' \in [Cleanups -> CallType]
        /\ \A d \in Cleanups : Pending(d)' \subseteq Pending(d)
        /\ \A d \in Cleanups : call'[d] = IF d = c THEN after ELSE call[d]
    BY <1>1, <2>1, <2>4, FirstIsPending, CallChanges
  <2>7. DOMAIN files' = DOMAIN files \ {row.path} /\ \A q \in DOMAIN files' : files'[q] = files[q]
    BY <2>1
  <2>8. IsFiniteSet(DOMAIN files')
    BY <2>7, FS_Subset DEF KeepInv, CleanupTypes, FilesOK
  <2>9. CleanupTypes'
    BY <1>1, <2>1, <2>3, <2>6, <2>7, <2>8 DEF KeepInv, CleanupTypes, FilesOK
  <2>10. CheckedIsFirst'
    BY <2>4, <2>6 DEF KeepInv, CheckedIsFirst
  <2>11. ConfirmedContentGoes'
    BY <2>1, <2>5 DEF KeepInv, ConfirmedContentGoes
  <2>12. ShownLongAgo'
    BY <1>1, <2>6 DEF KeepInv, ShownLongAgo
  <2>13. ASSUME Undisturbed'
         PROVE  Undisturbed /\ Unchanged(row) /\ Cardinality(Newer(row.path)) >= MinKeep
    <3>1. Undisturbed /\ files[row.path] = row.file
      BY <2>1, <2>5, <2>13 DEF Undisturbed
    <3> QED
      BY <1>3, <2>2, <3>1 DEF Unchanged, KeepInv, HasNewer
  <2>14. \A p \in DOMAIN files' : Newer(p)' = Newer(p) \ {row.path}
    BY <2>7 DEF Newer, Older
  <2>15. row.path \notin Newer(row.path)
    BY <1>3, OlderIsAnOrder DEF KeepInv, Newer
  <2>16. HasNewer'
    <3> SUFFICES ASSUME Undisturbed', NEW d \in Cleanups, NEW r \in Pending(d)', Unchanged(r)'
                 PROVE  Cardinality(Newer(r.path)') >= MinKeep
      BY DEF HasNewer
    <3>1. r.path \in DOMAIN files' /\ Unchanged(r) /\ r \in Pending(d)
      BY <2>6, <2>7 DEF Unchanged
    <3>2. Cardinality(Newer(r.path)) >= MinKeep
      BY <2>13, <3>1 DEF KeepInv, HasNewer
    <3>3. Newer(r.path)' = Newer(r.path) \ {row.path}
      BY <2>14, <3>1
    <3>4. CASE row.path \in Newer(r.path)
      <4>1. Newer(row.path) \subseteq Newer(r.path)'
        BY <2>7, <2>15, <3>1, <3>3, <3>4, OlderIsAnOrder DEF Newer, KeepInv
      <4>2. IsFiniteSet(Newer(r.path)')
        BY <2>9, NewerIsFinite, FS_Subset, <3>3 DEF KeepInv
      <4>3. /\ Cardinality(Newer(row.path)) <= Cardinality(Newer(r.path)')
            /\ Cardinality(Newer(r.path)') \in Nat
        BY <4>1, <4>2, FS_Subset, FS_CardinalityType
      <4> QED
        BY <2>13, <4>3, NewerIsFinite, RetentionAssumption DEF KeepInv
    <3>5. CASE row.path \notin Newer(r.path)
      BY <3>2, <3>3, <3>5
    <3> QED
      BY <3>4, <3>5
  <2>17. NewestStay'
    <3> SUFFICES ASSUME Undisturbed' PROVE Cardinality(DOMAIN files') >= MinKeep
      BY DEF NewestStay, Undisturbed
    <3>1. Newer(row.path) \subseteq DOMAIN files'
      BY <2>7, <2>15 DEF Newer
    <3>2. /\ Cardinality(Newer(row.path)) <= Cardinality(DOMAIN files')
          /\ Cardinality(DOMAIN files') \in Nat
      BY <2>8, <3>1, FS_Subset, FS_CardinalityType
    <3> QED
      BY <2>13, <3>2, NewerIsFinite, RetentionAssumption DEF KeepInv
  <2> QED
    BY <2>9, <2>10, <2>11, <2>12, <2>16, <2>17 DEF KeepInv
<1> QED
  BY <1>2, <1>3

LEMMA InitKeepInv == RetentionInit => KeepInv
<1> SUFFICES ASSUME RetentionInit PROVE KeepInv
  OBVIOUS
<1>1. DOMAIN files = {} /\ removed = {} /\ day = 0 /\ audit = <<>> /\ cache = NoSnapshot
  BY DEF RetentionInit
<1>2. NotCalled \in CallType /\ NotCalled.at = "idle"
  BY DEF NotCalled, CallType
<1>3. call \in [Cleanups -> CallType] /\ \A c \in Cleanups : call[c].at = "idle"
  BY <1>2 DEF RetentionInit
<1>4. FilesOK
  <2>1. files = [p \in {} |-> 0]
    BY DEF RetentionInit
  <2>2. files \in [DOMAIN files -> FileType]
    BY <1>1, <2>1
  <2> QED
    BY <1>1, <2>2, FS_EmptySet DEF FilesOK
<1>5. CleanupTypes
  BY <1>1, <1>3, <1>4 DEF CleanupTypes, NoSnapshot
<1>6. \A c \in Cleanups : Pending(c) = {}
  BY <1>3 DEF Pending
<1> QED
  BY <1>1, <1>3, <1>5, <1>6
  DEF KeepInv, ShownLongAgo, HasNewer, CheckedIsFirst, ConfirmedContentGoes, NewestStay

LEMMA StepKeepInv == ASSUME KeepInv, [RetentionNext]_retentionVars PROVE KeepInv'
BY WriteKeeps, ConfirmKeeps, QuietKeeps, PrepareKeeps, RecheckKeeps, UnlinkKeeps, FinishKeeps, DeathKeeps
DEF RetentionNext

LEMMA KeepInvHolds == RetentionSpec => []KeepInv
BY InitKeepInv, StepKeepInv, PTL DEF RetentionSpec

\* With any number of plans and cleanups in flight the newest files stay,
\* unless one was written to between its last check and its removal.
THEOREM NewestStayHolds == RetentionSpec => []NewestStay
<1>1. KeepInv => NewestStay
  BY DEF KeepInv
<1> QED
  BY KeepInvHolds, <1>1, PTL

-----------------------------------------------------------------------------
(* The audit: what a cleanup wrote is what it was to do and what it did.   *)

RecordInv == KeepInv /\ \A c \in Cleanups : Recorded(c)

LEMMA InRecords ==
  ASSUME KeepInv, NEW c, NEW statuses, NEW p
  PROVE  p \in RecordsOf(c, statuses) <=>
           \E i \in 1..Len(audit) : /\ audit[i].of = c /\ audit[i].status \in statuses
                                    /\ p \in audit[i].paths
<1>1. DOMAIN audit = 1..Len(audit)
  BY DEF KeepInv, CleanupTypes
<1> QED
  BY <1>1 DEF RecordsOf

LEMMA RecordIsAdded ==
  ASSUME KeepInv, KeepInv', NEW entry \in RecordType, audit' = Append(audit, entry),
         NEW c, NEW statuses
  PROVE  RecordsOf(c, statuses)' =
           RecordsOf(c, statuses)
             \cup (IF entry.of = c /\ entry.status \in statuses THEN entry.paths ELSE {})
<1>1. /\ audit \in Seq(RecordType) /\ Len(audit) \in Nat /\ Len(audit') = Len(audit) + 1
      /\ audit'[Len(audit) + 1] = entry
      /\ \A i \in 1..Len(audit) : audit'[i] = audit[i]
  BY DEF KeepInv, CleanupTypes
<1> SUFFICES ASSUME NEW p
             PROVE  p \in RecordsOf(c, statuses)' <=>
                      \/ p \in RecordsOf(c, statuses)
                      \/ entry.of = c /\ entry.status \in statuses /\ p \in entry.paths
  OBVIOUS
<1>2. p \in RecordsOf(c, statuses)' <=>
        \E i \in 1..Len(audit') : /\ audit'[i].of = c /\ audit'[i].status \in statuses
                                  /\ p \in audit'[i].paths
  <2>1. DOMAIN audit' = 1..Len(audit')
    BY DEF KeepInv, CleanupTypes
  <2> QED
    BY <2>1 DEF RecordsOf
<1>3. 1..Len(audit') = 1..Len(audit) \cup {Len(audit) + 1}
  BY <1>1
<1> QED
  BY <1>1, <1>2, <1>3, InRecords

\* A step that neither removes nor writes, and takes no cleanup further than
\* from one end to the other.
LEMMA NothingIsRecorded ==
  ASSUME RecordInv, KeepInv', UNCHANGED <<audit, removed>>,
         \A c \in Cleanups :
           \/ call[c].at \in {"idle", "confirmed"} /\ call'[c].at \in {"idle", "confirmed"}
              /\ call'[c].deleted = {}
           \/ call'[c].at = "done"
           \/ /\ call[c].at \in {"recheck", "unlink"} /\ call'[c].at \in {"recheck", "unlink"}
              /\ call'[c].deleted = call[c].deleted /\ Pending(c)' \subseteq Pending(c)
           \/ call'[c] = call[c]
  PROVE  RecordInv'
<1>1. \A c, statuses : RecordsOf(c, statuses)' = RecordsOf(c, statuses) /\ GoneOf(c)' = GoneOf(c)
  BY DEF RecordsOf, GoneOf
<1> SUFFICES ASSUME NEW c \in Cleanups PROVE Recorded(c)'
  BY DEF RecordInv
<1>2. call'[c] = call[c] => Pending(c)' = Pending(c)
  BY DEF Pending
<1> QED
  BY <1>1, <1>2 DEF RecordInv, Recorded

LEMMA PrepareRecords == ASSUME RecordInv, KeepInv', NEW c \in Cleanups, Prepare(c) PROVE RecordInv'
<1> DEFINE entry == [of |-> c, status |-> "PREPARED", paths |-> {r.path : r \in call[c].plan}]
<1>1. call[c].at = "confirmed" /\ UNCHANGED removed /\ call[c] \in CallType
  BY DEF Prepare, RecordInv, KeepInv, CleanupTypes
<1>2. CASE ~Current(call[c].plan)
  <2>1. call' = [call EXCEPT ![c] = NotCalled] /\ UNCHANGED audit
    BY <1>2 DEF Prepare
  <2>2. \A d \in Cleanups : call'[d] = IF d = c THEN NotCalled ELSE call[d]
    BY <2>1 DEF RecordInv, KeepInv, CleanupTypes
  <2> QED
    BY <1>1, <2>1, <2>2, NothingIsRecorded DEF NotCalled
<1>3. CASE Current(call[c].plan)
  <2>1. PICK order \in SetToSeqs(call[c].plan) :
          call' = [call EXCEPT ![c].at = "recheck", ![c].left = order]
    BY <1>3 DEF Prepare
  <2>2. audit' = Append(audit, entry)
    BY <1>3 DEF Prepare
  <2>3. entry \in RecordType
    BY <1>1 DEF CallType, RowType, RecordType
  <2>4. \A i \in 1..Len(order) : order[i] \in call[c].plan
    BY <1>3, CurrentPlanIsOld DEF RecordInv, KeepInv
  <2>5. call'[c] = [call[c] EXCEPT !.at = "recheck", !.left = order]
    BY <2>1 DEF RecordInv, KeepInv, CleanupTypes
  <2>6. call'[c].at = "recheck" /\ call'[c].left = order /\ call'[c].deleted = call[c].deleted
    BY <1>1, <2>5 DEF CallType
  <2>7. \A d \in Cleanups \ {c} : call'[d] = call[d]
    BY <2>1 DEF RecordInv, KeepInv, CleanupTypes
  <2>8. \A d : GoneOf(d)' = GoneOf(d)
    BY <1>1 DEF GoneOf
  <2>9. /\ RecordsOf(c, {"PREPARED"})' = RecordsOf(c, {"PREPARED"}) \cup entry.paths
        /\ RecordsOf(c, {"COMPLETED", "PARTIAL"})' = RecordsOf(c, {"COMPLETED", "PARTIAL"})
        /\ \A d, statuses : d # c => RecordsOf(d, statuses)' = RecordsOf(d, statuses)
    <3>1. entry.of = c /\ entry.status = "PREPARED"
      OBVIOUS
    <3> HIDE DEF entry
    <3>2. KeepInv
      BY DEF RecordInv
    <3>3. ASSUME NEW d, NEW statuses
          PROVE  RecordsOf(d, statuses)' =
                   RecordsOf(d, statuses)
                     \cup (IF entry.of = d /\ entry.status \in statuses THEN entry.paths ELSE {})
      BY <2>2, <2>3, <3>2, RecordIsAdded
    <3>4. RecordsOf(c, {"PREPARED"})' = RecordsOf(c, {"PREPARED"}) \cup entry.paths
      BY <3>1, <3>3
    <3>5. RecordsOf(c, {"COMPLETED", "PARTIAL"})' = RecordsOf(c, {"COMPLETED", "PARTIAL"})
      BY <3>1, <3>3
    <3>6. ASSUME NEW d, NEW statuses, d # c PROVE RecordsOf(d, statuses)' = RecordsOf(d, statuses)
      BY <3>1, <3>3, <3>6
    <3> QED
      BY <3>4, <3>5, <3>6
  <2>10. Recorded(c)'
    <3>1. \A r \in Pending(c)' : r.path \in entry.paths
      BY <2>4, <2>6 DEF Pending
    <3> QED
      BY <1>1, <2>6, <2>8, <2>9, <3>1 DEF RecordInv, Recorded
  <2>11. ASSUME NEW d \in Cleanups, d # c PROVE Recorded(d)'
    <3>1. Pending(d)' = Pending(d)
      BY <2>7, <2>11 DEF Pending
    <3> QED
      BY <2>7, <2>8, <2>9, <2>11, <3>1 DEF RecordInv, Recorded
  <2> QED
    BY <2>10, <2>11 DEF RecordInv
<1> QED
  BY <1>2, <1>3

LEMMA FinishRecords ==
  ASSUME RecordInv, KeepInv', NEW c \in Cleanups, FinishCleanup(c) PROVE RecordInv'
<1> DEFINE entry == [of |-> c, status |-> IF call[c].failed = {} THEN "COMPLETED" ELSE "PARTIAL",
                      paths |-> call[c].deleted]
<1>1. /\ call[c].at = "recheck" /\ audit' = Append(audit, entry) /\ UNCHANGED removed
      /\ call' = [call EXCEPT ![c].at = "done"]
  BY DEF FinishCleanup
<1>2. call[c] \in CallType
  BY DEF RecordInv, KeepInv, CleanupTypes
<1>3. entry \in RecordType /\ entry.of = c /\ entry.paths = GoneOf(c)
      /\ entry.status \in {"COMPLETED", "PARTIAL"}
  BY <1>1, <1>2 DEF CallType, RecordType, RecordInv, Recorded
<1> HIDE DEF entry
<1>4. call'[c].at = "done" /\ \A d \in Cleanups \ {c} : call'[d] = call[d]
  BY <1>1, <1>2 DEF CallType, RecordInv, KeepInv, CleanupTypes
<1>5. \A d : GoneOf(d)' = GoneOf(d)
  BY <1>1 DEF GoneOf
<1>6. /\ RecordsOf(c, {"PREPARED"})' = RecordsOf(c, {"PREPARED"})
      /\ RecordsOf(c, {"COMPLETED", "PARTIAL"})' =
           RecordsOf(c, {"COMPLETED", "PARTIAL"}) \cup GoneOf(c)
      /\ \A d, statuses : d # c => RecordsOf(d, statuses)' = RecordsOf(d, statuses)
  <2>1. KeepInv /\ audit' = Append(audit, entry)
    BY <1>1 DEF RecordInv, entry
  <2>2. ASSUME NEW d, NEW statuses
        PROVE  RecordsOf(d, statuses)' =
                 RecordsOf(d, statuses)
                   \cup (IF entry.of = d /\ entry.status \in statuses THEN entry.paths ELSE {})
    BY <1>3, <2>1, RecordIsAdded
  <2>3. RecordsOf(c, {"PREPARED"})' = RecordsOf(c, {"PREPARED"})
    BY <1>3, <2>2
  <2>4. RecordsOf(c, {"COMPLETED", "PARTIAL"})' =
          RecordsOf(c, {"COMPLETED", "PARTIAL"}) \cup GoneOf(c)
    BY <1>3, <2>2
  <2>5. ASSUME NEW d, NEW statuses, d # c PROVE RecordsOf(d, statuses)' = RecordsOf(d, statuses)
    BY <1>3, <2>2, <2>5
  <2> QED
    BY <2>3, <2>4, <2>5
<1>7. Recorded(c)'
  BY <1>1, <1>4, <1>5, <1>6 DEF RecordInv, Recorded
<1>8. ASSUME NEW d \in Cleanups, d # c PROVE Recorded(d)'
  <2>1. Pending(d)' = Pending(d)
    BY <1>4, <1>8 DEF Pending
  <2> QED
    BY <1>4, <1>5, <1>6, <1>8, <2>1 DEF RecordInv, Recorded
<1> QED
  BY <1>7, <1>8 DEF RecordInv

\* A row that failed goes without a word until the last entry.
LEMMA FailedRecords ==
  ASSUME RecordInv, KeepInv', NEW c \in Cleanups, call[c].at \in {"recheck", "unlink"},
         call[c].left # <<>>, call' = Failed(c), UNCHANGED <<audit, removed>>
  PROVE  RecordInv'
<1> DEFINE after == [call[c] EXCEPT !.failed = @ \cup {Head(call[c].left).path},
                                    !.left = Tail(@), !.at = "recheck"]
<1>1. call' = [call EXCEPT ![c] = after]
  BY DEF Failed
<1>2. /\ after \in CallType /\ after.at = "recheck" /\ after.left = Tail(call[c].left)
      /\ after.deleted = call[c].deleted
  BY FirstIsPending DEF RecordInv, CallType, RowType
<1> HIDE DEF after
<1>3. /\ \A d \in Cleanups : Pending(d)' \subseteq Pending(d)
      /\ \A d \in Cleanups : call'[d] = IF d = c THEN after ELSE call[d]
  BY <1>1, <1>2, FirstIsPending, CallChanges DEF RecordInv
<1> QED
  BY <1>2, <1>3, NothingIsRecorded

LEMMA RecheckRecords == ASSUME RecordInv, KeepInv', NEW c \in Cleanups, Recheck(c) PROVE RecordInv'
<1> DEFINE row == Head(call[c].left)
           after == [call[c] EXCEPT !.at = "unlink", !.checked = {files[row.path]}]
<1>1. call[c].at = "recheck" /\ call[c].left # <<>> /\ UNCHANGED <<audit, removed>>
  BY DEF Recheck
<1>2. CASE ~Unchanged(row)
  BY <1>1, <1>2, FailedRecords DEF Recheck
<1>3. CASE Unchanged(row)
  <2>1. call' = [call EXCEPT ![c] = after]
    BY <1>3 DEF Recheck
  <2>2. \A d \in Cleanups : call'[d] = IF d = c THEN after ELSE call[d]
    BY <2>1 DEF RecordInv, KeepInv, CleanupTypes
  <2>3. call[c] \in CallType
    BY DEF RecordInv, KeepInv, CleanupTypes
  <2>4. after.at = "unlink" /\ after.deleted = call[c].deleted /\ after.left = call[c].left
    BY <2>3 DEF CallType
  <2> HIDE DEF after
  <2>5. call'[c] = after
    BY <2>2
  <2>6. call'[c].at \in {"recheck", "unlink"} /\ call'[c].left = call[c].left
    BY <2>4, <2>5
  <2>7. Pending(c)' = Pending(c)
    BY <1>1, <2>6 DEF Pending
  <2> QED
    BY <1>1, <2>2, <2>4, <2>7, NothingIsRecorded
<1> QED
  BY <1>2, <1>3

LEMMA UnlinkRecords == ASSUME RecordInv, KeepInv', NEW c \in Cleanups, Unlink(c) PROVE RecordInv'
<1> DEFINE row == Head(call[c].left)
           gone == [by |-> c, row |-> row, checked |-> call[c].checked, gone |-> files[row.path]]
           after == [call[c] EXCEPT !.deleted = @ \cup {row.path}, !.left = Tail(@), !.at = "recheck"]
<1>1. call[c].at = "unlink" /\ call[c].left # <<>> /\ UNCHANGED audit
  BY DEF Unlink, RecordInv, KeepInv, CheckedIsFirst
<1>2. CASE row.path \notin DOMAIN files
  BY <1>1, <1>2, FailedRecords DEF Unlink
<1>3. CASE row.path \in DOMAIN files
  <2>1. removed' = removed \cup {gone} /\ call' = [call EXCEPT ![c] = after]
    BY <1>3 DEF Unlink
  <2>2. /\ after \in CallType /\ after.at = "recheck" /\ after.left = Tail(call[c].left)
        /\ after.deleted = call[c].deleted \cup {row.path}
    BY <1>1, FirstIsPending DEF RecordInv, CallType, RowType
  <2>3. gone.by = c /\ gone.row.path = row.path /\ row \in Pending(c)
    BY <1>1, FirstIsPending DEF RecordInv
  <2> HIDE DEF after, gone
  <2>4. /\ \A d \in Cleanups : Pending(d)' \subseteq Pending(d)
        /\ \A d \in Cleanups : call'[d] = IF d = c THEN after ELSE call[d]
    BY <1>1, <2>1, <2>2, FirstIsPending, CallChanges DEF RecordInv
  <2>5. GoneOf(c)' = GoneOf(c) \cup {row.path} /\ \A d : d # c => GoneOf(d)' = GoneOf(d)
    BY <2>1, <2>3 DEF GoneOf
  <2>6. \A d, statuses : RecordsOf(d, statuses)' = RecordsOf(d, statuses)
    BY <1>1 DEF RecordsOf
  <2>7. Recorded(c)'
    BY <1>1, <2>2, <2>3, <2>4, <2>5, <2>6 DEF RecordInv, Recorded
  <2>8. ASSUME NEW d \in Cleanups, d # c PROVE Recorded(d)'
    BY <2>4, <2>5, <2>6, <2>8 DEF RecordInv, Recorded
  <2> QED
    BY <2>7, <2>8 DEF RecordInv
<1> QED
  BY <1>2, <1>3

LEMMA OthersRecordNothing ==
  ASSUME RecordInv, KeepInv',
         \/ \E p \in Paths : WriteFile(p)
         \/ NextDay \/ CacheExpires \/ CleanupDies \/ UNCHANGED retentionVars
         \/ \E c \in Cleanups : \E rows, chosen : Confirm(c, rows, chosen)
  PROVE  RecordInv'
<1>1. CASE CleanupDies
  <2>1. UNCHANGED <<audit, removed>>
    BY <1>1 DEF CleanupDies
  <2>2. \A c \in Cleanups : \/ call'[c].at = "done"
                            \/ call[c].at \in {"idle", "confirmed"} /\ call'[c] = NotCalled
    BY <1>1 DEF CleanupDies, RecordInv, KeepInv, CleanupTypes, CallType
  <2> QED
    BY <2>1, <2>2, NothingIsRecorded DEF NotCalled
<1>2. ASSUME NEW c \in Cleanups, NEW rows, NEW chosen, Confirm(c, rows, chosen) PROVE RecordInv'
  <2> DEFINE waiting == [NotCalled EXCEPT !.at = "confirmed", !.plan = chosen]
  <2>1. waiting.at = "confirmed" /\ waiting.deleted = {}
    BY DEF NotCalled
  <2>2. \A d \in Cleanups : call'[d] = IF d = c THEN waiting ELSE call[d]
    BY <1>2 DEF Confirm, RecordInv, KeepInv, CleanupTypes
  <2>3. call[c].at = "idle" /\ UNCHANGED <<audit, removed>>
    BY <1>2 DEF Confirm
  <2> QED
    BY <2>1, <2>2, <2>3, NothingIsRecorded
<1>3. CASE (\E p \in Paths : WriteFile(p)) \/ NextDay \/ CacheExpires \/ UNCHANGED retentionVars
  BY <1>3, NothingIsRecorded DEF WriteFile, NextDay, CacheExpires, retentionVars
<1> QED
  BY <1>1, <1>2, <1>3

LEMMA InitRecordInv == RetentionInit => RecordInv
<1> SUFFICES ASSUME RetentionInit PROVE RecordInv
  OBVIOUS
<1>1. KeepInv
  BY InitKeepInv
<1>2. audit = <<>> /\ removed = {} /\ \A c \in Cleanups : call[c] = NotCalled
  BY DEF RetentionInit
<1>3. \A c, statuses : RecordsOf(c, statuses) = {} /\ GoneOf(c) = {}
  BY <1>2 DEF RecordsOf, GoneOf
<1> QED
  BY <1>1, <1>2, <1>3 DEF RecordInv, Recorded, NotCalled

LEMMA StepRecordInv == ASSUME RecordInv, [RetentionNext]_retentionVars PROVE RecordInv'
<1>1. KeepInv'
  BY StepKeepInv DEF RecordInv
<1> QED
  BY <1>1, PrepareRecords, RecheckRecords, UnlinkRecords, FinishRecords, OthersRecordNothing
  DEF RetentionNext

\* For any number of files, cleanups, writers and deaths: what is removed is in
\* the audit before, is what was confirmed, and the newest files stay.
THEOREM CleanupsAreSafeHolds == RetentionSpec => []CleanupsAreSafe
<1>1. RecordInv => CleanupsAreSafe
  BY DEF RecordInv, KeepInv, Recorded, CleanupsAreSafe, RemovalsAreAudited, GoneOf
<1>2. RetentionSpec => []RecordInv
  BY InitRecordInv, StepRecordInv, PTL DEF RetentionSpec
<1> QED
  BY <1>1, <1>2, PTL

--------------------------------------------------------------------------------
(* The service manager: what the state is made of.                         *)

Statuses == {"none", "running", "failed", "stopped"}
AllModes == Modes \cup {"saving"}
Copies ==
  {c \in [status : Statuses, pid : Pids \cup {NoPid}, started : Nat, mode : AllModes] :
     c.status = "stopped" => c.pid = NoPid}
Slots ==
  {s \in [leader : {"none", "launcher", "other"}, crew : BOOLEAN, started : Nat] :
     (s.leader = "launcher" => s.crew) /\ (s.leader = "other" => ~s.crew)}
Calls ==
  [pc : {"idle", "launch", "record", "settle", "await", "write"}, pid : Pids \cup {NoPid},
   mode : AllModes, copy : Copies]

HostTypes ==
  /\ record \in Copies /\ slot \in [Pids -> Slots] /\ op \in [Operators -> Calls]
  /\ stamp \in Nat /\ boot \in Nat /\ spoilt \in BOOLEAN
  /\ marker \in [state : {"none", "prepared", "verified"}, boot : Nat, started : Nat, stamp : Nat]

\* The one call in progress, while no two overlapped.
Alone == \A o, o2 \in Operators : op[o] # Idle /\ op[o2] # Idle => o = o2

At(o, pcs) == op[o].pc \in pcs

\* What runs is what the record, or the launch that has not recorded it yet, names.
RuntimeIsNamed ==
  \A p \in Pids : slot[p].crew =>
    \/ record.pid = p /\ slot[p].started = record.started /\ ~Launching
    \/ \E o \in Operators :
         At(o, {"record"}) /\ op[o].copy.pid = p /\ slot[p].started = op[o].copy.started

\* Without its leader a group is awaited; with a launch begun or a stop to write
\* there is none.
OrphansAreAwaited ==
  \A p \in Pids : slot[p].crew /\ slot[p].leader = "none" =>
    \E o \in Operators : At(o, {"await"}) /\ op[o].pid = p

NoneWhileWritten ==
  \A o \in Operators : At(o, {"launch", "write"}) => \A p \in Pids : ~slot[p].crew

CallsFollowRecord ==
  \A o \in Operators :
    /\ op[o].pc = "idle" <=> op[o] = Idle
    /\ At(o, {"record", "settle"}) =>
         op[o].pid = op[o].copy.pid /\ op[o].copy.status = "running"
    /\ At(o, {"settle", "await", "write"}) => op[o].copy = record
    /\ At(o, {"await"}) => op[o].pid = record.pid

\* Times only grow, and what began after the marker is younger than it.
MarkerIsOlder ==
  /\ record.started <= stamp
  /\ \A o \in Operators : op[o].copy.started <= stamp
  /\ marker.state # "none" =>
       /\ marker.started <= marker.stamp /\ marker.stamp <= stamp
       /\ record.started = marker.started \/ record.started > marker.stamp
       /\ \A o \in Operators : At(o, {"record"}) => op[o].copy.started > marker.stamp

--------------------------------------------------------------------------------
(* Types                                                                   *)

LEMMA HostCallTypes ==
  /\ Idle \in Calls /\ Idle.copy \in Copies /\ Empty \in Slots
  /\ Idle.pc = "idle" /\ Idle.copy.started = 0 /\ Empty.crew = FALSE /\ Empty.leader = "none"
BY DEF Idle, Empty, Calls, Copies, Slots, Statuses, AllModes

LEMMA MovesType ==
  ASSUME op \in [Operators -> Calls], NEW o \in Operators, NEW to \in Calls, Moves(o, to)
  PROVE  /\ op' \in [Operators -> Calls] /\ op'[o] = to
         /\ \A o2 \in Operators \ {o} : op'[o2] = op[o2]
BY DEF Moves

LEMMA StartTypes ==
  ASSUME HostTypes, NEW o \in Operators,
         \/ \E mode \in Modes : BeginStart(o, mode)
         \/ \E p \in Pids : Launch(o, p)
         \/ Record(o) \/ Settle(o)
  PROVE  HostTypes'
<1>1. CASE \E mode \in Modes : BeginStart(o, mode)
  <2>1. PICK mode \in Modes : BeginStart(o, mode)
    BY <1>1
  <2>2. [Idle EXCEPT !.pc = "launch", !.mode = mode] \in Calls
    BY HostCallTypes DEF Calls, AllModes, Idle
  <2> QED
    BY <2>1, <2>2 DEF HostTypes, BeginStart, Moves, Enters
<1>2. CASE \E p \in Pids : Launch(o, p)
  <2>1. PICK p \in Pids : Launch(o, p)
    BY <1>2
  <2> DEFINE copy == [status |-> "running", pid |-> p, started |-> stamp', mode |-> op[o].mode]
             to == [op[o] EXCEPT !.pc = "record", !.pid = p, !.copy = copy]
             s == [leader |-> "launcher", crew |-> TRUE, started |-> stamp']
  <2>2. stamp' \in Nat /\ copy \in Copies /\ s \in Slots
    <3>1. op[o] \in Calls /\ stamp \in Nat
      BY DEF HostTypes
    <3>3. op[o].mode \in AllModes
      BY <3>1 DEF Calls
    <3>4. stamp' = stamp + 1
      BY <2>1 DEF Launch
    <3>2. stamp' \in Nat /\ op[o].mode \in AllModes
      BY <3>1, <3>3, <3>4
    <3> QED
      BY <3>2 DEF Copies, Slots, Statuses
  <2>3. to \in Calls
    BY <2>2 DEF HostTypes, Calls
  <2>4. Moves(o, to) /\ slot' = [slot EXCEPT ![p] = s]
        /\ UNCHANGED <<record, boot, downs, marker, spoilt>>
    BY <2>1 DEF Launch
  <2> HIDE DEF to, s
  <2> QED
    BY <2>2, <2>3, <2>4, MovesType DEF HostTypes
<1>3. CASE Record(o)
  BY <1>3, MovesType DEF HostTypes, Record, Calls, Moves
<1>4. CASE Settle(o)
  <2>1. op[o].copy \in Copies /\ [op[o].copy EXCEPT !.status = "failed"] \in Copies
    BY DEF HostTypes, Calls, Copies, Statuses
  <2> QED
    BY <1>4, <2>1, HostCallTypes DEF HostTypes, Settle, Moves
<1> QED
  BY <1>1, <1>2, <1>3, <1>4

LEMMA StopTypes ==
  ASSUME HostTypes, NEW o \in Operators,
         \/ BeginStop(o) \/ GroupIsGone(o) \/ StopTimesOut(o) \/ WriteStopped(o)
         \/ ManagerDies(o)
  PROVE  HostTypes'
<1>1. CASE BeginStop(o)
  BY <1>1, HostCallTypes DEF HostTypes, BeginStop, Moves, Enters, Calls, Copies
<1>2. CASE GroupIsGone(o)
  BY <1>2 DEF HostTypes, GroupIsGone, Moves, Calls
<1>3. CASE StopTimesOut(o) \/ ManagerDies(o)
  BY <1>3, HostCallTypes DEF HostTypes, StopTimesOut, ManagerDies, Moves
<1>4. CASE WriteStopped(o)
  <2>1. [op[o].copy EXCEPT !.status = "stopped", !.pid = NoPid] \in Copies
    BY DEF HostTypes, Calls, Copies, Statuses
  <2> QED
    BY <1>4, <2>1, HostCallTypes DEF HostTypes, WriteStopped, Moves
<1> QED
  BY <1>1, <1>2, <1>3, <1>4

LEMMA ProcessTypes ==
  ASSUME HostTypes, NEW p \in Pids,
         \/ LauncherExits(p) \/ LauncherDiesAlone(p) \/ RestEnds(p) \/ PidIsReused(p)
         \/ OtherEnds(p)
  PROVE  /\ HostTypes' /\ UNCHANGED <<record, op, stamp, boot, marker>>
         /\ \A q \in Pids \ {p} : slot'[q] = slot[q]
         /\ slot'[p].crew => slot[p].crew /\ slot'[p].started = slot[p].started
<1>1. slot[p] \in Slots
  BY DEF HostTypes
<1>2. PICK s \in Slots : /\ slot' = [slot EXCEPT ![p] = s]
                         /\ s.crew => slot[p].crew /\ s.started = slot[p].started
  <2>1. CASE LauncherExits(p) \/ RestEnds(p) \/ OtherEnds(p)
    BY <2>1, HostCallTypes DEF LauncherExits, RestEnds, OtherEnds
  <2>2. CASE LauncherDiesAlone(p)
    <3>1. [slot[p] EXCEPT !.leader = "none"] \in Slots
      BY <1>1 DEF Slots
    <3> QED
      BY <2>2, <1>1, <3>1 DEF LauncherDiesAlone, Slots
  <2>3. CASE PidIsReused(p)
    <3>1. slot[p] = Empty
      BY <2>3 DEF PidIsReused, Free
    <3>2. slot[p].crew = FALSE
      BY <3>1 DEF Empty
    <3>3. [slot[p] EXCEPT !.leader = "other"] \in Slots
      BY <1>1, <3>2 DEF Slots
    <3> QED
      BY <2>3, <1>1, <3>2, <3>3 DEF PidIsReused, Slots
  <2> QED
    BY <2>1, <2>2, <2>3
<1>3. UNCHANGED <<record, op, stamp, boot, marker>> /\ spoilt' \in BOOLEAN
  BY DEF HostTypes, LauncherExits, LauncherDiesAlone, RestEnds, PidIsReused, OtherEnds
<1> QED
  BY <1>2, <1>3 DEF HostTypes

LEMMA BootTypes ==
  ASSUME HostTypes,
         \/ \E reboots \in BOOLEAN : Down(reboots)
         \/ PrepareMarker \/ VerifyReboot
  PROVE  HostTypes'
<1>1. CASE \E reboots \in BOOLEAN : Down(reboots)
  BY <1>1, HostCallTypes DEF HostTypes, Down
<1>2. CASE PrepareMarker
  BY <1>2 DEF HostTypes, PrepareMarker, Enters, Copies
<1>3. CASE VerifyReboot
  BY <1>3 DEF HostTypes, VerifyReboot
<1> QED
  BY <1>1, <1>2, <1>3

--------------------------------------------------------------------------------
(* The runtime and its record, while no call overlaps another              *)

Sound ==
  /\ Alone /\ RuntimeIsNamed /\ OrphansAreAwaited /\ NoneWhileWritten
  /\ CallsFollowRecord /\ MarkerIsOlder /\ VerifiedMeansRestarted

\* A call that enters while nothing is spoilt finds no other call.
LEMMA EntersAlone ==
  ASSUME HostTypes, Enters, ~spoilt' PROVE ~spoilt /\ \A o \in Operators : op[o] = Idle
BY DEF Enters, HostTypes

\* Without a call nothing runs but what the record names, with its launcher.
LEMMA AtRest ==
  ASSUME HostTypes, Sound, \A o \in Operators : op[o] = Idle
  PROVE  /\ ~Launching /\ \A p : ~Zombie(p)
         /\ \A p \in Pids : slot[p].crew => /\ record.pid = p /\ slot[p].leader = "launcher"
                                            /\ slot[p].started = record.started
<1>1. \A o \in Operators : op[o].pc = "idle"
  BY HostCallTypes
<1>2. ~Launching /\ \A p : ~Zombie(p)
  BY <1>1 DEF Launching, Zombie
<1>3. \A p \in Pids : slot[p].crew => record.pid = p /\ slot[p].started = record.started
  BY <1>1, <1>2 DEF Sound, RuntimeIsNamed, At
<1>4. \A p \in Pids : slot[p].crew => slot[p].leader = "launcher"
  BY <1>1 DEF Sound, OrphansAreAwaited, At, HostTypes, Slots
<1> QED
  BY <1>2, <1>3, <1>4

\* A call begins, with what is known of it when no other is in progress.
LEMMA CallBegins ==
  ASSUME HostTypes, Sound, \A o \in Operators : op[o] = Idle, NEW o \in Operators,
         NEW to \in Calls, Moves(o, to), UNCHANGED <<record, slot, stamp, marker>>,
         ~spoilt, ~spoilt',
         \/ /\ to.pc \in {"launch", "write"} /\ \A p \in Pids : ~slot[p].crew
            /\ to.pc = "write" => to.copy = record
            /\ to.copy.started <= stamp
         \/ to.pc = "await" /\ to.pid = record.pid /\ to.copy = record
  PROVE  Sound'
<1>1. /\ op' \in [Operators -> Calls] /\ op'[o] = to
      /\ \A o2 \in Operators \ {o} : op'[o2] = Idle
  BY MovesType DEF HostTypes
<1>2. /\ ~Launching /\ Idle.pc = "idle" /\ Idle.copy.started = 0 /\ stamp \in Nat
      /\ \A p \in Pids : slot[p].crew => /\ record.pid = p /\ slot[p].leader = "launcher"
                                         /\ slot[p].started = record.started
  BY AtRest, HostCallTypes DEF HostTypes
<1>3. to # Idle /\ to.pc # "idle" /\ to.pc \notin {"record", "settle"}
  BY <1>2
<1>4. ~Launching'
  BY <1>1, <1>2, <1>3 DEF Launching
<1>5. Alone'
  BY <1>1 DEF Alone
<1>6. RuntimeIsNamed'
  BY <1>2, <1>4 DEF RuntimeIsNamed
<1>7. OrphansAreAwaited'
  BY <1>2 DEF OrphansAreAwaited
<1>8. NoneWhileWritten'
  BY <1>1, <1>2 DEF NoneWhileWritten, At
<1>9. CallsFollowRecord'
  BY <1>1, <1>2, <1>3 DEF CallsFollowRecord, At
<1>10. MarkerIsOlder'
  <2>1. to.copy.started <= stamp
    BY DEF Sound, MarkerIsOlder
  <2> QED
    BY <1>1, <1>2, <1>3, <2>1 DEF Sound, MarkerIsOlder, At
<1>11. VerifiedMeansRestarted'
  BY DEF Sound, VerifiedMeansRestarted, Ours
<1> QED
  BY <1>5, <1>6, <1>7, <1>8, <1>9, <1>10, <1>11 DEF Sound

LEMMA BeginsSound ==
  ASSUME HostTypes, ~spoilt => Sound, ~spoilt', NEW o \in Operators,
         (\E mode \in Modes : BeginStart(o, mode)) \/ BeginStop(o)
  PROVE  Sound'
<1>1. Enters /\ UNCHANGED <<record, slot, stamp, marker>>
  BY DEF BeginStart, BeginStop
<1>2. ~spoilt /\ Sound /\ \A o2 \in Operators : op[o2] = Idle
  BY <1>1, EntersAlone
<1>3. /\ \A p : ~Zombie(p)
      /\ \A p \in Pids : slot[p].crew => record.pid = p /\ slot[p].leader = "launcher"
      /\ record.started <= stamp /\ stamp \in Nat /\ record.pid \in Pids \cup {NoPid}
  BY <1>2, AtRest DEF Sound, MarkerIsOlder, HostTypes, Copies
<1>4. CASE \E mode \in Modes : BeginStart(o, mode)
  <2>1. PICK mode \in Modes : BeginStart(o, mode)
    BY <1>4
  <2> DEFINE to == [Idle EXCEPT !.pc = "launch", !.mode = mode]
  <2>2. to \in Calls /\ to.pc = "launch" /\ to.copy.started = 0 /\ Moves(o, to)
    BY <2>1, HostCallTypes DEF BeginStart, Calls, AllModes, Idle
  <2>3. \A p \in Pids : ~slot[p].crew
    BY <2>1, <1>3, HostAssumption DEF BeginStart, Startable, ProcessExists
  <2> HIDE DEF to
  <2> QED
    BY <1>1, <1>2, <1>3, <2>2, <2>3, CallBegins
<1>5. CASE BeginStop(o)
  <2> DEFINE to == [Idle EXCEPT !.pc = IF ProcessMatches(record.pid) THEN "await" ELSE "write",
                                !.pid = record.pid, !.copy = record]
  <2>1. to \in Calls /\ to.pid = record.pid /\ to.copy = record /\ Moves(o, to)
        /\ to.pc = IF ProcessMatches(record.pid) THEN "await" ELSE "write"
    BY <1>5, HostCallTypes DEF BeginStop, HostTypes, Calls, Copies, Idle
  <2>2. ~ProcessMatches(record.pid) => \A p \in Pids : ~slot[p].crew
    BY <1>5, <1>3, HostAssumption DEF BeginStop, ProcessExists, ProcessMatches
  <2> HIDE DEF to
  <2>3. \/ to.pc = "write" /\ \A p \in Pids : ~slot[p].crew
        \/ to.pc = "await"
    BY <2>1, <2>2
  <2>4. to.copy.started <= stamp
    BY <1>3, <2>1
  <2> QED
    BY <1>1, <1>2, <2>1, <2>3, <2>4, CallBegins
<1> QED
  BY <1>4, <1>5

LEMMA LaunchSound ==
  ASSUME HostTypes, Sound, ~spoilt', NEW o \in Operators, NEW p \in Pids, Launch(o, p)
  PROVE  Sound'
<1> DEFINE copy == [status |-> "running", pid |-> p, started |-> stamp', mode |-> op[o].mode]
           to == [op[o] EXCEPT !.pc = "record", !.pid = p, !.copy = copy]
           s == [leader |-> "launcher", crew |-> TRUE, started |-> stamp']
<1>1. /\ op[o] \in Calls /\ stamp \in Nat /\ stamp' = stamp + 1 /\ op[o].pc = "launch"
      /\ slot' = [slot EXCEPT ![p] = s] /\ Moves(o, to)
      /\ UNCHANGED <<record, marker, spoilt>>
  BY DEF Launch, HostTypes
<1>2. /\ to.pc = "record" /\ to.pid = p /\ to.copy = copy /\ to \in Calls
      /\ copy.pid = p /\ copy.started = stamp' /\ copy.status = "running"
  <2>1. copy \in Copies
    <3>1. stamp' \in Nat /\ op[o].mode \in AllModes
      BY <1>1 DEF Calls
    <3> QED
      BY <3>1 DEF Copies, Statuses
  <2> HIDE DEF copy
  <2>2. to.pc = "record" /\ to.pid = p /\ to.copy = copy /\ to \in Calls
    BY <1>1, <2>1 DEF Calls
  <2> QED
    BY <2>2 DEF copy
<1>3. op'[o] = to /\ \A o2 \in Operators \ {o} : op'[o2] = op[o2]
  BY <1>1, <1>2, MovesType DEF HostTypes
<1> HIDE DEF to, copy
<1>4. /\ slot'[p].crew /\ slot'[p].leader = "launcher" /\ slot'[p].started = stamp'
      /\ \A q \in Pids \ {p} : slot'[q] = slot[q]
  BY <1>1 DEF HostTypes
<1>5. \A q \in Pids : ~slot[q].crew
  BY <1>1 DEF Sound, NoneWhileWritten, At
<1>6. \A o2 \in Operators \ {o} : op[o2] = Idle /\ op[o2].pc = "idle" /\ op[o2].copy.started = 0
  BY <1>1, HostCallTypes DEF Sound, Alone
<1>7. to # Idle /\ Alone'
  BY <1>2, <1>3, <1>6, HostCallTypes DEF Alone
<1>8. RuntimeIsNamed'
  BY <1>2, <1>3, <1>4, <1>5 DEF RuntimeIsNamed, At
<1>9. OrphansAreAwaited'
  BY <1>4, <1>5 DEF OrphansAreAwaited
<1>10. NoneWhileWritten'
  BY <1>2, <1>3, <1>6 DEF NoneWhileWritten, At
<1>11. CallsFollowRecord'
  BY <1>2, <1>3, <1>6, <1>7 DEF CallsFollowRecord, At
<1>12. MarkerIsOlder'
  <2>1. marker.started \in Nat /\ marker.stamp \in Nat /\ record.started \in Nat
    BY DEF HostTypes, Copies
  <2> QED
    BY <1>1, <1>2, <1>3, <1>6, <2>1 DEF Sound, MarkerIsOlder, At
<1>13. VerifiedMeansRestarted'
  <2>1. marker.started \in Nat /\ marker.stamp \in Nat
    BY DEF HostTypes
  <2> QED
    BY <1>1, <1>4, <1>5, <2>1 DEF Sound, MarkerIsOlder, VerifiedMeansRestarted, Ours
<1> QED
  BY <1>7, <1>8, <1>9, <1>10, <1>11, <1>12, <1>13 DEF Sound

\* A step of a call that is in progress, when no process comes.
LEMMA CallGoesOn ==
  ASSUME HostTypes, Sound, ~spoilt, ~spoilt', NEW o \in Operators, op[o] # Idle, NEW to \in Calls, Moves(o, to),
         UNCHANGED <<slot, stamp, marker>>, record' \in Copies,
         to = Idle \/ to.pc \in {"settle", "write"},
         to.pc = "settle" => /\ op[o].pc = "record" /\ to.pid = op[o].pid
                             /\ to.copy = op[o].copy /\ record' = op[o].copy,
         to.pc = "write" => /\ op[o].pc = "await" /\ to.copy = op[o].copy /\ record' = record
                            /\ \A p \in Pids : ~slot[p].crew,
         op[o].pc = "record" => to.pc = "settle",
         \/ record' = record
         \/ record' = op[o].copy /\ to.pc = "settle"
         \/ /\ record'.started = op[o].copy.started /\ op[o].pc \in {"settle", "write"}
            /\ \A p \in Pids : ~slot[p].crew,
         op[o].pc = "await" => \A p \in Pids : slot[p].crew => slot[p].leader # "none"
  PROVE  Sound'
<1>1. /\ op' \in [Operators -> Calls] /\ op'[o] = to
      /\ \A o2 \in Operators \ {o} : op'[o2] = Idle /\ op[o2] = Idle
  BY MovesType DEF HostTypes, Sound, Alone
<1>2. /\ Idle.pc = "idle" /\ Idle.copy.started = 0
      /\ stamp \in Nat /\ marker.started \in Nat /\ marker.stamp \in Nat
      /\ record.started \in Nat /\ record'.started \in Nat /\ op[o].copy.started \in Nat
      /\ to.copy.started \in Nat
  BY HostCallTypes DEF HostTypes, Calls, Copies
<1>3. /\ ~Launching' /\ to.pc \in {"idle", "settle", "write"}
      /\ Launching <=> op[o].pc = "record"
  BY <1>1, <1>2 DEF Launching
<1>4. \A p \in Pids : slot[p].crew => record'.pid = p /\ slot[p].started = record'.started
  <2> SUFFICES ASSUME NEW p \in Pids, slot[p].crew
               PROVE  record'.pid = p /\ slot[p].started = record'.started
    OBVIOUS
  <2>1. CASE op[o].pc = "record"
    <3>1. op[o].copy.pid = p /\ slot[p].started = op[o].copy.started
      BY <2>1, <1>1, <1>2, <1>3 DEF Sound, RuntimeIsNamed, At
    <3> QED
      BY <2>1, <3>1
  <2>2. CASE op[o].pc # "record"
    <3>1. record' = record
      BY <2>2
    <3> QED
      BY <2>2, <3>1, <1>1, <1>2 DEF Sound, RuntimeIsNamed, At
  <2> QED
    BY <2>1, <2>2
<1>5. RuntimeIsNamed'
  BY <1>3, <1>4 DEF RuntimeIsNamed
<1>6. Alone'
  BY <1>1 DEF Alone
<1>7. OrphansAreAwaited'
  BY <1>1, <1>2 DEF Sound, OrphansAreAwaited, At
<1>8. NoneWhileWritten'
  BY <1>1, <1>2, <1>3 DEF NoneWhileWritten, At
<1>9. CallsFollowRecord'
  BY <1>1, <1>2, <1>3 DEF Sound, CallsFollowRecord, At
<1>10. MarkerIsOlder'
  <2>1. record'.started \in {record.started, op[o].copy.started}
    OBVIOUS
  <2>2. op[o].copy.started <= stamp
    BY DEF Sound, MarkerIsOlder
  <2>5. op[o].pc \in {"settle", "write"} => op[o].copy.started = record.started
    BY DEF Sound, CallsFollowRecord, At
  <2>4. op[o].pc # "record" => record'.started = record.started
    BY <2>5
  <2>3. marker.state # "none" /\ op[o].pc = "record" => op[o].copy.started > marker.stamp
    BY DEF Sound, MarkerIsOlder, At
  <2> QED
    BY <1>1, <1>2, <1>3, <2>1, <2>2, <2>3, <2>4 DEF Sound, MarkerIsOlder, At
<1>11. VerifiedMeansRestarted'
  BY DEF Sound, VerifiedMeansRestarted, Ours
<1> QED
  BY <1>5, <1>6, <1>7, <1>8, <1>9, <1>10, <1>11 DEF Sound

LEMMA CallEnds ==
  ASSUME HostTypes, Sound, ~spoilt, ~spoilt', NEW o \in Operators, op[o] # Idle, Moves(o, Idle),
         UNCHANGED <<slot, stamp, marker>>, record' \in Copies, op[o].pc # "record",
         \/ record' = record
         \/ /\ record'.started = op[o].copy.started /\ op[o].pc \in {"settle", "write"}
            /\ \A p \in Pids : ~slot[p].crew,
         op[o].pc = "await" => \A p \in Pids : slot[p].crew => slot[p].leader # "none"
  PROVE  Sound'
<1>1. Idle \in Calls /\ Idle.pc \notin {"settle", "write"}
  BY HostCallTypes
<1>2. PICK to : to = Idle
  OBVIOUS
<1> QED
  BY <1>1, <1>2, CallGoesOn

LEMMA CallStepSound ==
  ASSUME HostTypes, HostTypes', Sound, ~spoilt, ~spoilt', NEW o \in Operators,
         \/ Record(o) \/ Settle(o) \/ GroupIsGone(o) \/ StopTimesOut(o) \/ WriteStopped(o)
         \/ ManagerDies(o)
  PROVE  Sound'
<1>1. /\ UNCHANGED <<slot, stamp, marker>> /\ op[o] \in Calls /\ Idle \in Calls /\ Idle.pc = "idle"
      /\ record' \in Copies /\ op[o] # Idle
      /\ \A o2 \in Operators \ {o} : op[o2] = Idle
  BY HostCallTypes DEF Record, Settle, GroupIsGone, StopTimesOut, WriteStopped, ManagerDies,
                       HostTypes, Sound, Alone
<1>2. op[o].pc \in {"settle", "await", "write"} =>
        \A p \in Pids : slot[p].crew => op[o].copy.pid = p /\ record.pid = p
  BY <1>1 DEF Sound, RuntimeIsNamed, CallsFollowRecord, At
<1>3. CASE Record(o)
  <2> DEFINE to == [op[o] EXCEPT !.pc = "settle"]
  <2>1. to \in Calls /\ to.pc = "settle" /\ to.pid = op[o].pid /\ to.copy = op[o].copy
        /\ Moves(o, to) /\ op[o].pc = "record" /\ record' = op[o].copy
    BY <1>1, <1>3 DEF Record, Calls
  <2> HIDE DEF to
  <2> QED
    BY <1>1, <2>1, CallGoesOn
<1>4. CASE Settle(o)
  <2>1. ~ProcessMatches(op[o].pid) => \A p \in Pids : ~slot[p].crew
    BY <1>1, <1>2, <1>4, HostAssumption
       DEF Settle, ProcessMatches, Sound, OrphansAreAwaited, CallsFollowRecord, At, HostTypes, Slots
  <2>2. /\ op[o].pc = "settle" /\ Moves(o, Idle)
        /\ \/ record' = record
           \/ record'.started = op[o].copy.started /\ \A p \in Pids : ~slot[p].crew
    BY <1>1, <1>4, <2>1 DEF Settle, Calls, Copies
  <2> QED
    BY <1>1, <2>2, CallEnds
<1>5. CASE GroupIsGone(o)
  <2> DEFINE to == [op[o] EXCEPT !.pc = "write"]
  <2>1. to \in Calls /\ to.pc = "write" /\ to.copy = op[o].copy
        /\ Moves(o, to) /\ op[o].pc = "await" /\ record' = record
    BY <1>1, <1>5 DEF GroupIsGone, Calls
  <2>2. \A p \in Pids : ~slot[p].crew
    BY <1>2, <1>5 DEF GroupIsGone, GroupExists, Sound, CallsFollowRecord, At
  <2> HIDE DEF to
  <2> QED
    BY <1>1, <2>1, <2>2, CallGoesOn
<1>6. CASE StopTimesOut(o)
  <2>1. op[o].pc = "await" /\ Moves(o, Idle) /\ record' = record
        /\ slot[op[o].pid].leader # "none"
    BY <1>6 DEF StopTimesOut
  <2>2. \A p \in Pids : slot[p].crew => slot[p].leader # "none"
    BY <1>2, <2>1 DEF Sound, CallsFollowRecord, At
  <2> QED
    BY <1>1, <2>1, <2>2, CallEnds
<1>7. CASE WriteStopped(o)
  <2>1. /\ op[o].pc = "write" /\ Moves(o, Idle) /\ \A p \in Pids : ~slot[p].crew
        /\ record'.started = op[o].copy.started
    BY <1>1, <1>7 DEF WriteStopped, Calls, Copies, Sound, NoneWhileWritten, At
  <2> QED
    BY <1>1, <2>1, CallEnds
<1>8. CASE ManagerDies(o)
  <2>1. /\ Moves(o, Idle) /\ record' = record /\ op[o].pc # "record"
        /\ op[o].pc = "await" => slot[op[o].pid].leader # "none"
    BY <1>8 DEF ManagerDies
  <2>2. op[o].pc = "await" => \A p \in Pids : slot[p].crew => slot[p].leader # "none"
    BY <1>2, <2>1 DEF Sound, CallsFollowRecord, At
  <2> QED
    BY <1>1, <2>1, <2>2, CallEnds
<1> QED
  BY <1>3, <1>4, <1>5, <1>6, <1>7, <1>8

LEMMA ProcessSound ==
  ASSUME HostTypes, Sound, ~spoilt, ~spoilt', NEW p \in Pids,
         \/ LauncherExits(p) \/ LauncherDiesAlone(p) \/ RestEnds(p) \/ PidIsReused(p)
         \/ OtherEnds(p)
  PROVE  Sound'
<1>1. /\ UNCHANGED <<record, op, stamp, boot, marker>>
      /\ \A q \in Pids \ {p} : slot'[q] = slot[q]
      /\ slot'[p].crew => slot[p].crew /\ slot'[p].started = slot[p].started
  BY ProcessTypes
<1>2. \A q \in Pids : slot'[q].crew => slot[q].crew /\ slot'[q].started = slot[q].started
  BY <1>1
<1>3. slot'[p].crew /\ slot'[p].leader = "none" =>
        \E o \in Operators : op[o].pc = "await" /\ op[o].pid = p
  <2>1. CASE LauncherExits(p) \/ RestEnds(p) \/ OtherEnds(p)
    <3>1. slot'[p] = Empty
      BY <2>1 DEF LauncherExits, RestEnds, OtherEnds, HostTypes
    <3> QED
      BY <3>1, HostCallTypes
  <2>2. CASE LauncherDiesAlone(p)
    BY <2>2 DEF LauncherDiesAlone
  <2>3. CASE PidIsReused(p)
    <3>1. ~slot[p].crew
      BY <2>3, HostCallTypes DEF PidIsReused, Free
    <3> QED
      BY <3>1, <1>1
  <2> QED
    BY <2>1, <2>2, <2>3
<1>4. OrphansAreAwaited'
  BY <1>1, <1>2, <1>3 DEF Sound, OrphansAreAwaited, At
<1>5. RuntimeIsNamed'
  BY <1>1, <1>2 DEF Sound, RuntimeIsNamed, At, Launching
<1>6. NoneWhileWritten'
  BY <1>1, <1>2 DEF Sound, NoneWhileWritten, At
<1>7. Alone' /\ CallsFollowRecord' /\ MarkerIsOlder'
  BY <1>1 DEF Sound, Alone, CallsFollowRecord, MarkerIsOlder, At
<1>8. VerifiedMeansRestarted'
  BY <1>1, <1>2 DEF Sound, VerifiedMeansRestarted, Ours
<1> QED
  BY <1>4, <1>5, <1>6, <1>7, <1>8 DEF Sound

LEMMA BootSound ==
  ASSUME HostTypes, ~spoilt => Sound, ~spoilt',
         \/ \E reboots \in BOOLEAN : Down(reboots)
         \/ PrepareMarker \/ VerifyReboot
  PROVE  Sound'
<1>1. ~spoilt /\ Sound
  BY EntersAlone DEF Down, PrepareMarker, VerifyReboot
<1>2. CASE \E reboots \in BOOLEAN : Down(reboots)
  <2>1. /\ \A o \in Operators : op'[o] = Idle /\ Idle.pc = "idle" /\ Idle.copy.started = 0
        /\ \A p \in Pids : ~slot'[p].crew
        /\ UNCHANGED <<record, stamp, marker>> /\ stamp \in Nat
    BY <1>2, HostCallTypes DEF Down, HostTypes
  <2> QED
    BY <1>1, <2>1 DEF Sound, Alone, RuntimeIsNamed, OrphansAreAwaited, NoneWhileWritten,
         CallsFollowRecord, MarkerIsOlder, VerifiedMeansRestarted, Ours, At
<1>3. CASE PrepareMarker
  <2>1. \A o \in Operators : op[o] = Idle /\ Idle.pc = "idle"
    BY <1>3, EntersAlone, HostCallTypes DEF PrepareMarker
  <2>2. /\ UNCHANGED <<record, slot, op, stamp>> /\ marker'.state = "prepared"
        /\ marker'.started = record.started /\ marker'.stamp = stamp
        /\ stamp \in Nat /\ record.started \in Nat
    BY <1>3 DEF PrepareMarker, HostTypes, Copies
  <2>3. Alone' /\ RuntimeIsNamed' /\ OrphansAreAwaited' /\ NoneWhileWritten' /\ CallsFollowRecord'
    BY <1>1, <2>2 DEF Sound, Alone, RuntimeIsNamed, OrphansAreAwaited, NoneWhileWritten,
         CallsFollowRecord, At, Launching
  <2>4. MarkerIsOlder'
    BY <1>1, <2>1, <2>2 DEF Sound, MarkerIsOlder, At
  <2>5. VerifiedMeansRestarted'
    BY <2>2 DEF VerifiedMeansRestarted
  <2> QED
    BY <2>3, <2>4, <2>5 DEF Sound
<1>4. CASE VerifyReboot
  <2>1. /\ UNCHANGED <<record, slot, op, stamp>> /\ marker.state = "prepared"
        /\ marker'.started = marker.started /\ marker'.stamp = marker.stamp
        /\ marker'.state = "verified" /\ marker.started # record.started
        /\ stamp \in Nat /\ record.started \in Nat
        /\ marker.started \in Nat /\ marker.stamp \in Nat
    BY <1>4 DEF VerifyReboot, Rebooted, HostTypes, Copies
  <2>2. Alone' /\ RuntimeIsNamed' /\ OrphansAreAwaited' /\ NoneWhileWritten' /\ CallsFollowRecord'
    BY <1>1, <2>1 DEF Sound, Alone, RuntimeIsNamed, OrphansAreAwaited, NoneWhileWritten,
         CallsFollowRecord, At, Launching
  <2>3. MarkerIsOlder'
    BY <1>1, <2>1 DEF Sound, MarkerIsOlder, At
  <2>4. /\ record.started > marker.stamp /\ record.started <= stamp
        /\ marker.started <= marker.stamp
        /\ \A o \in Operators : op[o].pc = "record" => op[o].copy.started > marker.stamp
    BY <1>1, <2>1 DEF Sound, MarkerIsOlder, At
  <2>5. \A p \in Pids : slot[p].crew => slot[p].started > marker.stamp
    BY <1>1, <2>4 DEF Sound, RuntimeIsNamed, At
  <2>6. \A p \in Pids : slot[p].started \in Nat
    BY DEF HostTypes, Slots
  <2>7. VerifiedMeansRestarted'
    BY <2>1, <2>4, <2>5, <2>6 DEF VerifiedMeansRestarted, Ours
  <2> QED
    BY <2>2, <2>3, <2>7 DEF Sound
<1> QED
  BY <1>2, <1>3, <1>4

HostInv == HostTypes /\ (~spoilt => Sound)

LEMMA HostStep == HostInv /\ [HostNext]_hostVars => HostInv'
<1> SUFFICES ASSUME HostInv, [HostNext]_hostVars PROVE HostInv'
  OBVIOUS
<1>1. ASSUME NEW o \in Operators, (\E mode \in Modes : BeginStart(o, mode)) \/ BeginStop(o)
      PROVE  HostInv'
  BY <1>1, StartTypes, StopTypes, BeginsSound DEF HostInv
<1>2. ASSUME NEW o \in Operators, NEW p \in Pids, Launch(o, p) PROVE HostInv'
  <2>1. spoilt' = spoilt
    BY <1>2 DEF Launch
  <2> QED
    BY <1>2, <2>1, StartTypes, LaunchSound DEF HostInv
<1>3. ASSUME NEW o \in Operators,
             \/ Record(o) \/ Settle(o) \/ GroupIsGone(o) \/ StopTimesOut(o) \/ WriteStopped(o)
             \/ ManagerDies(o)
      PROVE  HostInv'
  <2>1. HostTypes'
    BY <1>3, StartTypes, StopTypes DEF HostInv
  <2>2. ~spoilt' => ~spoilt
    BY <1>3 DEF Record, Settle, GroupIsGone, StopTimesOut, WriteStopped, ManagerDies
  <2> QED
    BY <1>3, <2>1, <2>2, CallStepSound DEF HostInv
<1>4. ASSUME NEW p \in Pids,
             \/ LauncherExits(p) \/ LauncherDiesAlone(p) \/ RestEnds(p) \/ PidIsReused(p)
             \/ OtherEnds(p)
      PROVE  HostInv'
  <2>1. ~spoilt' => ~spoilt
    BY <1>4 DEF LauncherExits, LauncherDiesAlone, RestEnds, PidIsReused, OtherEnds
  <2> QED
    BY <1>4, <2>1, ProcessTypes, ProcessSound DEF HostInv
<1>5. CASE (\E reboots \in BOOLEAN : Down(reboots)) \/ PrepareMarker \/ VerifyReboot
  BY <1>5, BootTypes, BootSound DEF HostInv
<1>6. CASE UNCHANGED hostVars
  BY <1>6 DEF hostVars, HostInv, HostTypes, Sound, Alone, RuntimeIsNamed, OrphansAreAwaited,
       NoneWhileWritten, CallsFollowRecord, MarkerIsOlder, VerifiedMeansRestarted, Ours, At, Launching
<1> QED
  BY <1>1, <1>2, <1>3, <1>4, <1>5, <1>6 DEF HostNext

LEMMA InitHost == HostInit => HostInv
<1> SUFFICES ASSUME HostInit PROVE HostInv
  OBVIOUS
<1>1. HostTypes
  BY HostCallTypes DEF HostInit, HostTypes
<1>2. \A o \in Operators : op[o] = Idle
  BY DEF HostInit
<1>3. \A p \in Pids : ~slot[p].crew
  BY HostCallTypes DEF HostInit
<1>4. record.started = 0 /\ stamp = 0 /\ marker.state = "none"
  BY HostCallTypes DEF HostInit
<1>5. Sound
  BY <1>2, <1>3, <1>4, HostCallTypes DEF Sound, Alone, RuntimeIsNamed, OrphansAreAwaited,
         NoneWhileWritten, CallsFollowRecord, MarkerIsOlder, VerifiedMeansRestarted, Ours, At
<1> QED
  BY <1>1, <1>5 DEF HostInv

\* As long as no two calls overlapped and none was killed with a launch in its hands,
\* the record names whatever runs, stopped means nothing runs, and a
\* verified marker means that nothing from before it runs, for any reuse of
\* process ids, any deaths and any reboots.
THEOREM HostIsSoundHolds == HostSpec => []HostIsSound
<1>1. HostInv => HostIsSound
  <2> SUFFICES ASSUME HostTypes, ~spoilt => Sound PROVE HostIsSound
    BY DEF HostInv
  <2>1. RuntimeIsManaged
    BY DEF RuntimeIsManaged, Sound, RuntimeIsNamed, Ours, Launching, At
  <2>2. StoppedMeansNone
    <3> SUFFICES ASSUME ~spoilt, NEW p \in Pids, slot[p].crew,
                        record.status = "stopped" \/ \E o \in Operators : op[o].pc = "write"
                 PROVE  \E o \in Operators : op[o].pc = "record" /\ op[o].pid = p
      BY DEF StoppedMeansNone, Ours
    <3>1. record.status = "stopped"
      BY DEF Sound, NoneWhileWritten, At
    <3>2. record.pid = NoPid /\ p # NoPid
      BY <3>1, HostAssumption DEF HostTypes, Copies
    <3> QED
      BY <3>2 DEF Sound, RuntimeIsNamed, CallsFollowRecord, At
  <2>3. VerifiedMeansRestarted
    BY DEF Sound, VerifiedMeansRestarted
  <2> QED
    BY <2>1, <2>2, <2>3 DEF HostIsSound
<1> QED
  BY <1>1, InitHost, HostStep, PTL DEF HostSpec

-----------------------------------------------------------------------------
(* Backups, their restoration and their removal                            *)

Held == Nat \cup {Missing}
Parts == UNION {[D -> Held] : D \in SUBSET Files}
MakingType == [at : {"idle", "copy"}, id : Nat, copied : Parts]
RestoreType ==
  [at : {"idle", "previewed", "save", "replace", "done", "undo", "undone", "stuck"}, id : Nat,
   plan : Parts, listed : Parts, saved : Parts, replaced : SUBSET Files]
PlanType ==
  [exports : Seq(Nat), locals : SUBSET Nat, torn : SUBSET Nat, candidates : SUBSET Nat]
CapacityType ==
  [at : {"idle", "delete", "remove"}, shown : SUBSET PlanType, left : Seq(Nat), gone : SUBSET Nat]

RecoveryTypes ==
  /\ live \in [Files -> Held] /\ making \in MakingType /\ restore \in RestoreType
  /\ DOMAIN locals \in SUBSET Nat /\ IsFiniteSet(DOMAIN locals)
  /\ \A b \in DOMAIN locals : locals[b] \in Parts
  /\ exports \in Seq(Nat) /\ capacity \in CapacityType
  /\ torn \in SUBSET Nat /\ IsFiniteSet(torn)

\* No row without its image, as far as both files are there.
Fits(rows, images) == rows # Missing /\ images # Missing => rows <= images

\* Rows are copied before images; until then no restore may put them back.
CopyIsOrdered ==
  making.at = "copy" =>
    /\ DOMAIN making.copied \in {{}, {"zones"}, {"zones", "db"}, Files}
    /\ making.id \in sound =>
         /\ "db" \notin DOMAIN making.copied => Fits(live["db"], live["evidence"])
         /\ "db" \in DOMAIN making.copied /\ "evidence" \notin DOMAIN making.copied
              => Fits(making.copied["db"], live["evidence"])
         /\ "evidence" \in DOMAIN making.copied
              => Fits(making.copied["db"], making.copied["evidence"])

\* What is saved is what the plan saw, and what is replaced is saved.
PlanIsSaved ==
  /\ restore.at # "idle" => service = "down"
  /\ restore.at = "previewed" => DOMAIN restore.saved = {}
  /\ restore.at \in {"previewed", "save"} => restore.replaced = {}
  /\ restore.at \in {"save", "replace", "done", "undo", "undone", "stuck"} =>
       /\ DOMAIN restore.listed = DOMAIN restore.plan
       /\ DOMAIN restore.saved \subseteq DOMAIN restore.plan
       /\ \A f \in DOMAIN restore.saved : restore.saved[f] = restore.plan[f]
  /\ restore.at = "save" => \A f \in DOMAIN restore.plan : live[f] = restore.plan[f]
  /\ restore.at = "replace" =>
       /\ DOMAIN restore.saved = DOMAIN restore.plan
       /\ restore.replaced \subseteq DOMAIN restore.plan
       /\ \A f \in DOMAIN restore.plan :
            live[f] = IF f \in restore.replaced THEN restore.listed[f] ELSE restore.plan[f]
  /\ restore.at \in {"undo", "stuck"} =>
       \A f \in DOMAIN restore.plan :
         \/ live[f] = restore.plan[f]
         \/ live[f] = restore.listed[f] /\ f \in DOMAIN restore.saved

\* While backups are removed nobody exports, so that the plan stays the inventory's.
PlanIsKept ==
  /\ capacity.at \in {"delete", "remove"} => flock = "capacity" /\ exports # <<>>
  /\ capacity.at = "remove" => capacity.left # <<>>

RecoveryInv ==
  /\ RecoveryTypes /\ CopyIsOrdered /\ PlanIsSaved /\ PlanIsKept
  /\ RowsHaveImages /\ RestoreIsWhole /\ OnlyPlannedGo

LEMMA FilesAre ==
  /\ Files = {"zones", "db", "evidence"} /\ DOMAIN FileOrder = 1..3
  /\ FileOrder[1] = "zones" /\ FileOrder[2] = "db" /\ FileOrder[3] = "evidence"
<1>1. /\ DOMAIN FileOrder = 1..3
      /\ FileOrder[1] = "zones" /\ FileOrder[2] = "db" /\ FileOrder[3] = "evidence"
  BY DEF FileOrder
<1>2. ToSet(FileOrder) = {FileOrder[i] : i \in 1..3}
  BY <1>1 DEF ToSet
<1>3. \A i \in 1..3 : i = 1 \/ i = 2 \/ i = 3
  OBVIOUS
<1>4. ToSet(FileOrder) = {FileOrder[1], FileOrder[2], FileOrder[3]}
  BY <1>2, <1>3
<1> QED
  BY <1>1, <1>4 DEF Files

\* A file has its turn after every file before it.
LEMMA FirstIsNext ==
  ASSUME NEW rest \in SUBSET Files, rest # {}
  PROVE  /\ FirstOf(rest) \in rest
         /\ \E i \in 1..3 : FirstOf(rest) = FileOrder[i]
                         /\ \A j \in 1..i - 1 : FileOrder[j] \notin rest
<1>1. \E f \in rest :
        \E i \in DOMAIN FileOrder : f = FileOrder[i] /\ \A j \in 1..i - 1 : FileOrder[j] \notin rest
  <2>1. CASE "zones" \in rest
    BY <2>1, FilesAre
  <2>2. CASE "zones" \notin rest /\ "db" \in rest
    <3>1. \A j \in 1..2 - 1 : j = 1
      OBVIOUS
    <3> QED
      BY <2>2, <3>1, FilesAre
  <2>3. CASE "zones" \notin rest /\ "db" \notin rest
    <3>1. \A j \in 1..3 - 1 : j = 1 \/ j = 2
      OBVIOUS
    <3>2. "evidence" \in rest
      BY <2>3, FilesAre
    <3> QED
      BY <2>3, <3>1, <3>2, FilesAre
  <2> QED
    BY <2>1, <2>2, <2>3
<1> QED
  BY <1>1, FilesAre DEF FirstOf

LEMMA NextCopied ==
  /\ Files \ {} # {} /\ FirstOf(Files \ {}) = "zones"
  /\ FirstOf(Files \ {"zones"}) = "db" /\ FirstOf(Files \ {"zones", "db"}) = "evidence"
<1>1. /\ Files \ {} # {} /\ Files \ {} \in SUBSET Files
      /\ Files \ {"zones"} # {} /\ Files \ {"zones"} \in SUBSET Files
      /\ Files \ {"zones", "db"} # {} /\ Files \ {"zones", "db"} \in SUBSET Files
  BY FilesAre
<1>2. FirstOf(Files \ {}) = "zones"
  <2>1. PICK i \in 1..3 : FirstOf(Files \ {}) = FileOrder[i]
                          /\ \A j \in 1..i - 1 : FileOrder[j] \notin Files \ {}
    BY <1>1, FirstIsNext
  <2>2. i > 1 => FileOrder[1] \notin Files \ {}
    BY <2>1
  <2> QED
    BY <2>1, <2>2, FilesAre
<1>3. FirstOf(Files \ {"zones"}) = "db"
  <2>1. PICK i \in 1..3 : FirstOf(Files \ {"zones"}) = FileOrder[i]
                          /\ \A j \in 1..i - 1 : FileOrder[j] \notin Files \ {"zones"}
    BY <1>1, FirstIsNext
  <2>2. i > 2 => FileOrder[2] \notin Files \ {"zones"}
    BY <2>1
  <2>3. FirstOf(Files \ {"zones"}) \in Files \ {"zones"}
    BY <1>1, FirstIsNext
  <2> QED
    BY <2>1, <2>2, <2>3, FilesAre
<1>4. FirstOf(Files \ {"zones", "db"}) = "evidence"
  BY <1>1, FirstIsNext, FilesAre
<1> QED
  BY <1>1, <1>2, <1>3, <1>4

\* One more file beside those that are there.
With(p, f, n) == [g \in DOMAIN p \cup {f} |-> IF g = f THEN n ELSE p[g]]

LEMMA WithTyped ==
  ASSUME NEW p \in Parts, NEW f \in Files, NEW n \in Held
  PROVE  /\ With(p, f, n) \in Parts /\ DOMAIN With(p, f, n) = DOMAIN p \cup {f}
         /\ With(p, f, n)[f] = n /\ \A g \in DOMAIN p \ {f} : With(p, f, n)[g] = p[g]
<1>1. PICK D \in SUBSET Files : p \in [D -> Held]
  BY DEF Parts
<1>2. With(p, f, n) \in [D \cup {f} -> Held] /\ D \cup {f} \in SUBSET Files
  BY <1>1 DEF With
<1> QED
  BY <1>1, <1>2 DEF With, Parts

LEMMA PartsAre ==
  ASSUME NEW p \in Parts
  PROVE  DOMAIN p \in SUBSET Files /\ \A f \in DOMAIN p : p[f] \in Held
BY DEF Parts

LEMMA NoFilesTyped == NoFiles \in Parts /\ DOMAIN NoFiles = {}
BY DEF NoFiles, Parts

-----------------------------------------------------------------------------
\* The types.
LEMMA LiveTyped ==
  ASSUME RecoveryTypes, NEW f \in Files, SaveLive(f) \/ LoseFile(f)
  PROVE  RecoveryTypes'
<1>1. live' \in [Files -> Held]
  BY DEF RecoveryTypes, SaveLive, LoseFile, Held, Missing
<1>2. UNCHANGED <<making, locals, exports, restore, capacity, torn>>
  BY DEF SaveLive, LoseFile
<1> QED
  BY <1>1, <1>2 DEF RecoveryTypes

LEMMA MakingTyped ==
  ASSUME RecoveryTypes, RecoveryAssumption,
         (\E b \in Backups : BeginBackup(b)) \/ CopyFile \/ BackupEnds
  PROVE  RecoveryTypes'
<1>1. making' \in MakingType
  <2>1. CASE \E b \in Backups : BeginBackup(b)
    BY <2>1, NoFilesTyped, RecoveryAssumption DEF BeginBackup, NotMaking, MakingType
  <2>2. CASE BackupEnds
    BY <2>2, NoFilesTyped DEF BackupEnds, NotMaking, MakingType
  <2>3. CASE CopyFile
    <3> DEFINE f == NextToCopy
    <3>1. making \in MakingType /\ making.copied \in Parts /\ live \in [Files -> Held]
      BY DEF RecoveryTypes, MakingType
    <3>2. f \in Files
      <4>1. Files \ DOMAIN making.copied \in SUBSET Files /\ Files \ DOMAIN making.copied # {}
        BY <2>3, <3>1, PartsAre DEF CopyFile
      <4> QED
        BY <4>1, FirstIsNext DEF NextToCopy
    <3>3. making' = [making EXCEPT !.copied = With(making.copied, f, live[f])]
      BY <2>3 DEF CopyFile, With
    <3> HIDE DEF f
    <3>4. With(making.copied, f, live[f]) \in Parts
      BY <3>1, <3>2, WithTyped
    <3> QED
      BY <3>1, <3>3, <3>4 DEF MakingType
  <2> QED
    BY <2>1, <2>2, <2>3
<1> QED
  BY <1>1 DEF RecoveryTypes, BeginBackup, CopyFile, BackupEnds

LEMMA PublishTyped == ASSUME RecoveryTypes, PublishBackup PROVE RecoveryTypes'
<1>1. making' \in MakingType
  BY NoFilesTyped DEF PublishBackup, NotMaking, MakingType
<1>2. making.id \in Nat /\ making.copied \in Parts
  BY DEF RecoveryTypes, MakingType
<1>3. DOMAIN locals' = DOMAIN locals \cup {making.id}
  BY DEF PublishBackup
<1>4. DOMAIN locals' \in SUBSET Nat
  BY <1>2, <1>3 DEF RecoveryTypes
<1>5. IsFiniteSet(DOMAIN locals')
  <2>1. IsFiniteSet(DOMAIN locals)
    BY DEF RecoveryTypes
  <2> QED
    BY <1>3, <2>1, FS_AddElement
<1>6. \A b \in DOMAIN locals' : locals'[b] \in Parts
  <2> TAKE b \in DOMAIN locals'
  <2>1. CASE b = making.id
    <3>1. locals'[b] = [f \in {g \in Files : making.copied[g] # Missing} |-> making.copied[f]]
      BY <1>3, <2>1 DEF PublishBackup
    <3>2. DOMAIN making.copied = Files
      BY DEF PublishBackup
    <3>3. \A f \in Files : making.copied[f] \in Held
      BY <1>2, <3>2, PartsAre
    <3> QED
      BY <3>1, <3>3 DEF Parts
  <2>2. CASE b # making.id
    BY <1>3, <2>2 DEF PublishBackup, RecoveryTypes
  <2> QED
    BY <2>1, <2>2
<1> QED
  BY <1>1, <1>4, <1>5, <1>6 DEF RecoveryTypes, PublishBackup

\* A file has its turn in a restore as well.
LEMMA FileIsListed ==
  ASSUME RecoveryTypes, PlanIsSaved
  PROVE  /\ SaveForRollback => FirstOf(Listed \ DOMAIN restore.saved) \in Listed \ DOMAIN restore.saved
         /\ ReplaceFile => FirstOf(Listed \ restore.replaced) \in Listed \ restore.replaced
         /\ Listed \in SUBSET Files
<1>1. Listed \in SUBSET Files
  BY PartsAre DEF Listed, RecoveryTypes, RestoreType
<1>2. SaveForRollback => Listed \ DOMAIN restore.saved # {}
  BY DEF SaveForRollback, Listed, PlanIsSaved
<1>3. ReplaceFile => Listed \ restore.replaced # {}
  BY DEF ReplaceFile, Listed, PlanIsSaved
<1> QED
  BY <1>1, <1>2, <1>3, FirstIsNext

LEMMA RestoreTyped ==
  ASSUME RecoveryTypes, PlanIsSaved, RecoveryAssumption,
         \/ StopService \/ StartService \/ BeginRestore \/ SaveForRollback \/ WriteBundle
         \/ ReplaceFile \/ FinishRestore \/ RestoreRaises \/ UndoOne \/ RestoreDies
         \/ \E b \in Backups : PreviewRestore(b)
  PROVE  RecoveryTypes'
<1>0. /\ restore \in RestoreType /\ NoRestore \in RestoreType /\ live \in [Files -> Held]
      /\ restore.listed \in Parts /\ restore.saved \in Parts /\ restore.plan \in Parts
      /\ DOMAIN restore.listed \in SUBSET Files /\ DOMAIN restore.saved \in SUBSET Files
  BY NoFilesTyped, PartsAre DEF RecoveryTypes, RestoreType, NoRestore
<1>1. restore' \in RestoreType
  <2>1. CASE StopService \/ StartService
    BY <1>0, <2>1 DEF StopService, StartService
  <2>2. CASE \E b \in Backups : PreviewRestore(b)
    <3>1. PICK b \in Backups : PreviewRestore(b)
      BY <2>2
    <3>2. Fingerprint(b) \in Parts
      <4>1. DOMAIN locals[b] \in SUBSET Files
        BY <3>1, PartsAre DEF PreviewRestore, RecoveryTypes
      <4>2. \A f \in DOMAIN locals[b] : live[f] \in Held
        BY <1>0, <4>1
      <4> QED
        BY <4>1, <4>2 DEF Fingerprint, Parts
    <3> QED
      BY <1>0, <3>1, <3>2, RecoveryAssumption DEF PreviewRestore, RestoreType
  <2>3. CASE BeginRestore
    <3>1. restore.id \in DOMAIN locals => locals[restore.id] \in Parts
      BY DEF RecoveryTypes
    <3> QED
      BY <1>0, <2>3, <3>1 DEF BeginRestore, RestoreType
  <2>4. CASE SaveForRollback
    <3> DEFINE f == FirstOf(Listed \ DOMAIN restore.saved)
    <3>1. restore' = [restore EXCEPT !.saved = With(restore.saved, f, live[f])]
      BY <2>4 DEF SaveForRollback, With
    <3>2. f \in Files
      BY <2>4, FileIsListed
    <3> HIDE DEF f
    <3>3. With(restore.saved, f, live[f]) \in Parts
      BY <1>0, <3>2, WithTyped
    <3> QED
      BY <1>0, <3>1, <3>3 DEF RestoreType
  <2>5. CASE ReplaceFile
    BY <1>0, <2>5, FileIsListed DEF ReplaceFile, RestoreType
  <2>6. CASE WriteBundle \/ FinishRestore \/ RestoreRaises \/ UndoOne \/ RestoreDies
    BY <1>0, <2>6 DEF WriteBundle, FinishRestore, RestoreRaises, UndoOne, RestoreDies, RestoreType
  <2> QED
    BY <2>1, <2>2, <2>3, <2>4, <2>5, <2>6
<1>2. live' \in [Files -> Held]
  <2>1. CASE ReplaceFile
    <3>1. PICK f : f = FirstOf(Listed \ restore.replaced)
      OBVIOUS
    <3>2. f \in Files /\ restore.listed[f] \in Held
      BY <1>0, <2>1, <3>1, FileIsListed, PartsAre DEF Listed
    <3> QED
      BY <1>0, <2>1, <3>1, <3>2 DEF ReplaceFile
  <2>2. CASE UndoOne
    BY <1>0, <2>2, PartsAre DEF UndoOne
  <2> QED
    BY <1>0, <2>1, <2>2 DEF StopService, StartService, BeginRestore, SaveForRollback, WriteBundle,
       FinishRestore, RestoreRaises, RestoreDies, PreviewRestore
<1> QED
  BY <1>1, <1>2 DEF RecoveryTypes, StopService, StartService, BeginRestore, SaveForRollback, WriteBundle,
     ReplaceFile, FinishRestore, RestoreRaises, UndoOne, RestoreDies, PreviewRestore

\* Every order in which a set can be gone through has its members, once each.
LEMMA OrdersAre ==
  ASSUME NEW S \in SUBSET Nat, IsFiniteSet(S), NEW order \in SetToSeqs(S)
  PROVE  order \in Seq(Nat) /\ ToSet(order) \subseteq S
<1>1. Cardinality(S) \in Nat
  BY FS_CardinalityType
<1>2. order \in [1..Cardinality(S) -> S]
  BY DEF SetToSeqs
<1>3. DOMAIN order = 1..Cardinality(S) /\ \A i \in DOMAIN order : order[i] \in S
  BY <1>2
<1>4. order \in [1..Cardinality(S) -> Nat]
  BY <1>2
<1>5. order \in Seq(Nat)
  BY <1>1, <1>4, SeqDef
<1> QED
  BY <1>3, <1>5 DEF ToSet

LEMMA CandidatesAre ==
  RecoveryTypes => Candidates \in SUBSET Nat /\ IsFiniteSet(Candidates)
BY FS_Union, FS_Difference DEF RecoveryTypes, Candidates

LEMMA PlanTyped ==
  ASSUME RecoveryTypes, NEW plan \in Plan
  PROVE  /\ plan \in PlanType /\ plan.exports = exports /\ plan.locals = DOMAIN locals
         /\ plan.torn = torn /\ plan.candidates = Candidates
<1>1. plan = [exports |-> exports, locals |-> DOMAIN locals, torn |-> torn, candidates |-> Candidates]
  BY DEF Plan
<1>2. Candidates \in SUBSET Nat
  BY CandidatesAre
<1> QED
  BY <1>1, <1>2 DEF PlanType, RecoveryTypes

LEMMA HeadAndTail ==
  ASSUME NEW s \in Seq(Nat), s # <<>>
  PROVE  /\ Head(s) \in ToSet(s) /\ Tail(s) \in Seq(Nat) /\ ToSet(Tail(s)) \subseteq ToSet(s)
         /\ Head(s) \in Nat
<1>1. Tail(s) \in Seq(Nat) /\ DOMAIN Tail(s) = 1..Len(s) - 1
      /\ \A i \in 1..Len(s) - 1 : Tail(s)[i] = s[i + 1]
  OBVIOUS
<1>2. DOMAIN s = 1..Len(s) /\ Len(s) \in Nat \ {0} /\ Head(s) = s[1] /\ s[1] \in Nat
  OBVIOUS
<1>3. \A i \in 1..Len(s) - 1 : i + 1 \in 1..Len(s)
  BY <1>2
<1>4. 1 \in 1..Len(s)
  BY <1>2
<1> QED
  BY <1>1, <1>2, <1>3, <1>4 DEF ToSet

LEMMA CapacityTyped ==
  ASSUME RecoveryTypes, PlanIsKept,
         PreviewCapacity \/ ApplyCapacity \/ BeginDelete \/ FinishDelete \/ CapacityEnds
  PROVE  RecoveryTypes'
<1>1. /\ capacity \in CapacityType /\ capacity.left \in Seq(Nat)
      /\ DOMAIN locals \in SUBSET Nat /\ IsFiniteSet(DOMAIN locals)
      /\ \A b \in DOMAIN locals : locals[b] \in Parts
      /\ torn \in SUBSET Nat /\ IsFiniteSet(torn)
  BY DEF RecoveryTypes, CapacityType
<1>2. CASE PreviewCapacity
  <2>1. Plan \in SUBSET PlanType
    BY PlanTyped
  <2>2. capacity' \in CapacityType
    BY <1>1, <1>2, <2>1 DEF PreviewCapacity, CapacityType
  <2> QED
    BY <1>2, <2>2 DEF PreviewCapacity, RecoveryTypes
<1>3. CASE ApplyCapacity
  <2>1. PICK order \in SetToSeqs(Candidates) :
          capacity' = [capacity EXCEPT !.at = "delete", !.left = order]
    BY <1>3 DEF ApplyCapacity
  <2>2. order \in Seq(Nat)
    BY <2>1, CandidatesAre, OrdersAre
  <2>3. capacity' \in CapacityType
    BY <1>1, <2>1, <2>2 DEF CapacityType
  <2> QED
    BY <1>3, <2>3 DEF ApplyCapacity, RecoveryTypes
<1>4. CASE BeginDelete
  <2>1. PICK b \in Nat : b = Head(capacity.left)
    <3>1. capacity.left # <<>>
      BY <1>4 DEF BeginDelete
    <3> QED
      BY <1>1, <3>1, HeadAndTail
  <2>2. /\ locals' = [d \in DOMAIN locals \ {b} |-> locals[d]] /\ torn' = torn \cup {b}
        /\ capacity' = [capacity EXCEPT !.at = "remove"]
        /\ UNCHANGED <<live, making, exports, restore>>
    BY <1>4, <2>1 DEF BeginDelete
  <2>3. capacity' \in CapacityType
    BY <1>1, <2>2 DEF CapacityType
  <2>4. IsFiniteSet(DOMAIN locals')
    BY <1>1, <2>2, FS_Subset
  <2>5. IsFiniteSet(torn') /\ torn' \in SUBSET Nat
    BY <1>1, <2>2, FS_AddElement
  <2> QED
    BY <1>1, <2>2, <2>3, <2>4, <2>5 DEF RecoveryTypes
<1>5. CASE FinishDelete
  <2>1. capacity.left # <<>>
    BY <1>5 DEF FinishDelete, PlanIsKept
  <2>2. Head(capacity.left) \in Nat /\ Tail(capacity.left) \in Seq(Nat)
    BY <1>1, <2>1, HeadAndTail
  <2>3. capacity' \in CapacityType
    BY <1>1, <1>5, <2>2 DEF FinishDelete, CapacityType
  <2>4. torn' = torn \ {Head(capacity.left)} /\ UNCHANGED <<live, making, locals, exports, restore>>
    BY <1>5 DEF FinishDelete
  <2>5. IsFiniteSet(torn') /\ torn' \in SUBSET Nat
    BY <1>1, <2>4, FS_Subset
  <2> QED
    BY <2>3, <2>4, <2>5 DEF RecoveryTypes
<1>6. CASE CapacityEnds
  <2> DEFINE empty == <<>>
  <2>0. empty \in Seq(Nat) /\ capacity' = [capacity EXCEPT !.at = "idle", !.left = empty, !.shown = {}]
    BY <1>6 DEF CapacityEnds
  <2> HIDE DEF empty
  <2>1. capacity' \in CapacityType
    BY <1>1, <2>0 DEF CapacityType
  <2> QED
    BY <1>6, <2>1 DEF CapacityEnds, RecoveryTypes
<1> QED
  BY <1>2, <1>3, <1>4, <1>5, <1>6

LEMMA ExportTyped ==
  ASSUME RecoveryTypes, \/ BeginExport \/ ExportEnds
                        \/ \E b \in Backups : ExportBackup(b)
  PROVE  RecoveryTypes'
<1>1. CASE BeginExport \/ ExportEnds
  BY <1>1 DEF BeginExport, ExportEnds, RecoveryTypes
<1>2. CASE \E b \in Backups : ExportBackup(b)
  <2>1. PICK b \in Backups : ExportBackup(b)
    BY <1>2
  <2>2. b \in Nat /\ exports \in Seq(Nat)
    BY <2>1 DEF ExportBackup, RecoveryTypes
  <2>3. exports' \in Seq(Nat)
    BY <2>1, <2>2 DEF ExportBackup
  <2> QED
    BY <2>1, <2>3 DEF ExportBackup, RecoveryTypes
<1> QED
  BY <1>1, <1>2

LEMMA TypesStep ==
  ASSUME RecoveryTypes, PlanIsSaved, PlanIsKept, RecoveryAssumption, [RecoveryNext]_recoveryVars
  PROVE  RecoveryTypes'
<1>1. CASE UNCHANGED recoveryVars
  BY <1>1 DEF recoveryVars, RecoveryTypes
<1> QED
  BY <1>1, LiveTyped, MakingTyped, PublishTyped, RestoreTyped, CapacityTyped, ExportTyped
     DEF RecoveryNext

-----------------------------------------------------------------------------
\* The rows and images of a backup.
RowsInv == CopyIsOrdered /\ RowsHaveImages

LEMMA RowsStay == ASSUME RowsInv, UNCHANGED <<live, making, locals, sound>> PROVE RowsInv'
BY DEF RowsInv, CopyIsOrdered, RowsHaveImages

\* While nothing is copied the files may become anything.
LEMMA LiveRows ==
  ASSUME RecoveryTypes, RowsInv, \E f \in Files : SaveLive(f) \/ LoseFile(f)
  PROVE  RowsInv'
<1>1. PICK f \in Files : SaveLive(f) \/ LoseFile(f)
  OBVIOUS
<1>2. /\ UNCHANGED <<making, locals, sound>> /\ live \in [Files -> Held]
      /\ live["db"] \in Held /\ live["evidence"] \in Held
  BY <1>1, FilesAre DEF SaveLive, LoseFile, RecoveryTypes
<1>3. Fits(live["db"], live["evidence"]) => Fits(live["db"], live["evidence"])'
  BY <1>1, <1>2, FilesAre DEF SaveLive, LoseFile, Fits, Held, Missing
<1>4. \/ live'["evidence"] = Missing \/ live'["evidence"] = live["evidence"]
      \/ live["evidence"] # Missing /\ live'["evidence"] >= live["evidence"]
  BY <1>1, <1>2, FilesAre DEF SaveLive, LoseFile, Held, Missing
<1>5. making.copied \in Parts
  BY DEF RecoveryTypes, MakingType
<1>6. "db" \in DOMAIN making.copied /\ Fits(making.copied["db"], live["evidence"])
        => Fits(making.copied["db"], live'["evidence"])
  <2>1. "db" \in DOMAIN making.copied => making.copied["db"] \in Held
    BY <1>5, PartsAre
  <2>2. live'["evidence"] \in Held
    BY <1>1, <1>2, FilesAre DEF SaveLive, LoseFile, Held, Missing
  <2> QED
    BY <1>2, <1>4, <2>1, <2>2 DEF Fits, Held, Missing
<1>7. RowsHaveImages'
  BY <1>2 DEF RowsInv, RowsHaveImages
<1>8. CopyIsOrdered'
  BY <1>2, <1>3, <1>6 DEF RowsInv, CopyIsOrdered
<1> QED
  BY <1>7, <1>8 DEF RowsInv

LEMMA MakingRows ==
  ASSUME RecoveryTypes, RowsInv, (\E b \in Backups : BeginBackup(b)) \/ BackupEnds
  PROVE  RowsInv'
<1>1. CASE \E b \in Backups : BeginBackup(b)
  <2>1. PICK b \in Backups : BeginBackup(b)
    BY <1>1
  <2>2. b \notin DOMAIN locals /\ making' = [NotMaking EXCEPT !.at = "copy", !.id = b]
        /\ UNCHANGED <<live, locals>>
    BY <2>1 DEF BeginBackup, Made
  <2>3. RowsHaveImages'
    BY <2>1, <2>2 DEF BeginBackup, RowsInv, RowsHaveImages
  <2>4. making'.id = b /\ DOMAIN making'.copied = {}
    BY <2>2, NoFilesTyped DEF NotMaking
  <2>5. CASE live["db"] <= live["evidence"]
    BY <2>2, <2>3, <2>4, <2>5 DEF CopyIsOrdered, RowsInv, Fits
  <2>6. CASE ~(live["db"] <= live["evidence"])
    <3>1. making'.id \notin sound'
      <4>1. sound' = sound \ {b}
        BY <2>1, <2>6 DEF BeginBackup
      <4> QED
        BY <2>4, <4>1
    <3> QED
      BY <2>3, <2>4, <3>1 DEF CopyIsOrdered, RowsInv
  <2> QED
    BY <2>3, <2>5, <2>6 DEF RowsInv
<1>2. CASE BackupEnds
  BY <1>2 DEF BackupEnds, NotMaking, RowsInv, CopyIsOrdered, RowsHaveImages
<1> QED
  BY <1>1, <1>2

LEMMA CopyRows == ASSUME RecoveryTypes, RowsInv, CopyFile PROVE RowsInv'
<1> DEFINE old == making.copied
           f == NextToCopy
           new == With(old, f, live[f])
<1>1. /\ making.at = "copy" /\ old \in Parts /\ DOMAIN old # Files /\ making \in MakingType
      /\ DOMAIN old \in {{}, {"zones"}, {"zones", "db"}} /\ live \in [Files -> Held]
  BY DEF CopyFile, RowsInv, CopyIsOrdered, RecoveryTypes, MakingType
<1>2. making' = [making EXCEPT !.copied = new] /\ UNCHANGED <<live, locals, sound>>
  BY DEF CopyFile, With
<1>3. /\ DOMAIN old = {} => f = "zones"
      /\ DOMAIN old = {"zones"} => f = "db"
      /\ DOMAIN old = {"zones", "db"} => f = "evidence"
  BY NextCopied DEF NextToCopy
<1>4. f \in Files /\ live[f] \in Held
  BY <1>1, <1>3, FilesAre
<1> HIDE DEF f
<1>5. /\ new \in Parts /\ DOMAIN new = DOMAIN old \cup {f} /\ new[f] = live[f]
      /\ \A g \in DOMAIN old \ {f} : new[g] = old[g]
  <2>1. PICK n \in Held : n = live[f]
    BY <1>4
  <2>2. new = With(old, f, n) /\ old \in Parts
    BY <1>1, <2>1
  <2> HIDE DEF old, new
  <2>3. /\ With(old, f, n) \in Parts /\ DOMAIN With(old, f, n) = DOMAIN old \cup {f}
        /\ With(old, f, n)[f] = n /\ \A g \in DOMAIN old \ {f} : With(old, f, n)[g] = old[g]
    BY <1>4, <2>2, WithTyped
  <2> QED
    BY <2>1, <2>2, <2>3
<1> HIDE DEF new
<1>6. making'.at = "copy" /\ making'.id = making.id /\ making'.copied = new
  BY <1>1, <1>2 DEF MakingType
<1>7. RowsHaveImages'
  BY <1>2 DEF RowsInv, RowsHaveImages
<1>8. making.id \in sound =>
        /\ "db" \notin DOMAIN old => Fits(live["db"], live["evidence"])
        /\ "db" \in DOMAIN old => Fits(old["db"], live["evidence"])
  <2>1. "evidence" \notin DOMAIN old
    BY <1>1
  <2> QED
    BY <1>1, <2>1 DEF RowsInv, CopyIsOrdered
<1>9. CASE DOMAIN old = {}
  <2>1. DOMAIN new = {"zones"}
    BY <1>3, <1>5, <1>9
  <2> QED
    BY <1>2, <1>6, <1>7, <1>8, <1>9, <2>1 DEF RowsInv, CopyIsOrdered
<1>10. CASE DOMAIN old = {"zones"}
  <2>1. DOMAIN new = {"zones", "db"} /\ new["db"] = live["db"]
    BY <1>3, <1>5, <1>10
  <2> QED
    BY <1>2, <1>6, <1>7, <1>8, <1>10, <2>1 DEF RowsInv, CopyIsOrdered
<1>11. CASE DOMAIN old = {"zones", "db"}
  <2>1. DOMAIN new = Files /\ new["db"] = old["db"] /\ new["evidence"] = live["evidence"]
    BY <1>3, <1>5, <1>11, FilesAre
  <2> QED
    BY <1>2, <1>6, <1>7, <1>8, <1>11, <2>1, FilesAre DEF RowsInv, CopyIsOrdered
<1> QED
  BY <1>1, <1>9, <1>10, <1>11

LEMMA PublishRows == ASSUME RecoveryTypes, RowsInv, PublishBackup PROVE RowsInv'
<1>1. /\ making.at = "copy" /\ DOMAIN making.copied = Files /\ making.copied \in Parts
      /\ making'.at = "idle" /\ sound' = sound
      /\ DOMAIN locals' = DOMAIN locals \cup {making.id}
  BY DEF PublishBackup, NotMaking, RecoveryTypes, MakingType
<1>2. making.copied["db"] \in Held /\ making.copied["evidence"] \in Held
  BY <1>1, PartsAre, FilesAre
<1>3. ASSUME NEW b \in DOMAIN locals' \cap sound', {"db", "evidence"} \subseteq DOMAIN locals'[b]
      PROVE  locals'[b]["db"] <= locals'[b]["evidence"]
  <2>1. CASE b # making.id
    <3>1. b \in DOMAIN locals \cap sound /\ locals'[b] = locals[b]
      BY <1>1, <1>3, <2>1 DEF PublishBackup
    <3> QED
      BY <1>3, <3>1 DEF RowsInv, RowsHaveImages
  <2>2. CASE b = making.id
    <3>1. locals'[b] = [f \in {g \in Files : making.copied[g] # Missing} |-> making.copied[f]]
      BY <1>1, <1>3, <2>2 DEF PublishBackup
    <3>2. /\ making.copied["db"] # Missing /\ making.copied["evidence"] # Missing
          /\ locals'[b]["db"] = making.copied["db"]
          /\ locals'[b]["evidence"] = making.copied["evidence"]
      BY <1>3, <3>1
    <3>3. Fits(making.copied["db"], making.copied["evidence"])
      BY <1>1, <1>3, <2>2, FilesAre DEF RowsInv, CopyIsOrdered
    <3> QED
      BY <3>2, <3>3 DEF Fits
  <2> QED
    BY <2>1, <2>2
<1>4. RowsHaveImages'
  BY <1>3 DEF RowsHaveImages
<1> QED
  BY <1>1, <1>4 DEF RowsInv, CopyIsOrdered

\* A restore may put back what it likes: the backup that is copied is given up.
LEMMA RestoreRows == ASSUME RecoveryTypes, RowsInv, ReplaceFile \/ UndoOne PROVE RowsInv'
<1>1. UNCHANGED <<making, locals>> /\ sound' = sound \ {making.id}
  BY DEF ReplaceFile, UndoOne
<1>2. making'.id \notin sound' /\ sound' \subseteq sound
  BY <1>1
<1> QED
  BY <1>1, <1>2 DEF RowsInv, CopyIsOrdered, RowsHaveImages

LEMMA DeleteRows == ASSUME RecoveryTypes, RowsInv, BeginDelete PROVE RowsInv'
<1>1. /\ UNCHANGED <<live, making, sound>> /\ DOMAIN locals' \subseteq DOMAIN locals
      /\ \A b \in DOMAIN locals' : locals'[b] = locals[b]
  BY DEF BeginDelete
<1> QED
  BY <1>1 DEF RowsInv, CopyIsOrdered, RowsHaveImages

LEMMA RowsStep ==
  ASSUME RecoveryTypes, RowsInv, [RecoveryNext]_recoveryVars
  PROVE  RowsInv'
<1>1. CASE UNCHANGED <<live, making, locals, sound>>
  BY <1>1, RowsStay
<1>2. CASE \/ StopService \/ StartService \/ BeginRestore \/ SaveForRollback \/ WriteBundle
           \/ FinishRestore \/ RestoreRaises \/ RestoreDies
           \/ \E b \in Backups : PreviewRestore(b)
  BY <1>2, RowsStay DEF StopService, StartService, BeginRestore, SaveForRollback, WriteBundle,
     FinishRestore, RestoreRaises, RestoreDies, PreviewRestore
<1>3. CASE \/ BeginExport \/ ExportEnds \/ PreviewCapacity \/ ApplyCapacity \/ FinishDelete
           \/ CapacityEnds \/ \E b \in Backups : ExportBackup(b)
  BY <1>3, RowsStay DEF BeginExport, ExportEnds, PreviewCapacity, ApplyCapacity, FinishDelete,
     CapacityEnds, ExportBackup
<1> QED
  BY <1>1, <1>2, <1>3, LiveRows, MakingRows, CopyRows, PublishRows, RestoreRows, DeleteRows
     DEF RecoveryNext, recoveryVars

-----------------------------------------------------------------------------
\* The restored files.
RestoreInv == PlanIsSaved /\ RestoreIsWhole

LEMMA RestoreStays == ASSUME RestoreInv, UNCHANGED <<live, service, restore>> PROVE RestoreInv'
BY DEF RestoreInv, PlanIsSaved, RestoreIsWhole

\* The files change outside of a restore only while none is under way.
LEMMA LiveRestore ==
  ASSUME RestoreInv, \E f \in Files : SaveLive(f) \/ LoseFile(f)
  PROVE  RestoreInv'
<1>1. restore.at = "idle" /\ restore' = restore
  BY DEF SaveLive, LoseFile, RestoreInv, PlanIsSaved
<1> QED
  BY <1>1 DEF RestoreInv, PlanIsSaved, RestoreIsWhole

LEMMA PlannedRestore ==
  ASSUME RecoveryTypes, RestoreInv,
         \/ StopService \/ StartService \/ BeginRestore
         \/ \E b \in Backups : PreviewRestore(b)
  PROVE  RestoreInv'
<1>1. CASE StopService
  BY <1>1 DEF StopService, RestoreInv, PlanIsSaved, RestoreIsWhole
<1>2. CASE StartService
  BY <1>2 DEF StartService, NoRestore, RestoreInv, PlanIsSaved, RestoreIsWhole
<1>3. CASE \E b \in Backups : PreviewRestore(b)
  <2>1. PICK b \in Backups : PreviewRestore(b)
    BY <1>3
  <2>2. /\ restore'.at = "previewed" /\ restore'.replaced = {} /\ DOMAIN restore'.saved = {}
        /\ service' = "down"
    BY <2>1, NoFilesTyped DEF PreviewRestore, NoRestore
  <2> QED
    BY <2>2 DEF RestoreInv, PlanIsSaved, RestoreIsWhole
<1>4. CASE BeginRestore
  <2>1. CASE restore.id \in DOMAIN locals /\ Fingerprint(restore.id) = restore.plan
    <3>1. /\ restore' = [restore EXCEPT !.at = "save", !.listed = locals[restore.id]]
          /\ live' = live /\ service' = service
      BY <1>4, <2>1 DEF BeginRestore
    <3>2. /\ DOMAIN locals[restore.id] = DOMAIN restore.plan
          /\ \A f \in DOMAIN restore.plan : live[f] = restore.plan[f]
      BY <2>1 DEF Fingerprint
    <3>3. /\ restore'.at = "save" /\ restore'.plan = restore.plan /\ restore'.saved = restore.saved
          /\ restore'.replaced = restore.replaced /\ DOMAIN restore'.listed = DOMAIN restore.plan
      BY <3>1, <3>2 DEF RecoveryTypes, RestoreType
    <3>4. /\ restore.at = "previewed" /\ service = "down" /\ restore.replaced = {}
          /\ DOMAIN restore.saved = {}
      BY <1>4 DEF BeginRestore, RestoreInv, PlanIsSaved
    <3> QED
      BY <3>1, <3>2, <3>3, <3>4 DEF RestoreInv, PlanIsSaved, RestoreIsWhole
  <2>2. CASE ~(restore.id \in DOMAIN locals /\ Fingerprint(restore.id) = restore.plan)
    BY <1>4, <2>2 DEF BeginRestore, NoRestore, RestoreInv, PlanIsSaved, RestoreIsWhole
  <2> QED
    BY <2>1, <2>2
<1> QED
  BY <1>1, <1>2, <1>3, <1>4

LEMMA SavedRestore == ASSUME RecoveryTypes, RestoreInv, SaveForRollback PROVE RestoreInv'
<1> DEFINE f == FirstOf(Listed \ DOMAIN restore.saved)
<1>1. f \in DOMAIN restore.listed /\ f \in Files
  BY FileIsListed DEF RestoreInv, Listed
<1>2. /\ restore.at = "save" /\ UNCHANGED <<live, service>> /\ restore.saved \in Parts
      /\ restore' = [restore EXCEPT !.saved = With(restore.saved, f, live[f])]
      /\ live \in [Files -> Held]
  BY DEF SaveForRollback, With, RecoveryTypes, RestoreType
<1> HIDE DEF f
<1>3. PICK n \in Held : n = live[f]
  BY <1>1, <1>2
<1>4. PICK new : new = With(restore.saved, f, n)
  OBVIOUS
<1>5. /\ DOMAIN new = DOMAIN restore.saved \cup {f} /\ new[f] = n
      /\ \A g \in DOMAIN restore.saved \ {f} : new[g] = restore.saved[g]
  <2>1. PICK old \in Parts : old = restore.saved
    BY <1>2
  <2>2. /\ DOMAIN With(old, f, n) = DOMAIN old \cup {f} /\ With(old, f, n)[f] = n
        /\ \A g \in DOMAIN old \ {f} : With(old, f, n)[g] = old[g]
    BY <1>1, <2>1, WithTyped
  <2> QED
    BY <1>4, <2>1, <2>2
<1>6. /\ restore'.at = "save" /\ restore'.saved = new /\ restore'.plan = restore.plan
      /\ restore'.listed = restore.listed /\ restore'.replaced = restore.replaced
  BY <1>2, <1>3, <1>4 DEF RecoveryTypes, RestoreType
<1>7. /\ DOMAIN restore.listed = DOMAIN restore.plan /\ DOMAIN restore.saved \subseteq DOMAIN restore.plan
      /\ \A g \in DOMAIN restore.plan : live[g] = restore.plan[g]
      /\ \A g \in DOMAIN restore.saved : restore.saved[g] = restore.plan[g]
      /\ service = "down" /\ restore.replaced = {}
  BY <1>2 DEF RestoreInv, PlanIsSaved
<1>8. /\ DOMAIN new \subseteq DOMAIN restore.plan
      /\ \A g \in DOMAIN new : new[g] = restore.plan[g]
  BY <1>1, <1>3, <1>5, <1>7
<1> QED
  BY <1>2, <1>6, <1>7, <1>8 DEF RestoreInv, PlanIsSaved, RestoreIsWhole

LEMMA ReplacedRestore == ASSUME RecoveryTypes, RestoreInv, ReplaceFile PROVE RestoreInv'
<1> DEFINE f == FirstOf(Listed \ restore.replaced)
<1>1. f \in DOMAIN restore.listed /\ f \in Files
  BY FileIsListed DEF RestoreInv, Listed
<1>2. /\ restore.at = "replace" /\ service' = service /\ live \in [Files -> Held]
      /\ live' = [live EXCEPT ![f] = restore.listed[f]]
      /\ restore' = [restore EXCEPT !.replaced = @ \cup {f}]
  BY DEF ReplaceFile, RecoveryTypes
<1> HIDE DEF f
<1>3. /\ restore'.at = "replace" /\ restore'.saved = restore.saved /\ restore'.plan = restore.plan
      /\ restore'.listed = restore.listed /\ restore'.replaced = restore.replaced \cup {f}
  BY <1>2 DEF RecoveryTypes, RestoreType
<1>4. /\ DOMAIN restore.listed = DOMAIN restore.plan /\ DOMAIN restore.saved = DOMAIN restore.plan
      /\ restore.replaced \subseteq DOMAIN restore.plan /\ service = "down"
      /\ \A g \in DOMAIN restore.saved : restore.saved[g] = restore.plan[g]
      /\ \A g \in DOMAIN restore.plan :
           live[g] = IF g \in restore.replaced THEN restore.listed[g] ELSE restore.plan[g]
  BY <1>2 DEF RestoreInv, PlanIsSaved
<1>5. \A g \in DOMAIN restore.plan :
        live'[g] = IF g \in restore'.replaced THEN restore.listed[g] ELSE restore.plan[g]
  BY <1>1, <1>2, <1>3, <1>4
<1> QED
  BY <1>1, <1>2, <1>3, <1>4, <1>5 DEF RestoreInv, PlanIsSaved, RestoreIsWhole

LEMMA EndedRestore ==
  ASSUME RecoveryTypes, RestoreInv,
         WriteBundle \/ FinishRestore \/ RestoreRaises \/ RestoreDies
  PROVE  RestoreInv'
<1>1. /\ UNCHANGED <<live, service>>
      /\ restore'.saved = restore.saved /\ restore'.plan = restore.plan
      /\ restore'.listed = restore.listed /\ restore'.replaced = restore.replaced
      /\ \/ /\ restore.at = "save" /\ DOMAIN restore.saved = DOMAIN restore.listed
            /\ restore'.at = "replace"
         \/ /\ restore.at = "replace" /\ restore.replaced = DOMAIN restore.listed
            /\ restore'.at = "done"
         \/ restore.at \in {"save", "replace", "undo"} /\ restore'.at \in {"undo", "stuck"}
  BY DEF WriteBundle, FinishRestore, RestoreRaises, RestoreDies, Bundled, Listed, RecoveryTypes, RestoreType
<1> QED
  BY <1>1 DEF RestoreInv, PlanIsSaved, RestoreIsWhole

LEMMA UndoneRestore == ASSUME RecoveryTypes, RestoreInv, UndoOne PROVE RestoreInv'
<1> DEFINE left == {f \in DOMAIN restore.saved : ~Undone(f)}
           first == {f \in left : restore.saved[f] # Missing}
<1>1. /\ restore.at = "undo" /\ service' = service /\ restore \in RestoreType /\ live \in [Files -> Held]
      /\ DOMAIN restore.saved \subseteq Files
  BY PartsAre DEF UndoOne, RecoveryTypes, RestoreType
<1>2. /\ service = "down" /\ DOMAIN restore.listed = DOMAIN restore.plan
      /\ DOMAIN restore.saved \subseteq DOMAIN restore.plan
      /\ \A f \in DOMAIN restore.saved : restore.saved[f] = restore.plan[f]
      /\ \A f \in DOMAIN restore.plan :
           \/ live[f] = restore.plan[f]
           \/ live[f] = restore.listed[f] /\ f \in DOMAIN restore.saved
  BY <1>1 DEF RestoreInv, PlanIsSaved
<1>3. CASE left = {}
  <2>1. \A f \in DOMAIN restore.plan : live[f] = restore.plan[f]
    BY <1>2, <1>3 DEF Undone
  <2>2. restore' = [restore EXCEPT !.at = "undone"] /\ live' = live
    BY <1>3 DEF UndoOne
  <2>3. /\ restore'.at = "undone" /\ restore'.saved = restore.saved /\ restore'.plan = restore.plan
        /\ restore'.listed = restore.listed
    BY <1>1, <2>2 DEF RestoreType
  <2> QED
    BY <1>1, <1>2, <2>1, <2>2, <2>3 DEF RestoreInv, PlanIsSaved, RestoreIsWhole
<1>4. CASE left # {}
  <2>1. PICK f \in left : live' = [live EXCEPT ![f] = restore.saved[f]] /\ restore' = restore
    BY <1>4 DEF UndoOne
  <2>2. \A g \in DOMAIN restore.plan :
          \/ live'[g] = restore.plan[g]
          \/ live'[g] = restore.listed[g] /\ g \in DOMAIN restore.saved
    BY <1>1, <1>2, <2>1
  <2> QED
    BY <1>1, <1>2, <2>1, <2>2 DEF RestoreInv, PlanIsSaved, RestoreIsWhole
<1> QED
  BY <1>3, <1>4

LEMMA RestoreStep ==
  ASSUME RecoveryTypes, RestoreInv, [RecoveryNext]_recoveryVars
  PROVE  RestoreInv'
<1>1. CASE UNCHANGED <<live, service, restore>>
  BY <1>1, RestoreStays
<1>2. CASE \/ CopyFile \/ PublishBackup \/ BackupEnds \/ BeginExport \/ ExportEnds \/ PreviewCapacity
           \/ ApplyCapacity \/ BeginDelete \/ FinishDelete \/ CapacityEnds
           \/ \E b \in Backups : BeginBackup(b) \/ ExportBackup(b)
  BY <1>2, RestoreStays DEF CopyFile, PublishBackup, BackupEnds, BeginExport, ExportEnds,
     PreviewCapacity, ApplyCapacity, BeginDelete, FinishDelete, CapacityEnds, BeginBackup, ExportBackup
<1> QED
  BY <1>1, <1>2, LiveRestore, PlannedRestore, SavedRestore, ReplacedRestore, EndedRestore, UndoneRestore
     DEF RecoveryNext, recoveryVars

-----------------------------------------------------------------------------
\* The backups that are removed.
\* The library states induction with an operator that the provers cannot
\* instantiate; well-foundedness of < on Nat gives it for a set.
Below == {ss \in Nat \X Nat : ss[1] < ss[2]}

LEMMA BelowIsWellFounded == IsWellFoundedOn(Below, Nat)
BY NatLessThanWellFounded DEF OpToRel, Below

\* What holds of 0 and of every successor holds of every number.
LEMMA SetInduction ==
  ASSUME NEW S, 0 \in S, \A n \in Nat : n \in S => n + 1 \in S
  PROVE  Nat \subseteq S
<1> DEFINE T == Nat \ S
<1>1. SUFFICES ASSUME T # {} PROVE FALSE
  OBVIOUS
<1>2. PICK m \in T : \A y \in T : <<y, m>> \notin Below
  BY <1>1, BelowIsWellFounded, WFMin
<1>3. \A y \in T : ~(y < m)
  BY <1>2 DEF Below
<1>4. m \in Nat /\ m # 0 /\ m - 1 \in Nat
  OBVIOUS
<1>5. m - 1 \in S
  BY <1>3, <1>4
<1> QED
  BY <1>4, <1>5

KeptAlong(kept, es, n) ==
  kept = [i \in 0..n |->
            IF i = 0 THEN [ids |-> {}, bytes |-> 0] ELSE RetainNext(kept[i - 1], es[i])]

KeptOf(es) ==
  LET kept[i \in 0..Len(es)] ==
        IF i = 0 THEN [ids |-> {}, bytes |-> 0] ELSE RetainNext(kept[i - 1], es[i])
  IN  kept[Len(es)].ids

LEMMA RetainedIs == Retained = KeptOf(exports)
BY DEF Retained, KeptOf

\* The function that Retained defines by recursion exists, for any exports.
LEMMA KeptExists == ASSUME NEW es PROVE \A n \in Nat : \E kept : KeptAlong(kept, es, n)
<1> DEFINE S == {n \in Nat : \E kept : KeptAlong(kept, es, n)}
<1>1. 0 \in S
  <2>1. KeptAlong([i \in 0..0 |-> [ids |-> {}, bytes |-> 0]], es, 0)
    BY DEF KeptAlong
  <2> QED
    BY <2>1
<1>2. ASSUME NEW n \in Nat, n \in S PROVE n + 1 \in S
  <2>1. PICK kept : KeptAlong(kept, es, n)
    BY <1>2
  <2> DEFINE more == [i \in 0..n + 1 |-> IF i = n + 1 THEN RetainNext(kept[n], es[n + 1]) ELSE kept[i]]
  <2>2. \A i \in 0..n : more[i] = kept[i]
    OBVIOUS
  <2>3. \A i \in 0..n :
          kept[i] = IF i = 0 THEN [ids |-> {}, bytes |-> 0] ELSE RetainNext(kept[i - 1], es[i])
    BY <2>1 DEF KeptAlong
  <2>4. ASSUME NEW i \in 0..n + 1
        PROVE  more[i] = IF i = 0 THEN [ids |-> {}, bytes |-> 0] ELSE RetainNext(more[i - 1], es[i])
    <3>1. CASE i = n + 1
      BY <3>1, <2>2
    <3>2. CASE i # n + 1
      BY <3>2, <2>2, <2>3
    <3> QED
      BY <3>1, <3>2
  <2>5. KeptAlong(more, es, n + 1)
    BY <2>4 DEF KeptAlong
  <2> QED
    BY <2>5
<1> HIDE DEF S
<1>3. Nat \subseteq S
  BY <1>1, <1>2, SetInduction
<1> QED
  BY <1>3 DEF S

\* Whatever the sizes are and however many may be kept, the newest export is.
LEMMA NewestIsRetained ==
  ASSUME exports \in Seq(Nat), exports # <<>>
  PROVE  exports[1] \in Retained
<1> DEFINE kept == CHOOSE kept : KeptAlong(kept, exports, Len(exports))
           S == {n \in Nat : n + 1 <= Len(exports) => exports[1] \in kept[n + 1].ids}
<1>1. KeptAlong(kept, exports, Len(exports)) /\ Retained = kept[Len(exports)].ids
  <2>1. \E k : KeptAlong(k, exports, Len(exports))
    <3>1. Len(exports) \in Nat
      OBVIOUS
    <3> QED
      BY <3>1, KeptExists
  <2>2. Retained = kept[Len(exports)].ids
    BY DEF Retained, KeptAlong
  <2> QED
    BY <2>1, <2>2
<1> HIDE DEF kept
<1>2. \A i \in 0..Len(exports) :
        kept[i] = IF i = 0 THEN [ids |-> {}, bytes |-> 0] ELSE RetainNext(kept[i - 1], exports[i])
  BY <1>1 DEF KeptAlong
<1>3. 0 \in S
  <2>1. Len(exports) \in Nat \ {0}
    OBVIOUS
  <2>2. kept[0].ids = {} /\ kept[1] = RetainNext(kept[0], exports[1])
    <3>1. 0 \in 0..Len(exports) /\ 1 \in 0..Len(exports)
      BY <2>1
    <3>2. kept[0] = [ids |-> {}, bytes |-> 0] /\ kept[1] = RetainNext(kept[1 - 1], exports[1])
      BY <1>2, <3>1
    <3> QED
      BY <3>2
  <2>3. exports[1] \in kept[1].ids
    BY <2>2 DEF RetainNext
  <2> QED
    BY <2>3
<1>4. ASSUME NEW n \in Nat, n \in S PROVE n + 1 \in S
  <2> SUFFICES ASSUME n + 2 <= Len(exports) PROVE exports[1] \in kept[n + 2].ids
    OBVIOUS
  <2>1. exports[1] \in kept[n + 1].ids
    BY <1>4
  <2>2. kept[n + 2] = RetainNext(kept[n + 1], exports[n + 2])
    BY <1>2
  <2> QED
    BY <2>1, <2>2 DEF RetainNext
<1> HIDE DEF S
<1>5. Len(exports) - 1 \in S /\ Len(exports) \in Nat \ {0}
  <2>1. Len(exports) \in Nat \ {0} /\ Len(exports) - 1 \in Nat
    OBVIOUS
  <2>2. Nat \subseteq S
    BY <1>3, <1>4, SetInduction
  <2> QED
    BY <2>1, <2>2
<1> QED
  BY <1>1, <1>5 DEF S

CapacityInv == PlanIsKept /\ OnlyPlannedGo

LEMMA RetainedStays == exports' = exports => Retained' = Retained
<1>1. Retained = KeptOf(exports)
  BY RetainedIs
<1>2. Retained' = KeptOf(exports')
  BY DEF Retained, KeptOf
<1> QED
  BY <1>1, <1>2

\* Nothing but a removal takes a backup away, and none is exported meanwhile.
LEMMA CapacityStays ==
  ASSUME CapacityInv, DOMAIN locals \subseteq DOMAIN locals', UNCHANGED <<exports, capacity, torn>>,
         flock = "capacity" => flock' = "capacity"
  PROVE  CapacityInv'
<1>1. Retained' = Retained
  BY RetainedStays
<1> QED
  BY <1>1 DEF CapacityInv, PlanIsKept, OnlyPlannedGo

LEMMA CapacityStep ==
  ASSUME RecoveryTypes, CapacityInv, [RecoveryNext]_recoveryVars
  PROVE  CapacityInv'
<1>1. CASE \/ UNCHANGED recoveryVars
           \/ CopyFile \/ BackupEnds \/ ExportEnds \/ BeginExport
           \/ \E b \in Backups : BeginBackup(b)
           \/ \E f \in Files : SaveLive(f) \/ LoseFile(f)
  BY <1>1, CapacityStays DEF recoveryVars, CopyFile, BackupEnds, ExportEnds, BeginExport, BeginBackup,
     SaveLive, LoseFile
<1>2. CASE PublishBackup
  BY <1>2, CapacityStays DEF PublishBackup
<1>3. CASE \/ StopService \/ StartService \/ BeginRestore \/ SaveForRollback \/ WriteBundle
           \/ ReplaceFile \/ FinishRestore \/ RestoreRaises \/ UndoOne \/ RestoreDies
           \/ \E b \in Backups : PreviewRestore(b)
  BY <1>3, CapacityStays DEF StopService, StartService, BeginRestore, SaveForRollback, WriteBundle,
     ReplaceFile, FinishRestore, RestoreRaises, UndoOne, RestoreDies, PreviewRestore
<1>4. CASE \E b \in Backups : ExportBackup(b)
  BY <1>4 DEF ExportBackup, CapacityInv, PlanIsKept, OnlyPlannedGo
<1>5. CASE PreviewCapacity
  BY <1>5 DEF PreviewCapacity, CapacityInv, PlanIsKept, OnlyPlannedGo, RecoveryTypes, CapacityType
<1>6. CASE ApplyCapacity
  <2>1. PICK order \in SetToSeqs(Candidates) :
          capacity' = [capacity EXCEPT !.at = "delete", !.left = order]
    BY <1>6 DEF ApplyCapacity
  <2>2. ToSet(order) \subseteq Candidates
    BY <2>1, CandidatesAre, OrdersAre
  <2>3. /\ capacity.shown = Plan /\ exports # <<>> /\ exports \in Seq(Nat) /\ flock' = "capacity"
        /\ UNCHANGED <<locals, exports, torn>>
    BY <1>6 DEF ApplyCapacity, SamePlan, RecoveryTypes
  <2>4. capacity'.left = order /\ capacity'.shown = Plan /\ capacity'.at = "delete"
    BY <2>1, <2>3 DEF RecoveryTypes, CapacityType
  <2>5. exports[1] \in Retained /\ Retained' = Retained
    BY <2>3, NewestIsRetained, RetainedStays
  <2>6. \A plan \in Plan : plan.locals = DOMAIN locals /\ plan.torn = torn /\ plan.candidates = Candidates
    BY PlanTyped
  <2>7. DOMAIN locals \ Candidates \subseteq DOMAIN locals /\ \A b \in Candidates : b \notin Retained
    BY DEF Candidates
  <2> QED
    BY <2>2, <2>3, <2>4, <2>5, <2>6, <2>7 DEF CapacityInv, PlanIsKept, OnlyPlannedGo
<1>7. CASE BeginDelete
  <2>1. /\ capacity.at = "delete" /\ capacity.left # <<>> /\ capacity.left \in Seq(Nat)
        /\ UNCHANGED <<exports, flock>> /\ capacity'.at = "remove" /\ capacity'.shown = capacity.shown
        /\ capacity'.left = capacity.left
        /\ DOMAIN locals' = DOMAIN locals \ {Head(capacity.left)}
        /\ torn' = torn \cup {Head(capacity.left)}
    BY <1>7 DEF BeginDelete, RecoveryTypes, CapacityType
  <2>2. Head(capacity.left) \in ToSet(capacity.left)
    BY <2>1, HeadAndTail
  <2>3. Retained' = Retained
    BY <2>1, RetainedStays
  <2> QED
    BY <2>1, <2>2, <2>3 DEF CapacityInv, PlanIsKept, OnlyPlannedGo
<1>9. CASE FinishDelete
  <2>1. /\ capacity.at = "remove" /\ capacity.left # <<>> /\ capacity.left \in Seq(Nat)
        /\ UNCHANGED <<exports, flock, locals>> /\ capacity'.at = "delete"
        /\ capacity'.shown = capacity.shown /\ capacity'.left = Tail(capacity.left)
        /\ torn' \subseteq torn
    BY <1>9 DEF FinishDelete, CapacityInv, PlanIsKept, RecoveryTypes, CapacityType
  <2>2. ToSet(Tail(capacity.left)) \subseteq ToSet(capacity.left)
    BY <2>1, HeadAndTail
  <2>3. Retained' = Retained
    BY <2>1, RetainedStays
  <2> QED
    BY <2>1, <2>2, <2>3 DEF CapacityInv, PlanIsKept, OnlyPlannedGo
<1>8. CASE CapacityEnds
  BY <1>8 DEF CapacityEnds, CapacityInv, PlanIsKept, OnlyPlannedGo, RecoveryTypes, CapacityType
<1> QED
  BY <1>1, <1>2, <1>3, <1>4, <1>5, <1>6, <1>7, <1>8, <1>9 DEF RecoveryNext

-----------------------------------------------------------------------------
LEMMA InitRecovery == RecoveryInit => RecoveryInv
<1> SUFFICES ASSUME RecoveryInit PROVE RecoveryInv
  OBVIOUS
<1> DEFINE empty == <<>>
<1>1. empty \in Seq(Nat)
  OBVIOUS
<1>2. /\ NotMaking \in MakingType /\ NotMaking.at = "idle"
      /\ NoRestore \in RestoreType /\ NoRestore.at = "idle"
      /\ NoCapacity \in CapacityType /\ NoCapacity.at = "idle"
  BY NoFilesTyped, <1>1 DEF NotMaking, NoRestore, NoCapacity, MakingType, RestoreType, CapacityType
<1>3. DOMAIN locals = {}
  BY DEF RecoveryInit
<1>4. RecoveryTypes
  BY <1>1, <1>2, <1>3, FS_EmptySet DEF RecoveryInit, RecoveryTypes, Held
<1>5. CopyIsOrdered /\ RowsHaveImages /\ PlanIsSaved /\ RestoreIsWhole /\ PlanIsKept /\ OnlyPlannedGo
  BY <1>2, <1>3 DEF RecoveryInit, CopyIsOrdered, RowsHaveImages, PlanIsSaved, RestoreIsWhole, PlanIsKept, OnlyPlannedGo
<1> QED
  BY <1>4, <1>5 DEF RecoveryInv

LEMMA StepRecovery == RecoveryInv /\ [RecoveryNext]_recoveryVars => RecoveryInv'
BY RecoveryAssumption, TypesStep, RowsStep, RestoreStep, CapacityStep
   DEF RecoveryInv, RowsInv, RestoreInv, CapacityInv

\* Whatever is saved, lost, copied, exported, restored and removed, in any order
\* and with any failures: no row of a backup is without its image, a restore is
\* complete, undone or can be undone, and a backup that is removed for space, or
\* left half removed, was in the plan that was shown and is none of the retained.
THEOREM RecoveryIsSafeHolds == RecoverySpec => []RecoveryIsSafe
<1>1. RecoveryInv => RecoveryIsSafe
  BY DEF RecoveryInv, RecoveryIsSafe
<1> QED
  BY <1>1, InitRecovery, StepRecovery, PTL DEF RecoverySpec
================================================================================
