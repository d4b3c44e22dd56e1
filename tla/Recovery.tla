------------------------------ MODULE Recovery ------------------------------
(***************************************************************************)
(* Backups of the project, their restoration and their removal: the store  *)
(* of packages/harness/disaster_recovery.py, the encrypted exports of      *)
(* recovery_export.py, and scripts/recovery_capacity_manager.py.  A backup *)
(* is copied file by file from the running system; a restore replaces file *)
(* by file while the service is stopped; either may raise or die between   *)
(* two files.  Content is a number: of zone configurations saved, of rows, *)
(* of evidence images.  Hashes are exact.                                  *)
(***************************************************************************)
EXTENDS Integers, FiniteSets, Sequences, SequencesExt

CONSTANTS Backups,           \* ids, in the order they are made: 1..n
          Bytes,             \* the size of each backup's export
          KeepCount, MaximumBytes,
          MaxLive, MaxTroubles   \* bounds: content, raised errors, deaths

ASSUME RecoveryAssumption ==
  /\ KeepCount \in Nat \ {0} /\ MaximumBytes \in Nat
  /\ Backups \subseteq Nat \ {0} /\ DOMAIN Bytes = Backups

VARIABLES live, service,   \* the project's files; is the service running
          making,          \* create_backup: its id and staging directory
          locals,          \* backups published in data/recovery/backups
          exports,         \* ids with artifact and metadata, newest first
          restore,         \* preview_restore, apply_restore and its bundle
          capacity,        \* the capacity manager: its preview, its removal
          torn, bare,      \* backups half removed; those whose manifest is gone
          flock,           \* who holds the lock of export and capacity
          troubles,
          sound            \* history: backups of sound files no restore touched meanwhile

recoveryVars == <<live, service, making, locals, exports, restore, capacity, torn, bare, flock, troubles, sound>>

\* The order of PROTECTED_SOURCES, and of the paths in a manifest.
FileOrder == <<"zones", "db", "evidence">>
Files == ToSet(FileOrder)
Missing == -1
NoFiles == [f \in {} |-> 0]
NotMaking == [at |-> "idle", id |-> 0, copied |-> NoFiles]
NoRestore == [at |-> "idle", id |-> 0, plan |-> NoFiles, listed |-> NoFiles, saved |-> NoFiles,
              replaced |-> {}]
NoCapacity == [at |-> "idle", shown |-> {}, left |-> <<>>, gone |-> {}]

RecoveryInit ==
  /\ live = [f \in Files |-> 1] /\ service = "up"
  /\ making = NotMaking /\ locals = [b \in {} |-> NoFiles] /\ exports = <<>>
  /\ restore = NoRestore /\ capacity = NoCapacity /\ torn = {} /\ bare = {}
  /\ flock = "free" /\ troubles = 0
  /\ sound = {}

\* The one whose turn it is, of files that are still to be done.
FirstOf(rest) ==
  CHOOSE f \in rest :
    \E i \in DOMAIN FileOrder : f = FileOrder[i] /\ \A j \in 1..i - 1 : FileOrder[j] \notin rest

Trouble == troubles < MaxTroubles /\ troubles' = troubles + 1

\* The service: an image is saved before the row that names it.
SaveLive(f) ==
  /\ service = "up" /\ live[f] # Missing /\ live[f] < MaxLive
  /\ f = "db" => live["evidence"] > live["db"]
  /\ live' = [live EXCEPT ![f] = @ + 1]
  /\ UNCHANGED <<service, making, locals, exports, restore, capacity, torn, bare, flock, troubles, sound>>

\* The disaster, not in the middle of a restore.
LoseFile(f) ==
  /\ restore.at = "idle" /\ Trouble /\ live[f] # Missing
  /\ live' = [live EXCEPT ![f] = Missing]
  /\ UNCHANGED <<service, making, locals, exports, restore, capacity, torn, bare, flock, sound>>

-----------------------------------------------------------------------------
Made == DOMAIN locals \cup ToSet(exports) \cup {making.id} \cup torn \cup capacity.gone

BeginBackup(b) ==
  /\ making.at = "idle" /\ b \notin Made /\ \A d \in Made : d < b
  /\ making' = [NotMaking EXCEPT !.at = "copy", !.id = b]
  /\ sound' = IF live["db"] <= live["evidence"] THEN sound \cup {b} ELSE sound \ {b}
  /\ UNCHANGED <<live, service, locals, exports, restore, capacity, torn, bare, flock, troubles>>

FaultyNextToCopy == Reverse(FileOrder)[Cardinality(DOMAIN making.copied) + 1]
NextToCopy == FirstOf(Files \ DOMAIN making.copied)

\* A source that is absent is left out.
CopyFile ==
  /\ making.at = "copy" /\ DOMAIN making.copied # Files
  /\ making' = [making EXCEPT !.copied =
       [f \in DOMAIN @ \cup {NextToCopy} |-> IF f = NextToCopy THEN live[f] ELSE making.copied[f]]]
  /\ UNCHANGED <<live, service, locals, exports, restore, capacity, torn, bare, flock, troubles, sound>>

\* os.replace of the whole staging directory.
PublishBackup ==
  /\ making.at = "copy" /\ DOMAIN making.copied = Files
  /\ locals' = [b \in DOMAIN locals \cup {making.id} |->
       IF b = making.id
       THEN [f \in {g \in Files : making.copied[g] # Missing} |-> making.copied[f]] ELSE locals[b]]
  /\ making' = NotMaking
  /\ UNCHANGED <<live, service, exports, restore, capacity, torn, bare, flock, troubles, sound>>

\* A source changed while it was read, a limit, or the end of the process.
BackupEnds ==
  /\ making.at = "copy" /\ Trouble
  /\ making' = NotMaking
  /\ UNCHANGED <<live, service, locals, exports, restore, capacity, torn, bare, flock, sound>>

\* The export of a backup under the lock; a failure removes what it made.
BeginExport ==
  /\ flock = "free" /\ flock' = "export"
  /\ UNCHANGED <<live, service, making, locals, exports, restore, capacity, torn, bare, troubles, sound>>

ExportBackup(b) ==
  /\ flock = "export" /\ b \in DOMAIN locals \ ToSet(exports)
  /\ exports' = <<b>> \o exports /\ flock' = "free"
  /\ UNCHANGED <<live, service, making, locals, restore, capacity, torn, bare, troubles, sound>>

ExportEnds ==
  /\ flock = "export" /\ flock' = "free"
  /\ UNCHANGED <<live, service, making, locals, exports, restore, capacity, torn, bare, troubles, sound>>

-----------------------------------------------------------------------------
\* The restore script stops the service, shows a plan, and applies it.
StopService ==
  /\ service = "up" /\ restore.at = "idle" /\ service' = "down"
  /\ UNCHANGED <<live, making, locals, exports, restore, capacity, torn, bare, flock, troubles, sound>>

StartService ==
  /\ service = "down" /\ restore.at \in {"idle", "done", "undone", "stuck"}
  /\ service' = "up" /\ restore' = NoRestore
  /\ UNCHANGED <<live, making, locals, exports, capacity, torn, bare, flock, troubles, sound>>

\* The plan is what the listed files hold now.
Fingerprint(b) == [f \in DOMAIN locals[b] |-> live[f]]

PreviewRestore(b) ==
  /\ service = "down" /\ restore.at = "idle" /\ b \in DOMAIN locals
  /\ restore' = [NoRestore EXCEPT !.at = "previewed", !.id = b, !.plan = Fingerprint(b)]
  /\ UNCHANGED <<live, service, making, locals, exports, capacity, torn, bare, flock, troubles, sound>>

\* apply_restore: the plan again, then a copy of every file that exists.
BeginRestore ==
  /\ restore.at = "previewed"
  /\ restore' = IF restore.id \in DOMAIN locals /\ Fingerprint(restore.id) = restore.plan
                THEN [restore EXCEPT !.at = "save", !.listed = locals[restore.id]]
                ELSE NoRestore
  /\ UNCHANGED <<live, service, making, locals, exports, capacity, torn, bare, flock, troubles, sound>>

Listed == DOMAIN restore.listed

SaveForRollback ==
  /\ restore.at = "save" /\ DOMAIN restore.saved # Listed
  /\ LET f == FirstOf(Listed \ DOMAIN restore.saved)
     IN  restore' = [restore EXCEPT !.saved =
           [g \in DOMAIN @ \cup {f} |-> IF g = f THEN live[f] ELSE restore.saved[g]]]
  /\ UNCHANGED <<live, service, making, locals, exports, capacity, torn, bare, flock, troubles, sound>>

FaultyBundled == TRUE

\* rollback.json is written when every copy is there, before the first replace.
Bundled == DOMAIN restore.saved = Listed

WriteBundle ==
  /\ restore.at = "save" /\ Bundled
  /\ restore' = [restore EXCEPT !.at = "replace"]
  /\ UNCHANGED <<live, service, making, locals, exports, capacity, torn, bare, flock, troubles, sound>>

\* A file is copied from the backup's directory, if that still has it.
ReplaceFile ==
  /\ restore.at = "replace" /\ restore.replaced # Listed
  /\ restore.id \in DOMAIN locals \cup torn
  /\ LET f == FirstOf(Listed \ restore.replaced)
     IN  /\ live' = [live EXCEPT ![f] = restore.listed[f]]
         /\ restore' = [restore EXCEPT !.replaced = @ \cup {f}]
  /\ sound' = sound \ {making.id}
  /\ UNCHANGED <<service, making, locals, exports, capacity, torn, bare, flock, troubles>>

FinishRestore ==
  /\ restore.at = "replace" /\ restore.replaced = Listed
  /\ restore' = [restore EXCEPT !.at = "done"]
  /\ UNCHANGED <<live, service, making, locals, exports, capacity, torn, bare, flock, troubles, sound>>

\* Any error while copying or replacing, as when the backup is being removed:
\* all that was saved goes back, then the files that did not exist are removed.
RestoreRaises ==
  /\ restore.at \in {"save", "replace"}
  /\ IF restore.id \in DOMAIN locals THEN Trouble ELSE UNCHANGED troubles
  /\ restore' = [restore EXCEPT !.at = "undo"]
  /\ UNCHANGED <<live, service, making, locals, exports, capacity, torn, bare, flock, sound>>

Undone(f) == live[f] = restore.saved[f]

UndoOne ==
  /\ restore.at = "undo"
  /\ LET left == {f \in DOMAIN restore.saved : ~Undone(f)}
         first == {f \in left : restore.saved[f] # Missing}
     IN  IF left = {}
         THEN restore' = [restore EXCEPT !.at = "undone"] /\ UNCHANGED live
         ELSE /\ \E f \in IF first # {} THEN first ELSE left :
                   live' = [live EXCEPT ![f] = restore.saved[f]]
              /\ UNCHANGED restore
  /\ sound' = sound \ {making.id}
  /\ UNCHANGED <<service, making, locals, exports, capacity, torn, bare, flock, troubles>>

\* The rollback raises as well, or the process dies: the bundle is left.
RestoreDies ==
  /\ restore.at \in {"save", "replace", "undo"} /\ Trouble
  /\ restore' = [restore EXCEPT !.at = "stuck"]
  /\ UNCHANGED <<live, service, making, locals, exports, capacity, torn, bare, flock, sound>>

-----------------------------------------------------------------------------
\* build_plan: newest first while they fit, the newest whatever its size.
FaultyRetained ==
  ToSet(SubSeq(exports, 1, IF Len(exports) < KeepCount THEN Len(exports) ELSE KeepCount - 1))

RetainNext(kept, b) ==
  IF \/ kept.ids = {}
     \/ Cardinality(kept.ids) < KeepCount /\ kept.bytes + Bytes[b] <= MaximumBytes
  THEN [ids |-> kept.ids \cup {b}, bytes |-> kept.bytes + Bytes[b]]
  ELSE kept
Retained ==
  LET kept[i \in 0..Len(exports)] ==
        IF i = 0 THEN [ids |-> {}, bytes |-> 0] ELSE RetainNext(kept[i - 1], exports[i])
  IN  kept[Len(exports)].ids

\* scan_local_backups raises on a directory of a backup without its manifest.
Scans == bare = {}

\* A plan is the inventory: equal plans have equal exports and backups.  Only
\* the size tells a half removed backup from a whole one.
Candidates == (DOMAIN locals \cup torn) \ Retained
Plan == {[exports |-> exports, locals |-> DOMAIN locals, torn |-> torn, candidates |-> Candidates]}

PreviewCapacity ==
  /\ flock = "free" /\ exports # <<>> /\ capacity.at = "idle" /\ Scans
  /\ capacity' = [capacity EXCEPT !.shown = Plan]
  /\ UNCHANGED <<live, service, making, locals, exports, restore, torn, bare, flock, troubles, sound>>

FaultySamePlan == capacity.shown # {}
SamePlan == capacity.shown = Plan

ApplyCapacity ==
  /\ flock = "free" /\ exports # <<>> /\ capacity.at = "idle" /\ capacity.shown # {}
  /\ Scans /\ SamePlan
  /\ flock' = "capacity"
  /\ \E order \in SetToSeqs(Candidates) :
       capacity' = [capacity EXCEPT !.at = "delete", !.left = order]
  /\ UNCHANGED <<live, service, making, locals, exports, restore, torn, bare, troubles, sound>>

\* rmtree: file after file, the manifest first, last or between, then the directory.
BeginDelete ==
  /\ capacity.at = "delete" /\ capacity.left # <<>>
  /\ LET b == Head(capacity.left)
     IN  /\ locals' = [d \in DOMAIN locals \ {b} |-> locals[d]]
         /\ torn' = torn \cup {b} /\ bare' \in {bare, bare \cup {b}}
  /\ capacity' = [capacity EXCEPT !.at = "remove"]
  /\ UNCHANGED <<live, service, making, exports, restore, flock, troubles, sound>>

FinishDelete ==
  /\ capacity.at = "remove"
  /\ LET b == Head(capacity.left)
     IN  /\ torn' = torn \ {b} /\ bare' = bare \ {b}
         /\ capacity' = [capacity EXCEPT !.at = "delete", !.left = Tail(@), !.gone = @ \cup {b}]
  /\ UNCHANGED <<live, service, making, locals, exports, restore, flock, troubles, sound>>

\* It is done, or it died in a directory or between two; the lock goes with it.
CapacityEnds ==
  /\ capacity.at \in {"delete", "remove"}
  /\ IF capacity.left = <<>> THEN UNCHANGED troubles ELSE Trouble
  /\ capacity' = [capacity EXCEPT !.at = "idle", !.left = <<>>, !.shown = {}]
  /\ flock' = "free"
  /\ UNCHANGED <<live, service, making, locals, exports, restore, torn, bare, sound>>

RecoveryNext ==
  \/ \E f \in Files : SaveLive(f) \/ LoseFile(f)
  \/ \E b \in Backups : BeginBackup(b) \/ ExportBackup(b) \/ PreviewRestore(b)
  \/ CopyFile \/ PublishBackup \/ BackupEnds \/ BeginExport \/ ExportEnds
  \/ StopService \/ StartService
  \/ BeginRestore \/ SaveForRollback \/ WriteBundle \/ ReplaceFile \/ FinishRestore
  \/ RestoreRaises \/ UndoOne \/ RestoreDies
  \/ PreviewCapacity \/ ApplyCapacity \/ BeginDelete \/ FinishDelete \/ CapacityEnds

RecoverySpec == RecoveryInit /\ [][RecoveryNext]_recoveryVars

-----------------------------------------------------------------------------
\* Each row of a backup has its image in it, though the copy is not atomic:
\* images are saved before rows and copied after them.  (A restore that runs
\* during the copy breaks it: nothing keeps the two apart.)
RowsHaveImages ==
  \A b \in DOMAIN locals \cap sound :
    {"db", "evidence"} \subseteq DOMAIN locals[b] => locals[b]["db"] <= locals[b]["evidence"]

\* A restore that answers success left every listed file as in the backup, one
\* that undid itself left them as they were, and at any moment between, also
\* after a death, each listed file is one or the other and the old one is saved.
RestoreIsWhole ==
  /\ restore.at = "done" =>
       \A f \in DOMAIN restore.listed : live[f] = restore.listed[f]
  /\ restore.at = "undone" =>
       \A f \in DOMAIN restore.plan : live[f] = restore.plan[f]
  /\ restore.at \in {"replace", "undo", "stuck"} =>
       \A f \in DOMAIN restore.plan :
         live[f] # restore.plan[f] =>
           /\ live[f] = restore.listed[f]
           /\ f \in DOMAIN restore.saved /\ restore.saved[f] = restore.plan[f]

\* Removing backups for space goes by the plan that was shown: a backup whose
\* export is retained stays, one made since then stays, and the newest export
\* is always among the retained.  What is left half removed by a death was
\* among the candidates, and the one that is being removed is.
OnlyPlannedGo ==
  capacity.at \in {"delete", "remove"} =>
    /\ exports[1] \in Retained
    /\ \A plan \in capacity.shown :
         /\ plan.locals \ plan.candidates \subseteq DOMAIN locals
         /\ ToSet(capacity.left) \subseteq plan.candidates
         /\ torn \subseteq plan.torn \cup plan.candidates
         /\ \A b \in plan.candidates : b \notin Retained

RecoveryIsSafe == RowsHaveImages /\ RestoreIsWhole /\ OnlyPlannedGo
=============================================================================
