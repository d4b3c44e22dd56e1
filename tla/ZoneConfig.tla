----------------------------- MODULE ZoneConfig -----------------------------
(***************************************************************************)
(* The zone configuration file between those who write and read it:        *)
(* threads of the API that save it (packages/api/zone_service.py), an      *)
(* editor outside both programs, and the vision process that polls it      *)
(* (packages/analytics/zone_reloader.py).  Every read of the file is a     *)
(* step of its own.  A content stands for its digest: version and content  *)
(* are compared, never computed.                                           *)
(***************************************************************************)
EXTENDS Naturals, FiniteSets

CONSTANTS Savers,      \* request threads of the API
          Good,        \* contents the zone engine accepts
          Broken,      \* contents it refuses with an error that is handled
          Alien,       \* JSON that is no object: an error nobody handles
          MaxSaves,    \* bound: save requests
          MaxEdits     \* bound: edits from outside

Absent == "absent"   \* no file
Contents == Good \cup Broken \cup Alien

ASSUME ZoneConfigAssumption ==
  /\ Absent \notin Contents
  /\ Good \cap (Broken \cup Alien) = {} /\ Broken \cap Alien = {}
  /\ {MaxSaves, MaxEdits} \subseteq Nat

VARIABLES file,      \* the configuration file
          saver,     \* what each thread is doing in save_zones
          backups,   \* contents copied to the backup directory
          probe,     \* "up", "down" or "starting"
          load,      \* the reads of _load_stable so far
          engine, version,   \* ZoneConfigReloader.engine, .version
          lastError, lastReported,   \* .last_error, ._last_reported_error
          report,    \* the last result of poll that was not None
          mixed,     \* history: the file came back during the load in force
          saves, edits   \* counters for the bounds

configVars == <<file, saver, backups, probe, load, engine, version,
                lastError, lastReported, report, mixed, saves, edits>>

apiVars == <<saver, backups, saves>>
reloadVars == <<probe, load, engine, version, lastError, lastReported, report, mixed>>

Resting == [at |-> "idle", expects |-> Absent, new |-> Absent, copy |-> Absent,
            touched |-> "no"]

NotLoading == [at |-> "no", before |-> Absent, engine |-> Absent, changes |-> 0]

ConfigInit ==
  /\ file \in Good
  /\ saver = [t \in Savers |-> Resting]
  /\ backups = {} /\ saves = 0 /\ edits = 0
  /\ probe = "up" /\ load = NotLoading
  /\ engine = file /\ version = file
  /\ lastError = "none" /\ lastReported = "none"
  /\ report = "started" /\ mixed = "no"

\* A file that is replaced: a load in progress has seen it change once more
\* (counted to two), a saver past its second check has had it touched.
Replaced(content) ==
  /\ file' = content
  /\ load' = IF load.at = "no" \/ load.changes = 2 THEN load
             ELSE [load EXCEPT !.changes = @ + 1]

\* save_zones: the request is authenticated and normalised; one that is not
\* changes nothing.  Any version may be expected, also a stale one.
Ask(t, expects, new) ==
  /\ saver[t].at = "idle" /\ saves < MaxSaves
  /\ saves' = saves + 1
  /\ saver' = [saver EXCEPT ![t] = [Resting EXCEPT !.at = "asked", !.expects = expects,
                                                   !.new = new]]
  /\ UNCHANGED <<file, backups, edits, reloadVars>>

Holding(t) == saver[t].at \notin {"idle", "asked"}

FaultyLockFree(t) == TRUE

LockFree(t) == \A u \in Savers \ {t} : ~Holding(u)

At(t, place) == saver' = [saver EXCEPT ![t].at = place]

Refuse(t) == saver' = [saver EXCEPT ![t] = Resting]

CheckVersion(t) ==
  /\ saver[t].at = "asked" /\ LockFree(t)
  /\ IF file = saver[t].expects THEN At(t, "checked") ELSE Refuse(t)
  /\ UNCHANGED <<file, backups, saves, edits, reloadVars>>

WriteTemporary(t, outcome) ==
  /\ saver[t].at = "checked"
  /\ IF outcome = "written" THEN At(t, "written") ELSE Refuse(t)
  /\ UNCHANGED <<file, backups, saves, edits, reloadVars>>

FaultyStillCurrent(t) == TRUE

StillCurrent(t) == file = saver[t].expects

CheckAgain(t) ==
  /\ saver[t].at = "written"
  /\ IF StillCurrent(t) THEN At(t, "rechecked") ELSE Refuse(t)
  /\ UNCHANGED <<file, backups, saves, edits, reloadVars>>

\* _backup_current copies whatever the file holds by now.
Backup(t, outcome) ==
  /\ saver[t].at = "rechecked"
  /\ IF outcome = "copied" /\ file # Absent
     THEN /\ saver' = [saver EXCEPT ![t].at = "copied", ![t].copy = file]
          /\ backups' = backups \cup {file}
     ELSE /\ Refuse(t)
          /\ UNCHANGED backups
  /\ UNCHANGED <<file, saves, edits, reloadVars>>

ReplaceFile(t) ==
  /\ saver[t].at = "copied"
  /\ Replaced(saver[t].new)
  /\ At(t, "replaced")
  /\ UNCHANGED <<backups, saves, edits, probe, engine, version, lastError, lastReported, report, mixed>>

\* get_zones reads the file for the answer, or fails on what is there by now.
Answer(t) ==
  /\ saver[t].at = "replaced"
  /\ Refuse(t)
  /\ UNCHANGED <<file, backups, saves, edits, reloadVars>>

\* The API process ends: its threads are gone, a temporary file stays behind.
ApiDies ==
  /\ \E t \in Savers : saver[t].at # "idle"
  /\ saver' = [t \in Savers |-> Resting]
  /\ UNCHANGED <<file, backups, saves, edits, reloadVars>>

\* An editor that takes no lock replaces or removes the file.
Edit(content) ==
  /\ edits < MaxEdits /\ content # file
  /\ edits' = edits + 1
  /\ Replaced(content)
  /\ saver' = [t \in Savers |-> IF saver[t].at \in {"rechecked", "copied"}
                                THEN [saver[t] EXCEPT !.touched = "yes"] ELSE saver[t]]
  /\ UNCHANGED <<backups, saves, probe, engine, version, lastError, lastReported, report, mixed>>

\* _failure: told once until something else is told.
Fails(message) ==
  /\ lastError' = message
  /\ lastReported' = message
  /\ report' = IF message = lastReported THEN report ELSE message
  /\ load' = NotLoading
  /\ UNCHANGED <<probe, engine, version, mixed>>

\* A load that fails ends a start, and a poll only when nobody handles it.
LoadFails(handled) ==
  IF probe = "up" /\ handled
  THEN Fails("invalid")
  ELSE /\ probe' = "down" /\ load' = NotLoading
       /\ UNCHANGED <<engine, version, lastError, lastReported, report, mixed>>

FaultyRecovers ==
  /\ lastError' = "none"
  /\ report' = IF lastError = "none" THEN report ELSE "recovered"
  /\ UNCHANGED <<probe, load, engine, version, lastReported, mixed>>

Recovers ==
  /\ lastError' = "none" /\ lastReported' = "none"
  /\ report' = IF lastError = "none" THEN report ELSE "recovered"
  /\ UNCHANGED <<probe, load, engine, version, mixed>>

FaultyPoll ==
  /\ probe = "up" /\ load.at = "no"
  /\ IF file = Absent THEN Fails("unavailable")
     ELSE IF file = version THEN Recovers
     ELSE /\ load' = IF lastError = "none" THEN [NotLoading EXCEPT !.at = "before"] ELSE load
          /\ UNCHANGED <<probe, engine, version, lastError, lastReported, report, mixed>>
  /\ UNCHANGED <<file, edits, apiVars>>

Poll ==
  /\ probe = "up" /\ load.at = "no"
  /\ IF file = Absent THEN Fails("unavailable")
     ELSE IF file = version THEN Recovers
     ELSE /\ load' = [NotLoading EXCEPT !.at = "before"]
          /\ UNCHANGED <<probe, engine, version, lastError, lastReported, report, mixed>>
  /\ UNCHANGED <<file, edits, apiVars>>

ReadBefore ==
  /\ load.at = "before"
  /\ IF file = Absent THEN LoadFails(TRUE)
     ELSE /\ load' = [load EXCEPT !.at = "parse", !.before = file, !.changes = 0]
          /\ UNCHANGED <<probe, engine, version, lastError, lastReported, report, mixed>>
  /\ UNCHANGED <<file, edits, apiVars>>

Parse ==
  /\ load.at = "parse"
  /\ IF file \notin Good THEN LoadFails(file \notin Alien)
     ELSE /\ load' = [load EXCEPT !.at = "after", !.engine = file]
          /\ UNCHANGED <<probe, engine, version, lastError, lastReported, report, mixed>>
  /\ UNCHANGED <<file, edits, apiVars>>

FaultySameVersion == file # Absent

SameVersion == file = load.before

ReadAfter ==
  /\ load.at = "after"
  /\ IF ~SameVersion THEN LoadFails(TRUE)
     ELSE /\ engine' = load.engine /\ version' = file
          /\ probe' = "up" /\ load' = NotLoading
          /\ mixed' = IF load.changes = 2 THEN "yes" ELSE "no"
          /\ lastError' = "none" /\ lastReported' = "none"
          /\ report' = IF probe = "up" THEN "reloaded" ELSE "started"
  /\ UNCHANGED <<file, edits, apiVars>>

ProbeEnds ==
  /\ probe # "down"
  /\ probe' = "down" /\ load' = NotLoading
  /\ UNCHANGED <<file, edits, apiVars, engine, version, lastError, lastReported, report, mixed>>

ReloaderStarts ==
  /\ probe = "down"
  /\ probe' = "starting"
  /\ load' = [NotLoading EXCEPT !.at = "before"]
  /\ lastError' = "none" /\ lastReported' = "none" /\ report' = "started"
  /\ UNCHANGED <<file, edits, apiVars, engine, version, mixed>>

Reloads == Poll \/ ReadBefore \/ Parse \/ ReadAfter

Saves(t) ==
  \/ \E expects, new \in Good : Ask(t, expects, new)
  \/ CheckVersion(t)
  \/ \E outcome \in {"written", "failed"} : WriteTemporary(t, outcome)
  \/ CheckAgain(t)
  \/ \E outcome \in {"copied", "failed"} : Backup(t, outcome)
  \/ ReplaceFile(t) \/ Answer(t)

ConfigNext ==
  \/ \E t \in Savers : Saves(t)
  \/ ApiDies
  \/ \E content \in Contents \cup {Absent} : Edit(content)
  \/ Reloads
  \/ ProbeEnds \/ ReloaderStarts

\* Frames keep coming while the process is up, so it polls; the supervisor
\* starts it again while it is down.
ConfigSpec ==
  /\ ConfigInit /\ [][ConfigNext]_configVars
  /\ WF_configVars(Reloads) /\ WF_configVars(ReloaderStarts)

-----------------------------------------------------------------------------
\* A save replaces the version its caller saw, and the copy it leaves is that
\* version: the check, the backup and the replacement are one step to every
\* other caller of the API, and only an edit from outside comes between.
SavesAreAtomic ==
  [][\A t \in Savers :
       saver[t].at = "copied" /\ saver'[t].at = "replaced" /\ saver[t].touched = "no" =>
         /\ file = saver[t].expects
         /\ saver[t].copy = file]_configVars

\* The zones in force are those of the version the state file names, unless
\* the file was replaced and put back between the two digests of one load.
EngineIsItsVersion ==
  probe = "up" /\ mixed = "no" => engine = version

\* What the log said last is what holds: it ends in a failure exactly while
\* the reloader is degraded, whichever failures and recoveries alternate.
ReportIsStatus ==
  probe = "up" =>
    IF lastError = "none" THEN report \in {"started", "reloaded", "recovered"}
    ELSE report = lastError

\* Both: what the state file and the log name is what is in force.
EngineIsKnown == EngineIsItsVersion /\ ReportIsStatus

\* A configuration that stays is followed: if the file comes to rest on a
\* content the engine accepts, its version is in force from some point on.
FileIsFollowed ==
  \A content \in Good :
    <>[](file = content /\ probe = "up") =>
      <>[](version = content /\ lastError = "none" /\ (engine = content \/ mixed = "yes"))
=============================================================================
