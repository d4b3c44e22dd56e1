---------------------------- MODULE HostServices ----------------------------
(***************************************************************************)
(* The programs that look after the host's files and processes: the        *)
(* cleanup of old files, the backups and the service manager.  They share  *)
(* no state in the models, so every behaviour is one component's, and      *)
(* "part" says whose.                                                      *)
(***************************************************************************)
EXTENDS Retention, Recovery, ServiceHost

VARIABLE part

hostSideVars == <<part, retentionVars, recoveryVars, hostVars>>

HostSideInit ==
  /\ part \in {"cleanup", "recovery", "host"}
  /\ RetentionInit /\ RecoveryInit /\ HostInit

HostSideNext ==
  \/ part = "cleanup" /\ RetentionNext /\ UNCHANGED <<part, recoveryVars, hostVars>>
  \/ part = "recovery" /\ RecoveryNext /\ UNCHANGED <<part, retentionVars, hostVars>>
  \/ part = "host" /\ HostNext /\ UNCHANGED <<part, retentionVars, recoveryVars>>

HostSideSpec == HostSideInit /\ [][HostSideNext]_hostSideVars
=============================================================================
