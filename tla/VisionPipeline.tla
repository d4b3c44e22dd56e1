--------------------------- MODULE VisionPipeline ---------------------------
(***************************************************************************)
(* The parts of the vision process and of its configuration: the zone      *)
(* events of a frame, the inventory path from the frame to the records,    *)
(* and the zone configuration with the service that saves it.  The first   *)
(* two are fed by the same loop and share no state; the third gives the    *)
(* zones whose changes ZoneEvents takes as a restart.  Every behaviour is  *)
(* one part's, and "part" says whose.                                      *)
(***************************************************************************)
EXTENDS ZoneEvents, VisionProbe, ZoneConfig

VARIABLE part

visionVars == <<part, zoneVars, probeVars, configVars>>

\* A part that does not act starts in one of its initial states only.
VisionInit ==
  /\ part \in {"zones", "stock", "config"}
  /\ ZoneInit /\ ProbeInit /\ ConfigInit
  /\ part = "zones" \/ zones = CHOOSE z \in Configured : TRUE
  /\ part = "config" \/ file = CHOOSE content \in Good : TRUE

VisionNext ==
  \/ part = "zones" /\ ZoneNext /\ UNCHANGED <<part, probeVars, configVars>>
  \/ part = "stock" /\ ProbeNext /\ UNCHANGED <<part, zoneVars, configVars>>
  \/ part = "config" /\ ConfigNext /\ UNCHANGED <<part, zoneVars, probeVars>>

\* The vision process goes on reloading, and is started again when it ended.
VisionSpec ==
  /\ VisionInit /\ [][VisionNext]_visionVars
  /\ WF_configVars(part = "config" /\ Reloads) /\ WF_configVars(part = "config" /\ ReloaderStarts)
=============================================================================
