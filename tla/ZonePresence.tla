---------------------------- MODULE ZonePresence ----------------------------
(***************************************************************************)
(* What the zone events promise to a reader of the event store: a visit of *)
(* a track to a zone begins with ENTER, has at most one DWELL and ends     *)
(* with EXIT, and nothing else is said about it.  A restart of the process *)
(* forgets every visit without a word.                                     *)
(***************************************************************************)
EXTENDS FiniteSets

CONSTANT Keys   \* pairs of a zone and a track

VARIABLES visit,    \* visit[k]: "out", "in" or "dwelt"
          told      \* the events of the last frame: pairs <<type, key>>

Move(k, from, to, kind) ==
  /\ visit[k] = from
  /\ visit'[k] = to
  /\ {e \in told' : e[2] = k} = {<<kind, k>>}

Silent(k) ==
  /\ visit'[k] = visit[k]
  /\ {e \in told' : e[2] = k} = {}

Observe ==
  /\ visit' \in [Keys -> {"out", "in", "dwelt"}]
  /\ \A k \in Keys :
       \/ Silent(k)
       \/ Move(k, "out", "in", "ZONE_ENTER")
       \/ Move(k, "in", "dwelt", "ZONE_DWELL")
       \/ Move(k, "in", "out", "ZONE_EXIT")
       \/ Move(k, "dwelt", "out", "ZONE_EXIT")

Forget ==
  /\ visit' = [k \in Keys |-> "out"]
  /\ told' = {}

PresenceInit ==
  /\ visit = [k \in Keys |-> "out"]
  /\ told = {}

PresenceSpec == PresenceInit /\ [][Observe \/ Forget]_<<visit, told>>
=============================================================================
