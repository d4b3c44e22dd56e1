----------------------------- MODULE ZoneEvents -----------------------------
(***************************************************************************)
(* One frame of the vision loop as far as zones are concerned: the tracker *)
(* (module Tracking), the snapshot of packages/analytics/zone_engine.py    *)
(* over the configuration the reloader put in place, the people counter,   *)
(* and the debounced state machine of packages/events/engine.py.           *)
(***************************************************************************)
EXTENDS Tracking

CONSTANTS Zones,         \* the zones any configuration may name
          Configured,      \* the sets of zones the file may hold over time
          Covers,          \* Covers[z]: the boxes whose anchor z contains
          Accepts,         \* Accepts[z]: its target classes, none for all
          Frames,          \* the detection lists a camera may deliver
          MinimumHits,     \* minimum_hits of the zones
          ZoneMissed,      \* max_missed_frames of the zones
          EnterConfirm, ExitConfirm, DwellTime,
          PeopleHits, Grace,   \* min_confirmed_hits, occupancy_grace_frames
          MaxTracks        \* bound: identities given out

\* What the detector delivers, in pixels.
Detections == [class : STRING, box : Int \X Int \X Int \X Int]

ASSUME ZoneAssumption ==
  /\ Configured \subseteq SUBSET Zones /\ \A dets \in Frames : dets \in Seq(Detections)
  /\ {MinimumHits, EnterConfirm, ExitConfirm, PeopleHits} \subseteq Nat \ {0}
  /\ {ZoneMissed, DwellTime, Grace, MaxTracks} \subseteq Nat
  /\ {MinimumHits, PeopleHits} \subseteq 1..HitsBound

VARIABLES tracks,      \* IoUTracker._tracks
          nextId,      \* IoUTracker._next_track_id
          zones,       \* zone_engine.zones
          states,      \* ZoneEventEngine._states
          events,      \* the events of the last frame
          confirmed,   \* PeopleCounter._confirmed_ever
          people,      \* current_people of the last frame, the tracks counted
          window       \* history: the keys present in the last frames

zoneVars == <<tracks, nextId, zones, states, events, confirmed, people, window>>

Ids == 1..MaxTracks
ZoneKeys == Zones \X Ids
Depth == Greater(EnterConfirm, ExitConfirm)

InZone(t, z) ==
  /\ t.hits >= MinimumHits
  /\ t.missed <= ZoneMissed
  /\ Accepts[z] = {} \/ t.class \in Accepts[z]
  /\ t.box \in Covers[z]

\* ZoneEngine.snapshot, as the keys present in the frame.
Present(known, zs) ==
  UNION {{<<z, t.id>> : t \in {u \in known : InZone(u, z)}} : z \in zs}

Arrived == [phase |-> "entering", presence |-> 0, absence |-> 0,
            since |-> 0, dwelt |-> "no"]

\* A key in the frame: counted, entered when confirmed, then timed.
Confirms(s) == s.phase = "entering" /\ s.presence + 1 >= EnterConfirm

Elapsed(s, passed) ==
  IF s.phase = "inside" THEN Lesser(s.since + passed, DwellTime) ELSE 0

FaultyDwells(s, passed) ==
  DwellTime > 0 /\ s.phase = "inside" /\ Elapsed(s, passed) >= DwellTime

Dwells(s, passed) ==
  /\ DwellTime > 0
  /\ s.phase = "inside" /\ s.dwelt = "no"
  /\ Elapsed(s, passed) >= DwellTime

Counted(s, passed) ==
  [phase |-> IF Confirms(s) THEN "inside" ELSE s.phase,
   presence |-> Lesser(s.presence + 1, EnterConfirm),
   absence |-> 0,
   since |-> Elapsed(s, passed),
   dwelt |-> IF Dwells(s, passed) THEN "yes" ELSE s.dwelt]

\* A known key that is not in the frame: an entry is dropped at once, a
\* visit survives ExitConfirm - 1 frames, whatever became of its zone.
Leaves(k) == states[k].phase = "inside" /\ states[k].absence + 1 >= ExitConfirm

FaultyLingers(k) ==
  states[k].phase = "inside" /\ (k[1] \notin zones \/ ~Leaves(k))

Lingers(k) == states[k].phase = "inside" /\ ~Leaves(k)

StateOf(k) == IF k \in DOMAIN states THEN states[k] ELSE Arrived

AfterSnapshot(present, passed) ==
  LET absent == DOMAIN states \ present
  IN  [k \in present \cup {a \in absent : Lingers(a)} |->
         IF k \in present THEN Counted(StateOf(k), passed)
         ELSE [states[k] EXCEPT !.absence = Lesser(@ + 1, ExitConfirm),
                                !.since = Elapsed(states[k], passed)]]

EventsOf(present, passed) ==
  {<<"ZONE_ENTER", k>> : k \in {p \in present : Confirms(StateOf(p))}}
  \cup {<<"ZONE_DWELL", k>> : k \in {p \in present : Dwells(StateOf(p), passed)}}
  \cup {<<"ZONE_EXIT", k>> : k \in {a \in DOMAIN states \ present : Leaves(a)}}

\* PeopleCounter.update over the tracks of the frame.
PeopleOf(known) == {t \in known : t.class = "person" /\ t.hits >= PeopleHits}

FaultyOccupants(known) == {t \in known : t.class = "person" /\ t.missed <= Grace}

Occupants(known) == {t \in PeopleOf(known) : t.missed <= Grace}

IdsOf(known) == {t.id : t \in known}

ZoneInit ==
  /\ tracks = {} /\ nextId = 1
  /\ zones \in Configured
  /\ states = [k \in {} |-> {}] /\ events = {}
  /\ confirmed = {} /\ people = {}
  /\ window = <<>>

\* The body of the frame loop from the poll of the configuration to the
\* events: a reload takes effect at the start of a frame.
Frame(dets, passed, configured) ==
  \E pairs \in {Matching(tracks, dets)} :
    /\ NextTrackId(pairs, nextId, dets) <= MaxTracks + 1
    /\ nextId' = NextTrackId(pairs, nextId, dets)
    /\ zones' = configured
    /\ tracks' = AfterFrame(tracks, pairs, nextId, dets)
    /\ \E present \in {Present(tracks', zones')} :
         /\ states' = AfterSnapshot(present, passed)
         /\ events' = EventsOf(present, passed)
         /\ window' = SubSeq(<<present>> \o window, 1, Lesser(Depth + 1, Len(window) + 1))
    /\ confirmed' = confirmed \cup IdsOf(PeopleOf(tracks'))
    /\ people' = IdsOf(Occupants(tracks'))

\* The process ends and is started again: every engine is built anew.
ProbeRestarts ==
  /\ tracks' = {} /\ nextId' = 1
  /\ zones' \in Configured
  /\ states' = [k \in {} |-> {}] /\ events' = {}
  /\ confirmed' = {} /\ people' = {}
  /\ window' = <<>>

NextFrame ==
  \E dets \in Frames, passed \in 0..1, configured \in Configured :
    Frame(dets, passed, configured)

ZoneNext == NextFrame \/ ProbeRestarts

ZoneSpec == ZoneInit /\ [][ZoneNext]_zoneVars

-----------------------------------------------------------------------------
Inside(k) == k \in DOMAIN states /\ states[k].phase = "inside"

Visit ==
  [k \in ZoneKeys |-> IF ~Inside(k) THEN "out"
                      ELSE IF states[k].dwelt = "yes" THEN "dwelt" ELSE "in"]

Promise == INSTANCE ZonePresence
             WITH Keys <- ZoneKeys, visit <- Visit, told <- events

\* What is written to the event store about a track and a zone is ENTER, at
\* most one DWELL, EXIT, in that order, whatever is missed, lost or reloaded.
ImplementsPresence == Promise!PresenceSpec

\* The frames of the last n: in all of them, in none of them.
AllOf(n, k) == Len(window) >= n /\ \A j \in 1..n : k \in window[j]
NoneOf(n, k) == Len(window) >= n /\ \A j \in 1..n : k \notin window[j]

\* The debounce by its definition: a key enters in the frame that completes
\* EnterConfirm frames in a row, leaves in the one that completes ExitConfirm
\* frames without it, is inside in between, and never by fewer frames.
DebounceIsExact ==
  \A k \in ZoneKeys :
    /\ <<"ZONE_ENTER", k>> \in events => AllOf(EnterConfirm, k)
    /\ <<"ZONE_EXIT", k>> \in events =>
         NoneOf(ExitConfirm, k) /\ k \in window[ExitConfirm + 1]
    /\ AllOf(EnterConfirm, k) => Inside(k)
    /\ NoneOf(ExitConfirm, k) => k \notin DOMAIN states

\* Identities are what the tracker's description promises: a pair that overlaps
\* enough is matched or loses its track or its detection to a pair that comes
\* sooner, no number is given out twice, and only confirmed people are counted.
IdentitiesAreStable ==
  /\ \A dets \in Frames :
       LET pairs == Matching(tracks, dets)
       IN  /\ pairs \subseteq Candidates(tracks, dets)
           /\ \A c, d \in pairs : c = d \/ Disjoint(c, d)
           /\ \A c \in Candidates(tracks, dets) \ pairs :
                \E d \in pairs : ~Disjoint(c, d) /\ Sooner(dets, d, c)
  /\ Cardinality(IdsOf(tracks)) = Cardinality(tracks)
  /\ IdsOf(tracks) \cup {k[2] : k \in DOMAIN states} \subseteq 1..(nextId - 1)
  /\ people \subseteq confirmed

\* Both, for every way tracks are missed, lost and matched again.
FramesAreFollowed == DebounceIsExact /\ IdentitiesAreStable
=============================================================================
